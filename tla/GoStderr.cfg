SPECIFICATION Spec
CONSTANTS
    c1 = c1
    c2 = c2
    MaxRequests = 1
    Callers <- OneCaller
    HolderChoices <- NoHolder
    RoomChoices <- WideRoom
    CtxChoices <- AnyCtx
    ErrChoices <- Unread
INVARIANTS
    StderrComplete
CHECK_DEADLOCK FALSE
