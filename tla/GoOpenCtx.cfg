SPECIFICATION Spec
CONSTANTS
    c1 = c1
    c2 = c2
    MaxRequests = 1
    Callers <- OneCaller
    HolderChoices <- NoHolder
    RoomChoices <- WideRoom
    CtxChoices <- Cancellable
    ErrChoices <- NoBytes
PROPERTIES
    OpenCtxOnlyOpens
CHECK_DEADLOCK FALSE
