SPECIFICATION MCFairSpec
CONSTANTS
    c1 = c1
    c2 = c2
    MaxRequests = 2
    Callers <- TwoCallers
    HolderChoices <- AnyHolder
    RoomChoices <- AnyRoom
    CtxChoices <- AnyCtx
    ErrChoices <- NoBytes
INVARIANTS
    TypeOK
    ReleasedAtRest
PROPERTIES
    ImplementsConnection
    CallReturnsCloseReleases
CHECK_DEADLOCK FALSE
