SPECIFICATION MCFairSpec
CONSTANTS
    c1 = c1
    c2 = c2
    MaxRequests = 2
    MaxInterrupts = 1
    Callers <- TwoCallers
    HolderChoices <- AnyHolder
    RoomChoices <- AnyRoom
    StderrChoices <- AnyStderr
INVARIANTS
    TypeOK
    OwnAnswerUninterrupted
    ReleasedAtRest
PROPERTIES
    ImplementsConnection
    CallAndCloseReturn
    ReaderThreadEnds
CHECK_DEADLOCK FALSE
