SPECIFICATION FairSpec
CONSTANTS
    MaxRequests = 2
    HolderChoices <- AnyHolder
    RoomChoices <- AnyRoom
    StderrChoices <- AnyStderr
INVARIANTS
    TypeOK
    OwnAnswer
    ReleasedAtRest
    ReaderNotParked
PROPERTIES
    SignalsUnreapedInOrder
    ImplementsConnection
    CallAndCloseReturn
    ReaderThreadEnds
CHECK_DEADLOCK FALSE
