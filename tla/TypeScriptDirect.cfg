SPECIFICATION MCFairSpec
CONSTANTS
    MaxRequests = 2
    HolderChoices <- AnyHolder
    RoomChoices <- AnyRoom
    StderrChoices <- AnyStderr
INVARIANTS
    TypeOK
    WaiterIsFed
    ReleasedAtRest
PROPERTIES
    ImplementsConnection
    CallAndCloseReturn
CHECK_DEADLOCK FALSE
