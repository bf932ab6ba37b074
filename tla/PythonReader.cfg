SPECIFICATION FairSpec
CONSTANTS
    c1 = c1
    c2 = c2
    MaxRequests = 1
    Callers <- OneCaller
    HolderChoices <- NoHolder
    RoomChoices <- WideRoom
    StderrChoices <- NoStderr
PROPERTIES
    ReaderThreadEnds
CHECK_DEADLOCK FALSE
