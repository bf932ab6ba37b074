SPECIFICATION FairSpec
CONSTANTS
    MaxRequests = 1
    HolderChoices <- StdoutHeld
    RoomChoices <- WideRoom
    StderrChoices <- NoStderr
PROPERTIES
    CallEndsWithClose
CHECK_DEADLOCK FALSE
