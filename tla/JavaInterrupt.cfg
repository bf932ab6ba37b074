SPECIFICATION Spec
CONSTANTS
    c1 = c1
    c2 = c2
    MaxRequests = 2
    MaxInterrupts = 1
    Callers <- OneCaller
    HolderChoices <- NoHolder
    RoomChoices <- WideRoom
    StderrChoices <- NoStderr
INVARIANTS
    OwnAnswer
CHECK_DEADLOCK FALSE
