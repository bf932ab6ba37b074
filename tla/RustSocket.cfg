SPECIFICATION MCFairSpec
CONSTANTS
    MaxRequests = 2
    MaxLineBytes = 1
    MaxSignals = 1
    LineLengths <- MCLineLengths
    Timeouts <- MCTimeouts
    AddrChoices <- MCAddrChoices
INVARIANTS
    TypeOK
    LinesAsSent
    DeadlineHonoured
PROPERTIES
    ImplementsConnection
    CallReturns
CHECK_DEADLOCK FALSE
