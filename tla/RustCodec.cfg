SPECIFICATION Spec
CONSTANTS
    IntWidth = 4
    Pieces <- MCPieces
    MaxPieces <- MCMaxPieces
    Params <- MCParams
    MaxParams = 3
    Samples <- MCSamples
    MaxChanges = 2
INVARIANTS
    ParsesExactlyJson
    NumbersExact
    RequestsSurvive
    RepliesStrict
    Base64Strict
    NumbersScanned
    StringsScanned
    StringsSurvive
CHECK_DEADLOCK FALSE
