SPECIFICATION SSSpec
CONSTANTS
    NoName = NoName
    Names = {a, b}
    MaxProcs = 3
    MaxFrames = 3
    MaxReconnects = 2
    StreamCap = 2
    FetchAttempts = 3
    OnArrivals = {FALSE}
    MayBreak = FALSE
    MaxPanics = 0
INVARIANTS FinishWritesPendingRestarts
CHECK_DEADLOCK FALSE
