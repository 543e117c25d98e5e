SPECIFICATION MCSpec
CONSTANTS
    a = a
    b = b
    NoName = NoName
    Names = {a, b}
    MaxProcs = 3
    MaxFrames = 4
    MaxReconnects = 2
    StreamCap = 2
    FetchAttempts = 3
    OnArrivals = {TRUE, FALSE}
    MayBreak = TRUE
    MaxPanics = 1
    MaxLives = 3
    Connections = 2
    ChannelCap = 2
    EnrichRetries = 2
    RestartAsks = 2
    Endpoints <- MCEndpoints
    Scraped = {"p"}
    Local = {"l"}
    Streamed = {"q"}
    Every = 1
    Timeout = 1
    Bound = 1
    Served = 1
    Delay = 0
    Stops = {"exit", "grace", "now"}
    Corrections <- MCCorrections
    Starting <- MCStarting
    LateSources = {"p"}
    StreamRoom = 1
    MaxClock = 4
    MaxPatches = 1
    MaxCorrections = 1
SYMMETRY Symmetry
INVARIANTS RowsReadUnderTheirEpoch OneProducer FinishCommitsAll RepliesDescribeTheirProcess
INVARIANTS EndsAtTheExit StopIsTakenInTurn
CHECK_DEADLOCK FALSE
