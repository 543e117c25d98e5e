SPECIFICATION MCFairSpec
CONSTANTS
    ChanCap = 1
    QueueCap = 2
    MaxEmit = 5
    a = a
    b = b
    NoName = NoName
    Names = {a, b}
    MaxProcs = 2
    MaxFrames = 2
    MaxReconnects = 1
    StreamCap = 2
    FetchAttempts = 3
    OnArrivals = {TRUE, FALSE}
    MayBreak = TRUE
    MaxPanics = 1
    MaxLives = 2
    Connections = 0
    ChannelCap = 1
    EnrichRetries = 1
    RestartAsks = 1
    Endpoints <- MCEndpoints
PROPERTIES DeliverySpec EventuallyAccounted RestartsAreWritten FailureIsReported StartsWhenReachable
CHECK_DEADLOCK FALSE
