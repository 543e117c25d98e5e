SPECIFICATION FairSpec
CONSTANTS
    ChanCap = 1
    QueueCap = 2
    MaxEmit = 5
PROPERTIES SentAsTheChannelHasRoom
CHECK_DEADLOCK FALSE
