SPECIFICATION FairSpec
CONSTANTS
    ChannelNum = 2
    MaxQueue = 2
PROPERTY
    FailedIsRetried
CHECK_DEADLOCK FALSE
