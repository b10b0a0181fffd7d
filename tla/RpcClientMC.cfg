SPECIFICATION FairSpec
CONSTANTS
    ChannelNum = 2
    MaxQueue = 1
INVARIANTS
    StateFollowsConn
PROPERTIES
    EndedMakesNoAttempt
    Retries
    
CHECK_DEADLOCK FALSE
