SPECIFICATION FairSpec
CONSTANTS
    Conn <- MCConn
    Settings <- MCOwn
    MaxCount = 7
    DEF_CONN_TIME_OUT = 0
    MaxAge = 1
    MaxQueue = 1
INVARIANTS
    QuietAfterClose
    CountMatches
PROPERTIES
    ClosedIsDestroyed
    IdleIsClosed
CHECK_DEADLOCK FALSE
