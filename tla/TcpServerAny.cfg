SPECIFICATION Spec
CONSTANTS
    Conn <- MCConn
    Settings <- MCAny
    MaxCount = 7
    DEF_CONN_TIME_OUT = 0
    MaxAge = 2
    MaxQueue = 1
INVARIANTS
    ClosedOnce
    NoDanglingPointer
    IdleListInOrder
CHECK_DEADLOCK FALSE
