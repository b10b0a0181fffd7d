SPECIFICATION Spec
CONSTANTS
    Conn <- MCConn
    MaxAge = 0
    Streams <- MCStreams
INVARIANTS
    LastAnswerIsLast
    BodyReadFirst
    FramesInOrder
    NothingWaits
CHECK_DEADLOCK FALSE
