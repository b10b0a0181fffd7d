SPECIFICATION FairSpec
CONSTANTS
    Thread <- MCThread
    Buffer <- MCBuffer
    BufSize = 2
    Lens = {1, 2}
    MaxLines = 5
    TickLimit = 1
    FileSize = 2
    MaxSecond = 1
INVARIANTS
    TypeOK
    LostOnlyWhenFull
    InOrderUnlessFlushed
PROPERTIES
    LinesAreWritten
CHECK_DEADLOCK FALSE
