SPECIFICATION FairSpec
CONSTANTS
    none = none
    Junk <- none
    Kinds <- MCAllPeers
    HeadSize = 2
    DEF_PACK_MAX = 4
    MaxBody = 3
    MaxStream = 8
    BUF_LEN = 2
    ExtraSize = 2
INVARIANTS
    FramesIntact
    BytesInOrder
PROPERTY
    EveryPackArrives
CHECK_DEADLOCK FALSE
