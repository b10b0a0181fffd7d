SPECIFICATION Spec
CONSTANTS
    none = none
    Junk <- none
    Kinds <- MCCodecPeer
    HeadSize = 2
    DEF_PACK_MAX = 4
    MaxBody = 3
    MaxStream = 9
    BUF_LEN = 2
    ExtraSize = 2
INVARIANT
    OwnPacksIntact
CHECK_DEADLOCK FALSE
