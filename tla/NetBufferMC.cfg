SPECIFICATION BothSpec
CONSTANTS
    a = a
    b = b
    none = none
    Byte <- MCByte
    Junk <- none
    BUF_LEN = 2
    ExtraSize = 2
    MaxData = 3
    MaxUnread = 4
    BlockSize = 14
    Scalars <- MCScalars
    Strings <- MCStrings
    MaxFields = 3
INVARIANTS
    TypeOK
    FieldsArrive
PROPERTIES
    ImplementsByteQueue
    CallsCarryTheirData
    GrowsOnlyWhenFull
