SPECIFICATION FairSpec
CONSTANTS
    TimerId <- MCTimerId
    Word = 3
    PerMs = 2
    MaxTime = 3
    Afters = {0, 1, 2}
    Intervals = {0, 2}
INVARIANTS
    TypeOK
    StaysArmed
    DeletedIsGone
PROPERTIES
    FiresInOrder
    DueFires
CHECK_DEADLOCK FALSE
