SPECIFICATION FairSpec
CONSTANTS
    main = main
    worker = worker
    loopThread = loopThread
    Threads <- MCThreads
    Creator <- main
    Loop <- loopThread
    MaxCalls <- MCMaxCalls
INVARIANTS
    TypeOK
    NoLostWakeup
    RunsInOrder
PROPERTIES
    ImplementsTaskQueue
    QueuedRuns
    StopEnds
CHECK_DEADLOCK FALSE
