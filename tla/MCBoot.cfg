\* main, the thread of userMain and one more; `Semaphore sem;` opens with 1.
SPECIFICATION BootSpec
CONSTANTS
    main = main
    t1 = t1
    t2 = t2
    t3 = t3
    s1 = s1
    s2 = s2
    Threads <- ThreeThreads
    Main = main
    Sems <- TwoSems
    InitValues = {0, 1}
    IntMax = 1
    NullCodes <- NoStack
    NoThread = NoThread
    NoSem = NoSem
    UserThread = t1
    MainSem = s1
    SemInit = 1
\* The hart stops when it is out of threads or of memory.
CHECK_DEADLOCK FALSE
INVARIANT
    UserMainStarts
