\* Two threads, values up to 2.
SPECIFICATION Spec
CONSTANTS
    main = main
    t1 = t1
    s1 = s1
    Threads <- TwoThreads
    Main = main
    Sems <- OneSem
    InitValues = {0, 1, 2}
    IntMax = 2
    NullCodes = {}
    NoThread = NoThread
    NoSem = NoSem
\* The hart stops when it is out of threads or of memory.
CHECK_DEADLOCK FALSE
PROPERTY
    TryWaitTakes
