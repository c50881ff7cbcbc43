\* Two threads and a timer.
SPECIFICATION TimerSpec
CONSTANTS
    main = main
    t1 = t1
    t2 = t2
    t3 = t3
    s1 = s1
    s2 = s2
    Threads <- TwoThreads
    Main = main
    Sems <- OneSem
    InitValues = {0}
    IntMax = 1
    NullCodes = {}
    NoThread = NoThread
    NoSem = NoSem
\* The hart stops when it is out of threads or of memory.
CHECK_DEADLOCK FALSE
PROPERTY
    TimeSharing
