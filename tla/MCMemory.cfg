\* Three threads, two semaphores with values up to 2, every call; room for both
\* threads' stacks and one that is lost.
SPECIFICATION MemorySpec
CONSTANTS
    main = main
    t1 = t1
    t2 = t2
    s1 = s1
    s2 = s2
    Threads <- ThreeThreads
    Main = main
    Sems <- TwoSems
    InitValues = {0, 1}
    IntMax = 2
    NullCodes <- TwoNullCodes
    NoThread = NoThread
    NoSem = NoSem
    Total = 19
    Stack = 4
    Tcb = 2
    Object = 1
    Elem = 1
SYMMETRY Symmetry
\* The hart stops when it is out of threads or of memory.
CHECK_DEADLOCK FALSE
INVARIANTS
    TypeOK
    OnePlace
    NoneLost
    Contexts
    SemCount
    ClosedIsEmpty
    IdleIsStuck
    Balanced
    StacksLive
PROPERTIES
    ImplementsSemaphores
    NoOvertaking
