\* main and two threads, each with three instructions; both builds; all may
\* print.
SPECIFICATION Spec
CONSTANTS
    main = main
    a = a
    b = b
    Threads <- ThreeThreads
    Main = main
    Printers = {main, a, b}
    Values = {5, 7}
    MaxAt = 3
    Builds = {TRUE, FALSE}
\* The hart stops at a fault, and a thread after MaxAt instructions.
SYMMETRY Alike
CHECK_DEADLOCK FALSE
INVARIANTS
    TypeOK
    ReturnsHome
    
    
    
    RegisterKept
    OnlyTimerSkips
