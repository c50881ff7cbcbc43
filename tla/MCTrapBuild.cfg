\* main and one thread, in the build that the Makefile's -Og allows, with
\* nobody printing.
SPECIFICATION Spec
CONSTANTS
    main = main
    a = a
    b = b
    Threads <- TwoThreads
    Main = main
    Printers = {}
    Values = {5}
    MaxAt = 3
    Builds = {TRUE}
\* A thread stops after MaxAt instructions.
CHECK_DEADLOCK FALSE
INVARIANT
    ComesBack
