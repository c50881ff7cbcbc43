\* Two threads.
SPECIFICATION Spec
CONSTANTS
    Threads = {a, b}
\* A thread that believes it failed while it holds the lock spins for ever.
CHECK_DEADLOCK FALSE
INVARIANT
    ReturnTells
