\* Room for four Elems, two items.
SPECIFICATION Spec
CONSTANTS
    Elems = {e1, e2, e3, e4}
    Data = {x, y}
    Null = Null
\* A program without memory ends at the fault.
CHECK_DEADLOCK FALSE
INVARIANTS
    TypeOK
    ChainIsAllocated
PROPERTIES
    ImplementsDeque
