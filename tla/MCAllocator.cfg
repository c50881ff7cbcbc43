\* Seven blocks and a tail that holds a header; six and one that does not.
SPECIFICATION Spec
CONSTANTS
    HeapSizes = {61, 50}
    BlockSize = 8
    HeaderSize = 3
    Misuse = FALSE
INVARIANTS
    TypeOK
    ListsHold
    Tiled
    Coalesced
PROPERTIES
    ImplementsHeap
    CallsReturn
