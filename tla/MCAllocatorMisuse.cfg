\* Programs may free a block twice.
SPECIFICATION Spec
CONSTANTS
    HeapSizes = {37}
    BlockSize = 8
    HeaderSize = 3
    Misuse = TRUE
PROPERTY
    StrangersRefused
