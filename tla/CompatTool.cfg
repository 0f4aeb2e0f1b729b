SPECIFICATION Spec
CONSTANTS
    CHUNK = 2
    BufSizes = {3, 4, 7, 9, 13, 16}
    Widths = {0, 1, 2, 3, 7}
    MaxBytes = 8
INVARIANTS
    InputInOrder
    InsideBuffer
    PrintsLines
PROPERTY
    WithinSlice
