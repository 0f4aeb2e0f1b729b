SPECIFICATION Spec
CONSTANTS
    Chunks <- UpToTwo
    MaxBytes = 4
    Texts = {}
    MaxSymbols = 11
    Pieces = {1, 3}
    MaxJunk = 1
PROPERTIES
    ImplementsBytePipe
