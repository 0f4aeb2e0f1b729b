SPECIFICATION EncSpec
CONSTANTS
    Chunks <- UpToTwo
    MaxBytes = 6
INVARIANTS
    EncQueueBounded
    EncodeFits
    EncNeverReallocates
    EncodesAsReference
