SPECIFICATION DecSpec
CONSTANTS
    Texts <- UpToThree
    MaxSymbols = 7
INVARIANTS
    DecQueueBounded
    DecodeFits
    DecNeverReallocates
    DecodesAsReference
