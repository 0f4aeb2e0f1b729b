SPECIFICATION Spec
CONSTANTS
    BlockChars = 4
    WidthUnit = 4
    InvalidTails = {1}
    Batch = 2
    LineBatch = 2
    FirstLineProbe = 1
    Streams <- BlockStreams
    LaterStreams <- ShortStreams
    ChunkSizes = {1, 3, 7}
INVARIANTS
    WritesInBounds
PROPERTIES
    ErrorIsFinal
    ImplementsStrict
