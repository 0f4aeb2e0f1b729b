SPECIFICATION Spec
CONSTANTS
    BlockChars = 2
    WidthUnit = 2
    InvalidTails = {1}
    Batch = 8
    LineBatch = 2
    FirstLineProbe = 1
    Streams <- LongLines
    LaterStreams <- LongLines
    ChunkSizes = {1, 2, 3, 8}
PROPERTIES
    RereadBoundedByLine
