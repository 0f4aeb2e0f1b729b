SPECIFICATION Spec
CONSTANTS
    BlockChars = 2
    WidthUnit = 2
    InvalidTails = {1}
    Batch = 2
    LineBatch = 2
    FirstLineProbe = 1
    Streams <- AllStreams
    LaterStreams <- ShortStreams
    ChunkSizes = {1, 5}
INVARIANTS
    CarryIsPayloadTail
    LinesDescribePayload
PROPERTIES
    ImplementsStrict
    CallsReturn
