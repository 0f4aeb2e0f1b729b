SPECIFICATION Spec
CONSTANTS
    BlockChars = 2
    WidthUnit = 2
    InvalidTails = {1}
    Batch = 2
    LineBatch = 2
    FirstLineProbe = 1
    Streams <- RejectedStreams
    LaterStreams <- RejectedStreams
    ChunkSizes = {1}
PROPERTIES
    FinishErrorRepeats
