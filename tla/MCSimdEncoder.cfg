SPECIFICATION Spec
CONSTANTS
    Streams <- VariedStream
    ChunkSizes = {1, 5, 12, 13, 16, 40}
    Widths = {0, 32, 64, 96}
    Batch = 4
INVARIANTS
    LengthExact
    WritesInBounds
    LoadsInBounds
    SessionFits
PROPERTIES
    ImplementsCanonical
