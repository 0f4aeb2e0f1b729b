SPECIFICATION Spec
CONSTANTS
    Files <- MCFiles
    PipeSize = 2
    BufSize = 3
    BufLens = {0, 1, 3}
    Writes <- MCWrites
    MaxBytes = 4
    Capacity = 3
    MaxTrouble = 2
    Decoded <- DecodedBy
    Whole <- WholeBy
    Rejects <- RejectsBy
    RejectsEnd <- RejectsEndBy
    Text <- TextOf
    Closed <- ClosedOf
INVARIANTS
    PipeRoundTrip
    EofMeansAll
    TextInOrder
    FinishIsWhole
PROPERTIES
    ReadsReturn
    WritesReturn
    ImplementsSource
