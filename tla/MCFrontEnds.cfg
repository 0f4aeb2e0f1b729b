SPECIFICATION Spec
CONSTANTS
    Inputs <- MCInputs
    Texts <- MCTexts
    Options <- MCOptions
    Objects <- MCObjects
    IsHenke <- MCIsHenke
    ReadSizes = {1}
    MaxMishaps = 1
    NoWrap <- MCNoWrap
    LineFeed = 91
    Written <- MCWritten
    Ended <- MCEnded
    Decoded <- MCDecoded
    Whole <- MCWhole
    Rejects <- MCRejects
    RejectsEnd <- MCRejectsEnd
INVARIANTS
    ToolIsHonest
    SessionsApart
    RoundTrip
PROPERTIES
    ToolEnds
CHECK_DEADLOCK FALSE
