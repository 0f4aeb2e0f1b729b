SPECIFICATION Spec
CONSTANTS
    Levels <- MCLevels
    Batches <- MCBatches
    Coded <- MCCoded
INVARIANTS
    AccessesInside
    EncodesAsScalar
    DecodesAsScalar
