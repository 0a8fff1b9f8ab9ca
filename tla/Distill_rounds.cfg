CONSTANTS
    H <- Repetition
    Length = 3
    Radius = 1
    RoundSize = 4
    TestSize = 2
    ByteLen = 2
    KeySize = 1
    Bases <- TwoBases
    MaxRounds = 3
    MaxNoise = 2
SPECIFICATION Spec
INVARIANT TypeOK
INVARIANT SameTurns
INVARIANT Aligned
INVARIANT SameKey
INVARIANT GolayCorrects
PROPERTY TagCatches
CHECK_DEADLOCK FALSE
