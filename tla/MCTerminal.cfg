CONSTANTS
    NumTerminals <- MCNumTerminals
    BufSize <- MCBufSize
    IndexMod <- MCIndexMod
    NLByte <- MCNLByte
    ReadLen <- MCReadLen
    MaxKeys = 3
SPECIFICATION Spec
INVARIANTS
    TypeOK
    DisplayIsolation
    ActiveFlagsMatch
PROPERTIES
    ConsolesRefinement
