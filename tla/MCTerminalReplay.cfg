CONSTANTS
    NumTerminals <- MCNumTerminals
    BufSize <- MCBufSize
    IndexMod <- MCIndexMod
    NLByte <- MCNLByte
    ReadLen <- MCReadLen
    MaxKeys = 3
SPECIFICATION Spec
INVARIANT
    NoReplay
