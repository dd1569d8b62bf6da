CONSTANTS
    NumTerminals <- MCNumTerminals
    BufSize <- MCBufSize
    IndexMod <- MCIndexMod
    NLByte <- MCNLByte
    ReadLen <- MCReadLen
    MaxKeys = 5
SPECIFICATION Spec
INVARIANT
    InputWithinBuffer
