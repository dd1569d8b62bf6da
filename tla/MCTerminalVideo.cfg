CONSTANTS
    NumTerminals <- MCNumTerminals
    BufSize <- MCBufSize
    IndexMod <- MCIndexMod
    NLByte <- MCNLByte
    ReadLen <- MCReadLen
    MaxKeys = 0
SPECIFICATION Spec
INVARIANT
    VideoIsolation
