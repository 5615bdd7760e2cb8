SPECIFICATION DecFairSpec
CONSTANTS
    MB = 2
    NB = 4
    Z = 2
    KB = 2
    None <- X
    DecHB <- SmallHB
    MAX_ITER = 2
    Sat = 3
    NoNumber = NoNumber
    Frames <- SmallFrames
    MaxResets = 1
INVARIANTS
    DecTypeOK
    CleanDecodes
PROPERTIES
    ImplementsMinSum
    Decodes
