\* Power-up, and one reset at any moment of the run.
SPECIFICATION FairSpec
CONSTANTS
    N_FFT = 4
    N_CP = 1
    N_SYM = 3
    N_CW = 8
    PtrMod = 8
    DataBins <- SmallDataBins
    PilotBins <- SmallPilotBins
    Junk <- MCJunk
    Z = 2
    MB = 2
    NB = 4
    KB = 2
    EncHB <- SmallHB
    DecHB <- SmallHB
    None <- X
    MAX_ITER = 2
    Sat = 3
    Level = 2
    NoNumber = NoNumber
    POR = 2
    DELAY = 3
    Blocks <- SmallPatterns
    MaxBlocks = 1
    MaxCw = 1
    Frames = {}
    MaxResets = 1
INVARIANTS TypeOK EndToEnd PassWhenDone StartsInPlace
PROPERTY Finishes
