\* Several codewords, offered in any clock.
SPECIFICATION TxFairSpec
CONSTANTS
    N_FFT = 8
    N_CP = 2
    N_SYM = 2
    N_CW = 16
    PtrMod = 16
    MaxCw = 3
    DataBins <- SmallDataBins
    PilotBins <- SmallPilotBins
    Junk <- MCJunk
INVARIANTS TxTypeOK TxAligned LastSampleTaken FrameInOrder
PROPERTY FrameSent
