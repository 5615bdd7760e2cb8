\* Two frames, samples at any pace, a prefix of a single sample.
SPECIFICATION RxFairSpec
CONSTANTS
    N_FFT = 8
    N_CP = 1
    N_SYM = 2
    N_CW = 16
    PtrMod = 16
    MaxCw = 2
    DataBins <- SmallDataBins
    PilotBins <- SmallPilotBins
    Junk <- MCJunk
INVARIANTS RxTypeOK NoSampleDropped RxAligned LlrComplete
PROPERTY FrameDecodable
