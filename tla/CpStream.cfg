\* The sink of ofdm_ldpc_top: m_axis_tready tied high.
SPECIFICATION FairSpec
CONSTANTS
    N_FFT = 64
    N_CP = 16
    MaxSym = 3
    Junk <- MCJunk
    Ready <- TopSink
INVARIANTS TypeOK BankExclusive InOrder
PROPERTIES BurstIsSymbol ImplementsFramer Delivered
