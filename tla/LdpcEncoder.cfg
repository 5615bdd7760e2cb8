\* The code of the two files, with the test pattern of ofdm_ldpc_pl.
SPECIFICATION EncFairSpec
CONSTANTS
    Z = 64
    MB = 8
    NB = 16
    MaxBlocks = 2
    EncHB <- RealEncHB
    DecHB <- RealDecHB
    None <- X
    Blocks <- RealBlocks
INVARIANTS EncTypeOK EncodesForDecoder CarriesBlock
PROPERTY Announced
