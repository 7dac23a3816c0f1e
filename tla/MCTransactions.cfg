CONSTANTS
    a1 = a1
    None = None
    Addr <- MCAddr
    NoAddr <- None
    SecpN = 11
    U64Bits = 4
    UintBits = 16
    OverflowChecks = TRUE
    MaxCodeSize = 1
    GasPerBlob = 4
    MinBlobGasprice = 1
    BlobGaspriceUpdateFraction = 8
    TaylorBound = 40
    TxInputs <- MCTxInputs
    ChainIds <- MCChainIds
    Excesses <- MCExcesses
SPECIFICATION Spec
INVARIANTS TypeOK DecodeInvertsEncode RejectsNonCanonicalSignature SignsEveryField IntrinsicCostMatchesEip
PROPERTIES DataFeeMonotone
