CONSTANTS
    GasLimitAdjustmentFactor = 4
    GasLimitMinimum = 8
    BaseFeeMaxChangeDenominator = 8
    ElasticityMultiplier = 2
    TargetBlobGasPerBlock = 2
    HashWindow = 2
    NoneValue = NoneValue
    ZeroHash = ZeroHash
    KeccakEmptyList = KeccakEmptyList
    JunkHash = JunkHash
    None <- NoneValue
    EmptyOmmerHash <- ZeroHash
    HeaderHash <- MCHeaderHash
    Geneses <- MCGeneses
    Submittable <- MCSubmittable
SPECIFICATION Spec
CONSTRAINT ChainBound
INVARIANT TypeOK
 
PROPERTY AppendOnlyAfterChecks
