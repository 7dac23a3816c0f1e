CONSTANTS
    Keys <- MCKeys
    Values <- MCValues
    Default <- MCDefault
    Keccak <- MCKeccak
INIT Init
NEXT Next
INVARIANT TypeOK
 
INVARIANT NodeEncodingMatchesSpec
PROPERTY ImplementsKVMap
