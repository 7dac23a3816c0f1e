CONSTANTS
    Keys <- MCKeys
    Values <- MCValues
    Default <- MCDefault
    Keccak <- MCKeccak
INIT Init
NEXT Next
PROPERTY RootMatchesSpec
