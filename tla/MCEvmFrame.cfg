CONSTANTS
    UintBits = 12
    OverflowChecks = TRUE
    GasMemory = 3
    QuadDivisor = 512
    StackLimit = 3
    InitialGas = 200
    CallStipend = 5
    MaxCalls = 2
    CallInputs <- MCCallInputs
    Extensions <- MCExtensions
SPECIFICATION Spec
CHECK_DEADLOCK FALSE
INVARIANTS
    TypeOK
    MemoryPaidFor
    AccessesWithinMemory
PROPERTIES
    CallerKeepsOneSixtyFourth
