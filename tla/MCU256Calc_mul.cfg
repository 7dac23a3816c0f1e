CONSTANTS
    W = 2
    OverflowChecks = FALSE
    Operands <- MCOperands
SPECIFICATION Spec
INVARIANT MulMatchesIntegers
