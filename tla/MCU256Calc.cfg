CONSTANTS
    W = 2
    OverflowChecks = FALSE
    Operands <- MCOperands
SPECIFICATION Spec
INVARIANTS
    TypeOK
    CarryChainCorrect
    ShiftsCorrect
    DivisionCorrect
    DecodeIntCorrect
    HexDecodeCorrect
