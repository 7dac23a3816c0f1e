CONSTANTS
    Inputs <- MCInputs
    OverflowChecks = FALSE
INIT Init
NEXT Next
INVARIANT TypeOK
INVARIANT AcceptsOnlyCanonical
CHECK_DEADLOCK FALSE
