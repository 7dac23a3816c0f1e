CONSTANTS
    Inputs <- MCInputs
    OverflowChecks = FALSE
INIT Init
NEXT Next
INVARIANT RoundTrip
CHECK_DEADLOCK FALSE
