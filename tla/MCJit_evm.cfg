CONSTANTS
    ByteBits = 4
    LimbBytes = 1
    Programs <- MCTestProgram
    EntryStacks <- MCTestEntry
SPECIFICATION Spec
INVARIANT CompiledMatchesEvm
CHECK_DEADLOCK FALSE
