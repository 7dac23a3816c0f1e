CONSTANTS
    ByteBits = 4
    LimbBytes = 1
    Programs <- MCPrograms
    EntryStacks <- MCEntryStacks
SPECIFICATION Spec
INVARIANTS  StackHeightTracked SingleRegisterElement
CHECK_DEADLOCK FALSE
