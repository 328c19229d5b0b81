SPECIFICATION Spec
CONSTANTS
    MAX_PROCESSES_DEC = 4
    NUM_TERMS = 3
    Admitted <- SwitchInHalt
CHECK_DEADLOCK FALSE
INVARIANT RunningIsAllocated
INVARIANT ParentWaits
INVARIANT NoLeakedSlot
PROPERTY HaltReturnsToParent
PROPERTY ImplementsTerminalStacks
