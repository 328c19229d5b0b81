SPECIFICATION Spec
CONSTANTS
    MAX_PROCESSES_DEC = 3
    NUM_TERMS = 3
    Admitted <- AllEvents
INVARIANT TypeOK
INVARIANT ContextFollowsTerminal
INVARIANT BootShellImmortal
CHECK_DEADLOCK FALSE
