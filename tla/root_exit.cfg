SPECIFICATION Spec
CONSTANTS
    MAX_PROCESSES_DEC = 3
    NUM_TERMS = 2
    Admitted <- RootExit
INVARIANT RunningIsAllocated
CHECK_DEADLOCK FALSE
