SPECIFICATION Spec
CONSTANTS
    MAX_PROCESSES_DEC = 4
    NUM_TERMS = 3
    Admitted <- NoEvents
INVARIANT NeverLost
INVARIANT ScreenHasProcess
CHECK_DEADLOCK FALSE
