SPECIFICATION Spec
CONSTANTS
    NUM_COLS = 3
    NUM_ROWS = 2
    SLACK = 1
    NUM_TERMS = 2
    VideoPages <- MCPages
    Slot = {s0, s1, s2}
    LINE_SIZE = 4
    Admitted = {}
SYMMETRY Symmetry
INVARIANTS TypeOK ScreensPrivate CursorNearScreen UserReach
PROPERTIES TerminalsIndependent
