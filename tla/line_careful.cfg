SPECIFICATION Spec
CONSTANTS
    LINE_SIZE = 2
    NUM_COLS = 2
    NUM_ROWS = 2
    NUM_TERMS = 2
    Letters = {a, b}
    Sizes = {1, 3}
    Admitted <- FullLines
SYMMETRY LetterSymmetry
CHECK_DEADLOCK FALSE
INVARIANTS TypeOK BufferIsLine
PROPERTIES LineDelivered
