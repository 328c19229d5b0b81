SPECIFICATION FairSpec
CONSTANTS
    LINE_SIZE = 1
    NUM_COLS = 1
    NUM_ROWS = 2
    NUM_TERMS = 3
    Letters = {"a"}
    Sizes = {2}
    Admitted <- AnyTime
CHECK_DEADLOCK FALSE
PROPERTIES EnteredLineRead
