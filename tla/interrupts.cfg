SPECIFICATION FairSpec
CONSTANTS
    NUM_TERMS = 2
    Frequencies <- AllFrequencies
CHECK_DEADLOCK FALSE
INVARIANTS TypeOK ServedLines TickAccounted ClockRunsAtRequest
PROPERTIES ReturnMeansTick KeysServed ReaderWakes
