SPECIFICATION Spec
CONSTANTS
    BLOCK_SIZE = 3
    INODE_BLOCKS = 3
    Block <- Scattered
    length_in_bytes = 9
    WORD = 32
    MaxRequest = 10
CHECK_DEADLOCK FALSE
INVARIANTS TypeOK CopiesTheFile
PROPERTIES ReadsAllItCan ImplementsFileStream
