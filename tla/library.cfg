CONSTANTS
    Ascii <- MCAscii
    HEX_DIGITS = 2
    BUFSIZE = 3
    Words <- MCWords
    MaxCompared = 4
    Memory <- MCMemory
    Block <- MCBlock
    Fillers <- MCFillers
    Values <- MCValues
    Printed <- MCPrinted
    Files <- MCFiles
    Patterns <- MCPatterns
SPECIFICATION LibrarySpec
INVARIANTS CallsAgree
