CONSTANTS
    NAME_SIZE = 2
    Dir <- MCDir
    Slot = {s0, s1}
    Terminal = {t0, t1}
    FirstTerminal = t0
    NUM_DESCRIPTORS = 4
    FileLength <- MCFileLength
    Names <- MCNames
    MaxRead = 1
SYMMETRY Symmetry
SPECIFICATION Spec
INVARIANTS TypeOK BadCallsFail
PROPERTIES ImplementsOpenFiles ListingIsWhole
