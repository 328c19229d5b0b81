CONSTANTS
    Ascii <- MCAscii
    HEX_DIGITS = 2
    NAME_SIZE = 2
    Dir <- MCDir
    Slot = {s0, s1, s2}
    Terminal = {t0, t1}
    FirstTerminal = t0
    Executable = {1, 3}
    FILENAME_SIZE = 5
    MAX_ARG_BUF_SIZE = 5
    ShellName <- MCShellName
    ExitLine <- MCExitLine
    Lines <- MCLines
    Requests = {0, 2, 5}
SYMMETRY Symmetry
SPECIFICATION Spec
INVARIANTS TypeOK ArgsArrive
