SPECIFICATION Spec
CONSTANTS
    NULL = NULL
    Reader = {p1, p2}
    BufSize = 2
    DrainMax = 2
    ReadMax = 2
    FifoDepth = 1
    MaxIn = 4
SYMMETRY MCSymmetry
CHECK_DEADLOCK FALSE
INVARIANTS
    ScreenIsInput
    NobodySleepsOnInput
    EveryEofIsSeen
