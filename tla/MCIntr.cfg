SPECIFICATION FairSpec
CONSTANTS
    NULL = NULL
    CPU = {c0, c1}
    Boot = c0
    User = {u}
    Ithread = it
    FifoDepth = 1
    DrainMax = 1
INVARIANTS
    OneOwesDeactivation
    PriorityIsBalanced
PROPERTY
    InputIsServed
