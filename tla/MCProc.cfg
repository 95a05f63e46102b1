SPECIFICATION Spec
CONSTANTS
    Cpu = {c1, c2, c3}
    Proc = {init, p1, p2}
    initproc = init
    NULL = NULL
SYMMETRY Symmetry
INVARIANTS
    LockOrder
    RunsOnce
    RunqExact
    FreeIsUnreachable
    SchedHoldsOnlyOwnLock
    NoLostExit
