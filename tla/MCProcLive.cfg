SPECIFICATION FairSpec
CONSTANTS
    Cpu = {c1, c2}
    Proc = {init, p1, p2}
    initproc = init
    NULL = NULL
PROPERTIES
    WaitReturns
    RunnableRuns
\* Whether everyone may end up waiting is checked with MCProc.cfg, on three CPUs;
\* here a system that stops is for the properties to judge.
CHECK_DEADLOCK FALSE
