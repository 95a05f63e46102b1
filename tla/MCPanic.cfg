SPECIFICATION FairSpec
CONSTANTS
    NULL = NULL
    ncpus = 3
INVARIANTS
    OneReporter
    LockExcludes
PROPERTY
    PanicEnds
