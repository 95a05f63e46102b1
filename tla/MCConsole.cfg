CONSTANTS
    t1 = t1
    t2 = t2
    k1 = k1
    k2 = k2
    NULL = NULL
    NUL <- MCNUL
    Thread <- MCThread
    CallerOf <- MCCallerOf
    Caller = {k1, k2}
    Format <- MCFormat
    Text <- MCText
    NL <- MCNL
    RecordMax = 2
    NDesc = 2
    TextSz = 3
    MaxSeq = 4
SPECIFICATION Spec
INVARIANTS
    TypeOK
    EveryRecordAccounted
    QuietMeansFlushed
PROPERTIES
    ImplementsLog
    ReplayHasNoGap
    LoopsWindDown
