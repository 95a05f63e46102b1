SPECIFICATION Spec
CONSTANTS
    A = A
    B = B
    M = M
    NULL = NULL
    CPU = {c1}
    Page = {g1, g2, g3}
    CacheList <- MCCacheList
    Slots <- MCSlots
    MagDepth = 1
SYMMETRY MCSymmetry
INVARIANT
    NeverTakesOwnLock
