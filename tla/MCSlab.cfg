SPECIFICATION Spec
CONSTANTS
    A = A
    B = B
    M = M
    NULL = NULL
    CPU = {c1, c2}
    Page = {g1, g2}
    CacheList <- MCCacheList
    Slots <- MCSlots
    MagDepth = 1
SYMMETRY MCSymmetry
INVARIANTS
    ObjectsConserved
    SlabsOnRightList
    NoCircularWait
