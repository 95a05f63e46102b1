SPECIFICATION Spec
CONSTANTS
    Thread = {t1, t2}
    NSLOTS = 3
    SLOTS_PER_L3 = 2
    KSTACK_PAGES = 2
    Page = {g1, g2, g3, g4, g5}
    NULL = NULL
INVARIANTS OwnedOnce PagesConserved StaleOnlyFromUnwind
SYMMETRY MCSymmetry
