SPECIFICATION Spec
CONSTANTS
    NULL = NULL
    CPU = {c1, c2}
    Proc = {p1, p2}
    NumAsid = 4
    MaxGen = 2
SYMMETRY MCSymmetry
INVARIANTS
    NoStaleTranslation
    RunningAsidsDistinct
    RolloverFindsOne
