SPECIFICATION Spec
CONSTANTS
    Proc = {p1, p2}
    InitProc = p1
    PoolSize = 13
    PGSIZE = 2
    TABLE_ENTRIES = 2
    LEAF = 2
    MaxSize = 9
    MaxImage = 1
    Value = {0, 1}
INVARIANT PagesOwnedOnce
PROPERTY ImplementsAddrSpace
CHECK_DEADLOCK FALSE
VIEW UpToRenaming
