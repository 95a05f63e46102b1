SPECIFICATION Spec
CONSTANTS
    PGSIZE = 2
    BLOCK_SIZE_2M = 4
    BLOCK_SIZE_1G = 8
    KSTACK_WINDOW_L1 = 4
    MemEnd = 34
    MAX_HWCNT = 2
    MAX_EXCNT = 2
    VM_PHYSSEG_MAX = 3
    NCPU_MAX = 3
    CELL = 16
    Machine <- MCMachine
    BootMpidr = 0
    ImageAddr <- MCImageAddr
    DescSize = 1
CHECK_DEADLOCK FALSE
INVARIANTS
    TypeOK
    ReadsTheMachine
    SegmentsAreExact
    DescriptorsFit
    MapsExactly
