SPECIFICATION MemSpec
CONSTANTS
    TotalEntries = 12
    BlockSize = 2
    BootSizes <- KernelBoot
    RuntimeSizes <- StreamSizes
    MAX_PROCS = 3
    StackPages = 2
    FreedPages = 1
    PMM_ENTRIES = 1
    FreeFrames = {2, 3, 5, 6}
    MaxCreates = 5
INVARIANTS
    MemTypeOK
    Disjoint
    TableMatches
    InsideHeap
    FirstFitAsLoop
    Isolation
    StackComplete
    MemoryAccount
CHECK_DEADLOCK FALSE
