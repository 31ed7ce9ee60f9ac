SPECIFICATION Spec
CONSTANTS
    MAX_PROCESSES = 3
    MAX_PROCS = 3
    BURST_TIME = 3
    TIME_SLICE = 1
    Entries <- KernelMainEntries
    Iterations <- OneRound
    Faults <- NoFaults
INVARIANT
    SavedContextIsOwn
CHECK_DEADLOCK FALSE
