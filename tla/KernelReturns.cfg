SPECIFICATION FairSpec
CONSTANTS
    MAX_PROCESSES = 3
    MAX_PROCS = 3
    BURST_TIME = 3
    TIME_SLICE = 1
    Entries <- OnlyOthers
    Iterations <- OneRound
    Faults <- KillingFaults
PROPERTIES
    KernelRegainsControl
    ZombieReaped
CHECK_DEADLOCK FALSE
