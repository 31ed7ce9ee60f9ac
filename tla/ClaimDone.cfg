SPECIFICATION FullFairSpec
CONSTANTS
    MAX_PROCESSES = 2
    MAX_PROCS = 2
    BURST_TIME = 2
    TIME_SLICE = 1
    Entries <- TwoLockers
    Iterations <- OneRound
    Faults <- NoFaults
PROPERTY
    AllProcessesDone
CHECK_DEADLOCK FALSE
