SPECIFICATION Spec
CONSTANTS
    MAX_PROCESSES = 3
    MAX_PROCS = 3
    BURST_TIME = 3
    TIME_SLICE = 1
    Entries <- MoreThanSlots
    Iterations <- TwoRounds
    Faults <- SomeFaults
INVARIANTS
    TypeOK
    ReadyQueueSound
    NoLostProcess
    OwnContext
    NoUseAfterFree
    HolderNext
    MutualExclusion
PROPERTIES
    WaitingNotCharged
    ImplementsLifecycle
CHECK_DEADLOCK FALSE
