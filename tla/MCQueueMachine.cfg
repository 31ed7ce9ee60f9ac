SPECIFICATION Spec
CONSTANTS
    MAX_PROCESSES = 5
    p1 = p1
    p2 = p2
    p3 = p3
    p4 = p4
    NULL = NULL
    Procs = {p1, p2, p3, p4}
    Priority <- MCPriority
INVARIANTS
    TypeOK
    HeapOrder
PROPERTY
    ImplementsPriorityBag
