SPECIFICATION Spec
CONSTANTS
    Nodes = {n1, n2, n3}
    NULL = NULL
    Wild = Wild
    Capacities = {2}
    Width = 5
    LongWidth = 1
INVARIANT MemorySafe
CHECK_DEADLOCK FALSE
