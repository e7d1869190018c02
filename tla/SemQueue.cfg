SPECIFICATION FairSpec
CONSTANTS
    Nodes = {n1, n2, n3}
    NULL = NULL
    Wild = Wild
    Capacities = {1, 2, 3, 4}
    Width = 5
    LongWidth = 2
INVARIANTS TypeOK TokensBalance NeverRefuses
PROPERTY ImplementsFairFifo
CHECK_DEADLOCK FALSE
