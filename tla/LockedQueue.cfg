SPECIFICATION FairSpec
CONSTANTS
    Nodes = {n1, n2}
    NULL = NULL
    Wild = Wild
    Capacities = {0, 1, 2}
    Width = 4
    LongWidth = 2
INVARIANTS Consistent TouchesAllocated ReadsInSequence
PROPERTIES ImplementsFifo SomeCallReturns
