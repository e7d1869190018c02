SPECIFICATION ExampleSpec
CONSTANTS
    Nodes = {n1, n2, n3}
    NULL = NULL
    Wild = Wild
    Capacities = {2, 1000}
    Width = 4
    LongWidth = 1
    Adds = 3
    Gets = {0, 1, 2, 5}
INVARIANTS ExampleTypeOK MemorySafe NothingLeft
PROPERTY Terminates
CHECK_DEADLOCK FALSE
