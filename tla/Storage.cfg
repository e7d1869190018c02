SPECIFICATION Spec
CONSTANTS
    Size = 4
    Processors = {p1, p2}
    Swappers = {s1, s2}
SYMMETRY Symmetry
INVARIANTS LocksMatch ComparesNeighbours OnlySkippingFails
PROPERTY ImplementsSwaps
CHECK_DEADLOCK FALSE
