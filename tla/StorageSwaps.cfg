SPECIFICATION Spec
CONSTANTS
    Size = 6
    Processors = {}
    Swappers = {s1, s2}
SYMMETRY Symmetry
PROPERTY ImplementsSwaps
CHECK_DEADLOCK FALSE
