SPECIFICATION Spec
CONSTANTS
    Size = 4
    Processors = {}
    Swappers = {s1, s2}
SYMMETRY Symmetry
INVARIANT EnoughToSwap
CHECK_DEADLOCK FALSE
