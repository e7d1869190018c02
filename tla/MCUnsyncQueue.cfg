SPECIFICATION Spec
CONSTANTS
    Nodes = {n1, n2, n3, n4}
    NULL = NULL
    Wild = Wild
    Capacities = {0, 1, 2}
    Width = 6
    LongWidth = 1
SYMMETRY CellSymmetry
INVARIANTS CommonTypeOK CountInRange FirstNeverDangles SkippedValuesLeak
CHECK_DEADLOCK FALSE
