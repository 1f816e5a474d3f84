SPECIFICATION Spec
CONSTANTS
    Nodes = {n1, n2, n3}
    Keys = {0, 1, 2}
    Values = {"u", "v"}
    Capacities <- MCCapacities
    HASH_TABLE_SIZE = 2
    NULL = NULL
SYMMETRY MCSymmetry
INVARIANT
    ListAndTableAgree
PROPERTY
    ImplementsLru
CHECK_DEADLOCK FALSE
