SPECIFICATION MCSpec
CONSTANTS
    Processes = {p1, p2, p3, p4}
    NULL = NULL
    Nodes = {root, n1, n2, n3}
    Root = root
    Blocks = {1, 2, 3}
    Cells = {c1, c2, c3, c4}
CHECK_DEADLOCK FALSE
PROPERTIES
    ImplementsQueues
    ImplementsLists
