SPECIFICATION Spec
CONSTANTS
    Connections = {k1, k2}
    NULL = NULL
    Amounts = {3}
    Garbage = {2}
    Initial = 4
    MANTISSA = 3
    MAX_REQUESTS = 2
    MAX_CRASHES = 1
    OpenMayFail = FALSE
    InputMayJam = TRUE
SYMMETRY MCSymmetry
INVARIANTS
    NoStaleBalance
    TransactionsAreAskedFor
PROPERTY
    AtomicLedger
CHECK_DEADLOCK FALSE
