SPECIFICATION LiveSpec
CONSTANTS
    Connections = {k1, k2}
    NULL = NULL
    Amounts <- MCSigned
    Garbage = {2}
    Initial = 4
    MANTISSA = 3
    MAX_REQUESTS = 1
    MAX_CRASHES = 1
    OpenMayFail = TRUE
    InputMayJam = FALSE
INVARIANT
    NoOverdraft
PROPERTY
    MutexGivenBack
CHECK_DEADLOCK FALSE
