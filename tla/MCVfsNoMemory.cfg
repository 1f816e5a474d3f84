SPECIFICATION Spec
CONSTANTS
    NodeIds = {n0, n1, n2}
    Root = n0
    NULL = NULL
    NoFile = NoFile
    Lost = Lost
    NUM_BLOCKS = 3
    BLOCK_SIZE = 2
    Names = {"a", "b"}
    Truncated <- MCTruncated
    NameLen <- MCNameLen
    MAX_INPUT_LEN = 6
    Contents <- MCLengths
    MAX_PATH_DEPTH = 2
    MallocMayFail = TRUE
INVARIANT
    BlocksExclusive
CHECK_DEADLOCK FALSE
