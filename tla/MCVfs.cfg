SPECIFICATION Spec
CONSTANTS
    NodeIds = {n0, n1, n2}
    Root = n0
    NULL = NULL
    NoFile = NoFile
    Lost = Lost
    NUM_BLOCKS = 2
    BLOCK_SIZE = 2
    Names = {"a", "cut", "cut+"}
    Truncated <- MCTruncated
    NameLen <- MCNameLen
    MAX_INPUT_LEN = 6
    Contents <- MCContents
    MAX_PATH_DEPTH = 3
    MallocMayFail = FALSE
INVARIANTS
    TreeIntact
    PathLeadsBack
PROPERTY
    FilesHoldWhatWasWritten
CHECK_DEADLOCK FALSE
