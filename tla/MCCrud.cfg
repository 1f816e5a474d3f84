SPECIFICATION Spec
CONSTANTS
    Ids = {1, 2}
    Ages = {0, 12}
    Plain = {"a"}
    Found <- MCFound
    RunTogether <- MCRunTogether
    NoFile = NoFile
    MAX_RECORDS = 3
    MAX_CRASHES = 1
    MAX_EXCUSES = 1
    FilesMayFail = TRUE
INVARIANTS
    Recoverable
    UniqueIds
PROPERTIES
    RewriteKeepsOthers
    BookKept
