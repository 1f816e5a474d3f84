SPECIFICATION LiveSortSpec
CONSTANTS
    Unfilled <- MCUnfilled
    FAULTS = TRUE
    Nothing = Nothing
INVARIANTS
    PrintsSorted
    NoTornRead
    NothingInvented
PROPERTY
    ParentEnds
CHECK_DEADLOCK FALSE
