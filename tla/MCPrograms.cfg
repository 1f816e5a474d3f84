SPECIFICATION MCSpec
CONSTANTS
    LLONG_MAX = 15
    ARENA_CAPACITY_BYTES = 4096
    STACK_MAX_DEPTH = 256
    BUFFER = 9
    Lines <- MCLines
    MAX_STUDENTS = 3
    MAX_TYPED = 4
    NoNumber = NoNumber
    Typed <- MCTyped
    Sizes = {2, 3, 4, 5}
    Generated <- MCGenerated
CHECK_DEADLOCK FALSE
INVARIANTS
    CalculatesMeaning
    StacksStayLow
    ReportOfFirstLines
    TurnedAndSmoothed
