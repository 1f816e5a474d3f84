SPECIFICATION LiveTickSpec
CONSTANTS
    Descriptors <- MCDescriptors
    KillLines <- MCKillLines
    MaxProcs = 3
    MAX_PROCESS = 2
    MAX_KILL_EVENTS = 2
    MaxClock = 20
INVARIANTS
    Placement
    ReportComplete
    IoService
    FirstTickInOrder
    NoWastedTick
    KillsHonoured
    EndlessNeedsKill
PROPERTIES
    TerminatedIsFinal
    EveryProcessEnds
CHECK_DEADLOCK FALSE
