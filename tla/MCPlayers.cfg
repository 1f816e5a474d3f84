SPECIFICATION PlayerSpec
CONSTANTS
    d1 = d1
    d2 = d2
    d3 = d3
    d4 = d4
    a = a
    b = b
    NaN = NaN
    NUM_OF_TEAMS = 4
    MAX_PLAYERS_PER_TEAM = 3
    PlayerIds <- MCIds
    Stats <- MCStats
    Data <- MCData
    Ks = {2}
    MAX_ADDED = 2
SYMMETRY MCSymmetry
CHECK_DEADLOCK FALSE
INVARIANTS
    RankedLists
    MergeKeepsPlace
    BestFirst
    TeamTable
