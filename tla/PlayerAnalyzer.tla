---------------------------- MODULE PlayerAnalyzer ----------------------------
(* The player analyzer of src/player_performance_analyzer.c: for every team   *)
(* one linked list per role, kept in the order of the performance index, and *)
(* a display across all teams that merges the lists through a heap.          *)
EXTENDS Integers, SequencesExt

CONSTANTS
    NUM_OF_TEAMS,
    MAX_PLAYERS_PER_TEAM,
    PlayerIds,    \* the range MIN_ID .. MAX_ID, what is asked for again left out
    Stats,        \* what is typed in: [avg, sr, wkts, econ], numbers or NaN
    NaN,          \* scanf reads "nan" as a number
    Data,         \* Players_data.h, a sequence of [id, team, role, stats]
    Ks,           \* bound: the K asked for
    MAX_ADDED     \* bound: players added at the prompt

Teams == 1 .. NUM_OF_TEAMS
Roles == {"Batsman", "Bowler", "All-rounder"}
NumbersOrNaN == Int \cup {NaN}
Typed == [avg: NumbersOrNaN, sr: NumbersOrNaN, wkts: Int, econ: NumbersOrNaN]

ASSUME PlayerAssumption ==
    /\ NUM_OF_TEAMS \in Nat \ {0} /\ MAX_PLAYERS_PER_TEAM \in Nat
    /\ NaN \notin Int
    /\ Stats \subseteq Typed
    /\ Data \in Seq([id: PlayerIds, team: Teams, role: Roles, stats: Typed])
    /\ \A i, j \in DOMAIN Data : Data[i].id = Data[j].id => i = j
    /\ Ks \subseteq Nat \ {0} /\ MAX_ADDED \in Nat

VARIABLES
    lists,        \* batters, bowlers and allRounders of each team
    tally,        \* of each team: players, batting players, sum of strike rates
    heap,         \* of displayAllPlayersByRole: one player of each list left
    out,          \* what the last display has printed
    stage,        \* "loading", "menu", "merging" or "exit"
    choiceRead,   \* main has stored a choice; until then it is uninitialized
    added         \* history: the players in the order they came

playerVars == <<lists, tally, heap, out, stage, choiceRead, added>>

\* Comparisons and sums of floats: NaN compares false and stays NaN.
gt(a, b) == a # NaN /\ b # NaN /\ a > b
ge(a, b) == a # NaN /\ b # NaN /\ a >= b
plus(a, b) == IF NaN \in {a, b} THEN NaN ELSE a + b
times(a, b) == IF NaN \in {a, b} THEN NaN ELSE a * b

\* In hundredths.
calculatePerformanceIndex(role, s) ==
    CASE role = "Batsman" -> times(s.avg, s.sr)
      [] role = "Bowler" -> plus(200 * s.wkts + 10000, times(-100, s.econ))
      [] role = "All-rounder" -> plus(times(s.avg, s.sr), 200 * s.wkts)

player(id, t, role, s) ==
    [id |-> id, team |-> t, role |-> role, sr |-> s.sr,
     pi |-> calculatePerformanceIndex(role, s)]

\* Mutant: goes before players with the same index.
insertPlayerSortedBefore(list, p) ==
    InsertAt(list, Min({k \in 1 .. Len(list) + 1 :
                          k > Len(list) \/ ~gt(list[k].pi, p.pi)}), p)
\* At the head only with a greater index; otherwise after every player in a row
\* whose index is as great, the head not looked at again.
insertPlayerSorted(list, p) ==
    IF list = <<>> \/ gt(p.pi, list[1].pi)
    THEN <<p>> \o list
    ELSE InsertAt(list, Min({k \in 2 .. Len(list) + 1 :
                               k > Len(list) \/ ~ge(list[k].pi, p.pi)}), p)

isPlayerIdUnique(id) ==
    \A t \in Teams, role \in Roles :
        \A i \in DOMAIN lists[t][role] : lists[t][role][i].id # id

bats(role) == role \in {"Batsman", "All-rounder"}

\* The new player enters its list and the sums of its team.
enter(p) ==
    /\ lists' = [lists EXCEPT ![p.team][p.role] = insertPlayerSorted(@, p)]
    /\ tally' = [tally EXCEPT ![p.team] =
                   [players |-> @.players + 1,
                    batting |-> IF bats(p.role) THEN @.batting + 1 ELSE @.batting,
                    srSum   |-> IF bats(p.role) THEN plus(@.srSum, p.sr) ELSE @.srSum]]
    /\ added' = Append(added, p)

noRows == [kind |-> "nothing", role |-> "none", rows |-> <<>>]

PlayerInit ==
    /\ lists = [t \in Teams |-> [role \in Roles |-> <<>>]]
    /\ tally = [t \in Teams |-> [players |-> 0, batting |-> 0, srSum |-> 0]]
    /\ heap = <<>> /\ out = noRows
    /\ stage = "loading"
    /\ choiceRead = FALSE
    /\ added = <<>>

-----------------------------------------------------------------------------
\* One turn of the loop over players[]; no limit on a team here.
initializeData ==
    /\ stage = "loading"
    /\ IF Len(added) < Len(Data)
       THEN LET d == Data[Len(added) + 1]
            IN  enter(player(d.id, d.team, d.role, d.stats)) /\ UNCHANGED stage
       ELSE stage' = "menu" /\ UNCHANGED <<lists, tally, added>>
    /\ UNCHANGED <<heap, out, choiceRead>>

\* main has read a choice it has a case for.
command == stage = "menu" /\ choiceRead' = TRUE

\* An id that is taken is asked for again.
addPlayer(t, id, role, s) ==
    /\ command
    /\ Len(added) - Len(Data) < MAX_ADDED
    /\ \/ /\ tally[t].players < MAX_PLAYERS_PER_TEAM
          /\ isPlayerIdUnique(id)
          /\ enter(player(id, t, role, s))
       \/ \* the team is full, or malloc fails
          UNCHANGED <<lists, tally, added>>
    /\ out' = noRows
    /\ UNCHANGED <<heap, stage>>

\* avgStrikeRate, as a fraction; stored in the team just before it is printed.
\* Mutant: divided by all players of the team.
avgStrikeRateAll(t) ==
    IF tally[t].batting > 0 THEN <<tally[t].srSum, tally[t].players>> ELSE <<0, 1>>
avgStrikeRate(t) ==
    IF tally[t].batting > 0 THEN <<tally[t].srSum, tally[t].batting>> ELSE <<0, 1>>

teamLine(t) == [team |-> t, avg |-> avgStrikeRate(t), total |-> tally[t].players]

displayTeamPlayers(t) ==
    /\ command
    /\ out' = [kind |-> "team", role |-> "none",
               rows |-> lists[t]["Batsman"] \o lists[t]["Bowler"]
                          \o lists[t]["All-rounder"] \o <<teamLine(t)>>]
    /\ UNCHANGED <<lists, tally, heap, stage, added>>

\* compareTeams(a, b) > 0: a belongs after b.
compareTeams(a, b) ==
    gt(times(avgStrikeRate(b)[1], avgStrikeRate(a)[2]),
       times(avgStrikeRate(a)[1], avgStrikeRate(b)[2]))

Orders == SetToSeqs(Teams)

\* qsort may leave equal teams, and with NaN any teams, in any order.
qsorted(order) ==
    (\A t \in Teams : tally[t].srSum # NaN)
        => \A i \in 1 .. NUM_OF_TEAMS - 1 : ~compareTeams(order[i], order[i + 1])

displayTeamsByAvgStrikeRate ==
    /\ command
    /\ \E order \in Orders :
         /\ qsorted(order)
         /\ out' = [kind |-> "teams", role |-> "none",
                    rows |-> [i \in Teams |-> teamLine(order[i])]]
    /\ UNCHANGED <<lists, tally, heap, stage, added>>

displayTopKPlayers(t, role, k) ==
    /\ command
    /\ out' = [kind |-> "top", role |-> role,
               rows |-> SubSeq(lists[t][role], 1, Min({k, Len(lists[t][role])}))]
    /\ UNCHANGED <<lists, tally, heap, stage, added>>

-----------------------------------------------------------------------------
\* The player at the top of h sinks below every child with a greater index.
\* Mutant: the right child is never looked at.
largestLeft(h, i, p) ==
    IF 2 * i <= Len(h) /\ gt(h[2 * i].pi, p.pi) THEN 2 * i ELSE i
largest(h, i, p) ==
    LET left  == IF 2 * i <= Len(h) /\ gt(h[2 * i].pi, p.pi) THEN 2 * i ELSE i
        best  == IF left = i THEN p ELSE h[left]
    IN  IF 2 * i + 1 <= Len(h) /\ gt(h[2 * i + 1].pi, best.pi) THEN 2 * i + 1 ELSE left

heapifyDown(h) ==
    LET p == h[1]
        sink[i \in DOMAIN h] ==
            LET c == largest(h, i, p)
            IN  IF c = i THEN [h EXCEPT ![i] = p] ELSE [sink[c] EXCEPT ![i] = h[c]]
    IN  sink[1]

heapExtractMax(h) ==
    IF Len(h) = 1 THEN <<>> ELSE heapifyDown(<<Last(h)>> \o SubSeq(h, 2, Len(h) - 1))

heapInsert(h, p) ==
    LET rise[i \in 1 .. Len(h) + 1] ==
            LET up == i \div 2
            IN  IF i = 1 \/ ~gt(p.pi, h[up].pi)
                THEN [Append(h, p) EXCEPT ![i] = p]
                ELSE [rise[up] EXCEPT ![i] = h[up]]
    IN  rise[Len(h) + 1]

\* The players behind p on its list.
behind(p) ==
    LET list == lists[p.team][p.role]
    IN  SubSeq(list, CHOOSE i \in 1 .. Len(list) : list[i] = p, Len(list))

\* The heads of all lists of the role enter the heap.
heapOfHeads(role) ==
    LET fill[t \in 0 .. NUM_OF_TEAMS] ==
            IF t = 0 THEN <<>>
            ELSE IF lists[t][role] = <<>> THEN fill[t - 1]
            ELSE heapInsert(fill[t - 1], lists[t][role][1])
    IN  fill[NUM_OF_TEAMS]

displayAllPlayersByRole(role) ==
    /\ command
    /\ heap' = heapOfHeads(role)
    /\ out' = [kind |-> "role", role |-> role, rows |-> <<>>]
    /\ stage' = "merging"
    /\ UNCHANGED <<lists, tally, added>>

\* One turn of its loop: the best of the heap is printed, and the next player
\* of its list takes its place.
\* Mutant: the list of the printed player is given up.
nextPlayerNone(h, p) == h
nextPlayer(h, p) == IF Len(behind(p)) > 1 THEN heapInsert(h, behind(p)[2]) ELSE h

printBest ==
    /\ stage = "merging" /\ heap # <<>>
    /\ out' = [out EXCEPT !.rows = Append(@, heap[1])]
    /\ heap' = nextPlayer(heapExtractMax(heap), heap[1])
    /\ UNCHANGED <<lists, tally, stage, choiceRead, added>>

endMerge ==
    /\ stage = "merging" /\ heap = <<>>
    /\ stage' = "menu"
    /\ UNCHANGED <<lists, tally, heap, out, choiceRead, added>>

-----------------------------------------------------------------------------
cleanupMemory ==
    /\ lists' = [t \in Teams |-> [role \in Roles |-> <<>>]]
    /\ stage' = "exit"
    /\ UNCHANGED <<tally, heap, out, added>>

\* What is not a number goes on to the test of the loop, which reads the choice
\* before, or what happens to be in choice.
badChoice ==
    /\ stage = "menu" /\ ~choiceRead
    /\ cleanupMemory
    /\ UNCHANGED choiceRead

exit == command /\ cleanupMemory

PlayerNext ==
    \/ initializeData
    \/ \E t \in Teams, id \in PlayerIds, role \in Roles, s \in Stats :
          addPlayer(t, id, role, s)
    \/ \E t \in Teams : displayTeamPlayers(t)
    \/ displayTeamsByAvgStrikeRate
    \/ \E t \in Teams, role \in Roles, k \in Ks : displayTopKPlayers(t, role, k)
    \/ \E role \in Roles : displayAllPlayersByRole(role)
    \/ printBest \/ endMerge
    \/ badChoice \/ exit

PlayerSpec == PlayerInit /\ [][PlayerNext]_playerVars

=============================================================================
