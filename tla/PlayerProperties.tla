--------------------------- MODULE PlayerProperties ---------------------------
(* What the displays of src/player_performance_analyzer.c show, in terms of   *)
(* the players that were loaded and added.                                   *)
EXTENDS PlayerAnalyzer

theirs(t, role) == {p \in ToSet(added) : p.team = t /\ p.role = role}
AllNumbers(s) == \A i \in DOMAIN s : s[i].pi # NaN
Arrival(p) == CHOOSE i \in DOMAIN added : added[i] = p

\* No two players have the same id, though an id is looked for in the lists of
\* every team and role only when a player is added; every player is on the list
\* of its team and role and nowhere else; and unless an index is NaN the list is
\* in falling order, equal players in the order they came.
RankedLists ==
    /\ \A i, j \in DOMAIN added : added[i].id = added[j].id => i = j
    /\ stage # "exit" => \A t \in Teams, role \in Roles :
         LET list == lists[t][role]
         IN  /\ IsInjective(list) /\ ToSet(list) = theirs(t, role)
             /\ AllNumbers(list) => \A i, j \in DOMAIN list : i < j =>
                  \/ list[i].pi > list[j].pi
                  \/ list[i].pi = list[j].pi /\ Arrival(list[i]) < Arrival(list[j])

\* How many of the first n printed players are of the team.
printed(t, n) == Cardinality({i \in 1 .. n : out.rows[i].team = t})
allPrinted(t) == printed(t, Len(out.rows))
unfinished == {t \in Teams : allPrinted(t) < Len(lists[t][out.role])}

\* While the lists are merged, what is printed of each team is the beginning of
\* its list, in its order, and the heap holds the next of each list that is not
\* at its end, and nothing else: it never needs more than its NUM_OF_TEAMS places,
\* and at the end everybody is printed once, whatever the indices are.
MergeKeepsPlace ==
    stage = "merging" =>
        /\ Len(heap) <= NUM_OF_TEAMS
        /\ \A i \in DOMAIN out.rows :
             LET t    == out.rows[i].team
                 list == lists[t][out.role]
             IN  printed(t, i) <= Len(list) /\ out.rows[i] = list[printed(t, i)]
        /\ \A i, j \in DOMAIN heap : heap[i].team = heap[j].team => i = j
        /\ ToSet(heap) = {lists[t][out.role][allPrinted(t) + 1] : t \in unfinished}

\* Unless an index is NaN, the players of all teams are printed in falling order.
BestFirst ==
    out.kind = "role" /\ (\A p \in ToSet(added) : p.role = out.role => p.pi # NaN)
        => \A i \in 1 .. Len(out.rows) - 1 : out.rows[i].pi >= out.rows[i + 1].pi

members(t) == {i \in DOMAIN added : added[i].team = t}
batters(t) == {i \in members(t) : added[i].role # "Bowler"}
sumOfRates(t) ==
    LET sum[n \in 0 .. Len(added)] ==
            IF n = 0 THEN 0
            ELSE IF n \in batters(t) THEN plus(sum[n - 1], added[n].sr) ELSE sum[n - 1]
    IN  sum[Len(added)]

\* Every line printed of a team is true at that moment: its players are counted,
\* the average is that of its batsmen and all-rounders, and 0 without any; and
\* the table of all teams has each once, by falling average unless one is NaN.
TeamTable ==
    LET rows  == IF out.kind = "teams" THEN out.rows
                 ELSE IF out.kind = "team" THEN <<Last(out.rows)>> ELSE <<>>
        row(i) == rows[i]
    IN  /\ \A i \in DOMAIN rows :
             LET t == row(i).team
             IN  /\ row(i).total = Cardinality(members(t))
                 /\ row(i).avg = IF batters(t) = {} THEN <<0, 1>>
                                 ELSE <<sumOfRates(t), Cardinality(batters(t))>>
        /\ out.kind = "teams" =>
             /\ {row(i).team : i \in DOMAIN rows} = Teams
             /\ (\A t \in Teams : sumOfRates(t) # NaN) =>
                  \A i \in 1 .. NUM_OF_TEAMS - 1 :
                     row(i).avg[1] * row(i + 1).avg[2] >= row(i + 1).avg[1] * row(i).avg[2]

=============================================================================
