------------------------------ MODULE MCPlayers ------------------------------
(* A bounded instance of the player analyzer.                                *)
EXTENDS PlayerProperties

CONSTANTS d1, d2, d3, d4, a, b

MCIds == {d1, d2, d3, d4, a, b}
stats(avg, sr) == [avg |-> avg, sr |-> sr, wkts |-> 1, econ |-> avg]
\* As a bowler the second is the better, as a batsman the first.
MCStats == {stats(3, 3), stats(1, 4), stats(NaN, 1)}
\* A batsman in every team, so that the heap grows to three levels.
batsman(id, t, sr) == [id |-> id, team |-> t, role |-> "Batsman", stats |-> stats(2, sr)]
MCData == <<batsman(d1, 1, 1), batsman(d2, 2, 2), batsman(d3, 3, 3),
            batsman(d4, 4, 4)>>
MCSymmetry == Permutations({a, b})

=============================================================================
