-------------------------------- MODULE MCCrud --------------------------------
(* A bounded instance of the user database.                                  *)
EXTENDS CrudProperties

MCLine(rs, e) == [recs |-> rs, end |-> e]

\* What a scan finds: "" gives nothing, "a,7" gives "a", 7 and stops, "a,7 2,a"
\* gives user 2 as well, and "a,7 3" begins a user 3 with whatever follows.
MCFound == [n \in {"", "a,7", "a,7 2,a", "a,7 3"} |->
    CASE n = ""        -> MCLine(<<>>, "stuck")
      [] n = "a,7"     -> MCLine(<<user(0, "a", 7)>>, "stuck")
      [] n = "a,7 2,a" -> MCLine(<<user(0, "a", 7), user(2, "a", 1)>>, "on")
      [] n = "a,7 3"   -> MCLine(<<user(0, "a", 7)>>, "open")]

\* "2" and "3,a,12" make a user 23; "3,a,1" and "2,a,12" a user 3 of age 12.
MCRunTogether == {MCLine(<<user(23, "a", 12)>>, "on"), MCLine(<<user(3, "a", 12)>>, "stuck")}

=============================================================================
