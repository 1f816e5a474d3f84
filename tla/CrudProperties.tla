---------------------------- MODULE CrudProperties ----------------------------
(* What the user database of src/crud.c promises.                            *)
EXTENDS CrudStore

\* Every line that is read gives the record of the user it was written for, or none.
clean == excuses \cap {"disk full", "further record"} = {}

\* The ids and the list of users are not what was asked for: a write was cut short,
\* a name gave a further record, or an id that exists was taken since users.txt
\* could not be opened to look for it.
spoilt == ~clean \/ "unchecked" \in excuses

\* No two records that can be read have the same id, until something spoils it:
\* an id is compared with the readable records only, but what cannot be read
\* never becomes readable again.
UniqueIds == ~spoilt =>
    \A i, j \in DOMAIN records : records[i].id = records[j].id => i = j

\* The records that are not the one to be updated or deleted, in their order.
othersAt(ls) == {k \in DOMAIN ls : ls[k].id # op.id}
others(ls) ==
    LET kept[k \in 0 .. Len(ls)] ==
            IF k = 0 THEN <<>>
            ELSE IF k \in othersAt(ls) THEN Append(kept[k - 1], ls[k]) ELSE kept[k - 1]
    IN  kept[Len(ls)]

\* An update or a delete, with a name that can be read back if a new one is typed,
\* keeps every other readable record, in its order, for whoever reads the copy;
\* until a write is cut short or a name gives a further record.
RewriteKeepsOthers ==
    [][pc = "copying" /\ pc' = "remove" /\ clean' /\ (\A i \in DOMAIN temp : temp[i].end = "on")
       => others(parse(temp)) = others(records)]_vars

\* Whenever the program dies, and whatever remove or rename do, one of the two
\* files holds all the users stored, as they were typed; an update or a delete
\* counts once one of those two calls has worked.  It holds until a write is cut
\* short, a name gives a further record, a user is added to a new users.txt while
\* all others are in temp.txt, or a rewrite drops what a name hides behind it.
Recoverable ==
    \/ forgotten(excuses)
    \/ lines = believed
    \/ users = NoFile /\ temp = believed

\* The readable users, in the file that counts.
Database == INSTANCE CrudSpec WITH
    Users <- [id: Ids, name: Plain,
              age: {a \in Ages : a > 0} \cup
                   UNION {{r.age : r \in Range(Found[n].recs)} : n \in DOMAIN Found}],
    book  <- IF pc = "rename" /\ users = NoFile THEN parse(temp) ELSE records

\* Until something spoils it, the two files behave like one list of users with
\* different ids that is changed by one user at a time, and shown as it is; names
\* that cannot be read back, crashes, and calls that fail with nothing written
\* only ever take users off its end.
BookKept == Database!Spec

=============================================================================
