------------------------------ MODULE CrudStore ------------------------------
(* The user database of src/crud.c: users.txt, one line per user, and the    *)
(* rewriting of it through temp.txt when a user is updated or deleted.  The  *)
(* program can die between any two steps and is started again on the files   *)
(* it left.  Every fopen, the writing of what was printed, remove and rename *)
(* can fail, most without being noticed.  A file is the sequence of its      *)
(* lines as a scan with fscanf finds them: the records it gets out of each,  *)
(* and whether it reads on at the next line.                                 *)
EXTENDS Integers, SequencesExt

CONSTANTS
    Ids, Ages,
    Plain,        \* names that fscanf reads back: not empty and without a comma
    Found,        \* the others, and what a scan finds in their lines: see typed
    RunTogether,  \* what it may find in a line without an end and the next one
    NoFile,
    MAX_RECORDS,  \* bound: lines or records of users.txt
    MAX_CRASHES,  \* bound
    MAX_EXCUSES,  \* bound: how many of the things happen that no promise covers
    FilesMayFail  \* the calls named above may fail

Names == Plain \cup DOMAIN Found
LinesOfFile ==
    [recs : Seq([id : Int, name : Plain, age : Nat \ {0}]),
     end  : {"on", "stuck", "open"}]

ASSUME CrudAssumption ==
    /\ Ids \subseteq Int /\ Ages \subseteq Int
    /\ Plain \cap DOMAIN Found = {}
    /\ \A n \in DOMAIN Found :
         Found[n] \in LinesOfFile /\ (Found[n].end = "on" => Len(Found[n].recs) > 1)
    /\ RunTogether \subseteq LinesOfFile
    /\ NoFile \notin Seq(LinesOfFile)
    /\ MAX_RECORDS \in Nat /\ MAX_CRASHES \in Nat /\ MAX_EXCUSES \in Nat
    /\ FilesMayFail \in BOOLEAN

VARIABLES
    users, temp,  \* the lines of users.txt and of temp.txt, or NoFile
    pc,           \* "menu", "copying", "remove", "rename" or "down"
    op,           \* the update or delete under way: its kind and id
    copied,       \* records of users.txt read so far
    shown,        \* what readUsers displayed; main clears the screen before a choice
    crashes,
    believed,     \* history: the lines of the users stored, as they were typed
    due,          \* history: what they are to be after the rewrite under way
    excuses       \* history: what has happened that no promise covers, see below

history == <<believed, due, excuses>>
vars == <<users, temp, pc, op, copied, shown, crashes, history>>

nothing == [kind |-> "none", id |-> 0]
user(id, n, a) == [id |-> id, name |-> n, age |-> a]

Init ==
    /\ users = NoFile /\ temp = NoFile
    /\ pc = "menu"
    /\ op = nothing
    /\ copied = 0
    /\ shown = <<>>
    /\ crashes = 0
    /\ believed = <<>> /\ due = <<>>
    /\ excuses = {}

\* The line of a user.  A name without text or with a comma and no number after
\* it stops the scan; "a,7" gives a record "a", 7 and stops it then; "a,7 5,b"
\* gives that and a second record 5, "b" with the age of the line, and the scan
\* reads on; after "a,7 5" it takes the age for the beginning of a name that the
\* next line goes on with: the line is "open".
typed(id, n, a) ==
    IF n \in Plain THEN [recs |-> <<user(id, n, a)>>, end |-> "on"]
    ELSE LET f == Found[n] IN
         [f EXCEPT !.recs = [i \in DOMAIN f.recs |->
             user(IF i = 1 THEN id ELSE f.recs[i].id, f.recs[i].name,
                  IF f.end = "on" /\ i = Len(f.recs) THEN a ELSE f.recs[i].age)]]

furtherRecord(n) == n \notin Plain /\ (Len(Found[n].recs) > 1 \/ Found[n].end = "open")

\* What the fscanf loops read: the records of every line up to the first one
\* that the scan does not get over.
parse(ls) ==
    LET reached == {i \in DOMAIN ls : \A j \in 1 .. i - 1 : ls[j].end = "on"}
        upTo[k \in 0 .. Len(ls)] ==
            IF k = 0 THEN <<>>
            ELSE IF k \in reached THEN upTo[k - 1] \o ls[k].recs ELSE upTo[k - 1]
    IN  upTo[Len(ls)]

lines == IF users = NoFile THEN <<>> ELSE users
records == parse(lines)

\* The file f after l is written to its end.
written(f, l) == IF f # <<>> /\ Last(f).end = "open"
                 THEN {Append(Front(f), g) : g \in RunTogether} ELSE {Append(f, l)}

\* A line that ends at any byte: the age it ends in may have lost digits.
shorter(a) == {a \div 10^k : k \in 1 .. 9} \ {0}
parts(l) ==
    {[recs |-> r, end |-> "open"] : r \in
        {SubSeq(l.recs, 1, k) : k \in 0 .. Len(l.recs)} \cup
        UNION {{Append(SubSeq(l.recs, 1, k - 1), [l.recs[k] EXCEPT !.age = b]) :
                 b \in shorter(l.recs[k].age)} : k \in DOMAIN l.recs}}

\* A file that ends at any byte.
cuts(f) == {SubSeq(f, 1, k) : k \in 0 .. Len(f)} \cup
           UNION {{Append(SubSeq(f, 1, k - 1), l) : l \in parts(f[k])} : k \in DOMAIN f}

\* The history of a step: the users stored are us and to be d, unless something
\* has happened after which they are not kept up.
forgotten(e) == e \cap {"disk full", "further record", "orphaned", "dropped"} # {}
Note(us, d, e) ==
    /\ excuses' = excuses \cup e /\ Cardinality(excuses') <= MAX_EXCUSES
    /\ believed' = IF forgotten(excuses') THEN <<>> ELSE us
    /\ due' = IF forgotten(excuses') THEN <<>> ELSE d
when(e, p) == IF p THEN {e} ELSE {}

\* An id is not found in a file that cannot be opened.
\* Mutant: only the first record is compared.
userIdExistsFirst(id, opened) == opened /\ records # <<>> /\ records[1].id = id
userIdExists(id, opened) == opened /\ \E i \in DOMAIN records : records[i].id = id

validAge(a) == a > 0

-----------------------------------------------------------------------------
\* Ids that exist and ages that are not positive are asked for again.  The file
\* is there once it is opened, and success is reported whatever is written.
createUser(id, n, a) ==
    /\ pc = "menu"
    /\ validAge(a)
    /\ \/ /\ Len(lines) < MAX_RECORDS
          /\ Len(records) + Len(typed(id, n, a).recs) <= MAX_RECORDS
          /\ LET l == typed(id, n, a)
                 happened == when("unchecked", userIdExists(id, TRUE))
                        \cup when("further record", furtherRecord(n))
                        \cup when("orphaned", users = NoFile /\ believed # <<>>)
             IN  /\ \E opened \in {TRUE, ~FilesMayFail} : ~userIdExists(id, opened)
                 /\ \/ users' \in written(lines, l) /\ Note(Append(believed, l), <<>>, happened)
                    \/ /\ FilesMayFail
                       /\ users' \in {lines} \cup UNION {written(lines, c) : c \in parts(l)}
                       /\ Note(believed, <<>>, happened \cup {"disk full"})
       \/ FilesMayFail /\ UNCHANGED <<users, history>>
    /\ shown' = <<>>
    /\ UNCHANGED <<temp, pc, op, copied, crashes>>

readUsers ==
    /\ pc = "menu"
    /\ \/ shown' = records
       \/ FilesMayFail /\ shown' = <<>>
    /\ UNCHANGED <<users, temp, pc, op, copied, crashes, history>>

\* updateUser or deleteUser: opening temp.txt for writing empties it.
\* Mutant: users.txt is removed while it is still open.
beginRemoves(kind, id) ==
    /\ pc = "menu" /\ users # NoFile
    /\ temp' = <<>> /\ pc' = "copying" /\ op' = [kind |-> kind, id |-> id]
    /\ users' = NoFile /\ Note(believed, believed, {})
    /\ shown' = <<>>
    /\ UNCHANGED <<copied, crashes>>
begin(kind, id) ==
    /\ pc = "menu" /\ users # NoFile
    /\ \/ /\ temp' = <<>> /\ pc' = "copying" /\ op' = [kind |-> kind, id |-> id]
          /\ Note(believed, believed, {})
       \/ FilesMayFail /\ UNCHANGED <<temp, pc, op, history>>
    /\ shown' = <<>>
    /\ UNCHANGED <<users, copied, crashes>>

\* Mutant: the first record is skipped.
nextRecordSkip == records[IF copied = 0 /\ Len(records) > 1 THEN 2 ELSE copied + 1]
nextRecord == records[copied + 1]

\* One turn of the fscanf loop; updateUser asks for the new name and age in it.
\* The record read last comes from the line after those already copied.
copyRecord ==
    /\ pc = "copying" /\ copied < Len(records)
    /\ copied' = copied + 1
    /\ LET r == nextRecord
           here == Len(temp) + 1
       IN  \/ /\ r.id # op.id
              /\ temp' \in written(temp, typed(r.id, r.name, r.age))
              /\ Note(believed, due, {})
           \/ /\ r.id = op.id /\ op.kind = "delete"
              /\ UNCHANGED temp
              /\ Note(believed, RemoveAt(due, here), {})
           \/ /\ r.id = op.id /\ op.kind = "update"
              /\ \E n \in Names, a \in Ages :
                   /\ validAge(a)
                   /\ Len(records) + Len(typed(r.id, n, a).recs) <= MAX_RECORDS + 1
                   /\ temp' \in written(temp, typed(r.id, n, a))
                   /\ Note(believed, [due EXCEPT ![here] = typed(r.id, n, a)],
                           when("further record", furtherRecord(n)))
    /\ UNCHANGED <<users, pc, op, shown, crashes>>

\* Both files are closed, whether the id was found or not, and whether or not
\* the disk takes all of temp.txt.
closeFiles ==
    /\ pc = "copying" /\ copied = Len(records)
    /\ pc' = "remove"
    /\ \/ UNCHANGED <<temp, history>>
       \/ FilesMayFail /\ temp' \in cuts(temp) /\ Note(believed, due, {"disk full"})
    /\ UNCHANGED <<users, op, copied, shown, crashes>>

\* The copy takes the place of users.txt; what the scan did not get over is gone.
TakesPlace(d) == Note(due, d, when("dropped", \E i \in DOMAIN lines : lines[i].end # "on"))

\* Neither result is looked at.  rename replaces a users.txt that is still there.
removeFile ==
    /\ pc = "remove"
    /\ UNCHANGED <<temp, op, copied, shown, crashes>>
    /\ \/ users' = NoFile /\ TakesPlace(due)
       \/ FilesMayFail /\ UNCHANGED <<users, history>>
    /\ pc' = "rename"

renameFile ==
    /\ pc = "rename"
    /\ UNCHANGED <<shown, crashes>>
    /\ \/ users' = temp /\ temp' = NoFile /\ TakesPlace(<<>>)
       \/ FilesMayFail /\ UNCHANGED <<users, temp>> /\ Note(believed, <<>>, {})
    /\ pc' = "menu"
    /\ op' = nothing /\ copied' = 0

\* What was not flushed to temp.txt is lost; a user who was being added may leave
\* no more than a file.
Crash ==
    /\ pc # "down" /\ crashes < MAX_CRASHES
    /\ crashes' = crashes + 1
    /\ pc' = "down"
    /\ op' = nothing /\ copied' = 0
    /\ \/ pc # "copying" /\ UNCHANGED temp
       \/ pc = "copying" /\ temp' \in cuts(temp)
    /\ \/ UNCHANGED users /\ Note(believed, <<>>, {})
       \/ /\ pc = "menu" /\ users = NoFile /\ users' = <<>>
          /\ Note(believed, <<>>, when("orphaned", believed # <<>>))
    /\ UNCHANGED shown

Restart ==
    /\ pc = "down"
    /\ pc' = "menu"
    /\ shown' = <<>>
    /\ UNCHANGED <<users, temp, op, copied, crashes, history>>

Next ==
    \/ \E id \in Ids :
         \/ \E n \in Names, a \in Ages : createUser(id, n, a)
         \/ begin("update", id) \/ begin("delete", id)
    \/ readUsers \/ copyRecord \/ closeFiles \/ removeFile \/ renameFile
    \/ Crash \/ Restart

Spec == Init /\ [][Next]_vars

=============================================================================
