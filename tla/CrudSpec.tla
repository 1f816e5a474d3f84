------------------------------- MODULE CrudSpec -------------------------------
(* What the user database of src/crud.c promises: a list of users with        *)
(* different ids, changed one at a time, which may lose its end; until it is  *)
(* spoilt, and then nothing.                                                  *)
EXTENDS Integers, SequencesExt

CONSTANTS Ids, Users    \* users: [id, name, age] records

VARIABLES
    book,               \* the users, in the order they were added
    shown,              \* the list displayed, until the screen is cleared
    spoilt

vars == <<book, shown, spoilt>>

Init == book = <<>> /\ shown = <<>> /\ spoilt = FALSE

listed(id) == \E i \in DOMAIN book : book[i].id = id

\* The list becomes b, or the first users of b.
Becomes(b) == /\ \E k \in 0 .. Len(b) : book' = SubSeq(b, 1, k)
              /\ shown' \in {shown, <<>>}

Create(u) == ~listed(u.id) /\ Becomes(Append(book, u))

Update(u) == Becomes([i \in DOMAIN book |-> IF book[i].id = u.id THEN u ELSE book[i]])

Delete(id) ==
    \/ /\ listed(id)
       /\ Becomes(RemoveAt(book, CHOOSE i \in DOMAIN book : book[i].id = id))
    \/ ~listed(id) /\ Becomes(book)

Read == shown' = book /\ UNCHANGED book

\* A change of a list that stays a promise, or the one after which it is none.
Next == \/ /\ ~spoilt /\ ~spoilt'
           /\ \/ Read
              \/ \E u \in Users : Create(u) \/ Update(u)
              \/ \E id \in Ids : Delete(id)
        \/ spoilt'

Spec == Init /\ [][Next]_vars

=============================================================================
