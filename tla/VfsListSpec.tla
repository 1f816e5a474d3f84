----------------------------- MODULE VfsListSpec -----------------------------
(* What the linked structures of src/virtual_file_system.c promise: for every *)
(* directory a list of its children, a list of free blocks, and a release of  *)
(* every node at the end.                                                     *)
EXTENDS Integers, SequencesExt

CONSTANTS Nodes, Root, Blocks

VARIABLES
    children,  \* directory -> the sequence of its children
    free,      \* the sequence of free blocks
    freed      \* the nodes released at the end, in order

Held == ToSet(free)
Entered == {Root} \cup UNION {ToSet(children[d]) : d \in Nodes}

Init ==
    /\ children = [d \in Nodes |-> <<>>]
    /\ free = SetToSortSeq(Blocks, LAMBDA a, b : a < b)
    /\ freed = <<>>

Link(d, n) ==
    /\ d \in Entered /\ n \notin Entered
    /\ children' = [children EXCEPT ![d] = Append(@, n)]
    /\ UNCHANGED <<free, freed>>

Unlink(d, n) ==
    /\ Contains(children[d], n) /\ children[n] = <<>>
    /\ children' = [children EXCEPT ![d] = SelectSeq(@, LAMBDA m : m # n)]
    /\ UNCHANGED <<free, freed>>

Take ==
    /\ free # <<>>
    /\ free' = Tail(free)
    /\ UNCHANGED <<children, freed>>

Return(b) ==
    /\ b \notin Held
    /\ free' = Append(free, b)
    /\ UNCHANGED <<children, freed>>

\* Every node is released, once, and before the directory it is in.
Release ==
    /\ freed = <<>>
    /\ freed' \in SetToSeqs(Entered)
    /\ \A i, j \in DOMAIN freed' :
          Contains(children[freed'[j]], freed'[i]) => i < j
    /\ UNCHANGED <<children, free>>

Next ==
    \/ \E d, n \in Nodes : Link(d, n) \/ Unlink(d, n)
    \/ Take \/ \E b \in Blocks : Return(b)
    \/ Release

Spec == Init /\ [][Next]_<<children, free, freed>>

=============================================================================
