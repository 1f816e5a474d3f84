----------------------------- MODULE MCPointers -----------------------------
(* A bounded instance of the linked structures of two programs, each on its    *)
(* own: the queues of the scheduler, and the tree and the free list of the     *)
(* file system, which share no memory.                                         *)
EXTENDS FcfsPointerQueue

CONSTANTS Nodes, Root, Blocks, Cells

VARIABLES program, tree, gCwd, list, freed

Rings == INSTANCE VfsPointers WITH heap <- tree

MCInit == program \in {"scheduler", "tree", "blocks"} /\ Init /\ Rings!Init

MCNext ==
    \/ /\ program = "scheduler" /\ Next
       /\ UNCHANGED <<program, tree, gCwd, list, freed>>
    \/ /\ program = "tree" /\ Rings!TreeNext
       /\ UNCHANGED <<program, vars>>
    \/ /\ program = "blocks" /\ Rings!ListNext
       /\ UNCHANGED <<program, vars>>

MCSpec == MCInit /\ [][MCNext]_<<program, vars, tree, gCwd, list, freed>>

\* What the rings and the free list are taken for.
ImplementsLists == Rings!ImplementsLists

=============================================================================
