---------------------------- MODULE VfsProperties ----------------------------
(* What the file system of src/virtual_file_system.c promises.               *)
EXTENDS Vfs

CONSTANTS NoFile, Lost  \* what VfsSpec says of a non-file and of lost content

ASSUME ContentAssumption ==
    NoFile # Lost /\ {NoFile, Lost} \cap ({<<>>} \cup Contents) = {}

Alive == commandCode # "exit"

-----------------------------------------------------------------------------
(* Blocks.                                                                   *)

\* A block is never free and in a file, nor in two places of either kind, even
\* when the list node for a returned block cannot be allocated; and the count
\* that callWrite compares with is the length of the list it takes from.
BlocksExclusive ==
    Alive =>
      /\ \A i, j \in DOMAIN freeList : freeList[i] = freeList[j] => i = j
      /\ \A n \in NodeIds : \A i \in DOMAIN blockPointers[n] :
           /\ ~Linked(freeList, blockPointers[n][i])
           /\ \A m \in NodeIds : \A j \in DOMAIN blockPointers[m] :
                blockPointers[n][i] = blockPointers[m][j] => n = m /\ i = j
      /\ gFreeBlockCount = Len(freeList)

-----------------------------------------------------------------------------
(* The tree.                                                                 *)

\* Two siblings share a name only where a typed name was cut to it: lookups use
\* the full typed name, creation stores the cut one.
namesDiffer ==
    \A d \in NodeIds : \A i, j \in DOMAIN children[d] :
        name[children[d][i]] = name[children[d][j]] =>
            \/ i = j
            \/ \E n \in Names : n # Truncated[n] /\ Truncated[n] = name[children[d][i]]

\* Every node but the root is in the sibling list of its parent, an allocated
\* directory, once; lists hold only such nodes; the current directory is one
\* of them; no part of the tree is cut off from the root; siblings have different
\* names; and leaving the program frees every node that was ever allocated.
TreeIntact ==
    IF ~Alive THEN Allocated = {}
    ELSE
      /\ type[Root] = "DIRECTORY" /\ type[gCwd] = "DIRECTORY"
      /\ \A n \in Allocated \ {Root} :
           /\ parent[n] # NULL
           /\ type[parent[n]] = "DIRECTORY"
           /\ \E i \in DOMAIN children[parent[n]] : children[parent[n]][i] = n
      /\ \A d \in NodeIds : \A i, j \in DOMAIN children[d] :
           /\ type[d] = "DIRECTORY"
           /\ children[d][i] \in Allocated \ {Root}
           /\ parent[children[d][i]] = d
           /\ children[d][i] = children[d][j] => i = j
      /\ Allocated = reachable
      /\ namesDiffer

\* The directory or file that typing a path from the root leads to.
resolve(path) ==
    LET at[k \in 0 .. Len(path)] ==
            IF k = 0 THEN Root
            ELSE LET c    == children[at[k - 1]]
                     hits == {i \in DOMAIN c : name[c[i]] = path[k]}
                 IN  IF at[k - 1] = NULL \/ hits = {} THEN NULL ELSE c[Min(hits)]
    IN  at[Len(path)]

\* Typing the printed path from the root leads back to the current directory,
\* unless it was cut: at MAX_PATH_DEPTH names, or at the end of the buffer.  This
\* also where two siblings share a name, since cd only ever enters the first one,
\* and no other can become the first while the current directory is below it.
PathLeadsBack ==
    LET path == buildCurrentPath
    IN  Alive /\ ~path.cut /\ Len(path.names) < MAX_PATH_DEPTH =>
          resolve(path.names) = gCwd

-----------------------------------------------------------------------------
(* Contents.                                                                 *)

\* What a file holds: its bytes, or nothing when they were given up.
contentOf(n) ==
    IF type[n] # "FILETYPE" THEN NoFile
    ELSE IF contentSize[n] > BLOCK_SIZE * Len(blockPointers[n]) THEN Lost
    ELSE readBytes(n)

\* The files, by what they hold.
Contents0 == INSTANCE VfsSpec WITH
    Files   <- NodeIds,
    content <- [n \in NodeIds |-> contentOf(n)],
    free    <- gFreeBlockCount,
    reply   <- reply

\* Block by block, the commands implement files that hold what was written: a
\* read prints the last content written in full, whatever was written, deleted
\* and reused in between, and a write fits exactly when there is room.
FilesHoldWhatWasWritten == Contents0!Spec

=============================================================================
