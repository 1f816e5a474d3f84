--------------------------------- MODULE Vfs ---------------------------------
(* The shell and in-memory file system of src/virtual_file_system.c: a tree  *)
(* of nodes, a disk of blocks and a list of free blocks.  One action per     *)
(* command.  A circular sibling list is the sequence that starts at the      *)
(* directory's child pointer, the free list the sequence from its head.      *)
EXTENDS Integers, SequencesExt

CONSTANTS
    NodeIds,         \* addresses malloc can return for a node
    Root, NULL,
    NUM_BLOCKS, BLOCK_SIZE,
    Names,           \* legal names a command can carry
    Truncated,       \* typed name -> the MAX_NAME_LEN characters that are kept
    Contents,        \* what can be written: sequences of bytes
    NameLen,         \* stored name -> its bytes
    MAX_PATH_DEPTH,
    MAX_INPUT_LEN,   \* bytes of the buffer that the path is printed to
    MallocMayFail    \* the free list's malloc may fail

Specials == {"", ".", "..", "/"}
Arguments == Names \cup Specials

\* A command line is shorter than MAX_INPUT_LEN, so a content needs two blocks
\* at most and never reaches MAX_FILE_BLOCKS.
ASSUME VfsAssumption ==
    /\ Root \in NodeIds /\ NULL \notin NodeIds /\ IsFiniteSet(NodeIds)
    /\ NUM_BLOCKS \in Nat /\ BLOCK_SIZE \in Nat \ {0} /\ MAX_PATH_DEPTH \in Nat
    /\ MAX_INPUT_LEN \in Nat /\ NameLen \in [Names -> Nat]
    /\ Names \cap Specials = {}
    /\ Truncated \in [Names -> Names]
    /\ \A n \in Names : Truncated[Truncated[n]] = Truncated[n]
    /\ Contents \subseteq Seq(Int)
    /\ MallocMayFail \in BOOLEAN

VARIABLES
    type,            \* node -> "FREED", "FILETYPE" or "DIRECTORY"
    name, parent,
    children,        \* node -> the sibling list of its children
    contentSize,
    blockPointers,   \* node -> the used prefix of its block pointers
    gCwd,
    gVirtualDisk,    \* block -> its bytes
    freeList,        \* indices from gFreeBlockHead on
    gFreeBlockCount,
    commandCode,     \* "uninit", "command" or "exit"
    reply            \* what the last command printed

tree == <<type, name, parent, children>>
files == <<contentSize, blockPointers, gVirtualDisk, freeList, gFreeBlockCount>>
vars == <<tree, files, gCwd, commandCode, reply>>

Blocks == 0 .. NUM_BLOCKS - 1
Allocated == {n \in NodeIds : type[n] # "FREED"}
answer(s) == [status |-> s, data |-> <<>>]
Linked(s, x) == \E i \in DOMAIN s : s[i] = x

initializeVfs ==
    /\ type = [n \in NodeIds |-> IF n = Root THEN "DIRECTORY" ELSE "FREED"]
    /\ name = [n \in NodeIds |-> "/"]
    /\ parent = [n \in NodeIds |-> NULL]
    /\ children = [n \in NodeIds |-> <<>>]
    /\ contentSize = [n \in NodeIds |-> 0]
    /\ blockPointers = [n \in NodeIds |-> <<>>]
    /\ gCwd = Root
    /\ gVirtualDisk = [b \in Blocks |-> [j \in 0 .. BLOCK_SIZE - 1 |-> 0]]
    /\ freeList = [i \in 1 .. NUM_BLOCKS |-> i - 1]
    /\ gFreeBlockCount = NUM_BLOCKS

Init == initializeVfs /\ commandCode = "uninit" /\ reply = answer("ok")

-----------------------------------------------------------------------------
(* Helpers.                                                                  *)

\* The first child of the current directory with this name.
findNodeInCwd(a) ==
    LET c    == children[gCwd]
        hits == {i \in DOMAIN c : /\ name[c[i]] = a
                                  /\ \A j \in DOMAIN c : j < i => name[c[j]] # a}
    IN  IF hits = {} THEN NULL ELSE c[CHOOSE i \in hits : TRUE]

isFile(n) == n # NULL /\ type[n] = "FILETYPE"
isDirectory(n) == n # NULL /\ type[n] = "DIRECTORY"

\* Removing the head makes its successor the head.
removeFromCircularList(n) ==
    LET c == children[parent[n]]
    IN  [children EXCEPT ![parent[n]] =
            IF Linked(c, n) THEN RemoveAt(c, CHOOSE i \in DOMAIN c : c[i] = n)
            ELSE c]

\* The blocks of bs at the positions in D, one after the other.
keptOf(bs, D) ==
    LET kept[i \in 0 .. Len(bs)] ==
            IF i = 0 THEN <<>>
            ELSE IF i \in D THEN Append(kept[i - 1], bs[i]) ELSE kept[i - 1]
    IN  kept[Len(bs)]

\* What returning blocks one by one leaves: all of them at the tail of the free
\* list, less those whose list node could not be allocated.
returned(bs) ==
    {keptOf(bs, D) : D \in IF MallocMayFail THEN SUBSET DOMAIN bs ELSE {DOMAIN bs}}

\* The names that the walk up from the current directory collects, the nearest
\* MAX_PATH_DEPTH of them, in the order from the root.
namesUpShort ==
    LET up[k \in 0 .. MAX_PATH_DEPTH] ==
            [n \in NodeIds \cup {NULL} |->
                IF n = Root \/ n = NULL \/ parent[n] = Root \/ k = 0 THEN <<>>
                ELSE Append(up[k - 1][parent[n]], name[n])]
    IN  up[MAX_PATH_DEPTH][gCwd]
namesUp ==
    LET up[k \in 0 .. MAX_PATH_DEPTH] ==
            [n \in NodeIds \cup {NULL} |->
                IF n = Root \/ n = NULL \/ k = 0 THEN <<>>
                ELSE Append(up[k - 1][parent[n]], name[n])]
    IN  up[MAX_PATH_DEPTH][gCwd]

\* What the prompt and pwd print: each name behind a slash as long as the buffer
\* has room for it and the end of the string.  Where it has not, printing stops
\* in the middle of a name.
buildCurrentPath ==
    LET room[k \in 0 .. Len(namesUp)] ==
            IF k = 0 THEN MAX_INPUT_LEN ELSE room[k - 1] - 1 - NameLen[namesUp[k]]
        over == {k \in DOMAIN namesUp : room[k] <= 0}
    IN  [ names |-> IF over = {} THEN namesUp ELSE SubSeq(namesUp, 1, Min(over) - 1),
          cut   |-> over # {} ]

\* Nodes that freeNodeRecursive reaches from the root.
reachable ==
    LET from[k \in 0 .. Cardinality(NodeIds)] ==
            IF k = 0 THEN {Root}
            ELSE from[k - 1] \cup
                 {n \in NodeIds : \E d \in from[k - 1] :
                     type[d] = "DIRECTORY" /\ Linked(children[d], n)}
    IN  from[Cardinality(NodeIds)]

\* The bytes callRead prints: block after block, until contentSize of them.
readBytes(n) ==
    LET bs == blockPointers[n]
    IN  [i \in 1 .. Min({contentSize[n], BLOCK_SIZE * Len(bs)}) |->
            gVirtualDisk[bs[((i - 1) \div BLOCK_SIZE) + 1]][(i - 1) % BLOCK_SIZE]]

-----------------------------------------------------------------------------
(* Commands.  Each one finds the shell running and leaves a command code.    *)

Running == commandCode # "exit" /\ commandCode' = "command"

Refuse == reply' = answer("error") /\ UNCHANGED <<tree, files, gCwd>>

\* Link a new node of the given type behind the last child.
newNode(n, a, t) ==
    /\ type[n] = "FREED"
    /\ type' = [type EXCEPT ![n] = t]
    /\ name' = [name EXCEPT ![n] = Truncated[a]]
    /\ parent' = [parent EXCEPT ![n] = gCwd]
    /\ children' = [children EXCEPT ![n] = <<>>, ![gCwd] = Append(@, n)]
    /\ contentSize' = [contentSize EXCEPT ![n] = 0]
    /\ blockPointers' = [blockPointers EXCEPT ![n] = <<>>]
    /\ reply' = answer("ok")
    /\ UNCHANGED <<gCwd, gVirtualDisk, freeList, gFreeBlockCount>>

creatable(a) == a \in Names /\ findNodeInCwd(a) = NULL
refusable(a) == ~creatable(a) \/ MallocMayFail \/ Allocated = NodeIds

\* malloc may refuse a node; it does when every address is taken.
callMkdir(a) ==
    /\ Running
    /\ \/ refusable(a) /\ Refuse
       \/ creatable(a) /\ \E n \in NodeIds : newNode(n, a, "DIRECTORY")

callCreate(a) ==
    /\ Running
    /\ \/ refusable(a) /\ Refuse
       \/ creatable(a) /\ \E n \in NodeIds : newNode(n, a, "FILETYPE")

callCd(a) ==
    /\ Running
    /\ LET target == CASE a = "/"  -> Root
                       [] a = ".." -> parent[gCwd]
                       [] OTHER    -> findNodeInCwd(a)
       IN  IF isDirectory(target)
           THEN gCwd' = target /\ reply' = answer("ok") /\ UNCHANGED <<tree, files>>
           ELSE Refuse

blocksNeeded(c) == (Len(c) + BLOCK_SIZE - 1) \div BLOCK_SIZE

\* Mutant: the offset into the content is never moved.
blockBytesUnmoved(c, i, old) ==
    [j \in 0 .. BLOCK_SIZE - 1 |->
        IF (i - 1) * BLOCK_SIZE + j + 1 <= Len(c) THEN c[j + 1] ELSE old[j]]

\* Byte j of block i of content c, over what the block held before.
blockBytes(c, i, old) ==
    [j \in 0 .. BLOCK_SIZE - 1 |->
        IF (i - 1) * BLOCK_SIZE + j + 1 <= Len(c)
        THEN c[(i - 1) * BLOCK_SIZE + j + 1] ELSE old[j]]

\* Mutant: the pointers to released blocks are kept.
resetPointersNot(n) == blockPointers
resetPointers(n) == [blockPointers EXCEPT ![n] = <<>>]

\* The file's blocks are released before the new content is found to fit; when
\* it does not, the file keeps its old size.
writeTo(n, c, kept) ==
    LET avail == freeList \o kept
        count == gFreeBlockCount + Len(kept)
        k     == blocksNeeded(c)
    IN  \/ /\ count < k
           /\ freeList' = avail
           /\ gFreeBlockCount' = count
           /\ blockPointers' = resetPointers(n)
           /\ reply' = answer("nospace")
           /\ UNCHANGED <<tree, gCwd, contentSize, gVirtualDisk>>
        \/ /\ count >= k
           /\ freeList' = SubSeq(avail, k + 1, Len(avail))
           /\ gFreeBlockCount' = count - k
           /\ blockPointers' = [blockPointers EXCEPT ![n] = SubSeq(avail, 1, k)]
           /\ gVirtualDisk' =
                [b \in Blocks |->
                    IF \E i \in 1 .. k : avail[i] = b
                    THEN blockBytes(c, CHOOSE i \in 1 .. k : avail[i] = b,
                                    gVirtualDisk[b])
                    ELSE gVirtualDisk[b]]
           /\ contentSize' = [contentSize EXCEPT ![n] = Len(c)]
           /\ reply' = answer("ok")
           /\ UNCHANGED <<tree, gCwd>>

\* A name that is too long is refused here, not truncated.
callWrite(a, c) ==
    /\ Running
    /\ LET n == findNodeInCwd(a)
       IN  IF a \in Names /\ Truncated[a] = a /\ isFile(n)
           THEN \E kept \in returned(blockPointers[n]) : writeTo(n, c, kept)
           ELSE Refuse

callRead(a) ==
    /\ Running
    /\ LET n == findNodeInCwd(a)
       IN  IF isFile(n)
           THEN /\ reply' = [status |-> "data", data |-> readBytes(n)]
                /\ UNCHANGED <<tree, files, gCwd>>
           ELSE Refuse

\* Unlink and free a node; what a freed node holds is forgotten.
freeNode(n) ==
    /\ children' = [removeFromCircularList(n) EXCEPT ![n] = <<>>]
    /\ type' = [type EXCEPT ![n] = "FREED"]
    /\ name' = [name EXCEPT ![n] = "/"]
    /\ parent' = [parent EXCEPT ![n] = NULL]
    /\ contentSize' = [contentSize EXCEPT ![n] = 0]
    /\ blockPointers' = [blockPointers EXCEPT ![n] = <<>>]
    /\ reply' = answer("ok")
    /\ UNCHANGED <<gCwd, gVirtualDisk>>

callDelete(a) ==
    /\ Running
    /\ LET n == findNodeInCwd(a)
       IN  IF isFile(n)
           THEN /\ freeNode(n)
                /\ \E kept \in returned(blockPointers[n]) :
                     /\ freeList' = freeList \o kept
                     /\ gFreeBlockCount' = gFreeBlockCount + Len(kept)
           ELSE Refuse

\* Mutant: not only empty directories.
removableFull(n) == isDirectory(n)
removable(n) == isDirectory(n) /\ children[n] = <<>>

callRmdir(a) ==
    /\ Running
    /\ LET n == findNodeInCwd(a)
       IN  IF removable(n)
           THEN freeNode(n) /\ UNCHANGED <<freeList, gFreeBlockCount>>
           ELSE Refuse

\* ls, pwd, df and unknown commands only print.
Show ==
    /\ Running
    /\ reply' = answer("ok")
    /\ UNCHANGED <<tree, files, gCwd>>

\* freeNodeRecursive, from the root, and the nodes of the free list.
cleanupMemory ==
    /\ type' = [n \in NodeIds |-> IF n \in reachable THEN "FREED" ELSE type[n]]
    /\ freeList' = <<>>
    /\ commandCode' = "exit"
    /\ reply' = answer("exit")
    /\ UNCHANGED <<name, parent, children, contentSize, blockPointers,
                   gVirtualDisk, gFreeBlockCount, gCwd>>

\* An empty or overlong line skips the switch, and the loop tests the command
\* code of the line before.  That changes nothing, except before the first
\* command: the code was never set, and can be the one of exit.
BlankFirstLine == commandCode = "uninit" /\ cleanupMemory

\* exit, or end of input.
Exit == commandCode # "exit" /\ cleanupMemory

Next ==
    \/ \E a \in Arguments :
         \/ callMkdir(a) \/ callCreate(a) \/ callCd(a)
         \/ callRead(a) \/ callDelete(a) \/ callRmdir(a)
         \/ \E c \in Contents : callWrite(a, c)
    \/ Show \/ BlankFirstLine \/ Exit

Spec == Init /\ [][Next]_vars

=============================================================================
