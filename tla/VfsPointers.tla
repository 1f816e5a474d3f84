----------------------------- MODULE VfsPointers -----------------------------
(* The linked structures of src/virtual_file_system.c as they are in memory:  *)
(* the circular list of siblings that hangs on a directory's child pointer,   *)
(* the doubly linked list of free blocks, and the recursive release.          *)
EXTENDS Integers, SequencesExt

CONSTANTS
    Nodes, Root,  \* addresses of nodes, and the one of gRoot
    Blocks,
    Cells,        \* addresses of FreeBlock structures
    NULL

VARIABLES
    heap,     \* type, child, parent, nextSibling and prevSibling of the nodes
    gCwd,
    list,     \* gFreeBlockHead and gFreeBlockTail, and the cells: index and links
    freed     \* the nodes released at the end, in order

running == freed = <<>>

\* Block i goes to a cell of its own, linked with those of its neighbours.
initializeVfs ==
    LET numbers == SetToSortSeq(Blocks, LAMBDA a, b : a < b)
        cells   == SetToSeq(Cells)
        at(i)   == IF i \in DOMAIN numbers THEN cells[i] ELSE NULL
        each(f(_)) == [c \in Cells |-> LET i == CHOOSE j \in DOMAIN cells : cells[j] = c
                                       IN  IF i \in DOMAIN numbers THEN f(i) ELSE NULL]
    IN  /\ heap = [type   |-> [n \in Nodes |-> IF n = Root THEN "DIRECTORY" ELSE "FREED"],
                   child  |-> [n \in Nodes |-> NULL],
                   parent |-> [n \in Nodes |-> NULL],
                   next   |-> [n \in Nodes |-> IF n = Root THEN Root ELSE NULL],
                   prev   |-> [n \in Nodes |-> IF n = Root THEN Root ELSE NULL]]
        /\ gCwd = Root
        /\ list = [head  |-> at(1),
                   tail  |-> at(Len(numbers)),
                   index |-> each(LAMBDA i : numbers[i]),
                   next  |-> each(LAMBDA i : at(i + 1)),
                   prev  |-> each(LAMBDA i : at(i - 1))]

Init == initializeVfs /\ freed = <<>>

\* What a loop from p meets along the links, until NULL or stop.
walkUntil(next, p, stop) ==
    LET from[k \in 0 .. Cardinality(DOMAIN next), c \in DOMAIN next \cup {NULL}] ==
            IF k = 0 \/ c = NULL THEN <<>>
            ELSE <<c>> \o IF next[c] = stop THEN <<>> ELSE from[k - 1, next[c]]
    IN  from[Cardinality(DOMAIN next), p]

\* Until it meets p again: a circle, or a list that ends.
walk(next, p) == walkUntil(next, p, p)

siblings(d) == IF heap.type[d] = "DIRECTORY" THEN walk(heap.next, heap.child[d]) ELSE <<>>

-----------------------------------------------------------------------------
\* The new node becomes the tail, before the head in the circle.
linked(h, n, t) ==
    LET head == h.child[gCwd]
        new  == [h EXCEPT !.type[n] = t, !.parent[n] = gCwd,
                          !.child[n] = IF t = "DIRECTORY" THEN NULL ELSE @]
    IN  IF head = NULL
        THEN [new EXCEPT !.child[gCwd] = n, !.next[n] = n, !.prev[n] = n]
        ELSE [new EXCEPT !.next = [@ EXCEPT ![h.prev[head]] = n, ![n] = head],
                         !.prev = [@ EXCEPT ![n] = h.prev[head], ![head] = n]]

\* callMkdir and callCreate, at any address that malloc can return.
CreateChild(n, t) ==
    /\ running /\ heap.type[n] = "FREED"
    /\ heap' = linked(heap, n, t)
    /\ UNCHANGED <<gCwd, list, freed>>

\* Mutant: the parent goes on pointing to a head that is removed.
newHeadKept(h, n) == h.child[h.parent[n]]
\* The parent points to the successor of a head that is removed.
newHead(h, n) ==
    IF h.child[h.parent[n]] = n THEN h.next[n] ELSE h.child[h.parent[n]]

removeFromCircularList(h, n) ==
    IF h.next[n] = n
    THEN [h EXCEPT !.child[h.parent[n]] = NULL]
    ELSE [h EXCEPT !.next[h.prev[n]] = h.next[n],
                   !.prev[h.next[n]] = h.prev[n],
                   !.child[h.parent[n]] = newHead(h, n)]

\* callDelete and callRmdir of a child that the lookup can find; the freed node
\* keeps what it held.
RemoveChild(n) ==
    /\ running /\ Contains(siblings(gCwd), n)
    /\ heap.type[n] = "DIRECTORY" => heap.child[n] = NULL
    /\ heap' = [removeFromCircularList(heap, n) EXCEPT !.type[n] = "FREED"]
    /\ UNCHANGED <<gCwd, list, freed>>

callCd ==
    /\ running
    /\ \E n \in ToSet(siblings(gCwd)) \cup {heap.parent[gCwd], Root} :
          n # NULL /\ heap.type[n] = "DIRECTORY" /\ gCwd' = n
    /\ UNCHANGED <<heap, list, freed>>

-----------------------------------------------------------------------------
\* One turn of callWrite's loop takes the block at the head.
TakeBlock ==
    /\ running /\ list.head # NULL
    /\ LET second == list.next[list.head]
       IN  list' = IF second = NULL THEN [list EXCEPT !.head = NULL, !.tail = NULL]
                   ELSE [list EXCEPT !.head = second, !.prev[second] = NULL]
    /\ UNCHANGED <<heap, gCwd, freed>>

freeCells == walk(list.next, list.head)
freeBlocks == [i \in DOMAIN freeCells |-> list.index[freeCells[i]]]

\* A block of a file goes to the tail, in a cell that is not in use.
returnBlockToFreeList(b, c) ==
    /\ running /\ ~Contains(freeBlocks, b) /\ ~Contains(freeCells, c)
    /\ list' = [list EXCEPT !.index[c] = b,
                            !.head = IF list.tail = NULL THEN c ELSE @,
                            !.prev[c] = list.tail,
                            !.next = IF list.tail = NULL THEN [@ EXCEPT ![c] = NULL]
                                     ELSE [@ EXCEPT ![c] = NULL, ![list.tail] = c],
                            !.tail = c]
    /\ UNCHANGED <<heap, gCwd, freed>>

-----------------------------------------------------------------------------
\* Mutant: the circles are left closed.
cutOpenNot == heap.next
\* The next pointers after every circle of children is cut open behind its tail.
cutOpen ==
    [n \in Nodes |->
       IF \E d \in Nodes : /\ heap.type[d] = "DIRECTORY" /\ heap.child[d] # NULL
                           /\ heap.prev[heap.child[d]] = n
       THEN NULL ELSE heap.next[n]]

\* Each child is released with what is below it, up to the first NULL, and the
\* node itself at last. (The release of the free list after it follows the same
\* links as freeCells.)
freeNodeRecursive ==
    LET release[k \in 0 .. Cardinality(Nodes), n \in Nodes] ==
            IF k = 0 \/ heap.type[n] # "DIRECTORY" THEN <<n>>
            ELSE LET c == walkUntil(cutOpen, heap.child[n], NULL)
                 IN  Append(FlattenSeq([i \in DOMAIN c |-> release[k - 1, c[i]]]), n)
    IN  release[Cardinality(Nodes), Root]

cleanupMemory ==
    /\ running
    /\ freed' = freeNodeRecursive
    /\ UNCHANGED <<heap, gCwd, list>>

TreeNext ==
    \/ \E n \in Nodes :
          CreateChild(n, "FILETYPE") \/ CreateChild(n, "DIRECTORY") \/ RemoveChild(n)
    \/ callCd
    \/ cleanupMemory

ListNext == TakeBlock \/ \E b \in Blocks, c \in Cells : returnBlockToFreeList(b, c)

-----------------------------------------------------------------------------
\* The rings as sequences of children, and the free list as one of blocks.
Lists == INSTANCE VfsListSpec WITH
    children <- [d \in Nodes |-> siblings(d)],
    free     <- freeBlocks

\* Whatever is created, removed, written and returned, in whatever order and at
\* whatever addresses, the circles and the free list are the sequences that the
\* model of the file system takes them for; and the release frees every node once,
\* children before their directory.
ImplementsLists == Lists!Spec

=============================================================================
