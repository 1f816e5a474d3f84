------------------------------ MODULE LruCache ------------------------------
(* The cache of src/lru_cache.c, pointer by pointer: a doubly linked list in *)
(* order of use and a hash table whose chains run through the same nodes.    *)
(* A freed node keeps what it held, so that a pointer left behind shows.     *)
EXTENDS Integers, Sequences, FiniteSets

CONSTANTS
    Nodes,             \* addresses malloc can return for a QueueNode
    Keys, Values,      \* keys are not negative: the remainder would be, too
    Capacities,
    HASH_TABLE_SIZE,
    NULL

ASSUME LruAssumption ==
    /\ NULL \notin Nodes /\ IsFiniteSet(Nodes)
    /\ Keys \subseteq Nat /\ Keys # {} /\ Values # {}
    /\ Capacities \subseteq Int
    /\ HASH_TABLE_SIZE \in Nat \ {0}

VARIABLES
    heap,       \* the cache structure and the fields of every node
    live,       \* the nodes that are allocated
    capacity,   \* 0 when main has no cache
    running,
    output      \* what the last command printed

vars == <<heap, live, capacity, running, output>>

Buckets == 0 .. HASH_TABLE_SIZE - 1
getHashIndex(k) == k % HASH_TABLE_SIZE
Pointers == Nodes \cup {NULL}

emptyTable == [b \in Buckets |-> NULL]
newNode(k, v) == [key |-> k, value |-> v, prev |-> NULL, next |-> NULL,
                  hashNext |-> NULL]

\* What a node holds before its first use does not matter.
Init ==
    /\ heap = [ node |-> [n \in Nodes |-> newNode(CHOOSE k \in Keys : TRUE,
                                                  CHOOSE v \in Values : TRUE)],
                head |-> NULL, tail |-> NULL, count |-> 0,
                hashTable |-> emptyTable ]
    /\ live = {}
    /\ capacity = 0
    /\ running = TRUE
    /\ output = NULL

-----------------------------------------------------------------------------
(* Helpers on a heap h.                                                      *)

detachNode(h, n) ==
    LET p == h.node[n].prev
        x == h.node[n].next
    IN  [h EXCEPT !.head = IF p = NULL THEN x ELSE @,
                  !.tail = IF x = NULL THEN p ELSE @,
                  !.node = [m \in Nodes |->
                      [h.node[m] EXCEPT !.next = IF m = p THEN x ELSE @,
                                        !.prev = IF m = x THEN p ELSE @]]]

insertAtHead(h, n) ==
    [h EXCEPT !.head = n,
              !.tail = IF @ = NULL THEN n ELSE @,
              !.node = [m \in Nodes |->
                  [h.node[m] EXCEPT !.next = IF m = n THEN h.head ELSE @,
                                    !.prev = IF m = h.head THEN n
                                             ELSE IF m = n THEN NULL ELSE @]]]

\* The nodes from p on along one of the links.
linked(h, link, p) ==
    LET from[i \in Nat] ==
            [c \in Pointers |-> IF i = 0 \/ c = NULL THEN <<>>
                                ELSE <<c>> \o from[i - 1][h.node[c][link]]]
    IN  from[Cardinality(Nodes)][p]

bucket(h, k) == linked(h, "hashNext", h.hashTable[getHashIndex(k)])

\* The nodes of key k in its bucket: the first one is used.
found(h, k) == LET c == bucket(h, k)
               IN  {c[i] : i \in {j \in DOMAIN c :
                        /\ h.node[c[j]].key = k
                        /\ \A m \in 1 .. j - 1 : h.node[c[m]].key # k}}

\* Mutant: only the first node of a chain is unlinked.
removeFromHashTableFirst(h, n) ==
    LET b == getHashIndex(h.node[n].key)
    IN  IF h.hashTable[b] = n
        THEN [h EXCEPT !.hashTable[b] = h.node[n].hashNext] ELSE h
removeFromHashTable(h, n) ==
    LET b    == getHashIndex(h.node[n].key)
        c    == bucket(h, h.node[n].key)
        prev == {c[i] : i \in {j \in 1 .. Len(c) - 1 : c[j + 1] = n}}
    IN  IF h.hashTable[b] = n
        THEN [h EXCEPT !.hashTable[b] = h.node[n].hashNext]
        ELSE [h EXCEPT !.node = [m \in Nodes |->
                 IF m \in prev THEN [h.node[m] EXCEPT !.hashNext = h.node[n].hashNext]
                 ELSE h.node[m]]]

\* The node that leaves is the caller's to free.
removeLruNode(h) ==
    [removeFromHashTable(detachNode(h, h.tail), h.tail) EXCEPT !.count = @ - 1]

\* Mutant: a hit does not count as a use.
touchNot(h, n) == h
touch(h, n) == insertAtHead(detachNode(h, n), n)

addNode(h, n) ==
    LET b == getHashIndex(h.node[n].key)
        g == insertAtHead(h, n)
    IN  [g EXCEPT !.node[n].hashNext = g.hashTable[b],
                  !.hashTable[b] = n,
                  !.count = @ + 1]

-----------------------------------------------------------------------------
(* The commands main reads.                                                  *)

\* The cache before is freed first; a capacity that is not positive leaves
\* none.
createCache(c) ==
    /\ running
    /\ heap' = [heap EXCEPT !.head = NULL, !.tail = NULL, !.count = 0,
                            !.hashTable = emptyTable]
    /\ live' = {}
    /\ capacity' = IF c <= 0 THEN 0 ELSE c
    /\ output' = NULL
    /\ UNCHANGED running

putFound(k, v) ==
    \E n \in found(heap, k) :
        /\ heap' = touch([heap EXCEPT !.node[n].value = v], n)
        /\ UNCHANGED live

isFull == heap.count >= capacity

\* The new node is allocated before a full cache gives up its last one.
putNew(k, v) ==
    /\ found(heap, k) = {}
    /\ \E n \in Nodes \ live :
         LET h == [heap EXCEPT !.node[n] = newNode(k, v)]
         IN  IF isFull /\ heap.tail # NULL
             THEN /\ heap' = addNode(removeLruNode(h), n)
                  /\ live' = (live \cup {n}) \ {heap.tail}
             ELSE /\ heap' = addNode(h, n)
                  /\ live' = live \cup {n}

put(k, v) ==
    /\ running /\ capacity > 0
    /\ putFound(k, v) \/ putNew(k, v)
    /\ output' = NULL
    /\ UNCHANGED <<capacity, running>>

get(k) ==
    /\ running /\ capacity > 0
    /\ \/ /\ found(heap, k) = {}
          /\ output' = "NULL"
          /\ UNCHANGED heap
       \/ \E n \in found(heap, k) :
             /\ heap' = touch(heap, n)
             /\ output' = heap.node[n].value
    /\ UNCHANGED <<live, capacity, running>>

\* Without a cache, put and get leave their arguments unread; main takes them
\* for commands.  All but exit are invalid ones.
NoCache ==
    /\ running /\ capacity = 0
    /\ output' = NULL
    /\ UNCHANGED <<heap, live, capacity, running>>

\* exit, end of input, or an argument of a command without a cache that reads
\* "exit".
Exit ==
    /\ running
    /\ running' = FALSE
    /\ live' = {}
    /\ heap' = [heap EXCEPT !.head = NULL, !.tail = NULL, !.count = 0,
                            !.hashTable = emptyTable]
    /\ capacity' = 0
    /\ output' = NULL

Next ==
    \/ \E c \in Capacities : createCache(c)
    \/ \E k \in Keys, v \in Values : put(k, v)
    \/ \E k \in Keys : get(k)
    \/ NoCache \/ Exit

Spec == Init /\ [][Next]_vars

=============================================================================
