---------------------------- MODULE LruProperties ----------------------------
(* What the cache of src/lru_cache.c promises.                               *)
EXTENDS LruCache, SequencesExt

order == linked(heap, "next", heap.head)
backward == linked(heap, "prev", heap.tail)

\* The list read from the tail along prev is the list read from the head along
\* next, backwards; it has count nodes, each once, and no more than capacity.
listIntact ==
    /\ backward = Reverse(order)
    /\ Len(order) = heap.count /\ heap.count <= capacity
    /\ ToSet(order) = live /\ Cardinality(live) = heap.count

\* The buckets hold the nodes of the list and no other, each in the bucket of
\* its key, and no key twice: nothing can be found that was evicted and freed,
\* and nothing that is in the list is out of reach of a lookup.
tableMatchesList ==
    /\ \A n \in live : \E i \in DOMAIN bucket(heap, heap.node[n].key) :
                         bucket(heap, heap.node[n].key)[i] = n
    /\ \A b \in Buckets :
         LET c == linked(heap, "hashNext", heap.hashTable[b])
         IN  \A i, j \in DOMAIN c :
                /\ c[i] \in live
                /\ getHashIndex(heap.node[c[i]].key) = b
                /\ heap.node[c[i]].key = heap.node[c[j]].key => i = j

\* List and table are two views of the same entries after every command, however
\* nodes were moved, evicted and allocated again at the same address.
ListAndTableAgree == listIntact /\ tableMatchesList

\* The list of nodes as a list of entries.
entryOf(h, n) == [key |-> h.node[n].key, value |-> h.node[n].value]
entries == [i \in DOMAIN order |-> entryOf(heap, order[i])]

Lru == INSTANCE LruSpec

\* Entries come out and go as from a list in order of use.
ImplementsLru == Lru!Spec

=============================================================================
