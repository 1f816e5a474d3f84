------------------------------- MODULE LruSpec -------------------------------
(* What the cache of src/lru_cache.c promises: at most capacity entries, the *)
(* most recently used first; a full cache gives up the entry that has not    *)
(* been used for the longest time.                                           *)
EXTENDS Integers, SequencesExt

CONSTANTS Keys, Values, Capacities, NULL

VARIABLES
    capacity,   \* 0 when there is no cache
    entries,    \* [key, value] records, the most recently used one first
    output      \* what the last command printed

vars == <<capacity, entries, output>>

Init == capacity = 0 /\ entries = <<>> /\ output = NULL

hits(k) == {i \in DOMAIN entries : entries[i].key = k}

Create(c) ==
    /\ capacity' = IF c > 0 THEN c ELSE 0
    /\ entries' = <<>>
    /\ output' = NULL

\* What is left when there must be room for one more.
evicted == IF Len(entries) >= capacity THEN Front(entries) ELSE entries

Put(k, v) ==
    /\ capacity > 0
    /\ LET e == [key |-> k, value |-> v]
       IN  \/ \E i \in hits(k) : entries' = <<e>> \o RemoveAt(entries, i)
           \/ hits(k) = {} /\ entries' = <<e>> \o evicted
    /\ output' = NULL
    /\ UNCHANGED capacity

Get(k) ==
    /\ capacity > 0
    /\ \/ /\ hits(k) = {}
          /\ output' = "NULL"
          /\ UNCHANGED entries
       \/ \E i \in hits(k) :
             /\ output' = entries[i].value
             /\ entries' = <<entries[i]>> \o RemoveAt(entries, i)
    /\ UNCHANGED capacity

\* A command without a cache, or the end of the program.
Nothing == output' = NULL /\ UNCHANGED <<capacity, entries>>
End == capacity' = 0 /\ entries' = <<>> /\ output' = NULL

Next ==
    \/ \E c \in Capacities : Create(c)
    \/ \E k \in Keys, v \in Values : Put(k, v)
    \/ \E k \in Keys : Get(k)
    \/ Nothing \/ End

Spec == Init /\ [][Next]_vars

=============================================================================
