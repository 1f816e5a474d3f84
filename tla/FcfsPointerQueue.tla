-------------------------- MODULE FcfsPointerQueue --------------------------
(* The linked queues of src/fcfs_implementation.c as they are in memory: a   *)
(* front and a rear pointer per queue, and one nextQueue link per process    *)
(* that all three queues share.                                              *)
EXTENDS Integers, Sequences, FiniteSets

CONSTANTS Processes, NULL

ASSUME PointerAssumption == NULL \notin Processes /\ IsFiniteSet(Processes)

VARIABLES
    heap,     \* the pointers: front, rear and nextQueue
    walking,  \* the I/O pass is walking the waiting queue
    current   \* its loop variable

vars == <<heap, walking, current>>

QueueNames == {"ReadyQ", "WaitingQ", "TerminatedQ"}
Pointers == Processes \cup {NULL}

Init ==
    /\ heap = [ front     |-> [q \in QueueNames |-> NULL],
                rear      |-> [q \in QueueNames |-> NULL],
                nextQueue |-> [p \in Processes |-> NULL] ]
    /\ walking = FALSE
    /\ current = NULL

-----------------------------------------------------------------------------
(* The queue functions, from heap to heap.                                   *)

enqueue(h, q, p) ==
    IF h.front[q] = NULL
    THEN [h EXCEPT !.nextQueue[p] = NULL, !.front[q] = p, !.rear[q] = p]
    ELSE [h EXCEPT !.nextQueue = [h.nextQueue EXCEPT ![p] = NULL, ![h.rear[q]] = p],
                   !.rear[q] = p]

dequeue(h, q) ==
    IF h.front[q] = NULL THEN h
    ELSE LET p == h.front[q]
         IN  [h EXCEPT !.front[q] = h.nextQueue[p],
                       !.rear[q] = IF h.nextQueue[p] = NULL THEN NULL ELSE h.rear[q],
                       !.nextQueue[p] = NULL]

\* The processes linked from p on, in order.
linked(h, p) ==
    LET from[n \in Nat] == [c \in Pointers |->
            IF n = 0 \/ c = NULL THEN <<>>
            ELSE <<c>> \o from[n - 1][h.nextQueue[c]]]
    IN  from[Cardinality(Processes)][p]

\* removeNode walks from the front to the predecessor of p, if there is one.
unlink(h, q, curr, p) ==
    [h EXCEPT !.nextQueue = [h.nextQueue EXCEPT ![curr] = h.nextQueue[p], ![p] = NULL],
              !.rear[q] = IF h.rear[q] = p THEN curr ELSE h.rear[q]]

removeNode(h, q, p) ==
    LET chain == linked(h, h.front[q])
        preds == {i \in DOMAIN chain : h.nextQueue[chain[i]] = p}
    IN  CASE h.front[q] = NULL -> h
          [] h.front[q] = p    -> dequeue(h, q)
          [] OTHER -> IF preds = {} THEN h
                      ELSE unlink(h, q, chain[CHOOSE i \in preds : TRUE], p)

-----------------------------------------------------------------------------
(* How main uses them.                                                       *)

Queued(p) == \E q \in QueueNames :
                LET chain == linked(heap, heap.front[q])
                IN  \E i \in DOMAIN chain : chain[i] = p

\* A new process, one that starts its I/O, or one that completes.
Enqueue(q, p) ==
    /\ ~walking
    /\ ~Queued(p)
    /\ heap' = enqueue(heap, q, p)
    /\ UNCHANGED <<walking, current>>

Dispatch ==
    /\ ~walking
    /\ heap' = dequeue(heap, "ReadyQ")
    /\ UNCHANGED <<walking, current>>

\* A kill takes p out of the queue its state names, then terminates it.
Kill(q, p) ==
    /\ ~walking
    /\ LET chain == linked(heap, heap.front[q])
       IN  \E i \in DOMAIN chain : chain[i] = p
    /\ heap' = enqueue(removeNode(heap, q, p), "TerminatedQ", p)
    /\ UNCHANGED <<walking, current>>

StartWalk ==
    /\ ~walking
    /\ walking' = TRUE
    /\ current' = heap.front["WaitingQ"]
    /\ UNCHANGED heap

\* next_to_check is read before current moves to the ready queue.
nextToCheckLate(before, after) == after.nextQueue[current]
nextToCheck(before, after) == before.nextQueue[current]

Visit(done) ==
    /\ walking
    /\ current # NULL
    /\ heap' = IF done
               THEN enqueue(removeNode(heap, "WaitingQ", current), "ReadyQ", current)
               ELSE heap
    /\ current' = nextToCheck(heap, heap')
    /\ UNCHANGED walking

EndWalk ==
    /\ walking
    /\ current = NULL
    /\ walking' = FALSE
    /\ UNCHANGED <<heap, current>>

Next ==
    \/ \E q \in QueueNames, p \in Processes : Enqueue(q, p)
    \/ \E q \in {"ReadyQ", "WaitingQ"}, p \in Processes : Kill(q, p)
    \/ \E done \in BOOLEAN : Visit(done)
    \/ Dispatch \/ StartWalk \/ EndWalk

Spec == Init /\ [][Next]_vars

-----------------------------------------------------------------------------
(* Properties.                                                               *)

\* The chains from the front pointers as queues.
theQueues == [q \in QueueNames |-> linked(heap, heap.front[q])]

\* Where c is in s, or behind its end.
placeOf(s, c) ==
    IF \E i \in DOMAIN s : s[i] = c THEN CHOOSE i \in DOMAIN s : s[i] = c
    ELSE Len(s) + 1

\* The position of the walk: behind what it has visited and kept.
WalkPosition == IF walking THEN placeOf(theQueues["WaitingQ"], current) ELSE 0

Queues == INSTANCE FcfsQueueSpec WITH queues <- theQueues, walk <- WalkPosition

\* The pointer code implements the queues of the scheduler model.
ImplementsQueues == Queues!Spec

=============================================================================
