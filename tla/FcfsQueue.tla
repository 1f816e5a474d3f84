------------------------------ MODULE FcfsQueue ------------------------------
(* The queue operations of src/fcfs_implementation.c, on the sequences that  *)
(* its linked queues represent: element 1 is q->front, the last is q->rear.  *)
(* FcfsPointerQueue has the pointer-level code, checked to implement these.  *)
EXTENDS Naturals, SequencesExt

\* p is linked into q
In(q, p) == \E i \in DOMAIN q : q[i] = p

enqueueFront(q, p) == <<p>> \o q
enqueue(q, p) == Append(q, p)

dequeue(q) == IF q = <<>> THEN q ELSE Tail(q)

\* Unlink p wherever it is; a p that is not in q leaves q alone.
removeNodeCut(q, p) ==
    IF In(q, p) THEN SubSeq(q, 1, (CHOOSE i \in DOMAIN q : q[i] = p) - 1) ELSE q
removeNode(q, p) ==
    IF In(q, p) THEN RemoveAt(q, CHOOSE i \in DOMAIN q : q[i] = p) ELSE q

=============================================================================
