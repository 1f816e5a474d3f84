---------------------------- MODULE FcfsQueueSpec ----------------------------
(* What the scheduler's three queues promise: each is a sequence, a process  *)
(* is in at most one of them, and the walk of the I/O pass visits every      *)
(* process that was waiting when it started, once, while it moves some of    *)
(* them to the ready queue.                                                  *)
EXTENDS Integers, FcfsQueue

CONSTANT Processes

VARIABLES
    queues,  \* queue name -> sequence of processes
    walk     \* 0, or the position of the I/O walk in the waiting queue

QueueNames == {"ReadyQ", "WaitingQ", "TerminatedQ"}

Init == /\ queues = [q \in QueueNames |-> <<>>]
        /\ walk = 0

Enqueue(q, p) ==
    /\ walk = 0
    /\ \A r \in QueueNames : ~In(queues[r], p)
    /\ queues' = [queues EXCEPT ![q] = enqueue(@, p)]
    /\ UNCHANGED walk

Dispatch ==
    /\ walk = 0
    /\ queues' = [queues EXCEPT !["ReadyQ"] = dequeue(@)]
    /\ UNCHANGED walk

Kill(q, p) ==
    /\ walk = 0
    /\ In(queues[q], p)
    /\ queues' = [queues EXCEPT ![q] = removeNode(@, p),
                                !["TerminatedQ"] = enqueue(@, p)]
    /\ UNCHANGED walk

StartWalk == walk = 0 /\ walk' = 1 /\ UNCHANGED queues

Visit(done) ==
    /\ walk > 0
    /\ walk <= Len(queues["WaitingQ"])
    /\ LET p == queues["WaitingQ"][walk]
       IN  IF done
           THEN /\ queues' = [queues EXCEPT !["WaitingQ"] = removeNode(@, p),
                                            !["ReadyQ"] = enqueue(@, p)]
                /\ UNCHANGED walk
           ELSE walk' = walk + 1 /\ UNCHANGED queues

EndWalk ==
    /\ walk = Len(queues["WaitingQ"]) + 1
    /\ walk' = 0
    /\ UNCHANGED queues

Next ==
    \/ \E q \in QueueNames, p \in Processes : Enqueue(q, p)
    \/ \E q \in {"ReadyQ", "WaitingQ"}, p \in Processes : Kill(q, p)
    \/ \E done \in BOOLEAN : Visit(done)
    \/ Dispatch \/ StartWalk \/ EndWalk

Spec == Init /\ [][Next]_<<queues, walk>>

=============================================================================
