--------------------------- MODULE FcfsProperties ---------------------------
(* What the FCFS scheduler promises.                                         *)
EXTENDS FcfsScheduler

VARIABLE before  \* history: the PCBs as they were when the tick began

\* The scheduler with its history, which no action of it looks at.
TickInit == Init /\ before = pcb
TickNext ==
    /\ Next
    /\ before' = IF phase # "kill" /\ phase' = "kill" THEN pcb' ELSE before
TickSpec == TickInit /\ [][TickNext]_<<vars, before>>
LiveTickSpec == TickSpec /\ Fairness

Pcb == [ pid : Nat, burst : Int, ioStart : Int, ioDuration : Int,
         ioRemaining : Int, state : States, cpuExecuted : Nat,
         cpuRemaining : Int, completionTime : Int, killedFlag : BOOLEAN ]

\* Type invariant: the queues, the running pointer and the hash chains refer to
\* processes that were read, and a loop's cursor is never past its end.
TypeOK ==
    /\ pcb \in Seq(Pcb)
    /\ hashMap \in [0 .. MAX_PROCESS - 1 -> Seq(Procs)]
    /\ killSchedule \in Seq(KillLines)
    /\ ReadyQ \in Seq(Procs) /\ WaitingQ \in Seq(Procs) /\ TerminatedQ \in Seq(Procs)
    /\ running \in Procs \cup {NULL}
    /\ clockTime \in Nat
    /\ terminatedProcessCount \in Nat
    /\ phase \in Phases
    /\ cursor \in Nat \ {0}
    /\ phase = "kill" => cursor <= killCount + 1
    /\ phase = "io" => cursor <= Len(WaitingQ) + 1
    /\ report \in Seq([proc : Procs, killed : BOOLEAN,
                       turnaround : Int, waiting : Int])

-----------------------------------------------------------------------------
(* Where a process is.  One nextQueue link per PCB serves three queues, and  *)
(* state, running and the queues are updated one after the other.            *)

NoRepeats(q) == \A i, j \in DOMAIN q : q[i] = q[j] => i = j

\* The place a process is in is the one its state names.
PlacedByState ==
    \A p \in Procs : /\ pcb[p].state = "READY"      <=> In(ReadyQ, p)
                     /\ pcb[p].state = "WAITING"    <=> In(WaitingQ, p)
                     /\ pcb[p].state = "TERMINATED" <=> In(TerminatedQ, p)
                     /\ pcb[p].state = "RUNNING"    <=> running = p

\* Every process is in exactly one place, once: the ready queue, the I/O list,
\* the terminated list or the CPU; and the count that ends the simulation is
\* the length of the terminated list.
Placement ==
    /\ NoRepeats(ReadyQ) /\ NoRepeats(WaitingQ) /\ NoRepeats(TerminatedQ)
    /\ PlacedByState
    /\ terminatedProcessCount = Len(TerminatedQ)

\* When the results are printed nobody is left in the system: the count that
\* ended the loop stands for every process, each has one row, and a row says
\* killed exactly for the processes that a KILL line ended.  Rows are in the
\* order of completion, although a process finishes at the end of a tick and is
\* killed at the start of one.
ReportComplete ==
    phase \in {"free", "exit"} =>
        /\ \A p \in Procs : /\ pcb[p].state = "TERMINATED"
                            /\ \E i \in DOMAIN report :
                                 /\ report[i].proc = p
                                 /\ report[i].killed = pcb[p].killedFlag
        /\ Len(report) = totalProcess
        /\ \A i, j \in DOMAIN report :
             i < j => report[i].turnaround <= report[j].turnaround

-----------------------------------------------------------------------------
(* Time.                                                                     *)

\* p's line describes a process that can never complete.
Endless(p) == \/ pcb[p].burst <= 0
              \/ 0 < pcb[p].ioStart /\ pcb[p].ioStart < pcb[p].burst
                 /\ pcb[p].ioDuration < 0

\* A process starts its I/O when it has executed ioStart ticks, before its last
\* one, and has none left once it is past that point.  One without a burst never
\* starts it, and runs past the point with all of it left.
IoAtItsPoint ==
    \A p \in Procs :
      /\ pcb[p].state = "WAITING" =>
            /\ pcb[p].cpuExecuted = pcb[p].ioStart
            /\ pcb[p].cpuRemaining > 0
      /\ pcb[p].ioRemaining < pcb[p].ioDuration =>
            pcb[p].cpuExecuted >= pcb[p].ioStart
      /\ pcb[p].ioStart > 0 /\ pcb[p].cpuExecuted > pcb[p].ioStart =>
            pcb[p].ioRemaining = 0 \/ pcb[p].burst <= 0

\* Ticks of I/O that waiter i has had, with the one the current pass owes it.
IoServed(i) == pcb[WaitingQ[i]].ioDuration - pcb[WaitingQ[i]].ioRemaining
                 + (IF phase = "io" /\ i >= cursor THEN 1 ELSE 0)

\* I/O starts at its point in the burst, and then every waiter is served in
\* every tick: the waiting list is walked while finished processes are unlinked
\* from it, and nobody is skipped or served twice, so processes that started
\* their I/O earlier (one can per tick) have strictly more of it done.
IoService ==
    /\ IoAtItsPoint
    /\ \A i, j \in DOMAIN WaitingQ :
         i < j /\ ~Endless(WaitingQ[i]) /\ ~Endless(WaitingQ[j]) =>
             IoServed(i) > IoServed(j)

\* First come, first served: a process gets its first tick only after every
\* process read before it got one, or was killed before it could.
FirstTickInOrder ==
    \A p, q \in Procs :
        p < q /\ pcb[q].cpuExecuted > 0 =>
            \/ pcb[p].cpuExecuted > 0
            \/ pcb[p].killedFlag

\* Ticks of CPU and of I/O that p has had since the tick began.
Executed(p) == pcb[p].cpuExecuted - before[p].cpuExecuted
IoTicks(p) == before[p].ioRemaining - pcb[p].ioRemaining

\* p waits throughout the tick, or begins its I/O in it.
WaitsOn(p) == before[p].state = "WAITING" /\ ~pcb[p].killedFlag
BeginsIo(p) == /\ Executed(p) > 0
               /\ pcb[p].cpuExecuted = pcb[p].ioStart
               /\ pcb[p].cpuRemaining > 0

\* No tick is wasted and none is used twice.  At the end of every tick: one
\* process at most has executed, and once; exactly the processes in I/O that
\* had any left have had one tick of it, although the walk unlinks some of them
\* and one has just joined; the CPU was idle only because every process not
\* terminated was waiting when the tick began; and there was one to simulate.
NoWastedTick ==
    phase = "io" /\ cursor > Len(WaitingQ) =>
      /\ \A p \in Procs : Executed(p) \in {0, 1}
      /\ \A p, q \in Procs : Executed(p) > 0 /\ Executed(q) > 0 => p = q
      /\ \A p \in Procs :
           IoTicks(p) = IF before[p].ioRemaining > 0 /\ (WaitsOn(p) \/ BeginsIo(p))
                        THEN 1 ELSE 0
      /\ (\A p \in Procs : Executed(p) = 0) =>
           \A p \in Procs :
             pcb[p].state # "TERMINATED" => before[p].state = "WAITING"
      /\ \E p \in Procs : before[p].state # "TERMINATED"

-----------------------------------------------------------------------------
(* KILL events.                                                              *)

\* The kill loop of the current tick is past event k.
KillPassed(k) ==
    \/ clockTime > killSchedule[k].killTime
    \/ clockTime = killSchedule[k].killTime /\ phase \in {"dispatch", "cpu", "io"}

\* p is the process that was read last under this pid.
LastRead(p, pid) ==
    pcb[p].pid = pid /\ \A q \in Procs : pcb[q].pid = pid => q <= p

\* An event whose time has passed has ended the process read last under its pid,
\* in whatever queue it was and whatever else is in its bucket; and a process
\* marked killed was named so by an event at its completion time.
KillsHonoured ==
    phase \in {"kill", "dispatch", "cpu", "io", "results", "free"} =>
        /\ \A k \in DOMAIN killSchedule, p \in Procs :
             /\ killSchedule[k].killTime >= 0 /\ KillPassed(k)
             /\ LastRead(p, killSchedule[k].pid)
             => pcb[p].state = "TERMINATED"
        /\ \A p \in Procs : pcb[p].killedFlag =>
             \E k \in DOMAIN killSchedule :
                 /\ killSchedule[k].killTime = pcb[p].completionTime
                 /\ LastRead(p, killSchedule[k].pid)

\* A terminated process is final: it stays where it is in the terminated list,
\* and neither a later KILL nor the I/O list changes what is reported of it.
TerminatedIsFinal ==
    [][/\ \A p \in Procs : pcb[p].state = "TERMINATED" => pcb'[p] = pcb[p]
       /\ IsPrefix(TerminatedQ, TerminatedQ')]_vars

\* Lines that sscanf accepts although the process can never complete: without a
\* burst cpuRemaining passes 0 unnoticed, a negative ioDuration never counts
\* down to 0.  Only a KILL ends such a process, and the first kind keeps the CPU
\* until then: nobody behind it executes.
EndlessNeedsKill ==
    \A p \in Procs : Endless(p) =>
        /\ pcb[p].state = "TERMINATED" => pcb[p].killedFlag
        /\ pcb[p].burst <= 0 /\ pcb[p].cpuExecuted > 0 /\ ~pcb[p].killedFlag =>
             /\ running = p
             /\ \A q \in Procs : p < q => pcb[q].cpuExecuted = 0

\* The simulation ends by itself, unless some process that can never complete is
\* not killed.
EveryProcessEnds ==
    \/ <>(phase = "exit")
    \/ <>[](\E p \in Procs : Endless(p) /\ pcb[p].state # "TERMINATED")

=============================================================================
