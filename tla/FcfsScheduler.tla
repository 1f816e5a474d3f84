---------------------------- MODULE FcfsScheduler ----------------------------
(* The scheduler of src/fcfs_implementation.c: it reads process and KILL     *)
(* lines, then simulates one CPU and an I/O wait list tick by tick.  A tick  *)
(* is four passes (kill, dispatch, cpu, io); each pass, and each iteration   *)
(* of the kill and io loops, is an action.                                   *)
EXTENDS Integers, FcfsQueue

CONSTANTS
    Descriptors,      \* process lines: records pid, burst, ioStart, ioDuration
    KillLines,        \* KILL lines: records pid, killTime
    MaxProcs,         \* bound: process lines read (the code has none)
    MAX_PROCESS,      \* size of the hash map
    MAX_KILL_EVENTS,  \* size of the kill schedule
    MaxClock          \* bound: the last simulated tick (the code has none)

ASSUME FcfsAssumption ==
    /\ MAX_PROCESS \in Nat \ {0}
    /\ MAX_KILL_EVENTS \in Nat /\ MaxProcs \in Nat /\ MaxClock \in Nat
    /\ Descriptors \subseteq
         [pid : Nat, burst : Int, ioStart : Int, ioDuration : Int]
    /\ KillLines \subseteq [pid : Nat, killTime : Int]

NULL == 0

VARIABLES
    pcb,           \* sequence of PCBs in the order they were read
    hashMap,       \* bucket -> sequence of PCBs, most recently read first
    killSchedule,  \* sequence of KILL lines; killCount is its length
    ReadyQ, WaitingQ, TerminatedQ,
    running,       \* index of the PCB on the CPU, or NULL
    clockTime,
    terminatedProcessCount,
    phase,         \* where main is
    cursor,        \* i of the kill loop, position of the io loop
    report         \* rows printed by print_results

inputVars == <<hashMap, killSchedule>>
queueVars == <<ReadyQ, WaitingQ, TerminatedQ, terminatedProcessCount>>
vars == <<pcb, inputVars, queueVars, running, clockTime, phase, cursor, report>>

States == {"READY", "RUNNING", "WAITING", "TERMINATED"}
Phases == {"input", "kill", "dispatch", "cpu", "io", "results", "free", "exit"}

Procs == DOMAIN pcb
totalProcess == Len(pcb)
killCount == Len(killSchedule)
key(pid) == pid % MAX_PROCESS

\* Mutant: the last PCB with this pid in the chain.
HashSearchOldest(pid) ==
    LET chain == hashMap[key(pid)]
        found == {i \in DOMAIN chain :
                    /\ pcb[chain[i]].pid = pid
                    /\ \A j \in DOMAIN chain : i < j => pcb[chain[j]].pid # pid}
    IN  IF found = {} THEN NULL ELSE chain[CHOOSE i \in found : TRUE]

\* The first PCB with this pid in its bucket's chain.
HashSearch(pid) ==
    LET chain == hashMap[key(pid)]
        found == {i \in DOMAIN chain :
                    /\ pcb[chain[i]].pid = pid
                    /\ \A j \in DOMAIN chain : j < i => pcb[chain[j]].pid # pid}
    IN  IF found = {} THEN NULL ELSE chain[CHOOSE i \in found : TRUE]

\* main leaves the simulation loop once every process has terminated.
loopTest(done, total) == IF done < total THEN "kill" ELSE "results"

Init ==
    /\ pcb = <<>>
    /\ hashMap = [k \in 0 .. MAX_PROCESS - 1 |-> <<>>]
    /\ killSchedule = <<>>
    /\ ReadyQ = <<>> /\ WaitingQ = <<>> /\ TerminatedQ = <<>>
    /\ running = NULL
    /\ clockTime = 0
    /\ terminatedProcessCount = 0
    /\ phase = "input"
    /\ cursor = 1
    /\ report = <<>>

-----------------------------------------------------------------------------
(* Reading the input.                                                        *)

\* A line with ioStart or ioDuration 0 describes a process without I/O.
NewPcb(d) ==
    LET noIo == d.ioStart = 0 \/ d.ioDuration = 0
    IN  [ pid            |-> d.pid,
          burst          |-> d.burst,
          ioStart        |-> IF noIo THEN -1 ELSE d.ioStart,
          ioDuration     |-> IF noIo THEN 0 ELSE d.ioDuration,
          ioRemaining    |-> IF noIo THEN 0 ELSE d.ioDuration,
          state          |-> "READY",
          cpuExecuted    |-> 0,
          cpuRemaining   |-> d.burst,
          completionTime |-> -1,
          killedFlag     |-> FALSE ]

ReadProcess(d) ==
    /\ phase = "input"
    /\ totalProcess < MaxProcs
    /\ LET p == totalProcess + 1
       IN  /\ pcb' = Append(pcb, NewPcb(d))
           /\ hashMap' = [hashMap EXCEPT ![key(d.pid)] = <<p>> \o @]
           /\ ReadyQ' = enqueue(ReadyQ, p)
    /\ UNCHANGED <<killSchedule, WaitingQ, TerminatedQ, running, clockTime,
                   terminatedProcessCount, phase, cursor, report>>

\* A full schedule drops the line (the code first writes past its end).
ReadKill(k) ==
    /\ phase = "input"
    /\ killCount < MAX_KILL_EVENTS
    /\ killSchedule' = Append(killSchedule, k)
    /\ UNCHANGED <<pcb, hashMap, queueVars, running, clockTime, phase, cursor,
                   report>>

\* End of file, or a PCB that cannot be allocated.
EndOfInput ==
    /\ phase = "input"
    /\ phase' = loopTest(terminatedProcessCount, totalProcess)
    /\ cursor' = 1
    /\ UNCHANGED <<pcb, inputVars, queueVars, running, clockTime, report>>

-----------------------------------------------------------------------------
(* One tick of the simulation.                                               *)

\* The event names a process that is still live, at this tick.
firesAgain(e, p) == e.killTime = clockTime /\ p # NULL
fires(e, p) == /\ e.killTime = clockTime
               /\ p # NULL
               /\ pcb[p].state # "TERMINATED"

\* p leaves the CPU, or the queue its state names.
takeOutNothing(p) == UNCHANGED <<running, ReadyQ, WaitingQ>>
takeOut(p) ==
    \/ /\ p = running
       /\ running' = NULL
       /\ UNCHANGED <<ReadyQ, WaitingQ>>
    \/ /\ p # running
       /\ ReadyQ' = IF pcb[p].state = "READY"
                    THEN removeNode(ReadyQ, p) ELSE ReadyQ
       /\ WaitingQ' = IF pcb[p].state = "WAITING"
                      THEN removeNode(WaitingQ, p) ELSE WaitingQ
       /\ UNCHANGED running

asKilled(p) == [pcb[p] EXCEPT !.killedFlag = TRUE,
                              !.completionTime = clockTime,
                              !.state = "TERMINATED"]

kill(p) ==
    /\ takeOut(p)
    /\ pcb' = [pcb EXCEPT ![p] = asKilled(p)]
    /\ TerminatedQ' = enqueue(TerminatedQ, p)
    /\ terminatedProcessCount' = terminatedProcessCount + 1

KillStep ==
    /\ phase = "kill"
    /\ cursor <= killCount
    /\ cursor' = cursor + 1
    /\ LET e == killSchedule[cursor]
           p == HashSearch(e.pid)
       IN  IF fires(e, p)
           THEN kill(p)
           ELSE UNCHANGED <<pcb, queueVars, running>>
    /\ UNCHANGED <<inputVars, clockTime, phase, report>>

KillsDone ==
    /\ phase = "kill"
    /\ cursor > killCount
    /\ phase' = "dispatch"
    /\ UNCHANGED <<pcb, inputVars, queueVars, running, clockTime, cursor, report>>

Dispatch ==
    /\ phase = "dispatch"
    /\ phase' = "cpu"
    /\ IF running = NULL /\ ReadyQ # <<>>
       THEN /\ running' = Head(ReadyQ)
            /\ ReadyQ' = dequeue(ReadyQ)
            /\ pcb' = [pcb EXCEPT ![Head(ReadyQ)] = [@ EXCEPT !.state = "RUNNING"]]
       ELSE UNCHANGED <<running, ReadyQ, pcb>>
    /\ UNCHANGED <<inputVars, WaitingQ, TerminatedQ, terminatedProcessCount,
                   clockTime, cursor, report>>

\* The running process p executes one tick and may start its I/O or complete.
startsIoLate(p) == /\ pcb[p].ioStart > 0
                   /\ pcb[p].cpuExecuted = pcb[p].ioStart
                   /\ pcb[p].cpuRemaining - 1 > 0
startsIo(p) == /\ pcb[p].ioStart > 0
               /\ pcb[p].cpuExecuted + 1 = pcb[p].ioStart
               /\ pcb[p].cpuRemaining - 1 > 0
completesBelow(p) == ~startsIo(p) /\ pcb[p].cpuRemaining - 1 <= 0
completes(p) == ~startsIo(p) /\ pcb[p].cpuRemaining - 1 = 0

asExecuted(p) ==
    [pcb[p] EXCEPT !.cpuRemaining = @ - 1,
                   !.cpuExecuted = @ + 1,
                   !.state = IF startsIo(p) THEN "WAITING"
                             ELSE IF completes(p) THEN "TERMINATED" ELSE @,
                   !.completionTime = IF completes(p) THEN clockTime + 1 ELSE @]

execute(p) ==
    /\ pcb' = [pcb EXCEPT ![p] = asExecuted(p)]
    /\ WaitingQ' = IF startsIo(p) THEN enqueue(WaitingQ, p) ELSE WaitingQ
    /\ TerminatedQ' = IF completes(p) THEN enqueue(TerminatedQ, p) ELSE TerminatedQ
    /\ terminatedProcessCount' =
           terminatedProcessCount + (IF completes(p) THEN 1 ELSE 0)
    /\ running' = IF startsIo(p) \/ completes(p) THEN NULL ELSE running

CpuTick ==
    /\ phase = "cpu"
    /\ phase' = "io"
    /\ cursor' = 1
    /\ IF running # NULL
       THEN execute(running)
       ELSE UNCHANGED <<pcb, WaitingQ, TerminatedQ, terminatedProcessCount, running>>
    /\ UNCHANGED <<inputVars, ReadyQ, clockTime, report>>

\* Visit the waiting process at the cursor.  One that finishes is unlinked, so
\* its successor, which the code remembered, is the next at the same position.
ioLeft(p) == IF pcb[p].state = "WAITING" /\ pcb[p].ioRemaining > 0
             THEN pcb[p].ioRemaining - 1 ELSE pcb[p].ioRemaining

\* Its I/O ends in the tick that leaves none.
ioEnds(p) == pcb[p].state = "WAITING" /\ ioLeft(p) = 0

asVisited(p) == [pcb[p] EXCEPT !.ioRemaining = ioLeft(p),
                               !.state = IF ioEnds(p) THEN "READY" ELSE @]

\* Where the walk goes on after it visited (and perhaps unlinked) a process.
afterVisitOver(done) == cursor + 1
afterVisit(done) == IF done THEN cursor ELSE cursor + 1

IoVisit ==
    /\ phase = "io"
    /\ cursor <= Len(WaitingQ)
    /\ LET p    == WaitingQ[cursor]
           done == ioEnds(p)
       IN  /\ pcb' = [pcb EXCEPT ![p] = asVisited(p)]
           /\ WaitingQ' = IF done THEN removeNode(WaitingQ, p) ELSE WaitingQ
           /\ ReadyQ' = IF done THEN enqueue(ReadyQ, p) ELSE ReadyQ
           /\ cursor' = afterVisit(done)
    /\ UNCHANGED <<inputVars, TerminatedQ, terminatedProcessCount, running,
                   clockTime, phase, report>>

EndTick ==
    /\ phase = "io"
    /\ cursor > Len(WaitingQ)
    /\ clockTime < MaxClock
    /\ clockTime' = clockTime + 1
    /\ cursor' = 1
    /\ phase' = loopTest(terminatedProcessCount, totalProcess)
    /\ UNCHANGED <<pcb, inputVars, queueVars, running, report>>

-----------------------------------------------------------------------------
(* The results.                                                              *)

calculateWaitingTime(p) == pcb[p].completionTime - pcb[p].burst

\* One printed row; without KILL lines the table has no status column.
Row(p) ==
    LET killed == killCount > 0 /\ pcb[p].killedFlag
    IN  [ proc       |-> p,
          killed     |-> killed,
          turnaround |-> pcb[p].completionTime,
          waiting    |-> IF killed THEN 0 ELSE calculateWaitingTime(p) ]

print_results ==
    /\ phase = "results"
    /\ phase' = "free"
    /\ report' = [i \in DOMAIN TerminatedQ |-> Row(TerminatedQ[i])]
    /\ UNCHANGED <<pcb, inputVars, queueVars, running, clockTime, cursor>>

\* Every PCB reached through the hash map is freed, and its chain is cleared.
freeMemory ==
    /\ phase = "free"
    /\ phase' = "exit"
    /\ hashMap' = [k \in DOMAIN hashMap |-> <<>>]
    /\ UNCHANGED <<pcb, killSchedule, queueVars, running, clockTime, cursor, report>>

Next ==
    \/ \E d \in Descriptors : ReadProcess(d)
    \/ \E k \in KillLines : ReadKill(k)
    \/ EndOfInput
    \/ KillStep \/ KillsDone \/ Dispatch \/ CpuTick \/ IoVisit \/ EndTick
    \/ print_results \/ freeMemory

Spec == Init /\ [][Next]_vars

\* The program is one thread that keeps stepping, and its input ends.
Fairness == /\ WF_vars(EndOfInput)
            /\ WF_vars(KillStep \/ KillsDone \/ Dispatch \/ CpuTick \/ IoVisit
                       \/ EndTick \/ print_results \/ freeMemory)

=============================================================================
