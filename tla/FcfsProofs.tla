------------------------------ MODULE FcfsProofs ------------------------------
(* Theorems about the FCFS scheduler, for every set of process and KILL      *)
(* lines and every size of the tables.                                       *)
EXTENDS FcfsProperties, ProofBasics, FiniteSetTheorems

-----------------------------------------------------------------------------
(* The queue operations.                                                     *)

\* Linking a process at the rear (enqueue) adds it and nothing else.
LEMMA EnqueueProps ==
    ASSUME NEW S, NEW q \in Seq(S), NEW p \in S
    PROVE  /\ enqueue(q, p) \in Seq(S)
           /\ Len(enqueue(q, p)) = Len(q) + 1
           /\ \A x : In(enqueue(q, p), x) <=> In(q, x) \/ x = p
           /\ NoRepeats(q) /\ ~In(q, p) => NoRepeats(enqueue(q, p))
<1>1. /\ Append(q, p) \in Seq(S)
      /\ Len(Append(q, p)) = Len(q) + 1
      /\ \A i \in 1 .. Len(q) : Append(q, p)[i] = q[i]
      /\ Append(q, p)[Len(q) + 1] = p
      /\ DOMAIN Append(q, p) = 1 .. Len(q) + 1
      /\ DOMAIN q = 1 .. Len(q)
      /\ Len(q) \in Nat
  BY AppendProperties, LenProperties
<1>2. ASSUME NEW x PROVE In(Append(q, p), x) <=> In(q, x) \/ x = p
  <2>1. In(q, x) \/ x = p => In(Append(q, p), x)
    BY <1>1 DEF In
  <2>2. In(Append(q, p), x) => In(q, x) \/ x = p
    <3> SUFFICES ASSUME NEW i \in 1 .. Len(q) + 1, Append(q, p)[i] = x
                 PROVE  In(q, x) \/ x = p
      BY <1>1 DEF In
    <3>1. i \in 1 .. Len(q) \/ i = Len(q) + 1
      BY <1>1
    <3> QED BY <3>1, <1>1 DEF In
  <2> QED BY <2>1, <2>2
<1>3. ASSUME NoRepeats(q), ~In(q, p) PROVE NoRepeats(Append(q, p))
  <2> SUFFICES ASSUME NEW i \in 1 .. Len(q) + 1, NEW j \in 1 .. Len(q) + 1,
                      Append(q, p)[i] = Append(q, p)[j]
               PROVE  i = j
    BY <1>1 DEF NoRepeats
  <2> QED BY <1>1, <1>3 DEF NoRepeats, In
<1> QED BY <1>1, <1>2, <1>3 DEF enqueue

\* Taking the front process off (dequeue) removes it and nothing else.
LEMMA DequeueProps ==
    ASSUME NEW S, NEW q \in Seq(S), q # <<>>
    PROVE  /\ dequeue(q) \in Seq(S)
           /\ Head(q) \in S
           /\ In(q, Head(q))
           /\ NoRepeats(q) => /\ NoRepeats(dequeue(q))
                              /\ \A x : In(dequeue(q), x) <=> In(q, x) /\ x # Head(q)
<1>1. /\ Tail(q) \in Seq(S)
      /\ Len(Tail(q)) = Len(q) - 1
      /\ \A i \in 1 .. Len(Tail(q)) : Tail(q)[i] = q[i + 1]
      /\ DOMAIN q = 1 .. Len(q)
      /\ DOMAIN Tail(q) = 1 .. Len(q) - 1
      /\ Head(q) = q[1] /\ Head(q) \in S
      /\ Len(q) \in Nat \ {0}
  BY HeadTailProperties, LenProperties, EmptySeq
<1>2. In(q, Head(q))
  BY <1>1 DEF In
<1>3. ASSUME NoRepeats(q)
      PROVE  /\ NoRepeats(Tail(q))
             /\ \A x : In(Tail(q), x) <=> In(q, x) /\ x # Head(q)
  <2>1. NoRepeats(Tail(q))
    BY <1>1, <1>3 DEF NoRepeats
  <2>2. ASSUME NEW x, In(Tail(q), x) PROVE In(q, x) /\ x # Head(q)
    BY <1>1, <1>3, <2>2 DEF In, NoRepeats
  <2>3. ASSUME NEW x, In(q, x), x # Head(q) PROVE In(Tail(q), x)
    <3>1. PICK i \in 1 .. Len(q) : q[i] = x
      BY <1>1, <2>3 DEF In
    <3>2. i - 1 \in 1 .. Len(q) - 1
      BY <1>1, <2>3, <3>1
    <3>3. Tail(q)[i - 1] = q[(i - 1) + 1] /\ (i - 1) + 1 = i
      BY <1>1, <3>2
    <3>4. Tail(q)[i - 1] = x
      BY <3>1, <3>3
    <3> QED BY <1>1, <3>2, <3>4 DEF In
  <2> QED BY <2>1, <2>2, <2>3
<1> QED BY <1>1, <1>2, <1>3 DEF dequeue

\* Unlinking a process (removeNode) moves those behind it up by one place.
LEMMA RemoveNodeShifts ==
    ASSUME NEW S, NEW q \in Seq(S), NEW p, In(q, p)
    PROVE  /\ removeNode(q, p) \in Seq(S)
           /\ Len(removeNode(q, p)) = Len(q) - 1
           /\ DOMAIN removeNode(q, p) = 1 .. Len(q) - 1
           /\ \E k \in 1 .. Len(q) :
                /\ q[k] = p
                /\ \A i \in 1 .. Len(q) - 1 :
                     removeNode(q, p)[i] = IF i < k THEN q[i] ELSE q[i + 1]
<1>0. Len(q) \in Nat /\ DOMAIN q = 1 .. Len(q) /\ \A i \in 1 .. Len(q) : q[i] \in S
  BY LenProperties, ElementOfSeq
<1> DEFINE k == CHOOSE i \in DOMAIN q : q[i] = p
<1>1. k \in 1 .. Len(q) /\ q[k] = p
  BY <1>0 DEF In
<1>2. removeNode(q, p) = RemoveAt(q, k)
  BY DEF removeNode
<1> HIDE DEF k
<1>3. /\ RemoveAt(q, k) \in Seq(S)
      /\ Len(RemoveAt(q, k)) = Len(q) - 1
      /\ DOMAIN RemoveAt(q, k) = 1 .. Len(q) - 1
      /\ \A i \in 1 .. Len(q) - 1 : RemoveAt(q, k)[i] = IF i < k THEN q[i] ELSE q[i + 1]
  BY <1>1, RemoveAtShifts
<1> QED BY <1>1, <1>2, <1>3

\* Unlinking a process removes it and nothing else.
LEMMA RemoveNodeProps ==
    ASSUME NEW S, NEW q \in Seq(S), NEW p
    PROVE  /\ removeNode(q, p) \in Seq(S)
           /\ In(q, p) => Len(removeNode(q, p)) = Len(q) - 1
           /\ NoRepeats(q) => /\ NoRepeats(removeNode(q, p))
                              /\ \A x : In(removeNode(q, p), x) <=> In(q, x) /\ x # p
<1>0. Len(q) \in Nat /\ DOMAIN q = 1 .. Len(q) /\ \A i \in 1 .. Len(q) : q[i] \in S
  BY LenProperties, ElementOfSeq
<1>1. CASE ~In(q, p)
  BY <1>1 DEF removeNode, In
<1>2. CASE In(q, p)
  <2> DEFINE r == removeNode(q, p)
  <2>1. /\ r \in Seq(S) /\ Len(r) = Len(q) - 1
        /\ DOMAIN r = 1 .. Len(q) - 1
    BY <1>2, RemoveNodeShifts
  <2>2. PICK k \in 1 .. Len(q) :
          /\ q[k] = p
          /\ \A i \in 1 .. Len(q) - 1 : r[i] = IF i < k THEN q[i] ELSE q[i + 1]
    BY <1>2, RemoveNodeShifts
  <2> HIDE DEF r
  <2>3. ASSUME NoRepeats(q) PROVE NoRepeats(r)
    <3> SUFFICES ASSUME NEW i \in 1 .. Len(q) - 1, NEW j \in 1 .. Len(q) - 1,
                        r[i] = r[j]
                 PROVE  i = j
      BY <2>1, <2>2 DEF NoRepeats
    <3>1. (IF i < k THEN q[i] ELSE q[i + 1]) = (IF j < k THEN q[j] ELSE q[j + 1])
      BY <2>1, <2>2
    <3> QED BY <1>0, <2>2, <2>3, <3>1 DEF NoRepeats
  <2>4. ASSUME NoRepeats(q), NEW x, In(r, x) PROVE In(q, x) /\ x # p
    <3>1. PICK i \in 1 .. Len(q) - 1 : r[i] = x
      BY <2>1, <2>2, <2>4 DEF In
    <3>2. x = IF i < k THEN q[i] ELSE q[i + 1]
      BY <2>1, <2>2, <3>1
    <3>3. In(q, x)
      BY <1>0, <3>2 DEF In
    <3>4. x # p
      BY <1>0, <2>2, <2>4, <3>2 DEF NoRepeats
    <3> QED BY <3>3, <3>4
  <2>5. ASSUME NEW x, In(q, x), x # p PROVE In(r, x)
    <3>1. PICK i \in 1 .. Len(q) : q[i] = x
      BY <1>0, <2>5 DEF In
    <3>2. CASE i < k
      BY <1>0, <2>2, <2>1, <3>1, <3>2 DEF In
    <3>3. CASE i > k
      <4>1. i - 1 \in 1 .. Len(q) - 1 /\ ~(i - 1 < k)
        BY <1>0, <2>2, <3>3
      <4>2. r[i - 1] = q[i - 1 + 1]
        BY <2>2, <4>1
      <4> QED BY <1>0, <2>1, <3>1, <4>1, <4>2 DEF In
    <3>4. i # k
      BY <2>2, <2>5, <3>1
    <3> QED BY <1>0, <2>2, <3>2, <3>3, <3>4
  <2> QED BY <1>2, <2>1, <2>3, <2>4, <2>5 DEF r
<1> QED BY <1>1, <1>2

-----------------------------------------------------------------------------
(* Type correctness.                                                         *)

\* A table of n PCBs is a sequence of length n.
LEMMA TableIsSeq ==
    ASSUME NEW S, NEW n \in Nat, NEW f \in [1 .. n -> S]
    PROVE  f \in Seq(S) /\ Len(f) = n /\ DOMAIN f = 1 .. n
BY SeqDef, LenProperties

\* What the type invariant says of the PCB table.
LEMMA TableProps ==
    ASSUME pcb \in Seq(Pcb)
    PROVE  /\ totalProcess \in Nat
           /\ Procs = 1 .. totalProcess
           /\ pcb \in [1 .. totalProcess -> Pcb]
           /\ \A p \in Procs : p # NULL /\ pcb[p] \in Pcb
BY LenProperties DEF Procs, totalProcess, NULL

\* HashSearch returns a process that was read, or NULL.
LEMMA HashSearchType ==
    ASSUME TypeOK, NEW pid \in Nat
    PROVE  HashSearch(pid) \in Procs \cup {NULL}
<1>1. key(pid) \in 0 .. MAX_PROCESS - 1
  BY FcfsAssumption DEF key
<1> DEFINE chain == hashMap[key(pid)]
<1>2. chain \in Seq(Procs)
  BY <1>1 DEF TypeOK
<1> HIDE DEF chain
<1> DEFINE found == {i \in DOMAIN chain :
                       /\ pcb[chain[i]].pid = pid
                       /\ \A j \in DOMAIN chain : j < i => pcb[chain[j]].pid # pid}
<1>3. \A i \in found : chain[i] \in Procs
  BY <1>2, LenProperties, ElementOfSeq
<1>4. HashSearch(pid) = IF found = {} THEN NULL ELSE chain[CHOOSE i \in found : TRUE]
  BY DEF HashSearch, chain, found
<1> HIDE DEF found
<1> QED BY <1>3, <1>4

\* Reading a process appends one well-typed PCB.
LEMMA NewPcbType ==
    ASSUME NEW d \in Descriptors
    PROVE  NewPcb(d) \in Pcb
BY FcfsAssumption DEF NewPcb, Pcb, States

\* The initial state is well typed.
LEMMA InitTypeOK == Init => TypeOK
BY EmptySeq, FcfsAssumption DEF Init, TypeOK, Phases, NULL, Procs, totalProcess, killCount

\* Reading a process line preserves the types.
LEMMA ReadProcessTypeOK ==
    ASSUME TypeOK, NEW d \in Descriptors, ReadProcess(d)
    PROVE  TypeOK'
<1> DEFINE p == totalProcess + 1
<1>1. /\ totalProcess \in Nat /\ Procs = 1 .. totalProcess
      /\ pcb' = Append(pcb, NewPcb(d))
  BY TableProps DEF TypeOK, ReadProcess
<1>2. pcb' \in Seq(Pcb) /\ Procs' = 1 .. totalProcess + 1
  <2>1. pcb \in Seq(Pcb) /\ NewPcb(d) \in Pcb
    BY NewPcbType DEF TypeOK
  <2>2. Append(pcb, NewPcb(d)) \in Seq(Pcb) /\ Len(Append(pcb, NewPcb(d))) = Len(pcb) + 1
    BY <2>1, AppendProperties
  <2> QED BY <1>1, <2>2, LenProperties DEF Procs, totalProcess
<1>3. Procs \subseteq Procs' /\ p \in Procs'
  BY <1>1, <1>2
<1>4. \A q : q \in Seq(Procs) => q \in Seq(Procs')
  BY <1>3, SeqMonotonic
<1>5. hashMap' \in [0 .. MAX_PROCESS - 1 -> Seq(Procs')]
  <2>1. key(d.pid) \in 0 .. MAX_PROCESS - 1
    BY FcfsAssumption DEF key
  <2>2. hashMap \in [0 .. MAX_PROCESS - 1 -> Seq(Procs')]
    BY <1>4 DEF TypeOK
  <2>3. <<p>> \in Seq(Procs')
    BY <1>3
  <2>4. <<p>> \o hashMap[key(d.pid)] \in Seq(Procs')
    BY <2>1, <2>2, <2>3, ConcatProperties
  <2>5. hashMap' = [hashMap EXCEPT ![key(d.pid)] = <<p>> \o @]
    BY DEF ReadProcess
  <2> QED BY <2>1, <2>2, <2>4, <2>5
<1>6. ReadyQ' \in Seq(Procs')
  BY <1>3, <1>4, EnqueueProps DEF TypeOK, ReadProcess
<1>7. /\ WaitingQ' \in Seq(Procs') /\ TerminatedQ' \in Seq(Procs')
      /\ running' \in Procs' \cup {NULL}
  BY <1>3, <1>4 DEF TypeOK, ReadProcess
<1>8. report' \in Seq([proc : Procs', killed : BOOLEAN,
                       turnaround : Int, waiting : Int])
  <2>1. [proc : Procs, killed : BOOLEAN, turnaround : Int, waiting : Int]
          \subseteq [proc : Procs', killed : BOOLEAN, turnaround : Int, waiting : Int]
    BY <1>3
  <2> QED BY <2>1, SeqMonotonic DEF TypeOK, ReadProcess
<1> QED BY <1>2, <1>5, <1>6, <1>7, <1>8 DEF TypeOK, ReadProcess, killCount

\* The updates that the simulation makes to a PCB are well typed.
LEMMA PcbUpdates ==
    ASSUME NEW r \in Pcb, NEW i \in Int, NEW j \in Int, NEW n \in Nat,
           NEW s \in States, NEW b \in BOOLEAN
    PROVE  /\ [r EXCEPT !.killedFlag = b, !.completionTime = i, !.state = s] \in Pcb
           /\ [r EXCEPT !.ioRemaining = i, !.state = s] \in Pcb
           /\ [r EXCEPT !.cpuRemaining = i, !.cpuExecuted = n, !.state = s,
                        !.completionTime = j] \in Pcb
<1>1. [r EXCEPT !.killedFlag = b, !.completionTime = i, !.state = s] \in Pcb
  BY Zenon DEF Pcb
<1>2. [r EXCEPT !.ioRemaining = i, !.state = s] \in Pcb
  BY Zenon DEF Pcb
<1>3. [r EXCEPT !.cpuRemaining = i, !.cpuExecuted = n, !.state = s,
                !.completionTime = j] \in Pcb
  BY Zenon DEF Pcb
<1> QED BY <1>1, <1>2, <1>3

\* A step that updates one entry keeps the table, and what refers to it, well
\* typed.
LEMMA TableUpdate ==
    ASSUME TypeOK, pcb' \in [1 .. totalProcess -> Pcb]
    PROVE  /\ pcb' \in Seq(Pcb)
           /\ Procs' = Procs
           /\ totalProcess' = totalProcess
BY TableProps, TableIsSeq DEF TypeOK, Procs, totalProcess

\* Updating one entry of the process table by a PCB gives a table of PCBs.
LEMMA TableEntry ==
    ASSUME pcb \in Seq(Pcb), NEW p \in Procs, NEW r \in Pcb
    PROVE  [pcb EXCEPT ![p] = r] \in [1 .. totalProcess -> Pcb]
BY TableProps

\* The kill loop preserves the types.
LEMMA KillStepTypeOK ==
    ASSUME TypeOK, KillStep
    PROVE  TypeOK'
<1> DEFINE e == killSchedule[cursor]
           p == HashSearch(e.pid)
<1>1. cursor \in 1 .. Len(killSchedule)
  BY LenProperties DEF KillStep, TypeOK, killCount
<1>2. e.pid \in Nat
  BY <1>1, ElementOfSeq, FcfsAssumption DEF TypeOK
<1>3. p \in Procs \cup {NULL}
  BY <1>2, HashSearchType
<1> HIDE DEF e, p
<1>4. cursor' \in Nat \ {0} /\ cursor' <= killCount' + 1 /\ phase' = "kill"
  BY <1>1, LenProperties DEF KillStep, TypeOK, killCount, inputVars
<1>5. CASE fires(e, p)
  <2>1. p \in Procs /\ kill(p)
    BY <1>3, <1>5 DEF KillStep, fires, e, p
  <2>2. pcb' \in [1 .. totalProcess -> Pcb]
    <3>1. asKilled(p) \in Pcb
      <4>1. pcb[p] \in Pcb /\ clockTime \in Int /\ "TERMINATED" \in States
        BY <2>1, TableProps DEF TypeOK, States
      <4> QED BY <4>1, PcbUpdates DEF asKilled
    <3> QED BY <2>1, <3>1, TableEntry DEF TypeOK, kill
  <2>3. pcb' \in Seq(Pcb) /\ Procs' = Procs
    BY <2>2, TableUpdate
  <2>4. ReadyQ' \in Seq(Procs) /\ WaitingQ' \in Seq(Procs) /\ running' \in Procs \cup {NULL}
    BY <2>1, RemoveNodeProps DEF kill, takeOut, TypeOK
  <2>5. TerminatedQ' \in Seq(Procs)
    BY <2>1, EnqueueProps DEF kill, TypeOK
  <2>6. terminatedProcessCount' \in Nat
    BY <2>1 DEF kill, TypeOK
  <2> QED BY <1>4, <2>3, <2>4, <2>5, <2>6 DEF TypeOK, KillStep, inputVars
<1>6. CASE ~fires(e, p)
  <2>1. UNCHANGED <<pcb, queueVars, running>>
    BY <1>6 DEF KillStep, e, p
  <2> QED BY <1>4, <2>1 DEF TypeOK, KillStep, inputVars, queueVars, Procs
<1> QED BY <1>5, <1>6

\* Dispatching preserves the types.
LEMMA DispatchTypeOK ==
    ASSUME TypeOK, Dispatch
    PROVE  TypeOK'
<1>1. CASE running = NULL /\ ReadyQ # <<>>
  <2>1. Head(ReadyQ) \in Procs /\ ReadyQ' \in Seq(Procs)
    BY <1>1, DequeueProps DEF TypeOK, Dispatch
  <2>2. pcb' \in [1 .. totalProcess -> Pcb]
    <3> DEFINE r == [pcb[Head(ReadyQ)] EXCEPT !.state = "RUNNING"]
    <3>1. r \in Pcb
      BY <2>1, TableProps DEF TypeOK, Pcb, States
    <3>2. pcb' = [pcb EXCEPT ![Head(ReadyQ)] = r]
      BY <1>1 DEF Dispatch
    <3> HIDE DEF r
    <3> QED BY <2>1, <3>1, <3>2, TableEntry DEF TypeOK
  <2>3. pcb' \in Seq(Pcb) /\ Procs' = Procs
    BY <2>2, TableUpdate
  <2> QED BY <1>1, <2>1, <2>3 DEF TypeOK, Dispatch, inputVars, Phases
<1>2. CASE ~(running = NULL /\ ReadyQ # <<>>)
  BY <1>2 DEF TypeOK, Dispatch, inputVars, Phases, Procs
<1> QED BY <1>1, <1>2

\* A CPU tick preserves the types.
LEMMA CpuTickTypeOK ==
    ASSUME TypeOK, CpuTick
    PROVE  TypeOK'
<1>0. cursor' \in Nat \ {0} /\ \A n \in Nat : cursor' <= n + 1
  BY DEF CpuTick
<1>1. CASE running # NULL
  <2> DEFINE p == running
  <2>1. p \in Procs /\ execute(p)
    BY <1>1 DEF TypeOK, CpuTick
  <2>2. pcb' \in [1 .. totalProcess -> Pcb]
    <3>1. asExecuted(p) \in Pcb
      <4>0. pcb[p] \in Pcb /\ clockTime + 1 \in Int
        BY <2>1, TableProps DEF TypeOK
      <4> DEFINE v == pcb[p].cpuRemaining - 1
                 n == pcb[p].cpuExecuted + 1
      <4>1. v \in Int /\ n \in Nat
        BY <4>0 DEF Pcb
      <4> DEFINE s == IF startsIo(p) THEN "WAITING"
                      ELSE IF completes(p) THEN "TERMINATED" ELSE pcb[p].state
                 t == IF completes(p) THEN clockTime + 1 ELSE pcb[p].completionTime
      <4>2. s \in States /\ t \in Int
        BY <4>0 DEF Pcb, States
      <4>3. asExecuted(p) = [pcb[p] EXCEPT !.cpuRemaining = v, !.cpuExecuted = n,
                                           !.state = s, !.completionTime = t]
        BY DEF asExecuted
      <4> HIDE DEF s, t, v, n
      <4>4. [pcb[p] EXCEPT !.cpuRemaining = v, !.cpuExecuted = n,
                           !.state = s, !.completionTime = t] \in Pcb
        BY <4>0, <4>1, <4>2, PcbUpdates, Zenon
      <4> QED BY <4>3, <4>4, Zenon
    <3> QED BY <2>1, <3>1, TableEntry DEF TypeOK, execute
  <2>3. pcb' \in Seq(Pcb) /\ Procs' = Procs
    BY <2>2, TableUpdate
  <2>4. WaitingQ' \in Seq(Procs) /\ TerminatedQ' \in Seq(Procs)
    BY <2>1, EnqueueProps DEF execute, TypeOK
  <2>5. terminatedProcessCount' \in Nat /\ running' \in Procs \cup {NULL}
    BY <2>1 DEF execute, TypeOK
  <2>6. Len(WaitingQ') \in Nat
    BY <2>4, LenProperties
  <2> QED BY <1>0, <2>3, <2>4, <2>5, <2>6 DEF TypeOK, CpuTick, inputVars, Phases
<1>2. CASE running = NULL
  <2>1. Len(WaitingQ) \in Nat
    BY LenProperties DEF TypeOK
  <2> QED BY <1>0, <1>2, <2>1 DEF TypeOK, CpuTick, inputVars, Phases, Procs
<1> QED BY <1>1, <1>2

\* Visiting a waiting process preserves the types, and the walk stays inside
\* the list it unlinks from.
LEMMA IoVisitTypeOK ==
    ASSUME TypeOK, IoVisit
    PROVE  TypeOK'
<1> DEFINE p    == WaitingQ[cursor]
           done == ioEnds(p)
<1>1. cursor \in 1 .. Len(WaitingQ) /\ DOMAIN WaitingQ = 1 .. Len(WaitingQ)
  BY LenProperties DEF TypeOK, IoVisit
<1>2. p \in Procs /\ In(WaitingQ, p)
  BY <1>1, ElementOfSeq DEF TypeOK, In
<1>3. pcb' \in [1 .. totalProcess -> Pcb]
  <2>1. asVisited(p) \in Pcb
    <3>0. pcb[p] \in Pcb
      BY <1>2, TableProps DEF TypeOK
    <3> HIDE DEF p
    <3>1. ioLeft(p) \in Int
      BY <3>0 DEF Pcb, ioLeft
    <3> DEFINE s == IF ioEnds(p) THEN "READY" ELSE pcb[p].state
    <3>2. s \in States
      BY <3>0 DEF Pcb, States
    <3>3. asVisited(p) = [pcb[p] EXCEPT !.ioRemaining = ioLeft(p), !.state = s]
      BY DEF asVisited
    <3> HIDE DEF s
    <3>4. [pcb[p] EXCEPT !.ioRemaining = ioLeft(p), !.state = s] \in Pcb
      BY <3>0, <3>1, <3>2, PcbUpdates, Zenon
    <3> QED BY <3>3, <3>4, Zenon
  <2> QED BY <1>2, <2>1, TableEntry DEF TypeOK, IoVisit
<1>4. pcb' \in Seq(Pcb) /\ Procs' = Procs
  BY <1>3, TableUpdate
<1>5. /\ WaitingQ' = IF done THEN removeNode(WaitingQ, p) ELSE WaitingQ
      /\ ReadyQ' = IF done THEN enqueue(ReadyQ, p) ELSE ReadyQ
      /\ cursor' = IF done THEN cursor ELSE cursor + 1
  BY DEF IoVisit, afterVisit
<1> HIDE DEF p, done
<1>6. WaitingQ' \in Seq(Procs) /\ ReadyQ' \in Seq(Procs)
  BY <1>2, <1>5, RemoveNodeProps, EnqueueProps DEF TypeOK
<1>7. cursor' \in Nat \ {0} /\ cursor' <= Len(WaitingQ') + 1
  <2>1. CASE done
    <3>1. Len(WaitingQ') = Len(WaitingQ) - 1
      BY <1>2, <1>5, <2>1, RemoveNodeProps DEF TypeOK
    <3> QED BY <1>1, <1>5, <2>1, <3>1
  <2>2. CASE ~done
    BY <1>1, <1>5, <2>2
  <2> QED BY <2>1, <2>2
<1> QED BY <1>4, <1>6, <1>7 DEF TypeOK, IoVisit, inputVars

\* Printing the results preserves the types.
LEMMA PrintResultsTypeOK ==
    ASSUME TypeOK, print_results
    PROVE  TypeOK'
<1> DEFINE R == [proc : Procs, killed : BOOLEAN, turnaround : Int, waiting : Int]
<1>1. ASSUME NEW p \in Procs PROVE Row(p) \in R
  <2>1. pcb[p] \in Pcb
    BY TableProps DEF TypeOK
  <2> QED BY <2>1 DEF Row, Pcb, calculateWaitingTime
<1>2. \A i \in 1 .. Len(TerminatedQ) : TerminatedQ[i] \in Procs
  BY ElementOfSeq DEF TypeOK
<1>3. DOMAIN TerminatedQ = 1 .. Len(TerminatedQ) /\ Len(TerminatedQ) \in Nat
  BY LenProperties DEF TypeOK
<1> HIDE DEF R
<1>4. report' \in [1 .. Len(TerminatedQ) -> R]
  BY <1>1, <1>2, <1>3 DEF print_results
<1>5. report' \in Seq(R)
  BY <1>3, <1>4, TableIsSeq
<1> QED BY <1>5 DEF TypeOK, print_results, inputVars, queueVars, Phases, Procs, R

\* The program never leaves its types, whatever lines it reads.
THEOREM TypeCorrect == Spec => []TypeOK
<1>1. Init => TypeOK
  BY InitTypeOK
<1>2. TypeOK /\ [Next]_vars => TypeOK'
  <2> SUFFICES ASSUME TypeOK, [Next]_vars PROVE TypeOK'
    OBVIOUS
  <2>1. ASSUME NEW d \in Descriptors, ReadProcess(d) PROVE TypeOK'
    BY <2>1, ReadProcessTypeOK
  <2>2. ASSUME NEW k \in KillLines, ReadKill(k) PROVE TypeOK'
    <3>1. killSchedule' \in Seq(KillLines)
      BY <2>2, AppendProperties DEF ReadKill, TypeOK
    <3> QED BY <2>2, <3>1 DEF ReadKill, TypeOK, queueVars, Procs
  <2>3. CASE EndOfInput
    <3>1. killCount \in Nat
      BY LenProperties DEF TypeOK, killCount
    <3> QED BY <2>3, <3>1 DEF EndOfInput, TypeOK, loopTest, Phases, inputVars,
                              queueVars, Procs, killCount
  <2>4. CASE KillStep
    BY <2>4, KillStepTypeOK
  <2>5. CASE KillsDone
    BY <2>5 DEF KillsDone, TypeOK, Phases, inputVars, queueVars, Procs
  <2>6. CASE Dispatch
    BY <2>6, DispatchTypeOK
  <2>7. CASE CpuTick
    BY <2>7, CpuTickTypeOK
  <2>8. CASE IoVisit
    BY <2>8, IoVisitTypeOK
  <2>9. CASE EndTick
    <3>1. killCount \in Nat
      BY LenProperties DEF TypeOK, killCount
    <3> QED BY <2>9, <3>1 DEF EndTick, TypeOK, loopTest, Phases, inputVars,
                              queueVars, Procs, killCount
  <2>10. CASE print_results
    BY <2>10, PrintResultsTypeOK
  <2>11. CASE freeMemory
    <3>1. hashMap' \in [0 .. MAX_PROCESS - 1 -> Seq(Procs)]
      BY <2>11, EmptySeq DEF freeMemory, TypeOK
    <3> QED BY <2>11, <3>1 DEF freeMemory, TypeOK, Phases, queueVars, Procs
  <2>12. CASE UNCHANGED vars
    BY <2>12 DEF vars, TypeOK, inputVars, queueVars, Procs, killCount
  <2> QED BY <2>1, <2>2, <2>3, <2>4, <2>5, <2>6, <2>7, <2>8, <2>9, <2>10, <2>11,
             <2>12 DEF Next
<1> QED BY <1>1, <1>2, PTL DEF Spec

-----------------------------------------------------------------------------
(* Placement: every process is in exactly one place.  With the types it is   *)
(* inductive: each action moves one process and updates its state with it.   *)

\* An action that moves process p, and only p, between places.
LEMMA MoveKeepsOthers ==
    ASSUME Placement, Procs' = Procs, NEW p \in Procs,
           \A q \in Procs : q # p => pcb'[q].state = pcb[q].state,
           \A q \in Procs : q # p => /\ In(ReadyQ', q) <=> In(ReadyQ, q)
                                     /\ In(WaitingQ', q) <=> In(WaitingQ, q)
                                     /\ In(TerminatedQ', q) <=> In(TerminatedQ, q)
                                     /\ (running' = q) <=> (running = q),
           /\ pcb'[p].state = "READY"      <=> In(ReadyQ', p)
           /\ pcb'[p].state = "WAITING"    <=> In(WaitingQ', p)
           /\ pcb'[p].state = "TERMINATED" <=> In(TerminatedQ', p)
           /\ pcb'[p].state = "RUNNING"    <=> running' = p
    PROVE  PlacedByState'
BY DEF Placement, PlacedByState

\* Reading a process puts the new process, and only it, into the ready queue.
LEMMA ReadProcessPlacement ==
    ASSUME TypeOK, Placement, NEW d \in Descriptors, ReadProcess(d)
    PROVE  Placement'
<1> DEFINE n == totalProcess + 1
<1>1. /\ totalProcess \in Nat /\ Procs = 1 .. totalProcess
      /\ pcb' = Append(pcb, NewPcb(d))
      /\ pcb \in Seq(Pcb) /\ NewPcb(d) \in Pcb
  BY TableProps, NewPcbType DEF TypeOK, ReadProcess
<1>2. /\ Procs' = 1 .. totalProcess + 1
      /\ \A p \in Procs : pcb'[p] = pcb[p]
      /\ pcb'[n] = NewPcb(d)
  BY <1>1, AppendProperties, LenProperties DEF Procs, totalProcess
<1>3. n \notin Procs /\ n # NULL /\ n # running
  BY <1>1 DEF TypeOK, NULL
<1>4. /\ ReadyQ \in Seq(Procs) /\ WaitingQ \in Seq(Procs) /\ TerminatedQ \in Seq(Procs)
      /\ ~In(ReadyQ, n) /\ ~In(WaitingQ, n) /\ ~In(TerminatedQ, n)
  BY <1>3, ElementOfSeq, LenProperties DEF TypeOK, In
<1>5. ReadyQ \in Seq(Procs \cup {n})
  BY <1>4, SeqMonotonic
<1>6. /\ NoRepeats(ReadyQ')
      /\ \A x : In(ReadyQ', x) <=> In(ReadyQ, x) \/ x = n
  <2>1. ReadyQ' = enqueue(ReadyQ, n)
    BY DEF ReadProcess
  <2>2. n \in Procs \cup {n} /\ NoRepeats(ReadyQ)
    BY DEF Placement
  <2> HIDE DEF n
  <2>3. /\ \A x : In(enqueue(ReadyQ, n), x) <=> In(ReadyQ, x) \/ x = n
        /\ NoRepeats(ReadyQ) /\ ~In(ReadyQ, n) => NoRepeats(enqueue(ReadyQ, n))
    BY <1>5, <2>2, EnqueueProps
  <2> QED BY <1>4, <2>1, <2>2, <2>3
<1>7. UNCHANGED <<WaitingQ, TerminatedQ, running, terminatedProcessCount>>
  BY DEF ReadProcess
<1>8. pcb'[n].state = "READY"
  BY <1>2 DEF NewPcb
<1>9. ASSUME NEW p \in Procs'
      PROVE  /\ pcb'[p].state = "READY"      <=> In(ReadyQ', p)
             /\ pcb'[p].state = "WAITING"    <=> In(WaitingQ', p)
             /\ pcb'[p].state = "TERMINATED" <=> In(TerminatedQ', p)
             /\ pcb'[p].state = "RUNNING"    <=> running' = p
  <2>1. CASE p \in Procs
    BY <2>1, <1>2, <1>3, <1>6, <1>7 DEF Placement, PlacedByState
  <2>2. CASE p = n
    BY <2>2, <1>3, <1>4, <1>6, <1>7, <1>8
  <2>3. p \in Procs \/ p = n
    BY <1>1, <1>2
  <2> QED BY <2>1, <2>2, <2>3
<1>10. PlacedByState'
  BY <1>9 DEF PlacedByState
<1> QED BY <1>6, <1>7, <1>10 DEF Placement

\* A kill moves its target from where its state says it is to the end of the
\* terminated list.
LEMMA KillPlacement ==
    ASSUME TypeOK, Placement, NEW p \in Procs, pcb[p].state # "TERMINATED", kill(p)
    PROVE  Placement'
<1>1. /\ pcb \in Seq(Pcb) /\ pcb \in [1 .. totalProcess -> Pcb]
      /\ Procs = 1 .. totalProcess
      /\ pcb[p] \in Pcb /\ pcb[p].state \in States
  BY TableProps DEF TypeOK, Pcb
<1>2. /\ pcb' = [pcb EXCEPT ![p] = asKilled(p)]
      /\ TerminatedQ' = enqueue(TerminatedQ, p)
      /\ terminatedProcessCount' = terminatedProcessCount + 1
      /\ takeOut(p)
  BY DEF kill
<1>3. /\ Procs' = Procs
      /\ \A q \in Procs : q # p => pcb'[q].state = pcb[q].state
      /\ pcb'[p].state = "TERMINATED"
  BY <1>1, <1>2 DEF Procs, asKilled, Pcb
<1>4. ~In(TerminatedQ, p)
  BY DEF Placement, PlacedByState
<1>5. /\ NoRepeats(TerminatedQ')
      /\ Len(TerminatedQ') = Len(TerminatedQ) + 1
      /\ \A x : In(TerminatedQ', x) <=> In(TerminatedQ, x) \/ x = p
  BY <1>2, <1>4, EnqueueProps DEF TypeOK, Placement
<1>6. /\ NoRepeats(ReadyQ') /\ NoRepeats(WaitingQ')
      /\ \A x \in Procs : In(ReadyQ', x) <=> In(ReadyQ, x) /\ x # p
      /\ \A x \in Procs : In(WaitingQ', x) <=> In(WaitingQ, x) /\ x # p
      /\ \A x \in Procs : running' = x <=> running = x /\ x # p
  <2>1. CASE p = running
    <3>1. pcb[p].state = "RUNNING"
      BY <2>1 DEF Placement, PlacedByState
    <3>2. ~In(ReadyQ, p) /\ ~In(WaitingQ, p)
      BY <3>1 DEF Placement, PlacedByState
    <3>3. running' = NULL /\ UNCHANGED <<ReadyQ, WaitingQ>>
      BY <1>2, <2>1 DEF takeOut
    <3>4. \A x \in Procs : x # NULL
      BY TableProps DEF TypeOK
    <3> QED BY <2>1, <3>2, <3>3, <3>4 DEF Placement
  <2>2. CASE p # running
    <3>1. /\ pcb[p].state = "READY" \/ pcb[p].state = "WAITING"
          /\ UNCHANGED running
      BY <1>1, <1>2, <2>2 DEF States, Placement, PlacedByState, takeOut
    <3>2. CASE pcb[p].state = "READY"
      <4>1. ReadyQ' = removeNode(ReadyQ, p) /\ WaitingQ' = WaitingQ
        BY <1>2, <2>2, <3>2 DEF takeOut
      <4>2. ~In(WaitingQ, p)
        BY <3>2 DEF Placement, PlacedByState
      <4> QED BY <2>2, <3>1, <4>1, <4>2, RemoveNodeProps DEF TypeOK, Placement
    <3>3. CASE pcb[p].state = "WAITING"
      <4>1. WaitingQ' = removeNode(WaitingQ, p) /\ ReadyQ' = ReadyQ
        BY <1>2, <2>2, <3>3 DEF takeOut
      <4>2. ~In(ReadyQ, p)
        BY <3>3 DEF Placement, PlacedByState
      <4> QED BY <2>2, <3>1, <4>1, <4>2, RemoveNodeProps DEF TypeOK, Placement
    <3> QED BY <3>1, <3>2, <3>3
  <2> QED BY <2>1, <2>2
<1>7. PlacedByState'
  BY <1>3, <1>5, <1>6, MoveKeepsOthers
<1> QED BY <1>2, <1>5, <1>6, <1>7 DEF Placement

\* Dispatching moves the front of the ready queue to the CPU.
LEMMA DispatchPlacement ==
    ASSUME TypeOK, Placement, Dispatch
    PROVE  Placement'
<1>1. UNCHANGED <<WaitingQ, TerminatedQ, terminatedProcessCount>>
  BY DEF Dispatch
<1>2. CASE running = NULL /\ ReadyQ # <<>>
  <2> DEFINE p == Head(ReadyQ)
  <2>1. /\ running' = p /\ ReadyQ' = dequeue(ReadyQ)
        /\ pcb' = [pcb EXCEPT ![p] = [@ EXCEPT !.state = "RUNNING"]]
    BY <1>2 DEF Dispatch
  <2>2. /\ p \in Procs /\ In(ReadyQ, p)
        /\ NoRepeats(ReadyQ')
        /\ \A x : In(ReadyQ', x) <=> In(ReadyQ, x) /\ x # p
    BY <1>2, <2>1, DequeueProps DEF TypeOK, Placement
  <2> HIDE DEF p
  <2>3. /\ pcb \in [1 .. totalProcess -> Pcb] /\ Procs = 1 .. totalProcess
        /\ pcb[p] \in Pcb /\ p # NULL
        /\ \A q \in Procs : q # NULL
    BY <2>2, TableProps DEF TypeOK
  <2>4. /\ Procs' = Procs
        /\ \A q \in Procs : q # p => pcb'[q].state = pcb[q].state
        /\ pcb'[p].state = "RUNNING"
    BY <2>1, <2>2, <2>3 DEF Procs, Pcb
  <2>5. pcb[p].state = "READY" /\ ~In(WaitingQ, p) /\ ~In(TerminatedQ, p)
    BY <2>2 DEF Placement, PlacedByState
  <2>6. PlacedByState'
    BY <1>1, <1>2, <2>1, <2>2, <2>3, <2>4, <2>5, MoveKeepsOthers
  <2> QED BY <1>1, <2>2, <2>6 DEF Placement
<1>3. CASE ~(running = NULL /\ ReadyQ # <<>>)
  <2>1. UNCHANGED <<pcb, ReadyQ, running>>
    BY <1>3 DEF Dispatch
  <2> QED BY <1>1, <2>1 DEF Placement, PlacedByState, Procs
<1> QED BY <1>2, <1>3

\* The process on the CPU stays there, or moves to the waiting queue or to the
\* terminated list.
LEMMA CpuTickPlacement ==
    ASSUME TypeOK, Placement, CpuTick
    PROVE  Placement'
<1>1. CASE running # NULL
  <2> DEFINE p == running
  <2>1. /\ p \in Procs /\ execute(p) /\ UNCHANGED ReadyQ
    BY <1>1 DEF TypeOK, CpuTick
  <2>2. /\ pcb \in [1 .. totalProcess -> Pcb] /\ Procs = 1 .. totalProcess
        /\ pcb[p] \in Pcb
        /\ \A q \in Procs : q # NULL
    BY <2>1, TableProps DEF TypeOK
  <2>3. pcb[p].state = "RUNNING"
    <3>1. pcb[p].state = "RUNNING" <=> running = p
      BY <2>1 DEF Placement, PlacedByState
    <3> QED BY <3>1
  <2>4. ~In(ReadyQ, p) /\ ~In(WaitingQ, p) /\ ~In(TerminatedQ, p)
    BY <2>1, <2>3 DEF Placement, PlacedByState
  <2>5. pcb'[p] = asExecuted(p) /\ Procs' = Procs
        /\ \A q \in Procs : q # p => pcb'[q].state = pcb[q].state
    BY <2>1, <2>2 DEF execute, Procs
  <2>6. pcb'[p].state = IF startsIo(p) THEN "WAITING"
                        ELSE IF completes(p) THEN "TERMINATED" ELSE "RUNNING"
    BY <2>2, <2>3, <2>5 DEF asExecuted, Pcb
  <2>7. CASE startsIo(p)
    <3>1. /\ WaitingQ' = enqueue(WaitingQ, p) /\ TerminatedQ' = TerminatedQ
          /\ terminatedProcessCount' = terminatedProcessCount
          /\ running' = NULL
      BY <2>1, <2>7 DEF execute, completes, TypeOK
    <3>2. /\ NoRepeats(WaitingQ')
          /\ \A x : In(WaitingQ', x) <=> In(WaitingQ, x) \/ x = p
      BY <2>1, <2>4, <3>1, EnqueueProps DEF TypeOK, Placement
    <3>3. PlacedByState'
      BY <2>1, <2>2, <2>4, <2>5, <2>6, <2>7, <3>1, <3>2, MoveKeepsOthers
    <3> QED BY <2>1, <3>1, <3>2, <3>3 DEF Placement
  <2>8. CASE completes(p)
    <3>1. /\ TerminatedQ' = enqueue(TerminatedQ, p) /\ WaitingQ' = WaitingQ
          /\ terminatedProcessCount' = terminatedProcessCount + 1
          /\ running' = NULL /\ ~startsIo(p)
      BY <2>1, <2>8 DEF execute, completes
    <3>2. /\ NoRepeats(TerminatedQ')
          /\ Len(TerminatedQ') = Len(TerminatedQ) + 1
          /\ \A x : In(TerminatedQ', x) <=> In(TerminatedQ, x) \/ x = p
      BY <2>1, <2>4, <3>1, EnqueueProps DEF TypeOK, Placement
    <3>3. PlacedByState'
      BY <2>1, <2>2, <2>4, <2>5, <2>6, <2>8, <3>1, <3>2, MoveKeepsOthers
    <3> QED BY <2>1, <3>1, <3>2, <3>3 DEF Placement
  <2>9. CASE ~startsIo(p) /\ ~completes(p)
    <3>1. /\ UNCHANGED <<WaitingQ, TerminatedQ, running>>
          /\ terminatedProcessCount' = terminatedProcessCount
      BY <2>1, <2>9 DEF execute, TypeOK
    <3>2. PlacedByState'
      BY <2>1, <2>2, <2>4, <2>5, <2>6, <2>9, <3>1, MoveKeepsOthers
    <3> QED BY <2>1, <3>1, <3>2 DEF Placement
  <2> QED BY <2>7, <2>8, <2>9
<1>2. CASE running = NULL
  BY <1>2 DEF CpuTick, Placement, PlacedByState, Procs
<1> QED BY <1>1, <1>2

\* A process whose I/O ends moves from the waiting to the ready queue.
LEMMA IoVisitPlacement ==
    ASSUME TypeOK, Placement, IoVisit
    PROVE  Placement'
<1> DEFINE p == WaitingQ[cursor]
<1>1. cursor \in 1 .. Len(WaitingQ) /\ DOMAIN WaitingQ = 1 .. Len(WaitingQ)
  BY LenProperties DEF TypeOK, IoVisit
<1>2. p \in Procs /\ In(WaitingQ, p)
  BY <1>1, ElementOfSeq DEF TypeOK, In
<1>3. /\ pcb' = [pcb EXCEPT ![p] = asVisited(p)]
      /\ WaitingQ' = IF ioEnds(p) THEN removeNode(WaitingQ, p) ELSE WaitingQ
      /\ ReadyQ' = IF ioEnds(p) THEN enqueue(ReadyQ, p) ELSE ReadyQ
      /\ UNCHANGED <<TerminatedQ, terminatedProcessCount, running>>
  BY DEF IoVisit
<1> HIDE DEF p
<1>4. /\ pcb \in [1 .. totalProcess -> Pcb] /\ Procs = 1 .. totalProcess
      /\ pcb[p] \in Pcb
  BY <1>2, TableProps DEF TypeOK
<1>5. /\ pcb[p].state = "WAITING"
      /\ ~In(ReadyQ, p) /\ ~In(TerminatedQ, p) /\ running # p
  BY <1>2 DEF Placement, PlacedByState
<1>6. /\ Procs' = Procs
      /\ \A q \in Procs : q # p => pcb'[q].state = pcb[q].state
      /\ pcb'[p].state = IF ioEnds(p) THEN "READY" ELSE "WAITING"
  BY <1>2, <1>3, <1>4, <1>5 DEF Procs, asVisited, Pcb
<1>7. CASE ioEnds(p)
  <2>1. /\ NoRepeats(WaitingQ') /\ NoRepeats(ReadyQ')
        /\ \A x : In(WaitingQ', x) <=> In(WaitingQ, x) /\ x # p
        /\ \A x : In(ReadyQ', x) <=> In(ReadyQ, x) \/ x = p
    BY <1>2, <1>3, <1>5, <1>7, RemoveNodeProps, EnqueueProps DEF TypeOK, Placement
  <2>2. PlacedByState'
    BY <1>2, <1>3, <1>5, <1>6, <1>7, <2>1, MoveKeepsOthers
  <2> QED BY <1>3, <2>1, <2>2 DEF Placement
<1>8. CASE ~ioEnds(p)
  <2>1. UNCHANGED <<WaitingQ, ReadyQ>>
    BY <1>3, <1>8
  <2>2. PlacedByState'
    BY <1>2, <1>3, <1>5, <1>6, <1>8, <2>1, MoveKeepsOthers
  <2> QED BY <1>3, <2>1, <2>2 DEF Placement
<1> QED BY <1>7, <1>8

\* Every process is always in exactly one place, and the count that ends the
\* simulation is the length of the terminated list.
THEOREM PlacementCorrect == Spec => []Placement
<1>1. Init => Placement
  BY DEF Init, Placement, PlacedByState, NoRepeats, Procs
<1>2. TypeOK /\ Placement /\ [Next]_vars => Placement'
  <2> SUFFICES ASSUME TypeOK, Placement, [Next]_vars PROVE Placement'
    OBVIOUS
  <2> USE DEF Placement, PlacedByState, Procs
  <2>1. ASSUME NEW d \in Descriptors, ReadProcess(d) PROVE Placement'
    BY <2>1, ReadProcessPlacement
  <2>2. ASSUME NEW k \in KillLines, ReadKill(k) PROVE Placement'
    BY <2>2 DEF ReadKill, queueVars
  <2>3. CASE EndOfInput
    BY <2>3 DEF EndOfInput, queueVars
  <2>4. CASE KillStep
    <3> DEFINE e == killSchedule[cursor]
               p == HashSearch(e.pid)
    <3>1. p \in Procs \cup {NULL}
      <4>1. cursor \in 1 .. Len(killSchedule)
        BY <2>4, LenProperties DEF KillStep, TypeOK, killCount
      <4>2. e.pid \in Nat
        BY <4>1, ElementOfSeq, FcfsAssumption DEF TypeOK
      <4> QED BY <4>2, HashSearchType
    <3>2. IF fires(e, p) THEN kill(p) ELSE UNCHANGED <<pcb, queueVars, running>>
      BY <2>4 DEF KillStep
    <3> HIDE DEF e, p
    <3>3. CASE fires(e, p)
      BY <3>1, <3>2, <3>3, KillPlacement DEF fires
    <3>4. CASE ~fires(e, p)
      BY <3>2, <3>4 DEF queueVars
    <3> QED BY <3>3, <3>4
  <2>5. CASE KillsDone
    BY <2>5 DEF KillsDone, queueVars
  <2>6. CASE Dispatch
    BY <2>6, DispatchPlacement
  <2>7. CASE CpuTick
    BY <2>7, CpuTickPlacement
  <2>8. CASE IoVisit
    BY <2>8, IoVisitPlacement
  <2>9. CASE EndTick
    BY <2>9 DEF EndTick, queueVars
  <2>10. CASE print_results
    BY <2>10 DEF print_results, queueVars
  <2>11. CASE freeMemory
    BY <2>11 DEF freeMemory, queueVars
  <2>12. CASE UNCHANGED vars
    BY <2>12 DEF vars, queueVars
  <2> QED BY <2>1, <2>2, <2>3, <2>4, <2>5, <2>6, <2>7, <2>8, <2>9, <2>10, <2>11,
             <2>12 DEF Next
<1> QED BY <1>1, <1>2, TypeCorrect, PTL DEF Spec

-----------------------------------------------------------------------------
(* Terminated processes stay as they are.                                    *)

\* What no step of the simulation may do to a process that has terminated.
Final ==
    /\ \A p \in Procs : pcb[p].state = "TERMINATED" => pcb'[p] = pcb[p]
    /\ IsPrefix(TerminatedQ, TerminatedQ')

\* A queue is a prefix of itself, and of itself with a process linked at its
\* rear (enqueue).
LEMMA PrefixProps ==
    ASSUME NEW S, NEW q \in Seq(S)
    PROVE  /\ IsPrefix(q, q)
           /\ \A p \in S : IsPrefix(q, enqueue(q, p))
<1>1. IsPrefix(q, q)
  BY LenProperties DEF IsPrefix
<1>2. ASSUME NEW p \in S PROVE IsPrefix(q, enqueue(q, p))
  <2> DEFINE a == Append(q, p)
  <2>1. /\ a \in Seq(S) /\ Len(a) = Len(q) + 1 /\ Len(q) \in Nat
        /\ \A i \in 1 .. Len(q) : a[i] = q[i]
    BY AppendProperties, LenProperties
  <2> HIDE DEF a
  <2>2. \A i \in 1 .. Len(q) : a[1 + i - 1] = q[1 + i - 1]
    BY <2>1
  <2>3. SubSeq(q, 1, Len(q)) = SubSeq(a, 1, Len(q))
    BY <2>1, <2>2
  <2>4. IsPrefix(q, a)
    BY <2>1, <2>3 DEF IsPrefix
  <2> QED BY <2>4 DEF enqueue, a
<1> QED BY <1>1, <1>2

\* A step that changes one live process and leaves the terminated list alone,
\* or links that process at its rear, changes nothing that is final.
LEMMA LiveStepFinal ==
    ASSUME TypeOK, NEW p \in Procs, pcb[p].state # "TERMINATED",
           NEW r, pcb' = [pcb EXCEPT ![p] = r],
           TerminatedQ' = TerminatedQ \/ TerminatedQ' = enqueue(TerminatedQ, p)
    PROVE  Final
<1>1. \A q \in Procs : q # p => pcb'[q] = pcb[q]
  BY TableProps DEF TypeOK
<1>2. IsPrefix(TerminatedQ, TerminatedQ')
  BY PrefixProps DEF TypeOK
<1> QED BY <1>1, <1>2 DEF Final

\* A step that leaves the table and the terminated list alone is final.
LEMMA QuietStepFinal ==
    ASSUME TypeOK, UNCHANGED <<pcb, TerminatedQ>>
    PROVE  Final
BY PrefixProps DEF TypeOK, Final

\* A process line is added behind the ones that were read.
LEMMA ReadProcessFinal ==
    ASSUME TypeOK, NEW d \in Descriptors, ReadProcess(d)
    PROVE  Final
<1>1. pcb' = Append(pcb, NewPcb(d)) /\ TerminatedQ' = TerminatedQ
  BY DEF ReadProcess
<1>2. \A p \in Procs : pcb'[p] = pcb[p]
  BY <1>1, TableProps, NewPcbType, AppendProperties, LenProperties
  DEF TypeOK, totalProcess
<1>3. IsPrefix(TerminatedQ, TerminatedQ')
  BY <1>1, PrefixProps DEF TypeOK
<1> QED BY <1>2, <1>3 DEF Final

\* A KILL line names a process that was read, or none.
LEMMA KillTarget ==
    ASSUME TypeOK, KillStep
    PROVE  HashSearch(killSchedule[cursor].pid) \in Procs \cup {NULL}
<1>1. cursor \in 1 .. Len(killSchedule)
  BY LenProperties DEF KillStep, TypeOK, killCount
<1>2. killSchedule[cursor].pid \in Nat
  BY <1>1, ElementOfSeq, FcfsAssumption DEF TypeOK
<1> QED BY <1>2, HashSearchType

\* A KILL line takes a live process only.
LEMMA KillStepFinal ==
    ASSUME TypeOK, KillStep
    PROVE  Final
<1> DEFINE e == killSchedule[cursor]
           p == HashSearch(e.pid)
<1>1. p \in Procs \cup {NULL}
  BY KillTarget
<1>2. IF fires(e, p) THEN kill(p) ELSE UNCHANGED <<pcb, queueVars, running>>
  BY DEF KillStep
<1> HIDE DEF e, p
<1>3. CASE fires(e, p)
  <2>1. p \in Procs /\ pcb[p].state # "TERMINATED"
    BY <1>1, <1>3 DEF fires
  <2>2. /\ pcb' = [pcb EXCEPT ![p] = asKilled(p)]
        /\ TerminatedQ' = enqueue(TerminatedQ, p)
    BY <1>2, <1>3 DEF kill
  <2> QED BY <2>1, <2>2, LiveStepFinal
<1>4. CASE ~fires(e, p)
  BY <1>2, <1>4, QuietStepFinal DEF queueVars
<1> QED BY <1>3, <1>4

\* The front of the ready queue is ready.
LEMMA DispatchFinal ==
    ASSUME TypeOK, Placement, Dispatch
    PROVE  Final
<1>1. TerminatedQ' = TerminatedQ
  BY DEF Dispatch
<1>2. CASE running = NULL /\ ReadyQ # <<>>
  <2> DEFINE p == Head(ReadyQ)
  <2>1. p \in Procs /\ In(ReadyQ, p)
    BY <1>2, DequeueProps DEF TypeOK
  <2>2. pcb' = [pcb EXCEPT ![p] = [pcb[p] EXCEPT !.state = "RUNNING"]]
    BY <1>2 DEF Dispatch
  <2> HIDE DEF p
  <2>3. pcb[p].state = "READY"
    BY <2>1 DEF Placement, PlacedByState
  <2> QED BY <1>1, <2>1, <2>2, <2>3, LiveStepFinal
<1>3. CASE ~(running = NULL /\ ReadyQ # <<>>)
  BY <1>1, <1>3, QuietStepFinal DEF Dispatch
<1> QED BY <1>2, <1>3

\* The process on the CPU is running.
LEMMA CpuTickFinal ==
    ASSUME TypeOK, Placement, CpuTick
    PROVE  Final
<1>1. CASE running # NULL
  <2>1. running \in Procs /\ execute(running)
    BY <1>1 DEF TypeOK, CpuTick
  <2>2. pcb[running].state = "RUNNING"
    BY <2>1 DEF Placement, PlacedByState
  <2>3. /\ pcb' = [pcb EXCEPT ![running] = asExecuted(running)]
        /\ \/ TerminatedQ' = TerminatedQ
           \/ TerminatedQ' = enqueue(TerminatedQ, running)
    BY <2>1 DEF execute
  <2> QED BY <2>1, <2>2, <2>3, LiveStepFinal
<1>2. CASE running = NULL
  BY <1>2, QuietStepFinal DEF CpuTick
<1> QED BY <1>1, <1>2

\* The walk over the I/O list visits waiting processes only.
LEMMA IoVisitFinal ==
    ASSUME TypeOK, Placement, IoVisit
    PROVE  Final
<1> DEFINE p == WaitingQ[cursor]
<1>1. cursor \in 1 .. Len(WaitingQ) /\ DOMAIN WaitingQ = 1 .. Len(WaitingQ)
  BY LenProperties DEF TypeOK, IoVisit
<1>2. p \in Procs /\ In(WaitingQ, p)
  BY <1>1, ElementOfSeq DEF TypeOK, In
<1>3. pcb[p].state = "WAITING"
  BY <1>2 DEF Placement, PlacedByState
<1>4. pcb' = [pcb EXCEPT ![p] = asVisited(p)] /\ TerminatedQ' = TerminatedQ
  BY DEF IoVisit
<1> HIDE DEF p
<1> QED BY <1>2, <1>3, <1>4, LiveStepFinal

\* Only live processes are ever changed, because a process is nowhere but in the
\* place that its state names.
LEMMA StepFinal ==
    ASSUME TypeOK, Placement, Next
    PROVE  Final
<1>1. ASSUME NEW d \in Descriptors, ReadProcess(d) PROVE Final
  BY <1>1, ReadProcessFinal
<1>2. ASSUME NEW k \in KillLines, ReadKill(k) PROVE Final
  BY <1>2, QuietStepFinal DEF ReadKill, queueVars
<1>3. CASE EndOfInput
  BY <1>3, QuietStepFinal DEF EndOfInput, queueVars
<1>4. CASE KillStep
  BY <1>4, KillStepFinal
<1>5. CASE KillsDone
  BY <1>5, QuietStepFinal DEF KillsDone, queueVars
<1>6. CASE Dispatch
  BY <1>6, DispatchFinal
<1>7. CASE CpuTick
  BY <1>7, CpuTickFinal
<1>8. CASE IoVisit
  BY <1>8, IoVisitFinal
<1>9. CASE EndTick
  BY <1>9, QuietStepFinal DEF EndTick, queueVars
<1>10. CASE print_results
  BY <1>10, QuietStepFinal DEF print_results, queueVars
<1>11. CASE freeMemory
  BY <1>11, QuietStepFinal DEF freeMemory, queueVars
<1> QED BY <1>1, <1>2, <1>3, <1>4, <1>5, <1>6, <1>7, <1>8, <1>9, <1>10, <1>11 DEF Next

\* A terminated process stays as it is, at its place in the terminated list,
\* whatever KILL lines and the I/O list do afterwards.
THEOREM TerminatedFinal == Spec => TerminatedIsFinal
<1>1. TypeOK /\ Placement /\ [Next]_vars => [Final]_vars
  BY StepFinal
<1>2. Spec => [][Final]_vars
  BY <1>1, TypeCorrect, PlacementCorrect, PTL DEF Spec
<1> QED BY <1>2 DEF Final, TerminatedIsFinal

-----------------------------------------------------------------------------
(* The report.                                                               *)

\* A process that completes in this tick's CPU pass does so at its end.
Latest == clockTime + (IF phase = "io" THEN 1 ELSE 0)

\* The terminated list is in the order of completion, up to now.
CompletedInOrder ==
    /\ \A i, j \in DOMAIN TerminatedQ : i < j =>
         pcb[TerminatedQ[i]].completionTime <= pcb[TerminatedQ[j]].completionTime
    /\ \A i \in DOMAIN TerminatedQ : pcb[TerminatedQ[i]].completionTime <= Latest

\* The status column is printed when a process was killed.
KilledByLine == \A p \in Procs : pcb[p].killedFlag => killCount > 0

\* What is left to do after the simulation has ended, and what was done.
Printed ==
    /\ phase \in {"results", "free", "exit"} => terminatedProcessCount >= totalProcess
    /\ phase \in {"free", "exit"} =>
         report = [i \in DOMAIN TerminatedQ |-> Row(TerminatedQ[i])]

\* ReportComplete speaks of the end only; this is what leads to it.
ReportInv == TypeOK /\ Placement /\ CompletedInOrder /\ KilledByLine /\ Printed

-----------------------------------------------------------------------------
(* The order of the terminated list.                                         *)

\* What was in the terminated list is in it still, and unchanged.
LEMMA OldCompletions ==
    ASSUME TypeOK, Placement, Final
    PROVE  /\ DOMAIN TerminatedQ = 1 .. Len(TerminatedQ) /\ Len(TerminatedQ) \in Nat
           /\ \A i \in DOMAIN TerminatedQ :
                /\ TerminatedQ[i] \in Procs
                /\ pcb'[TerminatedQ[i]] = pcb[TerminatedQ[i]]
                /\ pcb[TerminatedQ[i]].completionTime \in Int
<1>1. DOMAIN TerminatedQ = 1 .. Len(TerminatedQ) /\ Len(TerminatedQ) \in Nat
  BY LenProperties DEF TypeOK
<1>2. ASSUME NEW i \in DOMAIN TerminatedQ
      PROVE  /\ TerminatedQ[i] \in Procs
             /\ pcb'[TerminatedQ[i]] = pcb[TerminatedQ[i]]
             /\ pcb[TerminatedQ[i]].completionTime \in Int
  <2>1. TerminatedQ[i] \in Procs /\ In(TerminatedQ, TerminatedQ[i])
    BY <1>1, ElementOfSeq DEF TypeOK, In
  <2>2. pcb[TerminatedQ[i]].state = "TERMINATED"
    BY <2>1 DEF Placement, PlacedByState
  <2>3. pcb[TerminatedQ[i]] \in Pcb
    BY <2>1, TableProps DEF TypeOK
  <2> QED BY <2>1, <2>2, <2>3 DEF Final, Pcb
<1> QED BY <1>1, <1>2

\* A step that adds nobody keeps the order.
LEMMA NobodyCompletes ==
    ASSUME TypeOK, TypeOK', Placement, CompletedInOrder, Final,
           TerminatedQ' = TerminatedQ, Latest' >= Latest
    PROVE  CompletedInOrder'
<1>1. Latest \in Int /\ Latest' \in Int
  BY DEF TypeOK, Latest
<1> QED BY <1>1, OldCompletions DEF CompletedInOrder

\* A process that completes now completes after all others.
LEMMA OneCompletes ==
    ASSUME TypeOK, TypeOK', Placement, CompletedInOrder, Final, NEW p \in Procs,
           TerminatedQ' = enqueue(TerminatedQ, p),
           pcb'[p].completionTime = Latest', Latest' >= Latest
    PROVE  CompletedInOrder'
<1> DEFINE n == Len(TerminatedQ)
<1>1. Latest \in Int /\ Latest' \in Int
  BY DEF TypeOK, Latest
<1>2. /\ DOMAIN TerminatedQ = 1 .. n /\ n \in Nat
      /\ \A i \in 1 .. n : /\ pcb'[TerminatedQ[i]] = pcb[TerminatedQ[i]]
                           /\ pcb[TerminatedQ[i]].completionTime \in Int
  BY OldCompletions
<1>3. /\ DOMAIN TerminatedQ' = 1 .. n + 1
      /\ \A i \in 1 .. n : TerminatedQ'[i] = TerminatedQ[i]
      /\ TerminatedQ'[n + 1] = p
  BY AppendProperties, LenProperties DEF TypeOK, enqueue
<1> HIDE DEF n
<1>4. \A i \in 1 .. n + 1 : i \in 1 .. n \/ i = n + 1
  BY <1>2
<1>5. \A i \in 1 .. n :
        /\ pcb'[TerminatedQ'[i]].completionTime = pcb[TerminatedQ[i]].completionTime
        /\ pcb[TerminatedQ[i]].completionTime <= Latest
  BY <1>2, <1>3 DEF CompletedInOrder
<1>6. pcb'[TerminatedQ'[n + 1]].completionTime = Latest'
  BY <1>3
<1>7. \A i \in 1 .. n + 1 : pcb'[TerminatedQ'[i]].completionTime <= Latest'
  BY <1>1, <1>2, <1>4, <1>5, <1>6
<1>8. ASSUME NEW i \in 1 .. n + 1, NEW j \in 1 .. n + 1, i < j
      PROVE  pcb'[TerminatedQ'[i]].completionTime <= pcb'[TerminatedQ'[j]].completionTime
  <2>1. CASE j = n + 1
    BY <2>1, <1>6, <1>7
  <2>2. CASE j # n + 1
    <3>1. i \in 1 .. n /\ j \in 1 .. n
      BY <1>2, <1>8, <2>2
    <3> QED BY <1>2, <1>5, <1>8, <3>1 DEF CompletedInOrder
  <2> QED BY <2>1, <2>2
<1> QED BY <1>3, <1>7, <1>8 DEF CompletedInOrder

\* Step by step: a kill completes at the tick that begins, a process on the CPU
\* at the end of its tick, and nothing else completes anybody.
LEMMA StepKeepsOrder ==
    ASSUME TypeOK, TypeOK', Placement, CompletedInOrder, Final, Next
    PROVE  CompletedInOrder'
<1>0. clockTime \in Int
  BY DEF TypeOK
<1>1. ASSUME TerminatedQ' = TerminatedQ, clockTime' = clockTime, phase # "io"
      PROVE  CompletedInOrder'
  BY <1>0, <1>1, NobodyCompletes DEF Latest
<1>2. CASE \E d \in Descriptors : ReadProcess(d)
  BY <1>1, <1>2 DEF ReadProcess
<1>3. CASE \E k \in KillLines : ReadKill(k)
  BY <1>1, <1>3 DEF ReadKill, queueVars
<1>4. CASE EndOfInput \/ KillsDone \/ Dispatch \/ print_results \/ freeMemory
  BY <1>1, <1>4
  DEF EndOfInput, KillsDone, Dispatch, print_results, freeMemory, queueVars
<1>5. CASE IoVisit
  BY <1>0, <1>5, NobodyCompletes DEF IoVisit, Latest
<1>6. CASE EndTick
  <2>1. TerminatedQ' = TerminatedQ /\ phase = "io" /\ clockTime' = clockTime + 1
    BY <1>6 DEF EndTick, queueVars
  <2>2. phase' # "io"
    BY <1>6 DEF EndTick, loopTest
  <2> QED BY <1>0, <2>1, <2>2, NobodyCompletes DEF Latest
<1>7. CASE KillStep
  <2> DEFINE e == killSchedule[cursor]
             p == HashSearch(e.pid)
  <2>1. /\ phase = "kill" /\ phase' = "kill" /\ clockTime' = clockTime
        /\ IF fires(e, p) THEN kill(p) ELSE UNCHANGED <<pcb, queueVars, running>>
    BY <1>7 DEF KillStep
  <2>2. p \in Procs \cup {NULL}
    BY <1>7, KillTarget
  <2> HIDE DEF e, p
  <2>3. CASE fires(e, p)
    <3>1. p \in Procs
      BY <2>2, <2>3 DEF fires
    <3>2. /\ TerminatedQ' = enqueue(TerminatedQ, p)
          /\ pcb' = [pcb EXCEPT ![p] = asKilled(p)]
      BY <2>1, <2>3 DEF kill
    <3>3. pcb'[p].completionTime = clockTime
      BY <3>1, <3>2, TableProps DEF TypeOK, asKilled, Pcb
    <3> QED BY <1>0, <2>1, <3>1, <3>2, <3>3, OneCompletes DEF Latest
  <2>4. CASE ~fires(e, p)
    BY <1>1, <2>1, <2>4 DEF queueVars
  <2> QED BY <2>3, <2>4
<1>8. CASE CpuTick
  <2>1. phase = "cpu" /\ phase' = "io" /\ clockTime' = clockTime
    BY <1>8 DEF CpuTick
  <2>2. CASE running # NULL /\ completes(running)
    <3>1. running \in Procs /\ execute(running)
      BY <1>8, <2>2 DEF TypeOK, CpuTick
    <3>2. /\ TerminatedQ' = enqueue(TerminatedQ, running)
          /\ pcb' = [pcb EXCEPT ![running] = asExecuted(running)]
      BY <2>2, <3>1 DEF execute
    <3>3. pcb'[running].completionTime = clockTime + 1
      BY <2>2, <3>1, <3>2, TableProps DEF TypeOK, asExecuted, Pcb
    <3> QED BY <1>0, <2>1, <3>1, <3>2, <3>3, OneCompletes DEF Latest
  <2>3. CASE ~(running # NULL /\ completes(running))
    <3>1. TerminatedQ' = TerminatedQ
      BY <1>8, <2>3 DEF CpuTick, execute
    <3> QED BY <1>0, <2>1, <3>1, NobodyCompletes DEF Latest
  <2> QED BY <2>2, <2>3
<1> QED BY <1>2, <1>3, <1>4, <1>5, <1>6, <1>7, <1>8 DEF Next

-----------------------------------------------------------------------------
(* The status of a row, and the rows.                                        *)

\* Only a KILL line marks a process killed.
LEMMA StepKeepsKilled ==
    ASSUME TypeOK, TypeOK', Placement, KilledByLine, Next
    PROVE  KilledByLine'
<1>0. killCount \in Nat /\ killCount' \in Nat
  BY LenProperties DEF TypeOK, killCount
<1>1. ASSUME pcb' = pcb, killSchedule' = killSchedule PROVE KilledByLine'
  BY <1>1 DEF KilledByLine, Procs, killCount
<1>2. ASSUME NEW p \in Procs, NEW r, pcb' = [pcb EXCEPT ![p] = r],
             r.killedFlag = pcb[p].killedFlag, killSchedule' = killSchedule
      PROVE  KilledByLine'
  BY <1>2, TableProps DEF TypeOK, KilledByLine, Procs, killCount
<1>3. ASSUME NEW d \in Descriptors, ReadProcess(d) PROVE KilledByLine'
  <2>1. /\ pcb \in Seq(Pcb) /\ NewPcb(d) \in Pcb
        /\ pcb' = Append(pcb, NewPcb(d)) /\ killSchedule' = killSchedule
    BY <1>3, NewPcbType DEF TypeOK, ReadProcess
  <2>2. \A p \in Procs' : /\ p \in Procs => pcb'[p] = pcb[p]
                          /\ p \notin Procs => pcb'[p] = NewPcb(d)
    BY <2>1, AppendProperties, LenProperties DEF Procs
  <2>3. ~NewPcb(d).killedFlag
    BY DEF NewPcb
  <2> QED BY <2>1, <2>2, <2>3 DEF KilledByLine, killCount
<1>4. ASSUME NEW k \in KillLines, ReadKill(k) PROVE KilledByLine'
  <2>1. killCount' = killCount + 1 /\ pcb' = pcb
    BY <1>4, AppendProperties DEF TypeOK, ReadKill, killCount
  <2> QED BY <1>0, <2>1 DEF KilledByLine
<1>5. CASE EndOfInput \/ KillsDone \/ EndTick \/ print_results \/ freeMemory
  BY <1>1, <1>5
  DEF EndOfInput, KillsDone, EndTick, print_results, freeMemory, inputVars
<1>6. CASE KillStep
  <2>1. killSchedule' = killSchedule /\ cursor <= killCount /\ cursor \in Nat \ {0}
    BY <1>6 DEF KillStep, inputVars, TypeOK
  <2>2. killCount' > 0
    BY <1>0, <2>1 DEF killCount
  <2> QED BY <2>2 DEF KilledByLine
<1>7. CASE Dispatch
  <2>1. killSchedule' = killSchedule
    BY <1>7 DEF Dispatch, inputVars
  <2>2. CASE running = NULL /\ ReadyQ # <<>>
    <3> DEFINE p == Head(ReadyQ)
               r == [pcb[p] EXCEPT !.state = "RUNNING"]
    <3>1. p \in Procs /\ pcb' = [pcb EXCEPT ![p] = r]
      BY <1>7, <2>2, DequeueProps DEF TypeOK, Dispatch
    <3>2. r.killedFlag = pcb[p].killedFlag
      BY <3>1, TableProps DEF TypeOK, Pcb
    <3> HIDE DEF p, r
    <3> QED BY <1>2, <2>1, <3>1, <3>2
  <2>3. CASE ~(running = NULL /\ ReadyQ # <<>>)
    BY <1>1, <1>7, <2>1, <2>3 DEF Dispatch
  <2> QED BY <2>2, <2>3
<1>8. CASE CpuTick
  <2>1. killSchedule' = killSchedule
    BY <1>8 DEF CpuTick, inputVars
  <2>2. CASE running # NULL
    <3>1. running \in Procs /\ pcb' = [pcb EXCEPT ![running] = asExecuted(running)]
      BY <1>8, <2>2 DEF TypeOK, CpuTick, execute
    <3>2. asExecuted(running).killedFlag = pcb[running].killedFlag
      BY <3>1, TableProps DEF TypeOK, Pcb, asExecuted
    <3> QED BY <1>2, <2>1, <3>1, <3>2
  <2>3. CASE running = NULL
    BY <1>1, <1>8, <2>1, <2>3 DEF CpuTick
  <2> QED BY <2>2, <2>3
<1>9. CASE IoVisit
  <2> DEFINE p == WaitingQ[cursor]
  <2>1. killSchedule' = killSchedule /\ pcb' = [pcb EXCEPT ![p] = asVisited(p)]
    BY <1>9 DEF IoVisit, inputVars
  <2>2. p \in Procs
    BY <1>9, ElementOfSeq, LenProperties DEF TypeOK, IoVisit
  <2>3. asVisited(p).killedFlag = pcb[p].killedFlag
    BY <2>2, TableProps DEF TypeOK, Pcb, asVisited
  <2> HIDE DEF p
  <2> QED BY <1>2, <2>1, <2>2, <2>3
<1> QED BY <1>3, <1>4, <1>5, <1>6, <1>7, <1>8, <1>9 DEF Next

\* The loop is left only with every process counted, and print_results makes one
\* row per terminated process.
LEMMA StepKeepsPrinted ==
    ASSUME TypeOK, Printed, Next
    PROVE  Printed'
<1>0. terminatedProcessCount \in Int /\ totalProcess \in Int
  BY TableProps DEF TypeOK
<1>1. CASE phase' \notin {"results", "free", "exit"}
  BY <1>1 DEF Printed
<1>2. CASE EndOfInput \/ EndTick
  <2>1. /\ UNCHANGED <<pcb, terminatedProcessCount>>
        /\ phase' = loopTest(terminatedProcessCount, totalProcess)
    BY <1>2 DEF EndOfInput, EndTick, queueVars
  <2> QED BY <1>0, <2>1 DEF loopTest, Printed, totalProcess
<1>3. CASE print_results
  BY <1>3 DEF print_results, Printed, queueVars, inputVars, totalProcess, Row,
              killCount, calculateWaitingTime
<1>4. CASE freeMemory
  BY <1>4 DEF freeMemory, Printed, queueVars, totalProcess, Row, killCount,
              calculateWaitingTime
<1>5. CASE \/ \E d \in Descriptors : ReadProcess(d)
           \/ \E k \in KillLines : ReadKill(k)
           \/ KillStep \/ KillsDone \/ Dispatch \/ CpuTick \/ IoVisit
  BY <1>1, <1>5 DEF ReadProcess, ReadKill, KillStep, KillsDone, Dispatch, CpuTick,
                    IoVisit
<1> QED BY <1>2, <1>3, <1>4, <1>5 DEF Next

-----------------------------------------------------------------------------
(* The count that ends the loop stands for every process.                    *)

\* Nobody is in the terminated list twice, so a list as long as the table of
\* processes has them all.
LEMMA EverybodyTerminated ==
    ASSUME TypeOK, Placement, terminatedProcessCount >= totalProcess
    PROVE  /\ Len(TerminatedQ) = totalProcess
           /\ \A p \in Procs : \E i \in DOMAIN TerminatedQ : TerminatedQ[i] = p
<1> DEFINE L == Len(TerminatedQ)
<1>1. /\ L \in Nat /\ totalProcess \in Nat /\ L >= totalProcess
      /\ Procs = 1 .. totalProcess
      /\ DOMAIN TerminatedQ = 1 .. L
      /\ TerminatedQ \in [1 .. L -> Procs]
  BY TableProps, LenProperties DEF TypeOK, Placement
<1> HIDE DEF L
<1>2. TerminatedQ \in Injection(1 .. L, Procs)
  BY <1>1 DEF Placement, NoRepeats, Injection, IsInjective
<1>3. /\ IsFiniteSet(1 .. L) /\ Cardinality(1 .. L) = L
      /\ IsFiniteSet(Procs) /\ Cardinality(Procs) = totalProcess
  BY <1>1, FS_Interval
<1>4. L <= totalProcess /\ (L = totalProcess <=> TerminatedQ \in Surjection(1 .. L, Procs))
  BY <1>2, <1>3, FS_Injection
<1>5. L = totalProcess /\ TerminatedQ \in Surjection(1 .. L, Procs)
  BY <1>1, <1>4
<1> QED BY <1>1, <1>5 DEF L, Surjection

\* What the invariant says once the report is printed.
LEMMA InvReportComplete == ReportInv => ReportComplete
<1> SUFFICES ASSUME ReportInv, phase \in {"free", "exit"}
             PROVE  /\ \A p \in Procs :
                         /\ pcb[p].state = "TERMINATED"
                         /\ \E i \in DOMAIN report :
                              /\ report[i].proc = p
                              /\ report[i].killed = pcb[p].killedFlag
                    /\ Len(report) = totalProcess
                    /\ \A i, j \in DOMAIN report :
                         i < j => report[i].turnaround <= report[j].turnaround
  BY DEF ReportComplete
<1>1. /\ Len(TerminatedQ) = totalProcess
      /\ \A p \in Procs : \E i \in DOMAIN TerminatedQ : TerminatedQ[i] = p
  BY EverybodyTerminated DEF ReportInv, Printed
<1>2. report = [i \in DOMAIN TerminatedQ |-> Row(TerminatedQ[i])]
  BY DEF ReportInv, Printed
<1>3. ASSUME NEW p \in Procs
      PROVE  /\ pcb[p].state = "TERMINATED"
             /\ Row(p).proc = p
             /\ Row(p).killed = pcb[p].killedFlag
             /\ Row(p).turnaround = pcb[p].completionTime
  <2>1. pcb[p].state = "TERMINATED"
    BY <1>1 DEF ReportInv, Placement, PlacedByState, In
  <2>2. pcb[p].killedFlag \in BOOLEAN
    BY TableProps DEF ReportInv, TypeOK, Pcb
  <2>3. (killCount > 0 /\ pcb[p].killedFlag) = pcb[p].killedFlag
    BY <2>2 DEF ReportInv, KilledByLine
  <2> QED BY <2>1, <2>3 DEF Row
<1>4. /\ DOMAIN TerminatedQ = 1 .. totalProcess /\ totalProcess \in Nat
      /\ \A i \in DOMAIN TerminatedQ : TerminatedQ[i] \in Procs
  BY <1>1, TableProps, LenProperties, ElementOfSeq DEF ReportInv, TypeOK
<1>5. Len(report) = totalProcess /\ DOMAIN report = DOMAIN TerminatedQ
  BY <1>2, <1>4
<1>6. \A i \in DOMAIN report : report[i] = Row(TerminatedQ[i])
  BY <1>2
<1>7. \A i, j \in DOMAIN report :
        i < j => report[i].turnaround <= report[j].turnaround
  BY <1>3, <1>4, <1>5, <1>6 DEF ReportInv, CompletedInOrder
<1>8. ASSUME NEW p \in Procs
      PROVE  \E i \in DOMAIN report : /\ report[i].proc = p
                                      /\ report[i].killed = pcb[p].killedFlag
  <2>1. PICK i \in DOMAIN TerminatedQ : TerminatedQ[i] = p
    BY <1>1
  <2> QED BY <1>3, <1>5, <1>6, <2>1
<1> QED BY <1>3, <1>5, <1>7, <1>8

\* When the results are printed nobody is left in the system, every process has
\* its row with the right status, and the rows are in the order of completion,
\* whatever was read and whenever processes were killed.
THEOREM ReportIsComplete == Spec => []ReportComplete
<1> DEFINE Rest == CompletedInOrder /\ KilledByLine /\ Printed
<1>1. Init => Rest
  BY DEF Init, CompletedInOrder, KilledByLine, Printed, Procs
<1>2. TypeOK /\ TypeOK' /\ Placement /\ Rest /\ [Next]_vars => Rest'
  <2>1. CASE Next
    BY <2>1, StepFinal, StepKeepsOrder, StepKeepsKilled, StepKeepsPrinted
  <2>2. CASE UNCHANGED vars
    BY <2>2 DEF vars, inputVars, queueVars, CompletedInOrder, Latest, KilledByLine,
                Printed, Procs, totalProcess, killCount, Row, calculateWaitingTime
  <2> QED BY <2>1, <2>2
<1>3. TypeOK /\ Placement /\ Rest => ReportComplete
  BY InvReportComplete DEF ReportInv
<1> QED BY <1>1, <1>2, <1>3, TypeCorrect, PlacementCorrect, PTL DEF Spec

-----------------------------------------------------------------------------
(* Time: I/O at its point and in every tick, the order of first ticks, KILL  *)
(* lines that are honoured, processes that only a KILL line ends.            *)

(* The entries of the table.                                                 *)

\* What an entry of the table says of its process, at any time: how much of the
\* burst is left, when its I/O can have begun, what there is left of it, and who
\* can have terminated.
Account(r) ==
    /\ r.cpuRemaining = r.burst - r.cpuExecuted
    /\ r.burst > 0 /\ r.state # "TERMINATED" => r.cpuRemaining > 0
    /\ r.burst <= 0 /\ r.cpuExecuted > 0 /\ ~r.killedFlag => r.state = "RUNNING"
    /\ r.killedFlag => r.state = "TERMINATED"
    /\ r.cpuExecuted = 0 /\ ~r.killedFlag => r.state \in {"READY", "RUNNING"}
    /\ r.ioStart > 0 => r.ioDuration # 0
    /\ r.ioDuration < 0 \/ r.cpuExecuted < r.ioStart => r.ioRemaining = r.ioDuration
    /\ r.ioDuration >= 0 => r.ioRemaining \in 0 .. r.ioDuration
    /\ r.state = "WAITING" => /\ r.ioStart > 0 /\ r.cpuExecuted = r.ioStart
                              /\ r.cpuRemaining > 0 /\ r.ioRemaining # 0
    /\ r.burst > 0 /\ r.ioStart > 0 =>
         /\ r.cpuExecuted > r.ioStart => r.ioRemaining = 0
         /\ r.cpuExecuted = r.ioStart /\ r.state \in {"READY", "RUNNING"} =>
              r.ioRemaining = 0
    /\ r.state = "TERMINATED" /\ ~r.killedFlag =>
         /\ r.burst > 0
         /\ 0 < r.ioStart /\ r.ioStart < r.burst => r.ioDuration >= 0

AccountInv == \A p \in Procs : Account(pcb[p])

\* A process that is dispatched is on the CPU.
asDispatched(p) == [pcb[p] EXCEPT !.state = "RUNNING"]

\* The four updates that the simulation makes of an entry, each of a process
\* that is where the update presumes it.
Updated(p, r) ==
    \/ pcb[p].state # "TERMINATED" /\ r = asKilled(p) /\ phase = "kill"
    \/ pcb[p].state = "READY" /\ r = asDispatched(p) /\ phase = "dispatch"
    \/ pcb[p].state = "RUNNING" /\ r = asExecuted(p) /\ running = p /\ phase = "cpu"
    \/ pcb[p].state = "WAITING" /\ r = asVisited(p) /\ phase = "io"

\* A step changes at most one entry, by one of these updates, or reads a new
\* process.
LEMMA StepShape ==
    ASSUME TypeOK, Placement, Next
    PROVE  \/ pcb' = pcb
           \/ \E d \in Descriptors : ReadProcess(d)
           \/ \E p \in Procs : \E r : Updated(p, r) /\ pcb' = [pcb EXCEPT ![p] = r]
<1>1. CASE \E k \in KillLines : ReadKill(k)
  BY <1>1 DEF ReadKill
<1>2. CASE EndOfInput \/ KillsDone \/ EndTick \/ print_results \/ freeMemory
  BY <1>2 DEF EndOfInput, KillsDone, EndTick, print_results, freeMemory
<1>3. CASE KillStep
  <2> DEFINE e == killSchedule[cursor]
             p == HashSearch(e.pid)
  <2>1. p \in Procs \cup {NULL}
    BY <1>3, KillTarget
  <2>2. /\ IF fires(e, p) THEN kill(p) ELSE UNCHANGED <<pcb, queueVars, running>>
        /\ phase = "kill"
    BY <1>3 DEF KillStep
  <2> HIDE DEF e, p
  <2>3. CASE fires(e, p)
    <3>1. p \in Procs /\ pcb[p].state # "TERMINATED"
      BY <2>1, <2>3 DEF fires
    <3>2. pcb' = [pcb EXCEPT ![p] = asKilled(p)]
      BY <2>2, <2>3 DEF kill
    <3> QED BY <2>2, <3>1, <3>2 DEF Updated
  <2> QED BY <2>2, <2>3
<1>4. CASE Dispatch
  <2>1. CASE running = NULL /\ ReadyQ # <<>>
    <3> DEFINE p == Head(ReadyQ)
    <3>1. p \in Procs /\ In(ReadyQ, p)
      BY <2>1, DequeueProps DEF TypeOK
    <3>2. pcb' = [pcb EXCEPT ![p] = asDispatched(p)] /\ phase = "dispatch"
      BY <1>4, <2>1 DEF Dispatch, asDispatched
    <3> HIDE DEF p
    <3>3. pcb[p].state = "READY"
      BY <3>1 DEF Placement, PlacedByState
    <3> QED BY <3>1, <3>2, <3>3 DEF Updated
  <2>2. CASE ~(running = NULL /\ ReadyQ # <<>>)
    BY <1>4, <2>2 DEF Dispatch
  <2> QED BY <2>1, <2>2
<1>5. CASE CpuTick
  <2>1. CASE running # NULL
    <3>1. running \in Procs /\ execute(running) /\ phase = "cpu"
      BY <1>5, <2>1 DEF TypeOK, CpuTick
    <3>2. pcb[running].state = "RUNNING"
      BY <3>1 DEF Placement, PlacedByState
    <3>3. pcb' = [pcb EXCEPT ![running] = asExecuted(running)]
      BY <3>1 DEF execute
    <3> QED BY <3>1, <3>2, <3>3 DEF Updated
  <2>2. CASE running = NULL
    BY <1>5, <2>2 DEF CpuTick
  <2> QED BY <2>1, <2>2
<1>6. CASE IoVisit
  <2> DEFINE p == WaitingQ[cursor]
  <2>1. cursor \in 1 .. Len(WaitingQ) /\ DOMAIN WaitingQ = 1 .. Len(WaitingQ)
    BY <1>6, LenProperties DEF TypeOK, IoVisit
  <2>2. p \in Procs /\ In(WaitingQ, p)
    BY <2>1, ElementOfSeq DEF TypeOK, In
  <2>3. pcb' = [pcb EXCEPT ![p] = asVisited(p)] /\ phase = "io"
    BY <1>6 DEF IoVisit
  <2> HIDE DEF p
  <2>4. pcb[p].state = "WAITING"
    BY <2>2 DEF Placement, PlacedByState
  <2> QED BY <2>2, <2>3, <2>4 DEF Updated
<1> QED BY <1>1, <1>2, <1>3, <1>4, <1>5, <1>6 DEF Next

\* Updates are made by the simulation, not while the input is read.
LEMMA UpdatedPhase ==
    ASSUME NEW p, NEW r, Updated(p, r)
    PROVE  phase # "input"
BY DEF Updated

\* r and s are of the same process line.
SameLine(r, s) ==
    /\ r.pid = s.pid /\ r.burst = s.burst
    /\ r.ioStart = s.ioStart /\ r.ioDuration = s.ioDuration

\* The fields of an entry after each update.
LEMMA KilledFields ==
    ASSUME TypeOK, NEW p \in Procs, NEW r, r = asKilled(p)
    PROVE  /\ SameLine(r, pcb[p])
           /\ r.state = "TERMINATED" /\ r.killedFlag = TRUE
           /\ r.completionTime = clockTime
           /\ r.cpuExecuted = pcb[p].cpuExecuted
           /\ r.cpuRemaining = pcb[p].cpuRemaining
           /\ r.ioRemaining = pcb[p].ioRemaining
<1>1. pcb[p] \in Pcb
  BY TableProps DEF TypeOK
<1>2. /\ SameLine(r, pcb[p]) /\ r.cpuExecuted = pcb[p].cpuExecuted
      /\ r.cpuRemaining = pcb[p].cpuRemaining
      /\ r.ioRemaining = pcb[p].ioRemaining
  BY <1>1 DEF asKilled, Pcb, SameLine
<1>3. r.state = "TERMINATED" /\ r.killedFlag = TRUE /\ r.completionTime = clockTime
  BY <1>1 DEF asKilled, Pcb
<1> QED BY <1>2, <1>3

LEMMA DispatchedFields ==
    ASSUME TypeOK, NEW p \in Procs, NEW r, r = asDispatched(p)
    PROVE  /\ SameLine(r, pcb[p])
           /\ r.state = "RUNNING" /\ r.killedFlag = pcb[p].killedFlag
           /\ r.completionTime = pcb[p].completionTime
           /\ r.cpuExecuted = pcb[p].cpuExecuted
           /\ r.cpuRemaining = pcb[p].cpuRemaining
           /\ r.ioRemaining = pcb[p].ioRemaining
<1>1. pcb[p] \in Pcb
  BY TableProps DEF TypeOK
<1>2. /\ SameLine(r, pcb[p]) /\ r.cpuExecuted = pcb[p].cpuExecuted
      /\ r.cpuRemaining = pcb[p].cpuRemaining
      /\ r.ioRemaining = pcb[p].ioRemaining
      /\ r.completionTime = pcb[p].completionTime
  BY <1>1 DEF asDispatched, Pcb, SameLine
<1>3. r.state = "RUNNING" /\ r.killedFlag = pcb[p].killedFlag
  BY <1>1 DEF asDispatched, Pcb
<1> QED BY <1>2, <1>3

LEMMA ExecutedFields ==
    ASSUME TypeOK, NEW p \in Procs, NEW r, r = asExecuted(p)
    PROVE  /\ SameLine(r, pcb[p])
           /\ r.state = IF startsIo(p) THEN "WAITING"
                        ELSE IF completes(p) THEN "TERMINATED" ELSE pcb[p].state
           /\ r.killedFlag = pcb[p].killedFlag
           /\ r.cpuExecuted = pcb[p].cpuExecuted + 1
           /\ r.cpuRemaining = pcb[p].cpuRemaining - 1
           /\ r.ioRemaining = pcb[p].ioRemaining
<1>1. pcb[p] \in Pcb
  BY TableProps DEF TypeOK
<1> QED BY <1>1 DEF asExecuted, Pcb, SameLine

LEMMA VisitedFields ==
    ASSUME TypeOK, NEW p \in Procs, NEW r, r = asVisited(p)
    PROVE  /\ SameLine(r, pcb[p])
           /\ r.state = IF ioEnds(p) THEN "READY" ELSE pcb[p].state
           /\ r.killedFlag = pcb[p].killedFlag
           /\ r.completionTime = pcb[p].completionTime
           /\ r.cpuExecuted = pcb[p].cpuExecuted
           /\ r.cpuRemaining = pcb[p].cpuRemaining
           /\ r.ioRemaining = ioLeft(p)
<1>1. pcb[p] \in Pcb
  BY TableProps DEF TypeOK
<1> QED BY <1>1 DEF asVisited, Pcb, SameLine

\* A new process has its line and has done nothing.
LEMMA NewAccount == \A d \in Descriptors : Account(NewPcb(d))
<1> SUFFICES ASSUME NEW d \in Descriptors PROVE Account(NewPcb(d))
  OBVIOUS
<1>1. d.burst \in Int /\ d.ioStart \in Int /\ d.ioDuration \in Int
  BY FcfsAssumption
<1> QED BY <1>1 DEF NewPcb, Account

\* The account stays right: the four updates are a kill, which changes nothing
\* but the end, the CPU, one tick of burst, and one tick of I/O.
LEMMA UpdatedAccount ==
    ASSUME TypeOK, NEW p \in Procs, Account(pcb[p]), NEW r, Updated(p, r)
    PROVE  Account(r)
<1> DEFINE o == pcb[p]
<1>1. o \in Pcb
  BY TableProps DEF TypeOK
<1>2. /\ o.burst \in Int /\ o.ioStart \in Int /\ o.ioDuration \in Int
      /\ o.ioRemaining \in Int /\ o.cpuExecuted \in Nat /\ o.cpuRemaining \in Int
      /\ o.killedFlag \in BOOLEAN
  BY <1>1 DEF Pcb
<1>3. CASE o.state # "TERMINATED" /\ r = asKilled(p)
  <2>1. /\ SameLine(r, o) /\ r.state = "TERMINATED" /\ r.killedFlag = TRUE
        /\ r.cpuExecuted = o.cpuExecuted /\ r.cpuRemaining = o.cpuRemaining
        /\ r.ioRemaining = o.ioRemaining
    BY <1>3, KilledFields
  <2>2. Account(o)
    OBVIOUS
  <2> HIDE DEF o
  <2> QED BY <1>2, <1>3, <2>1, <2>2 DEF Account, SameLine
<1>4. CASE o.state = "READY" /\ r = asDispatched(p)
  BY <1>2, <1>4, DispatchedFields DEF Account, SameLine
<1>5. CASE o.state = "RUNNING" /\ r = asExecuted(p)
  <2>1. CASE startsIo(p)
    BY <1>2, <1>5, <2>1, ExecutedFields DEF Account, SameLine, startsIo
  <2>2. CASE completes(p)
    <3>1. /\ SameLine(r, o) /\ r.state = "TERMINATED" /\ r.killedFlag = o.killedFlag
          /\ r.cpuExecuted = o.cpuExecuted + 1 /\ r.cpuRemaining = 0
          /\ o.cpuRemaining = 1 /\ r.ioRemaining = o.ioRemaining
      BY <1>2, <1>5, <2>2, ExecutedFields DEF completes, startsIo
    <3>2. Account(o)
      OBVIOUS
    <3> HIDE DEF o
    <3> QED BY <1>2, <1>5, <3>1, <3>2 DEF Account, SameLine
  <2>3. CASE ~startsIo(p) /\ ~completes(p)
    BY <1>2, <1>5, <2>3, ExecutedFields DEF Account, SameLine, completes, startsIo
  <2> QED BY <2>1, <2>2, <2>3
<1>6. CASE o.state = "WAITING" /\ r = asVisited(p)
  BY <1>2, <1>6, VisitedFields DEF Account, SameLine, ioLeft, ioEnds
<1> QED BY <1>3, <1>4, <1>5, <1>6 DEF Updated

\* An update of one entry leaves the others alone.
LEMMA OneUpdate ==
    ASSUME TypeOK, NEW p \in Procs, NEW r, pcb' = [pcb EXCEPT ![p] = r]
    PROVE  /\ Procs' = Procs /\ pcb'[p] = r
           /\ \A q \in Procs : q # p => pcb'[q] = pcb[q]
BY TableProps DEF TypeOK, Procs

\* A new process is the last one.
LEMMA OneRead ==
    ASSUME TypeOK, NEW d \in Descriptors, ReadProcess(d)
    PROVE  LET n == totalProcess + 1
           IN  /\ Procs' = Procs \cup {n} /\ n \notin Procs
               /\ n \in Nat \ {0} /\ \A q \in Procs : q \in Nat /\ q < n
               /\ pcb'[n] = NewPcb(d) /\ NewPcb(d) \in Pcb
               /\ \A q \in Procs : pcb'[q] = pcb[q]
<1>1. /\ totalProcess \in Nat /\ Procs = 1 .. totalProcess
      /\ pcb' = Append(pcb, NewPcb(d))
      /\ pcb \in Seq(Pcb) /\ NewPcb(d) \in Pcb
  BY TableProps, NewPcbType DEF TypeOK, ReadProcess
<1> DEFINE n == totalProcess + 1
<1>2. /\ Procs' = 1 .. n
      /\ \A q \in Procs : pcb'[q] = pcb[q]
      /\ pcb'[n] = NewPcb(d)
  BY <1>1, AppendProperties, LenProperties DEF Procs, totalProcess
<1>3. /\ n \in Nat \ {0} /\ 1 .. n = (1 .. totalProcess) \cup {n}
      /\ \A q \in 1 .. totalProcess : q \in Nat /\ q < n
  BY <1>1
<1> HIDE DEF n
<1>4. n \notin Procs
  BY <1>1, <1>3
<1> QED BY <1>1, <1>2, <1>3, <1>4 DEF n

LEMMA StepKeepsAccount ==
    ASSUME TypeOK, Placement, AccountInv, Next
    PROVE  AccountInv'
<1>1. CASE pcb' = pcb
  BY <1>1 DEF AccountInv, Procs
<1>2. ASSUME NEW d \in Descriptors, ReadProcess(d) PROVE AccountInv'
  BY <1>2, OneRead, NewAccount DEF AccountInv
<1>3. ASSUME NEW p \in Procs, NEW r, Updated(p, r), pcb' = [pcb EXCEPT ![p] = r]
      PROVE  AccountInv'
  BY <1>3, OneUpdate, UpdatedAccount DEF AccountInv
<1> QED BY <1>1, <1>2, <1>3, StepShape

LEMMA AccountCorrect == Spec => []AccountInv
<1>1. Init => AccountInv
  BY DEF Init, AccountInv, Procs
<1>2. TypeOK /\ Placement /\ AccountInv /\ [Next]_vars => AccountInv'
  BY StepKeepsAccount DEF vars, AccountInv, Procs
<1> QED BY <1>1, <1>2, TypeCorrect, PlacementCorrect, PTL DEF Spec

-----------------------------------------------------------------------------
(* The order of first ticks.                                                 *)

\* The processes that have neither executed nor been killed.
FreshProcs == {p \in Procs : pcb[p].cpuExecuted = 0 /\ ~pcb[p].killedFlag}

\* The members of F are in front of q, in the order in which they were read.
InFront(q, F) ==
    \A i, j \in DOMAIN q : i < j /\ q[j] \in F => q[i] \in F /\ q[i] < q[j]

\* The fresh processes are in front of the ready queue, in the order in which
\* they were read; one on the CPU comes before them.
FreshFirst ==
    /\ phase = "input" => running = NULL /\ FreshProcs = Procs
    /\ InFront(ReadyQ, FreshProcs)
    /\ running \in FreshProcs => \A p \in FreshProcs : In(ReadyQ, p) => running < p

\* An old process at the rear, or a new last one behind new ones.
LEMMA EnqueueInFront ==
    ASSUME NEW S, NEW F, NEW q \in Seq(S), NEW p \in S, InFront(q, F)
    PROVE  /\ p \notin F => InFront(enqueue(q, p), F)
           /\ (\A i \in DOMAIN q : q[i] \in F /\ q[i] < p) => InFront(enqueue(q, p), F)
<1> SUFFICES ASSUME p \notin F \/ \A i \in DOMAIN q : q[i] \in F /\ q[i] < p
             PROVE  InFront(enqueue(q, p), F)
  OBVIOUS
<1> DEFINE r == Append(q, p)
<1>1. /\ \A i \in 1 .. Len(q) : r[i] = q[i]
      /\ r[Len(q) + 1] = p /\ Len(q) \in Nat
      /\ DOMAIN r = 1 .. Len(q) + 1 /\ DOMAIN q = 1 .. Len(q)
  BY AppendProperties, LenProperties
<1> HIDE DEF r
<1>2. SUFFICES ASSUME NEW i \in 1 .. Len(q) + 1, NEW j \in 1 .. Len(q) + 1,
                      i < j, r[j] \in F
               PROVE  r[i] \in F /\ r[i] < r[j]
  BY <1>1 DEF InFront, enqueue, r
<1>3. i \in 1 .. Len(q) /\ r[i] = q[i]
  BY <1>1, <1>2
<1>4. CASE j \in 1 .. Len(q)
  BY <1>1, <1>2, <1>3, <1>4 DEF InFront
<1>5. CASE j = Len(q) + 1
  BY <1>1, <1>2, <1>3, <1>5
<1> QED BY <1>1, <1>4, <1>5

\* Without its first process, a queue keeps its order.
LEMMA DequeueInFront ==
    ASSUME NEW S, NEW F, NEW q \in Seq(S), q # <<>>, InFront(q, F)
    PROVE  /\ InFront(dequeue(q), F)
           /\ \A p \in F : In(dequeue(q), p) => Head(q) < p
<1> DEFINE r == Tail(q)
<1>1. /\ DOMAIN r = 1 .. Len(q) - 1 /\ DOMAIN q = 1 .. Len(q)
      /\ \A i \in 1 .. Len(q) - 1 : r[i] = q[i + 1]
      /\ Head(q) = q[1] /\ Len(q) \in Nat \ {0}
  BY HeadTailProperties, LenProperties, EmptySeq
<1>2. dequeue(q) = r
  BY DEF dequeue
<1> HIDE DEF r
<1>3. InFront(r, F)
  <2> SUFFICES ASSUME NEW i \in 1 .. Len(q) - 1, NEW j \in 1 .. Len(q) - 1,
                      i < j, r[j] \in F
               PROVE  r[i] \in F /\ r[i] < r[j]
    BY <1>1 DEF InFront
  <2>1. /\ i + 1 \in DOMAIN q /\ j + 1 \in DOMAIN q /\ i + 1 < j + 1
        /\ r[i] = q[i + 1] /\ r[j] = q[j + 1]
    BY <1>1
  <2> QED BY <2>1 DEF InFront
<1>4. ASSUME NEW p \in F, In(r, p) PROVE Head(q) < p
  <2>0. PICK i \in 1 .. Len(q) - 1 : r[i] = p
    BY <1>1, <1>4 DEF In
  <2>1. /\ 1 \in DOMAIN q /\ i + 1 \in DOMAIN q /\ 1 < i + 1
        /\ r[i] = q[i + 1]
    BY <1>1, <2>0
  <2> QED BY <1>1, <1>4, <2>0, <2>1 DEF InFront
<1> QED BY <1>1, <1>2, <1>3, <1>4

\* Without a process that was killed, a queue keeps its order.
LEMMA RemoveInFront ==
    ASSUME NEW S, NEW F, NEW q \in Seq(S), NEW p, InFront(q, F)
    PROVE  InFront(removeNode(q, p), F)
<1>1. CASE ~In(q, p)
  BY <1>1 DEF removeNode
<1>2. CASE In(q, p)
  <2> DEFINE r == removeNode(q, p)
  <2>1. DOMAIN r = 1 .. Len(q) - 1
    BY <1>2, RemoveNodeShifts
  <2>2. PICK k \in 1 .. Len(q) :
          \A i \in 1 .. Len(q) - 1 : r[i] = IF i < k THEN q[i] ELSE q[i + 1]
    BY <1>2, RemoveNodeShifts
  <2>3. DOMAIN q = 1 .. Len(q) /\ Len(q) \in Nat
    BY LenProperties
  <2> HIDE DEF r
  <2>4. SUFFICES ASSUME NEW i \in 1 .. Len(q) - 1, NEW j \in 1 .. Len(q) - 1,
                        i < j, r[j] \in F
                 PROVE  r[i] \in F /\ r[i] < r[j]
    BY <2>1 DEF InFront, r
  <2> DEFINE x == IF i < k THEN i ELSE i + 1
             y == IF j < k THEN j ELSE j + 1
  <2>5. x \in DOMAIN q /\ y \in DOMAIN q /\ x < y
    BY <2>3, <2>4
  <2>6. r[i] = q[x] /\ r[j] = q[y]
    BY <2>2
  <2> HIDE DEF x, y
  <2> QED BY <2>4, <2>5, <2>6 DEF InFront
<1> QED BY <1>1, <1>2

\* Order is not disturbed by a process that is no longer fresh, or not there.
LEMMA OldInFront ==
    ASSUME NEW F, NEW q, NEW p, InFront(q, F), ~In(q, p)
    PROVE  InFront(q, F \ {p})
BY DEF InFront, In

\* An update that leaves a process as fresh as it was changes no other process.
LEMMA FreshKept ==
    ASSUME TypeOK, NEW p \in Procs, NEW r, pcb' = [pcb EXCEPT ![p] = r],
           r.cpuExecuted = pcb[p].cpuExecuted, r.killedFlag = pcb[p].killedFlag
    PROVE  FreshProcs' = FreshProcs
<1>1. /\ Procs' = Procs /\ pcb'[p] = r
      /\ \A q \in Procs : q # p => pcb'[q] = pcb[q]
  BY OneUpdate
<1>2. \A q \in Procs : /\ pcb'[q].cpuExecuted = pcb[q].cpuExecuted
                       /\ pcb'[q].killedFlag = pcb[q].killedFlag
  BY <1>1
<1> QED BY <1>1, <1>2 DEF FreshProcs

\* One that executes or kills a process takes it from the fresh ones.
LEMMA FreshLost ==
    ASSUME TypeOK, NEW p \in Procs, NEW r, pcb' = [pcb EXCEPT ![p] = r],
           r.cpuExecuted # 0 \/ r.killedFlag = TRUE
    PROVE  FreshProcs' = FreshProcs \ {p}
<1>1. /\ Procs' = Procs /\ pcb'[p] = r
      /\ \A q \in Procs : q # p => pcb'[q] = pcb[q]
  BY OneUpdate
<1> QED BY <1>1 DEF FreshProcs

\* Reading a process line appends a fresh process, the last one.
LEMMA ReadProcessInOrder ==
    ASSUME TypeOK, FreshFirst, NEW d \in Descriptors, ReadProcess(d)
    PROVE  FreshFirst'
<1> DEFINE n == totalProcess + 1
<1>1. /\ Procs' = Procs \cup {n} /\ n \notin Procs
      /\ n \in Nat \ {0} /\ \A q \in Procs : q \in Nat /\ q < n
      /\ pcb'[n] = NewPcb(d)
      /\ \A q \in Procs : pcb'[q] = pcb[q]
  BY OneRead
<1>2. ReadyQ' = enqueue(ReadyQ, n) /\ running' = running /\ phase = "input"
  BY DEF ReadProcess
<1> HIDE DEF n
<1>3. pcb'[n].cpuExecuted = 0 /\ pcb'[n].killedFlag = FALSE
  BY <1>1 DEF NewPcb
<1>4. FreshProcs = Procs /\ FreshProcs' = Procs' /\ running = NULL
  BY <1>1, <1>2, <1>3 DEF FreshFirst, FreshProcs
<1>5. ReadyQ \in Seq(Procs') /\ n \in Procs'
  BY <1>1, SeqMonotonic DEF TypeOK
<1>6. \A i \in DOMAIN ReadyQ : ReadyQ[i] \in Procs
  BY LenProperties, ElementOfSeq DEF TypeOK
<1>7. InFront(ReadyQ, Procs')
  BY <1>1, <1>4, <1>6 DEF FreshFirst, InFront
<1>8. InFront(enqueue(ReadyQ, n), Procs')
  <2>1. \A i \in DOMAIN ReadyQ : ReadyQ[i] \in Procs' /\ ReadyQ[i] < n
    BY <1>1, <1>6
  <2> QED BY <1>5, <1>7, <2>1, EnqueueInFront
<1>9. NULL \notin Procs'
  BY <1>1, TableProps DEF TypeOK, NULL
<1> QED BY <1>2, <1>4, <1>8, <1>9 DEF FreshFirst

\* A KILL line takes its process out of the order.
LEMMA KillInOrder ==
    ASSUME TypeOK, Placement, FreshFirst, phase' # "input",
           NEW p \in Procs, pcb[p].state # "TERMINATED", kill(p)
    PROVE  FreshFirst'
<1>1. pcb' = [pcb EXCEPT ![p] = asKilled(p)] /\ takeOut(p)
  BY DEF kill
<1>2. FreshProcs' = FreshProcs \ {p}
  BY <1>1, KilledFields, FreshLost
<1>3. /\ InFront(ReadyQ', FreshProcs) /\ ~In(ReadyQ', p)
      /\ \A x : In(ReadyQ', x) => In(ReadyQ, x)
      /\ running' = running \/ running' = NULL
  <2>1. CASE p = running /\ running' = NULL /\ ReadyQ' = ReadyQ
    BY <2>1 DEF FreshFirst, Placement, PlacedByState
  <2>2. CASE p # running /\ running' = running /\ pcb[p].state = "READY"
    <3>1. ReadyQ' = removeNode(ReadyQ, p)
      BY <1>1, <2>2 DEF takeOut
    <3> QED BY <2>2, <3>1, RemoveInFront, RemoveNodeProps
            DEF FreshFirst, Placement, TypeOK
  <2>3. CASE p # running /\ running' = running /\ pcb[p].state # "READY"
    <3>1. ReadyQ' = ReadyQ
      BY <1>1, <2>3 DEF takeOut
    <3> QED BY <2>3, <3>1 DEF FreshFirst, Placement, PlacedByState
  <2> QED BY <1>1, <2>1, <2>2, <2>3 DEF takeOut
<1>4. InFront(ReadyQ', FreshProcs')
  BY <1>2, <1>3, OldInFront
<1>5. NULL \notin FreshProcs
  BY TableProps DEF TypeOK, FreshProcs
<1> QED BY <1>2, <1>3, <1>4, <1>5 DEF FreshFirst

\* The front of the ready queue is the process whose turn it is.
LEMMA DispatchInOrder ==
    ASSUME TypeOK, Placement, FreshFirst, Dispatch
    PROVE  FreshFirst'
<1>1. phase' # "input"
  BY DEF Dispatch
<1>2. CASE running = NULL /\ ReadyQ # <<>>
  <2> DEFINE p == Head(ReadyQ)
  <2>1. /\ running' = p /\ ReadyQ' = dequeue(ReadyQ)
        /\ pcb' = [pcb EXCEPT ![p] = asDispatched(p)]
    BY <1>2 DEF Dispatch, asDispatched
  <2>2. p \in Procs
    BY <1>2, DequeueProps DEF TypeOK
  <2>3. /\ InFront(ReadyQ', FreshProcs)
        /\ \A q \in FreshProcs : In(ReadyQ', q) => p < q
    <3>1. InFront(ReadyQ, FreshProcs) /\ ReadyQ \in Seq(Procs)
      BY DEF FreshFirst, TypeOK
    <3> QED BY <1>2, <2>1, <3>1, DequeueInFront
  <2> HIDE DEF p
  <2>4. FreshProcs' = FreshProcs
    <3> DEFINE r == asDispatched(p)
    <3>1. r.cpuExecuted = pcb[p].cpuExecuted /\ r.killedFlag = pcb[p].killedFlag
      BY <2>2, DispatchedFields
    <3> QED BY <2>1, <2>2, <3>1, FreshKept
  <2> QED BY <1>1, <2>1, <2>3, <2>4 DEF FreshFirst
<1>3. CASE ~(running = NULL /\ ReadyQ # <<>>)
  BY <1>1, <1>3 DEF Dispatch, FreshFirst, FreshProcs, Procs
<1> QED BY <1>2, <1>3

\* A process that executes is no longer fresh.
LEMMA CpuTickInOrder ==
    ASSUME TypeOK, Placement, FreshFirst, CpuTick
    PROVE  FreshFirst'
<1>1. phase' # "input" /\ ReadyQ' = ReadyQ
  BY DEF CpuTick
<1>2. CASE running # NULL
  <2> DEFINE p == running
  <2>1. /\ p \in Procs /\ pcb' = [pcb EXCEPT ![p] = asExecuted(p)]
        /\ running' = p \/ running' = NULL
    BY <1>2 DEF TypeOK, CpuTick, execute
  <2>2. pcb[p].state = "RUNNING" /\ ~In(ReadyQ, p)
    BY <2>1 DEF Placement, PlacedByState
  <2>3. pcb[p].cpuExecuted \in Nat
    BY <2>1, TableProps DEF TypeOK, Pcb
  <2>4. FreshProcs' = FreshProcs \ {p}
    <3> DEFINE r == asExecuted(p)
    <3>1. r.cpuExecuted # 0
      <4>1. r.cpuExecuted = pcb[p].cpuExecuted + 1
        BY <2>1, ExecutedFields
      <4> QED BY <2>3, <4>1
    <3> QED BY <2>1, <3>1, FreshLost
  <2>5. NULL \notin FreshProcs
    BY TableProps DEF TypeOK, FreshProcs
  <2> QED BY <1>1, <2>1, <2>2, <2>4, <2>5, OldInFront DEF FreshFirst
<1>3. CASE running = NULL
  BY <1>1, <1>3 DEF CpuTick, FreshFirst, FreshProcs, Procs
<1> QED BY <1>2, <1>3

\* A process that comes back from its I/O is not fresh.
LEMMA IoVisitInOrder ==
    ASSUME TypeOK, Placement, AccountInv, FreshFirst, IoVisit
    PROVE  FreshFirst'
<1> DEFINE p == WaitingQ[cursor]
<1>1. p \in Procs /\ In(WaitingQ, p)
  BY LenProperties, ElementOfSeq DEF TypeOK, IoVisit, In
<1>2. /\ pcb' = [pcb EXCEPT ![p] = asVisited(p)]
      /\ ReadyQ' = ReadyQ \/ ReadyQ' = enqueue(ReadyQ, p)
      /\ running' = running /\ phase' # "input"
  BY DEF IoVisit
<1> HIDE DEF p
<1>3. pcb[p].state = "WAITING"
  BY <1>1 DEF Placement, PlacedByState
<1>4. pcb[p].cpuExecuted # 0
  BY <1>1, <1>3 DEF AccountInv, Account
<1>5. FreshProcs' = FreshProcs /\ p \notin FreshProcs
  <2> DEFINE r == asVisited(p)
  <2>1. r.cpuExecuted = pcb[p].cpuExecuted /\ r.killedFlag = pcb[p].killedFlag
    BY <1>1, VisitedFields
  <2>2. FreshProcs' = FreshProcs
    BY <1>1, <1>2, <2>1, FreshKept
  <2> QED BY <1>4, <2>2 DEF FreshProcs
<1>6. InFront(ReadyQ', FreshProcs)
  <2>1. InFront(ReadyQ, FreshProcs) /\ ReadyQ \in Seq(Procs)
    BY DEF FreshFirst, TypeOK
  <2>2. InFront(enqueue(ReadyQ, p), FreshProcs)
    BY <1>1, <1>5, <2>1, EnqueueInFront
  <2> QED BY <1>2, <2>1, <2>2
<1>7. \A x \in FreshProcs : In(ReadyQ', x) => In(ReadyQ, x)
  <2>1. ReadyQ \in Seq(Procs)
    BY DEF TypeOK
  <2>2. \A x : In(enqueue(ReadyQ, p), x) <=> In(ReadyQ, x) \/ x = p
    BY <1>1, <2>1, EnqueueProps
  <2> QED BY <1>2, <1>5, <2>2
<1> QED BY <1>2, <1>5, <1>6, <1>7 DEF FreshFirst

LEMMA StepKeepsFreshFirst ==
    ASSUME TypeOK, Placement, AccountInv, FreshFirst, [Next]_vars
    PROVE  FreshFirst'
<1>1. ASSUME NEW d \in Descriptors, ReadProcess(d) PROVE FreshFirst'
  BY <1>1, ReadProcessInOrder
<1>2. CASE KillStep
  <2> DEFINE e == killSchedule[cursor]
             p == HashSearch(e.pid)
  <2>1. p \in Procs \cup {NULL}
    BY <1>2, KillTarget
  <2>2. /\ IF fires(e, p) THEN kill(p) ELSE UNCHANGED <<pcb, queueVars, running>>
        /\ phase = "kill" /\ phase' = "kill"
    BY <1>2 DEF KillStep
  <2> HIDE DEF e, p
  <2>3. CASE fires(e, p)
    BY <2>1, <2>2, <2>3, KillInOrder DEF fires
  <2>4. CASE ~fires(e, p)
    BY <2>2, <2>4 DEF FreshFirst, FreshProcs, Procs, queueVars
  <2> QED BY <2>3, <2>4
<1>3. CASE Dispatch
  BY <1>3, DispatchInOrder
<1>4. CASE CpuTick
  BY <1>4, CpuTickInOrder
<1>5. CASE IoVisit
  BY <1>5, IoVisitInOrder
<1>6. CASE \/ \E k \in KillLines : ReadKill(k)
           \/ EndOfInput \/ KillsDone \/ EndTick \/ print_results \/ freeMemory
           \/ UNCHANGED vars
  <2>1. UNCHANGED <<pcb, ReadyQ, running>> /\ (phase' = "input" => phase = "input")
    BY <1>6 DEF ReadKill, EndOfInput, KillsDone, EndTick, print_results,
                freeMemory, vars, queueVars, loopTest
  <2> QED BY <2>1 DEF FreshFirst, FreshProcs, Procs
<1> QED BY <1>1, <1>2, <1>3, <1>4, <1>5, <1>6 DEF Next

\* A process gets its first tick from the CPU, where every fresh process that
\* was read before it would be in front of it.
LEMMA StepFirstTick ==
    ASSUME TypeOK, Placement, AccountInv, FreshFirst, FirstTickInOrder, Next
    PROVE  FirstTickInOrder'
<1>1. CASE pcb' = pcb
  BY <1>1 DEF FirstTickInOrder, Procs
<1>2. ASSUME NEW d \in Descriptors, ReadProcess(d) PROVE FirstTickInOrder'
  <2> DEFINE n == totalProcess + 1
  <2>1. /\ Procs' = Procs \cup {n}
        /\ n \in Nat /\ \A q \in Procs : q \in Nat /\ q < n
        /\ pcb'[n] = NewPcb(d) /\ \A q \in Procs : pcb'[q] = pcb[q]
    BY <1>2, OneRead
  <2> HIDE DEF n
  <2>2. pcb'[n].cpuExecuted = 0
    BY <2>1 DEF NewPcb
  <2> QED BY <2>1, <2>2 DEF FirstTickInOrder
<1>3. ASSUME NEW p \in Procs, NEW r, Updated(p, r), pcb' = [pcb EXCEPT ![p] = r]
      PROVE  FirstTickInOrder'
  <2>1. /\ Procs' = Procs /\ pcb'[p] = r
        /\ \A q \in Procs : q # p => pcb'[q] = pcb[q]
    BY <1>3, OneUpdate
  <2>2. \A q \in Procs : pcb[q].cpuExecuted \in Nat /\ q \in Nat
    <3>1. \A q \in Procs : pcb[q] \in Pcb /\ q \in 1 .. totalProcess
      BY TableProps DEF TypeOK
    <3> QED BY <3>1 DEF Pcb
  <2>3. /\ r.cpuExecuted \in Nat /\ r.cpuExecuted >= pcb[p].cpuExecuted
        /\ r.killedFlag = TRUE \/ r.killedFlag = pcb[p].killedFlag
        /\ r.cpuExecuted > pcb[p].cpuExecuted => running = p /\ pcb[p].state = "RUNNING"
    <3>1. CASE r = asKilled(p)
      <4>1. r.cpuExecuted = pcb[p].cpuExecuted /\ r.killedFlag = TRUE
        BY <3>1, KilledFields
      <4> QED BY <2>2, <4>1
    <3>2. CASE r = asDispatched(p)
      BY <2>2, <3>2, DispatchedFields
    <3>3. CASE r = asExecuted(p) /\ running = p /\ pcb[p].state = "RUNNING"
      BY <2>2, <3>3, ExecutedFields
    <3>4. CASE r = asVisited(p)
      BY <2>2, <3>4, VisitedFields
    <3> QED BY <1>3, <3>1, <3>2, <3>3, <3>4 DEF Updated
  <2>4. SUFFICES ASSUME NEW a \in Procs, NEW b \in Procs, a < b,
                        pcb'[b].cpuExecuted > 0
                 PROVE  pcb'[a].cpuExecuted > 0 \/ pcb'[a].killedFlag
    BY <2>1 DEF FirstTickInOrder
  <2>5. SUFFICES pcb[a].cpuExecuted > 0 \/ pcb[a].killedFlag
    <3>1. CASE a = p
      <4>1. pcb'[a] = r
        BY <2>1, <3>1
      <4> QED BY <2>2, <2>3, <3>1, <4>1
    <3>2. CASE a # p
      BY <2>1, <3>2
    <3> QED BY <3>1, <3>2
  <2>6. CASE pcb[b].cpuExecuted > 0
    BY <2>4, <2>6 DEF FirstTickInOrder
  <2>7. CASE pcb[b].cpuExecuted = 0
    <3>1. b = p /\ running = b /\ pcb[b].state = "RUNNING"
      BY <2>1, <2>2, <2>3, <2>4, <2>7
    <3>2. b \in FreshProcs
      BY <2>7, <3>1 DEF FreshProcs, AccountInv, Account
    <3>3. SUFFICES ASSUME a \in FreshProcs PROVE FALSE
      BY <2>2 DEF FreshProcs
    <3>4. pcb[a].state \in {"READY", "RUNNING"}
      BY <3>3 DEF FreshProcs, AccountInv, Account
    <3>5. In(ReadyQ, a)
      BY <2>2, <2>4, <3>1, <3>4 DEF Placement, PlacedByState
    <3>6. b < a
      BY <3>1, <3>2, <3>3, <3>5 DEF FreshFirst
    <3> QED BY <2>2, <2>4, <3>6
  <2> QED BY <2>2, <2>6, <2>7
<1> QED BY <1>1, <1>2, <1>3, StepShape

\* First come, first served: a process gets its first tick only after every
\* process read before it got one, or was killed before it could.
THEOREM FirstTickCorrect == Spec => []FirstTickInOrder
<1>1. Init => FreshFirst /\ FirstTickInOrder
  <2>1. Init => Procs = {} /\ DOMAIN ReadyQ = {}
    BY DEF Init, Procs
  <2> QED BY <2>1 DEF Init, FreshFirst, FreshProcs, FirstTickInOrder, InFront, NULL
<1>2. TypeOK /\ Placement /\ AccountInv /\ FreshFirst /\ FirstTickInOrder
        /\ [Next]_vars => FreshFirst' /\ FirstTickInOrder'
  BY StepKeepsFreshFirst, StepFirstTick DEF vars, FirstTickInOrder, Procs
<1> QED BY <1>1, <1>2, TypeCorrect, PlacementCorrect, AccountCorrect, PTL DEF Spec

-----------------------------------------------------------------------------
(* Processes that never complete.                                            *)

\* Nobody behind a live process without a burst executes once that has the CPU.
CpuHeld ==
    \A p, q \in Procs :
        /\ pcb[p].burst <= 0 /\ pcb[p].cpuExecuted > 0 /\ ~pcb[p].killedFlag
        /\ p < q
        => pcb[q].cpuExecuted = 0

\* Before it had the CPU nobody behind it was there either, and it keeps the CPU.
LEMMA StepCpuHeld ==
    ASSUME TypeOK, Placement, AccountInv, FirstTickInOrder, CpuHeld, Next
    PROVE  CpuHeld'
<1>1. CASE pcb' = pcb
  BY <1>1 DEF CpuHeld, Procs
<1>2. ASSUME NEW d \in Descriptors, ReadProcess(d) PROVE CpuHeld'
  <2> DEFINE n == totalProcess + 1
  <2>1. /\ Procs' = Procs \cup {n}
        /\ n \in Nat /\ \A q \in Procs : q \in Nat /\ q < n
        /\ pcb'[n] = NewPcb(d) /\ \A q \in Procs : pcb'[q] = pcb[q]
    BY <1>2, OneRead
  <2> HIDE DEF n
  <2>2. pcb'[n].cpuExecuted = 0
    BY <2>1 DEF NewPcb
  <2> QED BY <2>1, <2>2 DEF CpuHeld
<1>3. ASSUME NEW u \in Procs, NEW r, Updated(u, r), pcb' = [pcb EXCEPT ![u] = r]
      PROVE  CpuHeld'
  <2>1. /\ Procs' = Procs /\ pcb'[u] = r
        /\ \A q \in Procs : q # u => pcb'[q] = pcb[q]
    BY <1>3, OneUpdate
  <2>2. \A q \in Procs : pcb[q].cpuExecuted \in Nat /\ q \in Nat
    <3>1. \A q \in Procs : pcb[q] \in Pcb /\ q \in 1 .. totalProcess
      BY TableProps DEF TypeOK
    <3> QED BY <3>1 DEF Pcb
  <2>3. /\ r.cpuExecuted \in Nat /\ r.burst = pcb[u].burst
        /\ r.killedFlag = TRUE \/ r.killedFlag = pcb[u].killedFlag
        /\ r.cpuExecuted = pcb[u].cpuExecuted \/ running = u
    <3>1. CASE r = asKilled(u)
      <4>1. r.cpuExecuted = pcb[u].cpuExecuted /\ r.killedFlag = TRUE
            /\ r.burst = pcb[u].burst
        BY <3>1, KilledFields DEF SameLine
      <4> QED BY <2>2, <4>1
    <3>2. CASE r = asDispatched(u)
      BY <2>2, <3>2, DispatchedFields DEF SameLine
    <3>3. CASE r = asExecuted(u) /\ running = u
      BY <2>2, <3>3, ExecutedFields DEF SameLine
    <3>4. CASE r = asVisited(u)
      BY <2>2, <3>4, VisitedFields DEF SameLine
    <3> QED BY <1>3, <3>1, <3>2, <3>3, <3>4 DEF Updated
  <2>4. SUFFICES ASSUME NEW p \in Procs, NEW q \in Procs, p < q,
                        pcb'[p].burst <= 0, pcb'[p].cpuExecuted > 0,
                        ~pcb'[p].killedFlag
                 PROVE  pcb'[q].cpuExecuted = 0
    BY <2>1 DEF CpuHeld
  <2>5. pcb[p].burst <= 0 /\ ~pcb[p].killedFlag
    <3>1. CASE p = u
      BY <2>1, <2>3, <2>4, <3>1
    <3>2. CASE p # u
      BY <2>1, <2>4, <3>2
    <3> QED BY <3>1, <3>2
  <2>6. CASE pcb[p].cpuExecuted > 0
    <3>1. pcb[q].cpuExecuted = 0
      BY <2>4, <2>5, <2>6 DEF CpuHeld
    <3>2. running = p
      BY <2>5, <2>6 DEF AccountInv, Account, Placement, PlacedByState
    <3>3. CASE q = u
      BY <2>1, <2>2, <2>3, <2>4, <3>1, <3>2, <3>3
    <3>4. CASE q # u
      BY <2>1, <3>1, <3>4
    <3> QED BY <3>3, <3>4
  <2>7. CASE pcb[p].cpuExecuted = 0
    <3>1. p = u
      BY <2>1, <2>4, <2>7
    <3>2. q # u /\ pcb'[q] = pcb[q]
      BY <2>1, <2>2, <2>4, <3>1
    <3>3. ~(pcb[q].cpuExecuted > 0)
      BY <2>4, <2>5, <2>7 DEF FirstTickInOrder
    <3> QED BY <2>2, <3>2, <3>3
  <2> QED BY <2>2, <2>6, <2>7
<1> QED BY <1>1, <1>2, <1>3, StepShape

\* Only a KILL line ends a process whose line describes one that can never
\* complete, and one without a burst keeps the CPU until then.
THEOREM EndlessCorrect == Spec => []EndlessNeedsKill
<1>1. Init => CpuHeld
  BY DEF Init, CpuHeld, Procs
<1>2. TypeOK /\ Placement /\ AccountInv /\ FirstTickInOrder /\ CpuHeld
        /\ [Next]_vars => CpuHeld'
  BY StepCpuHeld DEF vars, CpuHeld, Procs
<1>3. TypeOK /\ Placement /\ AccountInv /\ CpuHeld => EndlessNeedsKill
  <2> SUFFICES ASSUME TypeOK, Placement, AccountInv, CpuHeld,
                      NEW p \in Procs, Endless(p)
               PROVE  /\ pcb[p].state = "TERMINATED" => pcb[p].killedFlag
                      /\ pcb[p].burst <= 0 /\ pcb[p].cpuExecuted > 0
                           /\ ~pcb[p].killedFlag =>
                           /\ running = p
                           /\ \A q \in Procs : p < q => pcb[q].cpuExecuted = 0
    BY DEF EndlessNeedsKill
  <2>1. /\ pcb[p].burst \in Int /\ pcb[p].ioDuration \in Int
        /\ Account(pcb[p])
    BY TableProps DEF TypeOK, Pcb, AccountInv
  <2>2. pcb[p].state = "TERMINATED" => pcb[p].killedFlag
    BY <2>1 DEF Account, Endless
  <2>3. pcb[p].burst <= 0 /\ pcb[p].cpuExecuted > 0 /\ ~pcb[p].killedFlag =>
          running = p
    BY <2>1 DEF Account, Placement, PlacedByState
  <2> QED BY <2>2, <2>3 DEF CpuHeld
<1> QED BY <1>1, <1>2, <1>3, TypeCorrect, PlacementCorrect, AccountCorrect,
           FirstTickCorrect, PTL DEF Spec

-----------------------------------------------------------------------------
(* KILL lines.                                                               *)

Simulating == {"kill", "dispatch", "cpu", "io", "results", "free"}

\* The process that event k names, or NULL.
Target(k) == HashSearch(killSchedule[k].pid)

\* The kill loop is past event k, in the tick that it has begun, too.
Reached(k) ==
    \/ KillPassed(k)
    \/ clockTime = killSchedule[k].killTime /\ phase = "kill" /\ k < cursor

Honoured(k) ==
    killSchedule[k].killTime >= 0 /\ Reached(k) /\ Target(k) # NULL =>
        pcb[Target(k)].state = "TERMINATED"

\* Event k ended p.
EndedBy(p, k) == /\ killSchedule[k].killTime = pcb[p].completionTime
                 /\ Target(k) = p

KillsInv ==
    /\ phase = "input" => clockTime = 0 /\ \A p \in Procs : ~pcb[p].killedFlag
    /\ phase \in Simulating =>
         /\ \A k \in DOMAIN killSchedule : Honoured(k)
         /\ \A p \in Procs :
              pcb[p].killedFlag => \E k \in DOMAIN killSchedule : EndedBy(p, k)

LEMMA TargetType ==
    ASSUME TypeOK, NEW k \in DOMAIN killSchedule
    PROVE  /\ Target(k) \in Procs \cup {NULL}
           /\ killSchedule[k].killTime \in Int /\ k \in Nat \ {0}
<1>1. k \in 1 .. Len(killSchedule) /\ killSchedule[k] \in KillLines
  BY LenProperties, ElementOfSeq DEF TypeOK
<1>2. killSchedule[k].pid \in Nat /\ killSchedule[k].killTime \in Int
  BY <1>1, FcfsAssumption
<1> QED BY <1>1, <1>2, HashSearchType, LenProperties DEF Target, TypeOK

\* Once the input is read, no step changes what a line said.
LEMMA StepSameLine ==
    ASSUME TypeOK, Placement, Next, phase # "input"
    PROVE  Procs' = Procs /\ \A p \in Procs : SameLine(pcb'[p], pcb[p])
<1>1. CASE pcb' = pcb
  BY <1>1 DEF Procs, SameLine
<1>2. ASSUME NEW u \in Procs, NEW r, Updated(u, r), pcb' = [pcb EXCEPT ![u] = r]
      PROVE  Procs' = Procs /\ \A p \in Procs : SameLine(pcb'[p], pcb[p])
  <2>1. SameLine(r, pcb[u])
    BY <1>2, KilledFields, DispatchedFields, ExecutedFields, VisitedFields
    DEF Updated
  <2> QED BY <1>2, <2>1, OneUpdate DEF SameLine
<1> QED BY <1>1, <1>2, StepShape DEF ReadProcess

\* Nor the process that an event names, while the hash map is there.
LEMMA TargetStable ==
    ASSUME TypeOK, Procs' = Procs, inputVars' = inputVars,
           \A p \in Procs : pcb'[p].pid = pcb[p].pid
    PROVE  \A k \in DOMAIN killSchedule : Target(k)' = Target(k)
<1> SUFFICES ASSUME NEW k \in DOMAIN killSchedule PROVE Target(k)' = Target(k)
  OBVIOUS
<1> DEFINE pid == killSchedule[k].pid
           chain == hashMap[key(pid)]
           found == {i \in DOMAIN chain :
                       /\ pcb[chain[i]].pid = pid
                       /\ \A j \in DOMAIN chain : j < i => pcb[chain[j]].pid # pid}
           after == {i \in DOMAIN chain :
                       /\ pcb'[chain[i]].pid = pid
                       /\ \A j \in DOMAIN chain : j < i => pcb'[chain[j]].pid # pid}
<1>1. pid \in Nat
  <2>1. killSchedule[k] \in KillLines
    BY LenProperties, ElementOfSeq DEF TypeOK
  <2> QED BY <2>1, FcfsAssumption
<1>2. \A i \in DOMAIN chain : chain[i] \in Procs
  <2>1. key(pid) \in 0 .. MAX_PROCESS - 1
    BY <1>1, FcfsAssumption DEF key
  <2>2. chain \in Seq(Procs)
    BY <2>1 DEF TypeOK
  <2> HIDE DEF chain
  <2> QED BY <2>2, LenProperties, ElementOfSeq
<1>3. Target(k) = IF found = {} THEN NULL ELSE chain[CHOOSE i \in found : TRUE]
  BY DEF Target, HashSearch
<1>4. Target(k)' = IF after = {} THEN NULL ELSE chain[CHOOSE i \in after : TRUE]
  <2>1. hashMap' = hashMap /\ killSchedule' = killSchedule
    BY DEF inputVars
  <2> QED BY <2>1 DEF Target, HashSearch, key
<1>5. after = found
  <2> HIDE DEF chain, pid
  <2> QED BY <1>2
<1> HIDE DEF chain, pid, found, after
<1> QED BY <1>3, <1>4, <1>5

\* What a step has to show: an event that it reaches has ended its process, and
\* a process that it kills is ended by an event.
LEMMA KillsKept ==
    ASSUME TypeOK, Placement, AccountInv, KillsInv, Next,
           phase \in Simulating, phase' \in Simulating, inputVars' = inputVars,
           \A k \in DOMAIN killSchedule :
             Reached(k)' => \/ Reached(k)
                            \/ killSchedule[k].killTime < 0
                            \/ Target(k) = NULL
                            \/ pcb'[Target(k)].state = "TERMINATED",
           \A p \in Procs :
             pcb'[p].killedFlag =>
               \/ pcb[p].killedFlag
               \/ \E k \in DOMAIN killSchedule :
                    /\ killSchedule[k].killTime = pcb'[p].completionTime
                    /\ Target(k) = p
    PROVE  KillsInv'
<1>1. phase # "input" /\ phase' # "input"
  BY DEF Simulating
<1>2. /\ Procs' = Procs /\ \A p \in Procs : pcb'[p].pid = pcb[p].pid
      /\ killSchedule' = killSchedule
  BY <1>1, StepSameLine DEF SameLine, inputVars
<1>3. \A k \in DOMAIN killSchedule : Target(k)' = Target(k)
  BY <1>2, TargetStable
<1>4. \A p \in Procs : pcb[p].state = "TERMINATED" => pcb'[p] = pcb[p]
  BY StepFinal DEF Final
<1>5. ASSUME NEW k \in DOMAIN killSchedule PROVE Honoured(k)'
  <2>1. Target(k)' = Target(k) /\ Honoured(k)
    BY <1>3 DEF KillsInv
  <2>2. Target(k) \in Procs \cup {NULL} /\ killSchedule[k].killTime \in Int
    BY TargetType
  <2>3. Honoured(k)' = (killSchedule[k].killTime >= 0 /\ Reached(k)'
                          /\ Target(k) # NULL => pcb'[Target(k)].state = "TERMINATED")
    BY <1>2, <2>1 DEF Honoured
  <2> QED BY <1>4, <2>1, <2>2, <2>3 DEF Honoured
<1>6. ASSUME NEW p \in Procs, pcb'[p].killedFlag
      PROVE  \E k \in DOMAIN killSchedule : EndedBy(p, k)'
  <2>1. CASE pcb[p].killedFlag
    <3>1. pcb'[p] = pcb[p]
      BY <1>4, <2>1 DEF AccountInv, Account
    <3>2. PICK k \in DOMAIN killSchedule : EndedBy(p, k)
      BY <2>1 DEF KillsInv
    <3> QED BY <1>2, <1>3, <3>1, <3>2 DEF EndedBy
  <2>2. ASSUME NEW k \in DOMAIN killSchedule,
               killSchedule[k].killTime = pcb'[p].completionTime, Target(k) = p
        PROVE  EndedBy(p, k)'
    BY <1>2, <1>3, <2>2 DEF EndedBy
  <2> QED BY <1>6, <2>1, <2>2
<1> QED BY <1>1, <1>2, <1>5, <1>6 DEF KillsInv

\* An event that the kill loop passes has ended its process, or finds none that
\* is live.
LEMMA KillStepHonours ==
    ASSUME TypeOK, Placement, AccountInv, KillsInv, KillStep
    PROVE  KillsInv'
<1> DEFINE e == killSchedule[cursor]
           p == Target(cursor)
<1>1. /\ phase = "kill" /\ phase' = "kill" /\ cursor' = cursor + 1
      /\ clockTime' = clockTime /\ inputVars' = inputVars /\ Next
      /\ killSchedule' = killSchedule
      /\ IF fires(e, p) THEN kill(p) ELSE UNCHANGED <<pcb, queueVars, running>>
  BY DEF KillStep, Next, inputVars, Target
<1>2. cursor \in DOMAIN killSchedule
  BY LenProperties DEF KillStep, TypeOK, killCount
<1>3. p \in Procs \cup {NULL} /\ e.killTime \in Int
  BY <1>2, TargetType
<1> HIDE DEF e, p
<1>4. CASE fires(e, p)
  <2>1. p \in Procs /\ e.killTime = clockTime
    BY <1>3, <1>4 DEF fires
  <2>2. /\ pcb' = [pcb EXCEPT ![p] = asKilled(p)]
        /\ \A q \in Procs : q # p => pcb'[q] = pcb[q]
    BY <1>1, <1>4, <2>1, OneUpdate DEF kill
  <2>3. pcb'[p].state = "TERMINATED" /\ pcb'[p].completionTime = clockTime
    <3>1. pcb'[p] = asKilled(p)
      BY <2>1, <2>2, OneUpdate
    <3> QED BY <2>1, <3>1, KilledFields
  <2>4. ASSUME NEW k \in DOMAIN killSchedule, Reached(k)'
        PROVE  Reached(k) \/ k = cursor
    BY <1>1, <2>4, TargetType DEF Reached, KillPassed, TypeOK
  <2>5. ASSUME NEW q \in Procs, pcb'[q].killedFlag
        PROVE  \/ pcb[q].killedFlag
               \/ /\ e.killTime = pcb'[q].completionTime
                  /\ p = q
    BY <2>1, <2>2, <2>3, <2>5
  <2> QED BY <1>1, <1>2, <2>3, <2>4, <2>5, KillsKept DEF e, p, Simulating
<1>5. CASE ~fires(e, p)
  <2>1. pcb' = pcb
    BY <1>1, <1>5
  <2>2. ASSUME NEW k \in DOMAIN killSchedule, Reached(k)'
        PROVE  \/ Reached(k)
               \/ k = cursor /\ e.killTime = clockTime
    <3>1. k \in Nat /\ cursor \in Nat
      BY TargetType DEF TypeOK
    <3>2. \/ Reached(k)
          \/ clockTime = killSchedule[k].killTime /\ k = cursor
      BY <1>1, <2>2, <3>1 DEF Reached, KillPassed
    <3> QED BY <3>2 DEF e
  <2>3. e.killTime = clockTime => p = NULL \/ pcb'[p].state = "TERMINATED"
    BY <1>3, <1>5, <2>1 DEF fires
  <2> QED BY <1>1, <1>2, <2>1, <2>2, <2>3, KillsKept DEF e, p, Simulating
<1> QED BY <1>4, <1>5

LEMMA StepKeepsKills ==
    ASSUME TypeOK, Placement, AccountInv, KillsInv, [Next]_vars
    PROVE  KillsInv'
<1>1. ASSUME NEW d \in Descriptors, ReadProcess(d) PROVE KillsInv'
  <2> DEFINE n == totalProcess + 1
  <2>1. /\ Procs' = Procs \cup {n}
        /\ pcb'[n] = NewPcb(d) /\ \A q \in Procs : pcb'[q] = pcb[q]
    BY <1>1, OneRead
  <2> HIDE DEF n
  <2>2. pcb'[n].killedFlag = FALSE
    BY <2>1 DEF NewPcb
  <2>3. phase = "input" /\ phase' = "input" /\ clockTime' = clockTime
    BY <1>1 DEF ReadProcess
  <2> QED BY <2>1, <2>2, <2>3 DEF KillsInv, Simulating
<1>2. ASSUME NEW k \in KillLines, ReadKill(k) PROVE KillsInv'
  <2>1. /\ phase = "input" /\ phase' = "input"
        /\ clockTime' = clockTime /\ pcb' = pcb
    BY <1>2 DEF ReadKill
  <2> QED BY <2>1 DEF KillsInv, Simulating, Procs
<1>3. CASE EndOfInput
  <2>1. /\ clockTime = 0 /\ clockTime' = 0 /\ \A p \in Procs : ~pcb[p].killedFlag
        /\ phase' \in {"kill", "results"} /\ cursor' = 1
        /\ killSchedule' = killSchedule /\ pcb' = pcb
    BY <1>3 DEF EndOfInput, KillsInv, inputVars, loopTest
  <2>2. ASSUME NEW k \in DOMAIN killSchedule PROVE Honoured(k)'
    <3>1. killSchedule[k].killTime \in Int /\ k \in Nat \ {0}
      BY TargetType
    <3> QED BY <2>1, <3>1 DEF Honoured, Reached, KillPassed
  <2> QED BY <2>1, <2>2 DEF KillsInv, Procs
<1>4. CASE KillStep
  BY <1>4, KillStepHonours
<1>5. CASE KillsDone
  <2>1. /\ phase = "kill" /\ phase' = "dispatch" /\ clockTime' = clockTime
        /\ pcb' = pcb /\ inputVars' = inputVars /\ killSchedule' = killSchedule /\ Next
        /\ cursor > Len(killSchedule)
    BY <1>5 DEF KillsDone, inputVars, Next, killCount
  <2>2. ASSUME NEW k \in DOMAIN killSchedule, Reached(k)' PROVE Reached(k)
    <3>1. k \in 1 .. Len(killSchedule) /\ Len(killSchedule) \in Nat /\ cursor \in Nat
      BY LenProperties DEF TypeOK
    <3>2. k < cursor
      BY <2>1, <3>1
    <3> QED BY <2>1, <2>2, <3>2 DEF Reached, KillPassed
  <2> QED BY <2>1, <2>2, KillsKept DEF Simulating
<1>6. CASE EndTick
  <2>1. /\ phase = "io" /\ phase' \in {"kill", "results"} /\ clockTime' = clockTime + 1
        /\ pcb' = pcb /\ inputVars' = inputVars /\ killSchedule' = killSchedule /\ Next
        /\ cursor' = 1
    BY <1>6 DEF EndTick, inputVars, Next, loopTest
  <2>2. ASSUME NEW k \in DOMAIN killSchedule, Reached(k)' PROVE Reached(k)
    <3>1. killSchedule[k].killTime \in Int /\ k \in Nat \ {0} /\ clockTime \in Nat
      BY TargetType DEF TypeOK
    <3> QED BY <2>1, <2>2, <3>1 DEF Reached, KillPassed
  <2> QED BY <2>1, <2>2, KillsKept DEF Simulating
<1>7. CASE Dispatch \/ CpuTick \/ IoVisit
  <2>1. /\ phase \in {"dispatch", "cpu", "io"} /\ phase' \in {"dispatch", "cpu", "io"}
        /\ clockTime' = clockTime /\ inputVars' = inputVars
        /\ killSchedule' = killSchedule /\ Next
    BY <1>7 DEF Dispatch, CpuTick, IoVisit, inputVars, Next
  <2>2. ASSUME NEW k \in DOMAIN killSchedule, Reached(k)' PROVE Reached(k)
    BY <2>1, <2>2 DEF Reached, KillPassed
  <2>3. ASSUME NEW p \in Procs, pcb'[p].killedFlag PROVE pcb[p].killedFlag
    <3>1. CASE pcb' = pcb
      BY <2>3, <3>1
    <3>2. ASSUME NEW u \in Procs, NEW r, Updated(u, r), pcb' = [pcb EXCEPT ![u] = r]
          PROVE  pcb[p].killedFlag
      <4>1. r.killedFlag = pcb[u].killedFlag
        BY <2>1, <3>2, DispatchedFields, ExecutedFields, VisitedFields DEF Updated
      <4> QED BY <2>3, <3>2, <4>1, OneUpdate
    <3> QED BY <2>1, <3>1, <3>2, StepShape DEF ReadProcess
  <2> QED BY <2>1, <2>2, <2>3, KillsKept DEF Simulating
<1>8. CASE print_results
  <2>1. /\ phase = "results" /\ phase' = "free" /\ clockTime' = clockTime
        /\ pcb' = pcb /\ inputVars' = inputVars /\ killSchedule' = killSchedule /\ Next
    BY <1>8 DEF print_results, inputVars, Next
  <2>2. ASSUME NEW k \in DOMAIN killSchedule, Reached(k)' PROVE Reached(k)
    BY <2>1, <2>2 DEF Reached, KillPassed
  <2> QED BY <2>1, <2>2, KillsKept DEF Simulating
<1>9. CASE freeMemory
  BY <1>9 DEF freeMemory, KillsInv, Simulating
<1>10. CASE UNCHANGED vars
  <2>1. /\ phase' = phase /\ clockTime' = clockTime /\ cursor' = cursor /\ pcb' = pcb
        /\ hashMap' = hashMap /\ killSchedule' = killSchedule
    BY <1>10 DEF vars, inputVars
  <2>2. ASSUME NEW k PROVE Target(k)' = Target(k) /\ Reached(k)' = Reached(k)
    BY <2>1 DEF Target, HashSearch, key, Reached, KillPassed
  <2>3. ASSUME NEW k PROVE Honoured(k)' = Honoured(k)
    BY <2>1, <2>2 DEF Honoured
  <2>4. ASSUME NEW p, NEW k PROVE EndedBy(p, k)' = EndedBy(p, k)
    BY <2>1, <2>2 DEF EndedBy
  <2> QED BY <2>1, <2>3, <2>4 DEF KillsInv, Procs
<1> QED BY <1>1, <1>2, <1>3, <1>4, <1>5, <1>6, <1>7, <1>8, <1>9, <1>10 DEF Next

\* The chains as the lookup relies on them: every process is in the chain of its
\* bucket, and one that was read later stands before one that was read earlier.
LatestFirst(c) == \A i, j \in DOMAIN c : i < j => c[j] < c[i]
ChainInv ==
    phase # "exit" =>
      /\ \A b \in 0 .. MAX_PROCESS - 1 : LatestFirst(hashMap[b])
      /\ \A p \in Procs : In(hashMap[key(pcb[p].pid)], p)

LEMMA ReadProcessChains ==
    ASSUME TypeOK, ChainInv, NEW d \in Descriptors, ReadProcess(d)
    PROVE  ChainInv'
<1> DEFINE n == totalProcess + 1
           b == key(d.pid)
<1>1. /\ Procs' = Procs \cup {n} /\ \A q \in Procs : q \in Nat /\ q < n
      /\ n \in Nat /\ pcb'[n] = NewPcb(d) /\ \A q \in Procs : pcb'[q] = pcb[q]
  BY OneRead
<1>2. pcb'[n].pid = d.pid
  BY <1>1 DEF NewPcb
<1>3. /\ b \in 0 .. MAX_PROCESS - 1 /\ phase # "exit"
      /\ hashMap' = [hashMap EXCEPT ![b] = <<n>> \o @]
      /\ hashMap \in [0 .. MAX_PROCESS - 1 -> Seq(Procs)]
  <2>1. b \in 0 .. MAX_PROCESS - 1
    BY FcfsAssumption DEF key
  <2> QED BY <2>1 DEF ReadProcess, TypeOK
<1>4. \A q \in Procs : key(pcb[q].pid) \in 0 .. MAX_PROCESS - 1
  <2>1. \A q \in Procs : pcb[q].pid \in Nat
    BY TableProps DEF TypeOK, Pcb
  <2> QED BY <2>1, FcfsAssumption DEF key
<1> DEFINE c == hashMap[b]
<1>5. /\ hashMap'[b] = <<n>> \o c
      /\ \A a \in 0 .. MAX_PROCESS - 1 : a # b => hashMap'[a] = hashMap[a]
  BY <1>3
<1>6. /\ c \in Seq(Procs) /\ LatestFirst(c)
      /\ \A a \in 0 .. MAX_PROCESS - 1 : LatestFirst(hashMap[a])
      /\ \A p \in Procs : In(hashMap[key(pcb[p].pid)], p)
  BY <1>3 DEF ChainInv
<1> HIDE DEF n, c
<1>7. /\ DOMAIN (<<n>> \o c) = 1 .. Len(c) + 1 /\ Len(c) \in Nat /\ DOMAIN c = 1 .. Len(c)
      /\ (<<n>> \o c)[1] = n
      /\ \A i \in 1 .. Len(c) : (<<n>> \o c)[i + 1] = c[i] /\ c[i] \in Procs
  <2>1. c \in Seq(Procs') /\ n \in Procs'
    BY <1>1, <1>6, SeqMonotonic
  <2>2. <<n>> \o c \in Seq(Procs') /\ Len(<<n>> \o c) = Len(c) + 1
    BY <2>1, InFrontOf
  <2> QED BY <1>6, <2>1, <2>2, InFrontOf, LenProperties, ElementOfSeq
<1>8. ASSUME NEW i \in 2 .. Len(c) + 1
      PROVE  i - 1 \in DOMAIN c /\ (<<n>> \o c)[i] = c[i - 1] /\ c[i - 1] \in Procs
  <2>1. i - 1 \in 1 .. Len(c) /\ (i - 1) + 1 = i
    BY <1>7
  <2> QED BY <1>7, <2>1
<1>9. LatestFirst(<<n>> \o c)
  <2> SUFFICES ASSUME NEW i \in 1 .. Len(c) + 1, NEW j \in 1 .. Len(c) + 1, i < j
               PROVE  (<<n>> \o c)[j] < (<<n>> \o c)[i]
    BY <1>7 DEF LatestFirst
  <2>1. j \in 2 .. Len(c) + 1
    BY <1>7
  <2>2. CASE i = 1
    BY <1>1, <1>7, <1>8, <2>1, <2>2
  <2>3. CASE i # 1
    <3>1. i \in 2 .. Len(c) + 1 /\ i - 1 < j - 1
      BY <1>7, <2>3
    <3> QED BY <1>6, <1>8, <2>1, <3>1 DEF LatestFirst
  <2> QED BY <2>2, <2>3
<1>10. \A a \in 0 .. MAX_PROCESS - 1 : LatestFirst(hashMap'[a])
  BY <1>5, <1>6, <1>9
<1>11. In(<<n>> \o c, n) /\ \A p : In(c, p) => In(<<n>> \o c, p)
  <2>1. 1 \in DOMAIN (<<n>> \o c) /\ \A i \in DOMAIN c : i + 1 \in DOMAIN (<<n>> \o c)
    BY <1>7
  <2> QED BY <1>7, <2>1 DEF In
<1>12. ASSUME NEW p \in Procs' PROVE In(hashMap'[key(pcb'[p].pid)], p)
  <2>1. CASE p = n
    BY <1>2, <1>5, <1>11, <2>1
  <2>2. CASE p \in Procs
    <3>1. pcb'[p] = pcb[p] /\ In(hashMap[key(pcb[p].pid)], p)
      BY <1>1, <1>6, <2>2
    <3>2. key(pcb[p].pid) \in 0 .. MAX_PROCESS - 1
      BY <1>4, <2>2
    <3>3. In(hashMap'[key(pcb[p].pid)], p)
      BY <1>5, <1>11, <3>1, <3>2 DEF c
    <3> QED BY <3>1, <3>3
  <2> QED BY <1>1, <2>1, <2>2
<1>13. \A a : key(a)' = key(a)
  BY DEF key
<1> QED BY <1>10, <1>12 DEF ChainInv, key

LEMMA StepKeepsChains ==
    ASSUME TypeOK, Placement, ChainInv, Next
    PROVE  ChainInv'
<1>1. CASE phase = "input" /\ ~(\E d \in Descriptors : ReadProcess(d))
  <2>1. pcb' = pcb /\ hashMap' = hashMap
    BY <1>1, StepShape, UpdatedPhase
    DEF Next, ReadKill, EndOfInput, KillStep, KillsDone, Dispatch, CpuTick, IoVisit,
        EndTick, print_results, freeMemory, inputVars
  <2> QED BY <1>1, <2>1 DEF ChainInv, Procs, key
<1>2. CASE phase # "input" /\ hashMap' = hashMap /\ phase # "exit"
  <2>1. Procs' = Procs /\ \A p \in Procs : pcb'[p].pid = pcb[p].pid
    BY <1>2, StepSameLine DEF SameLine
  <2> QED BY <1>2, <2>1 DEF ChainInv, key
<1>3. CASE freeMemory
  BY <1>3 DEF freeMemory, ChainInv
<1>4. phase # "input" /\ ~freeMemory => hashMap' = hashMap /\ phase # "exit"
  BY DEF Next, ReadProcess, ReadKill, EndOfInput, KillStep, KillsDone, Dispatch, CpuTick,
         IoVisit, EndTick, print_results, inputVars
<1> QED BY <1>1, <1>2, <1>3, <1>4, ReadProcessChains

\* So the lookup finds the process that was read last under a pid.
LEMMA SearchFindsLast ==
    ASSUME TypeOK, ChainInv, phase # "exit", NEW pid \in Nat, NEW p \in Procs
    PROVE  HashSearch(pid) = p <=> LastRead(p, pid)
<1> DEFINE c == hashMap[key(pid)]
           found == {i \in DOMAIN c :
                       /\ pcb[c[i]].pid = pid
                       /\ \A j \in DOMAIN c : j < i => pcb[c[j]].pid # pid}
<1>1. key(pid) \in 0 .. MAX_PROCESS - 1
  BY FcfsAssumption DEF key
<1>2. c \in Seq(Procs) /\ LatestFirst(c)
  BY <1>1 DEF TypeOK, ChainInv
<1>3. \A q \in Procs : pcb[q].pid = pid => In(c, q)
  BY DEF ChainInv
<1>4. HashSearch(pid) = IF found = {} THEN NULL ELSE c[CHOOSE i \in found : TRUE]
  BY DEF HashSearch
<1> HIDE DEF c
<1>5. /\ DOMAIN c = 1 .. Len(c) /\ Len(c) \in Nat
      /\ \A i \in DOMAIN c : c[i] \in Procs /\ c[i] \in Nat
  BY <1>2, LenProperties, ElementOfSeq, TableProps DEF TypeOK
<1>6. p # NULL /\ p \in Nat
  BY TableProps DEF TypeOK
<1>7. ASSUME NEW i \in found, NEW q \in Procs, pcb[q].pid = pid PROVE q <= c[i]
  <2>1. PICK j \in DOMAIN c : c[j] = q
    BY <1>3, <1>7 DEF In
  <2>2. i \in DOMAIN c /\ ~(j < i)
    BY <1>7, <2>1
  <2>3. i = j \/ i < j
    BY <1>5, <2>1, <2>2
  <2> QED BY <1>2, <1>5, <2>1, <2>2, <2>3 DEF LatestFirst
<1>8. ASSUME HashSearch(pid) = p PROVE LastRead(p, pid)
  <2>1. PICK i \in found : c[i] = p
    BY <1>4, <1>6, <1>8
  <2> QED BY <1>7, <2>1 DEF LastRead
<1>9. ASSUME LastRead(p, pid) PROVE HashSearch(pid) = p
  <2>1. found # {}
    <3> DEFINE hits == {i \in DOMAIN c : pcb[c[i]].pid = pid}
    <3>1. hits \subseteq Nat /\ hits # {}
      BY <1>3, <1>5, <1>9 DEF LastRead, In
    <3>2. PICK i \in hits : \A j \in hits : i <= j
      BY <3>1, LeastNat
    <3>3. \A j \in DOMAIN c : j < i => pcb[c[j]].pid # pid
      BY <1>5, <3>2
    <3> QED BY <3>2, <3>3
  <2>2. PICK i \in found : HashSearch(pid) = c[i]
    BY <1>4, <2>1
  <2>3. p <= c[i]
    BY <1>7, <1>9, <2>2 DEF LastRead
  <2>4. c[i] \in Procs /\ pcb[c[i]].pid = pid /\ c[i] \in Nat
    BY <1>5, <2>2
  <2>5. c[i] <= p
    BY <1>9, <2>4 DEF LastRead
  <2> QED BY <1>6, <2>2, <2>3, <2>4, <2>5
<1> QED BY <1>8, <1>9

\* An event whose time has passed has ended the process that was read last under
\* its pid, and a process marked killed was named so by an event at its time.
THEOREM KillsCorrect == Spec => []KillsHonoured
<1>1. Init => KillsInv /\ ChainInv
  BY FcfsAssumption DEF Init, KillsInv, Procs, Simulating, ChainInv, LatestFirst
<1>2. TypeOK /\ Placement /\ AccountInv /\ KillsInv /\ [Next]_vars => KillsInv'
  BY StepKeepsKills
<1>3. TypeOK /\ Placement /\ ChainInv /\ [Next]_vars => ChainInv'
  BY StepKeepsChains DEF vars, inputVars, ChainInv, Procs, key
<1>4. TypeOK /\ KillsInv /\ ChainInv => KillsHonoured
  <2> SUFFICES ASSUME TypeOK, KillsInv, ChainInv, phase \in Simulating
               PROVE  KillsHonoured
    BY DEF KillsHonoured, Simulating
  <2>1. ASSUME NEW k \in DOMAIN killSchedule
        PROVE  \A p \in Procs : Target(k) = p <=> LastRead(p, killSchedule[k].pid)
    <3>1. killSchedule[k] \in KillLines
      BY LenProperties, ElementOfSeq DEF TypeOK
    <3>2. killSchedule[k].pid \in Nat /\ phase # "exit"
      BY <3>1, FcfsAssumption DEF Simulating
    <3> QED BY <3>2, SearchFindsLast DEF Target
  <2>2. ASSUME NEW k \in DOMAIN killSchedule, NEW p \in Procs,
               killSchedule[k].killTime >= 0, KillPassed(k),
               LastRead(p, killSchedule[k].pid)
        PROVE  pcb[p].state = "TERMINATED"
    <3>1. Target(k) = p /\ p # NULL
      BY <2>1, <2>2, TableProps DEF TypeOK
    <3> QED BY <2>2, <3>1 DEF KillsInv, Honoured, Reached
  <2>3. ASSUME NEW p \in Procs, pcb[p].killedFlag
        PROVE  \E k \in DOMAIN killSchedule :
                 /\ killSchedule[k].killTime = pcb[p].completionTime
                 /\ LastRead(p, killSchedule[k].pid)
    BY <2>1, <2>3 DEF KillsInv, EndedBy
  <2> QED BY <2>2, <2>3 DEF KillsHonoured
<1> QED BY <1>1, <1>2, <1>3, <1>4, TypeCorrect, PlacementCorrect, AccountCorrect,
           PTL DEF Spec

-----------------------------------------------------------------------------
(* The service of the I/O list.                                              *)

EndlessAt(i) == Endless(WaitingQ[i])

\* The pass over the I/O list owes waiter i a tick.
Owed(i) == phase = "io" /\ i >= cursor

\* Every waiter that can complete has been served since it began to wait, and the
\* earlier it came the more often.
ServedInOrder ==
    /\ \A i \in DOMAIN WaitingQ : ~EndlessAt(i) => IoServed(i) >= 1
    /\ \A i, j \in DOMAIN WaitingQ :
         i < j /\ ~EndlessAt(i) /\ ~EndlessAt(j) => IoServed(i) > IoServed(j)

LEMMA WaiterProps ==
    ASSUME TypeOK
    PROVE  /\ DOMAIN WaitingQ = 1 .. Len(WaitingQ) /\ Len(WaitingQ) \in Nat
           /\ cursor \in Nat
           /\ \A i \in DOMAIN WaitingQ :
                /\ WaitingQ[i] \in Procs /\ In(WaitingQ, WaitingQ[i])
                /\ pcb[WaitingQ[i]].ioDuration \in Int
                /\ pcb[WaitingQ[i]].ioRemaining \in Int
<1>1. /\ DOMAIN WaitingQ = 1 .. Len(WaitingQ) /\ Len(WaitingQ) \in Nat
      /\ cursor \in Nat
  BY LenProperties DEF TypeOK
<1>2. ASSUME NEW i \in DOMAIN WaitingQ
      PROVE  WaitingQ[i] \in Procs /\ In(WaitingQ, WaitingQ[i])
  BY <1>1, ElementOfSeq DEF TypeOK, In
<1>3. \A p \in Procs : pcb[p].ioDuration \in Int /\ pcb[p].ioRemaining \in Int
  BY TableProps DEF TypeOK, Pcb
<1> QED BY <1>1, <1>2, <1>3

\* No step changes the line of a process that was read.
LEMMA LinesStable ==
    ASSUME TypeOK, Placement, Next, NEW p \in Procs
    PROVE  SameLine(pcb'[p], pcb[p])
<1>1. ASSUME NEW d \in Descriptors, ReadProcess(d) PROVE pcb'[p] = pcb[p]
  BY <1>1, OneRead
<1>2. CASE phase # "input"
  BY <1>2, StepSameLine
<1>3. CASE pcb'[p] = pcb[p]
  BY <1>3 DEF SameLine
<1>4. ASSUME NEW u \in Procs, NEW r, Updated(u, r) PROVE phase # "input"
  BY <1>4, UpdatedPhase
<1> QED BY <1>1, <1>2, <1>3, <1>4, StepShape

\* A waiter that keeps its I/O, and what the pass owes it, keeps what it was
\* served, wherever it moves.
LEMMA SameServed ==
    ASSUME NEW i, NEW j,
           pcb'[WaitingQ'[i]].ioDuration = pcb[WaitingQ[j]].ioDuration,
           pcb'[WaitingQ'[i]].ioRemaining = pcb[WaitingQ[j]].ioRemaining,
           Owed(i)' <=> Owed(j)
    PROVE  IoServed(i)' = IoServed(j)
BY DEF IoServed, Owed

\* A step that keeps waiters, each with what it was served and in their order,
\* keeps the order of service.
LEMMA ServedKept ==
    ASSUME TypeOK, Placement, Next, ServedInOrder,
           NEW f \in [DOMAIN WaitingQ' -> DOMAIN WaitingQ],
           \A i, j \in DOMAIN WaitingQ' : i < j => f[i] < f[j],
           \A i \in DOMAIN WaitingQ' :
              /\ WaitingQ'[i] = WaitingQ[f[i]]
              /\ ~EndlessAt(f[i]) => IoServed(i)' = IoServed(f[i])
    PROVE  ServedInOrder'
<1>1. ASSUME NEW i \in DOMAIN WaitingQ', ~EndlessAt(i)'
      PROVE  f[i] \in DOMAIN WaitingQ /\ ~EndlessAt(f[i]) /\ IoServed(i)' = IoServed(f[i])
  <2>1. f[i] \in DOMAIN WaitingQ /\ WaitingQ'[i] = WaitingQ[f[i]]
    OBVIOUS
  <2> DEFINE p == WaitingQ[f[i]]
  <2>2. p \in Procs
    BY <2>1, WaiterProps
  <2>3. EndlessAt(i)' <=> Endless(p)
    <3>1. SameLine(pcb'[p], pcb[p]) /\ WaitingQ'[i] = p
      BY <2>1, <2>2, LinesStable
    <3> HIDE DEF p
    <3> QED BY <3>1 DEF SameLine, EndlessAt, Endless
  <2> QED BY <1>1, <2>1, <2>3 DEF EndlessAt
<1>2. ASSUME NEW i \in DOMAIN WaitingQ', ~EndlessAt(i)' PROVE IoServed(i)' >= 1
  BY <1>1, <1>2 DEF ServedInOrder
<1>3. ASSUME NEW i \in DOMAIN WaitingQ', NEW j \in DOMAIN WaitingQ', i < j,
             ~EndlessAt(i)', ~EndlessAt(j)'
      PROVE  IoServed(i)' > IoServed(j)'
  BY <1>1, <1>3 DEF ServedInOrder
<1> QED BY <1>2, <1>3 DEF ServedInOrder

\* A step that leaves the list alone, with the I/O of everybody on it.
LEMMA ServedUnchanged ==
    ASSUME TypeOK, Placement, Next, ServedInOrder, WaitingQ' = WaitingQ,
           \A i \in DOMAIN WaitingQ : IoServed(i)' = IoServed(i) \/ EndlessAt(i)
    PROVE  ServedInOrder'
<1> DEFINE f == [i \in DOMAIN WaitingQ |-> i]
<1>1. f \in [DOMAIN WaitingQ' -> DOMAIN WaitingQ] /\ \A i \in DOMAIN WaitingQ : f[i] = i
  OBVIOUS
<1> HIDE DEF f
<1> QED BY <1>1, ServedKept

LEMMA UnlinkedAt ==
    ASSUME TypeOK, NEW p, In(WaitingQ, p), WaitingQ' = removeNode(WaitingQ, p)
    PROVE  /\ DOMAIN WaitingQ' = 1 .. Len(WaitingQ) - 1
           /\ \E k \in 1 .. Len(WaitingQ) :
                /\ WaitingQ[k] = p
                /\ \A i \in 1 .. Len(WaitingQ) - 1 :
                     WaitingQ'[i] = IF i < k THEN WaitingQ[i] ELSE WaitingQ[i + 1]
<1>1. WaitingQ \in Seq(Procs)
  BY DEF TypeOK
<1>2. DOMAIN removeNode(WaitingQ, p) = 1 .. Len(WaitingQ) - 1
  BY <1>1, RemoveNodeShifts
<1>3. PICK k \in 1 .. Len(WaitingQ) :
        /\ WaitingQ[k] = p
        /\ \A i \in 1 .. Len(WaitingQ) - 1 :
             removeNode(WaitingQ, p)[i] = IF i < k THEN WaitingQ[i] ELSE WaitingQ[i + 1]
  BY <1>1, RemoveNodeShifts
<1> QED BY <1>2, <1>3

\* A step that unlinks the waiter at k: those behind it move up.
LEMMA ServedUnlinked ==
    ASSUME TypeOK, Placement, Next, ServedInOrder,
           NEW p, In(WaitingQ, p), WaitingQ' = removeNode(WaitingQ, p),
           \A q \in Procs : q # p => pcb'[q] = pcb[q],
           \A i \in Nat, k \in DOMAIN WaitingQ :
              WaitingQ[k] = p => /\ i < k => (Owed(i)' <=> Owed(i))
                                 /\ i >= k => (Owed(i)' <=> Owed(i + 1))
    PROVE  ServedInOrder'
<1>1. DOMAIN WaitingQ' = 1 .. Len(WaitingQ) - 1
  BY UnlinkedAt
<1>2. PICK k \in 1 .. Len(WaitingQ) :
        /\ WaitingQ[k] = p
        /\ \A i \in 1 .. Len(WaitingQ) - 1 :
             WaitingQ'[i] = IF i < k THEN WaitingQ[i] ELSE WaitingQ[i + 1]
  BY UnlinkedAt
<1>3. DOMAIN WaitingQ = 1 .. Len(WaitingQ) /\ Len(WaitingQ) \in Nat
  BY WaiterProps
<1> DEFINE f == [i \in DOMAIN WaitingQ' |-> IF i < k THEN i ELSE i + 1]
<1>4. /\ f \in [DOMAIN WaitingQ' -> DOMAIN WaitingQ]
      /\ \A i \in DOMAIN WaitingQ' : f[i] = IF i < k THEN i ELSE i + 1
  <2>1. \A i \in DOMAIN WaitingQ' : (IF i < k THEN i ELSE i + 1) \in DOMAIN WaitingQ
    BY <1>1, <1>3
  <2> QED BY <2>1
<1> HIDE DEF f
<1>5. \A i, j \in DOMAIN WaitingQ' : i < j => f[i] < f[j]
  BY <1>1, <1>3, <1>4
<1>6. ASSUME NEW i \in DOMAIN WaitingQ'
      PROVE  WaitingQ'[i] = WaitingQ[f[i]] /\ IoServed(i)' = IoServed(f[i])
  <2>1. WaitingQ'[i] = WaitingQ[f[i]] /\ f[i] # k
    BY <1>1, <1>2, <1>3, <1>4
  <2>2. WaitingQ[f[i]] # p /\ WaitingQ[f[i]] \in Procs
    BY <1>2, <1>3, <1>4, <2>1, WaiterProps DEF Placement, NoRepeats
  <2>3. Owed(i)' <=> Owed(f[i])
    <3>1. k \in DOMAIN WaitingQ /\ i \in Nat
      BY <1>1, <1>2, <1>3
    <3> QED BY <1>2, <1>4, <3>1
  <2>4. IoServed(i)' = IoServed(f[i])
    BY <2>1, <2>2, <2>3, SameServed
  <2> QED BY <2>1, <2>4
<1> QED BY <1>4, <1>5, <1>6, ServedKept

\* A KILL line only shortens the list.
LEMMA KillStepServed ==
    ASSUME TypeOK, Placement, ServedInOrder, KillStep
    PROVE  ServedInOrder'
<1> DEFINE e == killSchedule[cursor]
           p == HashSearch(e.pid)
<1>1. p \in Procs \cup {NULL}
  BY KillTarget
<1>2. /\ IF fires(e, p) THEN kill(p) ELSE UNCHANGED <<pcb, queueVars, running>>
      /\ phase = "kill" /\ phase' = "kill" /\ Next
  BY DEF KillStep, Next
<1>3. \A i : ~Owed(i) /\ ~Owed(i)'
  BY <1>2 DEF Owed
<1> HIDE DEF e, p
<1>4. CASE fires(e, p)
  <2>1. p \in Procs /\ pcb' = [pcb EXCEPT ![p] = asKilled(p)] /\ takeOut(p)
    BY <1>1, <1>2, <1>4 DEF fires, kill
  <2>2. \A q \in Procs : q # p => pcb'[q] = pcb[q]
    BY <2>1, OneUpdate
  <2>3. CASE pcb[p].state = "WAITING"
    <3>1. In(WaitingQ, p) /\ WaitingQ' = removeNode(WaitingQ, p)
      BY <2>1, <2>3 DEF takeOut, Placement, PlacedByState
    <3> QED BY <1>2, <1>3, <2>2, <3>1, ServedUnlinked
  <2>4. CASE pcb[p].state # "WAITING"
    <3>1. WaitingQ' = WaitingQ /\ ~In(WaitingQ, p)
      BY <2>1, <2>4 DEF takeOut, Placement, PlacedByState
    <3>2. ASSUME NEW i \in DOMAIN WaitingQ PROVE IoServed(i)' = IoServed(i)
      <4>1. WaitingQ[i] # p /\ WaitingQ[i] \in Procs
        BY <3>1, WaiterProps
      <4> QED BY <1>3, <2>2, <3>1, <4>1, SameServed
    <3> QED BY <1>2, <3>1, <3>2, ServedUnchanged
  <2> QED BY <2>3, <2>4
<1>5. CASE ~fires(e, p)
  <2>1. pcb' = pcb /\ WaitingQ' = WaitingQ
    BY <1>2, <1>5 DEF queueVars
  <2>2. ASSUME NEW i \in DOMAIN WaitingQ PROVE IoServed(i)' = IoServed(i)
    BY <1>3, <2>1, SameServed
  <2> QED BY <1>2, <2>1, <2>2, ServedUnchanged
<1> QED BY <1>4, <1>5

\* The pass that begins owes everybody a tick, the process that has just begun to
\* wait too, and that one has had none.
LEMMA CpuTickServed ==
    ASSUME TypeOK, Placement, AccountInv, ServedInOrder, CpuTick
    PROVE  ServedInOrder'
<1>1. phase = "cpu" /\ phase' = "io" /\ cursor' = 1 /\ Next
  BY DEF CpuTick, Next
<1>0. PICK n : n = Len(WaitingQ)
  OBVIOUS
<1>2. /\ DOMAIN WaitingQ = 1 .. n /\ n \in Nat
      /\ \A i \in 1 .. n : /\ WaitingQ[i] \in Procs /\ In(WaitingQ, WaitingQ[i])
                           /\ pcb[WaitingQ[i]].ioDuration \in Int
                           /\ pcb[WaitingQ[i]].ioRemaining \in Int
  BY <1>0, WaiterProps
<1>3. ASSUME NEW i \in 1 .. n, WaitingQ'[i] = WaitingQ[i],
             pcb'[WaitingQ[i]] = pcb[WaitingQ[i]]
      PROVE  /\ EndlessAt(i)' <=> EndlessAt(i)
             /\ IoServed(i) \in Int /\ IoServed(i)' = IoServed(i) + 1
  BY <1>1, <1>2, <1>3 DEF EndlessAt, Endless, IoServed
<1>4. CASE running # NULL /\ startsIo(running)
  <2> DEFINE p == running
  <2>1. /\ p \in Procs /\ pcb' = [pcb EXCEPT ![p] = asExecuted(p)]
        /\ WaitingQ' = enqueue(WaitingQ, p)
    BY <1>4 DEF TypeOK, CpuTick, execute
  <2>2. pcb[p].state = "RUNNING" /\ ~In(WaitingQ, p)
    BY <2>1 DEF Placement, PlacedByState
  <2>3. /\ DOMAIN WaitingQ' = 1 .. n + 1 /\ WaitingQ'[n + 1] = p
        /\ \A i \in 1 .. n : WaitingQ'[i] = WaitingQ[i]
    BY <1>0, <2>1, AppendProperties, LenProperties DEF TypeOK, enqueue
  <2>4. \A i \in 1 .. n : pcb'[WaitingQ[i]] = pcb[WaitingQ[i]]
    BY <1>2, <2>1, <2>2, OneUpdate
  <2>5. \A i \in 1 .. n : /\ EndlessAt(i)' <=> EndlessAt(i)
                          /\ IoServed(i) \in Int /\ IoServed(i)' = IoServed(i) + 1
    BY <1>3, <2>3, <2>4
  <2>6. IoServed(n + 1)' = 1
    <3>1. pcb'[p] = asExecuted(p)
      BY <2>1, OneUpdate
    <3>2. pcb'[p].ioDuration = pcb[p].ioDuration /\ pcb'[p].ioRemaining = pcb[p].ioRemaining
      BY <2>1, <3>1, ExecutedFields DEF SameLine
    <3>3. /\ pcb[p].cpuExecuted \in Nat /\ pcb[p].ioStart \in Int
          /\ pcb[p].ioDuration \in Int /\ pcb[p].ioRemaining \in Int
      BY <2>1, TableProps DEF TypeOK, Pcb
    <3>4. pcb[p].cpuExecuted < pcb[p].ioStart
      BY <1>4, <3>3 DEF startsIo
    <3>5. pcb[p].ioRemaining = pcb[p].ioDuration
      BY <2>1, <3>4 DEF AccountInv, Account
    <3>6. IoServed(n + 1)' = pcb'[p].ioDuration - pcb'[p].ioRemaining + 1
      BY <1>1, <1>2, <2>3 DEF IoServed
    <3> QED BY <3>2, <3>3, <3>5, <3>6
  <2>7. ASSUME NEW i \in 1 .. n + 1, ~EndlessAt(i)' PROVE IoServed(i)' >= 1
    <3>1. CASE i \in 1 .. n
      BY <1>2, <2>5, <2>7, <3>1 DEF ServedInOrder
    <3>2. CASE i = n + 1
      BY <2>6, <3>2
    <3> QED BY <1>2, <3>1, <3>2
  <2>8. ASSUME NEW i \in 1 .. n + 1, NEW j \in 1 .. n + 1, i < j,
               ~EndlessAt(i)', ~EndlessAt(j)'
        PROVE  IoServed(i)' > IoServed(j)'
    <3>1. i \in 1 .. n /\ IoServed(i) >= 1 /\ IoServed(i)' = IoServed(i) + 1
          /\ ~EndlessAt(i) /\ IoServed(i) \in Int
      BY <1>2, <2>5, <2>8 DEF ServedInOrder
    <3>2. CASE j \in 1 .. n
      <4>1. /\ ~EndlessAt(j) /\ IoServed(j) \in Int
            /\ IoServed(j)' = IoServed(j) + 1
        BY <2>5, <2>8, <3>2
      <4>2. IoServed(i) > IoServed(j)
        BY <1>2, <2>8, <3>1, <3>2, <4>1 DEF ServedInOrder
      <4> QED BY <3>1, <4>1, <4>2
    <3>3. CASE j = n + 1
      BY <2>6, <3>1, <3>3
    <3> QED BY <1>2, <3>2, <3>3
  <2> QED BY <2>3, <2>7, <2>8 DEF ServedInOrder
<1>5. CASE ~(running # NULL /\ startsIo(running))
  <2>1. WaitingQ' = WaitingQ
    BY <1>5 DEF CpuTick, execute
  <2>2. ASSUME NEW i \in 1 .. n PROVE pcb'[WaitingQ[i]] = pcb[WaitingQ[i]]
    <3>1. CASE running = NULL
      BY <3>1 DEF CpuTick
    <3>2. CASE running # NULL
      <4>1. running \in Procs /\ pcb' = [pcb EXCEPT ![running] = asExecuted(running)]
        BY <3>2 DEF TypeOK, CpuTick, execute
      <4>2. ~In(WaitingQ, running)
        BY <4>1 DEF Placement, PlacedByState
      <4> QED BY <1>2, <4>1, <4>2, OneUpdate
    <3> QED BY <3>1, <3>2
  <2>3. \A i \in 1 .. n : /\ EndlessAt(i)' <=> EndlessAt(i)
                          /\ IoServed(i) \in Int /\ IoServed(i)' = IoServed(i) + 1
    BY <1>3, <2>1, <2>2
  <2>4. ASSUME NEW i \in 1 .. n, ~EndlessAt(i)' PROVE IoServed(i)' >= 1
    BY <1>2, <2>3, <2>4 DEF ServedInOrder
  <2>5. ASSUME NEW i \in 1 .. n, NEW j \in 1 .. n, i < j,
               ~EndlessAt(i)', ~EndlessAt(j)'
        PROVE  IoServed(i)' > IoServed(j)'
    <3>1. /\ ~EndlessAt(i) /\ IoServed(i) \in Int /\ IoServed(i)' = IoServed(i) + 1
          /\ ~EndlessAt(j) /\ IoServed(j) \in Int /\ IoServed(j)' = IoServed(j) + 1
      BY <2>3, <2>5
    <3>2. IoServed(i) > IoServed(j)
      BY <1>2, <2>5, <3>1 DEF ServedInOrder
    <3> QED BY <3>1, <3>2
  <2> QED BY <1>2, <2>1, <2>4, <2>5 DEF ServedInOrder
<1> QED BY <1>4, <1>5

\* A visit pays the waiter at the cursor what the pass owes it; if that ends its
\* I/O the cursor stays, and the next waiter moves under it.
LEMMA IoVisitServed ==
    ASSUME TypeOK, Placement, AccountInv, ServedInOrder, IoVisit
    PROVE  ServedInOrder'
<1> DEFINE p == WaitingQ[cursor]
<1>1. /\ cursor \in DOMAIN WaitingQ /\ DOMAIN WaitingQ = 1 .. Len(WaitingQ)
      /\ Len(WaitingQ) \in Nat /\ cursor \in Nat
  BY LenProperties DEF TypeOK, IoVisit
<1>2. /\ p \in Procs /\ In(WaitingQ, p)
      /\ pcb[p].ioDuration \in Int /\ pcb[p].ioRemaining \in Int
  BY <1>1, WaiterProps
<1>3. /\ pcb' = [pcb EXCEPT ![p] = asVisited(p)]
      /\ WaitingQ' = IF ioEnds(p) THEN removeNode(WaitingQ, p) ELSE WaitingQ
      /\ cursor' = IF ioEnds(p) THEN cursor ELSE cursor + 1
      /\ phase = "io" /\ phase' = "io" /\ Next
  BY DEF IoVisit, afterVisit, Next
<1>4. \A k \in DOMAIN WaitingQ : WaitingQ[k] = p <=> k = cursor
  BY <1>1 DEF Placement, NoRepeats
<1>5. p = WaitingQ[cursor]
  OBVIOUS
<1> HIDE DEF p
<1>6. pcb'[p] = asVisited(p) /\ \A q \in Procs : q # p => pcb'[q] = pcb[q]
  BY <1>2, <1>3, OneUpdate
<1>7. pcb[p].state = "WAITING"
  BY <1>2 DEF Placement, PlacedByState
<1>8. CASE ioEnds(p)
  <2>1. ASSUME NEW i \in Nat
        PROVE  /\ i < cursor => (Owed(i)' <=> Owed(i))
               /\ i >= cursor => (Owed(i)' <=> Owed(i + 1))
    BY <1>1, <1>3, <1>8 DEF Owed
  <2>2. \A i \in Nat, k \in DOMAIN WaitingQ :
          WaitingQ[k] = p => /\ i < k => (Owed(i)' <=> Owed(i))
                             /\ i >= k => (Owed(i)' <=> Owed(i + 1))
    BY <1>4, <2>1
  <2> QED BY <1>2, <1>3, <1>6, <1>8, <2>2, ServedUnlinked
<1>9. CASE ~ioEnds(p)
  <2>1. WaitingQ' = WaitingQ /\ cursor' = cursor + 1
    BY <1>3, <1>9
  <2>2. ASSUME NEW i \in DOMAIN WaitingQ, i # cursor PROVE IoServed(i)' = IoServed(i)
    <3>1. WaitingQ[i] # p /\ WaitingQ[i] \in Procs
      BY <1>4, <2>2, WaiterProps
    <3>2. Owed(i)' <=> Owed(i)
      BY <1>1, <1>3, <2>1, <2>2 DEF Owed
    <3> QED BY <1>6, <2>1, <3>1, <3>2, SameServed
  <2>3. ASSUME NEW i \in DOMAIN WaitingQ, i = cursor, ~EndlessAt(i)
        PROVE  IoServed(i)' = IoServed(i)
    <3>0. WaitingQ[i] = p /\ WaitingQ'[i] = p /\ i \in Nat
      BY <1>1, <1>5, <2>1, <2>3
    <3>1. ~Endless(p)
      BY <2>3, <3>0 DEF EndlessAt
    <3>2. pcb[p].ioRemaining > 0
      <4>1. /\ pcb[p].burst \in Int /\ pcb[p].ioStart \in Int
            /\ pcb[p].cpuExecuted \in Nat /\ Account(pcb[p])
        BY <1>2, TableProps DEF TypeOK, Pcb, AccountInv
      <4> QED BY <1>2, <1>7, <3>1, <4>1 DEF Account, Endless
    <3>3. /\ pcb'[p].ioDuration = pcb[p].ioDuration
          /\ pcb'[p].ioRemaining = pcb[p].ioRemaining - 1
      BY <1>2, <1>6, <1>7, <3>2, VisitedFields DEF SameLine, ioLeft
    <3>4. IoServed(i) = pcb[p].ioDuration - pcb[p].ioRemaining + 1
      BY <1>3, <1>1, <2>3, <3>0 DEF IoServed
    <3>5. IoServed(i)' = pcb'[p].ioDuration - pcb'[p].ioRemaining
      <4>1. ~(i >= cursor')
        BY <2>1, <2>3, <3>0
      <4>2. IoServed(i)' = pcb'[WaitingQ'[i]].ioDuration - pcb'[WaitingQ'[i]].ioRemaining + 0
        BY <4>1 DEF IoServed
      <4>3. pcb'[p].ioDuration \in Int /\ pcb'[p].ioRemaining \in Int
        BY <1>2, <3>3
      <4> QED BY <3>0, <4>2, <4>3
    <3> QED BY <1>2, <3>3, <3>4, <3>5
  <2> QED BY <1>3, <2>1, <2>2, <2>3, ServedUnchanged
<1> QED BY <1>8, <1>9

\* The other steps leave the list alone, and owe it nothing.
LEMMA StepKeepsService ==
    ASSUME TypeOK, Placement, AccountInv, ServedInOrder, [Next]_vars
    PROVE  ServedInOrder'
<1>1. CASE KillStep
  BY <1>1, KillStepServed
<1>2. CASE CpuTick
  BY <1>2, CpuTickServed
<1>3. CASE IoVisit
  BY <1>3, IoVisitServed
<1>4. CASE Dispatch
  <2>1. /\ phase = "dispatch" /\ phase' = "cpu" /\ WaitingQ' = WaitingQ /\ Next
        /\ phase # "input"
    BY <1>4 DEF Dispatch, Next
  <2>2. ASSUME NEW i \in DOMAIN WaitingQ PROVE IoServed(i)' = IoServed(i)
    <3>1. WaitingQ[i] \in Procs /\ In(WaitingQ, WaitingQ[i])
      BY WaiterProps
    <3>2. pcb'[WaitingQ[i]] = pcb[WaitingQ[i]]
      <4>1. CASE running = NULL /\ ReadyQ # <<>>
        <5> DEFINE p == Head(ReadyQ)
        <5>1. p \in Procs /\ In(ReadyQ, p)
          BY <4>1, DequeueProps DEF TypeOK
        <5>2. pcb' = [pcb EXCEPT ![p] = asDispatched(p)]
          BY <1>4, <4>1 DEF Dispatch, asDispatched
        <5> HIDE DEF p
        <5>3. p # WaitingQ[i]
          BY <3>1, <5>1 DEF Placement, PlacedByState
        <5> QED BY <3>1, <5>1, <5>2, <5>3, OneUpdate
      <4>2. CASE ~(running = NULL /\ ReadyQ # <<>>)
        BY <1>4, <4>2 DEF Dispatch
      <4> QED BY <4>1, <4>2
    <3>3. Owed(i)' <=> Owed(i)
      BY <2>1 DEF Owed
    <3> QED BY <2>1, <3>2, <3>3, SameServed
  <2> QED BY <2>1, <2>2, ServedUnchanged
<1>5. ASSUME NEW d \in Descriptors, ReadProcess(d) PROVE ServedInOrder'
  <2>1. /\ phase = "input" /\ phase' = "input" /\ WaitingQ' = WaitingQ /\ Next
        /\ \A q \in Procs : pcb'[q] = pcb[q]
    BY <1>5, OneRead DEF ReadProcess, Next
  <2>2. ASSUME NEW i \in DOMAIN WaitingQ PROVE IoServed(i)' = IoServed(i)
    <3>1. WaitingQ[i] \in Procs
      BY WaiterProps
    <3>2. Owed(i)' <=> Owed(i)
      BY <2>1 DEF Owed
    <3> QED BY <2>1, <3>1, <3>2, SameServed
  <2> QED BY <2>1, <2>2, ServedUnchanged
<1>6. CASE \/ \E k \in KillLines : ReadKill(k)
           \/ EndOfInput \/ KillsDone \/ EndTick \/ print_results \/ freeMemory
  <2>1. /\ WaitingQ' = WaitingQ /\ pcb' = pcb /\ phase' # "io" /\ Next
        /\ phase = "io" => cursor > Len(WaitingQ)
    BY <1>6 DEF ReadKill, EndOfInput, KillsDone, EndTick, print_results,
                freeMemory, queueVars, loopTest, Next
  <2>2. ASSUME NEW i \in DOMAIN WaitingQ PROVE IoServed(i)' = IoServed(i)
    <3>1. i \in 1 .. Len(WaitingQ) /\ Len(WaitingQ) \in Nat /\ cursor \in Nat
      BY WaiterProps
    <3>2. Owed(i)' <=> Owed(i)
      BY <2>1, <3>1 DEF Owed
    <3> QED BY <2>1, <3>2, SameServed
  <2> QED BY <2>1, <2>2, ServedUnchanged
<1>7. CASE UNCHANGED vars
  <2>1. /\ WaitingQ' = WaitingQ /\ pcb' = pcb /\ phase' = phase
        /\ cursor' = cursor
    BY <1>7 DEF vars, queueVars
  <2>2. ASSUME NEW i PROVE IoServed(i)' = IoServed(i) /\ (EndlessAt(i)' <=> EndlessAt(i))
    BY <2>1 DEF IoServed, EndlessAt, Endless
  <2> QED BY <2>1, <2>2 DEF ServedInOrder
<1> QED BY <1>1, <1>2, <1>3, <1>4, <1>5, <1>6, <1>7 DEF Next

\* I/O starts at its point in the burst, and then every waiter is served in every
\* tick, nobody skipped or served twice.
THEOREM ServiceCorrect == Spec => []IoService
<1>1. Init => ServedInOrder
  <2>1. Init => DOMAIN WaitingQ = {}
    BY DEF Init
  <2> QED BY <2>1 DEF ServedInOrder
<1>2. TypeOK /\ Placement /\ AccountInv /\ ServedInOrder /\ [Next]_vars => ServedInOrder'
  BY StepKeepsService
<1>3. TypeOK /\ AccountInv => IoAtItsPoint
  <2> SUFFICES ASSUME TypeOK, AccountInv, NEW p \in Procs
               PROVE  /\ pcb[p].state = "WAITING" =>
                            /\ pcb[p].cpuExecuted = pcb[p].ioStart
                            /\ pcb[p].cpuRemaining > 0
                      /\ pcb[p].ioRemaining < pcb[p].ioDuration =>
                            pcb[p].cpuExecuted >= pcb[p].ioStart
                      /\ pcb[p].ioStart > 0 /\ pcb[p].cpuExecuted > pcb[p].ioStart =>
                            pcb[p].ioRemaining = 0 \/ pcb[p].burst <= 0
    BY DEF IoAtItsPoint
  <2>1. /\ pcb[p].burst \in Int /\ pcb[p].ioStart \in Int
        /\ pcb[p].ioDuration \in Int /\ pcb[p].ioRemaining \in Int
        /\ pcb[p].cpuExecuted \in Nat /\ Account(pcb[p])
    BY TableProps DEF TypeOK, Pcb, AccountInv
  <2> QED BY <2>1 DEF Account
<1>4. IoAtItsPoint /\ ServedInOrder => IoService
  BY DEF IoService, ServedInOrder, EndlessAt
<1> QED BY <1>1, <1>2, <1>3, <1>4, TypeCorrect, PlacementCorrect, AccountCorrect,
           PTL DEF Spec

-----------------------------------------------------------------------------
(* One tick.                                                                 *)

Ticking == {"kill", "dispatch", "cpu", "io"}

\* While the count says that somebody is left, somebody is.
LEMMA NotAllDone ==
    ASSUME TypeOK, Placement, terminatedProcessCount < totalProcess
    PROVE  \E p \in Procs : pcb[p].state # "TERMINATED"
<1> DEFINE L == Len(TerminatedQ)
<1>1. /\ L \in Nat /\ totalProcess \in Nat /\ L < totalProcess
      /\ Procs = 1 .. totalProcess
      /\ DOMAIN TerminatedQ = 1 .. L
      /\ TerminatedQ \in [1 .. L -> Procs]
  BY TableProps, LenProperties DEF TypeOK, Placement
<1>2. ASSUME \A p \in Procs : pcb[p].state = "TERMINATED"
      PROVE  TerminatedQ \in Surjection(1 .. L, Procs)
  <2>1. \A p \in Procs : In(TerminatedQ, p)
    BY <1>2 DEF Placement, PlacedByState
  <2> HIDE DEF L
  <2> QED BY <1>1, <2>1 DEF Surjection, In
<1> HIDE DEF L
<1>3. /\ IsFiniteSet(1 .. L) /\ Cardinality(1 .. L) = L
      /\ IsFiniteSet(Procs) /\ Cardinality(Procs) = totalProcess
  <2>1. ASSUME NEW n \in Nat PROVE IsFiniteSet(1 .. n) /\ Cardinality(1 .. n) = n
    BY FS_Interval
  <2> QED BY <1>1, <2>1
<1>4. ASSUME \A p \in Procs : pcb[p].state = "TERMINATED" PROVE totalProcess <= L
  BY <1>2, <1>3, <1>4, FS_Surjection
<1> QED BY <1>1, <1>4

\* The snapshot is of the processes there are, and one of them was live.
BeganLive ==
    phase \in Ticking =>
      /\ before \in Seq(Pcb) /\ DOMAIN before = Procs
      /\ \E p \in Procs : before[p].state # "TERMINATED"

\* Until the CPU's turn an entry r with snapshot b has only changed its state,
\* and waits if it did and was not killed.
Untouched(b, r) ==
    /\ r.cpuExecuted = b.cpuExecuted /\ r.ioRemaining = b.ioRemaining
    /\ r.state = "WAITING" <=> (b.state = "WAITING" /\ ~r.killedFlag)

UntilCpu ==
    /\ phase \in {"kill", "dispatch", "cpu"} =>
         \A p \in Procs : Untouched(before[p], pcb[p])
    /\ phase = "cpu" /\ running = NULL => ReadyQ = <<>>

\* The CPU has executed x, or nobody because everybody was waiting.
HasExecuted(x) ==
    /\ \A p \in Procs : Executed(p) = IF p = x THEN 1 ELSE 0
    /\ x = NULL => \A p \in Procs :
         pcb[p].state # "TERMINATED" => before[p].state = "WAITING"

\* The I/O pass still owes p its tick, or has given it to p if p is to have one.
Awaits(p) == \E i \in DOMAIN WaitingQ : i >= cursor /\ WaitingQ[i] = p
InIo(p) == WaitsOn(p) \/ BeginsIo(p)
PassedBy(p) ==
    /\ Awaits(p) => InIo(p) /\ IoTicks(p) = 0
    /\ ~Awaits(p) =>
         IoTicks(p) = IF before[p].ioRemaining > 0 /\ InIo(p) THEN 1 ELSE 0

SinceCpu ==
    phase = "io" => /\ \E x \in Procs \cup {NULL} : HasExecuted(x)
                    /\ \A p \in Procs : PassedBy(p)

TickInv == BeganLive /\ UntilCpu /\ SinceCpu

LEMMA SnapshotTypes ==
    ASSUME TypeOK, BeganLive, phase \in Ticking, NEW p \in Procs
    PROVE  /\ before[p].cpuExecuted \in Int /\ before[p].ioRemaining \in Int
           /\ pcb[p].cpuExecuted \in Int /\ pcb[p].ioRemaining \in Int
           /\ pcb[p].cpuRemaining \in Int /\ pcb[p].ioStart \in Int
           /\ pcb[p].killedFlag \in BOOLEAN /\ pcb[p].state \in States
           /\ p # NULL
<1>1. before[p] \in Pcb /\ pcb[p] \in Pcb /\ p # NULL
  BY TableProps, ElementOfSeq, LenProperties DEF TypeOK, BeganLive
<1> QED BY <1>1 DEF Pcb

\* A tick begins: the snapshot is taken, and the loop test says that somebody is
\* left.
LEMMA TickBegins ==
    ASSUME TypeOK, Placement, AccountInv, phase' = "kill", pcb' = pcb, before' = pcb',
           terminatedProcessCount < totalProcess
    PROVE  TickInv'
<1>1. \E p \in Procs : pcb[p].state # "TERMINATED"
  BY NotAllDone
<1>2. BeganLive'
  BY <1>1 DEF BeganLive, TypeOK, Procs
<1>3. ASSUME NEW p \in Procs PROVE Untouched(pcb[p], pcb[p])
  BY <1>3 DEF Untouched, AccountInv, Account
<1>4. UntilCpu'
  BY <1>3 DEF UntilCpu, Procs
<1> QED BY <1>2, <1>4 DEF TickInv, SinceCpu

\* Inside a tick the snapshot stays as it was taken.
LEMMA BeganKept ==
    ASSUME BeganLive, phase \in Ticking, Procs' = Procs, before' = before
    PROVE  BeganLive'
BY DEF BeganLive

\* A KILL line changes the process that it ends, and that no longer waits.
LEMMA KillStepTick ==
    ASSUME TypeOK, Placement, TickInv, KillStep, before' = before
    PROVE  TickInv'
<1>1. phase = "kill" /\ phase' = "kill" /\ phase \in Ticking
  BY DEF KillStep, Ticking
<1>2. \/ pcb' = pcb
      \/ \E p \in Procs : \E r : r = asKilled(p) /\ pcb' = [pcb EXCEPT ![p] = r]
  BY <1>1, StepShape DEF Next, ReadProcess, Updated
<1>3. CASE pcb' = pcb
  BY <1>1, <1>3, BeganKept DEF TickInv, UntilCpu, SinceCpu, Procs
<1>4. ASSUME NEW p \in Procs, NEW r, r = asKilled(p), pcb' = [pcb EXCEPT ![p] = r]
      PROVE  TickInv'
  <2>1. /\ Procs' = Procs /\ pcb'[p] = r
        /\ \A q \in Procs : q # p => pcb'[q] = pcb[q]
    BY <1>4, OneUpdate
  <2>2. /\ r.cpuExecuted = pcb[p].cpuExecuted /\ r.ioRemaining = pcb[p].ioRemaining
        /\ r.state = "TERMINATED" /\ r.killedFlag = TRUE
    BY <1>4, KilledFields
  <2>3. \A q \in Procs : Untouched(before[q], pcb[q])
    BY <1>1 DEF TickInv, UntilCpu
  <2>4. Untouched(before[p], r)
    BY <2>2, <2>3 DEF Untouched
  <2>5. \A q \in Procs : Untouched(before[q], pcb'[q])
    BY <2>1, <2>3, <2>4
  <2> QED BY <1>1, <2>1, <2>5, BeganKept DEF TickInv, UntilCpu, SinceCpu
<1> QED BY <1>2, <1>3, <1>4

\* A dispatch takes a process that was ready; without one nobody is.
LEMMA DispatchTick ==
    ASSUME TypeOK, Placement, TickInv, Dispatch, before' = before
    PROVE  TickInv'
<1>1. phase = "dispatch" /\ phase' = "cpu" /\ phase \in Ticking
  BY DEF Dispatch, Ticking
<1>2. \A q \in Procs : Untouched(before[q], pcb[q])
  BY <1>1 DEF TickInv, UntilCpu
<1>3. CASE running = NULL /\ ReadyQ # <<>>
  <2> DEFINE p == Head(ReadyQ)
  <2>1. p \in Procs /\ In(ReadyQ, p)
    BY <1>3, DequeueProps DEF TypeOK
  <2>2. pcb' = [pcb EXCEPT ![p] = asDispatched(p)] /\ running' = p
    BY <1>3 DEF Dispatch, asDispatched
  <2> HIDE DEF p
  <2>3. pcb[p].state = "READY" /\ p # NULL
    BY <2>1, TableProps DEF Placement, PlacedByState, TypeOK
  <2>4. /\ Procs' = Procs /\ pcb'[p] = asDispatched(p)
        /\ \A q \in Procs : q # p => pcb'[q] = pcb[q]
    BY <2>1, <2>2, OneUpdate
  <2>5. Untouched(before[p], pcb'[p])
    BY <1>2, <2>1, <2>3, <2>4, DispatchedFields DEF Untouched
  <2>6. \A q \in Procs : Untouched(before[q], pcb'[q])
    BY <1>2, <2>4, <2>5
  <2> QED BY <1>1, <2>2, <2>3, <2>4, <2>6, BeganKept DEF TickInv, UntilCpu, SinceCpu
<1>4. CASE ~(running = NULL /\ ReadyQ # <<>>)
  <2>1. running' = running /\ ReadyQ' = ReadyQ /\ pcb' = pcb
    BY <1>4 DEF Dispatch
  <2> QED BY <1>1, <1>2, <1>4, <2>1, BeganKept DEF TickInv, UntilCpu, SinceCpu, Procs
<1> QED BY <1>3, <1>4

\* Whoever is in I/O when the CPU has had its turn is in the list, and the pass
\* owes it a tick; nobody else is owed one.
LEMMA CpuTickOwes ==
    ASSUME TypeOK, Placement, AccountInv, TickInv, CpuTick, before' = before,
           NEW p \in Procs
    PROVE  PassedBy(p)'
<1>1. phase = "cpu" /\ phase' = "io" /\ cursor' = 1 /\ phase \in Ticking
  BY DEF CpuTick, Ticking
<1>2. Untouched(before[p], pcb[p]) /\ before' = before
  BY <1>1 DEF TickInv, UntilCpu
<1>3. /\ before[p].cpuExecuted \in Int /\ before[p].ioRemaining \in Int
      /\ pcb[p].cpuExecuted \in Int /\ pcb[p].ioRemaining \in Int
      /\ pcb[p].cpuRemaining \in Int /\ pcb[p].ioStart \in Int
  BY <1>1, SnapshotTypes DEF TickInv
<1>4. In(WaitingQ, p) <=> pcb[p].state = "WAITING"
  BY DEF Placement, PlacedByState
<1>5. DOMAIN WaitingQ = 1 .. Len(WaitingQ) /\ Len(WaitingQ) \in Nat
  BY WaiterProps
<1>6. CASE p = running
  <2>1. /\ pcb' = [pcb EXCEPT ![p] = asExecuted(p)]
        /\ WaitingQ' = IF startsIo(p) THEN enqueue(WaitingQ, p) ELSE WaitingQ
    BY <1>6, SnapshotTypes, <1>1 DEF CpuTick, execute, TickInv
  <2>2. pcb'[p] = asExecuted(p)
    BY <2>1, OneUpdate
  <2>3. /\ pcb'[p].cpuExecuted = pcb[p].cpuExecuted + 1
        /\ pcb'[p].cpuRemaining = pcb[p].cpuRemaining - 1
        /\ pcb'[p].ioRemaining = pcb[p].ioRemaining
        /\ pcb'[p].ioStart = pcb[p].ioStart
        /\ pcb'[p].killedFlag = pcb[p].killedFlag
    BY <2>2, ExecutedFields DEF SameLine
  <2>4. pcb[p].state = "RUNNING" /\ ~In(WaitingQ, p)
    BY <1>4, <1>6 DEF Placement, PlacedByState
  <2>5. IoTicks(p)' = 0 /\ Executed(p)' = 1
    BY <1>2, <1>3, <2>3 DEF IoTicks, Executed, Untouched
  <2>6. ~WaitsOn(p)'
    BY <1>2, <2>3, <2>4 DEF WaitsOn, Untouched
  <2>7. CASE startsIo(p)
    <3>1. Len(WaitingQ) + 1 \in DOMAIN WaitingQ' /\ WaitingQ'[Len(WaitingQ) + 1] = p
      BY <1>5, <2>1, <2>7, AppendProperties DEF TypeOK, enqueue
    <3>2. Awaits(p)'
      BY <1>1, <1>5, <3>1 DEF Awaits
    <3>3. InIo(p)'
      <4>1. pcb[p].cpuExecuted + 1 = pcb[p].ioStart /\ pcb[p].cpuRemaining - 1 > 0
        BY <2>7 DEF startsIo
      <4>2. BeginsIo(p)'
        BY <1>3, <2>3, <2>5, <4>1 DEF BeginsIo
      <4> QED BY <4>2 DEF InIo
    <3> QED BY <2>5, <3>2, <3>3 DEF PassedBy
  <2>8. CASE ~startsIo(p)
    <3>1. ~Awaits(p)'
      BY <2>1, <2>4, <2>8 DEF Awaits, In
    <3>2. ~BeginsIo(p)'
      <4>1. pcb[p].ioStart > 0 \/ pcb[p].ioStart <= 0
        BY <1>3
      <4>2. pcb[p].cpuExecuted \in Nat
        BY TableProps DEF TypeOK, Pcb
      <4> QED BY <1>3, <2>3, <2>8, <4>1, <4>2 DEF BeginsIo, startsIo
    <3> QED BY <2>5, <2>6, <3>1, <3>2 DEF PassedBy, InIo
  <2> QED BY <2>7, <2>8
<1>7. CASE p # running
  <2>1. pcb'[p] = pcb[p]
    <3>1. CASE running = NULL
      BY <3>1 DEF CpuTick
    <3>2. CASE running # NULL
      BY <1>7, <3>2, OneUpdate DEF TypeOK, CpuTick, execute
    <3> QED BY <3>1, <3>2
  <2>2. Awaits(p)' <=> In(WaitingQ, p)
    <3>1. CASE WaitingQ' = WaitingQ
      BY <1>1, <1>5, <3>1 DEF Awaits, In
    <3>2. CASE WaitingQ' = enqueue(WaitingQ, running)
      <4>1. /\ DOMAIN WaitingQ' = 1 .. Len(WaitingQ) + 1
            /\ WaitingQ'[Len(WaitingQ) + 1] = running
            /\ \A i \in 1 .. Len(WaitingQ) : WaitingQ'[i] = WaitingQ[i]
        BY <3>2, AppendProperties, LenProperties DEF TypeOK, enqueue
      <4> QED BY <1>1, <1>5, <1>7, <4>1 DEF Awaits, In
    <3> QED BY <3>1, <3>2 DEF CpuTick, execute
  <2>3. IoTicks(p)' = 0 /\ ~BeginsIo(p)'
    BY <1>2, <1>3, <2>1 DEF IoTicks, BeginsIo, Executed, Untouched
  <2>4. WaitsOn(p)' <=> In(WaitingQ, p)
    BY <1>2, <1>4, <2>1 DEF WaitsOn, Untouched
  <2> QED BY <2>2, <2>3, <2>4 DEF PassedBy, InIo
<1> QED BY <1>6, <1>7

LEMMA CpuTickTick ==
    ASSUME TypeOK, Placement, AccountInv, TickInv, CpuTick, before' = before
    PROVE  TickInv'
<1>1. phase = "cpu" /\ phase' = "io" /\ phase \in Ticking
  BY DEF CpuTick, Ticking
<1>2. \A q \in Procs : Untouched(before[q], pcb[q])
  BY <1>1 DEF TickInv, UntilCpu
<1>3. \A q \in Procs : /\ before[q].cpuExecuted \in Int /\ pcb[q].cpuExecuted \in Int
                       /\ pcb[q].state \in States /\ q # NULL
  BY <1>1, SnapshotTypes DEF TickInv
<1>0. PICK x \in Procs \cup {NULL} : x = running
  BY DEF TypeOK
<1>4. Procs' = Procs /\ HasExecuted(x)'
  <2>1. CASE running = NULL
    <3>1. pcb' = pcb /\ ReadyQ = <<>>
      BY <1>1, <2>1 DEF CpuTick, TickInv, UntilCpu
    <3>2. ASSUME NEW q \in Procs, pcb[q].state # "TERMINATED"
          PROVE  before[q].state = "WAITING"
      <4>1. pcb[q].state # "READY" /\ pcb[q].state # "RUNNING"
        BY <1>3, <2>1, <3>1 DEF Placement, PlacedByState, In
      <4> QED BY <1>2, <1>3, <3>2, <4>1 DEF States, Untouched
    <3>3. \A q \in Procs : Executed(q)' = 0 /\ q # x
      BY <1>0, <1>2, <1>3, <2>1, <3>1 DEF Executed, Untouched
    <3> QED BY <3>1, <3>2, <3>3 DEF HasExecuted, Procs
  <2>2. CASE running # NULL
    <3>1. x \in Procs /\ pcb' = [pcb EXCEPT ![x] = asExecuted(x)] /\ x # NULL
      BY <1>0, <2>2 DEF TypeOK, CpuTick, execute
    <3>2. /\ Procs' = Procs /\ pcb'[x] = asExecuted(x)
          /\ \A q \in Procs : q # x => pcb'[q] = pcb[q]
      BY <3>1, OneUpdate
    <3>3. pcb'[x].cpuExecuted = pcb[x].cpuExecuted + 1
      BY <3>1, <3>2, ExecutedFields
    <3>4. \A q \in Procs : Executed(q)' = IF q = x THEN 1 ELSE 0
      BY <1>2, <1>3, <3>1, <3>2, <3>3 DEF Executed, Untouched
    <3> QED BY <3>1, <3>2, <3>4 DEF HasExecuted
  <2> QED BY <2>1, <2>2
<1>5. \A q \in Procs : PassedBy(q)'
  BY CpuTickOwes
<1>6. BeganLive'
  BY <1>1, <1>4, BeganKept DEF TickInv
<1> QED BY <1>1, <1>4, <1>5, <1>6 DEF TickInv, UntilCpu, SinceCpu

\* A visit serves the process under the cursor, which then is owed nothing more;
\* the others are owed what they were, also when that one is unlinked.
LEMMA IoVisitOwes ==
    ASSUME TypeOK, Placement, IoVisit, NEW q \in Procs
    PROVE  Awaits(q)' <=> (Awaits(q) /\ q # WaitingQ[cursor])
<1> DEFINE p == WaitingQ[cursor]
<1>0. PICK n : n = Len(WaitingQ)
  OBVIOUS
<1>1. /\ cursor \in 1 .. n /\ DOMAIN WaitingQ = 1 .. n /\ n \in Nat /\ cursor \in Nat
  BY <1>0, LenProperties DEF TypeOK, IoVisit
<1>2. \A k \in 1 .. n : WaitingQ[k] = p <=> k = cursor
  BY <1>1 DEF Placement, NoRepeats
<1>3. /\ WaitingQ' = IF ioEnds(p) THEN removeNode(WaitingQ, p) ELSE WaitingQ
      /\ cursor' = IF ioEnds(p) THEN cursor ELSE cursor + 1
  BY DEF IoVisit, afterVisit
<1>4. In(WaitingQ, p)
  BY <1>1 DEF In
<1> HIDE DEF p
<1>5. Awaits(q) <=> \E i \in 1 .. n : i >= cursor /\ WaitingQ[i] = q
  BY <1>1 DEF Awaits
<1>6. (Awaits(q) /\ q # p) <=> \E i \in 1 .. n : i > cursor /\ WaitingQ[i] = q
  BY <1>1, <1>2, <1>5
<1>7. CASE ioEnds(p)
  <2>1. WaitingQ' = removeNode(WaitingQ, p) /\ cursor' = cursor
    BY <1>3, <1>7
  <2>2. DOMAIN WaitingQ' = 1 .. n - 1
    BY <1>0, <1>4, <2>1, UnlinkedAt
  <2>3. \A i \in 1 .. n - 1 :
          WaitingQ'[i] = IF i < cursor THEN WaitingQ[i] ELSE WaitingQ[i + 1]
    BY <1>0, <1>2, <1>4, <2>1, UnlinkedAt
  <2>4. Awaits(q)' <=> \E i \in 1 .. n - 1 : i >= cursor /\ WaitingQ[i + 1] = q
    <3>1. Awaits(q)' <=> \E i \in 1 .. n - 1 : i >= cursor /\ WaitingQ'[i] = q
      BY <2>1, <2>2 DEF Awaits
    <3>2. \A i \in 1 .. n - 1 : i >= cursor => WaitingQ'[i] = WaitingQ[i + 1]
      BY <1>1, <2>3
    <3> QED BY <3>1, <3>2
  <2>5. ASSUME NEW i \in 1 .. n, i > cursor, WaitingQ[i] = q PROVE Awaits(q)'
    <3>1. i - 1 \in 1 .. n - 1 /\ i - 1 >= cursor /\ WaitingQ[(i - 1) + 1] = q
      BY <1>1, <2>5
    <3> QED BY <2>4, <3>1
  <2>6. ASSUME NEW i \in 1 .. n - 1, i >= cursor, WaitingQ[i + 1] = q
        PROVE  Awaits(q) /\ q # p
    <3>1. i + 1 \in 1 .. n /\ i + 1 > cursor
      BY <1>1, <2>6
    <3> QED BY <1>6, <2>6, <3>1
  <2> QED BY <1>6, <2>4, <2>5, <2>6 DEF p
<1>8. CASE ~ioEnds(p)
  <2>1. Awaits(q)' <=> \E i \in 1 .. n : i >= cursor + 1 /\ WaitingQ[i] = q
    BY <1>1, <1>3, <1>8 DEF Awaits
  <2>2. \A i \in 1 .. n : i >= cursor + 1 <=> i > cursor
    BY <1>1
  <2> QED BY <1>6, <2>1, <2>2 DEF p
<1> QED BY <1>7, <1>8

LEMMA IoVisitTick ==
    ASSUME TypeOK, Placement, TickInv, IoVisit, before' = before
    PROVE  TickInv'
<1> DEFINE p == WaitingQ[cursor]
<1>1. /\ phase = "io" /\ phase' = "io" /\ phase \in Ticking
      /\ cursor \in DOMAIN WaitingQ /\ cursor \in Nat
      /\ pcb' = [pcb EXCEPT ![p] = asVisited(p)]
  BY LenProperties DEF TypeOK, IoVisit, Ticking
<1>2. p \in Procs /\ In(WaitingQ, p) /\ Awaits(p)
  BY <1>1, WaiterProps DEF Awaits
<1>3. \A q \in Procs : Awaits(q)' <=> (Awaits(q) /\ q # p)
  BY IoVisitOwes
<1> HIDE DEF p
<1>4. /\ Procs' = Procs /\ pcb'[p] = asVisited(p)
      /\ \A q \in Procs : q # p => pcb'[q] = pcb[q]
  BY <1>1, <1>2, OneUpdate
<1>5. /\ pcb'[p].killedFlag = pcb[p].killedFlag
      /\ pcb'[p].cpuExecuted = pcb[p].cpuExecuted
      /\ pcb'[p].cpuRemaining = pcb[p].cpuRemaining
      /\ pcb'[p].ioStart = pcb[p].ioStart
      /\ pcb'[p].ioRemaining = ioLeft(p)
  BY <1>2, <1>4, VisitedFields DEF SameLine
<1>6. pcb[p].state = "WAITING"
  BY <1>2 DEF Placement, PlacedByState
<1>7. \A q \in Procs : Executed(q)' = Executed(q) /\ (InIo(q)' <=> InIo(q))
  BY <1>4, <1>5 DEF Executed, InIo, WaitsOn, BeginsIo
<1>8. PICK x \in Procs \cup {NULL} : HasExecuted(x)
  BY <1>1 DEF TickInv, SinceCpu
<1>9. HasExecuted(x)'
  <2>1. ASSUME NEW q \in Procs, pcb'[q].state # "TERMINATED"
        PROVE  pcb[q].state # "TERMINATED"
    BY <1>4, <1>6, <2>1
  <2> QED BY <1>4, <1>7, <1>8, <2>1 DEF HasExecuted
<1>10. ASSUME NEW q \in Procs PROVE PassedBy(q)'
  <2>1. PassedBy(q)
    BY <1>1 DEF TickInv, SinceCpu
  <2>2. CASE q # p
    BY <1>3, <1>4, <1>7, <2>1, <2>2 DEF PassedBy, IoTicks
  <2>3. CASE q = p
    <3>1. InIo(q) /\ IoTicks(q) = 0
      BY <1>2, <2>1, <2>3 DEF PassedBy
    <3>2. before[q].ioRemaining \in Int /\ pcb[q].ioRemaining \in Int
      BY <1>1, SnapshotTypes DEF TickInv
    <3>3. before[q].ioRemaining = pcb[q].ioRemaining
      BY <3>1, <3>2 DEF IoTicks
    <3>4. IoTicks(q)' = before[q].ioRemaining - ioLeft(q)
      BY <1>5, <2>3 DEF IoTicks
    <3>5. IoTicks(q)' = IF before[q].ioRemaining > 0 THEN 1 ELSE 0
      BY <1>6, <2>3, <3>2, <3>3, <3>4 DEF ioLeft
    <3>6. InIo(q)' /\ ~Awaits(q)'
      BY <1>3, <1>7, <2>3, <3>1
    <3> QED BY <3>5, <3>6 DEF PassedBy
  <2> QED BY <2>2, <2>3
<1> QED BY <1>1, <1>4, <1>8, <1>9, <1>10, BeganKept DEF TickInv, UntilCpu, SinceCpu

LEMMA StepTick ==
    ASSUME TypeOK, Placement, AccountInv, TickInv, TickNext
    PROVE  TickInv'
<1>1. /\ Next
      /\ before' = IF phase # "kill" /\ phase' = "kill" THEN pcb' ELSE before
  BY DEF TickNext
<1>2. CASE (\E d \in Descriptors : ReadProcess(d)) \/ (\E k \in KillLines : ReadKill(k))
  BY <1>2 DEF ReadProcess, ReadKill, TickInv, BeganLive, UntilCpu, SinceCpu, Ticking
<1>3. CASE EndOfInput \/ EndTick
  <2>1. /\ phase # "kill" /\ pcb' = pcb
        /\ phase' = loopTest(terminatedProcessCount, totalProcess)
    BY <1>3 DEF EndOfInput, EndTick
  <2>2. CASE terminatedProcessCount < totalProcess
    BY <1>1, <2>1, <2>2, TickBegins DEF loopTest
  <2>3. CASE ~(terminatedProcessCount < totalProcess)
    BY <2>1, <2>3 DEF loopTest, TickInv, BeganLive, UntilCpu, SinceCpu, Ticking
  <2> QED BY <2>2, <2>3
<1>4. CASE KillStep
  <2>1. before' = before
    BY <1>1, <1>4 DEF KillStep
  <2> QED BY <1>4, <2>1, KillStepTick
<1>5. CASE KillsDone
  <2>1. /\ before' = before /\ phase = "kill" /\ phase' = "dispatch" /\ pcb' = pcb
    BY <1>1, <1>5 DEF KillsDone
  <2> QED BY <2>1, BeganKept DEF TickInv, UntilCpu, SinceCpu, Procs, Ticking
<1>6. CASE Dispatch
  <2>1. before' = before
    BY <1>1, <1>6 DEF Dispatch
  <2> QED BY <1>6, <2>1, DispatchTick
<1>7. CASE CpuTick
  <2>1. before' = before
    BY <1>1, <1>7 DEF CpuTick
  <2> QED BY <1>7, <2>1, CpuTickTick
<1>8. CASE IoVisit
  <2>1. before' = before
    BY <1>1, <1>8 DEF IoVisit
  <2> QED BY <1>8, <2>1, IoVisitTick
<1>9. CASE print_results \/ freeMemory
  BY <1>9 DEF print_results, freeMemory, TickInv, BeganLive, UntilCpu, SinceCpu, Ticking
<1> QED BY <1>1, <1>2, <1>3, <1>4, <1>5, <1>6, <1>7, <1>8, <1>9 DEF Next

\* At the end of the pass nobody is owed anything any more.
LEMMA TickOver ==
    ASSUME TypeOK, TickInv
    PROVE  NoWastedTick
<1> SUFFICES ASSUME phase = "io", cursor > Len(WaitingQ) PROVE NoWastedTick
  BY DEF NoWastedTick
<1>1. PICK x \in Procs \cup {NULL} : HasExecuted(x)
  BY DEF TickInv, SinceCpu
<1>2. \A p \in Procs : ~Awaits(p) /\ PassedBy(p)
  BY WaiterProps DEF Awaits, TickInv, SinceCpu
<1>3. \A p \in Procs : p # NULL
  BY TableProps DEF TypeOK
<1>4. \E p \in Procs : before[p].state # "TERMINATED"
  BY DEF TickInv, BeganLive, Ticking
<1>5. \A p \in Procs :
        IoTicks(p) = IF before[p].ioRemaining > 0 /\ (WaitsOn(p) \/ BeginsIo(p))
                     THEN 1 ELSE 0
  BY <1>2 DEF PassedBy, InIo
<1>6. /\ \A p \in Procs : Executed(p) \in {0, 1}
      /\ \A p, q \in Procs : Executed(p) > 0 /\ Executed(q) > 0 => p = q
  BY <1>1 DEF HasExecuted
<1>7. (\A p \in Procs : Executed(p) = 0) =>
        \A p \in Procs : pcb[p].state # "TERMINATED" => before[p].state = "WAITING"
  BY <1>1 DEF HasExecuted
<1> QED BY <1>4, <1>5, <1>6, <1>7 DEF NoWastedTick

\* In every tick of every run one process at most executes, exactly those in I/O
\* are served, and the CPU is idle only if all that live were waiting.
THEOREM WorkCorrect == TickSpec => []NoWastedTick
<1>1. TickInit => TickInv
  BY DEF TickInit, Init, TickInv, BeganLive, UntilCpu, SinceCpu, Ticking
<1>2. TypeOK /\ Placement /\ AccountInv /\ TickInv /\ [TickNext]_<<vars, before>>
        => TickInv'
  <2> SUFFICES ASSUME TypeOK, Placement, AccountInv, TickInv, [TickNext]_<<vars, before>>
               PROVE  TickInv'
    OBVIOUS
  <2>1. CASE UNCHANGED <<vars, before>>
    BY <2>1 DEF vars, queueVars, TickInv, BeganLive, UntilCpu, SinceCpu, HasExecuted,
                PassedBy, Awaits, InIo, WaitsOn, BeginsIo, Executed, IoTicks, Procs
  <2> QED BY <2>1, StepTick
<1>3. TypeOK /\ TickInv => NoWastedTick
  BY TickOver
<1>4. TickSpec => Spec
  <2>1. TickInit => Init
    BY DEF TickInit
  <2>2. [TickNext]_<<vars, before>> => [Next]_vars
    BY DEF TickNext
  <2> QED BY <2>1, <2>2, PTL DEF TickSpec, Spec
<1> QED BY <1>1, <1>2, <1>3, <1>4, TypeCorrect, PlacementCorrect, AccountCorrect,
           PTL DEF TickSpec

=============================================================================
