----------------------------- MODULE PointerProofs -----------------------------
(* That the linked queues of src/fcfs_implementation.c, whose functions work on *)
(* front, rear and one link per process, are the sequences the scheduler model *)
(* takes them for, for every number of processes.                              *)
EXTENDS FcfsPointerQueue, ProofBasics

-----------------------------------------------------------------------------
(* One queue.                                                                *)

at(s, i) == nodeAt(s, i, NULL)

Heap == [front : [QueueNames -> Pointers], rear : [QueueNames -> Pointers],
         nextQueue : [Processes -> Pointers]]

\* The sequences that a queue's pointers stand for.
Chains(h, q) ==
    {s \in Seq(Processes) :
        /\ Different(s)
        /\ h.front[q] = at(s, 1)
        /\ h.rear[q] = at(s, Len(s))
        /\ \A i \in 1 .. Len(s) : h.nextQueue[s[i]] = at(s, i + 1)}

LEMMA HeapFields ==
    ASSUME NEW h \in Heap
    PROVE  /\ h.front \in [QueueNames -> Pointers] /\ h.rear \in [QueueNames -> Pointers]
           /\ h.nextQueue \in [Processes -> Pointers]
           /\ h = [front |-> h.front, rear |-> h.rear, nextQueue |-> h.nextQueue]
BY DEF Heap

LEMMA Places ==
    ASSUME NEW s \in Seq(Processes)
    PROVE  /\ Len(s) \in Nat /\ DOMAIN s = 1 .. Len(s)
           /\ \A i \in Int : at(s, i) \in Pointers
           /\ \A i \in 1 .. Len(s) : at(s, i) = s[i] /\ s[i] \in Processes /\ s[i] # NULL
           /\ \A i \in Int : i \notin 1 .. Len(s) => at(s, i) = NULL
           /\ ToSet(s) = {s[i] : i \in 1 .. Len(s)}
<1>1. /\ Len(s) \in Nat /\ DOMAIN s = 1 .. Len(s)
      /\ \A i \in 1 .. Len(s) : s[i] \in Processes
  BY LenProperties, ElementOfSeq
<1> QED BY <1>1, PointerAssumption DEF at, nodeAt, Pointers, ToSet

\* Walking a queue finds its sequence.
LEMMA LinkedIsChain ==
    ASSUME NEW h \in Heap, NEW q \in QueueNames, NEW s \in Chains(h, q)
    PROVE  linked(h, h.front[q]) = s
<1> DEFINE L == h.nextQueue
           K == Cardinality(Processes)
           p == h.front[q]
           f == CHOOSE F : F = walkOf(Processes, NULL, L, F)
<1>1. L \in [Processes -> Processes \cup {NULL}] /\ NULL \notin Processes
  BY HeapFields, PointerAssumption DEF Pointers
<1>2. linked(h, p) = f[K][p]
  BY DEF linked, Pointers, walkOf
<1>3. s \in chainsFrom(Processes, NULL, L, p)
  BY DEF Chains, chainsFrom, at
<1>4. K \in Nat /\ Len(s) <= K
  BY PointerAssumption, NotTooLong DEF Chains
<1> HIDE DEF L, K, p
<1>5. f = walkOf(Processes, NULL, L, f)
  <2>1. \E F : F = walkOf(Processes, NULL, L, F)
    BY <1>1, WalkExists
  <2> QED BY <2>1
<1> HIDE DEF f
<1>6. f[K][p] = s
  BY <1>1, <1>3, <1>4, <1>5, WalkFinds
<1> QED BY <1>2, <1>6 DEF p

-----------------------------------------------------------------------------
(* What the queue functions do to the pointers.                              *)

LEMMA EnqueueFields ==
    ASSUME NEW h \in Heap, NEW q \in QueueNames, NEW p \in Processes
    PROVE  LET g == enqueue(h, q, p)
           IN  /\ g \in Heap
               /\ g.front = [h.front EXCEPT ![q] = IF h.front[q] = NULL THEN p
                                                   ELSE h.front[q]]
               /\ g.rear = [h.rear EXCEPT ![q] = p]
               /\ \A x \in Processes :
                    g.nextQueue[x] = IF h.front[q] # NULL /\ x = h.rear[q] THEN p
                                     ELSE IF x = p THEN NULL ELSE h.nextQueue[x]
<1> DEFINE g == enqueue(h, q, p)
           L == h.nextQueue
<1>1. /\ h.front \in [QueueNames -> Pointers] /\ h.rear \in [QueueNames -> Pointers]
      /\ L \in [Processes -> Pointers] /\ p \in Pointers /\ NULL \in Pointers
      /\ h.front[q] \in Pointers
  BY HeapFields DEF Pointers
<1>2. CASE h.front[q] = NULL
  <2> DEFINE new == [L EXCEPT ![p] = NULL]
  <2>1. g = [h EXCEPT !.nextQueue = new, !.front = [h.front EXCEPT ![q] = p],
                      !.rear = [h.rear EXCEPT ![q] = p]]
    BY <1>2 DEF enqueue
  <2>2. new \in [Processes -> Pointers]
        /\ \A x \in Processes : new[x] = IF x = p THEN NULL ELSE L[x]
    BY <1>1
  <2>3. /\ [h.front EXCEPT ![q] = p] \in [QueueNames -> Pointers]
        /\ [h.rear EXCEPT ![q] = p] \in [QueueNames -> Pointers]
    BY <1>1
  <2> HIDE DEF new, g
  <2>4. /\ g \in Heap /\ g.nextQueue = new
        /\ g.front = [h.front EXCEPT ![q] = p] /\ g.rear = [h.rear EXCEPT ![q] = p]
    BY <1>1, <2>1, <2>2, <2>3 DEF Heap
  <2> QED BY <1>2, <2>2, <2>4 DEF g
<1>3. CASE h.front[q] # NULL
  <2> DEFINE new == [L EXCEPT ![p] = NULL, ![h.rear[q]] = p]
  <2>1. g = [h EXCEPT !.nextQueue = new, !.rear = [h.rear EXCEPT ![q] = p]]
    BY <1>3 DEF enqueue
  <2>2. new \in [Processes -> Pointers]
        /\ \A x \in Processes : new[x] = IF x = h.rear[q] THEN p
                                         ELSE IF x = p THEN NULL ELSE L[x]
    BY <1>1
  <2>3. /\ [h.rear EXCEPT ![q] = p] \in [QueueNames -> Pointers]
        /\ [h.front EXCEPT ![q] = h.front[q]] = h.front
    BY <1>1
  <2> HIDE DEF new, g
  <2>4. /\ g \in Heap /\ g.nextQueue = new
        /\ g.front = h.front /\ g.rear = [h.rear EXCEPT ![q] = p]
    BY <1>1, <2>1, <2>2, <2>3 DEF Heap
  <2> QED BY <1>3, <2>2, <2>3, <2>4 DEF g
<1> QED BY <1>2, <1>3

\* Taking out number j of a queue: its neighbours are linked with each other.
LEMMA RemoveFields ==
    ASSUME NEW h \in Heap, NEW q \in QueueNames, NEW s \in Chains(h, q),
           NEW j \in 1 .. Len(s)
    PROVE  LET g == removeNode(h, q, s[j])
           IN  /\ g \in Heap
               /\ g.front = [h.front EXCEPT ![q] = IF j = 1 THEN at(s, 2) ELSE h.front[q]]
               /\ g.rear = [h.rear EXCEPT ![q] = IF j = Len(s) THEN at(s, j - 1)
                                                 ELSE h.rear[q]]
               /\ \A x \in Processes :
                    g.nextQueue[x] = IF x = s[j] THEN NULL
                                     ELSE IF x = at(s, j - 1) THEN at(s, j + 1)
                                     ELSE h.nextQueue[x]
<1> DEFINE p == s[j]
           g == removeNode(h, q, p)
           L == h.nextQueue
<1>0. /\ s \in Seq(Processes) /\ Different(s)
      /\ h.front[q] = at(s, 1) /\ h.rear[q] = at(s, Len(s))
      /\ \A i \in 1 .. Len(s) : L[s[i]] = at(s, i + 1)
  BY DEF Chains
<1>1. /\ h.front \in [QueueNames -> Pointers] /\ h.rear \in [QueueNames -> Pointers]
      /\ L \in [Processes -> Pointers] /\ NULL \in Pointers
  BY HeapFields DEF Pointers
<1>2. /\ Len(s) \in Nat /\ DOMAIN s = 1 .. Len(s) /\ p \in Processes /\ p # NULL
      /\ \A i \in Int : at(s, i) \in Pointers
      /\ \A i \in 1 .. Len(s) : at(s, i) = s[i] /\ s[i] \in Processes /\ s[i] # NULL
      /\ \A i \in Int : i \notin 1 .. Len(s) => at(s, i) = NULL
  BY <1>0, Places
<1>3. \A i \in 1 .. Len(s) : s[i] = p => i = j
  BY <1>0 DEF Different
<1>4. L[p] = at(s, j + 1) /\ at(s, j + 1) \in Pointers /\ at(s, j - 1) \in Pointers
  BY <1>0, <1>2
<1> HIDE DEF at
<1>5. CASE j = 1
  <2>1. h.front[q] = p /\ h.front[q] # NULL /\ at(s, j - 1) = NULL /\ L[p] = at(s, 2)
    BY <1>0, <1>2, <1>4, <1>5
  <2>2. g = dequeue(h, q)
    BY <2>1 DEF removeNode
  <2> DEFINE new == [L EXCEPT ![p] = NULL]
             last == IF L[p] = NULL THEN NULL ELSE h.rear[q]
  <2>3. dequeue(h, q) =
          [h EXCEPT !.front = [h.front EXCEPT ![q] = L[p]],
                    !.rear = [h.rear EXCEPT ![q] = last], !.nextQueue = new]
    BY <2>1 DEF dequeue
  <2>4. /\ new \in [Processes -> Pointers]
        /\ \A x \in Processes : new[x] = IF x = p THEN NULL ELSE L[x]
    BY <1>1
  <2>5. last = IF j = Len(s) THEN at(s, j - 1) ELSE h.rear[q]
    BY <1>2, <1>5, <2>1
  <2>6. last \in Pointers /\ h.rear[q] \in Pointers
    BY <1>1
  <2>7. /\ [h.front EXCEPT ![q] = L[p]] \in [QueueNames -> Pointers]
        /\ [h.rear EXCEPT ![q] = last] \in [QueueNames -> Pointers]
    BY <1>1, <1>4, <2>6
  <2> HIDE DEF new, last, g, p
  <2>8. /\ g \in Heap /\ g.nextQueue = new
        /\ g.front = [h.front EXCEPT ![q] = L[p]] /\ g.rear = [h.rear EXCEPT ![q] = last]
    BY <1>1, <2>2, <2>3, <2>4, <2>7 DEF Heap
  <2>9. \A x \in Processes : x # NULL
    BY PointerAssumption
  <2> QED BY <1>5, <2>1, <2>2, <2>4, <2>5, <2>8, <2>9 DEF g, p
<1>6. CASE j # 1
  <2> DEFINE preds == {i \in DOMAIN s : L[s[i]] = p}
             curr == s[j - 1]
             new == [L EXCEPT ![curr] = L[p], ![p] = NULL]
             last == IF h.rear[q] = p THEN curr ELSE h.rear[q]
  <2>1. /\ j - 1 \in 1 .. Len(s) /\ (j - 1) + 1 = j /\ j - 1 # j
        /\ curr \in Processes /\ curr # p /\ at(s, j - 1) = curr
    BY <1>2, <1>3, <1>6
  <2>2. h.front[q] # NULL /\ h.front[q] # p
    BY <1>0, <1>2, <1>3, <1>6
  <2>3. ASSUME NEW i \in 1 .. Len(s) PROVE L[s[i]] = p <=> i = j - 1
    <3>1. L[s[i]] = at(s, i + 1)
      BY <1>0
    <3>2. CASE i = Len(s)
      BY <1>2, <3>1, <3>2
    <3>3. CASE i # Len(s)
      <4>0. Len(s) \in Nat
        BY <1>2
      <4>1. i + 1 \in 1 .. Len(s)
        BY <3>3, <4>0
      <4>2. L[s[i]] = s[i + 1]
        BY <1>2, <3>1, <4>1
      <4>3. s[i + 1] = p <=> i + 1 = j
        BY <1>3, <4>1
      <4> QED BY <1>2, <4>2, <4>3
    <3> QED BY <3>2, <3>3
  <2>4. preds = {j - 1}
    BY <1>2, <2>1, <2>3
  <2>5. linked(h, h.front[q]) = s
    BY LinkedIsChain
  <2>6. g = unlink(h, q, curr, p)
    <3>1. (CHOOSE i \in {j - 1} : TRUE) = j - 1
      OBVIOUS
    <3>2. g = IF preds = {} THEN h ELSE unlink(h, q, s[CHOOSE i \in preds : TRUE], p)
      BY <2>2, <2>5 DEF removeNode
    <3> HIDE DEF g, preds
    <3> QED BY <2>4, <3>1, <3>2
  <2>7. unlink(h, q, curr, p) =
          [h EXCEPT !.nextQueue = new, !.rear = [h.rear EXCEPT ![q] = last]]
    BY DEF unlink
  <2>8. /\ new \in [Processes -> Pointers]
        /\ \A x \in Processes : new[x] = IF x = p THEN NULL
                                          ELSE IF x = curr THEN L[p] ELSE L[x]
    BY <1>1, <1>2, <1>4, <2>1
  <2>9. last = IF j = Len(s) THEN at(s, j - 1) ELSE h.rear[q]
    <3>1. Len(s) \in 1 .. Len(s) /\ h.rear[q] = s[Len(s)]
      BY <1>0, <1>2
    <3>2. s[Len(s)] = p <=> j = Len(s)
      BY <1>3, <3>1
    <3> QED BY <2>1, <3>1, <3>2
  <2>10. last \in Pointers
    BY <1>1, <1>4, <2>9
  <2>11. /\ [h.rear EXCEPT ![q] = last] \in [QueueNames -> Pointers]
         /\ [h.front EXCEPT ![q] = h.front[q]] = h.front
    BY <1>1, <2>10
  <2> HIDE DEF new, last, g, p, curr
  <2>12. /\ g \in Heap /\ g.nextQueue = new
         /\ g.front = h.front /\ g.rear = [h.rear EXCEPT ![q] = last]
    BY <1>1, <2>6, <2>7, <2>8, <2>11 DEF Heap
  <2> QED BY <1>4, <1>6, <2>1, <2>8, <2>9, <2>11, <2>12 DEF g, p
<1> QED BY <1>5, <1>6


\* Taking out the first one is what dequeue does.
LEMMA RemoveFront ==
    ASSUME NEW h \in Heap, NEW q \in QueueNames, NEW s \in Chains(h, q),
           1 \in 1 .. Len(s)
    PROVE  removeNode(h, q, s[1]) = dequeue(h, q)
<1>1. s \in Seq(Processes) /\ h.front[q] = at(s, 1)
  BY DEF Chains
<1>2. h.front[q] = s[1] /\ s[1] # NULL
  BY <1>1, Places
<1> QED BY <1>2 DEF removeNode

\* What enqueue makes of its queue.
LEMMA EnqueueChain ==
    ASSUME NEW h \in Heap, NEW q \in QueueNames, NEW s \in Chains(h, q),
           NEW p \in Processes, p \notin ToSet(s)
    PROVE  Append(s, p) \in Chains(enqueue(h, q, p), q)
<1> DEFINE g == enqueue(h, q, p)
           t == Append(s, p)
           n == Len(s)
<1>1. /\ s \in Seq(Processes)
      /\ \A i, k \in 1 .. n : s[i] = s[k] => i = k
      /\ h.front[q] = at(s, 1) /\ h.rear[q] = at(s, n)
      /\ \A i \in 1 .. n : h.nextQueue[s[i]] = at(s, i + 1)
  BY DEF Chains, Different
<1>2. /\ n \in Nat
      /\ \A i \in 1 .. n : at(s, i) = s[i] /\ s[i] \in Processes /\ s[i] # NULL
      /\ \A i \in Int : i \notin 1 .. n => at(s, i) = NULL
      /\ \A i \in 1 .. n : s[i] # p
  BY <1>1, Places
<1>3. /\ t \in Seq(Processes) /\ Len(t) = n + 1
      /\ \A i \in 1 .. n : t[i] = s[i]
      /\ t[n + 1] = p
  BY <1>1, AppendProperties
<1>4. /\ \A i \in 1 .. n + 1 : at(t, i) = t[i]
      /\ \A i \in Int : i \notin 1 .. n + 1 => at(t, i) = NULL
  BY <1>3, Places
<1>5. /\ g.front = [h.front EXCEPT ![q] = IF h.front[q] = NULL THEN p ELSE h.front[q]]
      /\ g.rear = [h.rear EXCEPT ![q] = p]
      /\ \A x \in Processes :
           g.nextQueue[x] = IF h.front[q] # NULL /\ x = h.rear[q] THEN p
                            ELSE IF x = p THEN NULL ELSE h.nextQueue[x]
  BY EnqueueFields
<1>6. /\ g.front[q] = IF h.front[q] = NULL THEN p ELSE h.front[q]
      /\ g.rear[q] = p
  BY <1>5, HeapFields
<1> HIDE DEF g, t, n, at
<1>7. h.front[q] = NULL <=> n = 0
  <2>1. CASE n = 0
    BY <1>1, <1>2, <2>1
  <2>2. CASE n # 0
    <3>1. 1 \in 1 .. n
      BY <1>2, <2>2
    <3> QED BY <1>1, <1>2, <2>2, <3>1
  <2> QED BY <2>1, <2>2
<1>8. Different(t)
  <2>1. ASSUME NEW i \in 1 .. n + 1, NEW k \in 1 .. n + 1, t[i] = t[k]
        PROVE  i = k
    <3>1. i \in 1 .. n \/ i = n + 1
      BY <1>2
    <3>2. k \in 1 .. n \/ k = n + 1
      BY <1>2
    <3> QED BY <1>1, <1>2, <1>3, <2>1, <3>1, <3>2
  <2> QED BY <1>3, <2>1 DEF Different
<1>9. g.front[q] = at(t, 1)
  <2>1. CASE n = 0
    <3>1. 1 \in 1 .. n + 1 /\ n + 1 = 1
      BY <2>1
    <3> QED BY <1>3, <1>4, <1>6, <1>7, <2>1, <3>1
  <2>2. CASE n # 0
    <3>1. 1 \in 1 .. n /\ 1 \in 1 .. n + 1
      BY <1>2, <2>2
    <3> QED BY <1>1, <1>2, <1>3, <1>4, <1>6, <1>7, <2>2, <3>1
  <2> QED BY <2>1, <2>2
<1>10. g.rear[q] = at(t, Len(t))
  <2>1. n + 1 \in 1 .. n + 1
    BY <1>2
  <2> QED BY <1>3, <1>4, <1>6, <2>1
<1>11. ASSUME NEW i \in 1 .. n + 1 PROVE g.nextQueue[t[i]] = at(t, i + 1)
  <2>1. CASE i = n + 1
    <3>1. i + 1 \in Int /\ i + 1 \notin 1 .. n + 1 /\ t[i] = p
      BY <1>2, <1>3, <2>1
    <3>2. ~(h.front[q] # NULL /\ p = h.rear[q])
      <4>1. CASE n = 0
        BY <1>7, <4>1
      <4>2. CASE n # 0
        <5>1. n \in 1 .. n
          BY <1>2, <4>2
        <5> QED BY <1>1, <1>2, <5>1
      <4> QED BY <4>1, <4>2
    <3> QED BY <1>4, <1>5, <3>1, <3>2
  <2>2. CASE i = n /\ i # n + 1
    <3>1. /\ i \in 1 .. n /\ n \in 1 .. n /\ i + 1 \in 1 .. n + 1 /\ i + 1 = n + 1
          /\ n # 0
      BY <1>2, <2>2
    <3>2. t[i] = h.rear[q] /\ t[i] \in Processes /\ h.front[q] # NULL
      BY <1>1, <1>2, <1>3, <1>7, <2>2, <3>1
    <3>3. at(t, i + 1) = p
      BY <1>3, <1>4, <3>1
    <3> QED BY <1>5, <3>2, <3>3
  <2>3. CASE i # n /\ i # n + 1
    <3>1. /\ i \in 1 .. n /\ n \in 1 .. n /\ i + 1 \in 1 .. n /\ i + 1 \in 1 .. n + 1
      BY <1>2, <2>3
    <3>2. t[i] = s[i] /\ s[i] \in Processes /\ s[i] # p
      BY <1>2, <1>3, <3>1
    <3>4. s[i] # h.rear[q]
      <4>1. h.rear[q] = s[n] /\ i # n
        BY <1>1, <1>2, <2>3, <3>1
      <4> QED BY <1>1, <3>1, <4>1
    <3>3. at(t, i + 1) = at(s, i + 1)
      BY <1>2, <1>3, <1>4, <3>1
    <3> QED BY <1>1, <1>5, <3>1, <3>2, <3>3, <3>4
  <2> QED BY <2>1, <2>2, <2>3
<1> QED BY <1>3, <1>8, <1>9, <1>10, <1>11 DEF Chains, g, t

\* The places of a queue that has lost its number j.
LEMMA CutPlaces ==
    ASSUME NEW s \in Seq(Processes), Different(s), NEW j \in 1 .. Len(s)
    PROVE  \A i \in Nat : at(RemoveAt(s, j), i) = IF i < j THEN at(s, i) ELSE at(s, i + 1)
<1> DEFINE r == RemoveAt(s, j)
<1>1. Len(s) \in Nat
  BY Places
<1>2. /\ Len(r) = Len(s) - 1
      /\ \A i \in 1 .. Len(s) - 1 : r[i] = IF i < j THEN s[i] ELSE s[i + 1]
  BY CutOut
<1> HIDE DEF r
<1> QED BY <1>1, <1>2 DEF at, nodeAt, r

\* What removeNode makes of its queue.
LEMMA RemoveChain ==
    ASSUME NEW h \in Heap, NEW q \in QueueNames, NEW s \in Chains(h, q),
           NEW j \in 1 .. Len(s)
    PROVE  RemoveAt(s, j) \in Chains(removeNode(h, q, s[j]), q)
<1> DEFINE g == removeNode(h, q, s[j])
           t == RemoveAt(s, j)
           n == Len(s)
<1>1. /\ s \in Seq(Processes) /\ Different(s)
      /\ \A i, k \in 1 .. n : s[i] = s[k] => i = k
      /\ h.front[q] = at(s, 1) /\ h.rear[q] = at(s, n)
      /\ \A i \in 1 .. n : h.nextQueue[s[i]] = at(s, i + 1)
  BY DEF Chains, Different
<1>2. /\ n \in Nat /\ j \in 1 .. n
      /\ \A i \in 1 .. n : at(s, i) = s[i] /\ s[i] \in Processes /\ s[i] # NULL
      /\ \A i \in Int : i \notin 1 .. n => at(s, i) = NULL
  BY <1>1, Places
<1>3. /\ t \in Seq(Processes) /\ Different(t) /\ Len(t) = n - 1
      /\ \A i \in 1 .. n - 1 : t[i] = IF i < j THEN s[i] ELSE s[i + 1]
  BY <1>1, CutOut
<1>4. \A i \in Nat : at(t, i) = IF i < j THEN at(s, i) ELSE at(s, i + 1)
  BY <1>1, CutPlaces
<1>5. /\ g \in Heap
      /\ g.front = [h.front EXCEPT ![q] = IF j = 1 THEN at(s, 2) ELSE h.front[q]]
      /\ g.rear = [h.rear EXCEPT ![q] = IF j = n THEN at(s, j - 1) ELSE h.rear[q]]
      /\ \A x \in Processes :
           g.nextQueue[x] = IF x = s[j] THEN NULL
                            ELSE IF x = at(s, j - 1) THEN at(s, j + 1)
                            ELSE h.nextQueue[x]
  BY RemoveFields
<1>6. /\ g.front[q] = IF j = 1 THEN at(s, 2) ELSE h.front[q]
      /\ g.rear[q] = IF j = n THEN at(s, j - 1) ELSE h.rear[q]
  BY <1>5, HeapFields
<1> HIDE DEF g, t, n, at
<1>7. g.front[q] = at(t, 1)
  <2>1. 1 \in Nat /\ (1 < j <=> j # 1) /\ 1 + 1 = 2
    BY <1>2
  <2> QED BY <1>1, <1>4, <1>6, <2>1
<1>8. g.rear[q] = at(t, Len(t))
  <2>1. n - 1 \in Nat /\ (n - 1) + 1 = n /\ (n - 1 < j <=> j = n)
    BY <1>2
  <2>2. at(t, n - 1) = IF n - 1 < j THEN at(s, n - 1) ELSE at(s, n)
    BY <1>4, <2>1
  <2> QED BY <1>1, <1>3, <1>6, <2>1, <2>2
<1>9. ASSUME NEW i \in 1 .. n - 1 PROVE g.nextQueue[t[i]] = at(t, i + 1)
  <2> DEFINE k == IF i < j THEN i ELSE i + 1
  <2>1. k \in 1 .. n /\ k # j /\ i \in Nat /\ i + 1 \in Nat
    BY <1>2
  <2>2. t[i] = s[k] /\ s[k] \in Processes /\ s[k] # s[j]
    BY <1>1, <1>2, <1>3, <2>1
  <2>3. at(t, i + 1) = IF i + 1 < j THEN at(s, i + 1) ELSE at(s, (i + 1) + 1)
    BY <1>4, <2>1
  <2>4. CASE i = j - 1
    <3>1. k = i /\ k = j - 1 /\ ~(i + 1 < j) /\ (i + 1) + 1 = j + 1 /\ j - 1 \in 1 .. n
      BY <1>2, <2>4
    <3>2. t[i] = at(s, j - 1)
      BY <1>2, <2>2, <3>1
    <3>3. g.nextQueue[t[i]] = at(s, j + 1)
      BY <1>5, <2>2, <3>2
    <3> QED BY <2>3, <3>1, <3>3
  <2>5. CASE i # j - 1
    <3>1. k # j - 1 /\ k + 1 = (IF i + 1 < j THEN i + 1 ELSE (i + 1) + 1)
      BY <1>2, <2>5
    <3>2. s[k] # at(s, j - 1)
      <4>1. CASE j - 1 \in 1 .. n
        BY <1>1, <1>2, <2>1, <3>1, <4>1
      <4>2. CASE j - 1 \notin 1 .. n
        <5>1. j - 1 \in Int
          BY <1>2
        <5> QED BY <1>2, <2>1, <4>2, <5>1
      <4> QED BY <4>1, <4>2
    <3>3. g.nextQueue[s[k]] = h.nextQueue[s[k]]
      BY <1>5, <2>2, <3>2
    <3>4. h.nextQueue[s[k]] = at(s, k + 1)
      BY <1>1, <2>1
    <3>5. at(t, i + 1) = at(s, k + 1)
      BY <2>3, <3>1
    <3> QED BY <2>2, <3>3, <3>4, <3>5
  <2> QED BY <2>4, <2>5
<1> QED BY <1>3, <1>7, <1>8, <1>9 DEF Chains, g, t

\* A queue whose pointers nothing touches.
LEMMA OtherChain ==
    ASSUME NEW h, NEW g, NEW q \in QueueNames, NEW s \in Chains(h, q),
           g.front[q] = h.front[q], g.rear[q] = h.rear[q],
           \A x \in ToSet(s) : g.nextQueue[x] = h.nextQueue[x]
    PROVE  s \in Chains(g, q)
<1>1. s \in Seq(Processes)
  BY DEF Chains
<1>2. \A i \in 1 .. Len(s) : s[i] \in ToSet(s)
  BY <1>1, Places
<1> QED BY <1>2 DEF Chains

-----------------------------------------------------------------------------
(* The three queues, which share the links.                                  *)

\* The sequences that the pointers of all queues stand for: a process is in one of
\* them at most.
Shows(h) ==
    {qs \in [QueueNames -> Seq(Processes)] :
        /\ \A q \in QueueNames : qs[q] \in Chains(h, q)
        /\ \A q, r \in QueueNames : q # r => ToSet(qs[q]) \cap ToSet(qs[r]) = {}}

\* Walking the queues finds these sequences and no others.
LEMMA ShownIs ==
    ASSUME NEW h \in Heap, NEW qs \in Shows(h)
    PROVE  [q \in QueueNames |-> linked(h, h.front[q])] = qs
<1>1. qs \in [QueueNames -> Seq(Processes)] /\ \A q \in QueueNames : qs[q] \in Chains(h, q)
  BY DEF Shows
<1>2. \A q \in QueueNames : linked(h, h.front[q]) = qs[q]
  BY <1>1, LinkedIsChain
<1> QED BY <1>1, <1>2

\* A process that is in no queue goes to the end of one.
LEMMA EnqueueShows ==
    ASSUME NEW h \in Heap, NEW qs \in Shows(h), NEW q \in QueueNames, NEW p \in Processes,
           \A r \in QueueNames : p \notin ToSet(qs[r])
    PROVE  /\ enqueue(h, q, p) \in Heap
           /\ [qs EXCEPT ![q] = Append(qs[q], p)] \in Shows(enqueue(h, q, p))
<1> DEFINE g == enqueue(h, q, p)
           t == Append(qs[q], p)
           ts == [qs EXCEPT ![q] = t]
<1>1. /\ qs \in [QueueNames -> Seq(Processes)]
      /\ \A r \in QueueNames : qs[r] \in Chains(h, r)
      /\ \A r, u \in QueueNames : r # u => ToSet(qs[r]) \cap ToSet(qs[u]) = {}
  BY DEF Shows
<1>2. /\ g \in Heap
      /\ g.front = [h.front EXCEPT ![q] = IF h.front[q] = NULL THEN p ELSE h.front[q]]
      /\ g.rear = [h.rear EXCEPT ![q] = p]
      /\ \A x \in Processes :
           g.nextQueue[x] = IF h.front[q] # NULL /\ x = h.rear[q] THEN p
                            ELSE IF x = p THEN NULL ELSE h.nextQueue[x]
  BY EnqueueFields
<1>3. t \in Chains(g, q)
  <2>1. qs[q] \in Chains(h, q) /\ p \notin ToSet(qs[q])
    BY <1>1
  <2> QED BY <2>1, EnqueueChain
<1>4. t \in Seq(Processes) /\ ToSet(t) = ToSet(qs[q]) \cup {p}
  <2> DEFINE s == qs[q]
             n == Len(s)
  <2>1. s \in Seq(Processes)
    BY <1>1
  <2> HIDE DEF s
  <2>2. n \in Nat /\ ToSet(s) = {s[i] : i \in 1 .. n}
    BY <2>1, Places
  <2>3. /\ t \in Seq(Processes) /\ Len(t) = n + 1
        /\ \A i \in 1 .. n : t[i] = s[i]
        /\ t[n + 1] = p
    BY <2>1, AppendProperties DEF s
  <2>4. ToSet(t) = {t[i] : i \in 1 .. n + 1}
    BY <2>3, Places
  <2> HIDE DEF t, n
  <2>5. ASSUME NEW x \in ToSet(t) PROVE x \in ToSet(s) \cup {p}
    <3>1. PICK i \in 1 .. n + 1 : x = t[i]
      BY <2>4
    <3>2. i \in 1 .. n \/ i = n + 1
      BY <2>2
    <3> QED BY <2>2, <2>3, <3>1, <3>2
  <2>6. ASSUME NEW x \in ToSet(s) \cup {p} PROVE x \in ToSet(t)
    <3>1. CASE x = p
      <4>1. n + 1 \in 1 .. n + 1
        BY <2>2
      <4> QED BY <2>3, <2>4, <3>1, <4>1
    <3>2. CASE x # p
      <4>1. PICK i \in 1 .. n : x = s[i]
        BY <2>2, <3>2
      <4>2. i \in 1 .. n + 1 /\ x = t[i]
        BY <2>2, <2>3, <4>1
      <4> QED BY <2>4, <4>2
    <3> QED BY <3>1, <3>2
  <2> QED BY <2>3, <2>5, <2>6 DEF s
<1> HIDE DEF g, t
<1>5. /\ ts \in [QueueNames -> Seq(Processes)] /\ ts[q] = t
      /\ \A r \in QueueNames : r # q => ts[r] = qs[r]
  BY <1>1, <1>4
<1>6. ASSUME NEW r \in QueueNames, r # q PROVE qs[r] \in Chains(g, r)
  <2>1. g.front[r] = h.front[r] /\ g.rear[r] = h.rear[r]
    BY <1>2, <1>6, HeapFields
  <2>2. ASSUME NEW x \in ToSet(qs[r]) PROVE g.nextQueue[x] = h.nextQueue[x]
    <3>1. x \in Processes
      <4>1. qs[r] \in Seq(Processes)
        BY <1>1
      <4> QED BY <4>1, Places
    <3>2. x # p /\ x \notin ToSet(qs[q])
      BY <1>1, <1>6
    <3>3. h.front[q] # NULL => h.rear[q] \in ToSet(qs[q])
      <4> DEFINE s == qs[q]
                 n == Len(s)
      <4>1. s \in Seq(Processes) /\ h.front[q] = at(s, 1) /\ h.rear[q] = at(s, n)
        BY <1>1 DEF Chains
      <4> HIDE DEF s
      <4>2. /\ n \in Nat /\ ToSet(s) = {s[i] : i \in 1 .. n}
            /\ \A i \in 1 .. n : at(s, i) = s[i]
            /\ \A i \in Int : i \notin 1 .. n => at(s, i) = NULL
        BY <4>1, Places
      <4> HIDE DEF n
      <4>3. n # 0 => n \in 1 .. n
        BY <4>2
      <4>4. n = 0 => at(s, 1) = NULL
        BY <4>2
      <4> QED BY <4>1, <4>2, <4>3, <4>4 DEF s
    <3> QED BY <1>2, <3>1, <3>2, <3>3
  <2>3. qs[r] \in Chains(h, r)
    BY <1>1
  <2> QED BY <2>1, <2>2, <2>3, OtherChain
<1>7. \A r \in QueueNames : ts[r] \in Chains(g, r)
  BY <1>3, <1>5, <1>6
<1>8. ASSUME NEW r \in QueueNames, NEW u \in QueueNames, r # u
      PROVE  ToSet(ts[r]) \cap ToSet(ts[u]) = {}
  <2>1. ToSet(qs[r]) \cap ToSet(qs[u]) = {} /\ p \notin ToSet(qs[r]) /\ p \notin ToSet(qs[u])
    BY <1>1, <1>8
  <2>2. /\ ToSet(ts[r]) = IF r = q THEN ToSet(qs[r]) \cup {p} ELSE ToSet(qs[r])
        /\ ToSet(ts[u]) = IF u = q THEN ToSet(qs[u]) \cup {p} ELSE ToSet(qs[u])
    BY <1>4, <1>5
  <2> QED BY <1>8, <2>1, <2>2
<1> HIDE DEF ts
<1> QED BY <1>2, <1>5, <1>7, <1>8 DEF Shows, g, t, ts

\* A process that is in a queue is taken out of it; then it is in none.
LEMMA RemoveShows ==
    ASSUME NEW h \in Heap, NEW qs \in Shows(h), NEW q \in QueueNames,
           NEW j \in 1 .. Len(qs[q])
    PROVE  LET g  == removeNode(h, q, qs[q][j])
               ts == [qs EXCEPT ![q] = RemoveAt(qs[q], j)]
           IN  /\ g \in Heap /\ ts \in Shows(g)
               /\ \A r \in QueueNames : qs[q][j] \notin ToSet(ts[r])
<1> DEFINE s == qs[q]
           p == s[j]
           g == removeNode(h, q, p)
           t == RemoveAt(s, j)
           ts == [qs EXCEPT ![q] = t]
<1>1. /\ qs \in [QueueNames -> Seq(Processes)]
      /\ \A r \in QueueNames : qs[r] \in Chains(h, r)
      /\ \A r, u \in QueueNames : r # u => ToSet(qs[r]) \cap ToSet(qs[u]) = {}
  BY DEF Shows
<1>2. s \in Seq(Processes) /\ Different(s) /\ s \in Chains(h, q) /\ j \in 1 .. Len(s)
  BY <1>1 DEF Chains
<1> HIDE DEF s
<1>3. /\ g \in Heap
      /\ g.front = [h.front EXCEPT ![q] = IF j = 1 THEN at(s, 2) ELSE h.front[q]]
      /\ g.rear = [h.rear EXCEPT ![q] = IF j = Len(s) THEN at(s, j - 1) ELSE h.rear[q]]
      /\ \A x \in Processes :
           g.nextQueue[x] = IF x = p THEN NULL
                            ELSE IF x = at(s, j - 1) THEN at(s, j + 1)
                            ELSE h.nextQueue[x]
  BY <1>2, RemoveFields
<1>4. t \in Chains(g, q)
  BY <1>2, RemoveChain
<1>5. t \in Seq(Processes) /\ ToSet(t) = ToSet(s) \ {p}
  BY <1>2, CutOut
<1>6. /\ Len(s) \in Nat
      /\ \A i \in 1 .. Len(s) : at(s, i) = s[i] /\ s[i] \in ToSet(s)
      /\ \A i \in Int : i \notin 1 .. Len(s) => at(s, i) = NULL
  BY <1>2, Places
<1>7. p \in ToSet(s)
  BY <1>2, <1>6
<1>8. \A x \in ToSet(s) : x \in Processes
  BY <1>2, Places
<1> HIDE DEF g, t, p
<1>9. /\ ts \in [QueueNames -> Seq(Processes)] /\ ts[q] = t
      /\ \A r \in QueueNames : r # q => ts[r] = qs[r]
  BY <1>1, <1>5
<1>10. ASSUME NEW r \in QueueNames, r # q PROVE qs[r] \in Chains(g, r)
  <2>1. g.front[r] = h.front[r] /\ g.rear[r] = h.rear[r]
    BY <1>3, <1>10, HeapFields
  <2>2. ASSUME NEW x \in ToSet(qs[r]) PROVE g.nextQueue[x] = h.nextQueue[x]
    <3>1. x \in Processes /\ x # NULL
      <4>1. qs[r] \in Seq(Processes)
        BY <1>1
      <4> QED BY <4>1, Places
    <3>2. x \notin ToSet(s)
      BY <1>1, <1>10 DEF s
    <3>3. x # p
      BY <1>7, <3>2
    <3>4. x # at(s, j - 1)
      <4>1. j - 1 \in Int
        BY <1>2, <1>6
      <4>2. CASE j - 1 \in 1 .. Len(s)
        BY <1>6, <3>2, <4>2
      <4>3. CASE j - 1 \notin 1 .. Len(s)
        BY <1>6, <3>1, <4>1, <4>3
      <4> QED BY <4>2, <4>3
    <3> QED BY <1>3, <3>1, <3>3, <3>4
  <2>3. qs[r] \in Chains(h, r)
    BY <1>1
  <2> QED BY <2>1, <2>2, <2>3, OtherChain
<1>11. \A r \in QueueNames : ts[r] \in Chains(g, r)
  BY <1>4, <1>9, <1>10
<1>12. \A r \in QueueNames : ToSet(ts[r]) \subseteq ToSet(qs[r]) /\ p \notin ToSet(ts[r])
  <2>1. ASSUME NEW r \in QueueNames
        PROVE  ToSet(ts[r]) \subseteq ToSet(qs[r]) /\ p \notin ToSet(ts[r])
    <3>1. CASE r = q
      BY <1>5, <1>9, <3>1 DEF s
    <3>2. CASE r # q
      BY <1>1, <1>7, <1>9, <3>2 DEF s
    <3> QED BY <3>1, <3>2
  <2> QED BY <2>1
<1>13. ASSUME NEW r \in QueueNames, NEW u \in QueueNames, r # u
       PROVE  ToSet(ts[r]) \cap ToSet(ts[u]) = {}
  <2>1. ToSet(qs[r]) \cap ToSet(qs[u]) = {}
    BY <1>1, <1>13
  <2> QED BY <1>12, <2>1
<1>14. ts \in Shows(g)
  <2> HIDE DEF ts
  <2> QED BY <1>9, <1>11, <1>13 DEF Shows
<1> HIDE DEF ts
<1> QED BY <1>3, <1>12, <1>14 DEF g, p, s, t, ts

-----------------------------------------------------------------------------
(* Every step.                                                               *)

\* The pointers stand for three sequences, and the walk of the I/O pass is at a
\* process of the waiting queue or past its end.
PointerInv ==
    /\ heap \in Heap
    /\ theQueues \in Shows(heap)
    /\ walking \in BOOLEAN
    /\ walking => current \in ToSet(theQueues["WaitingQ"]) \cup {NULL}

LEMMA QueueProps ==
    ASSUME PointerInv
    PROVE  /\ theQueues \in [QueueNames -> Seq(Processes)]
           /\ \A q \in QueueNames :
                /\ theQueues[q] \in Seq(Processes) /\ Different(theQueues[q])
                /\ theQueues[q] \in Chains(heap, q)
                /\ theQueues[q] = linked(heap, heap.front[q])
BY DEF PointerInv, Shows, Chains, theQueues

\* Each place of a queue is the only one of its process, the one behind its end that
\* of NULL.
LEMMA PlaceFound ==
    ASSUME NEW s \in Seq(Processes), Different(s), NEW k \in 1 .. Len(s) + 1
    PROVE  placeOf(s, at(s, k)) = k
<1>1. /\ Len(s) \in Nat /\ DOMAIN s = 1 .. Len(s)
      /\ \A i \in 1 .. Len(s) : at(s, i) = s[i] /\ s[i] # NULL
      /\ \A i \in Int : i \notin 1 .. Len(s) => at(s, i) = NULL
  BY Places
<1>2. \A i, j \in 1 .. Len(s) : s[i] = s[j] => i = j
  BY DEF Different
<1> HIDE DEF at
<1>3. CASE k = Len(s) + 1
  <2>1. at(s, k) = NULL
    BY <1>1, <1>3
  <2>2. ~ \E i \in DOMAIN s : s[i] = at(s, k)
    BY <1>1, <2>1
  <2> QED BY <1>3, <2>2 DEF placeOf
<1>4. CASE k # Len(s) + 1
  <2>1. k \in 1 .. Len(s) /\ at(s, k) = s[k]
    BY <1>1, <1>4
  <2>2. \A i \in DOMAIN s : s[i] = at(s, k) <=> i = k
    BY <1>1, <1>2, <2>1
  <2>3. (CHOOSE i \in DOMAIN s : s[i] = at(s, k)) = k
    BY <1>1, <2>1, <2>2
  <2> QED BY <1>1, <2>1, <2>3 DEF placeOf
<1> QED BY <1>3, <1>4

\* The queue operations of the scheduler model at a place.
LEMMA RemoveAtPlace ==
    ASSUME NEW s \in Seq(Processes), Different(s), NEW j \in 1 .. Len(s)
    PROVE  Queues!In(s, s[j]) /\ Queues!removeNode(s, s[j]) = RemoveAt(s, j)
<1>1. DOMAIN s = 1 .. Len(s) /\ \A i \in 1 .. Len(s) : s[i] = s[j] => i = j
  BY Places DEF Different
<1>2. Queues!In(s, s[j])
  BY <1>1 DEF Queues!In
<1>3. (CHOOSE i \in DOMAIN s : s[i] = s[j]) = j
  BY <1>1
<1>4. Queues!RemoveAt(s, j) = RemoveAt(s, j)
  BY DEF Queues!RemoveAt, RemoveAt
<1> QED BY <1>2, <1>3, <1>4 DEF Queues!removeNode

\* The front of a queue is its place 1.
LEMMA TailCutsFirst ==
    ASSUME NEW s \in Seq(Processes), Different(s), s # <<>>
    PROVE  1 \in 1 .. Len(s) /\ Tail(s) = RemoveAt(s, 1)
<1>1. Len(s) \in Nat \ {0}
  BY EmptySeq
<1>2. 1 \in 1 .. Len(s)
  BY <1>1
<1>3. /\ RemoveAt(s, 1) \in Seq(Processes) /\ Len(RemoveAt(s, 1)) = Len(s) - 1
      /\ \A i \in 1 .. Len(s) - 1 : RemoveAt(s, 1)[i] = IF i < 1 THEN s[i] ELSE s[i + 1]
  BY <1>2, CutOut
<1>4. /\ Tail(s) \in Seq(Processes) /\ Len(Tail(s)) = Len(s) - 1
      /\ \A i \in 1 .. Len(s) - 1 : Tail(s)[i] = s[i + 1]
  BY HeadTailProperties
<1>5. \A i \in 1 .. Len(s) - 1 : Tail(s)[i] = RemoveAt(s, 1)[i]
  BY <1>1, <1>3, <1>4
<1> QED BY <1>2, <1>3, <1>4, <1>5, SeqEqual

\* A new heap that stands for some sequences is read as them.
LEMMA NewQueues ==
    ASSUME heap' \in Heap, NEW ts \in Shows(heap')
    PROVE  theQueues' = ts
BY ShownIs DEF theQueues

LEMMA StepEnqueue ==
    ASSUME PointerInv, NEW q \in QueueNames, NEW p \in Processes, Enqueue(q, p)
    PROVE  PointerInv' /\ Queues!Enqueue(q, p)
<1> DEFINE qs == theQueues
           ts == [qs EXCEPT ![q] = Append(qs[q], p)]
<1>1. heap \in Heap /\ qs \in Shows(heap) /\ ~walking
  BY DEF PointerInv, Enqueue
<1>2. ASSUME NEW r \in QueueNames PROVE ~Queues!In(qs[r], p) /\ p \notin ToSet(qs[r])
  <2>1. qs[r] \in Seq(Processes) /\ qs[r] = linked(heap, heap.front[r])
    BY QueueProps
  <2>2. ~ \E i \in DOMAIN qs[r] : qs[r][i] = p
    BY <2>1 DEF Enqueue, Queued
  <2> QED BY <2>1, <2>2 DEF Queues!In, ToSet
<1>3. heap' = enqueue(heap, q, p) /\ walking' = walking /\ current' = current
  BY DEF Enqueue
<1> HIDE DEF qs
<1>4. heap' \in Heap /\ ts \in Shows(heap')
  BY <1>1, <1>2, <1>3, EnqueueShows
<1>5. theQueues' = ts
  BY <1>4, NewQueues
<1>6. PointerInv'
  BY <1>1, <1>3, <1>4, <1>5 DEF PointerInv
<1>7. WalkPosition = 0 /\ WalkPosition' = 0
  BY <1>1, <1>3 DEF WalkPosition
<1>8. Queues!Enqueue(q, p)
  BY <1>2, <1>5, <1>7 DEF Queues!Enqueue, Queues!enqueue, Queues!QueueNames, QueueNames, qs
<1> QED BY <1>6, <1>8

LEMMA StepDispatch ==
    ASSUME PointerInv, Dispatch
    PROVE  PointerInv' /\ Queues!Dispatch
<1> DEFINE qs == theQueues
           q == "ReadyQ"
           s == qs[q]
<1>1. /\ heap \in Heap /\ qs \in Shows(heap) /\ ~walking
      /\ q \in QueueNames /\ qs \in [QueueNames -> Seq(Processes)]
      /\ s \in Seq(Processes) /\ Different(s) /\ s \in Chains(heap, q)
  BY QueueProps DEF PointerInv, Dispatch, QueueNames
<1>2. heap' = dequeue(heap, q) /\ walking' = walking /\ current' = current
  BY DEF Dispatch
<1>3. WalkPosition = 0 /\ WalkPosition' = 0
  BY <1>1, <1>2 DEF WalkPosition
<1>4. /\ heap' \in Heap
      /\ [qs EXCEPT ![q] = Queues!dequeue(s)] \in Shows(heap')
  <2>1. CASE s = <<>>
    <3>1. heap.front[q] = NULL
      BY <1>1, <2>1 DEF Chains, at, nodeAt
    <3>2. heap' = heap
      BY <1>2, <3>1 DEF dequeue
    <3>3. [qs EXCEPT ![q] = Queues!dequeue(s)] = qs
      BY <1>1, <2>1 DEF Queues!dequeue
    <3> QED BY <1>1, <3>2, <3>3
  <2>2. CASE s # <<>>
    <3>1. 1 \in 1 .. Len(s) /\ Tail(s) = RemoveAt(s, 1)
      BY <1>1, <2>2, TailCutsFirst
    <3>2. Queues!dequeue(s) = RemoveAt(s, 1)
      BY <2>2, <3>1 DEF Queues!dequeue
    <3>3. removeNode(heap, q, s[1]) = dequeue(heap, q)
      BY <1>1, <3>1, RemoveFront
    <3>4. /\ removeNode(heap, q, s[1]) \in Heap
          /\ [qs EXCEPT ![q] = RemoveAt(s, 1)] \in Shows(removeNode(heap, q, s[1]))
      BY <1>1, <3>1, RemoveShows
    <3> QED BY <1>2, <3>2, <3>3, <3>4
  <2> QED BY <2>1, <2>2
<1>5. theQueues' = [qs EXCEPT ![q] = Queues!dequeue(s)]
  BY <1>4, NewQueues
<1>6. PointerInv'
  BY <1>1, <1>2, <1>4, <1>5 DEF PointerInv
<1>7. Queues!Dispatch
  BY <1>3, <1>5 DEF Queues!Dispatch
<1> QED BY <1>6, <1>7

\* Taking a process out of one queue and putting it at the end of another.
LEMMA Moved ==
    ASSUME PointerInv, NEW q \in QueueNames, NEW r \in QueueNames, r # q,
           NEW j \in 1 .. Len(theQueues[q]),
           heap' = enqueue(removeNode(heap, q, theQueues[q][j]), r, theQueues[q][j])
    PROVE  /\ heap' \in Heap /\ theQueues' \in Shows(heap')
           /\ theQueues' = [theQueues EXCEPT ![q] = RemoveAt(theQueues[q], j),
                                             ![r] = Append(theQueues[r], theQueues[q][j])]
<1> DEFINE qs == theQueues
           p == qs[q][j]
           g == removeNode(heap, q, p)
           t == RemoveAt(qs[q], j)
           ts == [qs EXCEPT ![q] = t]
           us == [ts EXCEPT ![r] = Append(ts[r], p)]
<1>1. heap \in Heap /\ qs \in Shows(heap) /\ qs \in [QueueNames -> Seq(Processes)]
  BY QueueProps DEF PointerInv
<1>2. p \in Processes
  BY <1>1, Places
<1>3. g \in Heap /\ ts \in Shows(g) /\ \A u \in QueueNames : p \notin ToSet(ts[u])
  BY <1>1, RemoveShows
<1>4. heap' = enqueue(g, r, p)
  OBVIOUS
<1> HIDE DEF g, p, t
<1>5. heap' \in Heap /\ us \in Shows(heap')
  <2> HIDE DEF ts
  <2> QED BY <1>2, <1>3, <1>4, EnqueueShows
<1>6. theQueues' = us
  BY <1>5, NewQueues
<1>7. us = [qs EXCEPT ![q] = t, ![r] = Append(qs[r], p)]
  BY <1>1
<1> QED BY <1>5, <1>6, <1>7 DEF p, t

LEMMA StepKill ==
    ASSUME PointerInv, NEW q \in {"ReadyQ", "WaitingQ"}, NEW p \in Processes, Kill(q, p)
    PROVE  PointerInv' /\ Queues!Kill(q, p)
<1> DEFINE s == theQueues[q]
           r == "TerminatedQ"
<1>1. /\ q \in QueueNames /\ r \in QueueNames /\ r # q /\ ~walking
      /\ walking' = walking /\ current' = current
      /\ heap' = enqueue(removeNode(heap, q, p), r, p)
  BY DEF Kill, QueueNames
<1>2. s \in Seq(Processes) /\ Different(s) /\ s = linked(heap, heap.front[q])
  BY <1>1, QueueProps
<1>3. PICK j \in 1 .. Len(s) : s[j] = p
  <2>1. \E i \in DOMAIN s : s[i] = p
    BY <1>2 DEF Kill
  <2>2. DOMAIN s = 1 .. Len(s)
    BY <1>2, Places
  <2> QED BY <2>1, <2>2
<1>4. /\ heap' \in Heap /\ theQueues' \in Shows(heap')
      /\ theQueues' = [theQueues EXCEPT ![q] = RemoveAt(s, j), ![r] = Append(theQueues[r], p)]
  BY <1>1, <1>3, Moved
<1>5. Queues!In(s, p) /\ Queues!removeNode(s, p) = RemoveAt(s, j)
  BY <1>2, <1>3, RemoveAtPlace
<1>6. WalkPosition = 0 /\ WalkPosition' = 0
  BY <1>1 DEF WalkPosition
<1>7. PointerInv'
  BY <1>1, <1>4 DEF PointerInv
<1>8. Queues!Kill(q, p)
  BY <1>1, <1>4, <1>5, <1>6, QueueProps DEF Queues!Kill, Queues!enqueue
<1> QED BY <1>7, <1>8

LEMMA StepStart ==
    ASSUME PointerInv, StartWalk
    PROVE  PointerInv' /\ Queues!StartWalk
<1> DEFINE s == theQueues["WaitingQ"]
<1>1. /\ ~walking /\ walking' = TRUE /\ current' = heap.front["WaitingQ"] /\ heap' = heap
  BY DEF StartWalk
<1>2. s \in Seq(Processes) /\ Different(s) /\ heap.front["WaitingQ"] = at(s, 1)
  BY QueueProps DEF QueueNames, Chains
<1>3. theQueues' = theQueues
  BY <1>1 DEF theQueues
<1>4. at(s, 1) \in ToSet(s) \cup {NULL}
  BY <1>2, Places
<1>5. placeOf(s, at(s, 1)) = 1
  <2>1. 1 \in 1 .. Len(s) + 1
    BY <1>2, LenProperties
  <2> QED BY <1>2, <2>1, PlaceFound
<1>6. WalkPosition = 0 /\ WalkPosition' = 1
  BY <1>1, <1>2, <1>3, <1>5 DEF WalkPosition
<1>7. PointerInv'
  BY <1>1, <1>2, <1>3, <1>4 DEF PointerInv
<1> QED BY <1>3, <1>6, <1>7 DEF Queues!StartWalk

\* The process that the walk is at, or NULL behind the last one.
LEMMA WalkAt ==
    ASSUME PointerInv, walking
    PROVE  \E k \in 1 .. Len(theQueues["WaitingQ"]) + 1 :
             /\ WalkPosition = k
             /\ current = at(theQueues["WaitingQ"], k)
             /\ current = NULL <=> k = Len(theQueues["WaitingQ"]) + 1
<1> DEFINE s == theQueues["WaitingQ"]
<1>1. s \in Seq(Processes) /\ Different(s)
  BY QueueProps DEF QueueNames
<1>2. current \in ToSet(s) \cup {NULL} /\ WalkPosition = placeOf(s, current)
  BY DEF PointerInv, WalkPosition
<1> HIDE DEF s
<1>3. /\ Len(s) \in Nat /\ ToSet(s) = {s[i] : i \in 1 .. Len(s)}
      /\ \A i \in 1 .. Len(s) : at(s, i) = s[i] /\ s[i] # NULL
      /\ \A i \in Int : i \notin 1 .. Len(s) => at(s, i) = NULL
  BY <1>1, Places
<1>4. PICK k \in 1 .. Len(s) + 1 : /\ current = at(s, k)
                                   /\ current = NULL <=> k = Len(s) + 1
  <2>1. CASE current = NULL
    <3>1. Len(s) + 1 \in 1 .. Len(s) + 1 /\ Len(s) + 1 \notin 1 .. Len(s) /\ Len(s) + 1 \in Int
      BY <1>3
    <3> QED BY <1>3, <2>1, <3>1
  <2>2. CASE current # NULL
    <3>1. PICK i \in 1 .. Len(s) : current = s[i]
      BY <1>2, <1>3, <2>2
    <3>2. i \in 1 .. Len(s) + 1 /\ i # Len(s) + 1
      BY <1>3
    <3> QED BY <1>3, <2>2, <3>1, <3>2
  <2> QED BY <2>1, <2>2
<1>5. placeOf(s, at(s, k)) = k
  BY <1>1, PlaceFound
<1>6. WalkPosition = k
  BY <1>2, <1>4, <1>5
<1> QED BY <1>4, <1>6 DEF s

LEMMA StepVisit ==
    ASSUME PointerInv, NEW done \in BOOLEAN, Visit(done)
    PROVE  PointerInv' /\ Queues!Visit(done)
<1> DEFINE w == "WaitingQ"
           s == theQueues[w]
<1>1. /\ walking /\ current # NULL /\ walking' = walking
      /\ current' = heap.nextQueue[current]
      /\ heap' = IF done THEN enqueue(removeNode(heap, w, current), "ReadyQ", current)
                 ELSE heap
  BY DEF Visit, nextToCheck
<1>2. w \in QueueNames /\ "ReadyQ" \in QueueNames /\ "ReadyQ" # w
  BY DEF QueueNames
<1>3. /\ s \in Seq(Processes) /\ Different(s)
      /\ \A i \in 1 .. Len(s) : heap.nextQueue[s[i]] = at(s, i + 1)
  BY <1>2, QueueProps DEF Chains
<1>4. PICK j \in 1 .. Len(s) + 1 : /\ WalkPosition = j /\ current = at(s, j)
                                   /\ current = NULL <=> j = Len(s) + 1
  BY <1>1, WalkAt
<1>5. /\ Len(s) \in Nat /\ \A i \in 1 .. Len(s) : at(s, i) = s[i]
      /\ ToSet(s) = {s[i] : i \in 1 .. Len(s)}
  BY <1>3, Places
<1>6. j \in 1 .. Len(s) /\ j > 0 /\ j <= Len(s) /\ j + 1 \in 1 .. Len(s) + 1
  BY <1>1, <1>4, <1>5
<1>7. current = s[j] /\ current' = at(s, j + 1)
  <2>1. current = s[j]
    BY <1>4, <1>5, <1>6
  <2>2. heap.nextQueue[s[j]] = at(s, j + 1)
    BY <1>3, <1>6
  <2> QED BY <1>1, <2>1, <2>2
<1>8. walking' \in BOOLEAN /\ WalkPosition' = placeOf(theQueues'[w], current')
  BY <1>1 DEF PointerInv, WalkPosition
<1>9. CASE done
  <2> DEFINE t == RemoveAt(s, j)
  <2>1. /\ heap' \in Heap /\ theQueues' \in Shows(heap')
        /\ theQueues' = [theQueues EXCEPT ![w] = t,
                                          !["ReadyQ"] = Append(theQueues["ReadyQ"], s[j])]
    <3>1. heap' = enqueue(removeNode(heap, w, s[j]), "ReadyQ", s[j])
      BY <1>1, <1>7, <1>9
    <3> QED BY <1>2, <1>6, <3>1, Moved
  <2>2. t \in Seq(Processes) /\ Different(t) /\ Len(t) = Len(s) - 1
    BY <1>3, <1>6, CutOut
  <2>3. at(t, j) = at(s, j + 1)
    <3>1. j \in Nat /\ ~(j < j)
      BY <1>6
    <3>2. at(t, j) = IF j < j THEN at(s, j) ELSE at(s, j + 1)
      BY <1>3, <1>6, <3>1, CutPlaces
    <3> QED BY <3>1, <3>2
  <2>4. theQueues'[w] = t
    BY <1>2, <2>1, QueueProps
  <2> HIDE DEF t
  <2>5. j \in 1 .. Len(t) + 1
    BY <1>5, <1>6, <2>2
  <2>6. placeOf(t, at(t, j)) = j
    BY <2>2, <2>5, PlaceFound
  <2>7. WalkPosition' = j
    BY <1>7, <1>8, <2>3, <2>4, <2>6
  <2>8. current' \in ToSet(t) \cup {NULL}
    BY <1>7, <2>2, <2>3, Places DEF at, nodeAt
  <2>9. PointerInv'
    BY <1>8, <2>1, <2>4, <2>8 DEF PointerInv
  <2>10. Queues!removeNode(s, s[j]) = t
    BY <1>3, <1>6, RemoveAtPlace DEF t
  <2>11. Queues!Visit(done)
    BY <1>4, <1>6, <1>9, <2>1, <2>7, <2>10 DEF Queues!Visit, Queues!enqueue
  <2> QED BY <2>9, <2>11
<1>10. CASE ~done
  <2>1. heap' = heap /\ theQueues' = theQueues
    BY <1>1, <1>10 DEF theQueues
  <2>2. WalkPosition' = j + 1
    <3>1. placeOf(s, at(s, j + 1)) = j + 1
      BY <1>3, <1>6, PlaceFound
    <3> QED BY <1>7, <1>8, <2>1, <3>1
  <2>3. current' \in ToSet(s) \cup {NULL}
    BY <1>5, <1>7 DEF at, nodeAt
  <2>4. PointerInv'
    BY <1>8, <2>1, <2>3 DEF PointerInv
  <2>5. Queues!Visit(done)
    BY <1>4, <1>6, <1>10, <2>1, <2>2 DEF Queues!Visit
  <2> QED BY <2>4, <2>5
<1> QED BY <1>9, <1>10

LEMMA StepEnd ==
    ASSUME PointerInv, EndWalk
    PROVE  PointerInv' /\ Queues!EndWalk
<1>1. /\ walking /\ current = NULL /\ walking' = FALSE /\ heap' = heap
  BY DEF EndWalk
<1>2. theQueues' = theQueues
  BY <1>1 DEF theQueues
<1>3. WalkPosition = Len(theQueues["WaitingQ"]) + 1
  BY <1>1, WalkAt
<1>4. WalkPosition' = 0
  BY <1>1 DEF WalkPosition
<1>5. PointerInv'
  BY <1>1, <1>2 DEF PointerInv
<1> QED BY <1>2, <1>3, <1>4, <1>5 DEF Queues!EndWalk

LEMMA InitQueues ==
    Init => PointerInv /\ Queues!Init
<1> SUFFICES ASSUME Init PROVE PointerInv /\ Queues!Init
  OBVIOUS
<1> DEFINE none == [q \in QueueNames |-> <<>>]
<1>1. heap \in Heap /\ walking = FALSE /\ \A q \in QueueNames : heap.front[q] = NULL
                                                             /\ heap.rear[q] = NULL
  BY DEF Init, Heap, Pointers
<1>2. \A q \in QueueNames : <<>> \in Chains(heap, q)
  BY <1>1, EmptySeq DEF Chains, at, nodeAt, Different
<1>3. ToSet(<<>>) = {}
  BY DEF ToSet
<1>4. none \in Shows(heap)
  BY <1>2, <1>3, EmptySeq DEF Shows
<1>5. theQueues = none
  BY <1>1, <1>4, ShownIs DEF theQueues
<1>6. PointerInv
  BY <1>1, <1>4, <1>5 DEF PointerInv
<1>7. Queues!Init
  BY <1>1, <1>5 DEF Queues!Init, Queues!QueueNames, QueueNames, WalkPosition
<1> QED BY <1>6, <1>7

LEMMA QueueStep ==
    ASSUME PointerInv, Next
    PROVE  PointerInv' /\ Queues!Next
<1>1. ASSUME NEW q \in QueueNames, NEW p \in Processes, Enqueue(q, p)
      PROVE  PointerInv' /\ Queues!Next
  <2>1. q \in Queues!QueueNames
    BY DEF QueueNames, Queues!QueueNames
  <2> QED BY <1>1, <2>1, StepEnqueue DEF Queues!Next
<1>2. ASSUME NEW q \in {"ReadyQ", "WaitingQ"}, NEW p \in Processes, Kill(q, p)
      PROVE  PointerInv' /\ Queues!Next
  BY <1>2, StepKill DEF Queues!Next
<1>3. ASSUME NEW done \in BOOLEAN, Visit(done) PROVE PointerInv' /\ Queues!Next
  BY <1>3, StepVisit DEF Queues!Next
<1>4. CASE Dispatch
  BY <1>4, StepDispatch DEF Queues!Next
<1>5. CASE StartWalk
  BY <1>5, StepStart DEF Queues!Next
<1>6. CASE EndWalk
  BY <1>6, StepEnd DEF Queues!Next
<1> QED BY <1>1, <1>2, <1>3, <1>4, <1>5, <1>6 DEF Next

LEMMA QueueStutter ==
    ASSUME PointerInv, UNCHANGED vars
    PROVE  PointerInv' /\ theQueues' = theQueues /\ WalkPosition' = WalkPosition
<1>1. heap' = heap /\ walking' = walking /\ current' = current
  BY DEF vars
<1>2. theQueues' = theQueues
  BY <1>1 DEF theQueues
<1> QED BY <1>1, <1>2 DEF PointerInv, WalkPosition

\* Front, rear and one link per process are three sequences of processes, each
\* process in one of them at most, and the I/O pass visits every process that was
\* waiting when it began, once, however many of them leave the queue under it.
THEOREM QueuesImplemented == Spec => ImplementsQueues
<1>1. PointerInv /\ [Next]_vars => PointerInv' /\ [Queues!Next]_<<theQueues, WalkPosition>>
  BY QueueStep, QueueStutter
<1> QED BY <1>1, InitQueues, PTL DEF Spec, ImplementsQueues, Queues!Spec

=============================================================================
