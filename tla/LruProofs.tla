------------------------------ MODULE LruProofs ------------------------------
(* Theorems about the cache of src/lru_cache.c, for every number of nodes,   *)
(* keys, values and buckets, and all capacities.                             *)
EXTENDS LruProperties, ProofBasics

-----------------------------------------------------------------------------
(* Chains of pointers.                                                       *)

\* Before the first and behind the last node there is NULL.
at(s, i) == IF i \in 1 .. Len(s) THEN s[i] ELSE NULL

\* The sequences that the pointers run through from p to NULL, without coming
\* back to a node.
Chains(link, p) ==
    {s \in Seq(Nodes) :
        /\ Different(s)
        /\ p = at(s, 1)
        /\ \A i \in 1 .. Len(s) : link[s[i]] = at(s, i + 1)}

\* One link of every node.
field(h, link) == [c \in Nodes |-> h.node[c][link]]

\* The walk from p finds the chain, however many nodes it has: all of them fit.
LEMMA WalkIsChain ==
    ASSUME NEW h, NEW link, NEW L \in [Nodes -> Pointers], L = field(h, link),
           NEW p, NEW s \in Chains(L, p)
    PROVE  linked(h, link, p) = s
<1> DEFINE K == Cardinality(Nodes)
           body(F) == [i \in Nat |-> [c \in Pointers |->
                         IF i = 0 \/ c = NULL THEN <<>>
                         ELSE <<c>> \o F[i - 1][h.node[c][link]]]]
           Q == CHOOSE F : F = body(F)
<1>1. L \in [Nodes -> Nodes \cup {NULL}] /\ NULL \notin Nodes
  BY LruAssumption DEF Pointers
<1>2. s \in chainsFrom(Nodes, NULL, L, p)
  BY DEF Chains, chainsFrom, at, nodeAt
<1>3. K \in Nat /\ Len(s) <= K
  BY LruAssumption, NotTooLong DEF Chains
<1>4. linked(h, link, p) = Q[K][p]
  BY DEF linked
<1>5. \A c \in Nodes : h.node[c][link] = L[c]
  BY DEF field
<1>6. ASSUME NEW F PROVE body(F) = walkOf(Nodes, NULL, L, F)
  <2>1. ASSUME NEW i \in Nat, NEW c \in Pointers
        PROVE  (IF i = 0 \/ c = NULL THEN <<>> ELSE <<c>> \o F[i - 1][h.node[c][link]])
               = (IF i = 0 \/ c = NULL THEN <<>> ELSE <<c>> \o F[i - 1][L[c]])
    BY <1>5 DEF Pointers
  <2> QED BY <2>1 DEF walkOf, Pointers
<1> HIDE DEF K, body
<1>7. Q = walkOf(Nodes, NULL, L, Q)
  <2>1. PICK F : F = walkOf(Nodes, NULL, L, F)
    BY <1>1, WalkExists
  <2>2. F = body(F)
    BY <1>6, <2>1
  <2>3. Q = body(Q)
    BY <2>2
  <2> QED BY <1>6, <2>3
<1> HIDE DEF Q
<1>8. Q[K][p] = s
  BY <1>1, <1>2, <1>3, <1>7, WalkFinds
<1> QED BY <1>4, <1>8

-----------------------------------------------------------------------------
(* Nodes that leave a chain and nodes that enter it.                         *)

LEMMA Places ==
    ASSUME NEW s \in Seq(Nodes)
    PROVE  /\ Len(s) \in Nat
           /\ \A i \in Int : at(s, i) \in Pointers
           /\ \A i \in 1 .. Len(s) : at(s, i) = s[i] /\ s[i] \in Nodes /\ s[i] # NULL
           /\ \A i \in Int : i \notin 1 .. Len(s) => at(s, i) = NULL
           /\ ToSet(s) = {s[i] : i \in 1 .. Len(s)}
<1>1. Len(s) \in Nat /\ DOMAIN s = 1 .. Len(s) /\ \A i \in 1 .. Len(s) : s[i] \in Nodes
  BY LenProperties, ElementOfSeq
<1> QED BY <1>1, LruAssumption DEF at, Pointers, ToSet

\* The chain without its node number j.
LEMMA CutOutOfChain ==
    ASSUME NEW s \in Seq(Nodes), Different(s), NEW j \in 1 .. Len(s)
    PROVE  /\ RemoveAt(s, j) \in Seq(Nodes) /\ Different(RemoveAt(s, j))
           /\ Len(RemoveAt(s, j)) = Len(s) - 1
           /\ \A i \in 1 .. Len(s) - 1 :
                RemoveAt(s, j)[i] = IF i < j THEN s[i] ELSE s[i + 1]
           /\ \A i \in Nat : at(RemoveAt(s, j), i) = IF i < j THEN at(s, i) ELSE at(s, i + 1)
           /\ ToSet(RemoveAt(s, j)) = ToSet(s) \ {s[j]}
<1> DEFINE r == RemoveAt(s, j)
<1>1. Len(s) \in Nat
  BY Places
<1>2. /\ r \in Seq(Nodes) /\ Different(r) /\ Len(r) = Len(s) - 1
      /\ \A i \in 1 .. Len(s) - 1 : r[i] = IF i < j THEN s[i] ELSE s[i + 1]
      /\ ToSet(r) = ToSet(s) \ {s[j]}
  BY CutOut
<1> HIDE DEF r
<1>3. \A i \in Nat : at(r, i) = IF i < j THEN at(s, i) ELSE at(s, i + 1)
  BY <1>1, <1>2 DEF at
<1> QED BY <1>2, <1>3 DEF r

\* The chain with a new node before it.
LEMMA PutFirst ==
    ASSUME NEW s \in Seq(Nodes), Different(s), NEW n \in Nodes, n \notin ToSet(s)
    PROVE  /\ <<n>> \o s \in Seq(Nodes) /\ Different(<<n>> \o s)
           /\ Len(<<n>> \o s) = Len(s) + 1
           /\ (<<n>> \o s)[1] = n
           /\ \A i \in 1 .. Len(s) : (<<n>> \o s)[i + 1] = s[i]
           /\ at(<<n>> \o s, 0) = NULL /\ at(<<n>> \o s, 1) = n
           /\ \A i \in Nat \ {0} : at(<<n>> \o s, i + 1) = at(s, i)
           /\ ToSet(<<n>> \o s) = ToSet(s) \cup {n}
<1> DEFINE r == <<n>> \o s
<1>1. /\ Len(s) \in Nat /\ ToSet(s) = {s[i] : i \in 1 .. Len(s)}
      /\ \A i, k \in 1 .. Len(s) : s[i] = s[k] => i = k
  BY Places DEF Different
<1>2. /\ r \in Seq(Nodes) /\ Len(r) = Len(s) + 1 /\ r[1] = n
      /\ \A i \in 1 .. Len(s) : r[i + 1] = s[i]
  BY InFrontOf
<1> HIDE DEF r
<1>3. ASSUME NEW i \in 1 .. Len(s) + 1, i # 1 PROVE i - 1 \in 1 .. Len(s) /\ r[i] = s[i - 1]
  <2> DEFINE k == i - 1
  <2>1. k \in 1 .. Len(s) /\ k + 1 = i
    BY <1>1, <1>3
  <2>2. r[k + 1] = s[k]
    BY <1>2, <2>1
  <2> QED BY <2>1, <2>2
<1>4. Different(r)
  <2> SUFFICES ASSUME NEW i \in 1 .. Len(s) + 1, NEW k \in 1 .. Len(s) + 1, r[i] = r[k]
               PROVE  i = k
    BY <1>2 DEF Different
  <2>1. CASE i = 1 /\ k = 1
    BY <2>1
  <2>2. CASE i # 1 /\ k # 1
    BY <1>1, <1>3, <2>2
  <2>3. CASE i = 1 /\ k # 1
    BY <1>1, <1>2, <1>3, <2>3
  <2>4. CASE i # 1 /\ k = 1
    BY <1>1, <1>2, <1>3, <2>4
  <2> QED BY <2>1, <2>2, <2>3, <2>4
<1>5. at(r, 0) = NULL /\ at(r, 1) = n
  BY <1>1, <1>2 DEF at
<1>6. \A i \in Nat \ {0} : at(r, i + 1) = at(s, i)
  BY <1>1, <1>2 DEF at
<1>7. ToSet(r) = {r[i] : i \in 1 .. Len(s) + 1}
  BY <1>2, Places
<1>8. ASSUME NEW x \in ToSet(r) PROVE x \in ToSet(s) \cup {n}
  <2>1. PICK i \in 1 .. Len(s) + 1 : x = r[i]
    BY <1>7, <1>8
  <2> QED BY <1>1, <1>2, <1>3, <2>1
<1>9. ASSUME NEW x \in ToSet(s) PROVE x \in ToSet(r)
  <2>1. PICK i \in 1 .. Len(s) : x = s[i]
    BY <1>1, <1>9
  <2>2. i + 1 \in 1 .. Len(s) + 1 /\ r[i + 1] = x
    BY <1>1, <1>2, <2>1
  <2> QED BY <1>7, <2>2
<1>10. n \in ToSet(r)
  BY <1>1, <1>2, <1>7
<1>11. ToSet(r) = ToSet(s) \cup {n}
  BY <1>8, <1>9, <1>10
<1> QED BY <1>2, <1>4, <1>5, <1>6, <1>11 DEF r

\* The sequences that a link back runs through from t to NULL, last one first.
Backs(link, t) ==
    {s \in Seq(Nodes) :
        /\ Different(s)
        /\ t = at(s, Len(s))
        /\ \A i \in 1 .. Len(s) : link[s[i]] = at(s, i - 1)}

\* Links of other nodes do not matter.
LEMMA ChainStays ==
    ASSUME NEW L, NEW M, NEW p, NEW s \in Seq(Nodes),
           \A i \in 1 .. Len(s) : M[s[i]] = L[s[i]]
    PROVE  /\ s \in Chains(L, p) => s \in Chains(M, p)
           /\ s \in Backs(L, p) => s \in Backs(M, p)
BY DEF Chains, Backs

\* The links after node number j has been left out.
LEMMA ChainCut ==
    ASSUME NEW L, NEW M, NEW p, NEW q, NEW s \in Chains(L, p), NEW j \in 1 .. Len(s),
           \A i \in 1 .. Len(s) : i # j =>
               M[s[i]] = IF i = j - 1 THEN L[s[j]] ELSE L[s[i]],
           q = IF j = 1 THEN L[s[j]] ELSE p
    PROVE  RemoveAt(s, j) \in Chains(M, q)
<1> DEFINE r == RemoveAt(s, j)
<1>1. /\ s \in Seq(Nodes) /\ Different(s) /\ p = at(s, 1) /\ Len(s) \in Nat
      /\ \A i \in 1 .. Len(s) : L[s[i]] = at(s, i + 1)
  BY Places DEF Chains
<1>2. /\ r \in Seq(Nodes) /\ Different(r) /\ Len(r) = Len(s) - 1
      /\ \A i \in 1 .. Len(s) - 1 : r[i] = IF i < j THEN s[i] ELSE s[i + 1]
      /\ \A i \in Nat : at(r, i) = IF i < j THEN at(s, i) ELSE at(s, i + 1)
  BY <1>1, CutOutOfChain
<1> HIDE DEF r
<1>3. q = at(r, 1)
  <2>0. at(r, 1) = IF 1 < j THEN at(s, 1) ELSE at(s, 1 + 1)
    BY <1>2
  <2>1. CASE j = 1
    <3>1. L[s[j]] = at(s, 1 + 1)
      BY <1>1, <2>1
    <3> QED BY <2>0, <2>1, <3>1
  <2>2. CASE j # 1
    BY <1>1, <2>0, <2>2
  <2> QED BY <2>1, <2>2
<1>4. ASSUME NEW i \in 1 .. Len(r) PROVE M[r[i]] = at(r, i + 1)
  <2>1. CASE i < j
    <3>0. i \in 1 .. Len(s) /\ i # j /\ r[i] = s[i] /\ i + 1 \in Nat
      <4>1. i \in 1 .. Len(s) - 1
        BY <1>2
      <4>2. i \in 1 .. Len(s) /\ i # j /\ i + 1 \in Nat
        BY <1>1, <2>1, <4>1
      <4>3. r[i] = s[i]
        BY <1>2, <2>1, <4>1
      <4> QED BY <4>2, <4>3
    <3>1. M[s[i]] = IF i = j - 1 THEN L[s[j]] ELSE L[s[i]]
      BY <3>0
    <3>2. CASE i = j - 1
      <4>1. M[s[i]] = at(s, j + 1) /\ i + 1 = j
        BY <1>1, <3>0, <3>1, <3>2
      <4>2. at(r, i + 1) = at(s, j + 1)
        BY <1>2, <3>0, <4>1
      <4> QED BY <3>0, <4>1, <4>2
    <3>3. CASE i # j - 1
      <4>1. M[s[i]] = at(s, i + 1) /\ i + 1 < j
        BY <1>1, <2>1, <3>0, <3>1, <3>3
      <4>2. at(r, i + 1) = at(s, i + 1)
        BY <1>2, <3>0, <4>1
      <4> QED BY <3>0, <4>1, <4>2
    <3> QED BY <3>2, <3>3
  <2>2. CASE ~(i < j)
    <3> DEFINE k == i + 1
    <3>1. /\ k \in 1 .. Len(s) /\ k # j /\ k # j - 1 /\ r[i] = s[k] /\ k \in Nat
          /\ ~(k < j)
      BY <1>1, <1>2, <2>2
    <3>2. M[s[k]] = at(s, k + 1)
      BY <1>1, <3>1
    <3>3. at(r, k) = at(s, k + 1)
      BY <1>2, <3>1
    <3> QED BY <3>1, <3>2, <3>3
  <2> QED BY <2>1, <2>2
<1> QED BY <1>2, <1>3, <1>4 DEF Chains, r

LEMMA BackCut ==
    ASSUME NEW L, NEW M, NEW t, NEW u, NEW s \in Backs(L, t), NEW j \in 1 .. Len(s),
           \A i \in 1 .. Len(s) : i # j =>
               M[s[i]] = IF i = j + 1 THEN L[s[j]] ELSE L[s[i]],
           u = IF j = Len(s) THEN L[s[j]] ELSE t
    PROVE  RemoveAt(s, j) \in Backs(M, u)
<1> DEFINE r == RemoveAt(s, j)
<1>1. /\ s \in Seq(Nodes) /\ Different(s) /\ t = at(s, Len(s)) /\ Len(s) \in Nat
      /\ \A i \in 1 .. Len(s) : L[s[i]] = at(s, i - 1)
  BY Places DEF Backs
<1>2. /\ r \in Seq(Nodes) /\ Different(r) /\ Len(r) = Len(s) - 1
      /\ \A i \in 1 .. Len(s) - 1 : r[i] = IF i < j THEN s[i] ELSE s[i + 1]
      /\ \A i \in Nat : at(r, i) = IF i < j THEN at(s, i) ELSE at(s, i + 1)
  BY <1>1, CutOutOfChain
<1> HIDE DEF r
<1>3. u = at(r, Len(r))
  <2> DEFINE l == Len(s) - 1
  <2>1. l \in Nat /\ l + 1 = Len(s) /\ Len(r) = l
    BY <1>1, <1>2
  <2>2. at(r, l) = IF l < j THEN at(s, l) ELSE at(s, l + 1)
    BY <1>2, <2>1
  <2>3. CASE j = Len(s)
    <3>1. L[s[j]] = at(s, l) /\ l < j
      BY <1>1, <2>3
    <3> QED BY <2>1, <2>2, <2>3, <3>1
  <2>4. CASE j # Len(s)
    <3>1. ~(l < j)
      BY <1>1, <2>4
    <3>2. at(r, l) = at(s, Len(s))
      BY <2>1, <2>2, <3>1
    <3> QED BY <1>1, <2>1, <2>4, <3>2
  <2> QED BY <2>3, <2>4
<1>4. ASSUME NEW i \in 1 .. Len(r) PROVE M[r[i]] = at(r, i - 1)
  <2>1. CASE i < j
    <3>1. /\ i \in 1 .. Len(s) /\ i # j /\ i # j + 1 /\ r[i] = s[i] /\ i - 1 \in Nat
          /\ i - 1 < j
      BY <1>1, <1>2, <2>1
    <3>2. M[s[i]] = at(s, i - 1)
      BY <1>1, <3>1
    <3>3. at(r, i - 1) = at(s, i - 1)
      BY <1>2, <3>1
    <3> QED BY <3>1, <3>2, <3>3
  <2>2. CASE ~(i < j)
    <3> DEFINE k == i + 1
    <3>0. k \in 1 .. Len(s) /\ k # j /\ r[i] = s[k] /\ i - 1 \in Nat
      BY <1>1, <1>2, <2>2
    <3> HIDE DEF k
    <3>1. M[s[k]] = IF k = j + 1 THEN L[s[j]] ELSE L[s[k]]
      BY <3>0
    <3> USE DEF k
    <3>2. CASE i = j
      <4>1. M[s[k]] = at(s, i - 1) /\ i - 1 < j
        BY <1>1, <3>0, <3>1, <3>2
      <4>2. at(r, i - 1) = at(s, i - 1)
        BY <1>2, <3>0, <3>1, <4>1
      <4> QED BY <3>0, <3>1, <4>1, <4>2
    <3>3. CASE i # j
      <4>1. k # j + 1 /\ ~(i - 1 < j) /\ (i - 1) + 1 = k - 1
        BY <1>1, <2>2, <3>3
      <4>2. M[s[k]] = at(s, k - 1)
        BY <1>1, <3>0, <3>1, <4>1
      <4>3. at(r, i - 1) = at(s, (i - 1) + 1)
        BY <1>2, <3>0, <3>1, <4>1
      <4> QED BY <3>0, <3>1, <4>1, <4>2, <4>3
    <3> QED BY <3>2, <3>3
  <2> QED BY <2>1, <2>2
<1> QED BY <1>2, <1>3, <1>4 DEF Backs, r

\* The links after a node has been put before the others.
LEMMA ChainPush ==
    ASSUME NEW L, NEW M, NEW p, NEW s \in Chains(L, p), NEW n \in Nodes, n \notin ToSet(s),
           \A i \in 1 .. Len(s) : M[s[i]] = L[s[i]],
           M[n] = p
    PROVE  <<n>> \o s \in Chains(M, n)
<1> DEFINE r == <<n>> \o s
<1>1. /\ s \in Seq(Nodes) /\ Different(s) /\ p = at(s, 1) /\ Len(s) \in Nat
      /\ \A i \in 1 .. Len(s) : L[s[i]] = at(s, i + 1)
  BY Places DEF Chains
<1>2. /\ r \in Seq(Nodes) /\ Different(r) /\ Len(r) = Len(s) + 1 /\ r[1] = n
      /\ \A i \in 1 .. Len(s) : r[i + 1] = s[i]
      /\ at(r, 1) = n /\ \A i \in Nat \ {0} : at(r, i + 1) = at(s, i)
  BY <1>1, PutFirst
<1> HIDE DEF r
<1>3. ASSUME NEW i \in 1 .. Len(r) PROVE M[r[i]] = at(r, i + 1)
  <2>1. CASE i = 1
    <3>1. at(r, 1 + 1) = at(s, 1)
      BY <1>2
    <3> QED BY <1>1, <1>2, <2>1, <3>1
  <2>2. CASE i # 1
    <3> DEFINE k == i - 1
    <3>1. k \in 1 .. Len(s) /\ k + 1 = i /\ i \in Nat \ {0}
      BY <1>1, <1>2, <2>2
    <3>2. r[k + 1] = s[k] /\ M[s[k]] = at(s, k + 1)
      BY <1>1, <1>2, <3>1
    <3>3. at(r, i + 1) = at(s, i)
      BY <1>2, <3>1
    <3> QED BY <3>1, <3>2, <3>3
  <2> QED BY <2>1, <2>2
<1> QED BY <1>2, <1>3 DEF Chains, r

LEMMA BackPush ==
    ASSUME NEW L, NEW M, NEW t, NEW u, NEW s \in Backs(L, t), NEW n \in Nodes,
           n \notin ToSet(s),
           \A i \in 1 .. Len(s) : M[s[i]] = IF i = 1 THEN n ELSE L[s[i]],
           M[n] = NULL, u = IF t = NULL THEN n ELSE t
    PROVE  <<n>> \o s \in Backs(M, u)
<1> DEFINE r == <<n>> \o s
<1>1. /\ s \in Seq(Nodes) /\ Different(s) /\ t = at(s, Len(s)) /\ Len(s) \in Nat
      /\ \A i \in 1 .. Len(s) : L[s[i]] = at(s, i - 1)
      /\ \A i \in 1 .. Len(s) : at(s, i) # NULL
      /\ Len(s) = 0 => at(s, Len(s)) = NULL
  BY Places DEF Backs
<1>2. /\ r \in Seq(Nodes) /\ Different(r) /\ Len(r) = Len(s) + 1 /\ r[1] = n
      /\ \A i \in 1 .. Len(s) : r[i + 1] = s[i]
      /\ at(r, 0) = NULL /\ at(r, 1) = n
      /\ \A i \in Nat \ {0} : at(r, i + 1) = at(s, i)
  BY <1>1, PutFirst
<1> HIDE DEF r
<1>3. u = at(r, Len(r))
  <2>1. CASE Len(s) = 0
    BY <1>1, <1>2, <2>1
  <2>2. CASE Len(s) # 0
    <3>1. t # NULL /\ Len(s) \in Nat \ {0}
      BY <1>1, <2>2
    <3>2. at(r, Len(s) + 1) = at(s, Len(s))
      BY <1>2, <3>1
    <3> QED BY <1>1, <1>2, <3>1, <3>2
  <2> QED BY <2>1, <2>2
<1>4. ASSUME NEW i \in 1 .. Len(r) PROVE M[r[i]] = at(r, i - 1)
  <2>1. CASE i = 1
    BY <1>2, <2>1
  <2>2. CASE i # 1
    <3> DEFINE k == i - 1
    <3>1. k \in 1 .. Len(s) /\ k + 1 = i
      BY <1>1, <1>2, <2>2
    <3>2. r[i] = s[k] /\ M[s[k]] = IF k = 1 THEN n ELSE L[s[k]]
      BY <1>2, <3>1
    <3>3. CASE k = 1
      BY <1>2, <3>2, <3>3
    <3>4. CASE k # 1
      <4> DEFINE l == k - 1
      <4>1. l \in Nat \ {0} /\ l + 1 = k
        BY <3>1, <3>4
      <4>2. at(r, l + 1) = at(s, l) /\ M[s[k]] = at(s, l)
        BY <1>1, <1>2, <3>1, <3>2, <3>4, <4>1
      <4> QED BY <3>2, <4>1, <4>2
    <3> QED BY <3>3, <3>4
  <2> QED BY <2>1, <2>2
<1> QED BY <1>2, <1>3, <1>4 DEF Backs, r

\* Read from the end, the link back is a chain.
LEMMA BackIsChain ==
    ASSUME NEW L, NEW t, NEW s \in Backs(L, t)
    PROVE  Reverse(s) \in Chains(L, t)
<1> DEFINE r == Reverse(s)
           n == Len(s)
<1>1. /\ s \in Seq(Nodes) /\ Different(s) /\ t = at(s, n) /\ n \in Nat
      /\ \A i \in 1 .. n : L[s[i]] = at(s, i - 1)
      /\ \A i \in 1 .. n : s[i] \in Nodes
  BY Places DEF Backs
<1>2. r = [i \in 1 .. n |-> s[(n - i) + 1]]
  BY DEF Reverse
<1>3. \A i \in 1 .. n : (n - i) + 1 \in 1 .. n
  BY <1>1
<1> HIDE DEF r
<1>4. r \in [1 .. n -> Nodes]
  BY <1>1, <1>2, <1>3
<1>5. r \in Seq(Nodes) /\ Len(r) = n /\ \A i \in 1 .. n : r[i] = s[(n - i) + 1]
  BY <1>1, <1>2, <1>4, IsASeq
<1>6. Different(r)
  <2> SUFFICES ASSUME NEW i \in 1 .. n, NEW k \in 1 .. n, r[i] = r[k] PROVE i = k
    BY <1>5 DEF Different
  <2>1. (n - i) + 1 = (n - k) + 1
    <3>1. /\ (n - i) + 1 \in 1 .. n /\ (n - k) + 1 \in 1 .. n
          /\ s[(n - i) + 1] = s[(n - k) + 1]
      BY <1>3, <1>5
    <3> QED BY <1>1, <3>1 DEF Different
  <2> QED BY <1>1, <2>1
<1>7. \A i \in Nat : at(r, i) = at(s, (n - i) + 1)
  BY <1>1, <1>5 DEF at
<1>8. t = at(r, 1)
  <2>1. (n - 1) + 1 = n
    BY <1>1
  <2> QED BY <1>1, <1>7, <2>1
<1>9. ASSUME NEW i \in 1 .. Len(r) PROVE L[r[i]] = at(r, i + 1)
  <2> DEFINE k == (n - i) + 1
  <2>1. k \in 1 .. n /\ r[i] = s[k] /\ k - 1 = (n - (i + 1)) + 1 /\ i + 1 \in Nat
    BY <1>1, <1>3, <1>5
  <2>2. L[s[k]] = at(s, k - 1)
    BY <1>1, <2>1
  <2>3. at(r, i + 1) = at(s, (n - (i + 1)) + 1)
    BY <1>7, <2>1
  <2> QED BY <2>1, <2>2, <2>3
<1> QED BY <1>5, <1>6, <1>8, <1>9 DEF Chains, r

-----------------------------------------------------------------------------
(* What the operations change: every field, once.                            *)

Node == [key : Keys, value : Values, prev : Pointers, next : Pointers,
         hashNext : Pointers]
Heap == [node : [Nodes -> Node], head : Pointers, tail : Pointers, count : Int,
         hashTable : [Buckets -> Pointers]]

\* The heaps with the same list, those with the same entries.
SameLinks(h) ==
    {g \in Heap : /\ g.head = h.head /\ g.tail = h.tail
                  /\ \A m \in Nodes : /\ g.node[m].next = h.node[m].next
                                     /\ g.node[m].prev = h.node[m].prev}
SameEntries(h) ==
    {g \in Heap : \A m \in Nodes : /\ g.node[m].key = h.node[m].key
                                  /\ g.node[m].value = h.node[m].value}

LEMMA HeapFields ==
    ASSUME NEW h \in Heap
    PROVE  /\ h.node \in [Nodes -> Node] /\ h.head \in Pointers /\ h.tail \in Pointers
           /\ h.count \in Int /\ h.hashTable \in [Buckets -> Pointers]
           /\ \A n \in Nodes :
                /\ h.node[n] \in Node /\ h.node[n].key \in Keys
                /\ h.node[n].next \in Pointers /\ h.node[n].prev \in Pointers
                /\ h.node[n].hashNext \in Pointers
                /\ getHashIndex(h.node[n].key) \in Buckets
           /\ field(h, "next") \in [Nodes -> Pointers]
           /\ field(h, "prev") \in [Nodes -> Pointers]
           /\ field(h, "hashNext") \in [Nodes -> Pointers]
<1>1. /\ h.node \in [Nodes -> Node] /\ h.head \in Pointers /\ h.tail \in Pointers
      /\ h.count \in Int /\ h.hashTable \in [Buckets -> Pointers]
  BY DEF Heap
<1>2. ASSUME NEW n \in Nodes
      PROVE  /\ h.node[n] \in Node /\ h.node[n].key \in Keys
             /\ h.node[n].next \in Pointers /\ h.node[n].prev \in Pointers
             /\ h.node[n].hashNext \in Pointers
  <2>1. h.node[n] \in Node
    BY <1>1
  <2> QED BY <2>1 DEF Node
<1>3. \A k \in Keys : getHashIndex(k) \in Buckets
  BY LruAssumption DEF getHashIndex, Buckets
<1>4. /\ field(h, "next") \in [Nodes -> Pointers]
      /\ field(h, "prev") \in [Nodes -> Pointers]
      /\ field(h, "hashNext") \in [Nodes -> Pointers]
  BY <1>2 DEF field
<1> QED BY <1>1, <1>2, <1>3, <1>4

LEMMA DetachFields ==
    ASSUME NEW h \in Heap, NEW n \in Nodes
    PROVE  LET g == detachNode(h, n)
               p == h.node[n].prev
               x == h.node[n].next
           IN  /\ g \in Heap
               /\ g.head = IF p = NULL THEN x ELSE h.head
               /\ g.tail = IF x = NULL THEN p ELSE h.tail
               /\ g.count = h.count /\ g.hashTable = h.hashTable
               /\ \A m \in Nodes :
                    /\ g.node[m].key = h.node[m].key
                    /\ g.node[m].value = h.node[m].value
                    /\ g.node[m].hashNext = h.node[m].hashNext
                    /\ g.node[m].next = IF m = p THEN x ELSE h.node[m].next
                    /\ g.node[m].prev = IF m = x THEN p ELSE h.node[m].prev
<1> DEFINE g == detachNode(h, n)
           p == h.node[n].prev
           x == h.node[n].next
           new == [m \in Nodes |->
                     [h.node[m] EXCEPT !.next = IF m = p THEN x ELSE @,
                                       !.prev = IF m = x THEN p ELSE @]]
<1>1. /\ h.node \in [Nodes -> Node] /\ h.head \in Pointers /\ h.tail \in Pointers
      /\ p \in Pointers /\ x \in Pointers /\ \A m \in Nodes : h.node[m] \in Node
  BY HeapFields
<1>2. g = [h EXCEPT !.head = IF p = NULL THEN x ELSE @,
                    !.tail = IF x = NULL THEN p ELSE @,
                    !.node = new]
  BY DEF detachNode
<1> HIDE DEF g, p, x
<1>3. ASSUME NEW m \in Nodes
      PROVE  /\ new[m] \in Node
             /\ new[m].key = h.node[m].key /\ new[m].value = h.node[m].value
             /\ new[m].hashNext = h.node[m].hashNext
             /\ new[m].next = IF m = p THEN x ELSE h.node[m].next
             /\ new[m].prev = IF m = x THEN p ELSE h.node[m].prev
  <2>1. /\ h.node[m] \in Node
        /\ new[m] = [h.node[m] EXCEPT !.next = IF m = p THEN x ELSE @,
                                      !.prev = IF m = x THEN p ELSE @]
    BY <1>1
  <2> QED BY <1>1, <2>1 DEF Node
<1>4. new \in [Nodes -> Node]
  BY <1>3
<1> HIDE DEF new
<1>5. /\ g \in Heap /\ g.node = new
      /\ g.head = IF p = NULL THEN x ELSE h.head
      /\ g.tail = IF x = NULL THEN p ELSE h.tail
      /\ g.count = h.count /\ g.hashTable = h.hashTable
  BY <1>1, <1>2, <1>4 DEF Heap
<1> QED BY <1>3, <1>5 DEF g, p, x

LEMMA InsertFields ==
    ASSUME NEW h \in Heap, NEW n \in Nodes
    PROVE  LET g == insertAtHead(h, n)
           IN  /\ g \in Heap
               /\ g.head = n
               /\ g.tail = IF h.tail = NULL THEN n ELSE h.tail
               /\ g.count = h.count /\ g.hashTable = h.hashTable
               /\ \A m \in Nodes :
                    /\ g.node[m].key = h.node[m].key
                    /\ g.node[m].value = h.node[m].value
                    /\ g.node[m].hashNext = h.node[m].hashNext
                    /\ g.node[m].next = IF m = n THEN h.head ELSE h.node[m].next
                    /\ g.node[m].prev = IF m = h.head THEN n
                                        ELSE IF m = n THEN NULL ELSE h.node[m].prev
<1> DEFINE g == insertAtHead(h, n)
           p == h.head
           new == [m \in Nodes |->
                     [h.node[m] EXCEPT !.next = IF m = n THEN p ELSE @,
                                       !.prev = IF m = p THEN n
                                                ELSE IF m = n THEN NULL ELSE @]]
<1>1. /\ h.node \in [Nodes -> Node] /\ p \in Pointers /\ h.tail \in Pointers
      /\ n \in Pointers /\ NULL \in Pointers /\ \A m \in Nodes : h.node[m] \in Node
  BY HeapFields DEF Pointers
<1>2. g = [h EXCEPT !.head = n, !.tail = IF @ = NULL THEN n ELSE @, !.node = new]
  BY DEF insertAtHead
<1> HIDE DEF g, p
<1>3. ASSUME NEW m \in Nodes
      PROVE  /\ new[m] \in Node
             /\ new[m].key = h.node[m].key /\ new[m].value = h.node[m].value
             /\ new[m].hashNext = h.node[m].hashNext
             /\ new[m].next = IF m = n THEN p ELSE h.node[m].next
             /\ new[m].prev = IF m = p THEN n ELSE IF m = n THEN NULL ELSE h.node[m].prev
  <2>1. /\ h.node[m] \in Node
        /\ new[m] = [h.node[m] EXCEPT !.next = IF m = n THEN p ELSE @,
                                      !.prev = IF m = p THEN n
                                               ELSE IF m = n THEN NULL ELSE @]
    BY <1>1
  <2> QED BY <1>1, <2>1 DEF Node
<1>4. new \in [Nodes -> Node]
  BY <1>3
<1> HIDE DEF new
<1>5. /\ g \in Heap /\ g.node = new /\ g.head = n
      /\ g.tail = IF h.tail = NULL THEN n ELSE h.tail
      /\ g.count = h.count /\ g.hashTable = h.hashTable
  BY <1>1, <1>2, <1>4 DEF Heap
<1> QED BY <1>3, <1>5 DEF g, p

-----------------------------------------------------------------------------
(* The list in order of use.                                                 *)

Lists(h) == Chains(field(h, "next"), h.head) \cap Backs(field(h, "prev"), h.tail)

LEMMA ListProps ==
    ASSUME NEW h \in Heap, NEW s \in Lists(h)
    PROVE  /\ s \in Seq(Nodes) /\ Different(s) /\ Len(s) \in Nat
           /\ h.head = at(s, 1) /\ h.tail = at(s, Len(s))
           /\ \A i \in 1 .. Len(s) :
                /\ s[i] \in Nodes /\ s[i] # NULL /\ s[i] \in ToSet(s)
                /\ h.node[s[i]].next = at(s, i + 1)
                /\ h.node[s[i]].prev = at(s, i - 1)
           /\ \A i, j \in 1 .. Len(s) : s[i] = s[j] => i = j
<1>1. /\ s \in Seq(Nodes) /\ Different(s) /\ h.head = at(s, 1) /\ h.tail = at(s, Len(s))
      /\ \A i \in 1 .. Len(s) : /\ field(h, "next")[s[i]] = at(s, i + 1)
                               /\ field(h, "prev")[s[i]] = at(s, i - 1)
  BY DEF Lists, Chains, Backs
<1>2. /\ Len(s) \in Nat /\ \A i \in 1 .. Len(s) : s[i] \in Nodes /\ s[i] # NULL
      /\ ToSet(s) = {s[i] : i \in 1 .. Len(s)}
  BY <1>1, Places
<1>3. \A n \in Nodes : /\ field(h, "next")[n] = h.node[n].next
                      /\ field(h, "prev")[n] = h.node[n].prev
  BY DEF field
<1> QED BY <1>1, <1>2, <1>3 DEF Different

\* A node that is detached leaves the list, which is whole again.
LEMMA DetachList ==
    ASSUME NEW h \in Heap, NEW s \in Lists(h), NEW j \in 1 .. Len(s)
    PROVE  RemoveAt(s, j) \in Lists(detachNode(h, s[j]))
<1> DEFINE n == s[j]
           g == detachNode(h, n)
           p == h.node[n].prev
           x == h.node[n].next
<1>1. /\ s \in Seq(Nodes) /\ Len(s) \in Nat
      /\ \A i \in 1 .. Len(s) : s[i] \in Nodes /\ s[i] # NULL
      /\ \A i, k \in 1 .. Len(s) : s[i] = s[k] => i = k
      /\ n \in Nodes /\ p = at(s, j - 1) /\ x = at(s, j + 1)
  BY ListProps
<1> HIDE DEF n
<1>2. /\ g.head = IF p = NULL THEN x ELSE h.head
      /\ g.tail = IF x = NULL THEN p ELSE h.tail
      /\ \A m \in Nodes :
           /\ g.node[m].next = IF m = p THEN x ELSE h.node[m].next
           /\ g.node[m].prev = IF m = x THEN p ELSE h.node[m].prev
  <2>1. n \in Nodes
    BY <1>1
  <2> QED BY <2>1, DetachFields
<1> HIDE DEF g, p, x
<1>3. /\ p = NULL <=> j = 1
      /\ x = NULL <=> j = Len(s)
      /\ \A i \in 1 .. Len(s) : s[i] = p <=> i = j - 1
      /\ \A i \in 1 .. Len(s) : s[i] = x <=> i = j + 1
  BY <1>1 DEF at
<1> DEFINE L == field(h, "next")
           M == field(g, "next")
           B == field(h, "prev")
           C == field(g, "prev")
<1>4. \A m \in Nodes : /\ L[m] = h.node[m].next /\ M[m] = g.node[m].next
                      /\ B[m] = h.node[m].prev /\ C[m] = g.node[m].prev
  BY DEF field
<1>5. s \in Chains(L, h.head) /\ s \in Backs(B, h.tail)
  BY DEF Lists
<1>6. L[s[j]] = x /\ B[s[j]] = p
  BY <1>1, <1>4 DEF n, p, x
<1> HIDE DEF L, M, B, C
<1>7. \A i \in 1 .. Len(s) : i # j => M[s[i]] = IF i = j - 1 THEN L[s[j]] ELSE L[s[i]]
  BY <1>1, <1>2, <1>3, <1>4, <1>6
<1>8. \A i \in 1 .. Len(s) : i # j => C[s[i]] = IF i = j + 1 THEN B[s[j]] ELSE B[s[i]]
  BY <1>1, <1>2, <1>3, <1>4, <1>6
<1>9. g.head = IF j = 1 THEN L[s[j]] ELSE h.head
  BY <1>2, <1>3, <1>6
<1>10. g.tail = IF j = Len(s) THEN B[s[j]] ELSE h.tail
  BY <1>2, <1>3, <1>6
<1>11. RemoveAt(s, j) \in Chains(M, g.head)
  BY <1>5, <1>7, <1>9, ChainCut
<1>12. RemoveAt(s, j) \in Backs(C, g.tail)
  BY <1>5, <1>8, <1>10, BackCut
<1> QED BY <1>11, <1>12 DEF Lists, M, C, g, n

\* A node that was not in the list is its first one after insertAtHead.
LEMMA InsertList ==
    ASSUME NEW h \in Heap, NEW s \in Lists(h), NEW n \in Nodes, n \notin ToSet(s)
    PROVE  <<n>> \o s \in Lists(insertAtHead(h, n))
<1> DEFINE g == insertAtHead(h, n)
           L == field(h, "next")
           M == field(g, "next")
           B == field(h, "prev")
           C == field(g, "prev")
<1>1. /\ s \in Seq(Nodes) /\ Len(s) \in Nat /\ h.head = at(s, 1)
      /\ \A i \in 1 .. Len(s) : s[i] \in Nodes /\ s[i] # NULL /\ s[i] # n
      /\ \A i, k \in 1 .. Len(s) : s[i] = s[k] => i = k
  BY ListProps
<1>2. /\ g.head = n /\ g.tail = IF h.tail = NULL THEN n ELSE h.tail
      /\ \A m \in Nodes :
           /\ g.node[m].next = IF m = n THEN h.head ELSE h.node[m].next
           /\ g.node[m].prev = IF m = h.head THEN n
                               ELSE IF m = n THEN NULL ELSE h.node[m].prev
  BY InsertFields
<1>3. \A m \in Nodes : /\ L[m] = h.node[m].next /\ M[m] = g.node[m].next
                      /\ B[m] = h.node[m].prev /\ C[m] = g.node[m].prev
  BY DEF field
<1>4. s \in Chains(L, h.head) /\ s \in Backs(B, h.tail)
  BY DEF Lists
<1>5. (\A i \in 1 .. Len(s) : s[i] = h.head <=> i = 1) /\ h.head # n
  BY <1>1, LruAssumption DEF at
<1> HIDE DEF g, L, M, B, C
<1>6. (\A i \in 1 .. Len(s) : M[s[i]] = L[s[i]]) /\ M[n] = h.head
  BY <1>1, <1>2, <1>3
<1>7. (\A i \in 1 .. Len(s) : C[s[i]] = IF i = 1 THEN n ELSE B[s[i]]) /\ C[n] = NULL
  BY <1>1, <1>2, <1>3, <1>5
<1>8. <<n>> \o s \in Chains(M, n)
  BY <1>4, <1>6, ChainPush
<1>9. <<n>> \o s \in Backs(C, g.tail)
  BY <1>2, <1>4, <1>7, BackPush
<1> QED BY <1>2, <1>8, <1>9 DEF Lists, M, C, g

\* A node that is used goes to the front.
LEMMA TouchList ==
    ASSUME NEW h \in Heap, NEW s \in Lists(h), NEW j \in 1 .. Len(s), NEW n, n = s[j]
    PROVE  /\ touch(h, n) \in Heap
           /\ <<n>> \o RemoveAt(s, j) \in Lists(touch(h, n))
           /\ ToSet(<<n>> \o RemoveAt(s, j)) = ToSet(s)
           /\ Len(<<n>> \o RemoveAt(s, j)) = Len(s)
           /\ touch(h, n).count = h.count /\ touch(h, n).hashTable = h.hashTable
           /\ \A m \in Nodes : /\ touch(h, n).node[m].key = h.node[m].key
                              /\ touch(h, n).node[m].value = h.node[m].value
                              /\ touch(h, n).node[m].hashNext = h.node[m].hashNext
<1> DEFINE r == RemoveAt(s, j)
           d == detachNode(h, n)
           g == insertAtHead(d, n)
<1>1. /\ s \in Seq(Nodes) /\ Different(s) /\ Len(s) \in Nat /\ n \in Nodes
      /\ n \in ToSet(s)
  BY ListProps
<1>2. /\ r \in Seq(Nodes) /\ Different(r) /\ Len(r) = Len(s) - 1
      /\ ToSet(r) = ToSet(s) \ {n}
  BY <1>1, CutOutOfChain
<1>3. r \in Lists(d)
  BY DetachList
<1>4. /\ d \in Heap /\ d.count = h.count /\ d.hashTable = h.hashTable
      /\ \A m \in Nodes : /\ d.node[m].key = h.node[m].key
                         /\ d.node[m].value = h.node[m].value
                         /\ d.node[m].hashNext = h.node[m].hashNext
  <2>1. n \in Nodes
    BY <1>1
  <2> QED BY <2>1, DetachFields
<1> HIDE DEF r, d
<1>5. <<n>> \o r \in Lists(g)
  BY <1>1, <1>2, <1>3, <1>4, InsertList
<1>6. /\ g \in Heap /\ g.count = d.count /\ g.hashTable = d.hashTable
      /\ \A m \in Nodes : /\ g.node[m].key = d.node[m].key
                         /\ g.node[m].value = d.node[m].value
                         /\ g.node[m].hashNext = d.node[m].hashNext
  <2>1. n \in Nodes /\ d \in Heap
    BY <1>1, <1>4
  <2> QED BY <2>1, InsertFields
<1>7. /\ ToSet(<<n>> \o r) = ToSet(r) \cup {n} /\ Len(<<n>> \o r) = Len(r) + 1
  BY <1>1, <1>2, PutFirst
<1>8. touch(h, n) = g
  BY DEF touch, d
<1> HIDE DEF g
<1>9. ToSet(<<n>> \o r) = ToSet(s) /\ Len(<<n>> \o r) = Len(s)
  <2>1. Len(<<n>> \o r) = Len(s)
    BY <1>1, <1>2, <1>7
  <2>2. ToSet(<<n>> \o r) = (ToSet(s) \ {n}) \cup {n}
    BY <1>2, <1>7
  <2>3. ToSet(<<n>> \o r) = ToSet(s)
    BY <1>1, <2>2
  <2> QED BY <2>1, <2>3
<1>10. \A m \in Nodes : /\ g.node[m].key = h.node[m].key
                      /\ g.node[m].value = h.node[m].value
                      /\ g.node[m].hashNext = h.node[m].hashNext
  BY <1>4, <1>6
<1> QED BY <1>4, <1>5, <1>6, <1>8, <1>9, <1>10 DEF r

-----------------------------------------------------------------------------
(* The hash table.                                                           *)

\* The chains of the buckets when the nodes of A are in the table.
Tables(h, A) ==
    {T \in [Buckets -> Seq(Nodes)] :
        \A b \in Buckets :
            /\ T[b] \in Chains(field(h, "hashNext"), h.hashTable[b])
            /\ ToSet(T[b]) = {n \in A : getHashIndex(h.node[n].key) = b}}

LEMMA TableProps ==
    ASSUME NEW h \in Heap, NEW A \in SUBSET Nodes, NEW T \in Tables(h, A), NEW b \in Buckets
    PROVE  /\ T[b] \in Seq(Nodes) /\ Different(T[b]) /\ Len(T[b]) \in Nat
           /\ T[b] \in Chains(field(h, "hashNext"), h.hashTable[b])
           /\ ToSet(T[b]) = {n \in A : getHashIndex(h.node[n].key) = b}
           /\ h.hashTable[b] = at(T[b], 1)
           /\ \A i \in 1 .. Len(T[b]) :
                /\ T[b][i] \in A /\ T[b][i] \in Nodes
                /\ getHashIndex(h.node[T[b][i]].key) = b
<1>1. /\ T[b] \in Chains(field(h, "hashNext"), h.hashTable[b])
      /\ ToSet(T[b]) = {n \in A : getHashIndex(h.node[n].key) = b}
  BY DEF Tables
<1>2. T[b] \in Seq(Nodes) /\ Different(T[b]) /\ h.hashTable[b] = at(T[b], 1)
  BY <1>1 DEF Chains
<1>3. Len(T[b]) \in Nat /\ ToSet(T[b]) = {T[b][i] : i \in 1 .. Len(T[b])}
  BY <1>2, Places
<1>4. \A i \in 1 .. Len(T[b]) : T[b][i] \in ToSet(T[b])
  BY <1>3
<1> QED BY <1>1, <1>2, <1>3, <1>4

\* The walk along a bucket is its chain.
LEMMA BucketIsChain ==
    ASSUME NEW h \in Heap, NEW A \in SUBSET Nodes, NEW T \in Tables(h, A), NEW k \in Keys
    PROVE  getHashIndex(k) \in Buckets /\ bucket(h, k) = T[getHashIndex(k)]
<1> DEFINE b == getHashIndex(k)
           L == field(h, "hashNext")
<1>1. b \in Buckets
  BY LruAssumption DEF getHashIndex, Buckets
<1>2. L \in [Nodes -> Pointers] /\ T[b] \in Chains(L, h.hashTable[b])
  BY <1>1, HeapFields, TableProps
<1> HIDE DEF L, b
<1>3. linked(h, "hashNext", h.hashTable[b]) = T[b]
  BY <1>2, WalkIsChain DEF L
<1> QED BY <1>1, <1>3 DEF bucket, b

\* A lookup finds the nodes of the key, and there is at most one.
LEMMA FoundIsThere ==
    ASSUME NEW h \in Heap, NEW A \in SUBSET Nodes, NEW T \in Tables(h, A), NEW k \in Keys,
           \A m, n \in A : h.node[m].key = h.node[n].key => m = n
    PROVE  found(h, k) = {n \in A : h.node[n].key = k}
<1> DEFINE c == bucket(h, k)
           b == getHashIndex(k)
           first == {j \in DOMAIN c : /\ h.node[c[j]].key = k
                                     /\ \A m \in 1 .. j - 1 : h.node[c[m]].key # k}
<1>1. b \in Buckets /\ c = T[b]
  BY BucketIsChain
<1>2. /\ c \in Seq(Nodes) /\ Different(c) /\ Len(c) \in Nat
      /\ ToSet(c) = {n \in A : getHashIndex(h.node[n].key) = b}
      /\ \A i \in 1 .. Len(c) : c[i] \in A
  BY <1>1, TableProps
<1>3. DOMAIN c = 1 .. Len(c) /\ ToSet(c) = {c[i] : i \in 1 .. Len(c)}
  BY <1>2, Places, LenProperties
<1>4. found(h, k) = {c[i] : i \in first}
  BY DEF found
<1> HIDE DEF c
<1>5. \A i \in first : c[i] \in A /\ h.node[c[i]].key = k
  BY <1>2, <1>3
<1>6. ASSUME NEW n \in A, h.node[n].key = k PROVE \E i \in first : c[i] = n
  <2>1. n \in ToSet(c)
    BY <1>2, <1>6
  <2>2. PICK i \in 1 .. Len(c) : c[i] = n
    BY <1>3, <2>1
  <2>3. ASSUME NEW m \in 1 .. i - 1 PROVE h.node[c[m]].key # k
    <3>1. m \in 1 .. Len(c) /\ m # i
      BY <1>2, <2>2
    <3>2. c[m] \in A /\ c[m] # n
      BY <1>2, <2>2, <3>1 DEF Different
    <3> QED BY <1>6, <3>2
  <2>4. i \in first
    BY <1>3, <1>6, <2>2, <2>3
  <2> QED BY <2>2, <2>4
<1> HIDE DEF first
<1> QED BY <1>4, <1>5, <1>6

\* What is not in the table does not matter.
LEMMA TableStays ==
    ASSUME NEW h \in Heap, NEW g \in Heap, NEW A \in SUBSET Nodes, NEW T \in Tables(h, A),
           g.hashTable = h.hashTable,
           \A n \in A : /\ g.node[n].key = h.node[n].key
                       /\ g.node[n].hashNext = h.node[n].hashNext
    PROVE  T \in Tables(g, A)
<1> DEFINE L == field(h, "hashNext")
           M == field(g, "hashNext")
<1>1. T \in [Buckets -> Seq(Nodes)]
  BY DEF Tables
<1>2. \A n \in A : M[n] = L[n]
  BY DEF field
<1> HIDE DEF L, M
<1>3. ASSUME NEW b \in Buckets
      PROVE  /\ T[b] \in Chains(M, g.hashTable[b])
             /\ ToSet(T[b]) = {n \in A : getHashIndex(g.node[n].key) = b}
  <2>1. /\ T[b] \in Seq(Nodes) /\ T[b] \in Chains(L, h.hashTable[b])
        /\ ToSet(T[b]) = {n \in A : getHashIndex(h.node[n].key) = b}
        /\ \A i \in 1 .. Len(T[b]) : T[b][i] \in A
    BY TableProps DEF L
  <2>2. \A i \in 1 .. Len(T[b]) : M[T[b][i]] = L[T[b][i]]
    BY <1>2, <2>1
  <2>3. T[b] \in Chains(M, h.hashTable[b])
    BY <2>1, <2>2, ChainStays
  <2> QED BY <2>1, <2>3
<1> QED BY <1>1, <1>3 DEF Tables, M

\* What removeFromHashTable changes: the link to the node, where it is found in
\* its bucket.
LEMMA UnhashFields ==
    ASSUME NEW h \in Heap, NEW n \in Nodes, bucket(h, h.node[n].key) \in Seq(Nodes)
    PROVE  LET g == removeFromHashTable(h, n)
               x == h.node[n].hashNext
               b == getHashIndex(h.node[n].key)
               c == bucket(h, h.node[n].key)
           IN  /\ g \in SameLinks(h) /\ g \in SameEntries(h) /\ g.count = h.count
               /\ g.hashTable = IF h.hashTable[b] = n THEN [h.hashTable EXCEPT ![b] = x]
                                ELSE h.hashTable
               /\ \A m \in Nodes :
                    /\ g.node[m].key = h.node[m].key
                    /\ g.node[m].hashNext =
                         IF /\ h.hashTable[b] # n
                            /\ \E i \in 1 .. Len(c) - 1 : c[i + 1] = n /\ m = c[i]
                         THEN x ELSE h.node[m].hashNext
<1> DEFINE g == removeFromHashTable(h, n)
           x == h.node[n].hashNext
           b == getHashIndex(h.node[n].key)
           c == bucket(h, h.node[n].key)
           prev == {c[i] : i \in {j \in 1 .. Len(c) - 1 : c[j + 1] = n}}
           new == [m \in Nodes |-> IF m \in prev THEN [h.node[m] EXCEPT !.hashNext = x]
                                   ELSE h.node[m]]
<1>1. /\ h.node \in [Nodes -> Node] /\ x \in Pointers /\ b \in Buckets
      /\ h.hashTable \in [Buckets -> Pointers]
      /\ \A m \in Nodes : h.node[m] \in Node
  BY HeapFields
<1>2. g = IF h.hashTable[b] = n THEN [h EXCEPT !.hashTable[b] = x]
          ELSE [h EXCEPT !.node = new]
  BY DEF removeFromHashTable
<1>3. \A m \in Nodes : m \in prev <=> \E i \in 1 .. Len(c) - 1 : c[i + 1] = n /\ m = c[i]
  OBVIOUS
<1> HIDE DEF g, x, prev, b, c
<1>4. CASE h.hashTable[b] = n
  <2>1. g = [h EXCEPT !.hashTable[b] = x]
    BY <1>2, <1>4
  <2>2. [h.hashTable EXCEPT ![b] = x] \in [Buckets -> Pointers]
    BY <1>1
  <2>3. /\ g \in Heap /\ g.head = h.head /\ g.tail = h.tail /\ g.count = h.count
        /\ g.hashTable = [h.hashTable EXCEPT ![b] = x] /\ g.node = h.node
    BY <2>1, <2>2 DEF Heap
  <2>4. g \in SameLinks(h) /\ g \in SameEntries(h)
    BY <2>3 DEF SameLinks, SameEntries
  <2> QED BY <1>4, <2>3, <2>4 DEF g, x, b, c
<1>5. CASE h.hashTable[b] # n
  <2>1. g = [h EXCEPT !.node = new]
    BY <1>2, <1>5
  <2>2. ASSUME NEW m \in Nodes
        PROVE  /\ new[m] \in Node
               /\ new[m].key = h.node[m].key /\ new[m].value = h.node[m].value
               /\ new[m].next = h.node[m].next /\ new[m].prev = h.node[m].prev
               /\ new[m].hashNext = IF m \in prev THEN x ELSE h.node[m].hashNext
    <3>1. h.node[m] \in Node
      BY <1>1
    <3>2. CASE m \in prev
      BY <1>1, <3>1, <3>2 DEF Node
    <3>3. CASE m \notin prev
      BY <1>1, <3>1, <3>3 DEF Node
    <3> QED BY <3>2, <3>3
  <2>3. new \in [Nodes -> Node]
    BY <2>2
  <2> HIDE DEF new
  <2>4. /\ g \in Heap /\ g.head = h.head /\ g.tail = h.tail /\ g.count = h.count
        /\ g.hashTable = h.hashTable /\ g.node = new
    BY <2>1, <2>3 DEF Heap
  <2>5. g \in SameLinks(h) /\ g \in SameEntries(h)
    BY <2>2, <2>4 DEF SameLinks, SameEntries
  <2> QED BY <1>3, <1>5, <2>2, <2>4, <2>5 DEF g, x, b, c
<1> QED BY <1>4, <1>5

\* A node leaves its chain, and the other chains are what they were.
LEMMA UnhashTable ==
    ASSUME NEW h \in Heap, NEW A \in SUBSET Nodes, NEW T \in Tables(h, A), NEW n \in A
    PROVE  \E U : U \in Tables(removeFromHashTable(h, n), A \ {n})
<1> DEFINE g == removeFromHashTable(h, n)
           k == h.node[n].key
           b == getHashIndex(k)
           c == T[b]
           L == field(h, "hashNext")
           M == field(g, "hashNext")
<1>1. n \in Nodes /\ k \in Keys /\ b \in Buckets /\ bucket(h, k) = c
  BY HeapFields, BucketIsChain
<1>2. /\ c \in Seq(Nodes) /\ Different(c) /\ Len(c) \in Nat
      /\ c \in Chains(L, h.hashTable[b]) /\ h.hashTable[b] = at(c, 1)
      /\ ToSet(c) = {m \in A : getHashIndex(h.node[m].key) = b}
      /\ \A i \in 1 .. Len(c) : c[i] \in Nodes
  BY <1>1, TableProps
<1> HIDE DEF c
<1>3. n \in ToSet(c) /\ ToSet(c) = {c[i] : i \in 1 .. Len(c)}
  BY <1>2, Places
<1>4. PICK j \in 1 .. Len(c) : c[j] = n
  BY <1>3
<1>5. \A i \in 1 .. Len(c) : c[i] = n <=> i = j
  BY <1>4, <1>2 DEF Different
<1>6. h.hashTable[b] = n <=> j = 1
  BY <1>2, <1>4, <1>5 DEF at
<1>7. /\ g.hashTable = IF h.hashTable[b] = n
                       THEN [h.hashTable EXCEPT ![b] = h.node[n].hashNext] ELSE h.hashTable
      /\ \A m \in Nodes :
           /\ g.node[m].key = h.node[m].key
           /\ g.node[m].hashNext =
                IF /\ h.hashTable[b] # n
                   /\ \E i \in 1 .. Len(c) - 1 : c[i + 1] = n /\ m = c[i]
                THEN h.node[n].hashNext ELSE h.node[m].hashNext
  <2>1. n \in Nodes /\ bucket(h, h.node[n].key) \in Seq(Nodes)
    BY <1>1, <1>2
  <2>2. /\ g.hashTable = IF h.hashTable[b] = n
                         THEN [h.hashTable EXCEPT ![b] = h.node[n].hashNext]
                         ELSE h.hashTable
        /\ \A m \in Nodes :
             /\ g.node[m].key = h.node[m].key
             /\ g.node[m].hashNext =
                  IF /\ h.hashTable[b] # n
                     /\ \E i \in 1 .. Len(bucket(h, k)) - 1 :
                          bucket(h, k)[i + 1] = n /\ m = bucket(h, k)[i]
                  THEN h.node[n].hashNext ELSE h.node[m].hashNext
    BY <2>1, UnhashFields
  <2> HIDE DEF g, k, b
  <2> QED BY <1>1, <2>2
<1>8. \A m \in Nodes : L[m] = h.node[m].hashNext /\ M[m] = g.node[m].hashNext
  BY DEF field
<1>9. T \in [Buckets -> Seq(Nodes)]
  BY DEF Tables
<1>10. h.hashTable \in [Buckets -> Pointers]
  BY HeapFields
<1> HIDE DEF g, k, b, L, M
<1>11. \A m \in Nodes :
          M[m] = IF j # 1 /\ m = c[j - 1] THEN L[n] ELSE L[m]
  <2> SUFFICES ASSUME NEW m \in Nodes
               PROVE  M[m] = IF j # 1 /\ m = c[j - 1] THEN L[n] ELSE L[m]
    OBVIOUS
  <2>1. (\E i \in 1 .. Len(c) - 1 : c[i + 1] = n /\ m = c[i]) <=> (j # 1 /\ m = c[j - 1])
    <3>1. ASSUME NEW i \in 1 .. Len(c) - 1, c[i + 1] = n, m = c[i]
          PROVE  j # 1 /\ m = c[j - 1]
      <4>1. i + 1 \in 1 .. Len(c) /\ i \in Nat /\ i # 0
        BY <1>2
      <4>2. i + 1 = j
        BY <1>5, <3>1, <4>1
      <4>3. j - 1 = i /\ j # 1
        BY <4>1, <4>2
      <4> QED BY <3>1, <4>3
    <3>2. ASSUME j # 1, m = c[j - 1]
          PROVE  \E i \in 1 .. Len(c) - 1 : c[i + 1] = n /\ m = c[i]
      <4> DEFINE i == j - 1
      <4>1. i \in 1 .. Len(c) - 1 /\ i + 1 = j
        BY <1>2, <3>2
      <4>2. c[i + 1] = n /\ m = c[i]
        BY <1>4, <3>2, <4>1
      <4> QED BY <4>1, <4>2
    <3> QED BY <3>1, <3>2
  <2> QED BY <1>1, <1>6, <1>7, <1>8, <2>1
<1> DEFINE U == [T EXCEPT ![b] = RemoveAt(c, j)]
<1>12. /\ RemoveAt(c, j) \in Seq(Nodes) /\ ToSet(RemoveAt(c, j)) = ToSet(c) \ {n}
  BY <1>2, <1>4, CutOutOfChain
<1>13. RemoveAt(c, j) \in Chains(M, g.hashTable[b])
  <2>1. \A i \in 1 .. Len(c) : i # j => M[c[i]] = IF i = j - 1 THEN L[c[j]] ELSE L[c[i]]
    <3> SUFFICES ASSUME NEW i \in 1 .. Len(c), i # j
                 PROVE  M[c[i]] = IF i = j - 1 THEN L[c[j]] ELSE L[c[i]]
      OBVIOUS
    <3>1. i = j - 1 <=> (j # 1 /\ c[i] = c[j - 1])
      <4>1. ASSUME j # 1, c[i] = c[j - 1] PROVE i = j - 1
        <5>1. j - 1 \in 1 .. Len(c)
          BY <1>2, <4>1
        <5> QED BY <1>2, <4>1, <5>1 DEF Different
      <4>2. ASSUME i = j - 1 PROVE j # 1 /\ c[i] = c[j - 1]
        BY <1>2, <4>2
      <4> QED BY <4>1, <4>2
    <3>2. M[c[i]] = IF j # 1 /\ c[i] = c[j - 1] THEN L[n] ELSE L[c[i]]
      BY <1>2, <1>11
    <3> QED BY <1>4, <3>1, <3>2
  <2>2. g.hashTable[b] = IF j = 1 THEN L[c[j]] ELSE h.hashTable[b]
    BY <1>1, <1>4, <1>6, <1>7, <1>8, <1>10
  <2> QED BY <1>2, <2>1, <2>2, ChainCut
<1>14. ASSUME NEW d \in Buckets
       PROVE  /\ U[d] \in Seq(Nodes) /\ U[d] \in Chains(M, g.hashTable[d])
              /\ ToSet(U[d]) = {m \in A \ {n} : getHashIndex(g.node[m].key) = d}
  <2>1. \A m \in A : g.node[m].key = h.node[m].key
    BY <1>7
  <2>2. CASE d = b
    <3>1. U[d] = RemoveAt(c, j)
      BY <1>9, <2>2
    <3>2. ToSet(U[d]) = {m \in A : getHashIndex(h.node[m].key) = d} \ {n}
      BY <1>2, <1>12, <2>2, <3>1
    <3> QED BY <1>12, <1>13, <2>1, <2>2, <3>1, <3>2
  <2>3. CASE d # b
    <3>1. /\ T[d] \in Seq(Nodes) /\ T[d] \in Chains(L, h.hashTable[d])
          /\ ToSet(T[d]) = {m \in A : getHashIndex(h.node[m].key) = d}
          /\ \A i \in 1 .. Len(T[d]) : /\ T[d][i] \in Nodes
                                      /\ getHashIndex(h.node[T[d][i]].key) = d
      BY TableProps DEF L
    <3>2. U[d] = T[d]
      BY <1>9, <2>3
    <3>3. \A i \in 1 .. Len(c) : getHashIndex(h.node[c[i]].key) = b
      BY <1>2, <1>3
    <3>4. ASSUME NEW i \in 1 .. Len(T[d]) PROVE M[T[d][i]] = L[T[d][i]]
      <4>1. CASE j # 1
        <5>1. j - 1 \in 1 .. Len(c)
          BY <1>2, <4>1
        <5>2. T[d][i] # c[j - 1]
          BY <2>3, <3>1, <3>3, <5>1
        <5> QED BY <1>11, <3>1, <5>2
      <4>2. CASE j = 1
        BY <1>11, <3>1, <4>2
      <4> QED BY <4>1, <4>2
    <3>5. g.hashTable[d] = h.hashTable[d]
      BY <1>7, <1>10, <2>3
    <3>6. T[d] \in Chains(M, g.hashTable[d])
      BY <3>1, <3>4, <3>5, ChainStays
    <3>7. getHashIndex(h.node[n].key) # d
      BY <2>3 DEF b, k
    <3>8. ToSet(T[d]) = {m \in A \ {n} : getHashIndex(g.node[m].key) = d}
      BY <2>1, <3>1, <3>7
    <3> QED BY <3>1, <3>2, <3>6, <3>8
  <2> QED BY <2>2, <2>3
<1>15. U \in [Buckets -> Seq(Nodes)]
  BY <1>9, <1>12
<1> HIDE DEF U
<1>16. U \in Tables(g, A \ {n})
  BY <1>14, <1>15 DEF Tables, M
<1> QED BY <1>16 DEF g

-----------------------------------------------------------------------------
(* Nodes that come and nodes that go.                                        *)

\* The list rests on head, tail and the links of its own nodes.
LEMMA ListStays ==
    ASSUME NEW h \in Heap, NEW g \in Heap, NEW s \in Lists(h),
           g.head = h.head, g.tail = h.tail,
           \A m \in ToSet(s) : /\ g.node[m].next = h.node[m].next
                              /\ g.node[m].prev = h.node[m].prev
    PROVE  s \in Lists(g)
<1> DEFINE L == field(h, "next")
           M == field(g, "next")
           B == field(h, "prev")
           C == field(g, "prev")
<1>1. /\ s \in Seq(Nodes)
      /\ \A i \in 1 .. Len(s) : s[i] \in Nodes /\ s[i] \in ToSet(s)
  BY ListProps
<1>2. \A m \in Nodes : /\ L[m] = h.node[m].next /\ M[m] = g.node[m].next
                      /\ B[m] = h.node[m].prev /\ C[m] = g.node[m].prev
  BY DEF field
<1>3. s \in Chains(L, h.head) /\ s \in Backs(B, h.tail)
  BY DEF Lists
<1> HIDE DEF L, M, B, C
<1>4. \A i \in 1 .. Len(s) : M[s[i]] = L[s[i]]
  BY <1>1, <1>2
<1>5. \A i \in 1 .. Len(s) : C[s[i]] = B[s[i]]
  BY <1>1, <1>2
<1>6. s \in Chains(M, h.head)
  BY <1>1, <1>3, <1>4, ChainStays
<1>7. s \in Backs(C, h.tail)
  BY <1>1, <1>3, <1>5, ChainStays
<1> QED BY <1>6, <1>7 DEF Lists, M, C

LEMMA AddFields ==
    ASSUME NEW h \in Heap, NEW n \in Nodes
    PROVE  LET g == addNode(h, n)
               i == insertAtHead(h, n)
               b == getHashIndex(h.node[n].key)
           IN  /\ g \in SameLinks(i) /\ g \in SameEntries(h)
               /\ g.count = h.count + 1
               /\ g.hashTable = [h.hashTable EXCEPT ![b] = n]
               /\ \A m \in Nodes :
                    /\ g.node[m].key = h.node[m].key
                    /\ g.node[m].hashNext = IF m = n THEN h.hashTable[b]
                                            ELSE h.node[m].hashNext
<1> DEFINE g == addNode(h, n)
           i == insertAtHead(h, n)
           b == getHashIndex(h.node[n].key)
           new == [i.node EXCEPT ![n].hashNext = i.hashTable[b]]
<1>1. /\ i \in Heap /\ i.count = h.count /\ i.hashTable = h.hashTable
      /\ \A m \in Nodes : /\ i.node[m].key = h.node[m].key
                         /\ i.node[m].value = h.node[m].value
                         /\ i.node[m].hashNext = h.node[m].hashNext
  BY InsertFields
<1>2. g = [i EXCEPT !.node = new, !.hashTable = [i.hashTable EXCEPT ![b] = n],
                    !.count = i.count + 1]
  BY <1>1 DEF addNode
<1>3. b \in Buckets
  BY HeapFields
<1> HIDE DEF g, i, b
<1>4. /\ i.node \in [Nodes -> Node] /\ i.hashTable \in [Buckets -> Pointers]
      /\ i.count \in Int /\ i.hashTable[b] \in Pointers
      /\ \A m \in Nodes : i.node[m] \in Node
  <2>1. /\ i.node \in [Nodes -> Node] /\ i.hashTable \in [Buckets -> Pointers]
        /\ i.count \in Int
    BY <1>1, HeapFields
  <2> QED BY <1>3, <2>1
<1>5. ASSUME NEW m \in Nodes
      PROVE  /\ new[m] \in Node
             /\ new[m].key = i.node[m].key /\ new[m].value = i.node[m].value
             /\ new[m].next = i.node[m].next /\ new[m].prev = i.node[m].prev
             /\ new[m].hashNext = IF m = n THEN i.hashTable[b] ELSE i.node[m].hashNext
  <2>1. i.node[m] \in Node
    BY <1>4
  <2>2. CASE m = n
    <3>1. new[m] = [i.node[m] EXCEPT !.hashNext = i.hashTable[b]]
      BY <1>4, <2>2
    <3> QED BY <1>4, <2>1, <2>2, <3>1 DEF Node
  <2>3. CASE m # n
    <3>1. new[m] = i.node[m]
      BY <1>4, <2>3
    <3> QED BY <2>1, <2>3, <3>1
  <2> QED BY <2>2, <2>3
<1>6. new \in [Nodes -> Node]
  <2>1. DOMAIN new = Nodes /\ new = [m \in Nodes |-> new[m]]
    BY <1>4
  <2> HIDE DEF new
  <2> QED BY <1>5, <2>1
<1>7. [i.hashTable EXCEPT ![b] = n] \in [Buckets -> Pointers]
  BY <1>4 DEF Pointers
<1> HIDE DEF new
<1>8. /\ g \in Heap /\ g.head = i.head /\ g.tail = i.tail
      /\ g.count = i.count + 1 /\ g.node = new
      /\ g.hashTable = [i.hashTable EXCEPT ![b] = n]
  <2> DEFINE tab == [i.hashTable EXCEPT ![b] = n]
             more == i.count + 1
  <2>1. tab \in [Buckets -> Pointers] /\ more \in Int
    BY <1>4, <1>7
  <2>2. g = [i EXCEPT !.node = new, !.hashTable = tab, !.count = more]
    BY <1>2
  <2> HIDE DEF tab, more
  <2>3. /\ g \in Heap /\ g.head = i.head /\ g.tail = i.tail
        /\ g.count = more /\ g.node = new /\ g.hashTable = tab
    BY <1>1, <1>6, <2>1, <2>2 DEF Heap
  <2> QED BY <2>3 DEF tab, more
<1>9. g \in SameLinks(i) /\ g \in SameEntries(h)
  BY <1>1, <1>5, <1>8 DEF SameLinks, SameEntries
<1> QED BY <1>1, <1>5, <1>8, <1>9 DEF g, i, b

\* A new node is the first of its chain.
LEMMA AddTable ==
    ASSUME NEW h \in Heap, NEW A \in SUBSET Nodes, NEW T \in Tables(h, A),
           NEW n \in Nodes, n \notin A
    PROVE  \E U : U \in Tables(addNode(h, n), A \cup {n})
<1> DEFINE g == addNode(h, n)
           k == h.node[n].key
           b == getHashIndex(k)
           L == field(h, "hashNext")
           M == field(g, "hashNext")
           U == [T EXCEPT ![b] = <<n>> \o T[b]]
<1>1. b \in Buckets /\ T \in [Buckets -> Seq(Nodes)] /\ h.hashTable \in [Buckets -> Pointers]
  BY HeapFields DEF Tables
<1>2. /\ g.hashTable = [h.hashTable EXCEPT ![b] = n]
      /\ \A m \in Nodes :
           /\ g.node[m].key = h.node[m].key
           /\ g.node[m].hashNext = IF m = n THEN h.hashTable[b] ELSE h.node[m].hashNext
  BY AddFields
<1>3. \A m \in Nodes : L[m] = h.node[m].hashNext /\ M[m] = g.node[m].hashNext
  BY DEF field
<1>4. getHashIndex(g.node[n].key) = b
  BY <1>2
<1> HIDE DEF g, b, k, L, M
<1>5. (\A m \in A : M[m] = L[m] /\ m \in Nodes) /\ M[n] = h.hashTable[b]
  BY <1>2, <1>3
<1>6. ASSUME NEW d \in Buckets
      PROVE  /\ U[d] \in Seq(Nodes) /\ U[d] \in Chains(M, g.hashTable[d])
             /\ ToSet(U[d]) = {m \in A \cup {n} : getHashIndex(g.node[m].key) = d}
  <2>1. /\ T[d] \in Seq(Nodes) /\ Different(T[d]) /\ T[d] \in Chains(L, h.hashTable[d])
        /\ ToSet(T[d]) = {m \in A : getHashIndex(h.node[m].key) = d}
        /\ \A i \in 1 .. Len(T[d]) : T[d][i] \in A
    BY TableProps DEF L
  <2>2. \A i \in 1 .. Len(T[d]) : M[T[d][i]] = L[T[d][i]]
    BY <1>5, <2>1
  <2>3. \A m \in A : g.node[m].key = h.node[m].key
    BY <1>2
  <2>4. CASE d = b
    <3>1. U[d] = <<n>> \o T[d] /\ g.hashTable[d] = n
      BY <1>1, <1>2, <2>4
    <3>2. n \notin ToSet(T[d])
      BY <2>1
    <3>3. /\ <<n>> \o T[d] \in Seq(Nodes)
          /\ ToSet(<<n>> \o T[d]) = ToSet(T[d]) \cup {n}
      BY <2>1, <3>2, PutFirst
    <3>4. <<n>> \o T[d] \in Chains(M, n)
      BY <1>5, <2>1, <2>2, <2>4, <3>2, ChainPush
    <3> QED BY <1>4, <2>1, <2>3, <2>4, <3>1, <3>3, <3>4
  <2>5. CASE d # b
    <3>1. U[d] = T[d] /\ g.hashTable[d] = h.hashTable[d]
      BY <1>1, <1>2, <2>5
    <3>2. T[d] \in Chains(M, g.hashTable[d])
      BY <2>1, <2>2, <3>1, ChainStays
    <3> QED BY <1>4, <2>1, <2>3, <2>5, <3>1, <3>2
  <2> QED BY <2>4, <2>5
<1>7. U \in [Buckets -> Seq(Nodes)]
  <2>1. <<n>> \o T[b] \in Seq(Nodes)
    BY <1>1, InFrontOf
  <2> QED BY <1>1, <2>1
<1> HIDE DEF U
<1>8. U \in Tables(g, A \cup {n})
  BY <1>6, <1>7 DEF Tables, M
<1> QED BY <1>8 DEF g

\* A new node is the first of the list.
LEMMA AddList ==
    ASSUME NEW h \in Heap, NEW s \in Lists(h), NEW n \in Nodes, n \notin ToSet(s)
    PROVE  <<n>> \o s \in Lists(addNode(h, n))
<1> DEFINE i == insertAtHead(h, n)
           g == addNode(h, n)
           r == <<n>> \o s
<1>1. r \in Lists(i)
  BY InsertList
<1>2. i \in Heap
  BY InsertFields
<1>3. /\ g \in Heap /\ g.head = i.head /\ g.tail = i.tail
      /\ \A m \in Nodes : g.node[m].next = i.node[m].next /\ g.node[m].prev = i.node[m].prev
  <2>1. g \in SameLinks(i)
    BY AddFields
  <2> QED BY <2>1 DEF SameLinks
<1> HIDE DEF i, g, r
<1>4. r \in Seq(Nodes)
  BY <1>1, <1>2, ListProps
<1>5. ToSet(r) \subseteq Nodes
  BY <1>4, Places
<1>6. r \in Lists(g)
  BY <1>1, <1>2, <1>3, <1>5, ListStays
<1> QED BY <1>6 DEF r, g

\* The node used longest ago leaves list and table.
LEMMA RemoveLast ==
    ASSUME NEW h \in Heap, NEW s \in Lists(h), s # <<>>,
           NEW T \in Tables(h, ToSet(s))
    PROVE  LET g == removeLruNode(h)
               r == RemoveAt(s, Len(s))
           IN  /\ g \in Heap /\ h.tail = s[Len(s)] /\ Len(s) \in 1 .. Len(s)
               /\ r \in Lists(g) /\ ToSet(r) = ToSet(s) \ {h.tail} /\ Len(r) = Len(s) - 1
               /\ g.count = h.count - 1
               /\ \A m \in Nodes : /\ g.node[m].key = h.node[m].key
                                  /\ g.node[m].value = h.node[m].value
               /\ \E U : U \in Tables(g, ToSet(s) \ {h.tail})
<1> DEFINE n == h.tail
           j == Len(s)
           r == RemoveAt(s, j)
           d == detachNode(h, n)
           e == removeFromHashTable(d, n)
           g == [e EXCEPT !.count = e.count - 1]
<1>1. /\ s \in Seq(Nodes) /\ Different(s) /\ j \in Nat /\ n = at(s, j)
      /\ \A i \in 1 .. j : s[i] \in Nodes /\ s[i] \in ToSet(s)
  BY ListProps
<1>2. j \in 1 .. j
  BY <1>1, EmptySeq
<1>3. n = s[j] /\ n \in Nodes /\ n \in ToSet(s) /\ ToSet(s) \in SUBSET Nodes
  BY <1>1, <1>2, Places
<1>4. r \in Lists(d) /\ ToSet(r) = ToSet(s) \ {n} /\ Len(r) = j - 1 /\ r \in Seq(Nodes)
  <2>1. r \in Lists(detachNode(h, s[j]))
    BY <1>2, DetachList
  <2>2. ToSet(r) = ToSet(s) \ {s[j]} /\ Len(r) = j - 1 /\ r \in Seq(Nodes)
    BY <1>1, <1>2, CutOutOfChain
  <2> QED BY <1>3, <2>1, <2>2
<1>5. /\ d \in Heap /\ d.count = h.count /\ d.hashTable = h.hashTable
      /\ \A m \in Nodes : /\ d.node[m].key = h.node[m].key
                         /\ d.node[m].value = h.node[m].value
                         /\ d.node[m].hashNext = h.node[m].hashNext
  <2>1. n \in Nodes
    BY <1>3
  <2> HIDE DEF n
  <2> QED BY <2>1, DetachFields
<1>6. g = removeLruNode(h)
  BY DEF removeLruNode
<1> HIDE DEF d, n, r, j
<1>7. \A m \in ToSet(s) : /\ d.node[m].key = h.node[m].key
                          /\ d.node[m].hashNext = h.node[m].hashNext
  BY <1>3, <1>5
<1>8. T \in Tables(d, ToSet(s))
  BY <1>3, <1>5, <1>7, TableStays
<1>9. PICK U : U \in Tables(e, ToSet(s) \ {n})
  BY <1>3, <1>5, <1>8, UnhashTable
<1>10. /\ e \in Heap /\ e.head = d.head /\ e.tail = d.tail /\ e.count = d.count
       /\ \A m \in Nodes : /\ e.node[m].key = d.node[m].key
                          /\ e.node[m].value = d.node[m].value
                          /\ e.node[m].next = d.node[m].next
                          /\ e.node[m].prev = d.node[m].prev
  <2> DEFINE k == d.node[n].key
             c == bucket(d, k)
  <2>1. k \in Keys /\ n \in Nodes /\ d \in Heap
    BY <1>3, <1>5, HeapFields
  <2>2. c = T[getHashIndex(k)] /\ getHashIndex(k) \in Buckets
    BY <1>3, <1>8, <2>1, BucketIsChain
  <2>3. c \in Seq(Nodes)
    BY <1>3, <1>8, <2>1, <2>2, TableProps
  <2>4. n \in Nodes /\ bucket(d, d.node[n].key) \in Seq(Nodes)
    BY <2>1, <2>3
  <2> HIDE DEF c, k
  <2>5. e \in SameLinks(d) /\ e \in SameEntries(d) /\ e.count = d.count
    BY <1>5, <2>4, UnhashFields
  <2> HIDE DEF e
  <2> QED BY <2>5 DEF SameLinks, SameEntries
<1> HIDE DEF e
<1>11. \A m \in ToSet(r) : /\ e.node[m].next = d.node[m].next
                           /\ e.node[m].prev = d.node[m].prev
  BY <1>3, <1>4, <1>10
<1>12. r \in Lists(e)
  BY <1>4, <1>5, <1>10, <1>11, ListStays
<1>13. /\ g \in Heap /\ g.head = e.head /\ g.tail = e.tail /\ g.count = e.count - 1
       /\ g.node = e.node /\ g.hashTable = e.hashTable
  BY <1>10 DEF Heap
<1> HIDE DEF g
<1>14. r \in Lists(g)
  BY <1>10, <1>12, <1>13, ListStays
<1>15. U \in Tables(g, ToSet(s) \ {n})
  BY <1>3, <1>9, <1>10, <1>13, TableStays
<1>16. \A m \in Nodes : /\ g.node[m].key = h.node[m].key
                       /\ g.node[m].value = h.node[m].value
  BY <1>5, <1>10, <1>13
<1>17. g.count = h.count - 1
  BY <1>5, <1>10, <1>13
<1> QED BY <1>2, <1>3, <1>4, <1>6, <1>13, <1>14, <1>15, <1>16, <1>17 DEF n, r, j

-----------------------------------------------------------------------------
(* The invariant: there are a list and a table of the live nodes, and a key   *)
(* has one node.                                                             *)

CacheInv ==
    /\ heap \in Heap /\ live \in SUBSET Nodes /\ capacity \in Nat
    /\ heap.count <= capacity
    /\ \E s \in Lists(heap) : ToSet(s) = live /\ Len(s) = heap.count
    /\ \E T : T \in Tables(heap, live)
    /\ \A m, n \in live : heap.node[m].key = heap.node[n].key => m = n

\* What is walked along next and, from the tail, along prev.
LEMMA OrderIsList ==
    ASSUME NEW h \in Heap, NEW s \in Lists(h)
    PROVE  /\ linked(h, "next", h.head) = s
           /\ linked(h, "prev", h.tail) = Reverse(s)
<1> DEFINE L == field(h, "next")
           B == field(h, "prev")
<1>1. L \in [Nodes -> Pointers] /\ B \in [Nodes -> Pointers]
  BY HeapFields
<1>2. s \in Chains(L, h.head) /\ s \in Backs(B, h.tail)
  BY DEF Lists
<1> HIDE DEF L, B
<1>3. linked(h, "next", h.head) = s
  BY <1>1, <1>2, WalkIsChain DEF L
<1>4. Reverse(s) \in Chains(B, h.tail)
  BY <1>2, BackIsChain
<1>5. linked(h, "prev", h.tail) = Reverse(s)
  BY <1>1, <1>4, WalkIsChain DEF B
<1> QED BY <1>3, <1>5

LEMMA InvShows ==
    ASSUME CacheInv
    PROVE  ListAndTableAgree
<1>1. heap \in Heap /\ live \in SUBSET Nodes /\ heap.count <= capacity
  BY DEF CacheInv
<1>2. PICK s \in Lists(heap) : ToSet(s) = live /\ Len(s) = heap.count
  BY DEF CacheInv
<1>3. PICK T : T \in Tables(heap, live)
  BY DEF CacheInv
<1>4. order = s /\ backward = Reverse(s)
  BY <1>1, <1>2, OrderIsList DEF order, backward
<1>5. s \in Seq(Nodes) /\ Different(s)
  BY <1>1, ListProps
<1>6. Cardinality(live) = Len(s)
  BY <1>2, <1>5, LruAssumption, NotTooLong
<1>7. listIntact
  BY <1>1, <1>2, <1>4, <1>6 DEF listIntact
<1>8. ASSUME NEW n \in live
      PROVE  \E i \in DOMAIN bucket(heap, heap.node[n].key) :
                bucket(heap, heap.node[n].key)[i] = n
  <2> DEFINE k == heap.node[n].key
             b == getHashIndex(k)
  <2>1. k \in Keys
    BY <1>1, HeapFields
  <2>2. b \in Buckets /\ bucket(heap, k) = T[b]
    BY <1>1, <1>3, <2>1, BucketIsChain
  <2>3. T[b] \in Seq(Nodes) /\ ToSet(T[b]) = {m \in live : getHashIndex(heap.node[m].key) = b}
    BY <1>1, <1>3, <2>2, TableProps
  <2>4. n \in ToSet(T[b])
    BY <2>3
  <2>5. \E i \in DOMAIN T[b] : T[b][i] = n
    BY <2>4 DEF ToSet
  <2> HIDE DEF k, b
  <2>6. \E i \in DOMAIN bucket(heap, k) : bucket(heap, k)[i] = n
    BY <2>2, <2>5
  <2> QED BY <2>6 DEF k
<1>9. ASSUME NEW b \in Buckets
      PROVE  LET c == linked(heap, "hashNext", heap.hashTable[b])
             IN  \A i, j \in DOMAIN c :
                    /\ c[i] \in live
                    /\ getHashIndex(heap.node[c[i]].key) = b
                    /\ heap.node[c[i]].key = heap.node[c[j]].key => i = j
  <2> DEFINE L == field(heap, "hashNext")
  <2>1. L \in [Nodes -> Pointers]
    BY <1>1, HeapFields
  <2>2. /\ T[b] \in Chains(L, heap.hashTable[b])
        /\ T[b] \in Seq(Nodes) /\ Different(T[b])
        /\ \A i \in 1 .. Len(T[b]) : /\ T[b][i] \in live
                                    /\ getHashIndex(heap.node[T[b][i]].key) = b
    BY <1>1, <1>3, TableProps
  <2> HIDE DEF L
  <2>3. linked(heap, "hashNext", heap.hashTable[b]) = T[b]
    BY <2>1, <2>2, WalkIsChain DEF L
  <2>4. DOMAIN T[b] = 1 .. Len(T[b])
    BY <2>2, LenProperties
  <2>5. ASSUME NEW i \in DOMAIN T[b], NEW j \in DOMAIN T[b],
               heap.node[T[b][i]].key = heap.node[T[b][j]].key
        PROVE  i = j
    <3>1. T[b][i] = T[b][j]
      BY <2>2, <2>4, <2>5 DEF CacheInv
    <3> QED BY <2>2, <2>4, <3>1 DEF Different
  <2> QED BY <2>2, <2>3, <2>4, <2>5
<1>10. tableMatchesList
  BY <1>8, <1>9 DEF tableMatchesList
<1> QED BY <1>7, <1>10 DEF ListAndTableAgree

\* An empty list and an empty table.
LEMMA EmptyCache ==
    ASSUME NEW h \in Heap, h.head = NULL, h.tail = NULL, h.hashTable = emptyTable
    PROVE  /\ <<>> \in Lists(h) /\ ToSet(<<>>) = {} /\ Len(<<>>) = 0
           /\ \E T : T \in Tables(h, {})
<1>1. <<>> \in Seq(Nodes) /\ Len(<<>>) = 0
  BY EmptySeq
<1>2. ToSet(<<>>) = {}
  <2> DEFINE e == <<>>
  <2>1. e \in Seq(Nodes) /\ 1 .. Len(e) = {}
    BY <1>1
  <2> HIDE DEF e
  <2>2. ToSet(e) = {e[i] : i \in 1 .. Len(e)}
    BY <2>1, Places
  <2>3. ToSet(e) = {}
    BY <2>1, <2>2
  <2> QED BY <2>3 DEF e
<1>3. Different(<<>>) /\ \A i \in Int : at(<<>>, i) = NULL
  BY <1>1 DEF Different, at
<1>4. \A L : <<>> \in Chains(L, NULL) /\ <<>> \in Backs(L, NULL)
  BY <1>1, <1>3 DEF Chains, Backs
<1> DEFINE T == [b \in Buckets |-> <<>>]
<1>5. T \in [Buckets -> Seq(Nodes)]
  BY <1>1
<1>6. ASSUME NEW b \in Buckets
      PROVE  /\ T[b] \in Chains(field(h, "hashNext"), h.hashTable[b])
             /\ ToSet(T[b]) = {n \in {} : getHashIndex(h.node[n].key) = b}
  <2>1. T[b] = <<>> /\ h.hashTable[b] = NULL
    BY DEF emptyTable
  <2> QED BY <1>2, <1>4, <2>1
<1> HIDE DEF T
<1>7. T \in Tables(h, {})
  BY <1>5, <1>6 DEF Tables
<1>8. <<>> \in Lists(h)
  BY <1>4 DEF Lists
<1> QED BY <1>1, <1>2, <1>7, <1>8

LEMMA InitInv == Init => CacheInv /\ order = <<>>
<1> SUFFICES ASSUME Init PROVE CacheInv /\ order = <<>>
  OBVIOUS
<1> DEFINE first == newNode(CHOOSE k \in Keys : TRUE, CHOOSE v \in Values : TRUE)
<1>1. first \in Node
  BY LruAssumption DEF newNode, Node, Pointers
<1>2. emptyTable \in [Buckets -> Pointers]
  BY DEF emptyTable, Pointers
<1>3. heap = [node |-> [n \in Nodes |-> first], head |-> NULL, tail |-> NULL, count |-> 0,
              hashTable |-> emptyTable]
  BY DEF Init
<1> HIDE DEF first
<1>4. /\ heap \in Heap /\ heap.head = NULL /\ heap.tail = NULL /\ heap.count = 0
      /\ heap.hashTable = emptyTable
  BY <1>1, <1>2, <1>3 DEF Heap, Pointers
<1>5. live = {} /\ capacity = 0
  BY DEF Init
<1>6. /\ <<>> \in Lists(heap) /\ ToSet(<<>>) = {} /\ Len(<<>>) = 0
      /\ \E T : T \in Tables(heap, {})
  BY <1>4, EmptyCache
<1>7. order = <<>>
  BY <1>4, <1>6, OrderIsList DEF order
<1> QED BY <1>4, <1>5, <1>6, <1>7 DEF CacheInv

-----------------------------------------------------------------------------
(* Every command keeps the invariant, and what it does to the list.          *)

\* createCache and exit: nothing is left.
LEMMA EmptyKeeps ==
    ASSUME CacheInv, capacity' \in Nat, live' = {},
           heap' = [heap EXCEPT !.head = NULL, !.tail = NULL, !.count = 0,
                                !.hashTable = emptyTable]
    PROVE  CacheInv' /\ order' = <<>>
<1>1. heap \in Heap
  BY DEF CacheInv
<1>2. emptyTable \in [Buckets -> Pointers]
  BY DEF emptyTable, Pointers
<1>3. /\ heap' \in Heap /\ heap'.head = NULL /\ heap'.tail = NULL /\ heap'.count = 0
      /\ heap'.hashTable = emptyTable
  <2> DEFINE P == Pointers
  <2>1. NULL \in P /\ 0 \in Int
    BY DEF Pointers
  <2> HIDE DEF P
  <2> QED BY <1>1, <1>2, <2>1 DEF Heap, P
<1>4. /\ <<>> \in Lists(heap') /\ ToSet(<<>>) = {} /\ Len(<<>>) = 0
      /\ \E T : T \in Tables(heap', {})
  BY <1>3, EmptyCache
<1>5. order' = <<>>
  BY <1>3, <1>4, OrderIsList DEF order
<1> QED BY <1>3, <1>4, <1>5 DEF CacheInv

\* put and get that find the key: its node goes to the front.  The heap h is the
\* one before, or the one with the new value of the node.
LEMMA HitKeeps ==
    ASSUME CacheInv, NEW s \in Lists(heap), ToSet(s) = live, Len(s) = heap.count,
           NEW j \in 1 .. Len(s), NEW n, n = s[j], NEW h \in SameLinks(heap),
           h.count = heap.count, h.hashTable = heap.hashTable,
           \A m \in Nodes : /\ h.node[m].key = heap.node[m].key
                           /\ h.node[m].hashNext = heap.node[m].hashNext,
           heap' = touch(h, n), live' = live, capacity' = capacity
    PROVE  /\ CacheInv' /\ order' = <<n>> \o RemoveAt(s, j)
           /\ \A m \in Nodes : /\ heap'.node[m].key = heap.node[m].key
                              /\ heap'.node[m].value = h.node[m].value
<1>1. /\ heap \in Heap /\ live \in SUBSET Nodes /\ capacity \in Nat
      /\ heap.count <= capacity
      /\ \A m, o \in live : heap.node[m].key = heap.node[o].key => m = o
  BY DEF CacheInv
<1>2. PICK T : T \in Tables(heap, live)
  BY DEF CacheInv
<1>3. /\ h \in Heap /\ h.head = heap.head /\ h.tail = heap.tail
      /\ \A m \in Nodes : /\ h.node[m].next = heap.node[m].next
                         /\ h.node[m].prev = heap.node[m].prev
  BY DEF SameLinks
<1>4. s \in Lists(h)
  <2>1. \A m \in ToSet(s) : /\ h.node[m].next = heap.node[m].next
                           /\ h.node[m].prev = heap.node[m].prev
    BY <1>1, <1>3
  <2> QED BY <1>1, <1>3, <2>1, ListStays
<1> DEFINE g == touch(h, n)
           r == <<n>> \o RemoveAt(s, j)
<1>5. /\ g \in Heap /\ r \in Lists(g) /\ ToSet(r) = ToSet(s) /\ Len(r) = Len(s)
      /\ g.count = h.count /\ g.hashTable = h.hashTable
      /\ \A m \in Nodes : /\ g.node[m].key = h.node[m].key
                         /\ g.node[m].value = h.node[m].value
                         /\ g.node[m].hashNext = h.node[m].hashNext
  BY <1>3, <1>4, TouchList
<1> HIDE DEF r
<1>6. heap' = g
  OBVIOUS
<1> HIDE DEF g
<1>7. /\ heap' \in Heap /\ r \in Lists(heap') /\ heap'.count = heap.count
      /\ heap'.hashTable = heap.hashTable
      /\ \A m \in Nodes : /\ heap'.node[m].key = heap.node[m].key
                         /\ heap'.node[m].value = h.node[m].value
                         /\ heap'.node[m].hashNext = heap.node[m].hashNext
  BY <1>5, <1>6
<1>8. T \in Tables(heap', live)
  <2>1. \A m \in live : /\ heap'.node[m].key = heap.node[m].key
                        /\ heap'.node[m].hashNext = heap.node[m].hashNext
    BY <1>1, <1>7
  <2> QED BY <1>1, <1>2, <1>7, <2>1, TableStays
<1>9. \A m, o \in live : heap'.node[m].key = heap'.node[o].key => m = o
  BY <1>1, <1>7
<1>10. CacheInv'
  <2>1. \E q \in Lists(heap') : ToSet(q) = live' /\ Len(q) = heap'.count
    BY <1>5, <1>7
  <2> QED BY <1>1, <1>7, <1>8, <1>9, <2>1 DEF CacheInv
<1>11. order' = r
  BY <1>7, OrderIsList DEF order
<1> QED BY <1>7, <1>10, <1>11 DEF r

\* A node with what put writes into it.
LEMMA WrittenNode ==
    ASSUME CacheInv, NEW n \in Nodes, n \notin live, NEW k \in Keys, NEW v \in Values,
           NEW s \in Lists(heap), ToSet(s) = live
    PROVE  LET h == [heap EXCEPT !.node[n] = newNode(k, v)]
           IN  /\ h \in Heap /\ h.head = heap.head /\ h.tail = heap.tail
               /\ h.count = heap.count /\ h.hashTable = heap.hashTable
               /\ h.node[n].key = k /\ h.node[n].value = v
               /\ \A m \in live : h.node[m] = heap.node[m]
               /\ s \in Lists(h)
               /\ Tables(heap, live) \subseteq Tables(h, live)
<1> DEFINE new == [heap.node EXCEPT ![n] = newNode(k, v)]
           h == [heap EXCEPT !.node = new]
<1>1. heap \in Heap /\ live \in SUBSET Nodes
  BY DEF CacheInv
<1>2. /\ newNode(k, v) \in Node /\ newNode(k, v).key = k /\ newNode(k, v).value = v
  BY DEF newNode, Node, Pointers
<1>3. heap.node \in [Nodes -> Node]
  BY <1>1, HeapFields
<1>4. /\ new \in [Nodes -> Node] /\ new[n] = newNode(k, v)
      /\ \A m \in live : new[m] = heap.node[m]
  BY <1>1, <1>2, <1>3
<1> HIDE DEF new
<1>5. /\ h \in Heap /\ h.head = heap.head /\ h.tail = heap.tail
      /\ h.count = heap.count /\ h.hashTable = heap.hashTable /\ h.node = new
  BY <1>1, <1>4 DEF Heap
<1> HIDE DEF h
<1>6. s \in Lists(h)
  <2>1. \A m \in ToSet(s) : /\ h.node[m].next = heap.node[m].next
                           /\ h.node[m].prev = heap.node[m].prev
    BY <1>4, <1>5
  <2> QED BY <1>1, <1>5, <2>1, ListStays
<1>7. ASSUME NEW T \in Tables(heap, live) PROVE T \in Tables(h, live)
  <2>1. \A m \in live : /\ h.node[m].key = heap.node[m].key
                        /\ h.node[m].hashNext = heap.node[m].hashNext
    BY <1>4, <1>5
  <2> QED BY <1>1, <1>5, <2>1, TableStays
<1> QED BY <1>2, <1>4, <1>5, <1>6, <1>7 DEF h, new

\* The written node enters a list that has room for it.
LEMMA AddKeeps ==
    ASSUME CacheInv, NEW g \in Heap, NEW r \in Lists(g), NEW n \in Nodes, n \notin live,
           ToSet(r) \subseteq live, Len(r) = g.count, g.count < capacity,
           NEW T \in Tables(g, ToSet(r)),
           \A m \in live : /\ g.node[m].key = heap.node[m].key
                          /\ g.node[m].value = heap.node[m].value
                          /\ g.node[m].key # g.node[n].key,
           heap' = addNode(g, n), live' = ToSet(r) \cup {n}, capacity' = capacity
    PROVE  /\ CacheInv' /\ order' = <<n>> \o r
           /\ heap'.node[n].key = g.node[n].key /\ heap'.node[n].value = g.node[n].value
           /\ \A m \in live : /\ heap'.node[m].key = heap.node[m].key
                             /\ heap'.node[m].value = heap.node[m].value
<1>1. /\ live \in SUBSET Nodes /\ capacity \in Nat
      /\ \A m, o \in live : heap.node[m].key = heap.node[o].key => m = o
  BY DEF CacheInv
<1>2. r \in Seq(Nodes) /\ Different(r) /\ n \notin ToSet(r) /\ ToSet(r) \in SUBSET Nodes
  BY <1>1, ListProps
<1> DEFINE f == addNode(g, n)
           q == <<n>> \o r
<1>3. f \in SameEntries(g) /\ f.count = g.count + 1
  BY AddFields
<1>4. q \in Lists(f)
  BY <1>2, AddList
<1>5. PICK U : U \in Tables(f, ToSet(r) \cup {n})
  BY <1>2, AddTable
<1>6. ToSet(q) = ToSet(r) \cup {n} /\ Len(q) = Len(r) + 1
  BY <1>2, PutFirst
<1>7. heap' = f
  OBVIOUS
<1> HIDE DEF f, q
<1>8. /\ heap' \in Heap /\ heap'.count = g.count + 1
      /\ \A m \in Nodes : /\ heap'.node[m].key = g.node[m].key
                         /\ heap'.node[m].value = g.node[m].value
  BY <1>3, <1>7 DEF SameEntries
<1>9. /\ heap'.count <= capacity
  <2>1. g.count \in Int
    BY HeapFields
  <2> QED BY <1>1, <1>8, <2>1
<1>10. \A m \in live : /\ heap'.node[m].key = heap.node[m].key
                      /\ heap'.node[m].value = heap.node[m].value
                      /\ heap'.node[m].key # heap'.node[n].key
  BY <1>1, <1>8
<1>11. \A m, o \in live' : heap'.node[m].key = heap'.node[o].key => m = o
  <2> SUFFICES ASSUME NEW m \in ToSet(r) \cup {n}, NEW o \in ToSet(r) \cup {n},
                      heap'.node[m].key = heap'.node[o].key
               PROVE  m = o
    OBVIOUS
  <2>1. CASE m = n /\ o = n
    BY <2>1
  <2>2. CASE m = n /\ o # n
    BY <1>10, <2>2
  <2>3. CASE m # n /\ o = n
    BY <1>10, <2>3
  <2>4. CASE m # n /\ o # n
    <3>1. m \in live /\ o \in live
      BY <2>4
    <3> QED BY <1>1, <1>10, <3>1
  <2> QED BY <2>1, <2>2, <2>3, <2>4
<1>12. live' \in SUBSET Nodes
  BY <1>2
<1>13. CacheInv'
  <2>1. q \in Lists(heap') /\ ToSet(q) = live' /\ Len(q) = heap'.count
    BY <1>4, <1>6, <1>7, <1>8
  <2>2. U \in Tables(heap', live')
    BY <1>5, <1>7
  <2>3. capacity' \in Nat /\ heap'.count <= capacity'
    BY <1>1, <1>9
  <2> QED BY <1>8, <1>11, <1>12, <2>1, <2>2, <2>3 DEF CacheInv
<1>14. order' = q
  BY <1>4, <1>7, <1>8, OrderIsList DEF order
<1> QED BY <1>8, <1>10, <1>13, <1>14 DEF q

\* What a full cache keeps for one more node.
kept(s) == IF Len(s) >= capacity THEN RemoveAt(s, Len(s)) ELSE s

\* put of a key that is not there: a full cache gives up its last node.
LEMMA MissKeeps ==
    ASSUME CacheInv, capacity > 0, NEW s \in Lists(heap), ToSet(s) = live,
           Len(s) = heap.count, NEW k \in Keys, NEW v \in Values,
           \A m \in live : heap.node[m].key # k, putNew(k, v), capacity' = capacity
    PROVE  /\ kept(s) \in Seq(live) /\ CacheInv'
           /\ Len(s) >= capacity => Len(s) \in 1 .. Len(s)
           /\ \A m \in live : /\ heap'.node[m].key = heap.node[m].key
                             /\ heap'.node[m].value = heap.node[m].value
           /\ \E n \in Nodes : /\ order' = <<n>> \o kept(s)
                              /\ heap'.node[n].key = k /\ heap'.node[n].value = v
<1>1. /\ heap \in Heap /\ live \in SUBSET Nodes /\ capacity \in Nat
  BY DEF CacheInv
<1>2. PICK T : T \in Tables(heap, live)
  BY DEF CacheInv
<1>3. PICK n \in Nodes \ live :
        LET h == [heap EXCEPT !.node[n] = newNode(k, v)]
        IN  IF isFull /\ heap.tail # NULL
            THEN /\ heap' = addNode(removeLruNode(h), n)
                 /\ live' = (live \cup {n}) \ {heap.tail}
            ELSE /\ heap' = addNode(h, n)
                 /\ live' = live \cup {n}
  BY DEF putNew
<1> DEFINE h == [heap EXCEPT !.node[n] = newNode(k, v)]
<1>4. /\ h \in Heap /\ h.head = heap.head /\ h.tail = heap.tail
      /\ h.count = heap.count /\ h.hashTable = heap.hashTable
      /\ h.node[n].key = k /\ h.node[n].value = v
      /\ \A m \in live : h.node[m] = heap.node[m]
      /\ s \in Lists(h) /\ T \in Tables(h, live)
  BY <1>2, WrittenNode
<1>5. IF isFull /\ heap.tail # NULL
      THEN heap' = addNode(removeLruNode(h), n) /\ live' = (live \cup {n}) \ {heap.tail}
      ELSE heap' = addNode(h, n) /\ live' = live \cup {n}
  BY <1>3
<1> HIDE DEF h
<1>6. /\ s \in Seq(Nodes) /\ Different(s) /\ Len(s) \in Nat /\ heap.tail = at(s, Len(s))
      /\ \A i \in 1 .. Len(s) : s[i] # NULL /\ s[i] \in live
  BY <1>1, ListProps
<1>7. isFull <=> Len(s) >= capacity
  BY DEF isFull
<1>8. Len(s) >= capacity => Len(s) \in 1 .. Len(s) /\ heap.tail # NULL /\ s # <<>>
  BY <1>1, <1>6, EmptySeq DEF at
<1>9. n \notin live /\ n \in Nodes
  BY <1>3
<1>10. CASE Len(s) >= capacity
  <2> DEFINE g == removeLruNode(h)
             r == RemoveAt(s, Len(s))
  <2>1. /\ g \in Heap /\ r \in Lists(g) /\ ToSet(r) = ToSet(s) \ {h.tail}
        /\ Len(r) = Len(s) - 1 /\ g.count = h.count - 1
        /\ \A m \in Nodes : /\ g.node[m].key = h.node[m].key
                           /\ g.node[m].value = h.node[m].value
        /\ \E U : U \in Tables(g, ToSet(s) \ {h.tail})
    BY <1>4, <1>8, <1>10, RemoveLast
  <2>2. heap' = addNode(g, n) /\ live' = (live \cup {n}) \ {heap.tail}
    BY <1>5, <1>7, <1>8, <1>10
  <2>3. heap.tail \in live
    BY <1>6, <1>8, <1>10 DEF at
  <2> HIDE DEF g, r
  <2>4. PICK U : U \in Tables(g, ToSet(r))
    BY <2>1
  <2>5. live' = ToSet(r) \cup {n} /\ ToSet(r) \subseteq live
    BY <1>4, <1>9, <2>1, <2>2, <2>3
  <2>6. \A m \in live : /\ g.node[m].key = heap.node[m].key
                        /\ g.node[m].value = heap.node[m].value
                        /\ g.node[m].key # g.node[n].key
    BY <1>1, <1>4, <1>9, <2>1
  <2>7. Len(r) = g.count /\ g.count < capacity
    <3>1. heap.count <= capacity
      BY DEF CacheInv
    <3> QED BY <1>1, <1>4, <1>6, <2>1, <3>1
  <2>8. /\ CacheInv' /\ order' = <<n>> \o r
        /\ heap'.node[n].key = g.node[n].key /\ heap'.node[n].value = g.node[n].value
        /\ \A m \in live : /\ heap'.node[m].key = heap.node[m].key
                          /\ heap'.node[m].value = heap.node[m].value
    <3>1. g \in Heap /\ r \in Lists(g) /\ heap' = addNode(g, n)
      BY <2>1, <2>2
    <3> QED BY <1>9, <2>4, <2>5, <2>6, <2>7, <3>1, AddKeeps
  <2>9. g.node[n].key = k /\ g.node[n].value = v
    BY <1>4, <1>9, <2>1
  <2>10. r \in Seq(live)
    <3>1. r \in Seq(Nodes)
      BY <2>1, ListProps
    <3>2. \A i \in 1 .. Len(r) : r[i] \in ToSet(r)
      BY <3>1, Places
    <3> QED BY <2>5, <3>1, <3>2, SeqDef
  <2>11. r = kept(s)
    BY <1>10 DEF kept, r
  <2> QED BY <1>8, <1>9, <2>8, <2>9, <2>10, <2>11
<1>11. CASE ~(Len(s) >= capacity)
  <2>1. heap' = addNode(h, n) /\ live' = ToSet(s) \cup {n}
    BY <1>5, <1>7, <1>11
  <2>2. \A m \in live : /\ h.node[m].key = heap.node[m].key
                        /\ h.node[m].value = heap.node[m].value
                        /\ h.node[m].key # h.node[n].key
    BY <1>4
  <2>3. Len(s) = h.count /\ h.count < capacity
    BY <1>1, <1>4, <1>6, <1>11
  <2>4. /\ CacheInv' /\ order' = <<n>> \o s
        /\ heap'.node[n].key = h.node[n].key /\ heap'.node[n].value = h.node[n].value
        /\ \A m \in live : /\ heap'.node[m].key = heap.node[m].key
                          /\ heap'.node[m].value = heap.node[m].value
    BY <1>4, <1>9, <2>1, <2>2, <2>3, AddKeeps
  <2>5. s \in Seq(live)
    BY <1>6, SeqDef
  <2>6. s = kept(s)
    BY <1>11 DEF kept
  <2> QED BY <1>4, <1>9, <1>11, <2>4, <2>5, <2>6
<1> QED BY <1>10, <1>11

-----------------------------------------------------------------------------
(* The list of nodes as a list of entries.                                   *)

entriesOf(h, s) == [i \in DOMAIN s |-> entryOf(h, s[i])]
Entries(h) == {entryOf(h, n) : n \in Nodes}

LEMMA EntriesProps ==
    ASSUME NEW h, NEW s \in Seq(Nodes)
    PROVE  /\ entriesOf(h, s) \in Seq(Entries(h)) /\ Len(entriesOf(h, s)) = Len(s)
           /\ DOMAIN entriesOf(h, s) = 1 .. Len(s) /\ Len(s) \in Nat
           /\ \A i \in 1 .. Len(s) : entriesOf(h, s)[i] = entryOf(h, s[i])
<1> DEFINE e == entriesOf(h, s)
<1>1. Len(s) \in Nat /\ DOMAIN s = 1 .. Len(s) /\ \A i \in 1 .. Len(s) : s[i] \in Nodes
  BY LenProperties, ElementOfSeq
<1>2. e = [i \in 1 .. Len(s) |-> entryOf(h, s[i])]
  BY <1>1 DEF entriesOf
<1>3. \A i \in 1 .. Len(s) : entryOf(h, s[i]) \in Entries(h)
  BY <1>1 DEF Entries
<1> HIDE DEF e
<1>4. e \in [1 .. Len(s) -> Entries(h)]
  BY <1>2, <1>3
<1>5. e \in Seq(Entries(h)) /\ Len(e) = Len(s)
  BY <1>1, <1>4, IsASeq
<1> QED BY <1>1, <1>2, <1>5 DEF e

LEMMA EntriesCut ==
    ASSUME NEW h, NEW s \in Seq(Nodes), NEW j \in 1 .. Len(s)
    PROVE  entriesOf(h, RemoveAt(s, j)) = RemoveAt(entriesOf(h, s), j)
<1> DEFINE e == entriesOf(h, s)
           r == RemoveAt(s, j)
           q == entriesOf(h, r)
           S == Entries(h)
<1>1. /\ e \in Seq(S) /\ Len(e) = Len(s) /\ Len(s) \in Nat
      /\ \A i \in 1 .. Len(s) : e[i] = entryOf(h, s[i])
  BY EntriesProps
<1>2. /\ r \in Seq(Nodes) /\ Len(r) = Len(s) - 1
      /\ \A i \in 1 .. Len(s) - 1 : r[i] = IF i < j THEN s[i] ELSE s[i + 1]
  BY RemoveAtShifts
<1> HIDE DEF e, r, S
<1>3. /\ q \in Seq(S) /\ Len(q) = Len(r)
      /\ \A i \in 1 .. Len(r) : q[i] = entryOf(h, r[i])
  BY <1>2, EntriesProps DEF S
<1>4. /\ RemoveAt(e, j) \in Seq(S) /\ Len(RemoveAt(e, j)) = Len(e) - 1
      /\ \A i \in 1 .. Len(e) - 1 : RemoveAt(e, j)[i] = IF i < j THEN e[i] ELSE e[i + 1]
  BY <1>1, RemoveAtShifts
<1> HIDE DEF q
<1>5. ASSUME NEW i \in 1 .. Len(q) PROVE q[i] = RemoveAt(e, j)[i]
  <2>1. i \in 1 .. Len(s) - 1 /\ i \in 1 .. Len(s) /\ i + 1 \in 1 .. Len(s)
    BY <1>1, <1>2, <1>3
  <2>2. CASE i < j
    BY <1>1, <1>2, <1>3, <1>4, <2>1, <2>2
  <2>3. CASE ~(i < j)
    BY <1>1, <1>2, <1>3, <1>4, <2>1, <2>3
  <2> QED BY <2>2, <2>3
<1>6. q = RemoveAt(e, j)
  BY <1>1, <1>2, <1>3, <1>4, <1>5, SeqEqual
<1> QED BY <1>6 DEF q, r, e

LEMMA EntriesPush ==
    ASSUME NEW h, NEW s \in Seq(Nodes), NEW n \in Nodes
    PROVE  entriesOf(h, <<n>> \o s) = <<entryOf(h, n)>> \o entriesOf(h, s)
<1> DEFINE e == entriesOf(h, s)
           x == entryOf(h, n)
           r == <<n>> \o s
           q == entriesOf(h, r)
           p == <<x>> \o e
           S == Entries(h)
<1>1. /\ e \in Seq(S) /\ Len(e) = Len(s) /\ Len(s) \in Nat /\ x \in S
      /\ \A i \in 1 .. Len(s) : e[i] = entryOf(h, s[i])
  BY EntriesProps DEF Entries
<1>2. /\ r \in Seq(Nodes) /\ Len(r) = Len(s) + 1 /\ r[1] = n
      /\ \A i \in 1 .. Len(s) : r[i + 1] = s[i]
  BY InFrontOf
<1> HIDE DEF e, r, S
<1>3. /\ q \in Seq(S) /\ Len(q) = Len(r)
      /\ \A i \in 1 .. Len(r) : q[i] = entryOf(h, r[i])
  BY <1>2, EntriesProps DEF S
<1> HIDE DEF x, q
<1>4. /\ p \in Seq(S) /\ Len(p) = Len(e) + 1 /\ p[1] = x
      /\ \A i \in 1 .. Len(e) : p[i + 1] = e[i]
  BY <1>1, InFrontOf
<1> HIDE DEF p
<1>5. ASSUME NEW i \in 1 .. Len(q) PROVE q[i] = p[i]
  <2>1. CASE i = 1
    <3>1. q[1] = entryOf(h, n)
      BY <1>2, <1>3, <2>1
    <3> QED BY <1>4, <2>1, <3>1 DEF x
  <2>2. CASE i # 1
    <3> DEFINE k == i - 1
    <3>1. k \in 1 .. Len(s) /\ k + 1 = i
      BY <1>1, <1>2, <1>3, <2>2
    <3>2. r[k + 1] = s[k] /\ p[k + 1] = e[k] /\ e[k] = entryOf(h, s[k])
      BY <1>1, <1>2, <1>4, <3>1
    <3>3. q[i] = entryOf(h, r[i])
      BY <1>3
    <3> QED BY <3>1, <3>2, <3>3
  <2> QED BY <2>1, <2>2
<1>6. q = p
  BY <1>1, <1>2, <1>3, <1>4, <1>5, SeqEqual
<1> QED BY <1>6 DEF q, p, r, e, x

\* Entries change with their own nodes only.
LEMMA EntriesStay ==
    ASSUME NEW h, NEW g, NEW s \in Seq(Nodes),
           \A m \in ToSet(s) : /\ g.node[m].key = h.node[m].key
                              /\ g.node[m].value = h.node[m].value
    PROVE  entriesOf(g, s) = entriesOf(h, s)
<1>1. DOMAIN s = 1 .. Len(s) /\ ToSet(s) = {s[i] : i \in 1 .. Len(s)}
  BY LenProperties, Places
<1>2. \A i \in DOMAIN s : entryOf(g, s[i]) = entryOf(h, s[i])
  BY <1>1 DEF entryOf
<1> QED BY <1>2 DEF entriesOf

\* All but the last one.
LEMMA FrontCuts ==
    ASSUME NEW S, NEW e \in Seq(S), Len(e) \in 1 .. Len(e)
    PROVE  Front(e) = RemoveAt(e, Len(e))
<1> DEFINE n == Len(e)
           f == SubSeq(e, 1, n - 1)
           r == RemoveAt(e, n)
<1>1. n \in Nat /\ n - 1 \in 0 .. n /\ n \in 1 .. n
  BY LenProperties
<1>2. f \in Seq(S) /\ Len(f) = n - 1 /\ \A i \in 1 .. n - 1 : f[i] = e[i]
  BY <1>1, FirstOf
<1>3. /\ r \in Seq(S) /\ Len(r) = n - 1
      /\ \A i \in 1 .. n - 1 : r[i] = IF i < n THEN e[i] ELSE e[i + 1]
  BY <1>1, RemoveAtShifts
<1> HIDE DEF f, r
<1>4. \A i \in 1 .. n - 1 : f[i] = r[i]
  BY <1>1, <1>2, <1>3
<1>5. f = r
  BY <1>2, <1>3, <1>4, SeqEqual
<1> QED BY <1>5 DEF Front, f, r

-----------------------------------------------------------------------------
(* Every command keeps the invariant and is one on the list of entries.      *)

\* Under the invariant there are a list and its entries, and a lookup finds
\* exactly the entries of the key.
LEMMA CacheNow ==
    ASSUME CacheInv
    PROVE  \E s \in Lists(heap) :
             /\ ToSet(s) = live /\ Len(s) = heap.count /\ order = s
             /\ s \in Seq(Nodes) /\ entries = entriesOf(heap, s)
             /\ \A i \in 1 .. Len(s) : /\ s[i] \in live /\ s[i] \in Nodes
                                      /\ entries[i].key = heap.node[s[i]].key
                                      /\ entries[i].value = heap.node[s[i]].value
             /\ DOMAIN entries = 1 .. Len(s) /\ Len(entries) = Len(s)
             /\ \A k \in Keys : found(heap, k) = {n \in live : heap.node[n].key = k}
<1>1. heap \in Heap /\ live \in SUBSET Nodes
  BY DEF CacheInv
<1>2. PICK s \in Lists(heap) : ToSet(s) = live /\ Len(s) = heap.count
  BY DEF CacheInv
<1>3. PICK T : T \in Tables(heap, live)
  BY DEF CacheInv
<1>4. order = s /\ s \in Seq(Nodes) /\ \A i \in 1 .. Len(s) : s[i] \in live /\ s[i] \in Nodes
  BY <1>1, <1>2, OrderIsList, ListProps DEF order
<1>5. entries = entriesOf(heap, s)
  BY <1>4 DEF entries, entriesOf
<1>6. /\ DOMAIN entries = 1 .. Len(s) /\ Len(entries) = Len(s)
      /\ \A i \in 1 .. Len(s) : entries[i] = entryOf(heap, s[i])
  BY <1>4, <1>5, EntriesProps
<1>7. \A i \in 1 .. Len(s) : /\ entries[i].key = heap.node[s[i]].key
                          /\ entries[i].value = heap.node[s[i]].value
  BY <1>6 DEF entryOf
<1>8. ASSUME NEW k \in Keys PROVE found(heap, k) = {n \in live : heap.node[n].key = k}
  BY <1>1, <1>3, FoundIsThere DEF CacheInv
<1> QED BY <1>2, <1>4, <1>5, <1>6, <1>7, <1>8

\* A hit brings the entry to the front, with the value it has then.
LEMMA HitStep ==
    ASSUME CacheInv, NEW k \in Keys, NEW n \in found(heap, k), NEW v,
           NEW h \in SameLinks(heap),
           h.count = heap.count, h.hashTable = heap.hashTable,
           \A m \in Nodes : /\ h.node[m].key = heap.node[m].key
                           /\ h.node[m].hashNext = heap.node[m].hashNext
                           /\ h.node[m].value = IF m = n THEN v ELSE heap.node[m].value,
           heap' = touch(h, n), live' = live, capacity' = capacity
    PROVE  /\ CacheInv'
           /\ \E i \in Lru!hits(k) :
                /\ entries[i] = [key |-> k, value |-> heap.node[n].value]
                /\ entries' = <<[key |-> k, value |-> v]>> \o RemoveAt(entries, i)
<1>1. PICK s \in Lists(heap) :
        /\ ToSet(s) = live /\ Len(s) = heap.count /\ order = s
        /\ s \in Seq(Nodes) /\ entries = entriesOf(heap, s)
        /\ \A i \in 1 .. Len(s) : /\ s[i] \in live /\ s[i] \in Nodes
                                 /\ entries[i].key = heap.node[s[i]].key
                                 /\ entries[i].value = heap.node[s[i]].value
        /\ DOMAIN entries = 1 .. Len(s) /\ Len(entries) = Len(s)
        /\ found(heap, k) = {m \in live : heap.node[m].key = k}
  BY CacheNow
<1>2. n \in live /\ heap.node[n].key = k /\ ToSet(s) = {s[i] : i \in 1 .. Len(s)}
  BY <1>1, Places
<1>3. PICK j \in 1 .. Len(s) : n = s[j]
  BY <1>1, <1>2
<1>4. n \in Nodes
  BY <1>1, <1>3
<1> DEFINE r == RemoveAt(s, j)
<1>5. /\ CacheInv' /\ order' = <<n>> \o r
      /\ \A m \in Nodes : /\ heap'.node[m].key = heap.node[m].key
                         /\ heap'.node[m].value = h.node[m].value
  <2>1. ToSet(s) = live /\ Len(s) = heap.count
    BY <1>1
  <2>2. \A m \in Nodes : /\ h.node[m].key = heap.node[m].key
                        /\ h.node[m].hashNext = heap.node[m].hashNext
    OBVIOUS
  <2> QED BY <1>3, <2>1, <2>2, HitKeeps
<1>6. r \in Seq(Nodes) /\ ToSet(r) = ToSet(s) \ {n} /\ entriesOf(heap, r) = RemoveAt(entries, j)
  <2>1. heap \in Heap
    BY DEF CacheInv
  <2>2. Different(s)
    BY <2>1, ListProps
  <2>3. s \in Seq(Nodes) /\ entries = entriesOf(heap, s)
    BY <1>1
  <2>4. r \in Seq(Nodes) /\ ToSet(r) = ToSet(s) \ {s[j]}
    BY <2>2, <2>3, CutOutOfChain
  <2>5. entriesOf(heap, r) = RemoveAt(entries, j)
    BY <2>3, EntriesCut
  <2> QED BY <1>3, <2>4, <2>5
<1> HIDE DEF r
<1>7. entriesOf(heap', r) = entriesOf(heap, r)
  <2>1. \A m \in ToSet(r) : m \in Nodes /\ m # n
    BY <1>1, <1>6 DEF CacheInv
  <2>2. \A m \in ToSet(r) : /\ heap'.node[m].key = heap.node[m].key
                           /\ heap'.node[m].value = heap.node[m].value
    BY <1>5, <2>1
  <2> QED BY <1>6, <2>2, EntriesStay
<1>8. entries' = entriesOf(heap', <<n>> \o r)
  BY <1>5 DEF entries, entriesOf
<1>9. entries' = <<entryOf(heap', n)>> \o entriesOf(heap', r)
  BY <1>4, <1>6, <1>8, EntriesPush
<1>10. entryOf(heap', n) = [key |-> k, value |-> v]
  BY <1>2, <1>4, <1>5 DEF entryOf
<1>11. entries[j] = [key |-> k, value |-> heap.node[n].value]
  <2>1. s \in Seq(Nodes) /\ entries = entriesOf(heap, s)
    BY <1>1
  <2>2. entries[j] = entryOf(heap, n)
    BY <1>3, <2>1, EntriesProps
  <2> QED BY <1>2, <2>2 DEF entryOf
<1>12. j \in Lru!hits(k)
  BY <1>1, <1>11 DEF Lru!hits
<1>13. entries' = <<[key |-> k, value |-> v]>> \o RemoveAt(entries, j)
  BY <1>6, <1>7, <1>9, <1>10
<1> QED BY <1>5, <1>11, <1>12, <1>13

\* A key that is not there has no entry.
LEMMA MissStep ==
    ASSUME CacheInv, NEW k \in Keys, found(heap, k) = {}
    PROVE  Lru!hits(k) = {} /\ \A m \in live : heap.node[m].key # k
<1>1. PICK s \in Lists(heap) :
        /\ \A i \in 1 .. Len(s) : s[i] \in live /\ entries[i].key = heap.node[s[i]].key
        /\ DOMAIN entries = 1 .. Len(s)
        /\ found(heap, k) = {m \in live : heap.node[m].key = k}
  BY CacheNow
<1>2. \A m \in live : heap.node[m].key # k
  BY <1>1
<1> QED BY <1>1, <1>2 DEF Lru!hits

LEMMA PutStep ==
    ASSUME CacheInv, NEW k \in Keys, NEW v \in Values, put(k, v)
    PROVE  CacheInv' /\ Lru!Put(k, v)
<1> DEFINE x == [key |-> k, value |-> v]
<1>1. capacity > 0 /\ output' = NULL /\ capacity' = capacity
  BY DEF put
<1>2. CASE putFound(k, v)
  <2>1. PICK n \in found(heap, k) :
          /\ heap' = touch([heap EXCEPT !.node[n].value = v], n) /\ live' = live
    BY <1>2 DEF putFound
  <2> DEFINE new == [heap.node EXCEPT ![n].value = v]
             h == [heap EXCEPT !.node = new]
  <2>2. heap \in Heap /\ heap.node \in [Nodes -> Node] /\ n \in Nodes
    <3>1. heap \in Heap /\ live \in SUBSET Nodes
      BY DEF CacheInv
    <3>2. n \in live
      BY CacheNow
    <3> QED BY <3>1, <3>2, HeapFields
  <2>3. ASSUME NEW m \in Nodes
        PROVE  /\ new[m] \in Node
               /\ new[m].key = heap.node[m].key /\ new[m].hashNext = heap.node[m].hashNext
               /\ new[m].next = heap.node[m].next /\ new[m].prev = heap.node[m].prev
               /\ new[m].value = IF m = n THEN v ELSE heap.node[m].value
    <3>1. heap.node[m] \in Node
      BY <2>2
    <3>2. CASE m = n
      <4>1. new[m] = [heap.node[m] EXCEPT !.value = v]
        BY <2>2, <3>2
      <4> QED BY <3>1, <3>2, <4>1 DEF Node
    <3>3. CASE m # n
      <4>1. new[m] = heap.node[m]
        BY <2>2, <3>3
      <4> QED BY <3>1, <3>3, <4>1
    <3> QED BY <3>2, <3>3
  <2>4. new \in [Nodes -> Node]
    <3>1. new = [m \in Nodes |-> new[m]]
      BY <2>2
    <3> HIDE DEF new
    <3> QED BY <2>3, <3>1
  <2>5. heap' = touch(h, n)
    BY <2>1
  <2> HIDE DEF new
  <2>6. /\ h \in Heap /\ h.head = heap.head /\ h.tail = heap.tail
        /\ h.count = heap.count /\ h.hashTable = heap.hashTable /\ h.node = new
    BY <2>2, <2>4 DEF Heap
  <2> HIDE DEF h
  <2>7. h \in SameLinks(heap)
    BY <2>3, <2>6 DEF SameLinks
  <2>8. \A m \in Nodes : /\ h.node[m].key = heap.node[m].key
                        /\ h.node[m].hashNext = heap.node[m].hashNext
                        /\ h.node[m].value = IF m = n THEN v ELSE heap.node[m].value
    BY <2>3, <2>6
  <2>9. /\ CacheInv'
        /\ \E i \in Lru!hits(k) : entries' = <<x>> \o RemoveAt(entries, i)
    <3>1. h.count = heap.count /\ h.hashTable = heap.hashTable
      BY <2>6
    <3>2. live' = live /\ capacity' = capacity
      BY <1>1, <2>1
    <3>3. /\ CacheInv'
          /\ \E i \in Lru!hits(k) :
               /\ entries[i] = [key |-> k, value |-> heap.node[n].value]
               /\ entries' = <<[key |-> k, value |-> v]>> \o RemoveAt(entries, i)
      BY <2>5, <2>7, <2>8, <3>1, <3>2, HitStep
    <3> QED BY <3>3
  <2>10. \A i : RemoveAt(entries, i) = Lru!RemoveAt(entries, i)
    BY DEF RemoveAt, Lru!RemoveAt
  <2>11. \E i \in Lru!hits(k) : entries' = <<x>> \o Lru!RemoveAt(entries, i)
    BY <2>9, <2>10
  <2> QED BY <1>1, <2>9, <2>11 DEF Lru!Put
<1>3. CASE putNew(k, v)
  <2>1. Lru!hits(k) = {} /\ \A m \in live : heap.node[m].key # k
    BY <1>3, MissStep DEF putNew
  <2>2. PICK s \in Lists(heap) :
          /\ ToSet(s) = live /\ Len(s) = heap.count /\ s \in Seq(Nodes)
          /\ entries = entriesOf(heap, s) /\ Len(entries) = Len(s)
    BY CacheNow
  <2> DEFINE r == kept(s)
  <2>3. /\ r \in Seq(live) /\ CacheInv'
        /\ Len(s) >= capacity => Len(s) \in 1 .. Len(s)
        /\ \A m \in live : /\ heap'.node[m].key = heap.node[m].key
                          /\ heap'.node[m].value = heap.node[m].value
        /\ \E n \in Nodes : /\ order' = <<n>> \o r
                           /\ heap'.node[n].key = k /\ heap'.node[n].value = v
    <3>1. ToSet(s) = live /\ Len(s) = heap.count
      BY <2>2
    <3>2. \A m \in live : heap.node[m].key # k
      BY <2>1
    <3>3. capacity > 0 /\ capacity' = capacity
      BY <1>1
    <3> QED BY <1>3, <3>1, <3>2, <3>3, MissKeeps
  <2>4. live \in SUBSET Nodes /\ r = IF Len(s) >= capacity THEN RemoveAt(s, Len(s)) ELSE s
    BY DEF CacheInv, kept
  <2> HIDE DEF r
  <2>0. PICK n \in Nodes : /\ order' = <<n>> \o r
                          /\ heap'.node[n].key = k /\ heap'.node[n].value = v
    BY <2>3
  <2>5. r \in Seq(Nodes) /\ ToSet(r) \subseteq live
    BY <2>3, <2>4, SeqMonotonic, ElementOfSeq, LenProperties DEF ToSet
  <2>6. entriesOf(heap', r) = entriesOf(heap, r)
    <3>1. \A m \in ToSet(r) : /\ heap'.node[m].key = heap.node[m].key
                             /\ heap'.node[m].value = heap.node[m].value
      BY <2>3, <2>5
    <3> QED BY <2>5, <3>1, EntriesStay
  <2>7. entriesOf(heap, r) = Lru!evicted
    <3>1. CASE Len(s) >= capacity
      <4>1. entriesOf(heap, r) = RemoveAt(entries, Len(s))
        BY <2>2, <2>3, <2>4, <3>1, EntriesCut
      <4>2. entries \in Seq(Entries(heap))
        BY <2>2, EntriesProps
      <4>3. Front(entries) = RemoveAt(entries, Len(s))
        BY <2>2, <2>3, <3>1, <4>2, FrontCuts
      <4>4. Lru!evicted = Front(entries)
        BY <2>2, <3>1 DEF Lru!evicted, Lru!Front, Front
      <4> QED BY <4>1, <4>3, <4>4
    <3>2. CASE ~(Len(s) >= capacity)
      BY <2>2, <2>4, <3>2 DEF Lru!evicted
    <3> QED BY <3>1, <3>2
  <2>8. entries' = entriesOf(heap', <<n>> \o r)
    BY <2>0 DEF entries, entriesOf
  <2>9. entries' = <<entryOf(heap', n)>> \o entriesOf(heap', r)
    BY <2>0, <2>5, <2>8, EntriesPush
  <2>10. entryOf(heap', n) = x
    BY <2>0 DEF entryOf
  <2>11. entries' = <<x>> \o Lru!evicted
    BY <2>6, <2>7, <2>9, <2>10
  <2> QED BY <1>1, <2>1, <2>3, <2>11 DEF Lru!Put
<1> QED BY <1>2, <1>3 DEF put

LEMMA GetStep ==
    ASSUME CacheInv, NEW k \in Keys, get(k)
    PROVE  CacheInv' /\ Lru!Get(k)
<1>1. capacity > 0 /\ capacity' = capacity /\ live' = live
  BY DEF get
<1>2. CASE found(heap, k) = {} /\ output' = "NULL" /\ UNCHANGED heap
  <2>1. Lru!hits(k) = {}
    BY <1>2, MissStep
  <2>2. entries' = entries
    BY <1>2 DEF entries, order
  <2>3. CacheInv'
    BY <1>1, <1>2 DEF CacheInv
  <2> QED BY <1>1, <1>2, <2>1, <2>2, <2>3 DEF Lru!Get
<1>3. ASSUME NEW n \in found(heap, k), heap' = touch(heap, n), output' = heap.node[n].value
      PROVE  CacheInv' /\ Lru!Get(k)
  <2> DEFINE v == heap.node[n].value
  <2>1. heap \in SameLinks(heap)
    BY DEF SameLinks, CacheInv
  <2>2. \A m \in Nodes : /\ heap.node[m].key = heap.node[m].key
                        /\ heap.node[m].hashNext = heap.node[m].hashNext
                        /\ heap.node[m].value = IF m = n THEN v ELSE heap.node[m].value
    OBVIOUS
  <2>3. v = heap.node[n].value /\ output' = v
    BY <1>3
  <2> HIDE DEF v
  <2>4. /\ CacheInv'
        /\ \E i \in Lru!hits(k) :
             /\ entries[i] = [key |-> k, value |-> heap.node[n].value]
             /\ entries' = <<[key |-> k, value |-> v]>> \o RemoveAt(entries, i)
    BY <1>1, <1>3, <2>1, <2>2, HitStep
  <2>5. PICK i \in Lru!hits(k) :
          /\ entries[i] = [key |-> k, value |-> v]
          /\ entries' = <<entries[i]>> \o RemoveAt(entries, i)
    BY <2>3, <2>4
  <2>6. output' = entries[i].value
    BY <2>3, <2>5
  <2>7. entries' = <<entries[i]>> \o Lru!RemoveAt(entries, i)
    BY <2>5 DEF RemoveAt, Lru!RemoveAt
  <2> QED BY <1>1, <2>4, <2>6, <2>7 DEF Lru!Get
<1> QED BY <1>2, <1>3 DEF get

LEMMA CacheStep ==
    ASSUME CacheInv, Next
    PROVE  CacheInv' /\ Lru!Next
<1>1. ASSUME NEW c \in Capacities, createCache(c) PROVE CacheInv' /\ Lru!Next
  <2>1. /\ capacity' = IF c > 0 THEN c ELSE 0
        /\ live' = {} /\ output' = NULL /\ c \in Int
    BY <1>1, LruAssumption DEF createCache
  <2>2. capacity' \in Nat
    BY <2>1
  <2>3. CacheInv' /\ order' = <<>>
    BY <1>1, <2>1, <2>2, EmptyKeeps DEF createCache
  <2>4. entries' = <<>>
    BY <2>3 DEF entries
  <2>5. Lru!Create(c)
    BY <2>1, <2>4 DEF Lru!Create
  <2> QED BY <2>3, <2>5 DEF Lru!Next
<1>2. ASSUME NEW k \in Keys, NEW v \in Values, put(k, v) PROVE CacheInv' /\ Lru!Next
  BY <1>2, PutStep DEF Lru!Next
<1>3. ASSUME NEW k \in Keys, get(k) PROVE CacheInv' /\ Lru!Next
  BY <1>3, GetStep DEF Lru!Next
<1>4. ASSUME NoCache PROVE CacheInv' /\ Lru!Next
  <2>1. heap' = heap /\ live' = live /\ capacity' = capacity /\ output' = NULL
    BY <1>4 DEF NoCache
  <2>2. entries' = entries
    BY <2>1 DEF entries, order
  <2>3. CacheInv'
    BY <2>1 DEF CacheInv
  <2> QED BY <2>1, <2>2, <2>3 DEF Lru!Next, Lru!Nothing
<1>5. ASSUME Exit PROVE CacheInv' /\ Lru!Next
  <2>1. live' = {} /\ capacity' = 0 /\ output' = NULL
    BY <1>5 DEF Exit
  <2>2. CacheInv' /\ order' = <<>>
    BY <1>5, <2>1, EmptyKeeps DEF Exit
  <2>3. entries' = <<>>
    BY <2>2 DEF entries
  <2> QED BY <2>1, <2>2, <2>3 DEF Lru!Next, Lru!End
<1> QED BY <1>1, <1>2, <1>3, <1>4, <1>5 DEF Next

LEMMA CacheStutter ==
    ASSUME CacheInv, UNCHANGED vars
    PROVE  CacheInv' /\ UNCHANGED Lru!vars
<1>1. heap' = heap /\ live' = live /\ capacity' = capacity /\ output' = output
  BY DEF vars
<1>2. entries' = entries
  BY <1>1 DEF entries, order
<1> QED BY <1>1, <1>2 DEF CacheInv, Lru!vars

\* List and table hold the same entries after every command: the list is whole
\* read from both ends, has count nodes and no more than capacity, and every
\* node of it is in the one chain of its key.
THEOREM ListAndTableCorrect == Spec => []ListAndTableAgree
<1>1. Init => CacheInv
  BY InitInv
<1>2. CacheInv /\ [Next]_vars => CacheInv'
  BY CacheStep, CacheStutter
<1>3. CacheInv => ListAndTableAgree
  BY InvShows
<1> QED BY <1>1, <1>2, <1>3, PTL DEF Spec

\* What the pointers do is what the list of entries does: a use brings an entry
\* to the front, and a full cache gives up the one used longest ago.
THEOREM CacheImplementsLru == Spec => ImplementsLru
<1>1. Init => CacheInv /\ Lru!Init
  <2>1. ASSUME Init PROVE Lru!Init
    <3>1. entries = <<>>
      BY <2>1, InitInv DEF entries
    <3> QED BY <2>1, <3>1 DEF Init, Lru!Init
  <2> QED BY <2>1, InitInv
<1>2. CacheInv /\ [Next]_vars => CacheInv' /\ [Lru!Next]_Lru!vars
  BY CacheStep, CacheStutter
<1> QED BY <1>1, <1>2, PTL DEF Spec, ImplementsLru, Lru!Spec

=============================================================================
