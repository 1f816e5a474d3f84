----------------------------- MODULE ProofBasics ------------------------------
(* What the proofs of several components need: induction and recursion on the *)
(* natural numbers, and parts of sequences.  Induction rests on the           *)
(* well-foundedness of < on Nat alone, so that no induction theorem with an   *)
(* operator as parameter is needed: to prove something for all numbers, take  *)
(* the least one for which it does not hold.                                  *)
EXTENDS Integers, SequencesExt, SequenceTheorems, FiniteSetTheorems,
        WellFoundedInduction, TLAPS

-----------------------------------------------------------------------------
(* Numbers.                                                                  *)

\* A set of natural numbers that is not empty has a least element.
LEMMA LeastNat ==
    ASSUME NEW T, T \subseteq Nat, T # {}
    PROVE  \E x \in T : \A y \in T : x <= y
<1> DEFINE R == {p \in Nat \X Nat : p[1] < p[2]}
<1>1. IsWellFoundedOn(R, Nat)
  BY NatLessThanWellFounded DEF OpToRel
<1> HIDE DEF R
<1>2. PICK x \in T : \A y \in T : <<y, x>> \notin R
  BY <1>1, WFMin
<1>3. ASSUME NEW y \in T PROVE x <= y
  <2>1. x \in Nat /\ y \in Nat
    OBVIOUS
  <2>2. <<y, x>> \notin R
    BY <1>2
  <2>3. ~(y < x)
    BY <2>1, <2>2 DEF R
  <2> QED BY <2>1, <2>3
<1> QED BY <1>3

\* The least and the greatest of some numbers between two others.
LEMMA MinMax ==
    ASSUME NEW lo \in Int, NEW hi \in Int, NEW T, T \subseteq lo .. hi, T # {}
    PROVE  /\ Min(T) \in T /\ \A y \in T : Min(T) <= y
           /\ Max(T) \in T /\ \A y \in T : y <= Max(T)
<1>1. \E x \in T : \A y \in T : x <= y
  <2> DEFINE up == {y - lo : y \in T}
  <2>1. up \subseteq Nat /\ up # {}
    <3>1. PICK y : y \in T
      OBVIOUS
    <3>2. y - lo \in up
      BY <3>1
    <3> QED BY <3>2
  <2> HIDE DEF up
  <2>2. PICK u \in up : \A w \in up : u <= w
    BY <2>1, LeastNat
  <2>3. PICK x \in T : u = x - lo
    BY <2>2 DEF up
  <2>4. \A y \in T : x - lo <= y - lo
    BY <2>2, <2>3 DEF up
  <2> QED BY <2>3, <2>4
<1>2. \E x \in T : \A y \in T : y <= x
  <2> DEFINE down == {hi - y : y \in T}
  <2>1. down \subseteq Nat /\ down # {}
    <3>1. PICK y : y \in T
      OBVIOUS
    <3>2. hi - y \in down
      BY <3>1
    <3> QED BY <3>2
  <2> HIDE DEF down
  <2>2. PICK u \in down : \A w \in down : u <= w
    BY <2>1, LeastNat
  <2>3. PICK x \in T : u = hi - x
    BY <2>2 DEF down
  <2>4. \A y \in T : hi - x <= hi - y
    BY <2>2, <2>3 DEF down
  <2> QED BY <2>3, <2>4
<1>3. Min(T) \in T /\ \A y \in T : Min(T) <= y
  BY <1>1 DEF Min
<1>4. Max(T) \in T /\ \A y \in T : Max(T) >= y
  <2>1. PICK x \in T : \A y \in T : y <= x
    BY <1>2
  <2>2. \A y \in T : x >= y
    BY <2>1
  <2> QED BY <2>2 DEF Max
<1> QED BY <1>3, <1>4

\* Induction, for a set instead of a predicate: one that holds 0 and with every
\* number the next one holds them all.
LEMMA InductiveSet ==
    ASSUME NEW T, 0 \in T, \A n \in Nat : n \in T => n + 1 \in T
    PROVE  Nat \subseteq T
<1> DEFINE missing == Nat \ T
<1>1. SUFFICES ASSUME missing # {} PROVE FALSE
  OBVIOUS
<1>2. PICK x \in missing : \A y \in missing : x <= y
  BY <1>1, LeastNat
<1>3. x \in Nat /\ x # 0
  BY <1>2
<1>4. x - 1 \in Nat /\ x - 1 \notin missing
  BY <1>2, <1>3
<1>5. x - 1 \in T
  BY <1>4
<1>6. (x - 1) + 1 \in T
  BY <1>4, <1>5
<1> QED BY <1>2, <1>3, <1>6

\* The functions on 0 .. n that start with c and go on as G says.
upTo(S, c, G, n) ==
    {f \in [0 .. n -> S] : /\ f[0] = c
                           /\ \A i \in 0 .. n - 1 : f[i + 1] = G[<<i, f[i]>>]}

\* There is one for every n, ...
LEMMA SomeUpTo ==
    ASSUME NEW S, NEW c \in S, NEW G \in [Nat \X S -> S]
    PROVE  \A n \in Nat : upTo(S, c, G, n) # {}
<1> DEFINE T == {n \in Nat : upTo(S, c, G, n) # {}}
<1>1. 0 \in T
  <2> DEFINE f == [i \in 0 .. 0 |-> c]
  <2>1. f \in upTo(S, c, G, 0)
    BY DEF upTo
  <2> QED BY <2>1
<1>2. ASSUME NEW n \in Nat, n \in T PROVE n + 1 \in T
  <2>1. PICK f : f \in upTo(S, c, G, n)
    BY <1>2
  <2>2. /\ f \in [0 .. n -> S] /\ f[0] = c
        /\ \A i \in 0 .. n - 1 : f[i + 1] = G[<<i, f[i]>>]
    BY <2>1 DEF upTo
  <2> DEFINE last == G[<<n, f[n]>>]
             g == [i \in 0 .. n + 1 |-> IF i = n + 1 THEN last ELSE f[i]]
  <2>3. last \in S
    BY <2>2
  <2> HIDE DEF last
  <2>4. g \in [0 .. n + 1 -> S] /\ g[0] = c
    BY <2>2, <2>3
  <2>5. ASSUME NEW i \in 0 .. n PROVE g[i + 1] = G[<<i, g[i]>>]
    <3>1. g[i] = f[i]
      OBVIOUS
    <3>2. CASE i = n
      <4>1. g[n + 1] = last
        OBVIOUS
      <4> QED BY <3>1, <3>2, <4>1 DEF last
    <3>3. CASE i # n
      <4>1. i \in 0 .. n - 1 /\ i + 1 \in 0 .. n
        BY <3>3
      <4> QED BY <2>2, <3>1, <4>1
    <3> QED BY <3>2, <3>3
  <2>6. 0 .. (n + 1) - 1 = 0 .. n
    OBVIOUS
  <2>7. g \in upTo(S, c, G, n + 1)
    BY <2>4, <2>5, <2>6 DEF upTo
  <2> QED BY <2>7
<1> HIDE DEF T
<1>3. Nat \subseteq T
  BY <1>1, <1>2, InductiveSet
<1> QED BY <1>3 DEF T

\* ... and any two agree where both are defined.
LEMMA UpToAgree ==
    ASSUME NEW S, NEW c \in S, NEW G \in [Nat \X S -> S],
           NEW n \in Nat, NEW m \in Nat, n <= m,
           NEW f \in upTo(S, c, G, n), NEW g \in upTo(S, c, G, m)
    PROVE  \A i \in 0 .. n : f[i] = g[i]
<1> DEFINE T == {i \in Nat : i <= n => f[i] = g[i]}
<1>1. 0 \in T
  BY DEF upTo
<1>2. ASSUME NEW i \in Nat, i \in T PROVE i + 1 \in T
  <2>1. SUFFICES ASSUME i + 1 <= n PROVE f[i + 1] = g[i + 1]
    OBVIOUS
  <2>2. i \in 0 .. n - 1 /\ i \in 0 .. m - 1 /\ f[i] = g[i]
    BY <1>2, <2>1
  <2>3. f[i + 1] = G[<<i, f[i]>>] /\ g[i + 1] = G[<<i, g[i]>>]
    BY <2>2 DEF upTo
  <2> QED BY <2>2, <2>3
<1> HIDE DEF T
<1>3. Nat \subseteq T
  BY <1>1, <1>2, InductiveSet
<1> QED BY <1>3 DEF T

\* A function that starts with c and goes on as G says.
recurs(f, c, G) == f[0] = c /\ \A n \in Nat : f[n + 1] = G[<<n, f[n]>>]

\* Recursion: there is a function that starts with c and goes on as G says.  A
\* recursive definition stands for CHOOSE of such a function, and this lemma is
\* what its equation follows from.
LEMMA RecursiveFunction ==
    ASSUME NEW S, NEW c \in S, NEW G \in [Nat \X S -> S]
    PROVE  \E f \in [Nat -> S] : recurs(f, c, G)
<1> DEFINE some(n) == CHOOSE h : h \in upTo(S, c, G, n)
           f == [n \in Nat |-> some(n)[n]]
<1>1. ASSUME NEW n \in Nat PROVE some(n) \in upTo(S, c, G, n)
  BY SomeUpTo
<1> HIDE DEF some
<1>2. ASSUME NEW n \in Nat PROVE f[n] \in S
  BY <1>1 DEF upTo
<1>3. f[0] = c
  BY <1>1 DEF upTo
<1>4. ASSUME NEW n \in Nat PROVE f[n + 1] = G[<<n, f[n]>>]
  <2> DEFINE g == some(n + 1)
  <2>1. g \in upTo(S, c, G, n + 1)
    BY <1>1
  <2>2. some(n)[n] = g[n]
    <3>1. some(n) \in upTo(S, c, G, n)
      BY <1>1
    <3>2. \A i \in 0 .. n : some(n)[i] = g[i]
      <4> HIDE DEF g
      <4> QED BY <2>1, <3>1, UpToAgree
    <3> QED BY <3>2
  <2>3. g[n + 1] = G[<<n, g[n]>>]
    BY <2>1 DEF upTo
  <2> QED BY <2>2, <2>3
<1> HIDE DEF f
<1>5. f \in [Nat -> S]
  BY <1>2 DEF f
<1>6. recurs(f, c, G)
  BY <1>3, <1>4 DEF recurs
<1> QED BY <1>5, <1>6

\* The same on an interval.
recursFrom(F, a, b, c, G) ==
    \A k \in a .. b : F[k] = IF k = a THEN c ELSE G[<<k, F[k - 1]>>]

LEMMA IntervalRecursion ==
    ASSUME NEW S, NEW c \in S, NEW a \in Int, NEW b \in Int,
           NEW G \in [Int \X S -> S]
    PROVE  \E F \in [a .. b -> S] : recursFrom(F, a, b, c, G)
<1> DEFINE H == [p \in Nat \X S |-> G[<<a + p[1] + 1, p[2]>>]]
<1>1. H \in [Nat \X S -> S]
  OBVIOUS
<1>2. \A m \in Nat, x \in S : H[<<m, x>>] = G[<<a + m + 1, x>>]
  OBVIOUS
<1> HIDE DEF H
<1>3. PICK f \in [Nat -> S] : recurs(f, c, H)
  BY <1>1, RecursiveFunction
<1> DEFINE F == [k \in a .. b |-> f[k - a]]
<1>4. ASSUME NEW k \in a .. b
      PROVE  F[k] = IF k = a THEN c ELSE G[<<k, F[k - 1]>>]
  <2>1. CASE k = a
    <3>1. k - a = 0
      BY <2>1
    <3> QED BY <1>3, <2>1, <3>1 DEF recurs
  <2>2. CASE k # a
    <3> DEFINE m == k - 1 - a
    <3>1. /\ m \in Nat /\ m + 1 = k - a /\ a + m + 1 = k
          /\ k - 1 \in a .. b /\ F[k - 1] = f[m]
      BY <2>2
    <3>2. f[m + 1] = H[<<m, f[m]>>]
      BY <1>3, <3>1 DEF recurs
    <3>3. H[<<m, f[m]>>] = G[<<k, f[m]>>]
      BY <1>2, <3>1
    <3> QED BY <2>2, <3>1, <3>2, <3>3
  <2> QED BY <2>1, <2>2
<1>5. F \in [a .. b -> S]
  OBVIOUS
<1> QED BY <1>4, <1>5 DEF recursFrom

-----------------------------------------------------------------------------
(* Parts of sequences.                                                       *)

\* The first elements of a sequence.
LEMMA FirstOf ==
    ASSUME NEW S, NEW q \in Seq(S), NEW k \in 0 .. Len(q)
    PROVE  /\ SubSeq(q, 1, k) \in Seq(S)
           /\ Len(SubSeq(q, 1, k)) = k
           /\ DOMAIN SubSeq(q, 1, k) = 1 .. k
           /\ \A i \in 1 .. k : SubSeq(q, 1, k)[i] = q[i]
<1> DEFINE a == SubSeq(q, 1, k)
<1>1. Len(q) \in Nat /\ \A i \in 1 .. Len(q) : q[i] \in S
  BY LenProperties, ElementOfSeq
<1>2. /\ a \in Seq(S)
      /\ Len(a) = IF 1 <= k THEN k - 1 + 1 ELSE 0
      /\ \A i \in 1 .. k - 1 + 1 : a[i] = q[1 + i - 1]
  BY <1>1, SubSeqProperties
<1> HIDE DEF a
<1>3. Len(a) = k
  BY <1>1, <1>2
<1>4. \A i \in 1 .. k : a[i] = q[i]
  BY <1>1, <1>2
<1> QED BY <1>2, <1>3, <1>4, LenProperties DEF a

\* The last elements of a sequence.
LEMMA LastOf ==
    ASSUME NEW S, NEW q \in Seq(S), NEW k \in 0 .. Len(q)
    PROVE  /\ SubSeq(q, k + 1, Len(q)) \in Seq(S)
           /\ Len(SubSeq(q, k + 1, Len(q))) = Len(q) - k
           /\ DOMAIN SubSeq(q, k + 1, Len(q)) = 1 .. Len(q) - k
           /\ \A i \in 1 .. Len(q) - k : SubSeq(q, k + 1, Len(q))[i] = q[k + i]
<1> DEFINE b == SubSeq(q, k + 1, Len(q))
<1>1. Len(q) \in Nat /\ \A i \in 1 .. Len(q) : q[i] \in S
  BY LenProperties, ElementOfSeq
<1>2. /\ b \in Seq(S)
      /\ Len(b) = IF k + 1 <= Len(q) THEN Len(q) - (k + 1) + 1 ELSE 0
      /\ \A i \in 1 .. Len(q) - (k + 1) + 1 : b[i] = q[k + 1 + i - 1]
  BY <1>1, SubSeqProperties
<1> HIDE DEF b
<1>3. Len(b) = Len(q) - k
  BY <1>1, <1>2
<1>4. ASSUME NEW i \in 1 .. Len(q) - k PROVE b[i] = q[k + i]
  <2>1. i \in 1 .. Len(q) - (k + 1) + 1 /\ k + 1 + i - 1 = k + i
    BY <1>1
  <2> QED BY <1>2, <2>1
<1> QED BY <1>2, <1>3, <1>4, LenProperties DEF b

\* Removing the element at a position moves those behind it up by one place.
LEMMA RemoveAtShifts ==
    ASSUME NEW S, NEW q \in Seq(S), NEW k \in 1 .. Len(q)
    PROVE  /\ RemoveAt(q, k) \in Seq(S)
           /\ Len(RemoveAt(q, k)) = Len(q) - 1
           /\ DOMAIN RemoveAt(q, k) = 1 .. Len(q) - 1
           /\ \A i \in 1 .. Len(q) - 1 :
                RemoveAt(q, k)[i] = IF i < k THEN q[i] ELSE q[i + 1]
<1> DEFINE r == RemoveAt(q, k)
           a == SubSeq(q, 1, k - 1)
           b == SubSeq(q, k + 1, Len(q))
<1>0. Len(q) \in Nat /\ DOMAIN q = 1 .. Len(q) /\ \A i \in 1 .. Len(q) : q[i] \in S
  BY LenProperties, ElementOfSeq
<1>1. k \in 1 .. Len(q)
  OBVIOUS
<1>2. /\ a \in Seq(S) /\ Len(a) = k - 1
      /\ \A i \in 1 .. k - 1 : a[i] = q[i]
  <2>1. k - 1 \in 0 .. Len(q)
    BY <1>0, <1>1
  <2> QED BY <2>1, FirstOf
<1>3. /\ b \in Seq(S) /\ Len(b) = Len(q) - k
      /\ \A i \in 1 .. Len(q) - k : b[i] = q[k + i]
  <2>1. k \in 0 .. Len(q)
    BY <1>0, <1>1
  <2> QED BY <2>1, LastOf
<1>4. r = a \o b
  BY DEF RemoveAt
<1> HIDE DEF a, b, r
<1>5. /\ r \in Seq(S) /\ Len(r) = Len(q) - 1
      /\ DOMAIN r = 1 .. Len(q) - 1
      /\ \A i \in 1 .. Len(q) - 1 : r[i] = IF i < k THEN q[i] ELSE q[i + 1]
  <2>1. /\ r \in Seq(S) /\ Len(r) = Len(a) + Len(b)
        /\ \A i \in 1 .. Len(a) + Len(b) :
             r[i] = IF i <= Len(a) THEN a[i] ELSE b[i - Len(a)]
    BY <1>2, <1>3, <1>4, ConcatProperties
  <2>2. Len(r) = Len(q) - 1 /\ Len(a) + Len(b) = Len(q) - 1
    BY <1>0, <1>1, <1>2, <1>3, <2>1
  <2>3. ASSUME NEW i \in 1 .. Len(q) - 1
        PROVE  r[i] = IF i < k THEN q[i] ELSE q[i + 1]
    <3>1. r[i] = IF i <= k - 1 THEN a[i] ELSE b[i - (k - 1)]
      BY <1>2, <2>1, <2>2
    <3>2. CASE i < k
      <4>1. i \in 1 .. k - 1 /\ i <= k - 1
        BY <3>2, <1>0, <1>1
      <4> QED BY <3>1, <3>2, <4>1, <1>2
    <3>3. CASE ~(i < k)
      <4>1. /\ ~(i <= k - 1)
            /\ i - (k - 1) \in 1 .. Len(q) - k
            /\ k + (i - (k - 1)) = i + 1
        BY <3>3, <1>0, <1>1
      <4> QED BY <3>1, <3>3, <4>1, <1>3
    <3> QED BY <3>2, <3>3
  <2> QED BY <2>1, <2>2, <2>3, LenProperties
<1> QED BY <1>5 DEF r

-----------------------------------------------------------------------------
(* Chains of pointers: nodes of a set S, each linked to the next.            *)

Different(s) == \A i, j \in 1 .. Len(s) : s[i] = s[j] => i = j

\* Before the first and behind the last node there is the null pointer.
nodeAt(s, i, null) == IF i \in 1 .. Len(s) THEN s[i] ELSE null

\* The sequences that the links run through from p to null, without coming back
\* to a node.
chainsFrom(S, null, link, p) ==
    {s \in Seq(S) :
        /\ Different(s)
        /\ p = nodeAt(s, 1, null)
        /\ \A i \in 1 .. Len(s) : link[s[i]] = nodeAt(s, i + 1, null)}

\* The equation of a walk: F[i][c] is what is found from c when i nodes may be
\* taken.
walkOf(S, null, link, F) ==
    [i \in Nat |-> [c \in S \cup {null} |->
        IF i = 0 \/ c = null THEN <<>> ELSE <<c>> \o F[i - 1][link[c]]]]

\* A sequence of different nodes is not longer than there are nodes.
LEMMA NotTooLong ==
    ASSUME NEW S, IsFiniteSet(S), NEW s \in Seq(S), Different(s)
    PROVE  /\ Len(s) \in Nat /\ Len(s) <= Cardinality(S) /\ Cardinality(S) \in Nat
           /\ IsFiniteSet(ToSet(s)) /\ Cardinality(ToSet(s)) = Len(s)
<1> DEFINE n == Len(s)
<1>1. n \in Nat /\ DOMAIN s = 1 .. n /\ s \in [1 .. n -> S]
  BY LenProperties
<1>2. IsFiniteSet(1 .. n) /\ Cardinality(1 .. n) = n
  BY <1>1, FS_Interval
<1>3. s \in Surjection(1 .. n, ToSet(s)) /\ s \in Injection(1 .. n, ToSet(s))
  BY <1>1 DEF ToSet, Surjection, Injection, IsInjective, Different
<1>4. IsFiniteSet(ToSet(s)) /\ Cardinality(ToSet(s)) = n
  BY <1>2, <1>3, FS_Surjection
<1>5. ToSet(s) \in SUBSET S
  BY <1>1 DEF ToSet
<1>6. Cardinality(ToSet(s)) <= Cardinality(S) /\ Cardinality(S) \in Nat
  BY <1>5, FS_Subset, FS_CardinalityType
<1> QED BY <1>1, <1>4, <1>6

\* One element before a sequence.
LEMMA InFrontOf ==
    ASSUME NEW S, NEW x \in S, NEW q \in Seq(S)
    PROVE  /\ <<x>> \o q \in Seq(S) /\ Len(<<x>> \o q) = Len(q) + 1
           /\ (<<x>> \o q)[1] = x
           /\ \A i \in 1 .. Len(q) : (<<x>> \o q)[i + 1] = q[i]
<1>1. <<x>> \in Seq(S) /\ Len(<<x>>) = 1 /\ <<x>>[1] = x /\ Len(q) \in Nat
  BY LenProperties
<1>2. /\ <<x>> \o q \in Seq(S) /\ Len(<<x>> \o q) = 1 + Len(q)
      /\ \A i \in 1 .. 1 + Len(q) :
           (<<x>> \o q)[i] = IF i <= 1 THEN <<x>>[i] ELSE q[i - 1]
  BY <1>1, ConcatProperties
<1>3. \A i \in 1 .. Len(q) : /\ i + 1 \in 1 .. 1 + Len(q) /\ ~(i + 1 <= 1)
                             /\ (i + 1) - 1 = i
  BY <1>1
<1> QED BY <1>1, <1>2, <1>3

\* A recursive definition of a walk stands for a function.
LEMMA WalkExists ==
    ASSUME NEW S, NEW null, NEW link \in [S -> S \cup {null}]
    PROVE  \E F : F = walkOf(S, null, link, F)
<1> DEFINE P == S \cup {null}
           R == [P -> Seq(S)]
           none == [c \in P |-> <<>>]
           more(g) == [c \in P |-> IF c = null THEN <<>> ELSE <<c>> \o g[link[c]]]
           G == [a \in Nat \X R |-> more(a[2])]
           body(F) == [i \in Nat |-> [c \in P |->
                         IF i = 0 \/ c = null THEN <<>> ELSE <<c>> \o F[i - 1][link[c]]]]
<1>1. none \in R
  BY EmptySeq
<1>2. \A g \in R : more(g) \in R
  <2> SUFFICES ASSUME NEW g \in R PROVE more(g) \in R
    OBVIOUS
  <2>1. ASSUME NEW c \in P, c # null PROVE <<c>> \o g[link[c]] \in Seq(S)
    <3>1. c \in S /\ g[link[c]] \in Seq(S)
      BY <2>1
    <3> QED BY <3>1, InFrontOf
  <2> QED BY <2>1, EmptySeq
<1>3. \A n \in Nat, g \in R : G[<<n, g>>] = more(g)
  OBVIOUS
<1>4. G \in [Nat \X R -> R]
  <2> HIDE DEF R, more
  <2> QED BY <1>2
<1> HIDE DEF G
<1>5. PICK f \in [Nat -> R] : recurs(f, none, G)
  <2> HIDE DEF R, none
  <2> QED BY <1>1, <1>4, RecursiveFunction
<1>6. f[0] = none /\ \A n \in Nat : f[n + 1] = more(f[n])
  <2> HIDE DEF none, more, R
  <2> QED BY <1>3, <1>5 DEF recurs
<1>7. \A c \in P : f[0][c] = <<>>
  BY <1>6
<1>8. ASSUME NEW i \in Nat, NEW c \in P
      PROVE  f[i + 1][c] = IF c = null THEN <<>> ELSE <<c>> \o f[i][link[c]]
  <2> DEFINE g == f[i]
  <2>1. f[i + 1] = more(g)
    BY <1>6
  <2> HIDE DEF g
  <2>2. more(g)[c] = IF c = null THEN <<>> ELSE <<c>> \o g[link[c]]
    OBVIOUS
  <2> HIDE DEF more
  <2> QED BY <2>1, <2>2 DEF g
<1> HIDE DEF none, more
<1>9. f = body(f)
  <2>1. ASSUME NEW i \in Nat
        PROVE  f[i] = [c \in P |-> IF i = 0 \/ c = null THEN <<>>
                                   ELSE <<c>> \o f[i - 1][link[c]]]
    <3>1. ASSUME NEW c \in P
          PROVE  f[i][c] = IF i = 0 \/ c = null THEN <<>> ELSE <<c>> \o f[i - 1][link[c]]
      <4>1. CASE i = 0
        BY <1>7, <4>1
      <4>2. CASE i # 0
        <5>1. i - 1 \in Nat /\ (i - 1) + 1 = i
          BY <4>2
        <5>2. f[i][c] = IF c = null THEN <<>> ELSE <<c>> \o f[i - 1][link[c]]
          BY <1>8, <5>1
        <5> QED BY <4>2, <5>2
      <4> QED BY <4>1, <4>2
    <3>2. f[i] \in R
      OBVIOUS
    <3> QED BY <3>1, <3>2
  <2> HIDE DEF R
  <2> QED BY <2>1
<1>10. body(f) = walkOf(S, null, link, f)
  BY DEF walkOf
<1> HIDE DEF body
<1> QED BY <1>9, <1>10

\* A walk finds the chain when all of its nodes may be taken.
LEMMA WalkFinds ==
    ASSUME NEW S, NEW null, null \notin S, NEW link \in [S -> S \cup {null}],
           NEW p, NEW s \in chainsFrom(S, null, link, p), NEW K \in Nat, Len(s) <= K,
           NEW f, f = walkOf(S, null, link, f)
    PROVE  f[K][p] = s
<1> DEFINE n == Len(s)
           at(i) == nodeAt(s, i, null)
           rest(k) == SubSeq(s, k + 1, n)
<1>1. /\ s \in Seq(S) /\ Different(s) /\ p = at(1)
      /\ \A i \in 1 .. n : link[s[i]] = at(i + 1)
  BY DEF chainsFrom
<1>2. n \in Nat /\ n <= K /\ \A i \in 1 .. n : s[i] \in S
  BY <1>1, LenProperties, ElementOfSeq
<1>3. \A i \in 1 .. n + 1 : at(i) \in S \cup {null}
  BY <1>2 DEF nodeAt
<1>4. \A i \in 1 .. n : at(i) = s[i] /\ at(i) # null
  BY <1>2 DEF nodeAt
<1>5. at(n + 1) = null
  BY <1>2 DEF nodeAt
<1> HIDE DEF at
<1>6. ASSUME NEW i \in Nat, NEW c \in S \cup {null}
      PROVE  f[i][c] = IF i = 0 \/ c = null THEN <<>> ELSE <<c>> \o f[i - 1][link[c]]
  <2>1. f = [j \in Nat |-> [d \in S \cup {null} |->
               IF j = 0 \/ d = null THEN <<>> ELSE <<d>> \o f[j - 1][link[d]]]]
    BY DEF walkOf
  <2>2. f[i] = [d \in S \cup {null} |->
               IF i = 0 \/ d = null THEN <<>> ELSE <<d>> \o f[i - 1][link[d]]]
    BY <2>1
  <2> QED BY <2>2
<1>7. \A k \in 0 .. n : /\ rest(k) \in Seq(S) /\ Len(rest(k)) = n - k
                        /\ \A i \in 1 .. n - k : rest(k)[i] = s[k + i]
  BY <1>1, LastOf
<1>8. rest(n) = <<>>
  BY <1>2, <1>7, EmptySeq
<1>9. ASSUME NEW k \in 0 .. n, k # n PROVE <<s[k + 1]>> \o rest(k + 1) = rest(k)
  <2> DEFINE q == rest(k + 1)
             r == <<s[k + 1]>> \o q
  <2>1. k + 1 \in 1 .. n /\ k + 1 \in 0 .. n /\ s[k + 1] \in S
    BY <1>2, <1>9
  <2>2. /\ q \in Seq(S) /\ Len(q) = n - (k + 1)
        /\ \A i \in 1 .. n - (k + 1) : q[i] = s[(k + 1) + i]
    BY <1>7, <2>1
  <2> HIDE DEF rest, q
  <2>3. /\ r \in Seq(S) /\ Len(r) = Len(q) + 1 /\ r[1] = s[k + 1]
        /\ \A i \in 1 .. Len(q) : r[i + 1] = q[i]
    BY <2>1, <2>2, InFrontOf
  <2> HIDE DEF r
  <2>4. /\ rest(k) \in Seq(S) /\ Len(rest(k)) = n - k
        /\ \A i \in 1 .. n - k : rest(k)[i] = s[k + i]
    BY <1>7
  <2>5. ASSUME NEW i \in 1 .. n - k PROVE r[i] = rest(k)[i]
    <3>1. CASE i = 1
      BY <2>3, <2>4, <3>1
    <3>2. CASE i # 1
      <4> DEFINE j == i - 1
      <4>1. j \in 1 .. n - (k + 1) /\ j + 1 = i /\ (k + 1) + j = k + i
        BY <1>2, <3>2
      <4>2. r[j + 1] = q[j] /\ q[j] = s[(k + 1) + j]
        BY <2>2, <2>3, <4>1
      <4> QED BY <2>4, <4>1, <4>2
    <3> QED BY <3>1, <3>2
  <2>6. Len(r) = n - k
    BY <1>2, <2>2, <2>3
  <2>7. r = rest(k)
    BY <2>3, <2>4, <2>5, <2>6, SeqEqual
  <2> QED BY <2>7 DEF r, q
<1> HIDE DEF rest
<1> DEFINE T == {i \in Nat : \A k \in 0 .. n : n - k <= i => f[i][at(k + 1)] = rest(k)}
<1>10. 0 \in T
  <2> SUFFICES ASSUME NEW k \in 0 .. n, n - k <= 0 PROVE f[0][at(k + 1)] = rest(k)
    OBVIOUS
  <2>1. k = n /\ k + 1 \in 1 .. n + 1
    BY <1>2
  <2>2. f[0][at(k + 1)] = <<>>
    BY <1>3, <1>6, <2>1
  <2> QED BY <1>8, <2>1, <2>2
<1>11. ASSUME NEW i \in Nat, i \in T PROVE i + 1 \in T
  <2> SUFFICES ASSUME NEW k \in 0 .. n, n - k <= i + 1
               PROVE  f[i + 1][at(k + 1)] = rest(k)
    OBVIOUS
  <2> DEFINE c == at(k + 1)
             m == i + 1
  <2>1. c \in S \cup {null} /\ m \in Nat /\ m # 0 /\ m - 1 = i
    BY <1>2, <1>3
  <2>2. f[m][c] = IF m = 0 \/ c = null THEN <<>> ELSE <<c>> \o f[m - 1][link[c]]
    BY <1>6, <2>1
  <2>3. f[i + 1][c] = IF c = null THEN <<>> ELSE <<c>> \o f[i][link[c]]
    BY <2>1, <2>2
  <2>4. CASE k = n
    BY <1>5, <1>8, <2>3, <2>4
  <2>5. CASE k # n
    <3>1. /\ k + 1 \in 1 .. n /\ k + 1 \in 0 .. n /\ n - (k + 1) <= i
      BY <1>2, <2>5
    <3>2. c = s[k + 1] /\ c # null
      BY <1>4, <3>1
    <3>3. link[c] = at((k + 1) + 1)
      BY <1>1, <3>1, <3>2
    <3>4. f[i][at((k + 1) + 1)] = rest(k + 1)
      BY <1>11, <3>1
    <3> QED BY <1>9, <2>3, <2>5, <3>2, <3>3, <3>4
  <2> QED BY <2>4, <2>5
<1> HIDE DEF T
<1>12. Nat \subseteq T
  BY <1>10, <1>11, InductiveSet
<1>13. f[K][at(0 + 1)] = rest(0)
  <2>1. 0 \in 0 .. n /\ n - 0 <= K /\ K \in T
    BY <1>2, <1>12
  <2> QED BY <2>1 DEF T
<1>14. rest(0) = s
  <2>1. /\ rest(0) \in Seq(S) /\ Len(rest(0)) = n
        /\ \A i \in 1 .. n : rest(0)[i] = s[i]
    BY <1>2, <1>7
  <2> QED BY <1>1, <2>1, SeqEqual
<1> QED BY <1>1, <1>13, <1>14

\* The sequence without its element number j.
LEMMA CutOut ==
    ASSUME NEW S, NEW s \in Seq(S), Different(s), NEW j \in 1 .. Len(s)
    PROVE  /\ RemoveAt(s, j) \in Seq(S) /\ Different(RemoveAt(s, j))
           /\ Len(RemoveAt(s, j)) = Len(s) - 1
           /\ \A i \in 1 .. Len(s) - 1 :
                RemoveAt(s, j)[i] = IF i < j THEN s[i] ELSE s[i + 1]
           /\ ToSet(RemoveAt(s, j)) = ToSet(s) \ {s[j]}
<1> DEFINE r == RemoveAt(s, j)
<1>1. /\ Len(s) \in Nat /\ ToSet(s) = {s[i] : i \in 1 .. Len(s)}
      /\ \A i, k \in 1 .. Len(s) : s[i] = s[k] => i = k
  BY LenProperties DEF Different, ToSet
<1>2. /\ r \in Seq(S) /\ Len(r) = Len(s) - 1
      /\ \A i \in 1 .. Len(s) - 1 : r[i] = IF i < j THEN s[i] ELSE s[i + 1]
  BY RemoveAtShifts
<1> HIDE DEF r
<1>3. Different(r)
  BY <1>1, <1>2 DEF Different
<1>5. ToSet(r) = {r[i] : i \in 1 .. Len(r)}
  BY <1>2, LenProperties DEF ToSet
<1>6. ASSUME NEW x \in ToSet(r) PROVE x \in ToSet(s) \ {s[j]}
  <2>1. PICK i \in 1 .. Len(s) - 1 : x = r[i]
    BY <1>2, <1>5, <1>6
  <2>2. CASE i < j
    BY <1>1, <1>2, <2>1, <2>2
  <2>3. CASE ~(i < j)
    BY <1>1, <1>2, <2>1, <2>3
  <2> QED BY <2>2, <2>3
<1>7. ASSUME NEW x \in ToSet(s), x # s[j] PROVE x \in ToSet(r)
  <2>1. PICK i \in 1 .. Len(s) : x = s[i]
    BY <1>1, <1>7
  <2>2. CASE i < j
    <3>1. i \in 1 .. Len(s) - 1 /\ r[i] = s[i]
      BY <1>1, <1>2, <2>2
    <3> QED BY <1>2, <1>5, <2>1, <3>1
  <2>3. CASE ~(i < j)
    <3> DEFINE k == i - 1
    <3>1. k \in 1 .. Len(s) - 1 /\ ~(k < j) /\ k + 1 = i
      BY <1>1, <1>7, <2>1, <2>3
    <3>2. r[k] = s[i]
      BY <1>2, <3>1
    <3> QED BY <1>2, <1>5, <2>1, <3>1, <3>2
  <2> QED BY <2>2, <2>3
<1>8. ToSet(r) = ToSet(s) \ {s[j]}
  BY <1>6, <1>7
<1> QED BY <1>2, <1>3, <1>8 DEF r

-----------------------------------------------------------------------------
(* Some elements of a sequence.                                              *)

\* The elements of s at the places in D, one after the other, as a loop over s
\* collects them.
picked(s, D) ==
    LET kept[i \in 0 .. Len(s)] ==
            IF i = 0 THEN <<>>
            ELSE IF i \in D THEN Append(kept[i - 1], s[i]) ELSE kept[i - 1]
    IN  kept[Len(s)]

\* k[i] is what the first i of the elements give.
picks(k, s, D) ==
    /\ k[0] = <<>>
    /\ \A i \in 1 .. Len(s) :
         k[i] = IF i \in D THEN Append(k[i - 1], s[i]) ELSE k[i - 1]

\* What the recursive definition of the loop says.
LEMMA PickedUnfolds ==
    ASSUME NEW S, NEW s \in Seq(S), NEW D
    PROVE  \E k \in [0 .. Len(s) -> Seq(S)] :
             picks(k, s, D) /\ picked(s, D) = k[Len(s)]
<1> DEFINE next(v, n) == IF n \in 1 .. Len(s) /\ n \in D THEN Append(v, s[n]) ELSE v
           G == [p \in Nat \X Seq(S) |-> next(p[2], p[1] + 1)]
           body(g) == [i \in 0 .. Len(s) |->
                         IF i = 0 THEN <<>>
                         ELSE IF i \in D THEN Append(g[i - 1], s[i]) ELSE g[i - 1]]
<1>1. Len(s) \in Nat /\ \A i \in 1 .. Len(s) : s[i] \in S
  BY LenProperties, ElementOfSeq
<1>2. \A n \in Nat, v \in Seq(S) : next(v, n + 1) \in Seq(S)
  BY <1>1, AppendProperties
<1> HIDE DEF next
<1>3. /\ G \in [Nat \X Seq(S) -> Seq(S)]
      /\ \A n \in Nat, v \in Seq(S) : G[<<n, v>>] = next(v, n + 1)
  BY <1>2
<1> HIDE DEF G
<1>4. PICK g : g \in upTo(Seq(S), <<>>, G, Len(s))
  <2>1. <<>> \in Seq(S) /\ G \in [Nat \X Seq(S) -> Seq(S)]
    BY <1>3
  <2>2. upTo(Seq(S), <<>>, G, Len(s)) # {}
    BY <1>1, <2>1, SomeUpTo
  <2> QED BY <2>2
<1>5. /\ g \in [0 .. Len(s) -> Seq(S)] /\ g[0] = <<>>
      /\ \A i \in 0 .. Len(s) - 1 : g[i + 1] = G[<<i, g[i]>>]
  BY <1>4 DEF upTo
<1>6. \A i \in 1 .. Len(s) :
        g[i] = IF i \in D THEN Append(g[i - 1], s[i]) ELSE g[i - 1]
  <2> SUFFICES ASSUME NEW i \in 1 .. Len(s)
               PROVE  g[i] = IF i \in D THEN Append(g[i - 1], s[i]) ELSE g[i - 1]
    OBVIOUS
  <2>1. i - 1 \in 0 .. Len(s) - 1 /\ (i - 1) + 1 = i /\ i - 1 \in Nat
    BY <1>1
  <2>2. g[i - 1] \in Seq(S)
    BY <1>1, <1>5, <2>1
  <2>3. g[i] = G[<<i - 1, g[i - 1]>>]
    BY <1>5, <2>1
  <2>4. g[i] = next(g[i - 1], i)
    BY <1>3, <2>1, <2>2, <2>3
  <2> QED BY <2>4 DEF next
<1>7. g = body(g)
  <2>1. ASSUME NEW i \in 0 .. Len(s)
        PROVE  g[i] = IF i = 0 THEN <<>>
                      ELSE IF i \in D THEN Append(g[i - 1], s[i]) ELSE g[i - 1]
    <3>1. i = 0 \/ i \in 1 .. Len(s)
      BY <1>1
    <3> QED BY <1>5, <1>6, <3>1
  <2> QED BY <1>5, <2>1
<1> DEFINE x == CHOOSE f : f = body(f)
<1>8. x = body(x)
  <2> HIDE DEF body
  <2> QED BY <1>7
<1>9. picked(s, D) = x[Len(s)]
  BY DEF picked
<1> HIDE DEF x
<1>10. \A i \in 0 .. Len(s) :
         x[i] = IF i = 0 THEN <<>>
                ELSE IF i \in D THEN Append(x[i - 1], s[i]) ELSE x[i - 1]
  BY <1>8
<1>11. \A i \in 0 .. Len(s) : x[i] \in Seq(S)
  <2> DEFINE T == {i \in Nat : i <= Len(s) => x[i] \in Seq(S)}
  <2>1. 0 \in T
    <3>1. 0 \in 0 .. Len(s) /\ <<>> \in Seq(S)
      BY <1>1
    <3> QED BY <1>10, <3>1
  <2>2. ASSUME NEW i \in Nat, i \in T PROVE i + 1 \in T
    <3>1. SUFFICES ASSUME i + 1 <= Len(s) PROVE x[i + 1] \in Seq(S)
      OBVIOUS
    <3>2. /\ i + 1 \in 0 .. Len(s) /\ i + 1 # 0 /\ (i + 1) - 1 = i
          /\ i + 1 \in 1 .. Len(s) /\ x[i] \in Seq(S) /\ s[i + 1] \in S
      BY <1>1, <2>2, <3>1
    <3>3. x[i + 1] = IF i + 1 \in D THEN Append(x[i], s[i + 1]) ELSE x[i]
      BY <1>10, <3>2
    <3> QED BY <3>2, <3>3, AppendProperties
  <2> HIDE DEF T
  <2>3. Nat \subseteq T
    BY <2>1, <2>2, InductiveSet
  <2> QED BY <1>1, <2>3 DEF T
<1>12. x \in [0 .. Len(s) -> Seq(S)]
  <2>1. x = [i \in 0 .. Len(s) |-> x[i]]
    BY <1>8, <1>10
  <2> QED BY <1>11, <2>1
<1>13. picks(x, s, D)
  <2>1. 0 \in 0 .. Len(s) /\ \A i \in 1 .. Len(s) : i \in 0 .. Len(s) /\ i # 0
    BY <1>1
  <2> QED BY <1>10, <2>1 DEF picks
<1> QED BY <1>9, <1>12, <1>13

\* All places are in D but p, or all when p is behind the end; or none but p.
allBut(s, D, p) == p \in 1 .. Len(s) + 1 /\ \A i \in 1 .. Len(s) : i \in D <=> i # p
noneBut(s, D, p) == p \in 1 .. Len(s) + 1 /\ \A i \in 1 .. Len(s) : i \in D <=> i = p

\* What is behind the one left out moves up.
LEMMA PickedBut ==
    ASSUME NEW S, NEW s \in Seq(S), NEW D, NEW p, allBut(s, D, p)
    PROVE  /\ picked(s, D) \in Seq(S)
           /\ Len(picked(s, D)) = IF p = Len(s) + 1 THEN Len(s) ELSE Len(s) - 1
           /\ \A i \in 1 .. Len(picked(s, D)) :
                picked(s, D)[i] = IF i < p THEN s[i] ELSE s[i + 1]
<1> USE DEF allBut
<1>0. Len(s) \in Nat /\ \A i \in 1 .. Len(s) : s[i] \in S
  BY LenProperties, ElementOfSeq
<1>1. PICK k \in [0 .. Len(s) -> Seq(S)] : picks(k, s, D) /\ picked(s, D) = k[Len(s)]
  BY PickedUnfolds
<1> DEFINE size(i) == IF p <= i THEN i - 1 ELSE i
           good(i) == /\ Len(k[i]) = size(i)
                      /\ \A j \in 1 .. size(i) : k[i][j] = IF j < p THEN s[j] ELSE s[j + 1]
           T == {i \in Nat : i <= Len(s) => good(i)}
<1>2. 0 \in T
  BY <1>1 DEF picks
<1>3. ASSUME NEW i \in Nat, i \in T PROVE i + 1 \in T
  <2>1. SUFFICES ASSUME i + 1 <= Len(s) PROVE good(i + 1)
    OBVIOUS
  <2>2. /\ i \in 0 .. Len(s) /\ i + 1 \in 1 .. Len(s) /\ (i + 1) - 1 = i
        /\ good(i) /\ k[i] \in Seq(S) /\ s[i + 1] \in S
    BY <1>0, <1>1, <1>3, <2>1
  <2>3. k[i + 1] = IF i + 1 \in D THEN Append(k[i], s[i + 1]) ELSE k[i]
    BY <1>1, <2>2 DEF picks
  <2>4. CASE i + 1 = p
    <3>1. k[i + 1] = k[i] /\ size(i + 1) = size(i)
      BY <2>2, <2>3, <2>4
    <3> QED BY <2>2, <3>1
  <2>5. CASE i + 1 # p
    <3>1. k[i + 1] = Append(k[i], s[i + 1]) /\ size(i + 1) = size(i) + 1 /\ size(i) \in Nat
      BY <2>2, <2>3, <2>5
    <3> DEFINE r == k[i]
               u == s[i + 1]
               z == size(i)
    <3>2. /\ r \in Seq(S) /\ u \in S /\ Len(r) = z /\ z \in Nat
          /\ \A j \in 1 .. z : r[j] = IF j < p THEN s[j] ELSE s[j + 1]
      BY <2>2, <3>1
    <3>3. k[i + 1] = Append(r, u) /\ size(i + 1) = z + 1
      BY <3>1
    <3>4. u = IF z + 1 < p THEN s[z + 1] ELSE s[(z + 1) + 1]
      BY <2>5
    <3> HIDE DEF r, u, z, size
    <3>5. /\ Len(Append(r, u)) = z + 1
          /\ \A j \in 1 .. z : Append(r, u)[j] = r[j]
          /\ Append(r, u)[z + 1] = u
      BY <3>2, AppendProperties
    <3>6. ASSUME NEW j \in 1 .. z + 1
          PROVE  Append(r, u)[j] = IF j < p THEN s[j] ELSE s[j + 1]
      <4>1. j \in 1 .. z \/ j = z + 1
        BY <3>2
      <4> QED BY <3>2, <3>4, <3>5, <4>1
    <3> QED BY <3>3, <3>5, <3>6
  <2> QED BY <2>4, <2>5
<1>4. good(Len(s))
  <2> HIDE DEF good
  <2>1. Nat \subseteq T
    <3> HIDE DEF T
    <3> QED BY <1>2, <1>3, InductiveSet
  <2> QED BY <1>0, <2>1
<1> QED BY <1>0, <1>1, <1>4

\* One element is left, or none.
LEMMA PickedOne ==
    ASSUME NEW S, NEW s \in Seq(S), NEW D, NEW p, noneBut(s, D, p)
    PROVE  picked(s, D) = IF p = Len(s) + 1 THEN <<>> ELSE <<s[p]>>
<1> USE DEF noneBut
<1>0. Len(s) \in Nat /\ \A i \in 1 .. Len(s) : s[i] \in S
  BY LenProperties, ElementOfSeq
<1>1. PICK k \in [0 .. Len(s) -> Seq(S)] : picks(k, s, D) /\ picked(s, D) = k[Len(s)]
  BY PickedUnfolds
<1> DEFINE T == {i \in Nat : i <= Len(s) => k[i] = IF i < p THEN <<>> ELSE <<s[p]>>}
<1>2. 0 \in T
  BY <1>1 DEF picks
<1>3. ASSUME NEW i \in Nat, i \in T PROVE i + 1 \in T
  <2>1. SUFFICES ASSUME i + 1 <= Len(s)
                 PROVE  k[i + 1] = IF i + 1 < p THEN <<>> ELSE <<s[p]>>
    OBVIOUS
  <2>2. i + 1 \in 1 .. Len(s) /\ (i + 1) - 1 = i /\ k[i] = IF i < p THEN <<>> ELSE <<s[p]>>
    BY <1>0, <1>3, <2>1
  <2>3. k[i + 1] = IF i + 1 = p THEN Append(k[i], s[i + 1]) ELSE k[i]
    <3>1. k[i + 1] = IF i + 1 \in D THEN Append(k[i], s[i + 1]) ELSE k[i]
      BY <1>1, <2>2 DEF picks
    <3>2. i + 1 \in D <=> i + 1 = p
      BY <2>2
    <3> QED BY <3>1, <3>2
  <2>4. CASE i + 1 = p
    <3>1. i < p /\ ~(i + 1 < p)
      BY <2>4
    <3>2. k[i] = <<>>
      BY <2>2, <3>1
    <3>3. k[i + 1] = Append(<<>>, s[p])
      BY <2>3, <2>4, <3>2
    <3>4. Append(<<>>, s[p]) = <<s[p]>>
      OBVIOUS
    <3> QED BY <3>1, <3>3, <3>4
  <2>5. CASE i + 1 # p
    BY <2>2, <2>3, <2>5
  <2> QED BY <2>4, <2>5
<1> HIDE DEF T
<1>4. Nat \subseteq T
  BY <1>2, <1>3, InductiveSet
<1> QED BY <1>0, <1>1, <1>4 DEF T

=============================================================================
