------------------------------ MODULE VfsProofs ------------------------------
(* Theorems about the file system of src/virtual_file_system.c, for every    *)
(* number of nodes, blocks and bytes in a block, all names and contents, and *)
(* whether or not memory runs out.                                           *)
EXTENDS VfsProperties, ProofBasics, FiniteSetTheorems

-----------------------------------------------------------------------------
(* Types.                                                                    *)

TreeTypes ==
    /\ type \in [NodeIds -> {"FREED", "FILETYPE", "DIRECTORY"}]
    /\ name \in [NodeIds -> Names \cup Specials]
    /\ parent \in [NodeIds -> NodeIds \cup {NULL}]
    /\ children \in [NodeIds -> Seq(NodeIds)]
    /\ gCwd \in NodeIds
    /\ commandCode \in {"uninit", "command", "exit"}

\* The first child with a name, if there is any.
LEMMA FindProps ==
    ASSUME TreeTypes, NEW a
    PROVE  /\ findNodeInCwd(a) \in NodeIds \cup {NULL}
           /\ findNodeInCwd(a) = NULL =>
                \A i \in DOMAIN children[gCwd] : name[children[gCwd][i]] # a
           /\ findNodeInCwd(a) # NULL => Linked(children[gCwd], findNodeInCwd(a))
<1> DEFINE c == children[gCwd]
           named == {i \in DOMAIN c : name[c[i]] = a}
           hits == {i \in DOMAIN c : /\ name[c[i]] = a
                                     /\ \A j \in DOMAIN c : j < i => name[c[j]] # a}
<1>1. c \in Seq(NodeIds) /\ DOMAIN c = 1 .. Len(c) /\ Len(c) \in Nat
  BY LenProperties DEF TreeTypes
<1>2. \A i \in DOMAIN c : c[i] \in NodeIds
  BY <1>1, ElementOfSeq
<1>3. NULL \notin NodeIds
  BY VfsAssumption
<1>4. findNodeInCwd(a) = IF hits = {} THEN NULL ELSE c[CHOOSE i \in hits : TRUE]
  BY DEF findNodeInCwd
<1>5. CASE named = {}
  <2>1. hits = {}
    BY <1>5
  <2> QED BY <1>4, <1>5, <2>1
<1>6. CASE named # {}
  <2>1. named \subseteq Nat
    BY <1>1
  <2>2. PICK k \in named : \A i \in named : k <= i
    <3> HIDE DEF named
    <3> QED BY <1>6, <2>1, LeastNat
  <2>3. k \in hits
    BY <1>1, <2>2
  <2>4. (CHOOSE i \in hits : TRUE) \in hits
    BY <2>3
  <2>5. (CHOOSE i \in hits : TRUE) \in DOMAIN c
    BY <2>4
  <2>6. findNodeInCwd(a) = c[CHOOSE i \in hits : TRUE]
    BY <1>4, <2>3
  <2> HIDE DEF hits, named
  <2> QED BY <1>2, <1>3, <2>5, <2>6 DEF Linked
<1> QED BY <1>5, <1>6

-----------------------------------------------------------------------------
(* Blocks.                                                                   *)

\* What the recursive definition of the returned blocks says.
LEMMA KeptUnfolds ==
    ASSUME NEW S, NEW bs \in Seq(S), NEW D
    PROVE  \E k \in [0 .. Len(bs) -> Seq(S)] :
             picks(k, bs, D) /\ keptOf(bs, D) = k[Len(bs)]
<1>1. keptOf(bs, D) = picked(bs, D)
  BY DEF keptOf, picked
<1> QED BY <1>1, PickedUnfolds

NoRepeats(s) == \A i, j \in DOMAIN s : s[i] = s[j] => i = j

\* Adding an element that is not there.
LEMMA AppendNew ==
    ASSUME NEW S, NEW s \in Seq(S), NEW x \in S, NoRepeats(s), ~Linked(s, x)
    PROVE  NoRepeats(Append(s, x))
<1>1. /\ \A i \in 1 .. Len(s) : Append(s, x)[i] = s[i]
      /\ Append(s, x)[Len(s) + 1] = x /\ Len(s) \in Nat
      /\ DOMAIN Append(s, x) = 1 .. Len(s) + 1 /\ DOMAIN s = 1 .. Len(s)
  BY AppendProperties, LenProperties
<1> QED BY <1>1 DEF NoRepeats, Linked

LEMMA AppendLinked ==
    ASSUME NEW S, NEW s \in Seq(S), NEW x \in S
    PROVE  \A y : Linked(Append(s, x), y) <=> Linked(s, y) \/ y = x
<1>1. /\ \A i \in 1 .. Len(s) : Append(s, x)[i] = s[i]
      /\ Append(s, x)[Len(s) + 1] = x /\ Len(s) \in Nat
      /\ DOMAIN Append(s, x) = 1 .. Len(s) + 1 /\ DOMAIN s = 1 .. Len(s)
  BY AppendProperties, LenProperties
<1> SUFFICES ASSUME NEW y PROVE Linked(Append(s, x), y) <=> Linked(s, y) \/ y = x
  OBVIOUS
<1>2. ASSUME Linked(Append(s, x), y) PROVE Linked(s, y) \/ y = x
  <2>1. PICK i \in 1 .. Len(s) + 1 : Append(s, x)[i] = y
    BY <1>1, <1>2 DEF Linked
  <2>2. i \in 1 .. Len(s) \/ i = Len(s) + 1
    BY <1>1
  <2> QED BY <1>1, <2>1, <2>2 DEF Linked
<1>3. ASSUME Linked(s, y) \/ y = x PROVE Linked(Append(s, x), y)
  <2>1. Len(s) + 1 \in 1 .. Len(s) + 1 /\ \A i \in 1 .. Len(s) : i \in 1 .. Len(s) + 1
    BY <1>1
  <2> QED BY <1>1, <1>3, <2>1 DEF Linked
<1> QED BY <1>2, <1>3

\* The returned blocks are some of those that were there, in their order.
LEMMA KeptProps ==
    ASSUME NEW S, NEW bs \in Seq(S), NEW D
    PROVE  /\ keptOf(bs, D) \in Seq(S)
           /\ \A x : Linked(keptOf(bs, D), x) => Linked(bs, x)
           /\ NoRepeats(bs) => NoRepeats(keptOf(bs, D))
<1>0. PICK k \in [0 .. Len(bs) -> Seq(S)] :
         picks(k, bs, D) /\ keptOf(bs, D) = k[Len(bs)]
  BY KeptUnfolds
<1>1. /\ k[0] = <<>>
      /\ \A i \in 1 .. Len(bs) :
           k[i] = IF i \in D THEN Append(k[i - 1], bs[i]) ELSE k[i - 1]
      /\ keptOf(bs, D) = k[Len(bs)]
  BY <1>0 DEF picks
<1>2. /\ Len(bs) \in Nat /\ DOMAIN bs = 1 .. Len(bs)
      /\ \A i \in 1 .. Len(bs) : bs[i] \in S
  BY LenProperties, ElementOfSeq
<1> DEFINE early(i, s) == /\ \A x : Linked(s, x) => \E j \in 1 .. i : bs[j] = x
                          /\ NoRepeats(bs) => NoRepeats(s)
           T == {i \in Nat : i <= Len(bs) => early(i, k[i])}
<1>3. 0 \in T
  BY <1>1 DEF Linked, NoRepeats
<1>4. ASSUME NEW i \in Nat, i \in T PROVE i + 1 \in T
  <2>1. SUFFICES ASSUME i + 1 <= Len(bs) PROVE early(i + 1, k[i + 1])
    OBVIOUS
  <2>2. /\ i + 1 \in 1 .. Len(bs) /\ (i + 1) - 1 = i /\ i \in 0 .. Len(bs)
        /\ bs[i + 1] \in S /\ k[i] \in Seq(S) /\ early(i, k[i])
    <3>1. /\ i + 1 \in 1 .. Len(bs) /\ (i + 1) - 1 = i /\ i \in 0 .. Len(bs)
          /\ i <= Len(bs)
      BY <1>2, <2>1
    <3>2. early(i, k[i])
      BY <1>4, <3>1
    <3> HIDE DEF early
    <3> QED BY <1>2, <3>1, <3>2
  <2>3. k[i + 1] = IF i + 1 \in D THEN Append(k[i], bs[i + 1]) ELSE k[i]
    BY <1>1, <2>2
  <2> DEFINE s == k[i]
  <2>4. s \in Seq(S) /\ early(i, s)
    BY <2>2
  <2> HIDE DEF s
  <2>5. \A j \in 1 .. i : j \in 1 .. i + 1
    OBVIOUS
  <2>6. early(i + 1, s)
    BY <2>4, <2>5
  <2>7. early(i + 1, Append(s, bs[i + 1]))
    <3>1. ASSUME NEW x, Linked(Append(s, bs[i + 1]), x)
          PROVE  \E j \in 1 .. i + 1 : bs[j] = x
      <4>1. Linked(s, x) \/ x = bs[i + 1]
        BY <2>2, <2>4, <3>1, AppendLinked
      <4>2. i + 1 \in 1 .. i + 1
        OBVIOUS
      <4> QED BY <2>4, <2>5, <4>1, <4>2
    <3>2. ASSUME NoRepeats(bs) PROVE NoRepeats(Append(s, bs[i + 1]))
      <4>1. NoRepeats(s)
        BY <2>4, <3>2
      <4>2. ~Linked(s, bs[i + 1])
        <5>1. ASSUME NEW j \in 1 .. i PROVE bs[j] # bs[i + 1]
          <6>1. j \in DOMAIN bs /\ i + 1 \in DOMAIN bs /\ j # i + 1
            BY <1>2, <2>2
          <6> QED BY <3>2, <6>1 DEF NoRepeats
        <5> QED BY <2>4, <5>1
      <4> QED BY <2>2, <2>4, <4>1, <4>2, AppendNew
    <3> QED BY <3>1, <3>2
  <2> HIDE DEF early
  <2> QED BY <2>3, <2>6, <2>7 DEF s
<1> HIDE DEF T
<1>5. Nat \subseteq T
  BY <1>3, <1>4, InductiveSet
<1>6. early(Len(bs), k[Len(bs)])
  BY <1>2, <1>5 DEF T
<1>7. Len(bs) \in 0 .. Len(bs)
  BY <1>2
<1> QED BY <1>1, <1>2, <1>6, <1>7 DEF Linked

LEMMA ConcatLinked ==
    ASSUME NEW S, NEW s \in Seq(S), NEW t \in Seq(S)
    PROVE  /\ s \o t \in Seq(S) /\ Len(s \o t) = Len(s) + Len(t)
           /\ \A x : Linked(s \o t, x) <=> Linked(s, x) \/ Linked(t, x)
           /\ NoRepeats(s) /\ NoRepeats(t) /\ (\A x : Linked(t, x) => ~Linked(s, x)) =>
                NoRepeats(s \o t)
<1> DEFINE u == s \o t
<1>1. /\ Len(s) \in Nat /\ Len(t) \in Nat
      /\ DOMAIN s = 1 .. Len(s) /\ DOMAIN t = 1 .. Len(t)
      /\ u \in Seq(S) /\ Len(u) = Len(s) + Len(t) /\ DOMAIN u = 1 .. Len(s) + Len(t)
      /\ \A i \in 1 .. Len(s) + Len(t) :
           u[i] = IF i <= Len(s) THEN s[i] ELSE t[i - Len(s)]
  BY ConcatProperties, LenProperties
<1> HIDE DEF u
<1>2. ASSUME NEW i \in DOMAIN u
      PROVE  \/ i \in DOMAIN s /\ u[i] = s[i]
             \/ i > Len(s) /\ i - Len(s) \in DOMAIN t /\ u[i] = t[i - Len(s)]
  BY <1>1
<1>3. ASSUME NEW i \in DOMAIN s PROVE i \in DOMAIN u /\ u[i] = s[i]
  BY <1>1
<1>4. ASSUME NEW i \in DOMAIN t PROVE i + Len(s) \in DOMAIN u /\ u[i + Len(s)] = t[i]
  <2>1. i + Len(s) \in 1 .. Len(s) + Len(t) /\ ~(i + Len(s) <= Len(s))
        /\ (i + Len(s)) - Len(s) = i
    BY <1>1
  <2> QED BY <1>1, <2>1
<1>5. ASSUME NEW x PROVE Linked(u, x) <=> Linked(s, x) \/ Linked(t, x)
  <2>1. Linked(u, x) => Linked(s, x) \/ Linked(t, x)
    BY <1>2 DEF Linked
  <2>2. Linked(s, x) => Linked(u, x)
    BY <1>3 DEF Linked
  <2>3. Linked(t, x) => Linked(u, x)
    BY <1>4 DEF Linked
  <2> QED BY <2>1, <2>2, <2>3
<1>6. ASSUME NoRepeats(s), NoRepeats(t), \A x : Linked(t, x) => ~Linked(s, x)
      PROVE  NoRepeats(u)
  <2> SUFFICES ASSUME NEW i \in DOMAIN u, NEW j \in DOMAIN u, u[i] = u[j] PROVE i = j
    BY DEF NoRepeats
  <2>0. i \in Int /\ j \in Int
    BY <1>1
  <2>1. CASE i \in DOMAIN s /\ u[i] = s[i] /\ j \in DOMAIN s /\ u[j] = s[j]
    BY <1>6, <2>1 DEF NoRepeats
  <2>2. CASE /\ i - Len(s) \in DOMAIN t /\ u[i] = t[i - Len(s)]
             /\ j - Len(s) \in DOMAIN t /\ u[j] = t[j - Len(s)]
    <3>1. i - Len(s) = j - Len(s)
      BY <1>6, <2>2 DEF NoRepeats
    <3> QED BY <1>1, <2>0, <3>1
  <2>3. CASE \/ /\ i \in DOMAIN s /\ u[i] = s[i]
                /\ j - Len(s) \in DOMAIN t /\ u[j] = t[j - Len(s)]
             \/ /\ j \in DOMAIN s /\ u[j] = s[j]
                /\ i - Len(s) \in DOMAIN t /\ u[i] = t[i - Len(s)]
    BY <1>6, <2>3 DEF Linked
  <2> QED BY <1>2, <2>1, <2>2, <2>3
<1> QED BY <1>1, <1>5, <1>6 DEF u

\* Cutting a sequence in two.
LEMMA CutInTwo ==
    ASSUME NEW S, NEW s \in Seq(S), NEW k \in 0 .. Len(s), NoRepeats(s)
    PROVE  LET a == SubSeq(s, 1, k)
               b == SubSeq(s, k + 1, Len(s))
           IN  /\ a \in Seq(S) /\ b \in Seq(S) /\ Len(b) = Len(s) - k
               /\ NoRepeats(a) /\ NoRepeats(b)
               /\ \A x : Linked(a, x) => Linked(s, x) /\ ~Linked(b, x)
               /\ \A x : Linked(b, x) => Linked(s, x)
<1> DEFINE a == SubSeq(s, 1, k)
           b == SubSeq(s, k + 1, Len(s))
<1>1. /\ a \in Seq(S) /\ DOMAIN a = 1 .. k /\ \A i \in 1 .. k : a[i] = s[i]
  BY FirstOf
<1>2. /\ b \in Seq(S) /\ Len(b) = Len(s) - k /\ DOMAIN b = 1 .. Len(s) - k
      /\ \A i \in 1 .. Len(s) - k : b[i] = s[k + i]
  BY LastOf
<1>3. Len(s) \in Nat /\ DOMAIN s = 1 .. Len(s) /\ k \in Nat /\ k <= Len(s)
  BY LenProperties
<1> HIDE DEF a, b
<1>4. ASSUME NEW i \in DOMAIN a PROVE i \in DOMAIN s /\ a[i] = s[i] /\ i <= k
  BY <1>1, <1>3
<1>5. ASSUME NEW i \in DOMAIN b PROVE k + i \in DOMAIN s /\ b[i] = s[k + i] /\ k + i > k
  <2>1. i \in 1 .. Len(s) - k /\ k \in Nat
    BY <1>2, <1>3
  <2>2. k + i \in 1 .. Len(s) /\ k + i > k
    BY <1>3, <2>1
  <2> QED BY <1>2, <1>3, <2>1, <2>2
<1>6. NoRepeats(a)
  BY <1>4 DEF NoRepeats
<1>7. NoRepeats(b)
  <2> SUFFICES ASSUME NEW i \in DOMAIN b, NEW j \in DOMAIN b, b[i] = b[j] PROVE i = j
    BY DEF NoRepeats
  <2>0. k + i \in DOMAIN s /\ k + j \in DOMAIN s /\ s[k + i] = s[k + j]
    BY <1>5
  <2>1. k + i = k + j
    BY <2>0 DEF NoRepeats
  <2> QED BY <1>2, <1>3, <2>1
<1>8. ASSUME NEW x, Linked(a, x) PROVE Linked(s, x) /\ ~Linked(b, x)
  <2>1. PICK i \in DOMAIN a : a[i] = x
    BY <1>8 DEF Linked
  <2>2. i \in DOMAIN s /\ s[i] = x /\ i <= k
    BY <1>4, <2>1
  <2>3. ASSUME NEW j \in DOMAIN b, b[j] = x PROVE FALSE
    <3>1. k + j \in DOMAIN s /\ s[k + j] = x /\ k + j > k
      BY <1>5, <2>3
    <3>2. k + j = i
      BY <2>2, <3>1 DEF NoRepeats
    <3> QED BY <2>2, <3>1, <3>2, <1>3
  <2> QED BY <2>2, <2>3 DEF Linked
<1>9. ASSUME NEW x, Linked(b, x) PROVE Linked(s, x)
  BY <1>5, <1>9 DEF Linked
<1> QED BY <1>1, <1>2, <1>6, <1>7, <1>8, <1>9 DEF a, b

\* The block pointers with which no block is in two places, of files or of the
\* free list fl.
Apart(fl) ==
    {bp \in [NodeIds -> Seq(Blocks)] :
        /\ NoRepeats(fl)
        /\ \A n \in NodeIds : NoRepeats(bp[n])
        /\ \A n \in NodeIds : \A x : Linked(bp[n], x) => ~Linked(fl, x)
        /\ \A n, m \in NodeIds : \A x : n # m /\ Linked(bp[n], x) => ~Linked(bp[m], x)}

DiskTypes ==
    /\ blockPointers \in [NodeIds -> Seq(Blocks)]
    /\ contentSize \in [NodeIds -> Nat]
    /\ freeList \in Seq(Blocks)

\* While the program runs the count is right, and every block that is not lost is
\* in one place.
DiskInv ==
    /\ DiskTypes
    /\ Alive => blockPointers \in Apart(freeList) /\ gFreeBlockCount = Len(freeList)

\* A file's blocks, or some of them, become free.
LEMMA ReturnBlocks ==
    ASSUME NEW fl \in Seq(Blocks), NEW bp \in Apart(fl),
           NEW n \in NodeIds, NEW kept \in returned(bp[n])
    PROVE  /\ kept \in Seq(Blocks)
           /\ [bp EXCEPT ![n] = <<>>] \in Apart(fl \o kept)
           /\ [bp EXCEPT ![n] = <<>>] \in Apart(fl)
<1> DEFINE avail == fl \o kept
           left  == [bp EXCEPT ![n] = <<>>]
<1>1. PICK D : kept = keptOf(bp[n], D)
  BY DEF returned
<1>2. bp[n] \in Seq(Blocks) /\ NoRepeats(bp[n])
  BY DEF Apart
<1>3. /\ kept \in Seq(Blocks) /\ NoRepeats(kept)
      /\ \A x : Linked(kept, x) => Linked(bp[n], x)
  BY <1>1, <1>2, KeptProps
<1>4. \A x : Linked(kept, x) => ~Linked(fl, x)
  BY <1>3 DEF Apart
<1>5. /\ avail \in Seq(Blocks) /\ Len(avail) = Len(fl) + Len(kept)
      /\ \A x : Linked(avail, x) <=> Linked(fl, x) \/ Linked(kept, x)
      /\ NoRepeats(avail)
  BY <1>3, <1>4, ConcatLinked DEF Apart
<1>6. /\ left \in [NodeIds -> Seq(Blocks)] /\ left[n] = <<>>
      /\ \A m \in NodeIds : m # n => left[m] = bp[m]
  <2>1. <<>> \in Seq(Blocks) /\ bp \in [NodeIds -> Seq(Blocks)]
    BY DEF Apart
  <2> QED BY <2>1
<1> HIDE DEF avail, left
<1>7. NoRepeats(left[n]) /\ \A x : ~Linked(left[n], x)
  BY <1>6 DEF NoRepeats, Linked
<1>8. left \in Apart(avail)
  BY <1>3, <1>5, <1>6, <1>7 DEF Apart
<1>9. left \in Apart(fl)
  BY <1>6, <1>7 DEF Apart
<1> QED BY <1>3, <1>5, <1>6, <1>8, <1>9 DEF avail, left

\* A file without blocks takes the first ones of the free list.
LEMMA TakeBlocks ==
    ASSUME NEW fl \in Seq(Blocks), NEW bp \in Apart(fl),
           NEW n \in NodeIds, NEW k \in 0 .. Len(fl), bp[n] = <<>>
    PROVE  [bp EXCEPT ![n] = SubSeq(fl, 1, k)] \in Apart(SubSeq(fl, k + 1, Len(fl)))
<1> DEFINE a    == SubSeq(fl, 1, k)
           rest == SubSeq(fl, k + 1, Len(fl))
           with == [bp EXCEPT ![n] = a]
<1>1. /\ a \in Seq(Blocks) /\ rest \in Seq(Blocks) /\ Len(rest) = Len(fl) - k
      /\ NoRepeats(a) /\ NoRepeats(rest)
      /\ \A x : Linked(a, x) => Linked(fl, x) /\ ~Linked(rest, x)
      /\ \A x : Linked(rest, x) => Linked(fl, x)
  <2>1. NoRepeats(fl)
    BY DEF Apart
  <2> QED BY <2>1, CutInTwo
<1> HIDE DEF a, rest
<1>2. /\ with \in [NodeIds -> Seq(Blocks)] /\ with[n] = a
      /\ \A m \in NodeIds : m # n => with[m] = bp[m]
  <2>1. bp \in [NodeIds -> Seq(Blocks)]
    BY DEF Apart
  <2> QED BY <1>1, <2>1
<1> HIDE DEF with
<1>3. with \in Apart(rest)
  BY <1>1, <1>2 DEF Apart
<1> QED BY <1>1, <1>2, <1>3 DEF a, rest, with

LEMMA InvBlocksExclusive == DiskInv => BlocksExclusive
<1> SUFFICES ASSUME DiskInv, Alive
             PROVE  /\ \A i, j \in DOMAIN freeList : freeList[i] = freeList[j] => i = j
                    /\ \A n \in NodeIds : \A i \in DOMAIN blockPointers[n] :
                         /\ ~Linked(freeList, blockPointers[n][i])
                         /\ \A m \in NodeIds : \A j \in DOMAIN blockPointers[m] :
                              blockPointers[n][i] = blockPointers[m][j] => n = m /\ i = j
                    /\ gFreeBlockCount = Len(freeList)
  BY DEF BlocksExclusive
<1>1. blockPointers \in Apart(freeList) /\ gFreeBlockCount = Len(freeList)
  BY DEF DiskInv
<1>2. \A n \in NodeIds : \A i \in DOMAIN blockPointers[n] :
        Linked(blockPointers[n], blockPointers[n][i])
  BY DEF Linked
<1> QED BY <1>1, <1>2 DEF Apart, NoRepeats

LEMMA WriteDisk ==
    ASSUME TreeTypes, DiskInv, Alive, NEW n \in NodeIds, NEW c \in Contents,
           NEW kept \in returned(blockPointers[n]), writeTo(n, c, kept), Alive'
    PROVE  DiskInv'
<1> DEFINE avail == freeList \o kept
           left  == [blockPointers EXCEPT ![n] = <<>>]
           count == gFreeBlockCount + Len(kept)
           k     == blocksNeeded(c)
<1>1. /\ freeList \in Seq(Blocks) /\ blockPointers \in [NodeIds -> Seq(Blocks)]
      /\ blockPointers \in Apart(freeList) /\ gFreeBlockCount = Len(freeList)
      /\ contentSize \in [NodeIds -> Nat]
  BY DEF DiskInv, DiskTypes
<1>2. /\ kept \in Seq(Blocks) /\ avail \in Seq(Blocks)
      /\ Len(avail) = Len(freeList) + Len(kept)
      /\ left \in [NodeIds -> Seq(Blocks)] /\ left[n] = <<>>
      /\ left \in Apart(avail)
  <2>1. left[n] = <<>>
    BY <1>1
  <2>2. kept \in Seq(Blocks) /\ left \in Apart(avail)
    BY <1>1, ReturnBlocks
  <2>3. left \in [NodeIds -> Seq(Blocks)]
    BY <1>1
  <2> QED BY <1>1, <2>1, <2>2, <2>3, ConcatProperties
<1>3. count = Len(avail)
  BY <1>1, <1>2
<1>4. \/ /\ freeList' = avail /\ gFreeBlockCount' = count
         /\ blockPointers' = left /\ contentSize' = contentSize
      \/ /\ count >= k
         /\ freeList' = SubSeq(avail, k + 1, Len(avail))
         /\ gFreeBlockCount' = count - k
         /\ blockPointers' = [blockPointers EXCEPT ![n] = SubSeq(avail, 1, k)]
         /\ contentSize' = [contentSize EXCEPT ![n] = Len(c)]
  BY DEF writeTo, resetPointers
<1>5. k \in Nat
  <2>1. Len(c) \in Nat /\ BLOCK_SIZE \in Nat \ {0}
    BY VfsAssumption, LenProperties
  <2>2. Len(c) + BLOCK_SIZE - 1 \in Nat
    BY <2>1
  <2> QED BY <2>1, <2>2 DEF blocksNeeded
<1>6. [blockPointers EXCEPT ![n] = SubSeq(avail, 1, k)] = [left EXCEPT ![n] = SubSeq(avail, 1, k)]
  BY <1>1
<1>7. [contentSize EXCEPT ![n] = Len(c)] \in [NodeIds -> Nat]
  <2>1. Len(c) \in Nat
    BY VfsAssumption, LenProperties
  <2> QED BY <1>1, <2>1
<1> HIDE DEF avail, left, count, k
<1>8. CASE /\ freeList' = avail /\ gFreeBlockCount' = count
           /\ blockPointers' = left /\ contentSize' = contentSize
  BY <1>1, <1>2, <1>3, <1>8 DEF DiskInv, DiskTypes
<1>9. CASE /\ count >= k
           /\ freeList' = SubSeq(avail, k + 1, Len(avail))
           /\ gFreeBlockCount' = count - k
           /\ blockPointers' = [blockPointers EXCEPT ![n] = SubSeq(avail, 1, k)]
           /\ contentSize' = [contentSize EXCEPT ![n] = Len(c)]
  <2>1. k \in 0 .. Len(avail)
    BY <1>2, <1>3, <1>5, <1>9, LenProperties
  <2>2. /\ freeList' \in Seq(Blocks) /\ Len(freeList') = Len(avail) - k
        /\ blockPointers' \in [NodeIds -> Seq(Blocks)]
        /\ blockPointers' \in Apart(freeList')
    <3>1. /\ SubSeq(avail, k + 1, Len(avail)) \in Seq(Blocks)
          /\ Len(SubSeq(avail, k + 1, Len(avail))) = Len(avail) - k
          /\ [left EXCEPT ![n] = SubSeq(avail, 1, k)] \in [NodeIds -> Seq(Blocks)]
          /\ [left EXCEPT ![n] = SubSeq(avail, 1, k)]
                \in Apart(SubSeq(avail, k + 1, Len(avail)))
      <4>1. [left EXCEPT ![n] = SubSeq(avail, 1, k)]
                \in Apart(SubSeq(avail, k + 1, Len(avail)))
        BY <1>2, <2>1, TakeBlocks
      <4>2. [left EXCEPT ![n] = SubSeq(avail, 1, k)] \in [NodeIds -> Seq(Blocks)]
        BY <4>1 DEF Apart
      <4> QED BY <1>2, <2>1, <4>1, <4>2, LastOf
    <3> QED BY <1>6, <1>9, <3>1
  <2> QED BY <1>3, <1>7, <1>9, <2>2 DEF DiskInv, DiskTypes
<1> QED BY <1>4, <1>8, <1>9

\* A node that is created or freed holds no blocks; those of a freed file are
\* returned.
LEMMA ResetDisk ==
    ASSUME DiskInv, Alive, Alive', NEW n \in NodeIds,
           blockPointers' = [blockPointers EXCEPT ![n] = <<>>],
           contentSize' = [contentSize EXCEPT ![n] = 0],
           \/ UNCHANGED <<freeList, gFreeBlockCount>>
           \/ \E kept \in returned(blockPointers[n]) :
                /\ freeList' = freeList \o kept
                /\ gFreeBlockCount' = gFreeBlockCount + Len(kept)
    PROVE  DiskInv'
<1>1. /\ freeList \in Seq(Blocks) /\ blockPointers \in [NodeIds -> Seq(Blocks)]
      /\ blockPointers \in Apart(freeList) /\ gFreeBlockCount = Len(freeList)
      /\ contentSize' \in [NodeIds -> Nat]
  BY DEF DiskInv, DiskTypes
<1>2. ASSUME NEW kept \in returned(blockPointers[n])
      PROVE  /\ freeList \o kept \in Seq(Blocks)
             /\ Len(freeList \o kept) = Len(freeList) + Len(kept)
             /\ blockPointers' \in [NodeIds -> Seq(Blocks)]
             /\ blockPointers' \in Apart(freeList \o kept)
             /\ blockPointers' \in Apart(freeList)
  <2>1. /\ kept \in Seq(Blocks)
        /\ [blockPointers EXCEPT ![n] = <<>>] \in Apart(freeList \o kept)
        /\ [blockPointers EXCEPT ![n] = <<>>] \in Apart(freeList)
    BY <1>1, ReturnBlocks
  <2>2. [blockPointers EXCEPT ![n] = <<>>] \in [NodeIds -> Seq(Blocks)]
    BY <2>1 DEF Apart
  <2> QED BY <1>1, <2>1, <2>2, ConcatProperties
<1>3. \E kept : kept \in returned(blockPointers[n])
  BY DEF returned
<1>4. CASE UNCHANGED <<freeList, gFreeBlockCount>>
  BY <1>1, <1>2, <1>3, <1>4 DEF DiskInv, DiskTypes
<1>5. ASSUME NEW kept \in returned(blockPointers[n]), freeList' = freeList \o kept,
             gFreeBlockCount' = gFreeBlockCount + Len(kept)
      PROVE  DiskInv'
  BY <1>1, <1>2, <1>5 DEF DiskInv, DiskTypes
<1> QED BY <1>4, <1>5

LEMMA StepKeepsDisk ==
    ASSUME TreeTypes, DiskInv, Next
    PROVE  DiskInv'
<1>1. ASSUME UNCHANGED files, commandCode # "exit" \/ commandCode' = "exit" PROVE DiskInv'
  BY <1>1 DEF DiskInv, DiskTypes, files, Alive
<1>2. ASSUME Running PROVE Alive /\ Alive'
  BY <1>2 DEF Running, Alive
<1>3. ASSUME Refuse, Running PROVE DiskInv'
  BY <1>1, <1>3 DEF Refuse, Running
<1>4. ASSUME Running, NEW n \in NodeIds, NEW a, NEW t, newNode(n, a, t) PROVE DiskInv'
  BY <1>2, <1>4, ResetDisk DEF newNode
<1>5. ASSUME NEW a \in Arguments, callMkdir(a) \/ callCreate(a) PROVE DiskInv'
  BY <1>3, <1>4, <1>5 DEF callMkdir, callCreate
<1>6. ASSUME NEW a \in Arguments, callCd(a) \/ callRead(a) PROVE DiskInv'
  <2>1. Running /\ UNCHANGED files
    BY <1>6 DEF callCd, callRead, Refuse
  <2> QED BY <1>1, <2>1 DEF Running
<1>7. ASSUME NEW a \in Arguments, NEW c \in Contents, callWrite(a, c) PROVE DiskInv'
  <2> DEFINE n == findNodeInCwd(a)
  <2>1. Running
    BY <1>7 DEF callWrite
  <2>2. CASE Refuse
    BY <1>3, <2>1, <2>2
  <2>3. ASSUME isFile(n), NEW kept \in returned(blockPointers[n]), writeTo(n, c, kept)
        PROVE  DiskInv'
    <3>1. n \in NodeIds
      BY <2>3, FindProps DEF isFile
    <3> HIDE DEF n
    <3> QED BY <1>2, <2>1, <2>3, <3>1, WriteDisk
  <2> QED BY <1>7, <2>2, <2>3 DEF callWrite
<1>8. ASSUME NEW a \in Arguments, callDelete(a) PROVE DiskInv'
  <2> DEFINE n == findNodeInCwd(a)
  <2>1. Running
    BY <1>8 DEF callDelete
  <2>2. CASE Refuse
    BY <1>3, <2>1, <2>2
  <2>3. CASE /\ isFile(n) /\ freeNode(n)
             /\ \E kept \in returned(blockPointers[n]) :
                     /\ freeList' = freeList \o kept
                     /\ gFreeBlockCount' = gFreeBlockCount + Len(kept)
    <3>1. n \in NodeIds
      BY <2>3, FindProps DEF isFile
    <3> HIDE DEF n
    <3> QED BY <1>2, <2>1, <2>3, <3>1, ResetDisk DEF freeNode
  <2> QED BY <1>8, <2>2, <2>3 DEF callDelete
<1>9. ASSUME NEW a \in Arguments, callRmdir(a) PROVE DiskInv'
  <2> DEFINE n == findNodeInCwd(a)
  <2>1. Running
    BY <1>9 DEF callRmdir
  <2>2. CASE Refuse
    BY <1>3, <2>1, <2>2
  <2>3. CASE removable(n) /\ freeNode(n) /\ UNCHANGED <<freeList, gFreeBlockCount>>
    <3>1. n \in NodeIds
      BY <2>3, FindProps DEF removable, isDirectory
    <3> HIDE DEF n
    <3> QED BY <1>2, <2>1, <2>3, <3>1, ResetDisk DEF freeNode
  <2> QED BY <1>9, <2>2, <2>3 DEF callRmdir
<1>10. CASE Show
  BY <1>1, <1>10 DEF Show, Running
<1>11. CASE BlankFirstLine \/ Exit
  <2>1. /\ freeList' = <<>> /\ commandCode' = "exit"
        /\ UNCHANGED <<blockPointers, contentSize>>
    BY <1>11 DEF BlankFirstLine, Exit, cleanupMemory
  <2>2. <<>> \in Seq(Blocks)
    OBVIOUS
  <2> QED BY <2>1, <2>2 DEF DiskInv, DiskTypes, Alive
<1> QED BY <1>5, <1>6, <1>7, <1>8, <1>9, <1>10, <1>11 DEF Next


-----------------------------------------------------------------------------
(* Every step picks the types.                                               *)

LEMMA InitTypes == Init => TreeTypes
<1> SUFFICES ASSUME Init PROVE TreeTypes
  OBVIOUS
<1>1. Root \in NodeIds
  BY VfsAssumption
<1>2. "/" \in Specials /\ <<>> \in Seq(NodeIds)
  BY DEF Specials
<1> QED BY <1>1, <1>2 DEF Init, initializeVfs, TreeTypes

\* Unlinking a node leaves sequences of nodes.
LEMMA UnlinkTypes ==
    ASSUME TreeTypes, NEW n \in NodeIds
    PROVE  removeFromCircularList(n) \in [NodeIds -> Seq(NodeIds)]
<1> DEFINE p == parent[n]
           c == children[p]
<1>1. children \in [NodeIds -> Seq(NodeIds)]
  BY DEF TreeTypes
<1>2. CASE p \in NodeIds /\ Linked(c, n)
  <2>1. c \in Seq(NodeIds) /\ DOMAIN c = 1 .. Len(c)
    BY <1>1, <1>2, LenProperties
  <2>2. (CHOOSE i \in DOMAIN c : c[i] = n) \in 1 .. Len(c)
    BY <1>2, <2>1 DEF Linked
  <2>3. RemoveAt(c, CHOOSE i \in DOMAIN c : c[i] = n) \in Seq(NodeIds)
    <3> HIDE DEF c
    <3> QED BY <2>1, <2>2, RemoveAtShifts
  <2> QED BY <1>1, <1>2, <2>3 DEF removeFromCircularList
<1>3. CASE ~(p \in NodeIds /\ Linked(c, n))
  <2>1. removeFromCircularList(n) = children
    BY <1>1, <1>3 DEF removeFromCircularList
  <2> QED BY <1>1, <2>1
<1> QED BY <1>2, <1>3

LEMMA StepKeepsTypes ==
    ASSUME TreeTypes, Next
    PROVE  TreeTypes'
<1>1. ASSUME UNCHANGED <<tree, gCwd>>, commandCode' \in {"command", "exit"} PROVE TreeTypes'
  BY <1>1 DEF TreeTypes, tree
<1>2. ASSUME Refuse, Running PROVE TreeTypes'
  BY <1>1, <1>2 DEF Refuse, Running
<1>3. ASSUME Running, NEW n \in NodeIds, NEW a \in Names,
             NEW t \in {"FILETYPE", "DIRECTORY"}, newNode(n, a, t)
      PROVE  TreeTypes'
  <2>1. Truncated[a] \in Names
    BY VfsAssumption
  <2>2. children' \in [NodeIds -> Seq(NodeIds)]
    <3> DEFINE c == [children EXCEPT ![n] = <<>>]
    <3>1. c \in [NodeIds -> Seq(NodeIds)] /\ gCwd \in NodeIds
      BY DEF TreeTypes
    <3>2. Append(c[gCwd], n) \in Seq(NodeIds)
      BY <3>1, AppendProperties
    <3>3. children' = [c EXCEPT ![gCwd] = Append(c[gCwd], n)]
      <4>1. children' = [children EXCEPT ![n] = <<>>, ![gCwd] = Append(@, n)]
        BY <1>3 DEF newNode
      <4>2. \A d \in NodeIds : children'[d] = [c EXCEPT ![gCwd] = Append(c[gCwd], n)][d]
        BY <3>1, <4>1 DEF TreeTypes
      <4> QED BY <3>1, <4>1, <4>2 DEF TreeTypes
    <3> QED BY <3>1, <3>2, <3>3
  <2>3. /\ type' \in [NodeIds -> {"FREED", "FILETYPE", "DIRECTORY"}]
        /\ name' \in [NodeIds -> Names \cup Specials]
        /\ parent' \in [NodeIds -> NodeIds \cup {NULL}]
        /\ gCwd' = gCwd
    BY <1>3, <2>1 DEF newNode, TreeTypes
  <2> QED BY <1>3, <2>2, <2>3 DEF TreeTypes, Running
<1>4. ASSUME NEW a \in Arguments, callMkdir(a) \/ callCreate(a) PROVE TreeTypes'
  BY <1>2, <1>3, <1>4 DEF callMkdir, callCreate, creatable
<1>5. ASSUME NEW a \in Arguments, callCd(a) PROVE TreeTypes'
  <2> DEFINE target == CASE a = "/"  -> Root
                       [] a = ".." -> parent[gCwd]
                       [] OTHER    -> findNodeInCwd(a)
  <2>1. target \in NodeIds \cup {NULL}
    BY FindProps, VfsAssumption DEF TreeTypes
  <2>2. Running /\ \/ Refuse
                   \/ /\ isDirectory(target) /\ gCwd' = target
                      /\ UNCHANGED tree
    BY <1>5 DEF callCd
  <2> HIDE DEF target
  <2> QED BY <1>2, <2>1, <2>2 DEF TreeTypes, tree, Running, isDirectory
<1>6. ASSUME NEW a \in Arguments, callRead(a) PROVE TreeTypes'
  BY <1>1, <1>2, <1>6 DEF callRead, Running
<1>7. ASSUME NEW a \in Arguments, NEW c \in Contents, callWrite(a, c) PROVE TreeTypes'
  <2>1. Running /\ UNCHANGED <<tree, gCwd>>
    BY <1>7 DEF callWrite, writeTo, Refuse
  <2> QED BY <1>1, <2>1 DEF Running
<1>8. ASSUME Running, NEW n \in NodeIds, freeNode(n) PROVE TreeTypes'
  <2>1. /\ removeFromCircularList(n) \in [NodeIds -> Seq(NodeIds)]
        /\ "/" \in Specials /\ <<>> \in Seq(NodeIds)
    BY UnlinkTypes DEF Specials
  <2>2. children' \in [NodeIds -> Seq(NodeIds)]
    BY <1>8, <2>1 DEF freeNode
  <2>3. /\ type' \in [NodeIds -> {"FREED", "FILETYPE", "DIRECTORY"}]
        /\ name' \in [NodeIds -> Names \cup Specials]
        /\ parent' \in [NodeIds -> NodeIds \cup {NULL}]
        /\ gCwd' = gCwd
    BY <1>8, <2>1 DEF freeNode, TreeTypes
  <2> QED BY <1>8, <2>2, <2>3 DEF TreeTypes, Running
<1>9. ASSUME NEW a \in Arguments, callDelete(a) \/ callRmdir(a) PROVE TreeTypes'
  <2> DEFINE n == findNodeInCwd(a)
  <2>1. Running
    BY <1>9 DEF callDelete, callRmdir
  <2>2. n \in NodeIds \cup {NULL}
    BY FindProps
  <2>3. CASE Refuse
    BY <1>2, <2>1, <2>3
  <2>4. CASE n # NULL /\ freeNode(n)
    <3> HIDE DEF n
    <3> QED BY <1>8, <2>1, <2>2, <2>4
  <2>5. CASE callDelete(a)
    BY <2>3, <2>4, <2>5 DEF callDelete, isFile
  <2>6. CASE callRmdir(a)
    BY <2>3, <2>4, <2>6 DEF callRmdir, removable, isDirectory
  <2> QED BY <1>9, <2>5, <2>6
<1>10. CASE Show
  BY <1>1, <1>10 DEF Show, Running
<1>11. CASE BlankFirstLine \/ Exit
  BY <1>11 DEF BlankFirstLine, Exit, cleanupMemory, TreeTypes
<1> QED BY <1>4, <1>5, <1>6, <1>7, <1>9, <1>10, <1>11 DEF Next

LEMMA InitDisk == Init => DiskInv
<1> SUFFICES ASSUME Init PROVE DiskInv
  OBVIOUS
<1>1. /\ freeList = [i \in 1 .. NUM_BLOCKS |-> i - 1] /\ gFreeBlockCount = NUM_BLOCKS
      /\ blockPointers = [n \in NodeIds |-> <<>>] /\ contentSize = [n \in NodeIds |-> 0]
  BY DEF Init, initializeVfs
<1>2. NUM_BLOCKS \in Nat
  BY VfsAssumption
<1>3. /\ freeList \in Seq(Blocks) /\ Len(freeList) = NUM_BLOCKS
      /\ DOMAIN freeList = 1 .. NUM_BLOCKS
  <2>1. \A i \in 1 .. NUM_BLOCKS : i - 1 \in Blocks
    BY <1>2 DEF Blocks
  <2>2. freeList \in Seq(Blocks)
    BY <1>1, <1>2, <2>1
  <2> QED BY <1>1, <1>2, <2>2, LenProperties
<1>4. NoRepeats(freeList)
  BY <1>1, <1>2, <1>3 DEF NoRepeats
<1>5. blockPointers \in [NodeIds -> Seq(Blocks)] /\ \A n \in NodeIds : blockPointers[n] = <<>>
  <2>1. <<>> \in Seq(Blocks)
    OBVIOUS
  <2> QED BY <1>1, <2>1
<1>6. \A n \in NodeIds : \A x : NoRepeats(blockPointers[n]) /\ ~Linked(blockPointers[n], x)
  BY <1>5 DEF NoRepeats, Linked
<1>7. blockPointers \in Apart(freeList)
  BY <1>4, <1>5, <1>6 DEF Apart
<1> QED BY <1>1, <1>3, <1>5, <1>7 DEF DiskInv, DiskTypes

\* No block is lost to two owners and none is counted that is not there.  The
\* invariant says the same of whole lists, with what the blocks are.
THEOREM BlocksCorrect == Spec => []BlocksExclusive
<1> DEFINE Inv == TreeTypes /\ DiskInv
<1>1. Init => Inv
  BY InitTypes, InitDisk
<1>2. Inv /\ [Next]_vars => Inv'
  <2>1. CASE Next
    BY <2>1, StepKeepsTypes, StepKeepsDisk
  <2>2. CASE UNCHANGED vars
    BY <2>2 DEF vars, tree, files, TreeTypes, DiskInv, DiskTypes, Alive
  <2> QED BY <2>1, <2>2
<1>3. Inv => BlocksExclusive
  BY InvBlocksExclusive
<1> QED BY <1>1, <1>2, <1>3, PTL DEF Spec


-----------------------------------------------------------------------------
(* Reachability.                                                             *)

\* What reachable says, of any types and sibling lists.
reach(ty, ch) ==
    LET from[k \in 0 .. Cardinality(NodeIds)] ==
            IF k = 0 THEN {Root}
            ELSE from[k - 1] \cup
                 {n \in NodeIds : \E d \in from[k - 1] :
                     ty[d] = "DIRECTORY" /\ Linked(ch[d], n)}
    IN  from[Cardinality(NodeIds)]

LEMMA ReachableNow ==
    reachable = reach(type, children) /\ reachable' = reach(type', children')
BY DEF reachable, reach

LEMMA LinkedRange == \A c, x : Linked(c, x) <=> x \in Range(c)
BY DEF Linked, Range

\* The sets of nodes that hold the root and what lies below their directories.
Closed(ty, ch) ==
    {R \in SUBSET NodeIds :
        /\ Root \in R
        /\ \A d \in R, x \in NodeIds : ty[d] = "DIRECTORY" /\ x \in Range(ch[d]) => x \in R}

next(ty, ch, R) ==
    R \cup {n \in NodeIds : \E d \in R : ty[d] = "DIRECTORY" /\ Linked(ch[d], n)}

\* f[k] is what is reached in k steps.
levels(f, ty, ch) ==
    /\ f[0] = {Root}
    /\ \A k \in 1 .. Cardinality(NodeIds) : f[k] = next(ty, ch, f[k - 1])

LEMMA ReachUnfolds ==
    ASSUME NEW ty, NEW ch
    PROVE  \E f \in [0 .. Cardinality(NodeIds) -> SUBSET NodeIds] :
             levels(f, ty, ch) /\ reach(ty, ch) = f[Cardinality(NodeIds)]
<1> DEFINE K == Cardinality(NodeIds)
           S == SUBSET NodeIds
           G == [p \in Nat \X S |-> next(ty, ch, p[2])]
           body(g) == [k \in 0 .. K |->
                         IF k = 0 THEN {Root}
                         ELSE g[k - 1] \cup
                              {n \in NodeIds : \E d \in g[k - 1] :
                                  ty[d] = "DIRECTORY" /\ Linked(ch[d], n)}]
<1>1. K \in Nat /\ {Root} \in S
  BY VfsAssumption, FS_CardinalityType
<1>2. \A R \in S : next(ty, ch, R) \in S
  BY DEF next
<1> HIDE DEF K
<1>3. /\ G \in [Nat \X S -> S]
      /\ \A n \in Nat, R \in S : G[<<n, R>>] = next(ty, ch, R)
  BY <1>2
<1> HIDE DEF G
<1>4. PICK g : g \in upTo(S, {Root}, G, K)
  <2> HIDE DEF S
  <2>1. upTo(S, {Root}, G, K) # {}
    BY <1>1, <1>3, SomeUpTo
  <2> QED BY <2>1
<1>5. /\ g \in [0 .. K -> S] /\ g[0] = {Root}
      /\ \A i \in 0 .. K - 1 : g[i + 1] = G[<<i, g[i]>>]
  BY <1>4 DEF upTo
<1>6. \A k \in 1 .. K : g[k] = next(ty, ch, g[k - 1])
  <2> SUFFICES ASSUME NEW k \in 1 .. K PROVE g[k] = next(ty, ch, g[k - 1])
    OBVIOUS
  <2>1. k - 1 \in 0 .. K - 1 /\ (k - 1) + 1 = k /\ k - 1 \in Nat /\ k - 1 \in 0 .. K
    BY <1>1
  <2>2. g[k - 1] \in S
    BY <1>5, <2>1
  <2>3. g[k] = G[<<k - 1, g[k - 1]>>]
    BY <1>5, <2>1
  <2> HIDE DEF S
  <2> QED BY <1>3, <2>1, <2>2, <2>3
<1>7. g = body(g)
  <2>1. ASSUME NEW k \in 0 .. K
        PROVE  g[k] = IF k = 0 THEN {Root}
                      ELSE g[k - 1] \cup
                           {n \in NodeIds : \E d \in g[k - 1] :
                               ty[d] = "DIRECTORY" /\ Linked(ch[d], n)}
    <3>1. k = 0 \/ k \in 1 .. K
      BY <1>1
    <3>2. CASE k = 0
      BY <1>5, <3>2
    <3>3. CASE k \in 1 .. K
      <4>1. k # 0
        BY <1>1, <3>3
      <4> QED BY <1>6, <3>3, <4>1 DEF next
    <3> QED BY <3>1, <3>2, <3>3
  <2> QED BY <1>5, <2>1
<1> DEFINE f == CHOOSE h : h = body(h)
<1>8. f = body(f)
  <2> HIDE DEF body
  <2> QED BY <1>7
<1>9. reach(ty, ch) = f[K]
  BY DEF reach, K
<1> HIDE DEF f
<1>10. \A k \in 0 .. K :
         f[k] = IF k = 0 THEN {Root}
                ELSE f[k - 1] \cup
                     {n \in NodeIds : \E d \in f[k - 1] :
                         ty[d] = "DIRECTORY" /\ Linked(ch[d], n)}
  BY <1>8
<1>11. f[0] = {Root} /\ \A k \in 1 .. K : f[k] = next(ty, ch, f[k - 1])
  <2>1. 0 \in 0 .. K /\ \A k \in 1 .. K : k \in 0 .. K /\ k # 0
    BY <1>1
  <2> QED BY <1>10, <2>1 DEF next
<1>12. \A k \in 0 .. K : f[k] \in S
  <2> DEFINE T == {k \in Nat : k <= K => f[k] \in S}
  <2>1. 0 \in T
    BY <1>1, <1>11
  <2>2. ASSUME NEW k \in Nat, k \in T PROVE k + 1 \in T
    <3>1. SUFFICES ASSUME k + 1 <= K PROVE f[k + 1] \in S
      OBVIOUS
    <3>2. k + 1 \in 1 .. K /\ (k + 1) - 1 = k /\ f[k] \in S
      BY <1>1, <2>2, <3>1
    <3>3. f[k + 1] = next(ty, ch, f[k])
      BY <1>11, <3>2
    <3> HIDE DEF S
    <3> QED BY <1>2, <3>2, <3>3
  <2> HIDE DEF T
  <2>3. Nat \subseteq T
    BY <2>1, <2>2, InductiveSet
  <2> QED BY <1>1, <2>3 DEF T
<1>13. f = [k \in 0 .. K |-> f[k]]
  BY <1>8, <1>10
<1>14. f \in [0 .. K -> S]
  BY <1>12, <1>13
<1>15. levels(f, ty, ch)
  BY <1>11 DEF levels, K
<1> QED BY <1>9, <1>14, <1>15 DEF K

\* After as many steps as there are nodes nothing new is reached: what is
\* reached is the least closed set.
LEMMA ReachIsLeast ==
    ASSUME NEW ty, NEW ch
    PROVE  /\ reach(ty, ch) \in Closed(ty, ch)
           /\ \A R \in Closed(ty, ch) : reach(ty, ch) \subseteq R
<1> DEFINE K == Cardinality(NodeIds)
<1>1. PICK f \in [0 .. K -> SUBSET NodeIds] :
        levels(f, ty, ch) /\ reach(ty, ch) = f[K]
  BY ReachUnfolds
<1>2. f[0] = {Root} /\ \A k \in 1 .. K : f[k] = next(ty, ch, f[k - 1])
  BY <1>1 DEF levels
<1>3. K \in Nat /\ IsFiniteSet(NodeIds)
  BY VfsAssumption, FS_CardinalityType
<1>4. \A R \in SUBSET NodeIds : IsFiniteSet(R) /\ Cardinality(R) \in Nat
  BY <1>3, FS_Subset, FS_CardinalityType
<1>5. \A R \in SUBSET NodeIds : Cardinality(R) <= K
  BY <1>3, FS_Subset
<1> HIDE DEF K
<1>6. ASSUME NEW k \in Nat, k + 1 <= K
      PROVE  /\ k + 1 \in 1 .. K /\ (k + 1) - 1 = k
             /\ f[k] \in SUBSET NodeIds /\ f[k + 1] \in SUBSET NodeIds
             /\ f[k + 1] = next(ty, ch, f[k])
  <2>1. k + 1 \in 1 .. K /\ (k + 1) - 1 = k /\ k \in 0 .. K /\ k + 1 \in 0 .. K
    BY <1>3, <1>6
  <2> QED BY <1>1, <1>2, <2>1
<1>7. \A k \in 0 .. K : Root \in f[k]
  <2> DEFINE T == {k \in Nat : k <= K => Root \in f[k]}
  <2>1. 0 \in T
    BY <1>2
  <2>2. ASSUME NEW k \in Nat, k \in T PROVE k + 1 \in T
    BY <1>3, <1>6, <2>2 DEF next
  <2> HIDE DEF T
  <2>3. Nat \subseteq T
    BY <2>1, <2>2, InductiveSet
  <2> QED BY <1>3, <2>3 DEF T
<1>8. ASSUME NEW R \in Closed(ty, ch) PROVE f[K] \subseteq R
  <2> DEFINE T == {k \in Nat : k <= K => f[k] \subseteq R}
  <2>1. 0 \in T
    BY <1>2 DEF Closed
  <2>2. ASSUME NEW k \in Nat, k \in T PROVE k + 1 \in T
    <3>1. SUFFICES ASSUME k + 1 <= K PROVE f[k + 1] \subseteq R
      OBVIOUS
    <3>2. f[k] \subseteq R
      BY <1>3, <2>2, <3>1
    <3> QED BY <1>6, <3>1, <3>2, LinkedRange DEF next, Closed
  <2> HIDE DEF T
  <2>3. Nat \subseteq T
    BY <2>1, <2>2, InductiveSet
  <2> QED BY <1>3, <2>3 DEF T
<1>9. next(ty, ch, f[K]) = f[K]
  <2> DEFINE T == {k \in Nat : k <= K => \/ next(ty, ch, f[k]) = f[k]
                                         \/ Cardinality(f[k]) >= k + 1}
  <2>1. 0 \in T
    <3>1. Cardinality({Root}) = 1
      BY FS_Singleton
    <3> QED BY <1>2, <3>1
  <2>2. ASSUME NEW k \in Nat, k \in T PROVE k + 1 \in T
    <3>1. SUFFICES ASSUME k + 1 <= K
                   PROVE  \/ next(ty, ch, f[k + 1]) = f[k + 1]
                          \/ Cardinality(f[k + 1]) >= (k + 1) + 1
      OBVIOUS
    <3>2. next(ty, ch, f[k]) = f[k] \/ Cardinality(f[k]) >= k + 1
      BY <1>3, <2>2, <3>1
    <3>3. CASE next(ty, ch, f[k]) = f[k]
      BY <1>6, <3>1, <3>3
    <3>4. CASE next(ty, ch, f[k]) # f[k]
      <4>1. f[k] \in SUBSET f[k + 1] /\ f[k + 1] # f[k]
        BY <1>6, <3>1, <3>4 DEF next
      <4>2. /\ IsFiniteSet(f[k + 1]) /\ Cardinality(f[k + 1]) \in Nat
            /\ Cardinality(f[k]) \in Nat
        BY <1>4, <1>6, <3>1
      <4>3. /\ Cardinality(f[k]) <= Cardinality(f[k + 1])
            /\ Cardinality(f[k]) # Cardinality(f[k + 1])
        BY <4>1, <4>2, FS_Subset
      <4> QED BY <3>2, <3>4, <4>2, <4>3
    <3> QED BY <3>3, <3>4
  <2> HIDE DEF T
  <2>3. Nat \subseteq T
    BY <2>1, <2>2, InductiveSet
  <2>4. next(ty, ch, f[K]) = f[K] \/ Cardinality(f[K]) >= K + 1
    BY <1>3, <2>3 DEF T
  <2>5. Cardinality(f[K]) \in Nat /\ Cardinality(f[K]) <= K
    BY <1>1, <1>3, <1>4, <1>5
  <2> QED BY <1>3, <2>4, <2>5
<1>10. f[K] \in SUBSET NodeIds /\ Root \in f[K]
  BY <1>1, <1>3, <1>7
<1>11. f[K] \in Closed(ty, ch)
  BY <1>9, <1>10, LinkedRange DEF Closed, next
<1> QED BY <1>1, <1>8, <1>11


-----------------------------------------------------------------------------
(* The tree.                                                                 *)

\* Sibling lists and parents agree, and siblings differ in their names unless a
\* typed name was cut.
Siblings ==
    /\ \A n \in Allocated \ {Root} :
         parent[n] \in NodeIds /\ n \in Range(children[parent[n]])
    /\ \A d \in NodeIds : \A x : x \in Range(children[d]) =>
         type[d] = "DIRECTORY" /\ x \in Allocated \ {Root} /\ parent[x] = d
    /\ \A d \in NodeIds : NoRepeats(children[d])
    /\ \A d \in NodeIds : \A x, y :
         x \in Range(children[d]) /\ y \in Range(children[d]) /\ name[x] = name[y] =>
            x = y \/ \E m \in Names : m # Truncated[m] /\ Truncated[m] = name[x]

TreeInv ==
    /\ TreeTypes
    /\ IF Alive
       THEN /\ type[Root] = "DIRECTORY" /\ type[gCwd] = "DIRECTORY"
            /\ Siblings
            /\ Allocated = reach(type, children)
       ELSE Allocated = {}

LEMMA InvTreeIntact == TreeInv => TreeIntact
<1>1. CASE ~Alive
  BY <1>1 DEF TreeInv, TreeIntact
<1>2. CASE TreeInv /\ Alive
  <2>1. /\ type[Root] = "DIRECTORY" /\ type[gCwd] = "DIRECTORY" /\ Siblings
        /\ Allocated = reachable
    BY <1>2, ReachableNow DEF TreeInv
  <2>2. \A d \in NodeIds : \A i \in DOMAIN children[d] : children[d][i] \in Range(children[d])
    BY DEF Range
  <2>3. ASSUME NEW n \in Allocated \ {Root}
        PROVE  /\ parent[n] # NULL
               /\ type[parent[n]] = "DIRECTORY"
               /\ \E i \in DOMAIN children[parent[n]] : children[parent[n]][i] = n
    <3>1. parent[n] \in NodeIds /\ n \in Range(children[parent[n]])
      BY <2>1 DEF Siblings
    <3>2. type[parent[n]] = "DIRECTORY"
      BY <2>1, <3>1 DEF Siblings
    <3> QED BY <3>1, <3>2, VfsAssumption DEF Range
  <2>4. \A d \in NodeIds : \A i, j \in DOMAIN children[d] :
           /\ type[d] = "DIRECTORY"
           /\ children[d][i] \in Allocated \ {Root}
           /\ parent[children[d][i]] = d
           /\ children[d][i] = children[d][j] => i = j
    BY <2>1, <2>2 DEF Siblings, NoRepeats
  <2>5. namesDiffer
    <3> SUFFICES ASSUME NEW d \in NodeIds, NEW i \in DOMAIN children[d],
                        NEW j \in DOMAIN children[d],
                        name[children[d][i]] = name[children[d][j]], i # j
                 PROVE  \E n \in Names : n # Truncated[n]
                                         /\ Truncated[n] = name[children[d][i]]
      BY DEF namesDiffer
    <3>1. children[d][i] # children[d][j]
      BY <2>1 DEF Siblings, NoRepeats
    <3> QED BY <2>1, <2>2, <3>1 DEF Siblings
  <2> QED BY <1>2, <2>1, <2>3, <2>4, <2>5 DEF TreeIntact
<1> QED BY <1>1, <1>2

LEMMA InitTree == Init => TreeInv
<1> SUFFICES ASSUME Init PROVE TreeInv
  OBVIOUS
<1>1. /\ TreeTypes /\ Root \in NodeIds /\ gCwd = Root /\ Alive
      /\ \A n \in NodeIds : type[n] = IF n = Root THEN "DIRECTORY" ELSE "FREED"
      /\ \A n \in NodeIds : children[n] = <<>>
  BY InitTypes, VfsAssumption DEF Init, initializeVfs, Alive
<1>2. \A n \in NodeIds : \A x : NoRepeats(children[n]) /\ x \notin Range(children[n])
  BY <1>1 DEF NoRepeats, Range
<1>3. Allocated = {Root}
  BY <1>1 DEF Allocated
<1>4. Siblings
  BY <1>2, <1>3 DEF Siblings
<1>5. {Root} \in Closed(type, children)
  BY <1>1, <1>2 DEF Closed
<1>6. reach(type, children) = {Root}
  <2>1. reach(type, children) \in Closed(type, children)
    BY ReachIsLeast
  <2>2. reach(type, children) \subseteq {Root}
    BY <1>5, ReachIsLeast
  <2> QED BY <2>1, <2>2 DEF Closed
<1> QED BY <1>1, <1>3, <1>4, <1>6 DEF TreeInv

\* A new node becomes the last child of the current directory, under a name that
\* was not found there.
LEMMA CreateKeepsTree ==
    ASSUME TreeInv, Alive, TreeTypes', Alive', NEW a \in Names, findNodeInCwd(a) = NULL,
           NEW n \in NodeIds, NEW t \in {"FILETYPE", "DIRECTORY"}, newNode(n, a, t)
    PROVE  TreeInv'
<1>1. /\ type[Root] = "DIRECTORY" /\ type[gCwd] = "DIRECTORY" /\ Siblings
      /\ Allocated = reach(type, children)
      /\ TreeTypes /\ gCwd \in NodeIds /\ Root \in NodeIds
  BY VfsAssumption DEF TreeInv, TreeTypes
<1>2. /\ type \in [NodeIds -> {"FREED", "FILETYPE", "DIRECTORY"}]
      /\ name \in [NodeIds -> Names \cup Specials]
      /\ parent \in [NodeIds -> NodeIds \cup {NULL}]
      /\ children \in [NodeIds -> Seq(NodeIds)]
  BY <1>1 DEF TreeTypes
<1>3. /\ type[n] = "FREED" /\ gCwd' = gCwd
      /\ type' = [type EXCEPT ![n] = t] /\ name' = [name EXCEPT ![n] = Truncated[a]]
      /\ parent' = [parent EXCEPT ![n] = gCwd]
      /\ children' = [children EXCEPT ![n] = <<>>, ![gCwd] = Append(@, n)]
  BY DEF newNode
<1>4. n # Root /\ n # gCwd /\ n \notin Allocated /\ gCwd \in Allocated
  BY <1>1, <1>3 DEF Allocated
<1>5. /\ type'[n] = t /\ name'[n] = Truncated[a] /\ parent'[n] = gCwd
      /\ \A m \in NodeIds : m # n =>
           type'[m] = type[m] /\ name'[m] = name[m] /\ parent'[m] = parent[m]
  BY <1>2, <1>3
<1>6. /\ children'[n] = <<>> /\ children'[gCwd] = Append(children[gCwd], n)
      /\ \A d \in NodeIds : d # n /\ d # gCwd => children'[d] = children[d]
  BY <1>1, <1>2, <1>3, <1>4
<1>7. \A d \in NodeIds : \A x : x \in Range(children[d]) =>
        /\ type[d] = "DIRECTORY" /\ d # n
        /\ x \in Allocated /\ x # Root /\ x # n /\ parent[x] = d /\ x \in NodeIds
  BY <1>1, <1>3, <1>4 DEF Siblings, Allocated
<1>8. \A d \in NodeIds : Range(children'[d]) =
        IF d = gCwd THEN Range(children[d]) \cup {n} ELSE Range(children[d])
  <2> SUFFICES ASSUME NEW d \in NodeIds
               PROVE  Range(children'[d]) =
                        IF d = gCwd THEN Range(children[d]) \cup {n}
                        ELSE Range(children[d])
    OBVIOUS
  <2>1. CASE d = gCwd
    <3>1. children[gCwd] \in Seq(NodeIds)
      BY <1>1, <1>2
    <3>2. Range(Append(children[gCwd], n)) = Range(children[gCwd]) \cup {n}
      BY <3>1, AppendLinked, LinkedRange
    <3> QED BY <1>6, <2>1, <3>2
  <2>2. CASE d = n
    <3>1. Range(children'[d]) = {}
      BY <1>6, <2>2 DEF Range
    <3>2. Range(children[d]) = {}
      BY <1>7, <2>2
    <3> QED BY <1>4, <2>2, <3>1, <3>2
  <2>3. CASE d # gCwd /\ d # n
    <3>1. children'[d] = children[d]
      BY <1>6, <2>3
    <3> QED BY <2>3, <3>1
  <2> QED BY <2>1, <2>2, <2>3
<1>9. Allocated' = Allocated \cup {n}
  BY <1>5 DEF Allocated
<1>10. \A d \in NodeIds : NoRepeats(children'[d])
  <2> SUFFICES ASSUME NEW d \in NodeIds PROVE NoRepeats(children'[d])
    OBVIOUS
  <2>1. CASE d = gCwd
    <3>1. /\ children[gCwd] \in Seq(NodeIds) /\ NoRepeats(children[gCwd])
          /\ n \notin Range(children[gCwd])
      BY <1>1, <1>2, <1>7 DEF Siblings
    <3>2. NoRepeats(Append(children[gCwd], n))
      BY <3>1, AppendNew, LinkedRange
    <3> QED BY Zenon, <1>6, <2>1, <3>2
  <2>2. CASE d = n
    BY <1>6, <2>2 DEF NoRepeats
  <2>3. CASE d # gCwd /\ d # n
    BY <1>1, <1>6, <2>3 DEF Siblings
  <2> QED BY <2>1, <2>2, <2>3
<1>11. ASSUME NEW x, x \in Range(children[gCwd])
       PROVE  name[x] # a
  <2>1. PICK i \in DOMAIN children[gCwd] : children[gCwd][i] = x
    BY <1>11 DEF Range
  <2> QED BY <1>1, <2>1, FindProps
<1>12. ASSUME NEW d \in NodeIds, NEW x, NEW y,
              x \in Range(children'[d]), y \in Range(children'[d]), name'[x] = name'[y], x # y
       PROVE  \E m \in Names : m # Truncated[m] /\ Truncated[m] = name'[x]
  <2>1. CASE x \in Range(children[d]) /\ y \in Range(children[d])
    <3>1. name'[x] = name[x] /\ name'[y] = name[y]
      BY <1>5, <1>7, <2>1
    <3>2. name[x] = name[y]
      BY <1>12, <3>1
    <3>3. \E m \in Names : m # Truncated[m] /\ Truncated[m] = name[x]
      BY <1>1, <1>12, <2>1, <3>2 DEF Siblings
    <3> QED BY <3>1, <3>3
  <2>2. CASE d = gCwd /\ \/ x = n /\ y \in Range(children[d])
                         \/ y = n /\ x \in Range(children[d])
    <3>1. \E z : /\ z \in Range(children[gCwd]) /\ name'[z] = name'[x]
                 /\ name'[x] = Truncated[a] /\ name'[z] = name[z]
      BY <1>5, <1>7, <1>12, <2>2
    <3>2. a # Truncated[a] /\ Truncated[a] = name'[x]
      BY <1>11, <3>1
    <3> QED BY <3>2
  <2>3. /\ x \in Range(children[d]) \/ (d = gCwd /\ x = n)
        /\ y \in Range(children[d]) \/ (d = gCwd /\ y = n)
    <3>1. Range(children'[d]) = IF d = gCwd THEN Range(children[d]) \cup {n}
                               ELSE Range(children[d])
      BY <1>8
    <3> QED BY <1>12, <3>1
  <2> QED BY <1>12, <2>1, <2>2, <2>3
<1>13. Siblings'
  <2>1. ASSUME NEW m \in Allocated' \ {Root}
        PROVE  parent'[m] \in NodeIds /\ m \in Range(children'[parent'[m]])
    <3>1. CASE m = n
      BY <1>1, <1>5, <1>8, <3>1
    <3>2. CASE m \in Allocated \ {Root}
      <4>1. parent[m] \in NodeIds /\ m \in Range(children[parent[m]]) /\ parent'[m] = parent[m]
        BY <1>1, <1>4, <1>5, <3>2 DEF Siblings, Allocated
      <4>2. m \in Range(children'[parent[m]])
          BY <1>8, <4>1
      <4> QED BY <4>1, <4>2
    <3> QED BY <1>9, <3>1, <3>2
  <2>2. ASSUME NEW d \in NodeIds, NEW x, x \in Range(children'[d])
        PROVE  type'[d] = "DIRECTORY" /\ x \in Allocated' \ {Root} /\ parent'[x] = d
    <3>1. x \in Range(children[d]) \/ (d = gCwd /\ x = n)
      <4>1. Range(children'[d]) = IF d = gCwd THEN Range(children[d]) \cup {n}
                                 ELSE Range(children[d])
        BY <1>8
      <4> QED BY <2>2, <4>1
    <3>2. CASE x \in Range(children[d])
      BY <1>5, <1>7, <1>9, <3>2
    <3>3. CASE d = gCwd /\ x = n
      BY <1>1, <1>4, <1>5, <1>9, <3>3
    <3> QED BY <3>1, <3>2, <3>3
  <2> QED BY <1>10, <1>12, <2>1, <2>2 DEF Siblings
<1>14. Allocated' = reach(type', children')
  <2> DEFINE R == reach(type', children')
  <2>1. /\ R \subseteq NodeIds /\ Root \in R
        /\ \A d \in R, x \in NodeIds :
             type'[d] = "DIRECTORY" /\ x \in Range(children'[d]) => x \in R
    BY ReachIsLeast DEF Closed
  <2>2. R \in Closed(type, children)
    <3> SUFFICES ASSUME NEW d \in R, NEW x \in NodeIds, type[d] = "DIRECTORY",
                        x \in Range(children[d])
                 PROVE  x \in R
      BY <2>1 DEF Closed
    <3>1. d \in NodeIds /\ d # n
      BY <1>3, <2>1
    <3>2. type'[d] = "DIRECTORY" /\ x \in Range(children'[d])
      BY <1>5, <1>8, <3>1
    <3> QED BY <2>1, <3>2
  <2> HIDE DEF R
  <2>3. Allocated \subseteq R
    BY <1>1, <2>2, ReachIsLeast
  <2>4. n \in R
    <3>1. gCwd \in R /\ type'[gCwd] = "DIRECTORY" /\ n \in Range(children'[gCwd])
      BY <1>1, <1>4, <1>5, <1>8, <2>3
    <3> QED BY <2>1, <3>1
  <2>5. Allocated \cup {n} \in Closed(type', children')
    <3>1. Root \in Allocated /\ Allocated \subseteq NodeIds
      BY <1>1 DEF Allocated
    <3> SUFFICES ASSUME NEW d \in Allocated \cup {n}, NEW x \in NodeIds,
                        x \in Range(children'[d])
                 PROVE  x \in Allocated \cup {n}
      BY <3>1 DEF Closed
    <3> QED BY <1>7, <1>8, <3>1
  <2>6. R \subseteq Allocated \cup {n}
    BY <2>5, ReachIsLeast DEF R
  <2> QED BY <1>9, <2>3, <2>4, <2>6 DEF R
<1>15. type'[Root] = "DIRECTORY" /\ type'[gCwd'] = "DIRECTORY"
  BY <1>1, <1>3, <1>4, <1>5
<1> QED BY <1>13, <1>14, <1>15 DEF TreeInv

\* Removing an element that is there once.
LEMMA RemoveOnce ==
    ASSUME NEW S, NEW c \in Seq(S), NEW k \in 1 .. Len(c), NoRepeats(c)
    PROVE  /\ Range(RemoveAt(c, k)) = Range(c) \ {c[k]}
           /\ NoRepeats(RemoveAt(c, k))
<1> DEFINE r == RemoveAt(c, k)
<1>1. /\ DOMAIN r = 1 .. Len(c) - 1
      /\ \A i \in 1 .. Len(c) - 1 : r[i] = IF i < k THEN c[i] ELSE c[i + 1]
  BY RemoveAtShifts
<1>2. Len(c) \in Nat /\ DOMAIN c = 1 .. Len(c)
  BY LenProperties
<1> HIDE DEF r
<1>3. ASSUME NEW i \in DOMAIN r
      PROVE  /\ i \in DOMAIN c /\ i + 1 \in DOMAIN c
             /\ i < k => r[i] = c[i]
             /\ ~(i < k) => r[i] = c[i + 1]
  BY <1>1, <1>2
<1>4. ASSUME NEW i \in DOMAIN r, NEW j \in DOMAIN r, r[i] = r[j] PROVE i = j
  <2>1. i \in Int /\ j \in Int
    BY <1>1
  <2>2. \A x, y \in DOMAIN c : c[x] = c[y] => x = y
    BY DEF NoRepeats
  <2>3. CASE (i < k) = (j < k)
    <3>1. CASE i < k
      BY <1>3, <1>4, <2>2, <2>3, <3>1
    <3>2. CASE ~(i < k)
      <4>1. c[i + 1] = c[j + 1] /\ i + 1 \in DOMAIN c /\ j + 1 \in DOMAIN c
        BY <1>3, <1>4, <2>3, <3>2
      <4>2. i + 1 = j + 1
        BY <2>2, <4>1
      <4> QED BY <2>1, <4>2
    <3> QED BY <3>1, <3>2
  <2>4. CASE i < k /\ ~(j < k)
    <3>1. i = j + 1
      BY <1>3, <1>4, <2>2, <2>4
    <3> QED BY <2>1, <2>4, <3>1
  <2>5. CASE j < k /\ ~(i < k)
    <3>1. j = i + 1
      BY <1>3, <1>4, <2>2, <2>5
    <3> QED BY <2>1, <2>5, <3>1
  <2> QED BY <2>3, <2>4, <2>5
<1>5. ASSUME NEW i \in DOMAIN r PROVE r[i] \in Range(c) \ {c[k]}
  <2>1. i \in Int
    BY <1>1
  <2>2. \A x \in DOMAIN c : c[x] \in Range(c) /\ (c[x] = c[k] => x = k)
    BY <1>2 DEF NoRepeats, Range
  <2>3. CASE i < k
    BY <1>3, <2>2, <2>3
  <2>4. CASE ~(i < k)
    BY <1>3, <2>1, <2>2, <2>4
  <2> QED BY <2>3, <2>4
<1>6. ASSUME NEW x \in Range(c) \ {c[k]} PROVE x \in Range(r)
  <2>1. PICK j \in DOMAIN c : c[j] = x /\ j # k
    BY <1>6 DEF Range
  <2>2. CASE j < k
    <3>1. j \in DOMAIN r /\ r[j] = x
      BY <1>1, <1>2, <2>1, <2>2
    <3> QED BY <3>1 DEF Range
  <2>3. CASE ~(j < k)
    <3>1. j - 1 \in DOMAIN r /\ ~(j - 1 < k) /\ (j - 1) + 1 = j
      BY <1>1, <1>2, <2>1, <2>3
    <3>2. r[j - 1] = x
      BY <1>3, <2>1, <3>1
    <3> QED BY <3>1, <3>2 DEF Range
  <2> QED BY <2>2, <2>3
<1>7. Range(r) = Range(c) \ {c[k]}
  <2>1. Range(r) \subseteq Range(c) \ {c[k]}
    BY <1>5 DEF Range
  <2> QED BY <1>6, <2>1
<1>8. NoRepeats(r)
  BY <1>4 DEF NoRepeats
<1> QED BY <1>7, <1>8 DEF r

\* Unlinking a node of the current directory changes the lists of the two.
LEMMA FreeUnlinks ==
    ASSUME TreeTypes, Siblings, NEW n \in NodeIds, n \in Range(children[gCwd]), n # gCwd,
           freeNode(n)
    PROVE  /\ \E k \in 1 .. Len(children[gCwd]) :
                children[gCwd][k] = n /\ children'[gCwd] = RemoveAt(children[gCwd], k)
           /\ children'[n] = <<>>
           /\ \A d \in NodeIds : d # n /\ d # gCwd => children'[d] = children[d]
<1> DEFINE c == children[gCwd]
           at == CHOOSE i \in DOMAIN c : c[i] = n
           r == RemoveAt(c, at)
<1>1. children \in [NodeIds -> Seq(NodeIds)] /\ gCwd \in NodeIds /\ parent[n] = gCwd
  BY DEF TreeTypes, Siblings
<1>2. at \in 1 .. Len(c) /\ c[at] = n
  <2>1. c \in Seq(NodeIds) /\ DOMAIN c = 1 .. Len(c) /\ \E i \in DOMAIN c : c[i] = n
    BY <1>1, LenProperties DEF Range
  <2> HIDE DEF c
  <2> QED BY <2>1
<1>3. children' = [[children EXCEPT ![gCwd] = r] EXCEPT ![n] = <<>>]
  <2>1. Linked(c, n)
    BY LinkedRange
  <2>2. removeFromCircularList(n) = [children EXCEPT ![gCwd] = r]
    BY <1>1, <2>1 DEF removeFromCircularList
  <2> QED BY <2>2 DEF freeNode
<1>4. /\ children'[n] = <<>> /\ children'[gCwd] = r
      /\ \A d \in NodeIds : d # n /\ d # gCwd => children'[d] = children[d]
  <2> HIDE DEF r
  <2> QED BY <1>1, <1>3
<1> HIDE DEF at
<1> QED BY <1>2, <1>4

\* A file or an empty directory leaves the list of the current directory, and
\* nothing else is cut off.
LEMMA FreeKeepsTree ==
    ASSUME TreeInv, Alive, TreeTypes', Alive',
           NEW n \in NodeIds, n \in Range(children[gCwd]), n # gCwd,
           \A x \in NodeIds : x \notin Range(children[n]), freeNode(n)
    PROVE  TreeInv'
<1>1. /\ type[Root] = "DIRECTORY" /\ type[gCwd] = "DIRECTORY" /\ Siblings
      /\ Allocated = reach(type, children)
      /\ TreeTypes /\ gCwd \in NodeIds /\ Root \in NodeIds
  BY VfsAssumption DEF TreeInv, TreeTypes
<1>2. /\ type \in [NodeIds -> {"FREED", "FILETYPE", "DIRECTORY"}]
      /\ name \in [NodeIds -> Names \cup Specials]
      /\ parent \in [NodeIds -> NodeIds \cup {NULL}]
      /\ children \in [NodeIds -> Seq(NodeIds)]
  BY <1>1 DEF TreeTypes
<1>3. /\ gCwd' = gCwd
      /\ type' = [type EXCEPT ![n] = "FREED"] /\ name' = [name EXCEPT ![n] = "/"]
      /\ parent' = [parent EXCEPT ![n] = NULL]
      /\ children' = [removeFromCircularList(n) EXCEPT ![n] = <<>>]
  BY DEF freeNode
<1>4. n \in Allocated \ {Root} /\ parent[n] = gCwd
  BY <1>1 DEF Siblings
<1>5. PICK k \in 1 .. Len(children[gCwd]) :
        children[gCwd][k] = n /\ children'[gCwd] = RemoveAt(children[gCwd], k)
  BY <1>1, FreeUnlinks
<1>6. Range(children'[gCwd]) = Range(children[gCwd]) \ {n} /\ NoRepeats(children'[gCwd])
  <2>1. children[gCwd] \in Seq(NodeIds) /\ NoRepeats(children[gCwd])
    BY <1>1, <1>2 DEF Siblings
  <2> QED BY <1>5, <2>1, RemoveOnce
<1>8. /\ children'[n] = <<>>
      /\ \A d \in NodeIds : d # n /\ d # gCwd => children'[d] = children[d]
  BY <1>1, FreeUnlinks
<1>9. /\ type'[n] = "FREED"
      /\ \A m \in NodeIds : m # n =>
           type'[m] = type[m] /\ name'[m] = name[m] /\ parent'[m] = parent[m]
  BY <1>2, <1>3
<1>10. \A d \in NodeIds : \A x : x \in Range(children[d]) =>
         /\ type[d] = "DIRECTORY" /\ d # n
         /\ x \in Allocated /\ x # Root /\ x \in NodeIds /\ parent[x] = d
  BY <1>1 DEF Siblings, Allocated
<1>11. \A d \in NodeIds : Range(children'[d]) = Range(children[d]) \ {n}
  <2> SUFFICES ASSUME NEW d \in NodeIds
               PROVE  Range(children'[d]) = Range(children[d]) \ {n}
    OBVIOUS
  <2>1. CASE d = gCwd
    BY <1>6, <1>8, <2>1
  <2>2. CASE d = n
    <3>1. Range(children'[d]) = {}
      BY <1>8, <2>2 DEF Range
    <3>2. Range(children[d]) = {}
      BY <1>10, <2>2
    <3> QED BY <3>1, <3>2
  <2>3. CASE d # gCwd /\ d # n
    <3>1. children'[d] = children[d]
      BY <1>8, <2>3
    <3>2. n \notin Range(children[d])
      BY <1>4, <1>10, <2>3
    <3> QED BY <3>1, <3>2
  <2> QED BY <2>1, <2>2, <2>3
<1>12. Allocated' = Allocated \ {n}
  BY <1>9 DEF Allocated
<1>13. \A d \in NodeIds : NoRepeats(children'[d])
  <2> SUFFICES ASSUME NEW d \in NodeIds PROVE NoRepeats(children'[d])
    OBVIOUS
  <2>1. CASE d = gCwd
    BY <1>6, <1>8, <2>1
  <2>2. CASE d = n
    BY <1>8, <2>2 DEF NoRepeats
  <2>3. CASE d # gCwd /\ d # n
    BY <1>1, <1>8, <2>3 DEF Siblings
  <2> QED BY <2>1, <2>2, <2>3
<1>14. Siblings'
  <2>1. ASSUME NEW m \in Allocated' \ {Root}
        PROVE  parent'[m] \in NodeIds /\ m \in Range(children'[parent'[m]])
    <3>1. m \in Allocated \ {Root} /\ m # n /\ m \in NodeIds
      BY <1>12 DEF Allocated
    <3>2. parent[m] \in NodeIds /\ m \in Range(children[parent[m]]) /\ parent'[m] = parent[m]
      BY <1>1, <1>9, <3>1 DEF Siblings
    <3>3. Range(children'[parent[m]]) = Range(children[parent[m]]) \ {n}
      BY <1>11, <3>2
    <3> QED BY <3>1, <3>2, <3>3
  <2>2. ASSUME NEW d \in NodeIds, NEW x, x \in Range(children'[d])
        PROVE  type'[d] = "DIRECTORY" /\ x \in Allocated' \ {Root} /\ parent'[x] = d
    <3>1. x \in Range(children[d]) /\ x # n
      BY <1>11, <2>2
    <3> QED BY <1>9, <1>10, <1>12, <3>1
  <2>3. ASSUME NEW d \in NodeIds, NEW x, NEW y, x \in Range(children'[d]),
               y \in Range(children'[d]), name'[x] = name'[y], x # y
        PROVE  \E m \in Names : m # Truncated[m] /\ Truncated[m] = name'[x]
    <3>1. x \in Range(children[d]) /\ x # n /\ y \in Range(children[d]) /\ y # n
      BY <1>11, <2>3
    <3>2. name'[x] = name[x] /\ name'[y] = name[y]
      BY <1>9, <1>10, <3>1
    <3>3. name[x] = name[y]
      BY <2>3, <3>2
    <3>4. \E m \in Names : m # Truncated[m] /\ Truncated[m] = name[x]
      BY <1>1, <2>3, <3>1, <3>3 DEF Siblings
    <3> QED BY <3>2, <3>4
  <2> QED BY <1>13, <2>1, <2>2, <2>3 DEF Siblings
<1>15. Allocated' = reach(type', children')
  <2> DEFINE R == reach(type', children')
  <2>1. /\ R \subseteq NodeIds /\ Root \in R
        /\ \A d \in R, x \in NodeIds :
             type'[d] = "DIRECTORY" /\ x \in Range(children'[d]) => x \in R
    BY ReachIsLeast DEF Closed
  <2>2. R \cup {n} \in Closed(type, children)
    <3> SUFFICES ASSUME NEW d \in R \cup {n}, NEW x \in NodeIds, type[d] = "DIRECTORY",
                        x \in Range(children[d])
                 PROVE  x \in R \cup {n}
      BY <2>1 DEF Closed
    <3>1. d \in NodeIds /\ d # n /\ d \in R
      BY <1>10, <2>1
    <3>2. type'[d] = "DIRECTORY" /\ Range(children'[d]) = Range(children[d]) \ {n}
      BY <1>9, <1>11, <3>1
    <3> QED BY <2>1, <3>1, <3>2
  <2> HIDE DEF R
  <2>3. Allocated \subseteq R \cup {n}
    BY <1>1, <2>2, ReachIsLeast
  <2>4. Allocated \ {n} \in Closed(type', children')
    <3>1. Root \in Allocated /\ Allocated \subseteq NodeIds /\ Root # n
      BY <1>1, <1>4 DEF Allocated
    <3> SUFFICES ASSUME NEW d \in Allocated \ {n}, NEW x \in NodeIds,
                        x \in Range(children'[d])
                 PROVE  x \in Allocated \ {n}
      BY <3>1 DEF Closed
    <3>2. x \in Range(children[d]) /\ x # n
      BY <1>11, <3>1
    <3> QED BY <1>10, <3>1, <3>2
  <2>5. R \subseteq Allocated \ {n}
    BY <2>4, ReachIsLeast DEF R
  <2> QED BY <1>12, <2>3, <2>5 DEF R
<1>16. type'[Root] = "DIRECTORY" /\ type'[gCwd'] = "DIRECTORY"
  BY <1>1, <1>3, <1>4, <1>9
<1> QED BY <1>14, <1>15, <1>16 DEF TreeInv

LEMMA StepKeepsTree ==
    ASSUME TreeInv, Next
    PROVE  TreeInv'
<1>0. TreeTypes /\ TreeTypes'
  BY StepKeepsTypes DEF TreeInv
<1>1. ASSUME UNCHANGED <<tree, gCwd>>, Running PROVE TreeInv'
  BY <1>0, <1>1 DEF TreeInv, tree, Siblings, Allocated, Running, Alive
<1>2. ASSUME Running PROVE Alive /\ Alive'
  BY <1>2 DEF Running, Alive
<1>3. ASSUME Refuse, Running PROVE TreeInv'
  BY <1>1, <1>3 DEF Refuse
<1>4. ASSUME Running, NEW n \in NodeIds, NEW a, creatable(a),
             NEW t \in {"FILETYPE", "DIRECTORY"}, newNode(n, a, t)
      PROVE  TreeInv'
  BY <1>0, <1>2, <1>4, CreateKeepsTree DEF creatable
<1>5. ASSUME NEW a \in Arguments, callMkdir(a) \/ callCreate(a) PROVE TreeInv'
  BY <1>3, <1>4, <1>5 DEF callMkdir, callCreate
<1>6. ASSUME NEW a \in Arguments, callCd(a) PROVE TreeInv'
  <2>1. Running
    BY <1>6 DEF callCd
  <2>2. CASE type[gCwd'] = "DIRECTORY" /\ UNCHANGED tree
    BY <1>0, <1>2, <2>1, <2>2 DEF TreeInv, tree, Siblings, Allocated
  <2>3. Refuse \/ (type[gCwd'] = "DIRECTORY" /\ UNCHANGED tree)
    BY <1>6 DEF callCd, isDirectory
  <2> QED BY <1>3, <2>1, <2>2, <2>3
<1>7. ASSUME NEW a \in Arguments, callRead(a) PROVE TreeInv'
  <2>1. Running /\ UNCHANGED <<tree, gCwd>>
    BY <1>7 DEF callRead, Refuse
  <2> QED BY <1>1, <2>1
<1>8. ASSUME NEW a \in Arguments, NEW c \in Contents, callWrite(a, c) PROVE TreeInv'
  <2>1. Running /\ UNCHANGED <<tree, gCwd>>
    BY <1>8 DEF callWrite, writeTo, Refuse
  <2> QED BY <1>1, <2>1
<1>9. ASSUME Running, NEW n, n # NULL, NEW a, n = findNodeInCwd(a), freeNode(n),
             type[n] = "FILETYPE" \/ children[n] = <<>>
      PROVE  TreeInv'
  <2>1. Alive /\ Alive'
    BY <1>2, <1>9
  <2>2. n \in NodeIds /\ n \in Range(children[gCwd])
    BY <1>0, <1>9, FindProps, LinkedRange
  <2>3. \A x \in NodeIds : x \notin Range(children[n])
    <3>1. CASE type[n] = "FILETYPE"
      BY <2>1, <2>2, <3>1 DEF TreeInv, Siblings
    <3>2. CASE children[n] = <<>>
      BY <3>2 DEF Range
    <3> QED BY <1>9, <3>1, <3>2
  <2>4. n # gCwd
    BY <2>2, <2>3
  <2> QED BY <1>0, <1>9, <2>1, <2>2, <2>3, <2>4, FreeKeepsTree
<1>10. ASSUME NEW a \in Arguments, callDelete(a) \/ callRmdir(a) PROVE TreeInv'
  <2> DEFINE n == findNodeInCwd(a)
  <2>1. Running
    BY <1>10 DEF callDelete, callRmdir
  <2>2. CASE Refuse
    BY <1>3, <2>1, <2>2
  <2>3. CASE n # NULL /\ freeNode(n) /\ (type[n] = "FILETYPE" \/ children[n] = <<>>)
    BY <1>9, <2>1, <2>3
  <2>4. CASE callDelete(a)
    BY <2>2, <2>3, <2>4 DEF callDelete, isFile
  <2>5. CASE callRmdir(a)
    BY <2>2, <2>3, <2>5 DEF callRmdir, removable, isDirectory
  <2> QED BY <1>10, <2>4, <2>5
<1>11. CASE Show
  BY <1>1, <1>11 DEF Show
<1>12. CASE BlankFirstLine \/ Exit
  <2>1. /\ commandCode # "exit" /\ commandCode' = "exit"
        /\ type' = [n \in NodeIds |-> IF n \in reachable THEN "FREED" ELSE type[n]]
    BY <1>12 DEF BlankFirstLine, Exit, cleanupMemory
  <2>2. Alive /\ ~Alive'
    BY <2>1 DEF Alive
  <2>3. reachable = Allocated
    BY <2>2, ReachableNow DEF TreeInv
  <2>4. Allocated' = {}
    BY <2>1, <2>3 DEF Allocated
  <2> QED BY <1>0, <2>2, <2>4 DEF TreeInv
<1> QED BY <1>5, <1>6, <1>7, <1>8, <1>10, <1>11, <1>12 DEF Next

\* The tree never loses a node, never holds one twice and never has a cycle, and
\* nothing is left allocated at the end: what is allocated is what the walk from
\* the root reaches, whatever was created, moved into and removed.
THEOREM TreeCorrect == Spec => []TreeIntact
<1>1. TreeInv /\ [Next]_vars => TreeInv'
  <2>1. ASSUME TreeInv, UNCHANGED vars PROVE TreeInv'
    BY <2>1 DEF vars, tree, TreeInv, TreeTypes, Siblings, Allocated, Alive
  <2> QED BY <2>1, StepKeepsTree
<1> QED BY <1>1, InitTree, InvTreeIntact, PTL DEF Spec

-----------------------------------------------------------------------------
(* The path to the current directory.                                        *)

Words == Names \cup Specials
Places == NodeIds \cup {NULL}

\* One more name, for every node: the path to its parent, and its own name.
longer(u) == [n \in Places |-> IF n = Root \/ n = NULL THEN <<>>
                               ELSE Append(u[parent[n]], name[n])]

\* u[k] has for every node the last k names on the way to it.
paths(u) ==
    /\ u[0] = [n \in Places |-> <<>>]
    /\ \A k \in 1 .. MAX_PATH_DEPTH : u[k] = longer(u[k - 1])

LEMMA PathUnfolds ==
    ASSUME TreeTypes
    PROVE  \E u \in [0 .. MAX_PATH_DEPTH -> [Places -> Seq(Words)]] :
             paths(u) /\ namesUp = u[MAX_PATH_DEPTH][gCwd]
<1> DEFINE K == MAX_PATH_DEPTH
           S == [Places -> Seq(Words)]
           none == [n \in Places |-> <<>>]
           G == [p \in Nat \X S |-> longer(p[2])]
           body(g) == [k \in 0 .. K |->
                         [n \in NodeIds \cup {NULL} |->
                            IF n = Root \/ n = NULL \/ k = 0 THEN <<>>
                            ELSE Append(g[k - 1][parent[n]], name[n])]]
<1>1. K \in Nat /\ NULL \notin NodeIds
  BY VfsAssumption
<1>2. none \in S
  OBVIOUS
<1>3. ASSUME NEW v \in S PROVE longer(v) \in S
  <2> SUFFICES ASSUME NEW n \in NodeIds PROVE Append(v[parent[n]], name[n]) \in Seq(Words)
    BY DEF longer, Places
  <2>1. v[parent[n]] \in Seq(Words) /\ name[n] \in Words
    BY DEF TreeTypes, Places, Words
  <2> QED BY <2>1, AppendProperties
<1> HIDE DEF K
<1>4. /\ G \in [Nat \X S -> S]
      /\ \A n \in Nat, v \in S : G[<<n, v>>] = longer(v)
  <2> HIDE DEF S
  <2> QED BY <1>3
<1> HIDE DEF G
<1>5. PICK g : g \in upTo(S, none, G, K)
  <2> HIDE DEF S, none
  <2>1. upTo(S, none, G, K) # {}
    BY <1>1, <1>2, <1>4, SomeUpTo
  <2> QED BY <2>1
<1>6. /\ g \in [0 .. K -> S] /\ g[0] = none
      /\ \A i \in 0 .. K - 1 : g[i + 1] = G[<<i, g[i]>>]
  <2> HIDE DEF S, none
  <2> QED BY <1>5 DEF upTo
<1>7. \A k \in 1 .. K : g[k] = longer(g[k - 1])
  <2> SUFFICES ASSUME NEW k \in 1 .. K PROVE g[k] = longer(g[k - 1])
    OBVIOUS
  <2>1. k - 1 \in 0 .. K - 1 /\ (k - 1) + 1 = k /\ k - 1 \in Nat /\ k - 1 \in 0 .. K
    BY <1>1
  <2> HIDE DEF S
  <2>2. g[k - 1] \in S
    BY <1>6, <2>1
  <2>3. g[k] = G[<<k - 1, g[k - 1]>>]
    BY <1>6, <2>1
  <2> QED BY <1>4, <2>1, <2>2, <2>3
<1>8. g = body(g)
  <2>1. ASSUME NEW k \in 0 .. K
        PROVE  g[k] = [n \in NodeIds \cup {NULL} |->
                          IF n = Root \/ n = NULL \/ k = 0 THEN <<>>
                          ELSE Append(g[k - 1][parent[n]], name[n])]
    <3>1. k = 0 \/ k \in 1 .. K
      BY <1>1
    <3>2. CASE k = 0
      BY <1>6, <3>2 DEF Places
    <3>3. CASE k \in 1 .. K
      <4>1. k # 0 /\ g[k] = longer(g[k - 1])
        BY <1>1, <1>7, <3>3
      <4> QED BY <4>1 DEF longer, Places
    <3> QED BY <3>1, <3>2, <3>3
  <2>2. g = [k \in 0 .. K |-> g[k]]
    BY <1>6
  <2> QED BY <2>1, <2>2
<1> DEFINE f == CHOOSE h : h = body(h)
<1>9. f = body(f)
  <2> HIDE DEF body
  <2> QED BY <1>8
<1>10. namesUp = f[K][gCwd]
  BY DEF namesUp, K
<1> HIDE DEF f
<1>11. \A k \in 0 .. K :
         f[k] = [n \in NodeIds \cup {NULL} |->
                    IF n = Root \/ n = NULL \/ k = 0 THEN <<>>
                    ELSE Append(f[k - 1][parent[n]], name[n])]
  BY <1>9
<1>12. f[0] = none
  <2>1. 0 \in 0 .. K
    BY <1>1
  <2> QED BY <1>11, <2>1 DEF Places
<1>13. ASSUME NEW k \in 1 .. K PROVE f[k] = longer(f[k - 1])
  <2>1. k \in 0 .. K /\ k # 0
    BY <1>1
  <2> QED BY <1>11, <2>1 DEF longer, Places
<1>14. \A k \in 0 .. K : f[k] \in S
  <2> DEFINE T == {k \in Nat : k <= K => f[k] \in S}
  <2>1. 0 \in T
    BY <1>2, <1>12
  <2>2. ASSUME NEW k \in Nat, k \in T PROVE k + 1 \in T
    <3>1. SUFFICES ASSUME k + 1 <= K PROVE f[k + 1] \in S
      OBVIOUS
    <3>2. k + 1 \in 1 .. K /\ (k + 1) - 1 = k /\ f[k] \in S
      BY <1>1, <2>2, <3>1
    <3>3. f[k + 1] = longer(f[k])
      BY <1>13, <3>2
    <3> HIDE DEF S
    <3> QED BY <1>3, <3>2, <3>3
  <2> HIDE DEF T
  <2>3. Nat \subseteq T
    BY <2>1, <2>2, InductiveSet
  <2> QED BY <1>1, <2>3 DEF T
<1>15. f = [k \in 0 .. K |-> f[k]]
  BY <1>9, <1>11
<1>16. f \in [0 .. K -> S]
  BY <1>14, <1>15
<1>17. paths(f)
  BY <1>12, <1>13 DEF paths, K
<1> QED BY <1>10, <1>16, <1>17 DEF K

\* Where a directory's first entry of a name leads, if there is one.
enter(d, w) ==
    LET hits == {i \in DOMAIN children[d] : name[children[d][i]] = w}
    IN  IF d = NULL \/ hits = {} THEN NULL ELSE children[d][Min(hits)]

\* a[k] is where the first k names of a path lead.
leads(a, path) ==
    /\ a[0] = Root
    /\ \A k \in 1 .. Len(path) : a[k] = enter(a[k - 1], path[k])

LEMMA ResolveUnfolds ==
    ASSUME TreeTypes, NEW path \in Seq(Words)
    PROVE  \E a \in [0 .. Len(path) -> Places] :
             leads(a, path) /\ resolve(path) = a[Len(path)]
<1> DEFINE K == Len(path)
           G == [p \in Nat \X Places |-> enter(p[2], path[p[1] + 1])]
           body(g) ==
             [k \in 0 .. K |->
                IF k = 0 THEN Root
                ELSE LET c    == children[g[k - 1]]
                         hits == {i \in DOMAIN c : name[c[i]] = path[k]}
                     IN  IF g[k - 1] = NULL \/ hits = {} THEN NULL ELSE c[Min(hits)]]
<1>1. K \in Nat /\ Root \in Places /\ NULL \notin NodeIds
  BY VfsAssumption, LenProperties DEF Places
<1>2. ASSUME NEW d \in Places, NEW w PROVE enter(d, w) \in Places
  <2> DEFINE c == children[d]
             hits == {i \in DOMAIN c : name[c[i]] = w}
  <2>1. SUFFICES ASSUME d \in NodeIds, hits # {} PROVE c[Min(hits)] \in NodeIds
    BY DEF enter, Places
  <2>2. c \in Seq(NodeIds) /\ DOMAIN c = 1 .. Len(c)
    BY <2>1, LenProperties DEF TreeTypes
  <2>3. hits \subseteq Nat
    BY <2>2
  <2>4. \E x \in hits : \A y \in hits : x <= y
    <3> HIDE DEF hits
    <3> QED BY <2>1, <2>3, LeastNat
  <2>5. Min(hits) \in hits
    <3> HIDE DEF hits
    <3> QED BY <2>4 DEF Min
  <2>6. Min(hits) \in 1 .. Len(c)
    BY <2>2, <2>5
  <2> HIDE DEF hits, c
  <2> QED BY <2>2, <2>6, ElementOfSeq
<1> HIDE DEF K
<1>3. /\ G \in [Nat \X Places -> Places]
      /\ \A n \in Nat, d \in Places : G[<<n, d>>] = enter(d, path[n + 1])
  BY <1>2
<1> HIDE DEF G
<1>4. PICK g : g \in upTo(Places, Root, G, K)
  <2>1. upTo(Places, Root, G, K) # {}
    BY <1>1, <1>3, SomeUpTo
  <2> QED BY <2>1
<1>5. /\ g \in [0 .. K -> Places] /\ g[0] = Root
      /\ \A i \in 0 .. K - 1 : g[i + 1] = G[<<i, g[i]>>]
  BY <1>4 DEF upTo
<1>6. \A k \in 1 .. K : g[k] = enter(g[k - 1], path[k])
  <2> SUFFICES ASSUME NEW k \in 1 .. K PROVE g[k] = enter(g[k - 1], path[k])
    OBVIOUS
  <2>1. k - 1 \in 0 .. K - 1 /\ (k - 1) + 1 = k /\ k - 1 \in Nat /\ k - 1 \in 0 .. K
    BY <1>1
  <2>2. g[k - 1] \in Places
    BY <1>5, <2>1
  <2>3. g[k] = G[<<k - 1, g[k - 1]>>]
    BY <1>5, <2>1
  <2> QED BY <1>3, <2>1, <2>2, <2>3
<1>7. g = body(g)
  <2>1. ASSUME NEW k \in 0 .. K PROVE g[k] = body(g)[k]
    <3>1. k = 0 \/ k \in 1 .. K
      BY <1>1
    <3>2. CASE k = 0
      BY <1>5, <3>2
    <3>3. CASE k \in 1 .. K
      <4>1. k # 0 /\ g[k] = enter(g[k - 1], path[k])
        BY <1>1, <1>6, <3>3
      <4> QED BY <4>1 DEF enter
    <3> QED BY <3>1, <3>2, <3>3
  <2>2. g = [k \in 0 .. K |-> g[k]] /\ body(g) = [k \in 0 .. K |-> body(g)[k]]
    BY <1>5
  <2> HIDE DEF body
  <2> QED BY <2>1, <2>2
<1> DEFINE f == CHOOSE h : h = body(h)
<1>8. f = body(f)
  <2> HIDE DEF body
  <2> QED BY <1>7
<1>9. resolve(path) = f[K]
  BY DEF resolve, K
<1> HIDE DEF f
<1>10. \A k \in 0 .. K : f[k] = body(f)[k]
  <2> HIDE DEF body
  <2> QED BY <1>8
<1>11. f[0] = Root
  <2>1. 0 \in 0 .. K
    BY <1>1
  <2> QED BY <1>10, <2>1
<1>12. ASSUME NEW k \in 1 .. K PROVE f[k] = enter(f[k - 1], path[k])
  <2>1. k \in 0 .. K /\ k # 0
    BY <1>1
  <2> QED BY <1>10, <2>1 DEF enter
<1>13. \A k \in 0 .. K : f[k] \in Places
  <2> DEFINE T == {k \in Nat : k <= K => f[k] \in Places}
  <2>1. 0 \in T
    BY <1>1, <1>11
  <2>2. ASSUME NEW k \in Nat, k \in T PROVE k + 1 \in T
    <3>1. SUFFICES ASSUME k + 1 <= K PROVE f[k + 1] \in Places
      OBVIOUS
    <3>2. k + 1 \in 1 .. K /\ (k + 1) - 1 = k /\ f[k] \in Places
      BY <1>1, <2>2, <3>1
    <3> QED BY <1>2, <1>12, <3>2
  <2> HIDE DEF T
  <2>3. Nat \subseteq T
    BY <2>1, <2>2, InductiveSet
  <2> QED BY <1>1, <2>3 DEF T
<1>14. f = [k \in 0 .. K |-> f[k]]
  <2>1. f = [k \in 0 .. K |-> body(f)[k]]
    BY <1>8
  <2> HIDE DEF body
  <2> QED BY <1>10, <2>1
<1>15. f \in [0 .. K -> Places]
  BY <1>13, <1>14
<1>16. leads(f, path)
  BY <1>11, <1>12 DEF leads, K
<1> QED BY <1>9, <1>15, <1>16 DEF K

\* The children that are the first with their name, given the names nm.
Firsts(c, nm) ==
    {x \in NodeIds : \E i \in DOMAIN c :
        c[i] = x /\ \A j \in DOMAIN c : j < i => nm[c[j]] # nm[x]}

\* The directory that the i-th one of a trail is in, and the last one.
above(s, i) == IF i = 1 THEN Root ELSE s[i - 1]
lastOf(s) == IF Len(s) = 0 THEN Root ELSE s[Len(s)]

\* The ways down from the root, by parents pa, lists ch and names nm, that enter
\* the first of its name each time.
Trails(pa, ch, nm) ==
    {s \in Seq(NodeIds) :
        \A i \in 1 .. Len(s) :
            /\ s[i] # Root /\ pa[s[i]] = above(s, i)
            /\ s[i] \in Firsts(ch[above(s, i)], nm)}

\* What the walk up from the end of a trail collects: the names on the trail, or
\* as many of them as the walk goes up.
LEMMA PathOfTrail ==
    ASSUME TreeTypes, NEW s \in Trails(parent, children, name), gCwd = lastOf(s),
           Len(namesUp) < MAX_PATH_DEPTH
    PROVE  /\ namesUp \in Seq(Words)
           /\ Len(namesUp) = Len(s)
           /\ \A i \in 1 .. Len(s) : namesUp[i] = name[s[i]]
<1> DEFINE M == MAX_PATH_DEPTH
           node(i) == IF i = 0 THEN Root ELSE s[i]
           near(v, k, i) == Len(v) = IF i <= k THEN i ELSE k
           same(v, k, i) == i <= k => \A j \in 1 .. i : v[j] = name[s[j]]
<1>1. PICK u \in [0 .. MAX_PATH_DEPTH -> [Places -> Seq(Words)]] :
        paths(u) /\ namesUp = u[MAX_PATH_DEPTH][gCwd]
  BY PathUnfolds
<1>2. /\ u \in [0 .. M -> [Places -> Seq(Words)]]
      /\ u[0] = [n \in Places |-> <<>>]
      /\ \A k \in 1 .. M : u[k] = longer(u[k - 1])
      /\ namesUp = u[M][gCwd]
  BY <1>1 DEF paths
<1>3. M \in Nat /\ NULL \notin NodeIds /\ Root \in NodeIds
  BY VfsAssumption
<1>4. /\ s \in Seq(NodeIds) /\ Len(s) \in Nat
      /\ \A i \in 1 .. Len(s) : s[i] \in NodeIds /\ s[i] # Root /\ parent[s[i]] = above(s, i)
  BY LenProperties, ElementOfSeq DEF Trails
<1> HIDE DEF M
<1>5. \A i \in 0 .. Len(s) : node(i) \in NodeIds /\ node(i) \in Places
  BY <1>3, <1>4 DEF Places
<1>6. ASSUME NEW i \in 1 .. Len(s)
      PROVE  /\ i - 1 \in 0 .. Len(s) /\ node(i) = s[i] /\ parent[node(i)] = node(i - 1)
             /\ node(i) # Root /\ node(i) # NULL
  <2>1. i - 1 \in 0 .. Len(s) /\ i # 0 /\ (i = 1 <=> i - 1 = 0)
    BY <1>4
  <2> QED BY <1>3, <1>4, <2>1 DEF above
<1>7. node(Len(s)) = gCwd
  BY DEF lastOf
<1> HIDE DEF node
<1> DEFINE T == {k \in Nat : k <= M => \A i \in 0 .. Len(s) :
                    near(u[k][node(i)], k, i) /\ same(u[k][node(i)], k, i)}
<1>8. 0 \in T
  <2> SUFFICES ASSUME NEW i \in 0 .. Len(s)
               PROVE  near(u[0][node(i)], 0, i) /\ same(u[0][node(i)], 0, i)
    OBVIOUS
  <2>1. u[0][node(i)] = <<>>
    BY <1>2, <1>5
  <2>2. i \in Nat /\ (i <= 0 => i = 0)
    BY <1>4
  <2> QED BY <2>1, <2>2
<1>9. ASSUME NEW k \in Nat, k \in T PROVE k + 1 \in T
  <2> SUFFICES ASSUME k + 1 <= M, NEW i \in 0 .. Len(s)
               PROVE  near(u[k + 1][node(i)], k + 1, i) /\ same(u[k + 1][node(i)], k + 1, i)
    OBVIOUS
  <2>1. k + 1 \in 1 .. M /\ (k + 1) - 1 = k /\ k \in 0 .. M /\ k <= M
    BY <1>3
  <2>2. u[k + 1] = longer(u[k])
    BY <1>2, <2>1
  <2>3. CASE i = 0
    <3>1. u[k + 1][node(i)] = <<>>
      BY <1>5, <2>2, <2>3 DEF longer, node
    <3> QED BY <2>3, <3>1
  <2>4. CASE i # 0
    <3>1. i \in 1 .. Len(s) /\ i - 1 \in Nat /\ (i <= k + 1 <=> i - 1 <= k) /\ i \in Nat
      BY <1>4, <2>4
    <3>2. u[k + 1][node(i)] = Append(u[k][node(i - 1)], name[s[i]])
      <4>1. /\ node(i) \in Places /\ node(i) # Root /\ node(i) # NULL
            /\ node(i) = s[i] /\ parent[node(i)] = node(i - 1)
        BY <1>5, <1>6, <3>1
      <4> QED BY <2>2, <4>1 DEF longer
    <3> DEFINE v == u[k][node(i - 1)]
               w == name[s[i]]
    <3>3. near(v, k, i - 1) /\ same(v, k, i - 1)
      <4> HIDE DEF near, same
      <4> QED BY <1>6, <1>9, <2>1, <3>1
    <3>4. v \in Seq(Words) /\ w \in Words
      <4>1. node(i - 1) \in Places /\ s[i] \in NodeIds
        BY <1>4, <1>5, <1>6, <3>1
      <4>2. u[k] \in [Places -> Seq(Words)]
        BY <1>2, <2>1
      <4>3. u[k][node(i - 1)] \in Seq(Words)
        BY <4>1, <4>2
      <4> QED BY <4>1, <4>3 DEF TreeTypes, Words
    <3> HIDE DEF v, w
    <3>5. /\ Len(Append(v, w)) = Len(v) + 1 /\ Append(v, w)[Len(v) + 1] = w
          /\ \A j \in 1 .. Len(v) : Append(v, w)[j] = v[j]
      BY <3>4, AppendProperties
    <3>6. near(Append(v, w), k + 1, i)
      BY <3>1, <3>3, <3>5
    <3>7. same(Append(v, w), k + 1, i)
      <4> SUFFICES ASSUME i <= k + 1, NEW j \in 1 .. i
                   PROVE  Append(v, w)[j] = name[s[j]]
        OBVIOUS
      <4>1. Len(v) = i - 1 /\ (\A m \in 1 .. i - 1 : v[m] = name[s[m]])
        BY <3>1, <3>3
      <4>2. CASE j = i
        <5>1. Len(v) + 1 = j
          BY <3>1, <4>1, <4>2
        <5> QED BY <3>5, <4>2, <5>1 DEF w
      <4>3. CASE j # i
        <5>1. j \in 1 .. i - 1
          BY <3>1, <4>3
        <5> QED BY <3>5, <4>1, <5>1
      <4> QED BY <4>2, <4>3
    <3> HIDE DEF near, same
    <3> QED BY <3>2, <3>6, <3>7 DEF v, w
  <2> QED BY <2>3, <2>4
<1> HIDE DEF T
<1>10. Nat \subseteq T
  BY <1>8, <1>9, InductiveSet
<1> DEFINE p == u[M][gCwd]
<1>11. near(p, M, Len(s)) /\ same(p, M, Len(s))
  <2>1. Len(s) \in 0 .. Len(s) /\ M <= M
    BY <1>3, <1>4
  <2> HIDE DEF near, same
  <2> QED BY <1>3, <1>7, <1>10, <2>1 DEF T
<1>12. p \in Seq(Words)
  <2>1. M \in 0 .. M /\ gCwd \in Places
    BY <1>3 DEF TreeTypes, Places
  <2> QED BY <1>2, <2>1
<1>13. Len(p) < M /\ namesUp = p
  BY <1>2 DEF M
<1> HIDE DEF p
<1>14. Len(s) <= M /\ Len(p) = Len(s)
  BY <1>3, <1>4, <1>11, <1>13
<1> QED BY <1>11, <1>12, <1>13, <1>14

\* Going down by the names of a trail leads to its end.
LEMMA TrailResolves ==
    ASSUME TreeTypes, NEW s \in Trails(parent, children, name),
           NEW path \in Seq(Words), Len(path) = Len(s),
           \A i \in 1 .. Len(s) : path[i] = name[s[i]]
    PROVE  resolve(path) = lastOf(s)
<1> DEFINE node(i) == IF i = 0 THEN Root ELSE s[i]
<1>1. PICK a \in [0 .. Len(path) -> Places] :
        leads(a, path) /\ resolve(path) = a[Len(path)]
  BY ResolveUnfolds
<1>2. /\ s \in Seq(NodeIds) /\ Len(s) \in Nat /\ Root \in NodeIds /\ NULL \notin NodeIds
      /\ \A i \in 1 .. Len(s) :
           s[i] \in NodeIds /\ s[i] \in Firsts(children[above(s, i)], name)
  BY VfsAssumption, LenProperties, ElementOfSeq DEF Trails
<1>3. a[0] = Root /\ \A k \in 1 .. Len(s) : a[k] = enter(a[k - 1], name[s[k]])
  BY <1>1 DEF leads
<1>4. ASSUME NEW i \in 1 .. Len(s)
      PROVE  enter(above(s, i), name[s[i]]) = s[i]
  <2> DEFINE d == above(s, i)
             c == children[d]
             hits == {j \in DOMAIN c : name[c[j]] = name[s[i]]}
  <2>1. d \in NodeIds
    BY <1>2 DEF above
  <2>2. c \in Seq(NodeIds) /\ DOMAIN c = 1 .. Len(c) /\ Len(c) \in Nat
    BY <2>1, LenProperties DEF TreeTypes
  <2>3. PICK m \in DOMAIN c : /\ c[m] = s[i]
                              /\ \A j \in DOMAIN c : j < m => name[c[j]] # name[s[i]]
    BY <1>2 DEF Firsts
  <2>4. m \in hits /\ \A j \in hits : m <= j
    BY <2>2, <2>3
  <2>5. Min(hits) = m
    <3>1. hits \subseteq Int
      BY <2>2
    <3>2. Min(hits) \in hits /\ \A j \in hits : Min(hits) <= j
      <4> HIDE DEF hits
      <4> QED BY <2>4 DEF Min
    <3>3. Min(hits) <= m /\ m <= Min(hits) /\ Min(hits) \in Int /\ m \in Int
      BY <2>4, <3>1, <3>2
    <3> QED BY <3>3
  <2>6. enter(d, name[s[i]]) = c[Min(hits)]
    <3>1. d # NULL /\ hits # {}
      BY <1>2, <2>1, <2>4
    <3> QED BY <3>1 DEF enter
  <2> QED BY <2>3, <2>5, <2>6
<1> DEFINE T == {k \in Nat : k <= Len(s) => a[k] = node(k)}
<1>5. 0 \in T
  BY <1>3
<1>6. ASSUME NEW k \in Nat, k \in T PROVE k + 1 \in T
  <2>1. SUFFICES ASSUME k + 1 <= Len(s) PROVE a[k + 1] = node(k + 1)
    OBVIOUS
  <2>2. k + 1 \in 1 .. Len(s) /\ (k + 1) - 1 = k /\ k + 1 # 0 /\ k <= Len(s)
        /\ (k + 1 = 1 <=> k = 0)
    BY <1>2, <2>1
  <2>3. a[k + 1] = enter(a[k], name[s[k + 1]])
    BY <1>3, <2>2
  <2>4. a[k] = above(s, k + 1)
    BY <1>6, <2>2 DEF above
  <2> QED BY <1>4, <2>2, <2>3, <2>4
<1> HIDE DEF T
<1>7. Nat \subseteq T
  BY <1>5, <1>6, InductiveSet
<1>8. a[Len(s)] = node(Len(s))
  BY <1>2, <1>7 DEF T
<1> QED BY <1>1, <1>8 DEF lastOf

\* The child that a name leads to is the first of that name.
LEMMA FindsFirst ==
    ASSUME TreeTypes, NEW a, findNodeInCwd(a) # NULL
    PROVE  findNodeInCwd(a) \in Firsts(children[gCwd], name)
<1> DEFINE c == children[gCwd]
           hits == {i \in DOMAIN c : /\ name[c[i]] = a
                                     /\ \A j \in DOMAIN c : j < i => name[c[j]] # a}
           k == CHOOSE i \in hits : TRUE
<1>1. findNodeInCwd(a) = c[k] /\ hits # {}
  BY DEF findNodeInCwd
<1>2. k \in hits
  <2> HIDE DEF hits
  <2> QED BY <1>1
<1>3. k \in DOMAIN c /\ name[c[k]] = a /\ \A j \in DOMAIN c : j < k => name[c[j]] # a
  <2> HIDE DEF k
  <2> QED BY <1>2
<1>4. c[k] \in NodeIds
  <2> HIDE DEF k
  <2> QED BY <1>3, ElementOfSeq, LenProperties DEF TreeTypes
<1> HIDE DEF k
<1> QED BY <1>1, <1>3, <1>4 DEF Firsts

\* Who is first stays so when no name changes; ...
LEMMA FirstsSame ==
    ASSUME NEW c \in Seq(NodeIds), NEW nm, NEW new, \A x \in Range(c) : new[x] = nm[x],
           NEW x \in Firsts(c, nm)
    PROVE  x \in Firsts(c, new)
<1>1. PICK i \in DOMAIN c : c[i] = x /\ \A j \in DOMAIN c : j < i => nm[c[j]] # nm[x]
  BY DEF Firsts
<1>2. \A j \in DOMAIN c : new[c[j]] = nm[c[j]]
  BY DEF Range
<1>3. x \in NodeIds
  BY DEF Firsts
<1> QED BY <1>1, <1>2, <1>3 DEF Firsts

\* ... when a child comes last; ...
LEMMA FirstsAppend ==
    ASSUME NEW c \in Seq(NodeIds), NEW n \in NodeIds, NEW nm, NEW new,
           \A x \in Range(c) : new[x] = nm[x], NEW x \in Firsts(c, nm)
    PROVE  x \in Firsts(Append(c, n), new)
<1>1. PICK i \in DOMAIN c : c[i] = x /\ \A j \in DOMAIN c : j < i => nm[c[j]] # nm[x]
  BY DEF Firsts
<1>2. /\ \A j \in 1 .. Len(c) : Append(c, n)[j] = c[j]
      /\ Len(c) \in Nat /\ DOMAIN c = 1 .. Len(c)
      /\ DOMAIN Append(c, n) = 1 .. Len(c) + 1
  BY AppendProperties, LenProperties
<1>3. i \in DOMAIN Append(c, n) /\ Append(c, n)[i] = x
  BY <1>1, <1>2
<1>4. ASSUME NEW j \in DOMAIN Append(c, n), j < i
      PROVE  new[Append(c, n)[j]] # new[x]
  <2>1. j \in DOMAIN c /\ Append(c, n)[j] = c[j]
    BY <1>1, <1>2, <1>4
  <2>2. c[j] \in Range(c) /\ x \in Range(c)
    BY <1>1, <2>1 DEF Range
  <2>3. nm[c[j]] # nm[x]
    BY <1>1, <1>4, <2>1
  <2> QED BY <2>1, <2>2, <2>3
<1>5. x \in NodeIds
  BY DEF Firsts
<1> QED BY <1>3, <1>4, <1>5 DEF Firsts

\* ... and when another one is taken out.
LEMMA FirstsCut ==
    ASSUME NEW c \in Seq(NodeIds), NoRepeats(c), NEW k \in 1 .. Len(c), NEW nm, NEW new,
           \A x \in Range(c) : x # c[k] => new[x] = nm[x],
           NEW x \in Firsts(c, nm), x # c[k]
    PROVE  x \in Firsts(RemoveAt(c, k), new)
<1> DEFINE r == RemoveAt(c, k)
<1>1. PICK i \in DOMAIN c : c[i] = x /\ \A j \in DOMAIN c : j < i => nm[c[j]] # nm[x]
  BY DEF Firsts
<1>2. /\ Len(c) \in Nat /\ DOMAIN c = 1 .. Len(c) /\ DOMAIN r = 1 .. Len(c) - 1
      /\ \A j \in 1 .. Len(c) - 1 : r[j] = IF j < k THEN c[j] ELSE c[j + 1]
  BY RemoveAtShifts, LenProperties
<1> HIDE DEF r
<1> DEFINE was(j) == IF j < k THEN j ELSE j + 1
<1>3. i # k
  BY <1>1
<1>4. PICK m \in DOMAIN r : was(m) = i
  <2>1. CASE i < k
    BY <1>1, <1>2, <2>1
  <2>2. CASE ~(i < k)
    <3>1. i - 1 \in DOMAIN r /\ ~(i - 1 < k) /\ (i - 1) + 1 = i
      BY <1>1, <1>2, <1>3, <2>2
    <3> QED BY <3>1
  <2> QED BY <2>1, <2>2
<1>5. ASSUME NEW j \in DOMAIN r PROVE was(j) \in DOMAIN c /\ was(j) # k /\ r[j] = c[was(j)]
  BY <1>2
<1>6. r[m] = x
  BY <1>1, <1>4, <1>5
<1>7. ASSUME NEW j \in DOMAIN r, j < m PROVE new[r[j]] # new[x]
  <2>1. was(j) < i
    BY <1>2, <1>4, <1>7
  <2>2. was(j) \in DOMAIN c /\ was(j) # k /\ r[j] = c[was(j)]
    BY <1>5
  <2> HIDE DEF was
  <2>3. nm[c[was(j)]] # nm[x]
    BY <1>1, <2>1, <2>2
  <2>4. c[was(j)] \in Range(c) /\ x \in Range(c) /\ c[was(j)] # c[k]
    <3>1. k \in DOMAIN c
      BY <1>2
    <3> QED BY <1>1, <2>2, <3>1 DEF Range, NoRepeats
  <2> QED BY <2>2, <2>3, <2>4
<1>8. x \in NodeIds
  BY DEF Firsts
<1> QED BY <1>6, <1>7, <1>8 DEF Firsts, r

\* The current directory is the end of a trail: whoever is in a directory came
\* there by the first of its name, all the way down.
PathInv ==
    /\ TreeInv
    /\ Alive => /\ parent[Root] = NULL
                /\ \E s \in Trails(parent, children, name) : gCwd = lastOf(s)

LEMMA InvPathLeadsBack == PathInv => PathLeadsBack
<1> DEFINE path == buildCurrentPath
<1> SUFFICES ASSUME PathInv, Alive, ~path.cut, Len(path.names) < MAX_PATH_DEPTH
             PROVE  resolve(path.names) = gCwd
  BY DEF PathLeadsBack
<1>1. TreeTypes
  BY DEF PathInv, TreeInv
<1>2. PICK s \in Trails(parent, children, name) : gCwd = lastOf(s)
  BY DEF PathInv
<1>3. path.names = namesUp
  BY DEF buildCurrentPath
<1> HIDE DEF path
<1>4. /\ namesUp \in Seq(Words) /\ Len(namesUp) = Len(s)
      /\ \A i \in 1 .. Len(s) : namesUp[i] = name[s[i]]
  BY <1>1, <1>2, <1>3, PathOfTrail
<1> QED BY <1>1, <1>2, <1>3, <1>4, TrailResolves

LEMMA InitPath == Init => PathInv
<1> SUFFICES ASSUME Init PROVE PathInv
  OBVIOUS
<1>1. <<>> \in Trails(parent, children, name)
  BY DEF Trails
<1>2. parent[Root] = NULL /\ gCwd = Root
  BY VfsAssumption DEF Init, initializeVfs
<1>3. gCwd = lastOf(<<>>)
  BY <1>2 DEF lastOf
<1> QED BY <1>1, <1>2, <1>3, InitTree DEF PathInv

\* What a trail runs through.
LEMMA TrailInside ==
    ASSUME TreeInv, Alive, NEW s \in Trails(parent, children, name)
    PROVE  /\ s \in Seq(NodeIds) /\ Len(s) \in Nat
           /\ \A i \in 1 .. Len(s) :
                /\ s[i] \in Allocated \ {Root} /\ s[i] \in NodeIds
                /\ above(s, i) \in Allocated /\ above(s, i) \in NodeIds
                /\ s[i] \in Range(children[above(s, i)])
<1>1. /\ s \in Seq(NodeIds) /\ Len(s) \in Nat /\ \A i \in 1 .. Len(s) : s[i] \in NodeIds
      /\ \A i \in 1 .. Len(s) : /\ s[i] # Root /\ s[i] \in Firsts(children[above(s, i)], name)
  BY LenProperties, ElementOfSeq DEF Trails
<1>2. Root \in NodeIds /\ Root \in Allocated /\ Siblings
  BY VfsAssumption DEF TreeInv, Allocated
<1>3. ASSUME NEW i \in 1 .. Len(s) PROVE above(s, i) \in NodeIds
  BY <1>1, <1>2 DEF above
<1>4. ASSUME NEW i \in 1 .. Len(s) PROVE s[i] \in Range(children[above(s, i)])
  BY <1>1 DEF Firsts, Range
<1>5. ASSUME NEW i \in 1 .. Len(s) PROVE s[i] \in Allocated \ {Root}
  BY <1>2, <1>3, <1>4 DEF Siblings
<1>6. ASSUME NEW i \in 1 .. Len(s) PROVE above(s, i) \in Allocated
  <2>1. i = 1 \/ i - 1 \in 1 .. Len(s)
    BY <1>1
  <2> QED BY <1>2, <1>5, <2>1 DEF above
<1> QED BY <1>1, <1>3, <1>4, <1>5, <1>6

\* A trail stays one when its nodes keep their parents and stay first.
LEMMA TrailStays ==
    ASSUME NEW pa, NEW ch, NEW nm, NEW pa2, NEW ch2, NEW nm2, NEW s \in Trails(pa, ch, nm),
           \A i \in 1 .. Len(s) :
              /\ pa2[s[i]] = pa[s[i]]
              /\ s[i] \in Firsts(ch2[above(s, i)], nm2)
    PROVE  s \in Trails(pa2, ch2, nm2)
BY DEF Trails

\* A trail and a first child of its end.
LEMMA TrailDown ==
    ASSUME TreeInv, Alive, NEW s \in Trails(parent, children, name), gCwd = lastOf(s),
           NEW x \in Firsts(children[gCwd], name)
    PROVE  \E r \in Trails(parent, children, name) : x = lastOf(r)
<1> DEFINE r == Append(s, x)
<1>1. x \in NodeIds /\ gCwd \in NodeIds /\ x \in Range(children[gCwd])
  BY DEF Firsts, Range, TreeInv, TreeTypes
<1>2. x # Root /\ parent[x] = gCwd
  BY <1>1 DEF TreeInv, Siblings
<1>3. /\ s \in Seq(NodeIds) /\ Len(s) \in Nat /\ r \in Seq(NodeIds)
      /\ Len(r) = Len(s) + 1 /\ r[Len(s) + 1] = x
      /\ \A i \in 1 .. Len(s) : r[i] = s[i]
  BY <1>1, AppendProperties, LenProperties DEF Trails
<1> HIDE DEF r
<1>4. ASSUME NEW i \in 1 .. Len(s) PROVE above(r, i) = above(s, i) /\ r[i] = s[i]
  <2>1. i = 1 \/ i - 1 \in 1 .. Len(s)
    BY <1>3
  <2> QED BY <1>3, <2>1 DEF above
<1>5. above(r, Len(s) + 1) = gCwd
  <2>1. CASE Len(s) = 0
    BY <2>1 DEF above, lastOf
  <2>2. CASE Len(s) # 0
    <3>1. Len(s) + 1 # 1 /\ (Len(s) + 1) - 1 = Len(s) /\ Len(s) \in 1 .. Len(s)
      BY <1>3, <2>2
    <3> QED BY <1>3, <2>2, <3>1 DEF above, lastOf
  <2> QED BY <2>1, <2>2
<1>6. ASSUME NEW i \in 1 .. Len(r)
      PROVE  /\ r[i] # Root /\ parent[r[i]] = above(r, i)
             /\ r[i] \in Firsts(children[above(r, i)], name)
  <2>1. i \in 1 .. Len(s) \/ i = Len(s) + 1
    BY <1>3
  <2>2. CASE i \in 1 .. Len(s)
    <3>1. /\ s[i] # Root /\ parent[s[i]] = above(s, i)
          /\ s[i] \in Firsts(children[above(s, i)], name)
      BY <2>2 DEF Trails
    <3> QED BY <1>4, <2>2, <3>1
  <2>3. CASE i = Len(s) + 1
    BY <1>2, <1>3, <1>5, <2>3
  <2> QED BY <2>1, <2>2, <2>3
<1>7. r \in Trails(parent, children, name)
  BY <1>3, <1>6 DEF Trails
<1>8. lastOf(r) = x
  BY <1>3 DEF lastOf
<1> QED BY <1>7, <1>8

\* A trail without its end.
LEMMA TrailUp ==
    ASSUME TreeInv, Alive, NEW s \in Trails(parent, children, name), gCwd = lastOf(s),
           parent[Root] = NULL, parent[gCwd] # NULL
    PROVE  \E r \in Trails(parent, children, name) : parent[gCwd] = lastOf(r)
<1>1. s \in Seq(NodeIds) /\ Len(s) \in Nat
  BY LenProperties DEF Trails
<1>2. Len(s) # 0
  BY DEF lastOf
<1> DEFINE n == Len(s) - 1
           r == SubSeq(s, 1, n)
<1>3. n \in Nat /\ n \in 0 .. Len(s) /\ n + 1 \in 1 .. Len(s) /\ n + 1 = Len(s)
  BY <1>1, <1>2
<1>4. r \in Seq(NodeIds) /\ Len(r) = n /\ \A i \in 1 .. n : r[i] = s[i]
  <2> HIDE DEF n
  <2> QED BY <1>1, <1>3, FirstOf
<1> HIDE DEF r, n
<1>5. ASSUME NEW i \in 1 .. n
      PROVE  above(r, i) = above(s, i) /\ r[i] = s[i] /\ i \in 1 .. Len(s)
  <2>1. (i = 1 \/ i - 1 \in 1 .. n) /\ i \in 1 .. Len(s)
    BY <1>3
  <2> QED BY <1>4, <2>1 DEF above
<1>6. r \in Trails(parent, children, name)
  <2> SUFFICES ASSUME NEW i \in 1 .. Len(r)
               PROVE  /\ r[i] # Root /\ parent[r[i]] = above(r, i)
                      /\ r[i] \in Firsts(children[above(r, i)], name)
    BY <1>4 DEF Trails
  <2>1. i \in 1 .. n /\ i \in 1 .. Len(s)
    BY <1>4, <1>5
  <2>2. /\ s[i] # Root /\ parent[s[i]] = above(s, i)
        /\ s[i] \in Firsts(children[above(s, i)], name)
    BY <2>1 DEF Trails
  <2> QED BY <1>5, <2>1, <2>2
<1>7. parent[gCwd] = above(s, n + 1)
  BY <1>2, <1>3 DEF Trails, lastOf
<1>8. above(s, n + 1) = lastOf(r)
  <2>1. CASE n = 0
    BY <1>4, <2>1 DEF above, lastOf
  <2>2. CASE n # 0
    <3>1. n + 1 # 1 /\ (n + 1) - 1 = n /\ n \in 1 .. n
      BY <1>3, <2>2
    <3> QED BY <1>4, <2>2, <3>1 DEF above, lastOf
  <2> QED BY <2>1, <2>2
<1> QED BY <1>6, <1>7, <1>8

\* A new node is on no trail, and comes last in its directory.
LEMMA CreateKeepsTrail ==
    ASSUME TreeInv, Alive, NEW a, NEW t, NEW n \in NodeIds, newNode(n, a, t),
           NEW s \in Trails(parent, children, name)
    PROVE  s \in Trails(parent', children', name') /\ parent'[Root] = parent[Root]
<1>1. /\ n \notin Allocated /\ Root \in Allocated /\ Root \in NodeIds
      /\ gCwd \in Allocated /\ gCwd \in NodeIds
  BY VfsAssumption DEF newNode, Allocated, TreeInv, TreeTypes
<1>2. /\ name \in [NodeIds -> Names \cup Specials]
      /\ parent \in [NodeIds -> NodeIds \cup {NULL}]
      /\ children \in [NodeIds -> Seq(NodeIds)]
  BY DEF TreeInv, TreeTypes
<1>3. /\ name' = [name EXCEPT ![n] = Truncated[a]]
      /\ parent' = [parent EXCEPT ![n] = gCwd]
      /\ children' = [children EXCEPT ![n] = <<>>, ![gCwd] = Append(@, n)]
  BY DEF newNode
<1>4. \A m \in NodeIds : m # n => name'[m] = name[m] /\ parent'[m] = parent[m]
  BY <1>2, <1>3
<1>5. ASSUME NEW d \in NodeIds, d # n
      PROVE  children'[d] = IF d = gCwd THEN Append(children[d], n) ELSE children[d]
  BY <1>1, <1>2, <1>3, <1>5
<1>6. \A i \in 1 .. Len(s) :
        /\ s[i] \in Allocated \ {Root} /\ s[i] \in NodeIds
        /\ above(s, i) \in Allocated /\ above(s, i) \in NodeIds
        /\ s[i] \in Range(children[above(s, i)])
  BY TrailInside
<1>7. ASSUME NEW i \in 1 .. Len(s)
      PROVE  s[i] \in Firsts(children'[above(s, i)], name')
  <2> DEFINE d == above(s, i)
             x == s[i]
  <2>1. d \in NodeIds /\ d \in Allocated /\ d # n /\ x \in Firsts(children[d], name)
    BY <1>1, <1>6 DEF Trails
  <2>2. children[d] \in Seq(NodeIds)
    BY <1>2, <2>1
  <2>3. \A y \in Range(children[d]) : y \in NodeIds /\ y # n
    BY <1>1, <2>1 DEF TreeInv, Siblings, Allocated
  <2>4. \A y \in Range(children[d]) : name'[y] = name[y]
    BY <1>4, <2>3
  <2> HIDE DEF d, x
  <2>5. CASE d = gCwd
    <3>1. x \in Firsts(Append(children[d], n), name')
      BY <2>1, <2>2, <2>4, FirstsAppend
    <3> QED BY <1>5, <2>1, <2>5, <3>1 DEF d, x
  <2>6. CASE d # gCwd
    <3>1. children'[d] = children[d]
      BY <1>5, <2>1, <2>6
    <3>2. x \in Firsts(children[d], name')
      BY <2>1, <2>2, <2>4, FirstsSame
    <3> QED BY <3>1, <3>2 DEF d, x
  <2> QED BY <2>5, <2>6
<1>8. \A i \in 1 .. Len(s) : parent'[s[i]] = parent[s[i]]
  BY <1>1, <1>4, <1>6
<1>9. s \in Trails(parent', children', name')
  BY <1>7, <1>8, TrailStays
<1>10. parent'[Root] = parent[Root]
  BY <1>1, <1>4
<1> QED BY <1>9, <1>10

\* A node without children that is not the current directory is on no trail to it.
LEMMA FreeKeepsTrail ==
    ASSUME TreeInv, Alive, NEW n \in NodeIds, n \in Range(children[gCwd]), n # gCwd,
           \A x \in NodeIds : x \notin Range(children[n]), freeNode(n),
           NEW s \in Trails(parent, children, name), gCwd = lastOf(s)
    PROVE  s \in Trails(parent', children', name') /\ parent'[Root] = parent[Root]
<1>1. TreeTypes /\ Siblings /\ gCwd \in NodeIds /\ Root \in NodeIds
  BY VfsAssumption DEF TreeInv, TreeTypes
<1>2. /\ name \in [NodeIds -> Names \cup Specials]
      /\ parent \in [NodeIds -> NodeIds \cup {NULL}]
      /\ children \in [NodeIds -> Seq(NodeIds)]
  BY <1>1 DEF TreeTypes
<1>3. n # Root /\ n \in Allocated
  BY <1>1 DEF Siblings
<1>4. \A m \in NodeIds : m # n => name'[m] = name[m] /\ parent'[m] = parent[m]
  BY <1>2 DEF freeNode
<1>5. PICK k \in 1 .. Len(children[gCwd]) :
        children[gCwd][k] = n /\ children'[gCwd] = RemoveAt(children[gCwd], k)
  BY <1>1, FreeUnlinks
<1>6. \A d \in NodeIds : d # n /\ d # gCwd => children'[d] = children[d]
  BY <1>1, FreeUnlinks
<1>7. /\ Len(s) \in Nat
      /\ \A i \in 1 .. Len(s) :
           /\ s[i] \in NodeIds /\ above(s, i) \in NodeIds
           /\ s[i] \in Range(children[above(s, i)])
  BY TrailInside
<1>8. ASSUME NEW i \in 1 .. Len(s) PROVE above(s, i) # n
  BY <1>7
<1>9. ASSUME NEW i \in 1 .. Len(s) PROVE s[i] # n
  <2>1. CASE i = Len(s)
    <3>1. Len(s) # 0
      BY <1>7
    <3> QED BY <2>1, <3>1 DEF lastOf
  <2>2. CASE i # Len(s)
    <3>1. i + 1 \in 1 .. Len(s) /\ i + 1 # 1 /\ (i + 1) - 1 = i
      BY <1>7, <2>2
    <3>2. above(s, i + 1) = s[i]
      BY <3>1 DEF above
    <3> QED BY <1>8, <3>1, <3>2
  <2> QED BY <2>1, <2>2
<1>10. ASSUME NEW i \in 1 .. Len(s)
       PROVE  s[i] \in Firsts(children'[above(s, i)], name')
  <2> DEFINE d == above(s, i)
             x == s[i]
  <2>1. d \in NodeIds /\ d # n /\ x # n /\ x \in Firsts(children[d], name)
    BY <1>7, <1>8, <1>9 DEF Trails
  <2>2. children[d] \in Seq(NodeIds) /\ NoRepeats(children[d])
    BY <1>1, <1>2, <2>1 DEF Siblings
  <2>3. \A y \in Range(children[d]) : y \in NodeIds /\ parent[y] = d
    BY <1>1, <2>1 DEF Siblings, Allocated
  <2>4. \A y \in Range(children[d]) : y # n => name'[y] = name[y]
    BY <1>4, <2>3
  <2> HIDE DEF d, x
  <2>5. CASE d = gCwd
    <3> DEFINE c == children[gCwd]
    <3>1. c \in Seq(NodeIds) /\ NoRepeats(c) /\ k \in 1 .. Len(c) /\ c[k] = n
          /\ x \in Firsts(c, name) /\ \A y \in Range(c) : y # c[k] => name'[y] = name[y]
      BY <1>5, <2>1, <2>2, <2>4, <2>5
    <3> HIDE DEF c
    <3>2. x \in Firsts(RemoveAt(c, k), name')
      BY <2>1, <3>1, FirstsCut
    <3> QED BY <1>5, <2>5, <3>2 DEF c, d, x
  <2>6. CASE d # gCwd
    <3>1. children'[d] = children[d]
      BY <1>6, <2>1, <2>6
    <3>2. parent[n] = gCwd
      BY <1>1 DEF Siblings
    <3>3. \A y \in Range(children[d]) : name'[y] = name[y]
      BY <2>3, <2>4, <2>6, <3>2
    <3>4. x \in Firsts(children[d], name')
      BY <2>1, <2>2, <3>3, FirstsSame
    <3> QED BY <3>1, <3>4 DEF d, x
  <2> QED BY <2>5, <2>6
<1>11. \A i \in 1 .. Len(s) : parent'[s[i]] = parent[s[i]]
  BY <1>4, <1>7, <1>9
<1>12. s \in Trails(parent', children', name')
  BY <1>10, <1>11, TrailStays
<1>13. parent'[Root] = parent[Root]
  BY <1>1, <1>3, <1>4
<1> QED BY <1>12, <1>13

LEMMA StepKeepsPath ==
    ASSUME PathInv, Next
    PROVE  PathInv'
<1>0. TreeInv /\ TreeInv'
  BY StepKeepsTree DEF PathInv
<1>1. CASE ~Alive'
  BY <1>0, <1>1 DEF PathInv
<1>2. SUFFICES ASSUME Alive, Alive'
               PROVE  /\ parent'[Root] = NULL
                      /\ \E s \in Trails(parent', children', name') : gCwd' = lastOf(s)
  BY <1>0, <1>1 DEF PathInv, Next, Show, callMkdir, callCreate, callCd, callRead,
     callWrite, callDelete, callRmdir, Running, BlankFirstLine, Exit, Alive
<1> DEFINE Goal == /\ parent'[Root] = NULL
                   /\ \E s \in Trails(parent', children', name') : gCwd' = lastOf(s)
<1>3. TreeTypes /\ parent[Root] = NULL /\ NULL \notin NodeIds
  BY <1>2, VfsAssumption DEF PathInv, TreeInv
<1>4. PICK s \in Trails(parent, children, name) : gCwd = lastOf(s)
  BY <1>2 DEF PathInv
<1>5. ASSUME UNCHANGED tree, \E r \in Trails(parent, children, name) : gCwd' = lastOf(r)
      PROVE  Goal
  BY <1>3, <1>5 DEF tree
<1>6. ASSUME UNCHANGED <<tree, gCwd>> PROVE Goal
  BY <1>4, <1>5, <1>6
<1>7. ASSUME Refuse PROVE Goal
  BY <1>6, <1>7 DEF Refuse
<1>8. ASSUME NEW n \in NodeIds, NEW a, NEW t, newNode(n, a, t) PROVE Goal
  <2>1. s \in Trails(parent', children', name') /\ parent'[Root] = parent[Root]
    BY <1>0, <1>2, <1>8, CreateKeepsTrail
  <2>2. gCwd' = gCwd
    BY <1>8 DEF newNode
  <2> QED BY <1>3, <1>4, <2>1, <2>2
<1>9. ASSUME NEW a \in Arguments, callMkdir(a) \/ callCreate(a) PROVE Goal
  BY <1>7, <1>8, <1>9 DEF callMkdir, callCreate
<1>10. ASSUME NEW a \in Arguments, callCd(a) PROVE Goal
  <2> DEFINE target == CASE a = "/"  -> Root
                       [] a = ".." -> parent[gCwd]
                       [] OTHER    -> findNodeInCwd(a)
  <2>1. CASE Refuse
    BY <1>7, <2>1
  <2>2. CASE target # NULL /\ gCwd' = target /\ UNCHANGED tree
    <3>1. CASE a = "/"
      <4>1. gCwd' = Root
        BY <2>2, <3>1
      <4>2. <<>> \in Trails(parent, children, name) /\ lastOf(<<>>) = Root
        BY DEF Trails, lastOf
      <4> QED BY <1>5, <2>2, <4>1, <4>2
    <3>2. CASE a = ".."
      <4>1. gCwd' = parent[gCwd] /\ parent[gCwd] # NULL
        BY <2>2, <3>2
      <4>2. \E r \in Trails(parent, children, name) : parent[gCwd] = lastOf(r)
        BY <1>0, <1>2, <1>3, <1>4, <4>1, TrailUp
      <4> QED BY <1>5, <2>2, <4>1, <4>2
    <3>3. CASE a # "/" /\ a # ".."
      <4>1. gCwd' = findNodeInCwd(a) /\ findNodeInCwd(a) # NULL
        BY <2>2, <3>3
      <4>2. gCwd' \in Firsts(children[gCwd], name)
        BY <1>3, <4>1, FindsFirst
      <4>3. \E r \in Trails(parent, children, name) : gCwd' = lastOf(r)
        BY <1>0, <1>2, <1>4, <4>2, TrailDown
      <4> QED BY <1>5, <2>2, <4>3
    <3> QED BY <3>1, <3>2, <3>3
  <2> QED BY <1>10, <2>1, <2>2 DEF callCd, isDirectory
<1>11. ASSUME NEW a \in Arguments, callRead(a) PROVE Goal
  BY <1>6, <1>7, <1>11 DEF callRead
<1>12. ASSUME NEW a \in Arguments, NEW c \in Contents, callWrite(a, c) PROVE Goal
  BY <1>6, <1>7, <1>12 DEF callWrite, writeTo
<1>13. ASSUME NEW n, n # NULL, NEW a, n = findNodeInCwd(a), freeNode(n),
              type[n] = "FILETYPE" \/ children[n] = <<>>
       PROVE  Goal
  <2>1. n \in NodeIds /\ n \in Range(children[gCwd])
    BY <1>3, <1>13, FindProps, LinkedRange
  <2>2. \A x \in NodeIds : x \notin Range(children[n])
    <3>1. CASE type[n] = "FILETYPE"
      BY <1>0, <1>2, <2>1, <3>1 DEF TreeInv, Siblings
    <3>2. CASE children[n] = <<>>
      BY <3>2 DEF Range
    <3> QED BY <1>13, <3>1, <3>2
  <2>3. n # gCwd
    BY <2>1, <2>2
  <2>4. s \in Trails(parent', children', name') /\ parent'[Root] = parent[Root]
    BY <1>0, <1>2, <1>4, <1>13, <2>1, <2>2, <2>3, FreeKeepsTrail
  <2>5. gCwd' = gCwd
    BY <1>13 DEF freeNode
  <2> QED BY <1>3, <1>4, <2>4, <2>5
<1>14. ASSUME NEW a \in Arguments, callDelete(a) \/ callRmdir(a) PROVE Goal
  <2> DEFINE n == findNodeInCwd(a)
  <2>1. CASE Refuse
    BY <1>7, <2>1
  <2>2. CASE n # NULL /\ freeNode(n) /\ (type[n] = "FILETYPE" \/ children[n] = <<>>)
    BY <1>13, <2>2
  <2>3. CASE callDelete(a)
    BY <2>1, <2>2, <2>3 DEF callDelete, isFile
  <2>4. CASE callRmdir(a)
    BY <2>1, <2>2, <2>4 DEF callRmdir, removable, isDirectory
  <2> QED BY <1>14, <2>3, <2>4
<1>15. CASE Show
  BY <1>6, <1>15 DEF Show
<1>16. CASE BlankFirstLine \/ Exit
  BY <1>2, <1>16 DEF BlankFirstLine, Exit, cleanupMemory, Alive
<1> QED BY <1>9, <1>10, <1>11, <1>12, <1>14, <1>15, <1>16 DEF Next

\* The printed path leads back, for every tree, however deep and wherever cuts
\* have made two siblings alike: what a path is read by and what it was walked by
\* is the same choice, the first of a name, and it stays the first as long as the
\* current directory is below it.
THEOREM PathCorrect == Spec => []PathLeadsBack
<1>1. PathInv /\ [Next]_vars => PathInv'
  <2>1. ASSUME PathInv, UNCHANGED vars PROVE PathInv'
    BY <2>1 DEF vars, tree, TreeInv, TreeTypes, Siblings, Allocated, Alive, PathInv
  <2> QED BY <2>1, StepKeepsPath
<1> QED BY <1>1, InitPath, InvPathLeadsBack, PTL DEF Spec

-----------------------------------------------------------------------------
(* What files hold.                                                          *)

\* The bytes of a list of blocks, and what a file with them holds.
bytesOf(bs, size, disk) ==
    [i \in 1 .. Min({size, BLOCK_SIZE * Len(bs)}) |->
        disk[bs[((i - 1) \div BLOCK_SIZE) + 1]][(i - 1) % BLOCK_SIZE]]

valueOf(bs, size, disk) ==
    IF size > BLOCK_SIZE * Len(bs) THEN Lost ELSE bytesOf(bs, size, disk)

needed(size) == (size + BLOCK_SIZE - 1) \div BLOCK_SIZE

LEMMA ContentIs ==
    /\ \A n : readBytes(n) = bytesOf(blockPointers[n], contentSize[n], gVirtualDisk)
    /\ \A n : contentOf(n) = IF type[n] # "FILETYPE" THEN NoFile
                ELSE valueOf(blockPointers[n], contentSize[n], gVirtualDisk)
BY DEF readBytes, contentOf, bytesOf, valueOf

LEMMA MinOfTwo ==
    ASSUME NEW a \in Nat, NEW b \in Nat
    PROVE  Min({a, b}) = IF a <= b THEN a ELSE b
<1> DEFINE m == IF a <= b THEN a ELSE b
<1>1. m \in {a, b} /\ m <= a /\ m <= b
  OBVIOUS
<1>2. Min({a, b}) \in {a, b} /\ \A y \in {a, b} : Min({a, b}) <= y
  BY <1>1 DEF Min
<1> HIDE DEF m
<1>3. Min({a, b}) <= m /\ m <= Min({a, b}) /\ Min({a, b}) \in Nat /\ m \in Nat
  BY <1>1, <1>2
<1> QED BY <1>3 DEF m

\* Where byte i is: in a block of its own, at an offset.
LEMMA ByteAt ==
    ASSUME NEW k \in Nat, NEW i \in 1 .. BLOCK_SIZE * k
    PROVE  /\ ((i - 1) \div BLOCK_SIZE) + 1 \in 1 .. k
           /\ (i - 1) % BLOCK_SIZE \in 0 .. BLOCK_SIZE - 1
           /\ ((i - 1) \div BLOCK_SIZE) * BLOCK_SIZE + ((i - 1) % BLOCK_SIZE) + 1 = i
<1> DEFINE B == BLOCK_SIZE
           q == (i - 1) \div B
           r == (i - 1) % B
<1>1. B \in Nat \ {0} /\ i \in Int /\ i >= 1 /\ i - 1 < B * k /\ B * k \in Nat
  BY VfsAssumption
<1>2. q \in Int /\ r \in 0 .. B - 1 /\ i - 1 = B * q + r
  BY <1>1
<1> HIDE DEF q, r, B
<1>3. q >= 0
  <2>1. SUFFICES ASSUME q <= -1 PROVE FALSE
    BY <1>2
  <2>2. B * q <= B * (-1)
    BY <1>1, <1>2, <2>1
  <2> QED BY <1>1, <1>2, <2>2
<1>4. q < k
  <2>1. SUFFICES ASSUME q >= k PROVE FALSE
    BY <1>2
  <2>2. B * q >= B * k
    BY <1>1, <1>2, <2>1
  <2> QED BY <1>1, <1>2, <2>2
<1>5. q * B = B * q
  BY <1>1, <1>2
<1>6. q + 1 \in 1 .. k /\ q * B + r + 1 = i
  BY <1>1, <1>2, <1>3, <1>4, <1>5
<1>7. q + 1 \in 1 .. k /\ r \in 0 .. B - 1 /\ q * B + r + 1 = i
  BY <1>2, <1>6
<1> QED BY <1>7 DEF q, r, B

\* As many blocks as are needed hold a content, and none is needed for nothing.
LEMMA NeededProps ==
    ASSUME NEW size \in Nat
    PROVE  /\ needed(size) \in Nat /\ size <= BLOCK_SIZE * needed(size)
           /\ size = 0 => needed(size) = 0
<1> DEFINE B == BLOCK_SIZE
           a == size + B - 1
           q == a \div B
           r == a % B
<1>1. B \in Nat \ {0} /\ a \in Nat
  BY VfsAssumption
<1>2. q \in Nat /\ r \in 0 .. B - 1 /\ a = B * q + r
  BY <1>1
<1>3. needed(size) = q
  BY DEF needed
<1>4. size = 0 => q = 0
  <2>1. SUFFICES ASSUME size = 0, q >= 1 PROVE FALSE
    BY <1>2
  <2>2. a = B - 1
    BY <1>1, <2>1
  <2> HIDE DEF q, r, a, B
  <2>3. B * q >= B
    BY <1>1, <1>2, <2>1
  <2> QED BY <1>1, <1>2, <2>2, <2>3
<1>5. size <= B * q
  <2>1. a = size + B - 1
    OBVIOUS
  <2> HIDE DEF q, r, a, B
  <2>2. B * q \in Nat
    BY <1>1, <1>2
  <2> QED BY <1>1, <1>2, <2>1, <2>2
<1> QED BY <1>2, <1>3, <1>4, <1>5

\* Reading depends on the file's own blocks only.
LEMMA BytesProps ==
    ASSUME NEW bs \in Seq(Blocks), NEW size \in Nat, size <= BLOCK_SIZE * Len(bs), NEW disk
    PROVE  /\ DOMAIN bytesOf(bs, size, disk) = 1 .. size
           /\ bytesOf(bs, size, disk) =
                [i \in 1 .. size |-> bytesOf(bs, size, disk)[i]]
           /\ \A i \in 1 .. size :
                bytesOf(bs, size, disk)[i] =
                    disk[bs[((i - 1) \div BLOCK_SIZE) + 1]][(i - 1) % BLOCK_SIZE]
<1>1. BLOCK_SIZE \in Nat /\ Len(bs) \in Nat
  BY VfsAssumption, LenProperties
<1>2. BLOCK_SIZE * Len(bs) \in Nat
  BY <1>1
<1>3. Min({size, BLOCK_SIZE * Len(bs)}) = size
  BY <1>2, MinOfTwo
<1> QED BY <1>3 DEF bytesOf

LEMMA BytesSame ==
    ASSUME NEW bs \in Seq(Blocks), NEW size \in Nat, NEW disk, NEW new,
           \A b : Linked(bs, b) => new[b] = disk[b]
    PROVE  /\ bytesOf(bs, size, new) = bytesOf(bs, size, disk)
           /\ valueOf(bs, size, new) = valueOf(bs, size, disk)
<1> DEFINE top == Min({size, BLOCK_SIZE * Len(bs)})
<1>1. BLOCK_SIZE \in Nat /\ Len(bs) \in Nat /\ DOMAIN bs = 1 .. Len(bs)
  BY VfsAssumption, LenProperties
<1>2. BLOCK_SIZE * Len(bs) \in Nat
  BY <1>1
<1>3. top \in Nat /\ top <= BLOCK_SIZE * Len(bs)
  BY <1>2, MinOfTwo
<1> HIDE DEF top
<1>4. ASSUME NEW i \in 1 .. top
      PROVE  new[bs[((i - 1) \div BLOCK_SIZE) + 1]] = disk[bs[((i - 1) \div BLOCK_SIZE) + 1]]
  <2>1. i \in 1 .. BLOCK_SIZE * Len(bs)
    BY <1>2, <1>3
  <2>2. ((i - 1) \div BLOCK_SIZE) + 1 \in 1 .. Len(bs)
    BY <1>1, <2>1, ByteAt
  <2> QED BY <1>1, <2>2 DEF Linked
<1>5. bytesOf(bs, size, new) = bytesOf(bs, size, disk)
  BY <1>4 DEF bytesOf, top
<1> QED BY <1>5 DEF valueOf

LEMMA BytesNone ==
    ASSUME NEW bs, bs = <<>>, NEW size \in Nat, NEW disk
    PROVE  bytesOf(bs, size, disk) = <<>>
<1> DEFINE w == bytesOf(bs, size, disk)
<1>1. BLOCK_SIZE * Len(bs) = 0
  BY VfsAssumption, EmptySeq
<1>2. Min({size, BLOCK_SIZE * Len(bs)}) = 0
  BY <1>1, MinOfTwo
<1> DEFINE top == Min({size, BLOCK_SIZE * Len(bs)})
<1>3. w = [i \in 1 .. top |-> w[i]]
  BY DEF bytesOf
<1> HIDE DEF w
<1>4. w \in [1 .. 0 -> Int]
  BY <1>2, <1>3
<1>5. w \in Seq(Int) /\ DOMAIN w = 1 .. 0
  BY <1>4, SeqDef
<1>6. Len(w) = 0
  BY <1>5, LenProperties
<1> QED BY <1>5, <1>6, EmptySeq DEF w

\* A content is read as it was written.
LEMMA BytesWritten ==
    ASSUME NEW c \in Contents, NEW fl \in Seq(Blocks), NoRepeats(fl), NEW k,
           k = needed(Len(c)), k <= Len(fl), NEW old, NEW disk,
           \A m \in 1 .. k : disk[fl[m]] = blockBytes(c, m, old[fl[m]])
    PROVE  bytesOf(SubSeq(fl, 1, k), Len(c), disk) = c
<1> DEFINE bs == SubSeq(fl, 1, k)
<1>1. /\ c \in Seq(Int) /\ Len(c) \in Nat /\ BLOCK_SIZE \in Nat \ {0}
      /\ c = [i \in 1 .. Len(c) |-> c[i]]
  BY VfsAssumption, LenProperties
<1>2. k \in Nat /\ Len(c) <= BLOCK_SIZE * k
  BY <1>1, NeededProps
<1>3. Len(fl) \in Nat /\ DOMAIN fl = 1 .. Len(fl) /\ \A i \in 1 .. Len(fl) : fl[i] \in Blocks
  BY LenProperties, ElementOfSeq
<1>4. bs \in Seq(Blocks) /\ Len(bs) = k /\ \A i \in 1 .. k : bs[i] = fl[i]
  BY <1>2, <1>3, FirstOf
<1>5. \A m \in 1 .. k : disk[bs[m]] = blockBytes(c, m, old[bs[m]])
  BY <1>4
<1> HIDE DEF bs
<1>6. ASSUME NEW i \in 1 .. Len(c)
      PROVE  disk[bs[((i - 1) \div BLOCK_SIZE) + 1]][(i - 1) % BLOCK_SIZE] = c[i]
  <2> DEFINE m == ((i - 1) \div BLOCK_SIZE) + 1
             j == (i - 1) % BLOCK_SIZE
  <2>1. i \in 1 .. BLOCK_SIZE * k
    BY <1>1, <1>2
  <2>2. /\ m \in 1 .. k /\ j \in 0 .. BLOCK_SIZE - 1
        /\ ((i - 1) \div BLOCK_SIZE) * BLOCK_SIZE + j + 1 = i
    <3>1. k \in Nat
      BY <1>2
    <3>2. m \in 1 .. k
      BY <2>1, <3>1, ByteAt
    <3>3. j \in 0 .. BLOCK_SIZE - 1
      BY <2>1, <3>1, ByteAt
    <3>4. ((i - 1) \div BLOCK_SIZE) * BLOCK_SIZE + j + 1 = i
      BY <2>1, <3>1, ByteAt
    <3> QED BY <3>2, <3>3, <3>4
  <2>3. m - 1 = (i - 1) \div BLOCK_SIZE
    <3>1. (i - 1) \div BLOCK_SIZE \in Int
      BY <1>1
    <3> QED BY <3>1
  <2>4. (m - 1) * BLOCK_SIZE + j + 1 = i
    BY <2>2, <2>3
  <2> HIDE DEF m, j
  <2>5. blockBytes(c, m, old[bs[m]])[j] = c[i]
    BY <1>1, <2>2, <2>4 DEF blockBytes
  <2>6. disk[bs[m]][j] = c[i]
    BY <1>5, <2>2, <2>5
  <2> QED BY <2>6 DEF m, j
<1> DEFINE w == bytesOf(bs, Len(c), disk)
<1>7. /\ w = [i \in 1 .. Len(c) |-> w[i]]
      /\ \A i \in 1 .. Len(c) :
           w[i] = disk[bs[((i - 1) \div BLOCK_SIZE) + 1]][(i - 1) % BLOCK_SIZE]
  <2>1. Len(c) <= BLOCK_SIZE * Len(bs)
    BY <1>2, <1>4
  <2>2. bs \in Seq(Blocks)
    BY <1>4
  <2>3. Len(c) \in Nat
    BY <1>1
  <2> QED BY <2>1, <2>2, <2>3, BytesProps
<1>8. \A i \in 1 .. Len(c) : w[i] = c[i]
  BY <1>6, <1>7
<1>9. w = c
  <2> HIDE DEF w
  <2> QED BY <1>1, <1>7, <1>8
<1> QED BY <1>9 DEF w, bs

\* Without failures everything that is returned becomes free.
LEMMA AllKept ==
    ASSUME NEW S, NEW bs \in Seq(S)
    PROVE  Len(keptOf(bs, DOMAIN bs)) = Len(bs)
<1>1. PICK k \in [0 .. Len(bs) -> Seq(S)] :
         picks(k, bs, DOMAIN bs) /\ keptOf(bs, DOMAIN bs) = k[Len(bs)]
  BY KeptUnfolds
<1>2. /\ Len(bs) \in Nat /\ DOMAIN bs = 1 .. Len(bs)
      /\ \A i \in 1 .. Len(bs) : bs[i] \in S
  BY LenProperties, ElementOfSeq
<1>3. k[0] = <<>> /\ \A i \in 1 .. Len(bs) : k[i] = Append(k[i - 1], bs[i])
  BY <1>1, <1>2 DEF picks
<1> DEFINE T == {i \in Nat : i <= Len(bs) => Len(k[i]) = i}
<1>4. 0 \in T
  BY <1>3
<1>5. ASSUME NEW i \in Nat, i \in T PROVE i + 1 \in T
  <2>1. SUFFICES ASSUME i + 1 <= Len(bs) PROVE Len(k[i + 1]) = i + 1
    OBVIOUS
  <2>2. /\ i + 1 \in 1 .. Len(bs) /\ (i + 1) - 1 = i /\ i \in 0 .. Len(bs)
        /\ Len(k[i]) = i
    BY <1>2, <1>5, <2>1
  <2>3. k[i] \in Seq(S) /\ bs[i + 1] \in S /\ k[i + 1] = Append(k[i], bs[i + 1])
    BY <1>2, <1>3, <2>2
  <2> QED BY <2>2, <2>3, AppendProperties
<1> HIDE DEF T
<1>6. Nat \subseteq T
  BY <1>4, <1>5, InductiveSet
<1> QED BY <1>1, <1>2, <1>6 DEF T

\* The blocks and sizes of files: their content was lost, or it is what was
\* written, in as many blocks as it needs.
Stored(disk) ==
    {p \in Seq(Blocks) \X Nat :
        \/ p[2] # 0 /\ p[1] = <<>>
        \/ /\ Len(p[1]) = needed(p[2])
           /\ bytesOf(p[1], p[2], disk) \in {<<>>} \cup Contents}

FileInv ==
    Alive => \A n \in NodeIds : type[n] = "FILETYPE" =>
                <<blockPointers[n], contentSize[n]>> \in Stored(gVirtualDisk)

LEMMA IsStored ==
    ASSUME NEW disk, NEW bs \in Seq(Blocks), NEW size \in Nat,
           \/ size # 0 /\ bs = <<>>
           \/ Len(bs) = needed(size) /\ bytesOf(bs, size, disk) \in {<<>>} \cup Contents
    PROVE  <<bs, size>> \in Stored(disk)
BY DEF Stored

LEMMA StoredProps ==
    ASSUME NEW disk, NEW bs, NEW size, <<bs, size>> \in Stored(disk)
    PROVE  /\ bs \in Seq(Blocks) /\ size \in Nat
           /\ \/ /\ size # 0 /\ bs = <<>> /\ bytesOf(bs, size, disk) = <<>>
                 /\ valueOf(bs, size, disk) = Lost
              \/ /\ Len(bs) = needed(size) /\ (size = 0 => bs = <<>>)
                 /\ bytesOf(bs, size, disk) \in {<<>>} \cup Contents
                 /\ bytesOf(bs, size, disk) \notin {NoFile, Lost}
                 /\ valueOf(bs, size, disk) = bytesOf(bs, size, disk)
                 /\ Len(bytesOf(bs, size, disk)) = size
<1>1. /\ bs \in Seq(Blocks) /\ size \in Nat
      /\ \/ size # 0 /\ bs = <<>>
         \/ Len(bs) = needed(size) /\ bytesOf(bs, size, disk) \in {<<>>} \cup Contents
  BY DEF Stored
<1>2. BLOCK_SIZE \in Nat /\ Len(bs) \in Nat
  BY <1>1, VfsAssumption, LenProperties
<1>3. CASE size # 0 /\ bs = <<>>
  <2>1. Len(bs) = 0 /\ BLOCK_SIZE * Len(bs) = 0
    BY <1>2, <1>3
  <2>2. valueOf(bs, size, disk) = Lost
    BY <1>1, <1>3, <2>1 DEF valueOf
  <2>4. bytesOf(bs, size, disk) = <<>>
    BY <1>1, <1>3, BytesNone
  <2> QED BY <1>1, <1>3, <2>2, <2>4
<1>4. CASE Len(bs) = needed(size) /\ bytesOf(bs, size, disk) \in {<<>>} \cup Contents
  <2>1. size <= BLOCK_SIZE * Len(bs) /\ (size = 0 => Len(bs) = 0)
    BY <1>1, <1>4, NeededProps
  <2>2. valueOf(bs, size, disk) = bytesOf(bs, size, disk)
    <3>1. BLOCK_SIZE * Len(bs) \in Nat
      BY <1>2
    <3> QED BY <1>1, <2>1, <3>1 DEF valueOf
  <2> DEFINE w == bytesOf(bs, size, disk)
  <2>3. DOMAIN w = 1 .. size
    BY <1>1, <2>1, BytesProps
  <2>4. w \in {<<>>} \cup Contents
    BY <1>4
  <2> HIDE DEF w
  <2>5. w \in Seq(Int) /\ w \notin {NoFile, Lost}
    BY <2>4, VfsAssumption, ContentAssumption, EmptySeq
  <2>6. Len(w) = size
    BY <1>1, <2>3, <2>5, LenProperties
  <2>7. size = 0 => bs = <<>>
    BY <1>1, <2>1, EmptySeq
  <2> QED BY <1>1, <1>4, <2>2, <2>5, <2>6, <2>7 DEF w
<1> QED BY <1>1, <1>3, <1>4

\* What a file holds is kept with its blocks.
LEMMA FileStays ==
    ASSUME NEW n \in NodeIds, type'[n] = type[n], blockPointers'[n] = blockPointers[n],
           contentSize'[n] = contentSize[n],
           blockPointers[n] \in Seq(Blocks), contentSize[n] \in Nat,
           \A b : Linked(blockPointers[n], b) => gVirtualDisk'[b] = gVirtualDisk[b]
    PROVE  /\ contentOf(n)' = contentOf(n)
           /\ <<blockPointers[n], contentSize[n]>> \in Stored(gVirtualDisk) =>
                <<blockPointers'[n], contentSize'[n]>> \in Stored(gVirtualDisk')
<1> DEFINE bs == blockPointers[n]
           size == contentSize[n]
<1>1. /\ bytesOf(bs, size, gVirtualDisk') = bytesOf(bs, size, gVirtualDisk)
      /\ valueOf(bs, size, gVirtualDisk') = valueOf(bs, size, gVirtualDisk)
  BY BytesSame
<1>2. contentOf(n)' = IF type'[n] # "FILETYPE" THEN NoFile
                      ELSE valueOf(blockPointers'[n], contentSize'[n], gVirtualDisk')
  BY DEF contentOf, readBytes, valueOf, bytesOf
<1>3. contentOf(n)' = contentOf(n)
  BY <1>1, <1>2, ContentIs
<1>4. <<bs, size>> \in Stored(gVirtualDisk) => <<bs, size>> \in Stored(gVirtualDisk')
  BY <1>1 DEF Stored
<1> QED BY <1>3, <1>4

\* The contents, as the abstract specification has them.
holds == [n \in NodeIds |-> contentOf(n)]

\* A file has as many blocks as the abstract specification counts.
LEMMA HeldBlocks ==
    ASSUME NEW n \in NodeIds, type[n] = "FILETYPE",
           <<blockPointers[n], contentSize[n]>> \in Stored(gVirtualDisk)
    PROVE  Contents0!held(n) = Len(blockPointers[n]) /\ contentOf(n) # NoFile
<1> DEFINE v == contentOf(n)
           bs == blockPointers[n]
           size == contentSize[n]
<1>1. /\ v = valueOf(bs, size, gVirtualDisk)
      /\ \/ bs = <<>> /\ v = Lost
         \/ v \notin {NoFile, Lost} /\ Len(v) = size /\ Len(bs) = needed(size)
  BY ContentIs, StoredProps
<1>2. Contents0!held(n) = IF v \in {NoFile, Lost} THEN 0
                          ELSE (Len(v) + BLOCK_SIZE - 1) \div BLOCK_SIZE
  BY DEF Contents0!held, Contents0!blocksNeeded
<1>3. NoFile # Lost
  BY ContentAssumption
<1> QED BY <1>1, <1>2, <1>3 DEF needed

\* A write is the abstract one: it fits exactly when there is room for it, counted
\* with what the file held.
LEMMA WriteImplements ==
    ASSUME DiskInv, FileInv, Alive, ~MallocMayFail,
           NEW n \in NodeIds, type[n] = "FILETYPE", NEW c \in Contents,
           NEW kept \in returned(blockPointers[n]), writeTo(n, c, kept)
    PROVE  FileInv' /\ Contents0!Write(n, c)
<1> DEFINE bs == blockPointers[n]
           avail == freeList \o kept
           count == gFreeBlockCount + Len(kept)
           k == blocksNeeded(c)
<1>1. /\ freeList \in Seq(Blocks) /\ blockPointers \in [NodeIds -> Seq(Blocks)]
      /\ blockPointers \in Apart(freeList) /\ gFreeBlockCount = Len(freeList)
      /\ contentSize \in [NodeIds -> Nat]
  BY DEF DiskInv, DiskTypes
<1>2. /\ kept \in Seq(Blocks) /\ Len(kept) = Len(bs)
      /\ \A x : Linked(kept, x) => Linked(bs, x)
      /\ NoRepeats(kept)
  <2>1. bs \in Seq(Blocks) /\ NoRepeats(bs)
    BY <1>1 DEF Apart
  <2>2. kept = keptOf(bs, DOMAIN bs)
    BY DEF returned
  <2> QED BY <2>1, <2>2, KeptProps, AllKept
<1>3. /\ avail \in Seq(Blocks) /\ Len(avail) = count /\ NoRepeats(avail)
      /\ \A x : Linked(avail, x) => Linked(freeList, x) \/ Linked(bs, x)
  <2>1. NoRepeats(freeList) /\ \A x : Linked(kept, x) => ~Linked(freeList, x)
    BY <1>1, <1>2 DEF Apart
  <2> QED BY <1>1, <1>2, <2>1, ConcatLinked
<1>4. k = needed(Len(c)) /\ k \in Nat /\ Len(c) \in Nat
      /\ Contents0!blocksNeeded(c) = k
  <2>1. Len(c) \in Nat
    BY VfsAssumption, LenProperties
  <2> QED BY <2>1, NeededProps DEF blocksNeeded, needed, Contents0!blocksNeeded
<1>5. /\ <<bs, contentSize[n]>> \in Stored(gVirtualDisk)
      /\ Contents0!held(n) = Len(bs) /\ contentOf(n) # NoFile
  BY HeldBlocks DEF FileInv
<1>6. count = gFreeBlockCount + Contents0!held(n) /\ count \in Nat /\ Len(bs) \in Nat
  BY <1>1, <1>2, <1>5, LenProperties
<1>7. /\ type' = type
      /\ \/ /\ count < k
            /\ gFreeBlockCount' = count
            /\ blockPointers' = [blockPointers EXCEPT ![n] = <<>>]
            /\ contentSize' = contentSize /\ gVirtualDisk' = gVirtualDisk
            /\ reply' = answer("nospace")
         \/ /\ count >= k
            /\ gFreeBlockCount' = count - k
            /\ blockPointers' = [blockPointers EXCEPT ![n] = SubSeq(avail, 1, k)]
            /\ contentSize' = [contentSize EXCEPT ![n] = Len(c)]
            /\ gVirtualDisk' =
                 [b \in Blocks |->
                     IF \E i \in 1 .. k : avail[i] = b
                     THEN blockBytes(c, CHOOSE i \in 1 .. k : avail[i] = b, gVirtualDisk[b])
                     ELSE gVirtualDisk[b]]
            /\ reply' = answer("ok")
  BY DEF writeTo, resetPointers, tree
<1> HIDE DEF avail, count, k
<1>8. ASSUME NEW m \in NodeIds, m # n
      PROVE  /\ contentOf(m)' = contentOf(m)
             /\ type[m] = "FILETYPE" =>
                  <<blockPointers'[m], contentSize'[m]>> \in Stored(gVirtualDisk')
  <2>1. /\ blockPointers'[m] = blockPointers[m] /\ contentSize'[m] = contentSize[m]
        /\ blockPointers[m] \in Seq(Blocks) /\ contentSize[m] \in Nat
    BY <1>1, <1>7, <1>8
  <2>2. ASSUME NEW b, Linked(blockPointers[m], b) PROVE gVirtualDisk'[b] = gVirtualDisk[b]
    <3>1. ~Linked(avail, b) /\ b \in Blocks
      <4>1. ~Linked(freeList, b) /\ ~Linked(bs, b)
        BY <1>1, <1>8, <2>2 DEF Apart
      <4>2. b \in Blocks
        BY <2>1, <2>2, ElementOfSeq, LenProperties DEF Linked
      <4> QED BY <1>3, <4>1, <4>2
    <3>2. CASE count >= k
      <4>1. \A i \in 1 .. k : avail[i] # b
        <5>1. DOMAIN avail = 1 .. Len(avail) /\ Len(avail) \in Nat
          BY <1>3, LenProperties
        <5>2. \A i \in 1 .. k : i \in DOMAIN avail
          BY <1>3, <1>4, <3>2, <5>1
        <5> QED BY <3>1, <5>2 DEF Linked
      <4>2. gVirtualDisk' = gVirtualDisk \/
              gVirtualDisk' =
                 [x \in Blocks |->
                     IF \E i \in 1 .. k : avail[i] = x
                     THEN blockBytes(c, CHOOSE i \in 1 .. k : avail[i] = x, gVirtualDisk[x])
                     ELSE gVirtualDisk[x]]
        BY <1>7
      <4> QED BY <3>1, <4>1, <4>2
    <3>3. CASE count < k
      BY <1>4, <1>6, <1>7, <3>3
    <3> QED BY <1>4, <1>6, <3>2, <3>3
  <2>3. type'[m] = type[m]
    BY <1>7
  <2> QED BY <2>1, <2>2, <2>3, FileStays DEF FileInv
<1>9. \A v : contentOf(n)' = v => holds' = [holds EXCEPT ![n] = v]
  BY <1>8 DEF holds
<1>10. holds[n] # NoFile /\ holds[n] = contentOf(n)
  BY <1>5 DEF holds
<1>11. contentOf(n)' = valueOf(blockPointers'[n], contentSize'[n], gVirtualDisk')
  BY <1>7 DEF contentOf, readBytes, valueOf, bytesOf
<1>12. <<blockPointers'[n], contentSize'[n]>> \in Stored(gVirtualDisk') => FileInv'
  BY <1>7, <1>8 DEF FileInv
<1>13. CASE count < k
  <2>1. /\ blockPointers'[n] = <<>> /\ contentSize'[n] = contentSize[n]
        /\ gFreeBlockCount' = count /\ gVirtualDisk' = gVirtualDisk
        /\ reply' = answer("nospace") /\ contentSize[n] \in Nat
    BY <1>1, <1>4, <1>6, <1>7, <1>13
  <2>2. <<<<>>, contentSize[n]>> \in Stored(gVirtualDisk)
    <3>1. CASE contentSize[n] # 0
      BY <2>1, <3>1, IsStored, EmptySeq
    <3>2. CASE contentSize[n] = 0
      BY <1>5, <3>2, StoredProps
    <3> QED BY <3>1, <3>2
  <2>3. contentOf(n)' = IF contentOf(n) = <<>> THEN <<>> ELSE Lost
    <3>1. /\ contentOf(n) = valueOf(bs, contentSize[n], gVirtualDisk)
          /\ contentOf(n)' = valueOf(<<>>, contentSize[n], gVirtualDisk)
      BY <1>11, <2>1, ContentIs
    <3>2. CASE contentSize[n] = 0
      <4>1. bs = <<>> /\ Len(contentOf(n)) = 0 /\ contentOf(n) \in {<<>>} \cup Contents
        BY <1>5, <3>1, <3>2, StoredProps
      <4>2. contentOf(n) = <<>>
        BY <4>1, VfsAssumption, EmptySeq
      <4> QED BY <3>1, <4>1, <4>2
    <3>3. CASE contentSize[n] # 0
      <4>1. contentOf(n)' = Lost
        <5>1. BLOCK_SIZE * Len(<<>>) = 0
          BY VfsAssumption
        <5> QED BY <2>1, <3>1, <3>3, <5>1 DEF valueOf
      <4>2. contentOf(n) # <<>>
        <5>1. contentOf(n) = Lost \/ Len(contentOf(n)) # 0
          BY <1>5, <3>1, <3>3, StoredProps
        <5> QED BY <5>1, ContentAssumption
      <4> QED BY <4>1, <4>2
    <3> QED BY <3>2, <3>3
  <2>4. Contents0!Write(n, c)
    <3>1. holds' = [holds EXCEPT ![n] = IF holds[n] = <<>> THEN <<>> ELSE Lost]
      BY <1>9, <1>10, <2>3
    <3>2. Contents0!answer("nospace") = answer("nospace")
      BY DEF answer, Contents0!answer
    <3> QED BY <1>4, <1>6, <1>10, <1>13, <2>1, <3>1, <3>2 DEF Contents0!Write, holds
  <2> QED BY <1>12, <2>1, <2>2, <2>4
<1>14. CASE count >= k
  <2>1. /\ blockPointers'[n] = SubSeq(avail, 1, k) /\ contentSize'[n] = Len(c)
        /\ gFreeBlockCount' = count - k /\ reply' = answer("ok")
        /\ bytesOf(SubSeq(avail, 1, k), Len(c), gVirtualDisk') = c
    <3>1. /\ blockPointers'[n] = SubSeq(avail, 1, k) /\ contentSize'[n] = Len(c)
          /\ gFreeBlockCount' = count - k /\ reply' = answer("ok")
          /\ gVirtualDisk' =
               [b \in Blocks |->
                   IF \E i \in 1 .. k : avail[i] = b
                   THEN blockBytes(c, CHOOSE i \in 1 .. k : avail[i] = b, gVirtualDisk[b])
                   ELSE gVirtualDisk[b]]
      BY <1>1, <1>4, <1>6, <1>7, <1>14
    <3>2. k <= Len(avail)
      BY <1>3, <1>4, <1>6, <1>14
    <3>3. bytesOf(SubSeq(avail, 1, k), Len(c), gVirtualDisk') = c
      <4>1. ASSUME NEW m \in 1 .. k
            PROVE  gVirtualDisk'[avail[m]] = blockBytes(c, m, gVirtualDisk[avail[m]])
        <5>1. DOMAIN avail = 1 .. Len(avail) /\ Len(avail) \in Nat
          BY <1>3, LenProperties
        <5>2. \A i \in 1 .. k : i \in DOMAIN avail /\ avail[i] \in Blocks
          BY <1>3, <1>4, <3>2, <5>1, ElementOfSeq
        <5>3. \A i \in 1 .. k : avail[i] = avail[m] => i = m
          BY <1>3, <5>2 DEF NoRepeats
        <5>4. (CHOOSE i \in 1 .. k : avail[i] = avail[m]) = m
          BY <5>3
        <5> QED BY <3>1, <5>2, <5>4
      <4>2. avail \in Seq(Blocks) /\ NoRepeats(avail) /\ k = needed(Len(c))
        BY <1>3, <1>4
      <4> QED BY <3>2, <4>1, <4>2, BytesWritten
    <3> QED BY <3>1, <3>3
  <2>2. SubSeq(avail, 1, k) \in Seq(Blocks) /\ Len(SubSeq(avail, 1, k)) = k
    <3>1. k \in 0 .. Len(avail)
      BY <1>3, <1>4, <1>6, <1>14
    <3> QED BY <1>3, <3>1, FirstOf
  <2>3. <<blockPointers'[n], contentSize'[n]>> \in Stored(gVirtualDisk')
    BY <1>4, <2>1, <2>2, IsStored
  <2>4. contentOf(n)' = c
    <3>1. Len(c) <= BLOCK_SIZE * k /\ BLOCK_SIZE * k \in Nat
      <4>1. BLOCK_SIZE \in Nat /\ k \in Nat /\ Len(c) \in Nat /\ k = needed(Len(c))
        BY <1>4, VfsAssumption
      <4>2. Len(c) <= BLOCK_SIZE * k
        BY <4>1, NeededProps
      <4> QED BY <4>1, <4>2
    <3>2. ~(Len(c) > BLOCK_SIZE * k)
      BY <1>4, <3>1
    <3> QED BY <1>11, <2>1, <2>2, <3>2 DEF valueOf
  <2>5. Contents0!Write(n, c)
    <3>1. holds' = [holds EXCEPT ![n] = c]
      BY <1>9, <2>4
    <3>2. Contents0!answer("ok") = answer("ok") /\ k <= count
      BY <1>4, <1>6, <1>14 DEF answer, Contents0!answer
    <3> QED BY <1>4, <1>6, <1>10, <2>1, <3>1, <3>2 DEF Contents0!Write, holds
  <2> QED BY <1>12, <2>3, <2>5
<1> QED BY <1>4, <1>6, <1>13, <1>14

\* A node that becomes a file is an empty one; one that becomes or was a directory
\* is none, and neither is one that is freed.
LEMMA ResetFile ==
    ASSUME DiskInv, FileInv, Alive, Alive', NEW n \in NodeIds, NEW t,
           type \in [NodeIds -> {"FREED", "FILETYPE", "DIRECTORY"}],
           type' = [type EXCEPT ![n] = t],
           blockPointers' = [blockPointers EXCEPT ![n] = <<>>],
           contentSize' = [contentSize EXCEPT ![n] = 0],
           gVirtualDisk' = gVirtualDisk
    PROVE  /\ FileInv'
           /\ holds' = [holds EXCEPT ![n] = IF t = "FILETYPE" THEN <<>> ELSE NoFile]
<1>1. /\ blockPointers \in [NodeIds -> Seq(Blocks)] /\ contentSize \in [NodeIds -> Nat]
  BY DEF DiskInv, DiskTypes
<1>2. type'[n] = t /\ blockPointers'[n] = <<>> /\ contentSize'[n] = 0
  BY <1>1
<1>3. ASSUME NEW m \in NodeIds, m # n
      PROVE  /\ contentOf(m)' = contentOf(m)
             /\ type'[m] = "FILETYPE" =>
                  <<blockPointers'[m], contentSize'[m]>> \in Stored(gVirtualDisk')
  <2>1. /\ blockPointers'[m] = blockPointers[m] /\ contentSize'[m] = contentSize[m]
        /\ blockPointers[m] \in Seq(Blocks) /\ contentSize[m] \in Nat
        /\ type'[m] = type[m]
    BY <1>1, <1>3
  <2>2. \A b : Linked(blockPointers[m], b) => gVirtualDisk'[b] = gVirtualDisk[b]
    OBVIOUS
  <2> QED BY <2>1, <2>2, FileStays DEF FileInv
<1>4. /\ valueOf(<<>>, 0, gVirtualDisk) = <<>>
      /\ <<<<>>, 0>> \in Stored(gVirtualDisk)
  <2>1. <<>> \in Seq(Blocks) /\ 0 \in Nat /\ BLOCK_SIZE * Len(<<>>) = 0
    BY VfsAssumption, EmptySeq
  <2>2. bytesOf(<<>>, 0, gVirtualDisk) = <<>>
    BY BytesNone
  <2>3. needed(0) = 0 /\ Len(<<>>) = 0
    BY NeededProps, EmptySeq
  <2>4. <<<<>>, 0>> \in Stored(gVirtualDisk)
    BY <2>1, <2>2, <2>3, IsStored
  <2> QED BY <2>1, <2>2, <2>4 DEF valueOf
<1>5. contentOf(n)' = IF t = "FILETYPE" THEN <<>> ELSE NoFile
  <2>1. contentOf(n)' = IF type'[n] # "FILETYPE" THEN NoFile
                        ELSE valueOf(blockPointers'[n], contentSize'[n], gVirtualDisk')
    BY DEF contentOf, readBytes, valueOf, bytesOf
  <2> QED BY <1>2, <1>4, <2>1
<1>6. FileInv'
  BY <1>2, <1>3, <1>4 DEF FileInv
<1>7. holds' = [holds EXCEPT ![n] = IF t = "FILETYPE" THEN <<>> ELSE NoFile]
  BY <1>3, <1>5 DEF holds
<1> QED BY <1>6, <1>7

LEMMA SameFiles ==
    ASSUME FileInv, UNCHANGED <<type, files>>, Alive
    PROVE  FileInv' /\ holds' = holds /\ gFreeBlockCount' = gFreeBlockCount
<1>1. /\ type' = type /\ blockPointers' = blockPointers /\ contentSize' = contentSize
      /\ gVirtualDisk' = gVirtualDisk /\ gFreeBlockCount' = gFreeBlockCount
  BY DEF files
<1>2. FileInv'
  BY <1>1 DEF FileInv
<1>3. \A n : contentOf(n)' = contentOf(n)
  BY <1>1 DEF contentOf, readBytes
<1> QED BY <1>1, <1>2, <1>3 DEF holds

\* Every step is one of the abstract specification's.
LEMMA StepImplements ==
    ASSUME TreeInv, TreeInv', DiskInv, DiskInv', FileInv, ~MallocMayFail, Next
    PROVE  FileInv' /\ Contents0!Next
<1>0. /\ type \in [NodeIds -> {"FREED", "FILETYPE", "DIRECTORY"}] /\ TreeTypes
      /\ \A s : Contents0!answer(s) = answer(s)
  BY DEF TreeInv, TreeTypes, answer, Contents0!answer
<1>1. \A n \in NodeIds : holds[n] = contentOf(n)
  BY DEF holds
<1>2. ASSUME NEW n \in NodeIds, type[n] # "FILETYPE" PROVE holds[n] = NoFile
  BY <1>1, <1>2 DEF contentOf
<1>3. ASSUME Running PROVE Alive /\ Alive'
  BY <1>3 DEF Running, Alive
<1>4. ASSUME Running, UNCHANGED <<type, files>>,
             reply' = answer("ok") \/ reply' = answer("error")
      PROVE  FileInv' /\ Contents0!Next
  <2>1. FileInv' /\ holds' = holds /\ gFreeBlockCount' = gFreeBlockCount
    BY <1>3, <1>4, SameFiles
  <2>2. Contents0!Other
    BY <1>0, <1>4, <2>1 DEF Contents0!Other, holds
  <2> QED BY <2>1, <2>2 DEF Contents0!Next
<1>5. ASSUME Running, Refuse PROVE FileInv' /\ Contents0!Next
  BY <1>4, <1>5 DEF Refuse, tree
<1>6. ASSUME Running, NEW n \in NodeIds, NEW a, NEW t \in {"FILETYPE", "DIRECTORY"},
             newNode(n, a, t)
      PROVE  FileInv' /\ Contents0!Next
  <2>1. /\ type[n] = "FREED" /\ type' = [type EXCEPT ![n] = t]
        /\ blockPointers' = [blockPointers EXCEPT ![n] = <<>>]
        /\ contentSize' = [contentSize EXCEPT ![n] = 0]
        /\ gVirtualDisk' = gVirtualDisk /\ gFreeBlockCount' = gFreeBlockCount
        /\ reply' = answer("ok")
    BY <1>6 DEF newNode
  <2>2. FileInv' /\ holds' = [holds EXCEPT ![n] = IF t = "FILETYPE" THEN <<>> ELSE NoFile]
    BY <1>0, <1>3, <1>6, <2>1, ResetFile
  <2>3. holds[n] = NoFile
    BY <1>2, <2>1
  <2>4. CASE t = "FILETYPE"
    <3>1. Contents0!Create(n)
      BY <1>0, <2>1, <2>2, <2>3, <2>4 DEF Contents0!Create, holds
    <3> QED BY <2>2, <3>1 DEF Contents0!Next
  <2>5. CASE t = "DIRECTORY"
    <3>1. holds' = holds
      BY <2>2, <2>3, <2>5 DEF holds
    <3>2. Contents0!Other
      BY <1>0, <2>1, <3>1 DEF Contents0!Other, holds
    <3> QED BY <2>2, <3>2 DEF Contents0!Next
  <2> QED BY <2>4, <2>5
<1>7. ASSUME NEW a \in Arguments, callMkdir(a) \/ callCreate(a)
      PROVE  FileInv' /\ Contents0!Next
  BY <1>5, <1>6, <1>7 DEF callMkdir, callCreate
<1>8. ASSUME NEW a \in Arguments, callCd(a) PROVE FileInv' /\ Contents0!Next
  <2>1. Running
    BY <1>8 DEF callCd
  <2>2. CASE reply' = answer("ok") /\ UNCHANGED <<tree, files>>
    BY <1>4, <2>1, <2>2 DEF tree
  <2>3. Refuse \/ (reply' = answer("ok") /\ UNCHANGED <<tree, files>>)
    BY <1>8 DEF callCd
  <2> QED BY <1>5, <2>1, <2>2, <2>3
<1>9. ASSUME NEW a \in Arguments, callRead(a) PROVE FileInv' /\ Contents0!Next
  <2> DEFINE n == findNodeInCwd(a)
  <2>1. Running
    BY <1>9 DEF callRead
  <2>2. CASE Refuse
    BY <1>5, <2>1, <2>2
  <2>3. CASE /\ isFile(n) /\ reply' = [status |-> "data", data |-> readBytes(n)]
             /\ UNCHANGED <<tree, files>>
    <3>1. n \in NodeIds /\ type[n] = "FILETYPE"
      BY <1>0, <2>3, FindProps DEF isFile
    <3>2. FileInv' /\ holds' = holds /\ gFreeBlockCount' = gFreeBlockCount
      BY <1>3, <2>1, <2>3, SameFiles DEF tree
    <3> HIDE DEF n
    <3>3. <<blockPointers[n], contentSize[n]>> \in Stored(gVirtualDisk)
      BY <1>3, <2>1, <3>1 DEF FileInv
    <3>4. /\ contentOf(n) # NoFile
          /\ readBytes(n) = IF contentOf(n) = Lost THEN <<>> ELSE contentOf(n)
      <4>1. /\ contentOf(n) = valueOf(blockPointers[n], contentSize[n], gVirtualDisk)
            /\ readBytes(n) = bytesOf(blockPointers[n], contentSize[n], gVirtualDisk)
        BY <3>1, ContentIs
      <4>2. contentOf(n) # NoFile
        BY <3>1, <3>3, HeldBlocks
      <4> QED BY <3>3, <4>1, <4>2, StoredProps
    <3>5. holds[n] = contentOf(n)
      BY <1>1, <3>1
    <3>6. Contents0!Read(n)
      BY <2>3, <3>2, <3>4, <3>5 DEF Contents0!Read, holds
    <3> QED BY <3>1, <3>2, <3>6 DEF Contents0!Next
  <2> QED BY <1>9, <2>2, <2>3 DEF callRead
<1>10. ASSUME NEW a \in Arguments, NEW c \in Contents, callWrite(a, c)
       PROVE  FileInv' /\ Contents0!Next
  <2> DEFINE n == findNodeInCwd(a)
  <2>1. Running
    BY <1>10 DEF callWrite
  <2>2. CASE Refuse
    BY <1>5, <2>1, <2>2
  <2>3. ASSUME isFile(n), NEW kept \in returned(blockPointers[n]), writeTo(n, c, kept)
        PROVE  FileInv' /\ Contents0!Next
    <3>1. n \in NodeIds /\ type[n] = "FILETYPE"
      BY <1>0, <2>3, FindProps DEF isFile
    <3> HIDE DEF n
    <3>2. FileInv' /\ Contents0!Write(n, c)
      BY <1>3, <2>1, <2>3, <3>1, WriteImplements
    <3> QED BY <3>1, <3>2 DEF Contents0!Next
  <2> QED BY <1>10, <2>2, <2>3 DEF callWrite
<1>11. ASSUME NEW a \in Arguments, callDelete(a) PROVE FileInv' /\ Contents0!Next
  <2> DEFINE n == findNodeInCwd(a)
  <2>1. Running
    BY <1>11 DEF callDelete
  <2>2. CASE Refuse
    BY <1>5, <2>1, <2>2
  <2>3. ASSUME isFile(n), freeNode(n), NEW kept \in returned(blockPointers[n]),
               gFreeBlockCount' = gFreeBlockCount + Len(kept)
        PROVE  FileInv' /\ Contents0!Next
    <3>1. n \in NodeIds /\ type[n] = "FILETYPE"
      BY <1>0, <2>3, FindProps DEF isFile
    <3> HIDE DEF n
    <3>2. /\ type' = [type EXCEPT ![n] = "FREED"]
          /\ blockPointers' = [blockPointers EXCEPT ![n] = <<>>]
          /\ contentSize' = [contentSize EXCEPT ![n] = 0]
          /\ gVirtualDisk' = gVirtualDisk /\ reply' = answer("ok")
      BY <2>3 DEF freeNode
    <3>3. FileInv' /\ holds' = [holds EXCEPT ![n] = NoFile]
      <4>1. Alive /\ Alive'
        BY <1>3, <2>1
      <4>2. /\ FileInv'
            /\ holds' = [holds EXCEPT ![n] = IF "FREED" = "FILETYPE" THEN <<>> ELSE NoFile]
        BY <1>0, <3>1, <3>2, <4>1, ResetFile
      <4> QED BY <4>2
    <3>4. Len(kept) = Len(blockPointers[n])
      <4>1. blockPointers[n] \in Seq(Blocks)
        BY <3>1 DEF DiskInv, DiskTypes
      <4>2. kept = keptOf(blockPointers[n], DOMAIN blockPointers[n])
        BY <2>3 DEF returned
      <4> QED BY <4>1, <4>2, AllKept
    <3>5. Contents0!held(n) = Len(blockPointers[n]) /\ contentOf(n) # NoFile
      BY <1>3, <2>1, <3>1, HeldBlocks DEF FileInv
    <3>6. holds[n] # NoFile
      BY <1>1, <3>1, <3>5
    <3>7. Contents0!Delete(n)
      BY <1>0, <2>3, <3>2, <3>3, <3>4, <3>5, <3>6 DEF Contents0!Delete, holds
    <3> QED BY <3>1, <3>3, <3>7 DEF Contents0!Next
  <2> QED BY <1>11, <2>2, <2>3 DEF callDelete
<1>12. ASSUME NEW a \in Arguments, callRmdir(a) PROVE FileInv' /\ Contents0!Next
  <2> DEFINE n == findNodeInCwd(a)
  <2>1. Running
    BY <1>12 DEF callRmdir
  <2>2. CASE Refuse
    BY <1>5, <2>1, <2>2
  <2>3. CASE removable(n) /\ freeNode(n) /\ UNCHANGED <<freeList, gFreeBlockCount>>
    <3>1. n \in NodeIds /\ type[n] = "DIRECTORY"
      BY <1>0, <2>3, FindProps DEF removable, isDirectory
    <3> HIDE DEF n
    <3>2. /\ type' = [type EXCEPT ![n] = "FREED"]
          /\ blockPointers' = [blockPointers EXCEPT ![n] = <<>>]
          /\ contentSize' = [contentSize EXCEPT ![n] = 0]
          /\ gVirtualDisk' = gVirtualDisk /\ reply' = answer("ok")
          /\ gFreeBlockCount' = gFreeBlockCount
      BY <2>3 DEF freeNode
    <3>3. FileInv' /\ holds' = [holds EXCEPT ![n] = NoFile]
      <4>1. Alive /\ Alive'
        BY <1>3, <2>1
      <4>2. /\ FileInv'
            /\ holds' = [holds EXCEPT ![n] = IF "FREED" = "FILETYPE" THEN <<>> ELSE NoFile]
        BY <1>0, <3>1, <3>2, <4>1, ResetFile
      <4> QED BY <4>2
    <3>4. holds' = holds
      BY <1>2, <3>1, <3>3 DEF holds
    <3>5. Contents0!Other
      BY <1>0, <3>2, <3>4 DEF Contents0!Other, holds
    <3> QED BY <3>3, <3>5 DEF Contents0!Next
  <2> QED BY <1>12, <2>2, <2>3 DEF callRmdir
<1>13. CASE Show
  BY <1>4, <1>13 DEF Show, tree
<1>14. CASE BlankFirstLine \/ Exit
  <2>1. /\ commandCode' = "exit" /\ gFreeBlockCount' = gFreeBlockCount
        /\ reply' = answer("exit")
    BY <1>14 DEF BlankFirstLine, Exit, cleanupMemory
  <2>2. FileInv' /\ ~Alive'
    BY <2>1 DEF FileInv, Alive
  <2>3. Allocated' = {}
    BY <2>2 DEF TreeInv
  <2>4. \A n \in NodeIds : contentOf(n)' = NoFile
    BY <2>3 DEF Allocated, contentOf
  <2>5. Contents0!Exit
    BY <1>0, <2>1, <2>4 DEF Contents0!Exit
  <2> QED BY <2>2, <2>5 DEF Contents0!Next
<1> QED BY <1>7, <1>8, <1>9, <1>10, <1>11, <1>12, <1>13, <1>14 DEF Next

LEMMA InitFiles ==
    Init => FileInv /\ Contents0!Init
<1> SUFFICES ASSUME Init PROVE FileInv /\ Contents0!Init
  OBVIOUS
<1>1. /\ \A n \in NodeIds : type[n] # "FILETYPE"
      /\ gFreeBlockCount = NUM_BLOCKS /\ reply = answer("ok")
  BY DEF Init, initializeVfs
<1>2. \A n \in NodeIds : contentOf(n) = NoFile
  BY <1>1 DEF contentOf
<1>3. Contents0!Init
  BY <1>1, <1>2 DEF Contents0!Init, answer, Contents0!answer
<1> QED BY <1>1, <1>3 DEF FileInv

\* As long as memory for the free list lasts, the commands do, block by block, what
\* the contents of files do: a file holds, and a read prints, the last content that
\* was written in full, and a write fits exactly when the free blocks and the
\* file's own are enough for it.
THEOREM FilesCorrect == ~MallocMayFail => (Spec => FilesHoldWhatWasWritten)
<1> SUFFICES ASSUME ~MallocMayFail PROVE Spec => FilesHoldWhatWasWritten
  OBVIOUS
<1> DEFINE Inv == TreeInv /\ DiskInv /\ FileInv
<1>1. Init => Inv /\ Contents0!Init
  BY InitTree, InitDisk, InitFiles
<1>2. Inv /\ [Next]_vars => Inv' /\ [Contents0!Next]_Contents0!vars
  <2>1. ASSUME Inv, Next PROVE Inv' /\ Contents0!Next
    <3>1. TreeInv' /\ DiskInv'
      BY <2>1, StepKeepsTree, StepKeepsDisk DEF TreeInv
    <3> QED BY <2>1, <3>1, StepImplements
  <2>2. ASSUME Inv, UNCHANGED vars PROVE Inv' /\ UNCHANGED Contents0!vars
    <3>1. UNCHANGED <<tree, files, gCwd, commandCode, reply>>
      BY <2>2 DEF vars
    <3>2. TreeInv'
      BY <2>2, <3>1 DEF tree, TreeInv, TreeTypes, Siblings, Allocated, Alive
    <3>3. DiskInv'
      BY <2>2, <3>1 DEF files, DiskInv, DiskTypes, Alive
    <3>4. FileInv'
      BY <2>2, <3>1 DEF tree, files, FileInv, Alive
    <3>5. UNCHANGED Contents0!vars
      BY <3>1 DEF tree, files, Contents0!vars, contentOf, readBytes
    <3> QED BY <3>2, <3>3, <3>4, <3>5
  <2> QED BY <2>1, <2>2
<1> QED BY <1>1, <1>2, PTL DEF Spec, FilesHoldWhatWasWritten, Contents0!Spec

=============================================================================
