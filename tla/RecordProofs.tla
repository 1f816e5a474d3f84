---------------------------- MODULE RecordProofs -----------------------------
(* Theorems about the programs that keep records. The user database of        *)
(* src/crud.c: for all ids, names and ages, any number of users, crashes and  *)
(* failing calls. The player analyzer of src/player_performance_analyzer.c:   *)
(* for all tables of players, teams and numbers, NaN among them.              *)
EXTENDS CrudProperties, PlayerProperties, ProofBasics

-----------------------------------------------------------------------------
(* Lines and what is read of them, while every line gives one record or none. *)

GoodAges == {a \in Ages : a > 0} \cup
            UNION {{r.age : r \in Range(Found[n].recs)} : n \in DOMAIN Found}
Known == [id : Ids, name : Plain, age : GoodAges]
Line == {l \in [recs : {<<>>} \cup {<<u>> : u \in Known}, end : {"on", "stuck"}] :
            l.end = "on" => l.recs # <<>>}

\* The line of a user that can be read back.
asLine(u) == [recs |-> <<u>>, end |-> "on"]

LEMMA AgesAre == GoodAges \subseteq Nat \ {0}
<1>1. ASSUME NEW n \in DOMAIN Found, NEW r \in Range(Found[n].recs)
      PROVE  r.age \in Nat \ {0}
  <2> DEFINE R == [id : Int, name : Plain, age : Nat \ {0}]
             s == Found[n].recs
  <2>1. s \in Seq(R)
    BY CrudAssumption DEF LinesOfFile
  <2>2. PICK i \in DOMAIN s : r = s[i]
    BY DEF Range
  <2> HIDE DEF R, s
  <2>3. r \in R
    BY <2>1, <2>2, ElementOfSeq, LenProperties
  <2> QED BY <2>3 DEF R
<1>2. ASSUME NEW a \in Ages, a > 0 PROVE a \in Nat \ {0}
  BY <1>2, CrudAssumption
<1> QED BY <1>1, <1>2 DEF GoodAges

LEMMA LineHas ==
    ASSUME NEW l \in Line
    PROVE  /\ l.recs = <<>> \/ \E u \in Known : l.recs = <<u>>
           /\ l.recs # <<>> => l.recs = <<l.recs[1]>> /\ l.recs[1] \in Known
           /\ l.end \in {"on", "stuck"} /\ (l.end = "on" => l.recs # <<>>)
           /\ l.end = "on" => l = asLine(l.recs[1])
<1>1. /\ l \in [recs : {<<>>} \cup {<<u>> : u \in Known}, end : {"on", "stuck"}]
      /\ l.end = "on" => l.recs # <<>>
  BY DEF Line
<1>2. l = [recs |-> l.recs, end |-> l.end] /\ l.recs \in {<<>>} \cup {<<u>> : u \in Known}
      /\ l.end \in {"on", "stuck"}
  BY <1>1
<1>3. CASE l.recs = <<>>
  BY <1>1, <1>2, <1>3
<1>4. ASSUME NEW u \in Known, l.recs = <<u>>
      PROVE  l.recs = <<l.recs[1]>> /\ l.recs[1] \in Known /\ (l.end = "on" => l = asLine(l.recs[1]))
  BY <1>2, <1>4 DEF asLine
<1> QED BY <1>1, <1>2, <1>3, <1>4

LEMMA AsLine ==
    ASSUME NEW u \in Known
    PROVE  asLine(u) \in Line /\ asLine(u).recs = <<u>> /\ asLine(u).recs[1] = u
           /\ asLine(u).end = "on" /\ asLine(u).recs # <<>>
BY DEF asLine, Line

LEMMA FilesAreNot == NoFile \notin Seq(Line)
<1>1. Line \subseteq LinesOfFile
  <2> SUFFICES ASSUME NEW l \in Line PROVE l \in LinesOfFile
    OBVIOUS
  <2> DEFINE R == [id : Int, name : Plain, age : Nat \ {0}]
  <2>1. Known \subseteq R
    BY AgesAre, CrudAssumption DEF Known
  <2>2. l.recs \in Seq(R)
    <3>1. ASSUME NEW u \in Known PROVE <<u>> \in Seq(R)
      <4>1. u \in R
        BY <2>1
      <4> HIDE DEF R
      <4> QED BY <4>1
    <3>2. <<>> \in Seq(R)
      BY EmptySeq
    <3> QED BY <3>1, <3>2, LineHas
  <2>3. l = [recs |-> l.recs, end |-> l.end] /\ l.end \in {"on", "stuck", "open"}
    BY DEF Line
  <2> QED BY <2>2, <2>3 DEF LinesOfFile
<1>2. ASSUME NoFile \in Seq(Line) PROVE FALSE
  <2> HIDE DEF Line, LinesOfFile
  <2>1. NoFile \in Seq(LinesOfFile)
    BY <1>1, <1>2, SeqMonotonic
  <2> QED BY <2>1, CrudAssumption
<1> QED BY <1>2

\* What createUser and updateUser write is a line, if it gives no further record.
LEMMA LineTypes ==
    ASSUME NEW id \in Ids, NEW n \in Names, NEW a \in Ages, validAge(a), ~furtherRecord(n)
    PROVE  /\ typed(id, n, a) \in Line
           /\ typed(id, n, a).recs # <<>> => typed(id, n, a).recs[1].id = id
<1> DEFINE l == typed(id, n, a)
<1>1. a \in GoodAges
  BY DEF validAge, GoodAges
<1>2. CASE n \in Plain
  <2>1. user(id, n, a) \in Known /\ user(id, n, a).id = id
    BY <1>1, <1>2 DEF user, Known
  <2>2. l = asLine(user(id, n, a))
    BY <1>2 DEF typed, asLine
  <2> QED BY <2>1, <2>2, AsLine
<1>3. CASE n \notin Plain
  <2> DEFINE f == Found[n]
             R == [id : Int, name : Plain, age : Nat \ {0}]
  <2>1. n \in DOMAIN Found
    BY <1>3 DEF Names
  <2>2. f \in [recs : Seq(R), end : {"on", "stuck", "open"}] /\ (f.end = "on" => Len(f.recs) > 1)
    BY <2>1, CrudAssumption DEF LinesOfFile
  <2>3. Len(f.recs) \in Nat /\ DOMAIN f.recs = 1 .. Len(f.recs) /\ f.recs \in Seq(R)
    BY <2>2, LenProperties
  <2>4. Len(f.recs) \in {0, 1} /\ f.end = "stuck"
    <3>1. ~(Len(f.recs) > 1) /\ f.end # "open"
      BY <1>3 DEF furtherRecord
    <3>2. f.end \in {"on", "stuck", "open"} /\ f.end # "on"
      <4> HIDE DEF f, R
      <4> QED BY <2>2, <3>1
    <3> DEFINE k == Len(f.recs)
    <3>3. k \in Nat /\ ~(k > 1)
      BY <2>3, <3>1
    <3> HIDE DEF k, f, R
    <3>4. k \in {0, 1}
      BY <3>3
    <3> QED BY <3>1, <3>2, <3>4 DEF k
  <2> DEFINE h == [i \in DOMAIN f.recs |->
             user(IF i = 1 THEN id ELSE f.recs[i].id, f.recs[i].name,
                  IF f.end = "on" /\ i = Len(f.recs) THEN a ELSE f.recs[i].age)]
  <2>5. l = [f EXCEPT !.recs = h]
    BY <1>3 DEF typed
  <2>6. l.recs = h /\ l.end = "stuck" /\ l = [recs |-> h, end |-> "stuck"]
    <3> HIDE DEF h
    <3> QED BY <2>2, <2>4, <2>5
  <2>7. CASE Len(f.recs) = 0
    <3>1. h = <<>>
      BY <2>3, <2>7
    <3> QED BY <2>6, <3>1 DEF Line
  <2>8. CASE Len(f.recs) = 1
    <3> DEFINE u == user(id, f.recs[1].name, f.recs[1].age)
    <3>1. 1 \in DOMAIN f.recs /\ f.recs[1] \in R
      <4> HIDE DEF f, R
      <4> QED BY <2>3, <2>8, ElementOfSeq
    <3>2. f.recs[1].age \in GoodAges
      <4>1. f.recs[1] \in Range(Found[n].recs)
        BY <3>1 DEF Range
      <4> QED BY <2>1, <4>1 DEF GoodAges
    <3>3. u \in Known /\ u.id = id
      BY <3>1, <3>2 DEF user, Known
    <3>4. h = <<u>>
      BY <2>3, <2>4, <2>8, <3>1
    <3> HIDE DEF u, h
    <3> QED BY <2>6, <3>3, <3>4 DEF Line
  <2> QED BY <2>4, <2>7, <2>8
<1> QED BY <1>2, <1>3

\* A record is written back as the line of its user.
LEMMA TypedBack ==
    ASSUME NEW u \in Known
    PROVE  typed(u.id, u.name, u.age) = asLine(u)
BY DEF typed, asLine, Known, user

\* Nothing runs into the line written last.
LEMMA WrittenIs ==
    ASSUME NEW f \in Seq(Line), NEW l
    PROVE  written(f, l) = {Append(f, l)}
<1>1. CASE f = <<>>
  BY <1>1 DEF written
<1>2. CASE f # <<>>
  <2>1. Len(f) \in 1 .. Len(f)
    BY <1>2, EmptySeq, LenProperties
  <2>2. f[Len(f)] \in Line
    BY <2>1, ElementOfSeq
  <2>3. f[Len(f)].end # "open"
    BY <2>2, LineHas
  <2> QED BY <2>3 DEF written, Last
<1> QED BY <1>1, <1>2

\* The first k lines can be read: all give a record, and all but the last let the
\* scan go on.
Readable(ls) ==
    {k \in 0 .. Len(ls) :
        \A i \in 1 .. k : ls[i].recs # <<>> /\ (i < k => ls[i].end = "on")}

\* What is read of the first k lines: one record of each, of as many as can be.
reads(s, ls, k) ==
    /\ s \in Seq(Known)
    /\ Len(s) \in Readable(ls) /\ Len(s) <= k
    /\ \A j \in Readable(ls) : j <= k => j <= Len(s)
    /\ \A i \in 1 .. Len(s) : s[i] = ls[i].recs[1]

LEMMA ReadsNext ==
    ASSUME NEW ls \in Seq(Line), NEW k \in 1 .. Len(ls), NEW s, reads(s, ls, k - 1)
    PROVE  reads(IF \A j \in 1 .. k - 1 : ls[j].end = "on" THEN s \o ls[k].recs ELSE s, ls, k)
<1>1. /\ Len(ls) \in Nat /\ k \in Nat /\ k # 0 /\ s \in Seq(Known) /\ Len(s) \in Nat
      /\ Len(s) \in Readable(ls) /\ Len(s) <= k - 1
      /\ \A j \in Readable(ls) : j <= k - 1 => j <= Len(s)
      /\ \A i \in 1 .. Len(s) : s[i] = ls[i].recs[1]
  BY LenProperties DEF reads
<1>2. \A i \in 1 .. Len(ls) : ls[i] \in Line
  BY ElementOfSeq
<1>3. \A j \in Readable(ls) : j \in Nat /\ j <= Len(ls)
  BY <1>1 DEF Readable
<1>4. CASE ~\A j \in 1 .. k - 1 : ls[j].end = "on"
  <2>1. k \notin Readable(ls)
    BY <1>1, <1>4 DEF Readable
  <2>2. \A j \in Readable(ls) : j <= k => j <= Len(s)
    BY <1>1, <1>3, <2>1
  <2> QED BY <1>1, <1>4, <2>2 DEF reads
<1>5. CASE \A j \in 1 .. k - 1 : ls[j].end = "on"
  <2>1. \A j \in 1 .. k - 1 : ls[j].recs # <<>>
    BY <1>1, <1>2, <1>5, LineHas
  <2>2. k - 1 \in Readable(ls)
    BY <1>1, <1>5, <2>1 DEF Readable
  <2>3. Len(s) = k - 1
    BY <1>1, <2>2
  <2>4. CASE ls[k].recs = <<>>
    <3>1. k \notin Readable(ls)
      BY <1>1, <2>4 DEF Readable
    <3>2. \A j \in Readable(ls) : j <= k => j <= Len(s)
      BY <1>1, <1>3, <3>1
    <3>3. s \o ls[k].recs = s
      BY <1>1, <2>4
    <3> QED BY <1>1, <1>5, <3>2, <3>3 DEF reads
  <2>5. CASE ls[k].recs # <<>>
    <3> DEFINE u == ls[k].recs[1]
               t == Append(s, u)
    <3>1. u \in Known /\ ls[k].recs = <<u>>
      BY <1>2, <2>5, LineHas
    <3> HIDE DEF u
    <3>2. s \o ls[k].recs = t
      BY <1>1, <3>1
    <3>3. /\ t \in Seq(Known) /\ Len(t) = k /\ t[k] = u
          /\ \A i \in 1 .. k - 1 : t[i] = s[i]
      BY <1>1, <2>3, <3>1, AppendProperties
    <3> HIDE DEF t
    <3>4. k \in Readable(ls)
      <4>1. \A i \in 1 .. k : i = k \/ (i \in 1 .. k - 1 /\ i < k)
        BY <1>1
      <4>2. \A i \in 1 .. k : ls[i].recs # <<>> /\ (i < k => ls[i].end = "on")
        BY <1>1, <1>5, <2>1, <2>5, <4>1
      <4> QED BY <1>1, <4>2 DEF Readable
    <3>5. \A i \in 1 .. k : t[i] = ls[i].recs[1]
      <4>1. \A i \in 1 .. k : i = k \/ i \in 1 .. k - 1
        BY <1>1
      <4> QED BY <1>1, <2>3, <3>3, <4>1 DEF u
    <3> QED BY <1>1, <1>5, <3>2, <3>3, <3>4, <3>5 DEF reads
  <2> QED BY <2>4, <2>5
<1> QED BY <1>4, <1>5

\* As many lines are read as can be.
LEMMA ParseProps ==
    ASSUME NEW ls \in Seq(Line)
    PROVE  /\ parse(ls) \in Seq(Known)
           /\ Len(parse(ls)) \in Readable(ls)
           /\ \A k \in Readable(ls) : k <= Len(parse(ls))
           /\ \A i \in 1 .. Len(parse(ls)) : parse(ls)[i] = ls[i].recs[1]
<1>1. /\ Len(ls) \in Nat /\ DOMAIN ls = 1 .. Len(ls)
      /\ \A i \in 1 .. Len(ls) : ls[i] \in Line
  BY LenProperties, ElementOfSeq
<1> DEFINE N == Len(ls)
           R == {i \in DOMAIN ls : \A j \in 1 .. i - 1 : ls[j].end = "on"}
           eqs(f) == f = [k \in 0 .. N |->
                IF k = 0 THEN <<>>
                ELSE IF k \in R THEN f[k - 1] \o ls[k].recs ELSE f[k - 1]]
           F == CHOOSE f : eqs(f)
<1>2. parse(ls) = F[N]
  BY DEF parse
<1>3. \E f : eqs(f)
  <2> DEFINE S == Seq(Known)
             G == [z \in Int \X S |->
                     IF z[1] \in R THEN (IF z[2] \o ls[z[1]].recs \in S THEN z[2] \o ls[z[1]].recs ELSE <<>>) ELSE z[2]]
  <2>1. <<>> \in S
    BY EmptySeq
  <2>2. G \in [Int \X S -> S]
    <3> HIDE DEF S, R
    <3> QED BY <2>1
  <2>3. PICK f \in [0 .. N -> S] : recursFrom(f, 0, N, <<>>, G)
    <3> HIDE DEF G, S
    <3>1. 0 \in Int /\ N \in Int
      BY <1>1
    <3> QED BY <2>1, <2>2, <3>1, IntervalRecursion
  <2>4. \A k \in 0 .. N : f[k] = IF k = 0 THEN <<>> ELSE G[<<k, f[k - 1]>>]
    BY <2>3 DEF recursFrom
  <2>5. ASSUME NEW k \in 1 .. N
        PROVE  f[k] = IF k \in R THEN f[k - 1] \o ls[k].recs ELSE f[k - 1]
    <3>1. k \in 0 .. N /\ k # 0 /\ k - 1 \in 0 .. N /\ k \in Int
      BY <1>1
    <3>2. f[k] = G[<<k, f[k - 1]>>] /\ f[k - 1] \in S
      BY <2>3, <2>4, <3>1
    <3>3. f[k - 1] \o ls[k].recs \in S
      <4>1. ls[k].recs \in S
        <5>1. ls[k].recs = <<>> \/ \E u \in Known : ls[k].recs = <<u>>
          BY <1>1, LineHas
        <5>2. \A u \in Known : <<u>> \in Seq(Known)
          OBVIOUS
        <5> QED BY <2>1, <5>1, <5>2
      <4> QED BY <3>2, <4>1, ConcatProperties
    <3> HIDE DEF S, R
    <3> QED BY <3>1, <3>2, <3>3
  <2>6. eqs(f)
    <3>1. f = [k \in 0 .. N |-> f[k]]
      BY <2>3
    <3>2. \A k \in 0 .. N : k = 0 \/ k \in 1 .. N
      BY <1>1
    <3>3. f[0] = <<>>
      BY <1>1, <2>4
    <3> HIDE DEF G, S, R
    <3>4. \A k \in 0 .. N : f[k] = IF k = 0 THEN <<>>
                ELSE IF k \in R THEN f[k - 1] \o ls[k].recs ELSE f[k - 1]
      BY <2>5, <3>2, <3>3
    <3> QED BY <3>1, <3>4
  <2> QED BY <2>6
<1>4. eqs(F)
  <2> HIDE DEF eqs
  <2> QED BY <1>3
<1>5. F[0] = <<>> /\ \A k \in 1 .. N :
         F[k] = IF k \in R THEN F[k - 1] \o ls[k].recs ELSE F[k - 1]
  <2> HIDE DEF F, R
  <2>1. F = [k \in 0 .. N |->
                IF k = 0 THEN <<>>
                ELSE IF k \in R THEN F[k - 1] \o ls[k].recs ELSE F[k - 1]]
    BY <1>4
  <2>2. 0 \in 0 .. N /\ \A k \in 1 .. N : k \in 0 .. N /\ k # 0
    BY <1>1
  <2> QED BY <2>1, <2>2
<1> HIDE DEF F, eqs
<1>6. ASSUME NEW k \in Nat, k <= N => reads(F[k], ls, k)
      PROVE  k + 1 <= N => reads(F[k + 1], ls, k + 1)
  <2> SUFFICES ASSUME k + 1 <= N PROVE reads(F[k + 1], ls, k + 1)
    OBVIOUS
  <2>1. k + 1 \in 1 .. N /\ (k + 1) - 1 = k /\ k <= N
    BY <1>1
  <2>2. F[k + 1] = IF k + 1 \in R THEN F[k] \o ls[k + 1].recs ELSE F[k]
    BY <1>5, <2>1
  <2>3. k + 1 \in R <=> \A j \in 1 .. (k + 1) - 1 : ls[j].end = "on"
    BY <1>1, <2>1
  <2>4. reads(F[k], ls, (k + 1) - 1)
    BY <1>6, <2>1
  <2> HIDE DEF R, N
  <2>5. reads(IF \A j \in 1 .. (k + 1) - 1 : ls[j].end = "on" THEN F[k] \o ls[k + 1].recs ELSE F[k], ls, k + 1)
    BY <2>1, <2>4, ReadsNext DEF N
  <2> QED BY <2>2, <2>3, <2>5
<1>7. reads(F[0], ls, 0)
  <2>1. <<>> \in Seq(Known) /\ Len(<<>>) = 0
    BY EmptySeq
  <2>2. 0 \in Readable(ls)
    BY <1>1 DEF Readable
  <2> QED BY <1>5, <2>1, <2>2 DEF reads
<1>8. \A k \in Nat : k <= N => reads(F[k], ls, k)
  <2> DEFINE T == {k \in Nat : k <= N => reads(F[k], ls, k)}
  <2>1. 0 \in T
    BY <1>7
  <2>2. \A k \in Nat : k \in T => k + 1 \in T
    BY <1>6
  <2> HIDE DEF T
  <2>3. Nat \subseteq T
    BY <2>1, <2>2, InductiveSet
  <2> QED BY <2>3 DEF T
<1>9. reads(parse(ls), ls, N)
  BY <1>1, <1>2, <1>8
<1>10. \A k \in Readable(ls) : k <= N
  BY <1>1 DEF Readable
<1> QED BY <1>9, <1>10 DEF reads

\* When the scan gets over every line, each gives its record.
allOn(ls) == \A i \in 1 .. Len(ls) : ls[i].end = "on"

LEMMA AllRead ==
    ASSUME NEW ls \in Seq(Line), allOn(ls)
    PROVE  /\ Len(parse(ls)) = Len(ls)
           /\ \A i \in 1 .. Len(ls) : ls[i] = asLine(parse(ls)[i])
<1>1. Len(ls) \in Nat /\ \A i \in 1 .. Len(ls) : ls[i] \in Line
  BY LenProperties, ElementOfSeq
<1>2. \A i \in 1 .. Len(ls) : ls[i].end = "on" /\ ls[i].recs # <<>>
  BY <1>1, LineHas DEF allOn
<1>3. Len(ls) \in Readable(ls)
  BY <1>1, <1>2 DEF Readable
<1>4. Len(parse(ls)) \in Nat /\ Len(parse(ls)) <= Len(ls) /\ Len(ls) <= Len(parse(ls))
  BY <1>1, <1>3, ParseProps DEF Readable
<1>5. Len(parse(ls)) = Len(ls)
  BY <1>1, <1>4
<1> QED BY <1>1, <1>2, <1>5, ParseProps, LineHas

\* Records as users and the next users give them.
LEMMA RecordsNow ==
    /\ records = parse(lines) /\ records' = parse(lines')
    /\ users' = users => lines' = lines /\ records' = records
    /\ users # NoFile => lines = users
    /\ users' # NoFile => lines' = users'
    /\ users = NoFile => lines = <<>> /\ records = <<>>
    /\ users' = NoFile => records' = <<>>
    /\ users' = <<>> => lines' = <<>> /\ records' = <<>>
<1>1. parse(<<>>) = <<>>
  <2>1. <<>> \in Seq(Line) /\ Len(<<>>) = 0
    BY EmptySeq
  <2> DEFINE p == parse(<<>>)
  <2>2. p \in Seq(Known) /\ Len(p) \in Readable(<<>>)
    BY <2>1, ParseProps
  <2>3. Len(p) = 0
    <3> HIDE DEF p
    <3> QED BY <2>1, <2>2 DEF Readable
  <2> QED BY <2>2, <2>3, EmptySeq
<1> QED BY <1>1 DEF records, lines

-----------------------------------------------------------------------------
(* Types, and what the steps do while every line gives one record or none.   *)

CrudTypes ==
    /\ users \in Seq(Line) \cup {NoFile}
    /\ pc \in {"menu", "copying", "remove", "rename", "down"}
    /\ copied \in Nat /\ (pc \in {"menu", "down"} => copied = 0)
    /\ pc \in {"copying", "remove", "rename"} =>
         temp \in Seq(Line) /\ op.id \in Ids /\ op.kind \in {"update", "delete"}
    /\ pc \in {"copying", "remove"} => users # NoFile

LEMMA LinesProps ==
    ASSUME CrudTypes
    PROVE  /\ lines \in Seq(Line) /\ records \in Seq(Known)
           /\ Len(records) \in Nat /\ Len(lines) \in Nat /\ Len(records) <= Len(lines)
           /\ \A i \in 1 .. Len(records) :
                records[i] \in Known /\ records[i] = lines[i].recs[1]
<1>1. lines \in Seq(Line)
  BY EmptySeq DEF CrudTypes, lines
<1>2. /\ records \in Seq(Known) /\ Len(records) \in Readable(lines)
      /\ \A i \in 1 .. Len(records) : records[i] = lines[i].recs[1]
  BY <1>1, ParseProps DEF records
<1>3. Len(records) \in Nat /\ Len(lines) \in Nat /\ Len(records) <= Len(lines)
  BY <1>1, <1>2, LenProperties DEF Readable
<1> QED BY <1>1, <1>2, <1>3, ElementOfSeq

\* What has happened once has happened.
LEMMA Excuses ==
    ASSUME Next
    PROVE  /\ excuses \subseteq excuses'
           /\ clean' => clean
           /\ ~spoilt' => ~spoilt /\ clean'
           /\ ~forgotten(excuses') => ~forgotten(excuses) /\ clean'
<1>1. excuses \subseteq excuses'
  BY DEF Next, createUser, begin, readUsers, copyRecord, closeFiles, removeFile, renameFile,
         Crash, Restart, Note, TakesPlace, history
<1> QED BY <1>1 DEF clean, spoilt, forgotten

LEMMA CreateClean ==
    ASSUME CrudTypes, clean', NEW id \in Ids, NEW n \in Names, NEW a \in Ages,
           createUser(id, n, a)
    PROVE  /\ pc = "menu" /\ pc' = "menu" /\ UNCHANGED <<temp, op, copied>> /\ shown' = <<>>
           /\ \/ UNCHANGED <<users, history>>
              \/ \E l \in Line :
                   /\ l.recs # <<>> => l.recs[1].id = id
                   /\ users' = Append(lines, l) /\ users' \in Seq(Line) /\ users' # NoFile
                   /\ ~userIdExists(id, TRUE) \/ "unchecked" \in excuses'
                   /\ (users = NoFile /\ believed # <<>>) => "orphaned" \in excuses'
                   /\ ~forgotten(excuses') => believed' = Append(believed, l)
<1>1. pc = "menu" /\ pc' = "menu" /\ UNCHANGED <<temp, op, copied>> /\ shown' = <<>> /\ validAge(a)
  BY DEF createUser
<1> DEFINE l == typed(id, n, a)
           happened == when("unchecked", userIdExists(id, TRUE))
                  \cup when("further record", furtherRecord(n))
                  \cup when("orphaned", users = NoFile /\ believed # <<>>)
           Done == users' \in written(lines, l) /\ Note(Append(believed, l), <<>>, happened)
<1>2. \/ UNCHANGED <<users, history>>
      \/ Done
      \/ Note(believed, <<>>, happened \cup {"disk full"})
  BY DEF createUser
<1>3. ~Note(believed, <<>>, happened \cup {"disk full"})
  BY DEF Note, clean
<1>4. ASSUME Done
      PROVE  /\ l \in Line /\ (l.recs # <<>> => l.recs[1].id = id)
             /\ users' = Append(lines, l) /\ users' \in Seq(Line) /\ users' # NoFile
             /\ ~userIdExists(id, TRUE) \/ "unchecked" \in excuses'
             /\ (users = NoFile /\ believed # <<>>) => "orphaned" \in excuses'
             /\ ~forgotten(excuses') => believed' = Append(believed, l)
  <2>1. /\ excuses' = excuses \cup happened
        /\ ~forgotten(excuses') => believed' = Append(believed, l)
    BY <1>4 DEF Note
  <2>2. /\ ~userIdExists(id, TRUE) \/ "unchecked" \in excuses'
        /\ (users = NoFile /\ believed # <<>>) => "orphaned" \in excuses'
        /\ furtherRecord(n) => "further record" \in excuses'
    BY <2>1 DEF when
  <2>3. ~furtherRecord(n)
    BY <2>2 DEF clean
  <2>4. l \in Line /\ (l.recs # <<>> => l.recs[1].id = id)
    BY <1>1, <2>3, LineTypes
  <2> HIDE DEF l, happened
  <2>5. lines \in Seq(Line)
    BY LinesProps
  <2>6. users' = Append(lines, l)
    BY <1>4, <2>5, WrittenIs
  <2>7. users' \in Seq(Line)
    BY <2>4, <2>5, <2>6, AppendProperties
  <2> QED BY <2>1, <2>2, <2>4, <2>6, <2>7, FilesAreNot
<1> HIDE DEF l, happened
<1> QED BY <1>1, <1>2, <1>3, <1>4

LEMMA CopyClean ==
    ASSUME CrudTypes, clean', copyRecord
    PROVE  /\ pc = "copying" /\ UNCHANGED <<users, pc, op, shown>>
           /\ copied < Len(records) /\ copied' = copied + 1 /\ copied + 1 \in 1 .. Len(records)
           /\ records[copied + 1] \in Known /\ temp \in Seq(Line) /\ temp' \in Seq(Line)
           /\ ~forgotten(excuses') => believed' = believed
           /\ \/ /\ records[copied + 1].id # op.id
                 /\ temp' = Append(temp, asLine(records[copied + 1]))
                 /\ ~forgotten(excuses') => due' = due
              \/ /\ records[copied + 1].id = op.id /\ op.kind = "delete" /\ temp' = temp
                 /\ ~forgotten(excuses') => due' = RemoveAt(due, Len(temp) + 1)
              \/ /\ records[copied + 1].id = op.id /\ op.kind = "update"
                 /\ \E l \in Line :
                      /\ l.recs # <<>> => l.recs[1].id = op.id
                      /\ temp' = Append(temp, l)
                      /\ ~forgotten(excuses') => due' = [due EXCEPT ![Len(temp) + 1] = l]
<1> DEFINE r == records[copied + 1]
<1>1. /\ pc = "copying" /\ copied < Len(records) /\ copied' = copied + 1
      /\ UNCHANGED <<users, pc, op, shown>> /\ nextRecord = r
  BY DEF copyRecord, nextRecord
<1>2. /\ copied \in Nat /\ temp \in Seq(Line) /\ op.id \in Ids
  BY <1>1 DEF CrudTypes
<1>3. copied + 1 \in 1 .. Len(records) /\ r \in Known
  BY <1>1, <1>2, LinesProps
<1>4. \A l : written(temp, l) = {Append(temp, l)}
  BY <1>2, WrittenIs
<1>5. \A l \in Line : Append(temp, l) \in Seq(Line)
  BY <1>2, AppendProperties
<1>6. asLine(r) \in Line /\ typed(r.id, r.name, r.age) = asLine(r)
  BY <1>3, AsLine, TypedBack
<1> HIDE DEF r
<1>7. CASE /\ r.id # op.id
           /\ temp' \in written(temp, typed(r.id, r.name, r.age))
           /\ Note(believed, due, {})
  <2>1. temp' = Append(temp, asLine(r)) /\ temp' \in Seq(Line)
    BY <1>4, <1>5, <1>6, <1>7
  <2>2. ~forgotten(excuses') => believed' = believed /\ due' = due
    BY <1>7 DEF Note
  <2> QED BY <1>1, <1>2, <1>3, <1>7, <2>1, <2>2 DEF r
<1>8. CASE /\ r.id = op.id /\ op.kind = "delete"
           /\ UNCHANGED temp
           /\ Note(believed, RemoveAt(due, Len(temp) + 1), {})
  <2>1. ~forgotten(excuses') => believed' = believed /\ due' = RemoveAt(due, Len(temp) + 1)
    BY <1>8 DEF Note
  <2> QED BY <1>1, <1>2, <1>3, <1>8, <2>1 DEF r
<1>9. ASSUME r.id = op.id, op.kind = "update", NEW n \in Names, NEW a \in Ages,
             validAge(a), temp' \in written(temp, typed(r.id, n, a)),
             Note(believed, [due EXCEPT ![Len(temp) + 1] = typed(r.id, n, a)],
                  when("further record", furtherRecord(n)))
      PROVE  /\ ~forgotten(excuses') => believed' = believed
             /\ temp' \in Seq(Line)
             /\ \E l \in Line :
                      /\ l.recs # <<>> => l.recs[1].id = op.id
                      /\ temp' = Append(temp, l)
                      /\ ~forgotten(excuses') => due' = [due EXCEPT ![Len(temp) + 1] = l]
  <2> DEFINE l == typed(r.id, n, a)
  <2>1. /\ excuses' = excuses \cup when("further record", furtherRecord(n))
        /\ ~forgotten(excuses') => /\ believed' = believed
                                   /\ due' = [due EXCEPT ![Len(temp) + 1] = l]
    BY <1>9 DEF Note
  <2>2. ~furtherRecord(n)
    BY <2>1 DEF clean, when
  <2>3. l \in Line /\ (l.recs # <<>> => l.recs[1].id = op.id)
    BY <1>2, <1>9, <2>2, LineTypes
  <2> HIDE DEF l
  <2>4. temp' = Append(temp, l)
    BY <1>4, <1>9 DEF l
  <2> QED BY <1>5, <2>1, <2>3, <2>4
<1>10. \/ /\ r.id # op.id
          /\ temp' \in written(temp, typed(r.id, r.name, r.age))
          /\ Note(believed, due, {})
       \/ /\ r.id = op.id /\ op.kind = "delete"
          /\ UNCHANGED temp
          /\ Note(believed, RemoveAt(due, Len(temp) + 1), {})
       \/ /\ r.id = op.id /\ op.kind = "update"
          /\ \E n \in Names, a \in Ages :
               /\ validAge(a)
               /\ temp' \in written(temp, typed(r.id, n, a))
               /\ Note(believed, [due EXCEPT ![Len(temp) + 1] = typed(r.id, n, a)],
                       when("further record", furtherRecord(n)))
  BY <1>1 DEF copyRecord
<1>11. CASE /\ r.id = op.id /\ op.kind = "update"
            /\ \E n \in Names, a \in Ages :
                 /\ validAge(a)
                 /\ temp' \in written(temp, typed(r.id, n, a))
                 /\ Note(believed, [due EXCEPT ![Len(temp) + 1] = typed(r.id, n, a)],
                         when("further record", furtherRecord(n)))
  BY <1>1, <1>2, <1>3, <1>9, <1>11 DEF r
<1> QED BY <1>7, <1>8, <1>10, <1>11

LEMMA CloseClean ==
    ASSUME clean', closeFiles
    PROVE  /\ pc = "copying" /\ copied = Len(records) /\ pc' = "remove"
           /\ UNCHANGED <<users, temp, op, copied, shown, history>>
<1>1. ~Note(believed, due, {"disk full"})
  BY DEF Note, clean
<1> QED BY <1>1 DEF closeFiles

LEMMA InitTypes == Init => CrudTypes
BY DEF Init, CrudTypes

LEMMA StepKeepsTypes ==
    ASSUME CrudTypes, Next, clean'
    PROVE  CrudTypes'
<1>1. /\ users \in Seq(Line) \cup {NoFile}
      /\ pc \in {"menu", "copying", "remove", "rename", "down"}
      /\ copied \in Nat /\ (pc \in {"menu", "down"} => copied = 0)
      /\ pc \in {"copying", "remove", "rename"} =>
           temp \in Seq(Line) /\ op.id \in Ids /\ op.kind \in {"update", "delete"}
      /\ pc \in {"copying", "remove"} => users # NoFile
  BY DEF CrudTypes
<1>2. <<>> \in Seq(Line)
  BY EmptySeq
<1>3. ASSUME users' \in Seq(Line) \cup {NoFile}, pc' \in {"menu", "down"}, copied' = 0
      PROVE  CrudTypes'
  BY <1>3 DEF CrudTypes
<1>4. ASSUME NEW id \in Ids, NEW n \in Names, NEW a \in Ages, createUser(id, n, a)
      PROVE  CrudTypes'
  <2>1. /\ pc = "menu" /\ pc' = "menu" /\ copied' = copied
        /\ users' = users \/ users' \in Seq(Line)
    BY <1>4, CreateClean
  <2> QED BY <1>1, <1>3, <2>1
<1>5. ASSUME NEW id \in Ids, NEW kind \in {"update", "delete"}, begin(kind, id)
      PROVE  CrudTypes'
  <2>1. /\ users # NoFile /\ pc = "menu" /\ UNCHANGED <<users, copied>>
        /\ \/ temp' = <<>> /\ pc' = "copying" /\ op' = [kind |-> kind, id |-> id]
           \/ UNCHANGED pc
    BY <1>5 DEF begin
  <2>2. CASE temp' = <<>> /\ pc' = "copying" /\ op' = [kind |-> kind, id |-> id]
    <3>1. op'.id \in Ids /\ op'.kind \in {"update", "delete"} /\ temp' \in Seq(Line)
      BY <1>2, <2>2
    <3> QED BY <1>1, <2>1, <2>2, <3>1 DEF CrudTypes
  <2>3. CASE UNCHANGED pc
    BY <1>1, <1>3, <2>1, <2>3
  <2> QED BY <2>1, <2>2, <2>3
<1>6. CASE readUsers
  BY <1>1, <1>3, <1>6 DEF readUsers
<1>7. CASE copyRecord
  BY <1>1, <1>7, CopyClean DEF CrudTypes
<1>8. CASE closeFiles
  BY <1>1, <1>8, CloseClean DEF CrudTypes
<1>9. CASE removeFile
  BY <1>1, <1>9 DEF removeFile, CrudTypes
<1>10. CASE renameFile
  <2>1. pc = "rename" /\ pc' = "menu" /\ copied' = 0 /\ users' \in {users, temp}
    BY <1>10 DEF renameFile
  <2> QED BY <1>1, <1>3, <2>1
<1>11. CASE Crash
  <2>1. pc' = "down" /\ copied' = 0 /\ users' \in {users, <<>>}
    BY <1>11 DEF Crash
  <2> QED BY <1>1, <1>2, <1>3, <2>1
<1>12. CASE Restart
  BY <1>1, <1>3, <1>12 DEF Restart
<1> QED BY <1>4, <1>5, <1>6, <1>7, <1>8, <1>9, <1>10, <1>11, <1>12 DEF Next

-----------------------------------------------------------------------------
(* What is stored can be found.                                              *)

\* The users to be are those copied and those still to be copied.
copiesInto(d, t, us, c) ==
    /\ d \in Seq(Line) /\ Len(d) = Len(t) + Len(us) - c /\ c <= Len(us)
    /\ \A i \in 1 .. Len(t) : d[i] = t[i]
    /\ \A i \in c + 1 .. Len(us) : d[Len(t) + i - c] = us[i]

\* The step that copies, replaces or leaves out one user.
LEMMA CopiesNext ==
    ASSUME NEW us \in Seq(Line), NEW t \in Seq(Line), NEW c \in Nat, c < Len(us),
           NEW d, copiesInto(d, t, us, c), NEW d2, NEW t2,
           \/ t2 = Append(t, us[c + 1]) /\ d2 = d
           \/ t2 = t /\ d2 = RemoveAt(d, Len(t) + 1)
           \/ \E l \in Line : t2 = Append(t, l) /\ d2 = [d EXCEPT ![Len(t) + 1] = l]
    PROVE  copiesInto(d2, t2, us, c + 1)
<1>1. /\ Len(us) \in Nat /\ Len(t) \in Nat /\ c + 1 \in 1 .. Len(us) /\ us[c + 1] \in Line
      /\ d \in Seq(Line) /\ DOMAIN d = 1 .. Len(d) /\ Len(d) \in Nat
      /\ Len(d) = Len(t) + Len(us) - c
      /\ \A i \in 1 .. Len(t) : d[i] = t[i]
      /\ \A i \in c + 1 .. Len(us) : d[Len(t) + i - c] = us[i]
  <2>1. Len(us) \in Nat /\ Len(t) \in Nat
    BY LenProperties
  <2>2. c + 1 \in 1 .. Len(us)
    BY <2>1
  <2>3. us[c + 1] \in Line
    BY <2>2, ElementOfSeq
  <2> QED BY <2>1, <2>2, <2>3, LenProperties DEF copiesInto
<1> DEFINE h == Len(t) + 1
<1>2. h \in 1 .. Len(d) /\ Len(t) + (c + 1) - c = h
  BY <1>1
<1>3. d[h] = us[c + 1]
  <2>1. c + 1 \in c + 1 .. Len(us)
    BY <1>1
  <2> QED BY <1>1, <1>2, <2>1
<1>4. \A l \in Line : /\ Append(t, l) \in Seq(Line) /\ Len(Append(t, l)) = h
                      /\ Append(t, l)[h] = l
                      /\ \A i \in 1 .. Len(t) : Append(t, l)[i] = t[i]
  BY AppendProperties
<1>5. \A i \in 1 .. h : i = h \/ i \in 1 .. Len(t)
  BY <1>1
<1>6. \A i \in c + 2 .. Len(us) : /\ i \in c + 1 .. Len(us) /\ Len(t) + i - c # h
                                  /\ h + i - (c + 1) = Len(t) + i - c
  BY <1>1
<1>7. c + 1 <= Len(us) /\ (c + 1) + 1 = c + 2 /\ Len(d) = h + Len(us) - (c + 1)
  BY <1>1
<1> HIDE DEF h
<1>8. CASE t2 = Append(t, us[c + 1]) /\ d2 = d
  <2>1. Len(t2) = h /\ \A i \in 1 .. h : d2[i] = t2[i]
    BY <1>1, <1>3, <1>4, <1>5, <1>8
  <2>2. \A i \in c + 2 .. Len(us) : d2[h + i - (c + 1)] = us[i]
    BY <1>1, <1>6, <1>8
  <2> QED BY <1>1, <1>7, <1>8, <2>1, <2>2 DEF copiesInto
<1>9. ASSUME NEW l \in Line, t2 = Append(t, l), d2 = [d EXCEPT ![h] = l]
      PROVE  copiesInto(d2, t2, us, c + 1)
  <2>1. /\ d2 \in Seq(Line) /\ Len(d2) = Len(d) /\ d2[h] = l
        /\ \A i \in 1 .. Len(d) : i # h => d2[i] = d[i]
    BY <1>1, <1>2, <1>9, ExceptSeq
  <2>2. \A i \in 1 .. Len(t) : i \in 1 .. Len(d) /\ i # h
    BY <1>1, <1>2 DEF h
  <2>3. Len(t2) = h /\ \A i \in 1 .. h : d2[i] = t2[i]
    BY <1>1, <1>4, <1>5, <1>9, <2>1, <2>2
  <2>4. \A i \in c + 2 .. Len(us) : d2[h + i - (c + 1)] = us[i]
    <3> SUFFICES ASSUME NEW i \in c + 2 .. Len(us) PROVE d2[h + i - (c + 1)] = us[i]
      OBVIOUS
    <3>1. Len(t) + i - c \in 1 .. Len(d)
      BY <1>1
    <3> QED BY <1>1, <1>6, <2>1, <3>1
  <2> QED BY <1>7, <2>1, <2>3, <2>4 DEF copiesInto
<1>10. CASE t2 = t /\ d2 = RemoveAt(d, h)
  <2>1. /\ d2 \in Seq(Line) /\ Len(d2) = Len(d) - 1
        /\ \A i \in 1 .. Len(d) - 1 : d2[i] = IF i < h THEN d[i] ELSE d[i + 1]
    <3> DEFINE e == RemoveAt(d, h)
    <3>1. /\ e \in Seq(Line) /\ Len(e) = Len(d) - 1
          /\ \A i \in 1 .. Len(d) - 1 : e[i] = IF i < h THEN d[i] ELSE d[i + 1]
      <4>1. d \in Seq(Line) /\ h \in 1 .. Len(d)
        BY <1>1, <1>2
      <4> QED BY ONLY <4>1, RemoveAtShifts
    <3>2. d2 = e
      BY <1>10
    <3> HIDE DEF e
    <3> QED BY <3>1, <3>2
  <2>2. \A i \in 1 .. Len(t) : i \in 1 .. Len(d) - 1 /\ i < h
    BY <1>1, <1>2 DEF h
  <2>3. \A i \in 1 .. Len(t) : d2[i] = t2[i]
    BY <1>1, <1>10, <2>1, <2>2
  <2>4. \A i \in c + 2 .. Len(us) : d2[Len(t) + i - (c + 1)] = us[i]
    <3> SUFFICES ASSUME NEW i \in c + 2 .. Len(us) PROVE d2[Len(t) + i - (c + 1)] = us[i]
      OBVIOUS
    <3> DEFINE k == Len(t) + i - (c + 1)
    <3>1. k \in 1 .. Len(d) - 1 /\ ~(k < h) /\ k + 1 = Len(t) + i - c
      BY <1>1 DEF h
    <3> HIDE DEF k
    <3>2. d2[k] = us[i]
      BY <1>1, <1>6, <2>1, <3>1
    <3> QED BY <3>2 DEF k
  <2>5. Len(d2) = Len(t2) + Len(us) - (c + 1)
    BY <1>1, <1>10, <2>1
  <2> QED BY <1>7, <1>10, <2>1, <2>3, <2>4, <2>5 DEF copiesInto
<1> QED BY <1>8, <1>9, <1>10 DEF h

\* The users are in users.txt; or, when that is removed and temp.txt not yet renamed,
\* or never renamed, in temp.txt.
Held ==
    \/ users # NoFile /\ users = believed
    \/ /\ users = NoFile /\ temp = believed
       /\ pc \in {"rename", "menu", "down"}
    \/ users = NoFile /\ believed = <<>> /\ pc \in {"menu", "down"}

\* temp.txt becomes what the users are to be, unless a line of users.txt stops the scan.
Prepared ==
    /\ pc = "copying" /\ allOn(users) => copiesInto(due, temp, users, copied)
    /\ pc = "remove" /\ allOn(users) => due = temp
    /\ pc = "rename" => (users # NoFile /\ ~allOn(users)) \/ due = temp

Stored == Held /\ Prepared

\* A rewrite that is not to be forgotten has lost no line.
LEMMA TakesAll ==
    ASSUME CrudTypes, NEW d, TakesPlace(d), ~forgotten(excuses')
    PROVE  believed' = due /\ due' = d /\ (users = NoFile \/ allOn(users))
<1>1. /\ believed' = due /\ due' = d
      /\ excuses' = excuses \cup when("dropped", \E i \in DOMAIN lines : lines[i].end # "on")
  BY DEF TakesPlace, Note
<1>2. ~\E i \in DOMAIN lines : lines[i].end # "on"
  BY <1>1 DEF forgotten, when
<1>3. CASE users # NoFile
  <2>1. lines = users /\ DOMAIN users = 1 .. Len(users)
    BY <1>3, RecordsNow, LenProperties DEF CrudTypes
  <2> QED BY <1>1, <1>2, <2>1 DEF allOn
<1> QED BY <1>1, <1>3

LEMMA StepKeepsStored ==
    ASSUME CrudTypes, CrudTypes', Stored, Next, clean', ~forgotten(excuses')
    PROVE  Stored'
<1>1. /\ users \in Seq(Line) \cup {NoFile}
      /\ pc \in {"menu", "copying", "remove", "rename", "down"}
      /\ copied \in Nat /\ (pc \in {"menu", "down"} => copied = 0)
      /\ pc \in {"copying", "remove", "rename"} => temp \in Seq(Line)
      /\ pc \in {"copying", "remove"} => users # NoFile
  BY DEF CrudTypes
<1>2. /\ Held
      /\ pc = "copying" /\ allOn(users) => copiesInto(due, temp, users, copied)
      /\ pc = "remove" /\ allOn(users) => due = temp
      /\ pc = "rename" => (users # NoFile /\ ~allOn(users)) \/ due = temp
  BY DEF Stored, Prepared
<1>3. ASSUME pc' \in {"menu", "down"}, Held' PROVE Stored'
  BY <1>3 DEF Stored, Prepared
<1>4. ASSUME NEW id \in Ids, NEW n \in Names, NEW a \in Ages, createUser(id, n, a)
      PROVE  Stored'
  <2>1. pc = "menu" /\ pc' = "menu" /\ UNCHANGED temp
    BY <1>4, CreateClean
  <2>2. CASE UNCHANGED <<users, history>>
    <3>1. Held'
      BY <1>2, <2>1, <2>2 DEF Held, history
    <3> QED BY <1>3, <2>1, <3>1
  <2>3. ASSUME NEW l \in Line, users' = Append(lines, l), users' # NoFile,
               (users = NoFile /\ believed # <<>>) => "orphaned" \in excuses',
               believed' = Append(believed, l)
        PROVE  Stored'
    <3>1. users # NoFile \/ believed = <<>>
      BY <2>3 DEF forgotten
    <3>2. lines = believed
      BY <1>2, <3>1 DEF Held, lines
    <3>3. Held'
      BY <2>3, <3>2 DEF Held
    <3> QED BY <1>3, <2>1, <3>3
  <2> QED BY <1>4, <2>2, <2>3, CreateClean
<1>5. ASSUME NEW id \in Ids, NEW kind \in {"update", "delete"}, begin(kind, id)
      PROVE  Stored'
  <2>1. users # NoFile /\ pc = "menu" /\ UNCHANGED <<users, copied>> /\ users = believed
    BY <1>2, <1>5 DEF begin, Held
  <2>2. CASE UNCHANGED <<pc, history>>
    <3>1. Held'
      BY <2>1, <2>2 DEF Held, history
    <3> QED BY <1>3, <2>1, <2>2, <3>1
  <2>3. CASE temp' = <<>> /\ pc' = "copying" /\ Note(believed, believed, {})
    <3>1. believed' = believed /\ due' = believed
      BY <2>3 DEF Note
    <3>2. Held'
      BY <2>1, <3>1 DEF Held
    <3>3. copiesInto(due', temp', users', copied')
      <4>1. users \in Seq(Line) /\ Len(users) \in Nat /\ copied = 0
        BY <1>1, <2>1, LenProperties
      <4>2. due' = users /\ temp' = <<>> /\ Len(<<>>) = 0 /\ users' = users /\ copied' = 0
        BY <2>1, <2>3, <3>1, <4>1, EmptySeq
      <4>3. copiesInto(users, <<>>, users, 0)
        BY <4>1, EmptySeq DEF copiesInto
      <4> QED BY <4>2, <4>3
    <3> QED BY <2>3, <3>2, <3>3 DEF Stored, Prepared
  <2> QED BY <1>5, <2>1, <2>2, <2>3 DEF begin
<1>6. CASE readUsers
  <2>1. pc = "menu" /\ pc' = "menu" /\ UNCHANGED <<users, temp, history>>
    BY <1>6 DEF readUsers
  <2>2. Held'
    BY <1>2, <2>1 DEF Held, history
  <2> QED BY <1>3, <2>1, <2>2
<1>7. CASE copyRecord
  <2> DEFINE r == records[copied + 1]
  <2>1. /\ pc = "copying" /\ UNCHANGED <<users, pc>> /\ copied' = copied + 1
        /\ copied < Len(records) /\ temp \in Seq(Line) /\ believed' = believed
    BY <1>7, CopyClean
  <2>2. users \in Seq(Line) /\ lines = users /\ users # NoFile
    BY <1>1, <2>1, RecordsNow
  <2>3. Held'
    BY <1>2, <2>1, <2>2 DEF Held
  <2>4. ASSUME allOn(users) PROVE copiesInto(due', temp', users, copied + 1)
    <3>1. Len(records) = Len(users) /\ \A i \in 1 .. Len(users) : users[i] = asLine(records[i])
      BY <2>2, <2>4, AllRead, RecordsNow
    <3>2. copied < Len(users) /\ users[copied + 1] = asLine(r)
      BY <1>7, <2>1, <3>1, CopyClean
    <3>3. \/ temp' = Append(temp, users[copied + 1]) /\ due' = due
          \/ temp' = temp /\ due' = RemoveAt(due, Len(temp) + 1)
          \/ \E l \in Line : temp' = Append(temp, l) /\ due' = [due EXCEPT ![Len(temp) + 1] = l]
      BY <1>7, <3>2, CopyClean
    <3>4. copiesInto(due, temp, users, copied)
      BY <1>2, <2>1, <2>4
    <3> QED BY <1>1, <2>1, <2>2, <3>2, <3>3, <3>4, CopiesNext
  <2> QED BY <2>1, <2>3, <2>4 DEF Stored, Prepared
<1>8. CASE closeFiles
  <2>1. /\ pc = "copying" /\ pc' = "remove" /\ copied = Len(records)
        /\ UNCHANGED <<users, temp, history>>
    BY <1>8, CloseClean
  <2>2. users \in Seq(Line) /\ users # NoFile /\ temp \in Seq(Line) /\ lines = users
    BY <1>1, <2>1, RecordsNow
  <2>3. Held'
    BY <1>2, <2>1, <2>2 DEF Held, history
  <2>4. ASSUME allOn(users) PROVE due = temp
    <3>1. Len(records) = Len(users)
      BY <2>2, <2>4, AllRead, RecordsNow
    <3>2. copiesInto(due, temp, users, Len(users))
      BY <1>2, <2>1, <2>4, <3>1
    <3>3. /\ due \in Seq(Line) /\ Len(due) = Len(temp) /\ \A i \in 1 .. Len(temp) : due[i] = temp[i]
      <4>1. Len(users) \in Nat /\ Len(temp) \in Nat
        BY <2>2, LenProperties
      <4> QED BY <3>2, <4>1 DEF copiesInto
    <3> QED BY <2>2, <3>3, SeqEqual
  <2> QED BY <2>1, <2>3, <2>4 DEF Stored, Prepared, history
<1>9. CASE removeFile
  <2>1. /\ pc = "remove" /\ pc' = "rename" /\ UNCHANGED temp
        /\ (users' = NoFile /\ TakesPlace(due)) \/ UNCHANGED <<users, history>>
    BY <1>9 DEF removeFile
  <2>2. CASE users' = NoFile /\ TakesPlace(due)
    <3>1. believed' = due /\ due' = due /\ allOn(users)
      BY <1>1, <2>1, <2>2, TakesAll
    <3>2. due = temp
      BY <1>2, <2>1, <3>1
    <3> QED BY <2>1, <2>2, <3>1, <3>2 DEF Stored, Held, Prepared
  <2>3. CASE UNCHANGED <<users, history>>
    <3>1. users # NoFile /\ users = believed
      BY <1>1, <1>2, <2>1 DEF Held
    <3> QED BY <1>2, <2>1, <2>3, <3>1 DEF Stored, Held, Prepared, history
  <2> QED BY <2>1, <2>2, <2>3
<1>10. CASE renameFile
  <2>1. /\ pc = "rename" /\ pc' = "menu"
        /\ \/ users' = temp /\ temp' = NoFile /\ TakesPlace(<<>>)
           \/ UNCHANGED <<users, temp>> /\ Note(believed, <<>>, {})
    BY <1>10 DEF renameFile
  <2>2. CASE users' = temp /\ temp' = NoFile /\ TakesPlace(<<>>)
    <3>1. believed' = due /\ (users = NoFile \/ allOn(users))
      BY <2>2, TakesAll
    <3>2. users' = believed' /\ users' # NoFile
      BY <1>1, <1>2, <2>1, <2>2, <3>1, FilesAreNot
    <3> QED BY <1>3, <2>1, <3>2 DEF Held
  <2>3. CASE UNCHANGED <<users, temp>> /\ Note(believed, <<>>, {})
    <3>1. believed' = believed
      BY <2>3 DEF Note
    <3>2. Held'
      BY <1>2, <2>1, <2>3, <3>1 DEF Held
    <3> QED BY <1>3, <2>1, <3>2
  <2> QED BY <2>1, <2>2, <2>3
<1>11. CASE Crash
  <2>1. /\ pc' = "down" /\ (pc = "copying" \/ UNCHANGED temp)
        /\ \/ UNCHANGED users /\ Note(believed, <<>>, {})
           \/ /\ pc = "menu" /\ users = NoFile /\ users' = <<>>
              /\ Note(believed, <<>>, when("orphaned", believed # <<>>))
    BY <1>11 DEF Crash
  <2>2. CASE UNCHANGED users /\ Note(believed, <<>>, {})
    <3>1. believed' = believed
      BY <2>2 DEF Note
    <3>2. Held'
      BY <1>1, <1>2, <2>1, <2>2, <3>1 DEF Held
    <3> QED BY <1>3, <2>1, <3>2
  <2>3. CASE /\ users' = <<>> /\ Note(believed, <<>>, when("orphaned", believed # <<>>))
    <3>1. believed' = believed /\ believed = <<>>
      BY <2>3 DEF Note, forgotten, when
    <3>2. <<>> # NoFile
      BY FilesAreNot, EmptySeq
    <3>3. Held'
      BY <2>3, <3>1, <3>2 DEF Held
    <3> QED BY <1>3, <2>1, <3>3
  <2> QED BY <2>1, <2>2, <2>3
<1>12. CASE Restart
  <2>1. pc' = "menu" /\ pc = "down" /\ UNCHANGED <<users, temp, history>>
    BY <1>12 DEF Restart
  <2>2. Held'
    BY <1>2, <2>1 DEF Held, history
  <2> QED BY <1>3, <2>1, <2>2
<1> QED BY <1>4, <1>5, <1>6, <1>7, <1>8, <1>9, <1>10, <1>11, <1>12 DEF Next

\* Whatever step the program dies after, and whichever call fails unnoticed, all
\* users that were stored are in one of the two files as they were typed, except
\* after one of the four things named.
THEOREM RecoveryCorrect == Spec => []Recoverable
<1> DEFINE Inv == (clean => CrudTypes) /\ (~forgotten(excuses) => Stored)
<1>1. Init => Inv
  BY InitTypes DEF Init, Stored, Held, Prepared
<1>2. Inv /\ [Next]_vars => Inv'
  <2>1. ASSUME Inv, UNCHANGED vars PROVE Inv'
    BY <2>1 DEF vars, history, CrudTypes, Stored, Held, Prepared, clean
  <2>2. ASSUME Inv, Next PROVE Inv'
    <3>1. ASSUME clean' PROVE CrudTypes'
      BY <2>2, <3>1, Excuses, StepKeepsTypes
    <3>2. ASSUME ~forgotten(excuses') PROVE Stored'
      BY <2>2, <3>1, <3>2, Excuses, StepKeepsStored
    <3> QED BY <3>1, <3>2
  <2> QED BY <2>1, <2>2
<1>3. Inv => Recoverable
  BY DEF Stored, Held, Recoverable, lines
<1> QED BY <1>1, <1>2, <1>3, PTL DEF Spec

-----------------------------------------------------------------------------
(* Ids, until something spoils them.                                         *)

\* Lists of users with different ids.
Distinct == {s \in Seq(Known) : \A i, j \in 1 .. Len(s) : s[i].id = s[j].id => i = j}

\* A line behind the others is read after them, or not at all.
LEMMA ParseAppend ==
    ASSUME NEW ls \in Seq(Line), NEW x \in Line
    PROVE  \/ parse(Append(ls, x)) = parse(ls)
           \/ /\ parse(Append(ls, x)) = Append(parse(ls), x.recs[1])
              /\ x.recs # <<>> /\ x.recs[1] \in Known
<1> DEFINE l2 == Append(ls, x)
           p  == parse(ls)
           p2 == parse(l2)
           n  == Len(ls)
<1>1. /\ n \in Nat /\ l2 \in Seq(Line) /\ Len(l2) = n + 1 /\ l2[n + 1] = x
      /\ \A i \in 1 .. n : l2[i] = ls[i]
  BY LenProperties, AppendProperties
<1>2. /\ p \in Seq(Known) /\ Len(p) \in Readable(ls)
      /\ \A k \in Readable(ls) : k <= Len(p)
      /\ \A i \in 1 .. Len(p) : p[i] = ls[i].recs[1]
  BY ParseProps
<1>3. /\ p2 \in Seq(Known) /\ Len(p2) \in Readable(l2)
      /\ \A k \in Readable(l2) : k <= Len(p2)
      /\ \A i \in 1 .. Len(p2) : p2[i] = l2[i].recs[1]
  BY <1>1, ParseProps
<1>4. Len(p) \in 0 .. n /\ Len(p2) \in 0 .. n + 1
  BY <1>1, <1>2, <1>3 DEF Readable
<1> HIDE DEF l2, p, p2
<1>5. \A k \in 0 .. n : k \in Readable(ls) <=> k \in Readable(l2)
  <2> SUFFICES ASSUME NEW k \in 0 .. n PROVE k \in Readable(ls) <=> k \in Readable(l2)
    OBVIOUS
  <2>1. k \in 0 .. n + 1 /\ \A i \in 1 .. k : l2[i] = ls[i]
    BY <1>1
  <2> QED BY <1>1, <2>1 DEF Readable
<1>6. CASE Len(p2) <= n
  <2>1. Len(p2) = Len(p)
    <3>1. Len(p2) \in 0 .. n /\ Len(p2) \in Readable(ls) /\ Len(p) \in Readable(l2)
      BY <1>1, <1>2, <1>3, <1>4, <1>5, <1>6
    <3>2. Len(p2) <= Len(p) /\ Len(p) <= Len(p2)
      BY <1>2, <1>3, <3>1
    <3> QED BY <1>1, <1>4, <3>2
  <2>2. \A i \in 1 .. Len(p) : p2[i] = p[i]
    <3> SUFFICES ASSUME NEW i \in 1 .. Len(p) PROVE p2[i] = p[i]
      OBVIOUS
    <3>1. i \in 1 .. n
      BY <1>1, <1>4
    <3>2. l2[i] = ls[i] /\ p2[i] = l2[i].recs[1] /\ p[i] = ls[i].recs[1]
      BY <1>1, <1>2, <1>3, <2>1, <3>1
    <3> QED BY <3>2
  <2>3. p2 = p
    BY <1>2, <1>3, <2>1, <2>2, SeqEqual
  <2> QED BY <2>3 DEF p, p2, l2
<1>7. CASE Len(p2) = n + 1
  <2>1. x.recs # <<>> /\ n \in Readable(ls)
    <3>1. \A i \in 1 .. n + 1 :
            l2[i].recs # <<>> /\ (i < n + 1 => l2[i].end = "on")
      BY <1>3, <1>7 DEF Readable
    <3>2. n + 1 \in 1 .. n + 1 /\ \A i \in 1 .. n : i \in 1 .. n + 1 /\ i < n + 1
      BY <1>1
    <3>3. x.recs # <<>>
      BY <1>1, <3>1, <3>2
    <3>4. \A i \in 1 .. n : ls[i].recs # <<>> /\ ls[i].end = "on"
      BY <1>1, <3>1, <3>2
    <3> QED BY <1>1, <3>1, <3>3, <3>4 DEF Readable
  <2>2. Len(p) = n
    BY <1>2, <1>4, <2>1
  <2>3. x.recs[1] \in Known
    BY <2>1, LineHas
  <2>4. /\ Append(p, x.recs[1]) \in Seq(Known) /\ Len(Append(p, x.recs[1])) = n + 1
        /\ Append(p, x.recs[1])[n + 1] = x.recs[1]
        /\ \A i \in 1 .. n : Append(p, x.recs[1])[i] = p[i]
    BY <1>2, <2>2, <2>3, AppendProperties
  <2>5. \A i \in 1 .. n + 1 : p2[i] = Append(p, x.recs[1])[i]
    <3> SUFFICES ASSUME NEW i \in 1 .. n + 1 PROVE p2[i] = Append(p, x.recs[1])[i]
      OBVIOUS
    <3>1. i = n + 1 \/ i \in 1 .. n
      BY <1>1
    <3>2. p2[i] = l2[i].recs[1]
      BY <1>3, <1>7
    <3> QED BY <1>1, <1>2, <2>2, <2>4, <3>1, <3>2
  <2>6. p2 = Append(p, x.recs[1])
    BY <1>3, <1>7, <2>4, <2>5, SeqEqual
  <2> QED BY <2>1, <2>3, <2>6 DEF p, p2, l2
<1> QED BY <1>1, <1>4, <1>6, <1>7

LEMMA AppendDistinct ==
    ASSUME NEW s \in Distinct, NEW x \in Known,
           \A i \in 1 .. Len(s) : s[i].id # x.id
    PROVE  Append(s, x) \in Distinct
<1>1. s \in Seq(Known) /\ \A i, j \in 1 .. Len(s) : s[i].id = s[j].id => i = j
  BY DEF Distinct
<1>2. /\ Append(s, x) \in Seq(Known) /\ Len(Append(s, x)) = Len(s) + 1 /\ Len(s) \in Nat
      /\ \A i \in 1 .. Len(s) : Append(s, x)[i] = s[i]
      /\ Append(s, x)[Len(s) + 1] = x
  BY <1>1, AppendProperties, LenProperties
<1>3. \A i \in 1 .. Len(s) + 1 : i \in 1 .. Len(s) \/ i = Len(s) + 1
  BY <1>2
<1> QED BY <1>1, <1>2, <1>3 DEF Distinct

-----------------------------------------------------------------------------
(* Rewriting.                                                                *)

\* The list b without the user id.
without(b, id) ==
    IF \E i \in DOMAIN b : b[i].id = id
    THEN RemoveAt(b, CHOOSE i \in DOMAIN b : b[i].id = id) ELSE b

LEMMA WithoutProps ==
    ASSUME NEW b \in Distinct, NEW id
    PROVE  /\ without(b, id) \in Seq(Known)
           /\ (\A i \in 1 .. Len(b) : b[i].id # id) => without(b, id) = b
           /\ \A p \in 1 .. Len(b) : b[p].id = id =>
                /\ Len(without(b, id)) = Len(b) - 1
                /\ \A i \in 1 .. Len(b) - 1 :
                     without(b, id)[i] = IF i < p THEN b[i] ELSE b[i + 1]
<1>1. /\ b \in Seq(Known) /\ DOMAIN b = 1 .. Len(b)
      /\ \A i, j \in 1 .. Len(b) : b[i].id = b[j].id => i = j
  BY LenProperties DEF Distinct
<1>2. CASE \A i \in 1 .. Len(b) : b[i].id # id
  BY <1>1, <1>2 DEF without
<1>3. ASSUME NEW p \in 1 .. Len(b), b[p].id = id
      PROVE  without(b, id) = RemoveAt(b, p)
  <2>1. \E i \in DOMAIN b : b[i].id = id
    BY <1>1, <1>3
  <2>2. (CHOOSE i \in DOMAIN b : b[i].id = id) = p
    <3> DEFINE q == CHOOSE i \in DOMAIN b : b[i].id = id
    <3>1. q \in DOMAIN b /\ b[q].id = id
      BY <2>1
    <3> HIDE DEF q
    <3> QED BY <1>1, <1>3, <3>1
  <2> QED BY <2>1, <2>2 DEF without
<1>4. ASSUME NEW p \in 1 .. Len(b), b[p].id = id
      PROVE  /\ without(b, id) \in Seq(Known)
             /\ Len(without(b, id)) = Len(b) - 1
             /\ \A i \in 1 .. Len(b) - 1 :
                  without(b, id)[i] = IF i < p THEN b[i] ELSE b[i + 1]
  <2> DEFINE r == RemoveAt(b, p)
  <2>1. /\ r \in Seq(Known) /\ Len(r) = Len(b) - 1
        /\ \A i \in 1 .. Len(b) - 1 : r[i] = IF i < p THEN b[i] ELSE b[i + 1]
    BY <1>1, RemoveAtShifts
  <2>2. without(b, id) = r
    BY <1>3, <1>4
  <2> HIDE DEF r
  <2> QED BY <2>1, <2>2
<1> QED BY <1>2, <1>4

LEMMA WithoutDistinct ==
    ASSUME NEW b \in Distinct, NEW id
    PROVE  without(b, id) \in Distinct
<1> DEFINE w == without(b, id)
<1>1. /\ b \in Seq(Known) /\ Len(b) \in Nat /\ w \in Seq(Known)
      /\ \A i, j \in 1 .. Len(b) : b[i].id = b[j].id => i = j
  BY WithoutProps, LenProperties DEF Distinct
<1>2. CASE \A i \in 1 .. Len(b) : b[i].id # id
  BY <1>2, WithoutProps
<1>3. ASSUME NEW p \in 1 .. Len(b), b[p].id = id PROVE w \in Distinct
  <2> DEFINE at(i) == IF i < p THEN i ELSE i + 1
  <2>1. Len(w) = Len(b) - 1 /\ \A i \in 1 .. Len(b) - 1 : w[i] = IF i < p THEN b[i] ELSE b[i + 1]
    BY <1>3, WithoutProps
  <2> HIDE DEF w
  <2>2. \A i \in 1 .. Len(w) : at(i) \in 1 .. Len(b) /\ w[i] = b[at(i)]
    BY <1>1, <2>1
  <2>3. \A i, j \in 1 .. Len(w) : at(i) = at(j) => i = j
    BY <1>1, <2>1
  <2> HIDE DEF at
  <2>4. \A i, j \in 1 .. Len(w) : w[i].id = w[j].id => i = j
    BY <1>1, <2>2, <2>3
  <2> QED BY <1>1, <2>4 DEF Distinct
<1>4. w \in Distinct
  BY <1>2, <1>3
<1> QED BY <1>4

\* Lines of the list b rewritten, as far as it has come: with the user of an update
\* replaced, or without the one of a delete.
Rewrites(b, o) ==
    {t \in Seq(Line) :
        \/ /\ o.kind = "update" /\ Len(t) <= Len(b)
           /\ \A i \in 1 .. Len(t) : \/ t[i] = asLine(b[i])
                                      \/ (b[i].id = o.id /\ (t[i].recs # <<>> => t[i].recs[1].id = o.id))
        \/ /\ o.kind = "delete" /\ Len(t) <= Len(without(b, o.id))
           /\ \A i \in 1 .. Len(t) : t[i] = asLine(without(b, o.id)[i])}

\* Reading does not find more than was written, in the order it was.
LEMMA RewriteReads ==
    ASSUME NEW b \in Distinct, NEW o, NEW t \in Rewrites(b, o)
    PROVE  /\ parse(t) \in Seq(Known) /\ Len(parse(t)) \in Nat /\ Len(parse(t)) <= Len(t)
           /\ \/ /\ o.kind = "update" /\ Len(parse(t)) <= Len(b)
                 /\ \A i \in 1 .. Len(parse(t)) :
                      parse(t)[i] = b[i] \/ (b[i].id = o.id /\ parse(t)[i].id = o.id)
              \/ /\ o.kind = "delete" /\ Len(parse(t)) <= Len(without(b, o.id))
                 /\ \A i \in 1 .. Len(parse(t)) : parse(t)[i] = without(b, o.id)[i]
<1> DEFINE p == parse(t)
           w == without(b, o.id)
<1>1. /\ b \in Seq(Known) /\ Len(b) \in Nat /\ w \in Seq(Known) /\ Len(w) \in Nat
      /\ t \in Seq(Line) /\ Len(t) \in Nat
  BY WithoutProps, LenProperties DEF Distinct, Rewrites
<1>2. /\ p \in Seq(Known) /\ Len(p) \in Nat /\ Len(p) <= Len(t)
      /\ \A i \in 1 .. Len(p) : p[i] = t[i].recs[1] /\ t[i].recs # <<>> /\ i \in 1 .. Len(t)
  <2>1. p \in Seq(Known) /\ Len(p) \in Readable(t) /\ \A i \in 1 .. Len(p) : p[i] = t[i].recs[1]
    BY <1>1, ParseProps
  <2> HIDE DEF p
  <2> QED BY <1>1, <2>1 DEF Readable
<1> HIDE DEF p, w
<1>3. CASE /\ o.kind = "update" /\ Len(t) <= Len(b)
           /\ \A i \in 1 .. Len(t) : \/ t[i] = asLine(b[i])
                                      \/ (b[i].id = o.id /\ (t[i].recs # <<>> => t[i].recs[1].id = o.id))
  <2>1. ASSUME NEW i \in 1 .. Len(p) PROVE p[i] = b[i] \/ (b[i].id = o.id /\ p[i].id = o.id)
    <3>1. i \in 1 .. Len(t) /\ i \in 1 .. Len(b) /\ b[i] \in Known
      BY <1>1, <1>2, <1>3, ElementOfSeq
    <3> QED BY <1>2, <1>3, <3>1, AsLine
  <2>2. Len(p) <= Len(b)
    BY <1>1, <1>2, <1>3
  <2> QED BY <1>2, <1>3, <2>1, <2>2 DEF p, w
<1>4. CASE /\ o.kind = "delete" /\ Len(t) <= Len(w)
           /\ \A i \in 1 .. Len(t) : t[i] = asLine(w[i])
  <2>1. ASSUME NEW i \in 1 .. Len(p) PROVE p[i] = w[i]
    <3>1. i \in 1 .. Len(t) /\ i \in 1 .. Len(w) /\ w[i] \in Known
      BY <1>1, <1>2, <1>4, ElementOfSeq
    <3> QED BY <1>2, <1>4, <3>1, AsLine
  <2>2. Len(p) <= Len(w)
    BY <1>1, <1>2, <1>4
  <2> QED BY <1>2, <1>4, <2>1, <2>2 DEF p, w
<1> QED BY <1>3, <1>4 DEF Rewrites, w

LEMMA RewriteDistinct ==
    ASSUME NEW b \in Distinct, NEW o, NEW t \in Rewrites(b, o)
    PROVE  parse(t) \in Distinct
<1> DEFINE p == parse(t)
           w == without(b, o.id)
<1>1. /\ p \in Seq(Known) /\ Len(p) \in Nat
      /\ \/ /\ Len(p) <= Len(b)
            /\ \A i \in 1 .. Len(p) : p[i].id = b[i].id
         \/ /\ Len(p) <= Len(w)
            /\ \A i \in 1 .. Len(p) : p[i].id = w[i].id
  BY RewriteReads
<1>2. w \in Distinct
  BY WithoutDistinct
<1> HIDE DEF p, w
<1>3. ASSUME NEW s \in Distinct, Len(p) <= Len(s), \A i \in 1 .. Len(p) : p[i].id = s[i].id
      PROVE  p \in Distinct
  <2>1. Len(s) \in Nat /\ \A i, j \in 1 .. Len(s) : s[i].id = s[j].id => i = j
    BY LenProperties DEF Distinct
  <2>2. \A i \in 1 .. Len(p) : i \in 1 .. Len(s)
    BY <1>1, <1>3, <2>1
  <2> QED BY <1>1, <1>3, <2>1, <2>2 DEF Distinct
<1>4. p \in Distinct
  BY <1>1, <1>2, <1>3
<1> QED BY <1>4 DEF p

\* How many lines temp.txt has when c records are read.
taken(b, o, c) ==
    IF o.kind = "delete" /\ \E j \in 1 .. c : b[j].id = o.id THEN c - 1 ELSE c

\* One more record is copied, replaced or left out.
LEMMA RewriteNext ==
    ASSUME NEW b \in Distinct, NEW o, o.kind \in {"update", "delete"},
           NEW c \in 0 .. Len(b) - 1,
           NEW t \in Rewrites(b, o), Len(t) = taken(b, o, c), NEW u,
           \/ b[c + 1].id # o.id /\ u = Append(t, asLine(b[c + 1]))
           \/ b[c + 1].id = o.id /\ o.kind = "delete" /\ u = t
           \/ /\ b[c + 1].id = o.id /\ o.kind = "update"
              /\ \E l \in Line : (l.recs # <<>> => l.recs[1].id = o.id) /\ u = Append(t, l)
    PROVE  u \in Rewrites(b, o) /\ Len(u) = taken(b, o, c + 1)
<1>1. /\ t \in Seq(Line) /\ Len(t) \in Nat /\ b \in Seq(Known) /\ Len(b) \in Nat
      /\ c \in Nat /\ c + 1 \in 1 .. Len(b)
      /\ \A i, j \in 1 .. Len(b) : b[i].id = b[j].id => i = j
  BY LenProperties DEF Rewrites, Distinct
<1>2. asLine(b[c + 1]) \in Line
  BY <1>1, ElementOfSeq, AsLine
<1>3. \A r \in Line : /\ Append(t, r) \in Seq(Line) /\ Len(Append(t, r)) = Len(t) + 1
                      /\ Append(t, r)[Len(t) + 1] = r
                      /\ \A i \in 1 .. Len(t) : Append(t, r)[i] = t[i]
  BY <1>1, AppendProperties
<1>4. \A i \in 1 .. Len(t) + 1 : i \in 1 .. Len(t) \/ i = Len(t) + 1
  BY <1>1
<1>5. \A j \in 1 .. c + 1 : j \in 1 .. c \/ j = c + 1
  BY <1>1
<1>6. \A j \in 1 .. c : j \in 1 .. c + 1
  BY <1>1
<1> DEFINE replaces(q, i) == \/ q[i] = asLine(b[i])
                            \/ (b[i].id = o.id /\ (q[i].recs # <<>> => q[i].recs[1].id = o.id))
<1>7. CASE o.kind = "update"
  <2>1. Len(t) = c /\ taken(b, o, c + 1) = c + 1
    BY <1>7 DEF taken
  <2>2. PICK r \in Line : /\ u = Append(t, r)
                          /\ \/ r = asLine(b[c + 1])
                             \/ (b[c + 1].id = o.id /\ (r.recs # <<>> => r.recs[1].id = o.id))
    BY <1>2, <1>7
  <2>3. \A i \in 1 .. c : replaces(t, i)
    BY <1>7, <2>1 DEF Rewrites
  <2>4. u \in Seq(Line) /\ Len(u) = c + 1
    BY <1>3, <2>1, <2>2
  <2>5. \A i \in 1 .. c + 1 : replaces(u, i)
    <3>1. u[c + 1] = r /\ \A i \in 1 .. c : u[i] = t[i]
      BY <1>3, <2>1, <2>2
    <3>2. replaces(u, c + 1)
      BY <2>2, <3>1
    <3>3. \A i \in 1 .. c : replaces(u, i)
      BY <2>3, <3>1
    <3> HIDE DEF replaces
    <3> QED BY <1>5, <3>2, <3>3
  <2> QED BY <1>1, <1>7, <2>1, <2>4, <2>5 DEF Rewrites
<1>8. CASE o.kind = "delete"
  <2> DEFINE w == without(b, o.id)
  <2>1. w \in Seq(Known) /\ Len(w) \in Nat
    BY WithoutProps, LenProperties
  <2>2. Len(t) <= Len(w) /\ \A i \in 1 .. Len(t) : t[i] = asLine(w[i])
    BY <1>8 DEF Rewrites
  <2> HIDE DEF w
  <2>3. CASE b[c + 1].id = o.id
    <3>1. u = t
      BY <1>8, <2>3
    <3>2. \A j \in 1 .. c : b[j].id # o.id
      BY <1>1, <2>3
    <3>3. Len(t) = c
      BY <3>2 DEF taken
    <3>4. taken(b, o, c + 1) = c
      <4>1. c + 1 \in 1 .. c + 1
        BY <1>1
      <4> QED BY <1>1, <1>8, <2>3, <4>1 DEF taken
    <3> QED BY <3>1, <3>3, <3>4
  <2>4. CASE b[c + 1].id # o.id
    <3>1. u = Append(t, asLine(b[c + 1]))
      BY <1>8, <2>4
    <3>2. u \in Seq(Line) /\ Len(u) = Len(t) + 1 /\ u[Len(t) + 1] = asLine(b[c + 1])
          /\ \A i \in 1 .. Len(t) : u[i] = t[i]
      BY <1>2, <1>3, <3>1
    <3>3. Len(t) + 1 = taken(b, o, c + 1)
      <4>1. CASE \E j \in 1 .. c : b[j].id = o.id
        <5>1. \E j \in 1 .. c + 1 : b[j].id = o.id
          BY <1>6, <4>1
        <5> QED BY <1>1, <1>8, <4>1, <5>1 DEF taken
      <4>2. CASE ~\E j \in 1 .. c : b[j].id = o.id
        <5>1. ~\E j \in 1 .. c + 1 : b[j].id = o.id
          BY <1>5, <2>4, <4>2
        <5> QED BY <1>1, <4>2, <5>1 DEF taken
      <4> QED BY <4>1, <4>2
    <3>4. Len(t) + 1 <= Len(w) /\ w[Len(t) + 1] = b[c + 1]
      <4>1. CASE \A i \in 1 .. Len(b) : b[i].id # o.id
        <5>1. w = b
          BY <4>1, WithoutProps DEF w
        <5>2. ~\E j \in 1 .. c : b[j].id = o.id
          BY <1>1, <4>1
        <5>3. Len(t) = c
          BY <5>2 DEF taken
        <5> QED BY <1>1, <5>1, <5>3
      <4>2. ASSUME NEW p \in 1 .. Len(b), b[p].id = o.id
            PROVE  Len(t) + 1 <= Len(w) /\ w[Len(t) + 1] = b[c + 1]
        <5>1. /\ Len(w) = Len(b) - 1
              /\ \A i \in 1 .. Len(b) - 1 : w[i] = IF i < p THEN b[i] ELSE b[i + 1]
          BY <4>2, WithoutProps DEF w
        <5>2. p # c + 1
          BY <2>4, <4>2
        <5>3. CASE p <= c
          <6>1. p \in 1 .. c
            BY <1>1, <5>3
          <6>2. Len(t) = c - 1
            BY <1>8, <4>2, <6>1 DEF taken
          <6>3. c \in 1 .. Len(b) - 1 /\ ~(c < p) /\ (c - 1) + 1 = c
            BY <1>1, <5>3, <6>1
          <6> QED BY <1>1, <5>1, <6>2, <6>3
        <5>4. CASE p > c + 1
          <6>1. ~\E j \in 1 .. c : b[j].id = o.id
            BY <1>1, <4>2, <5>4
          <6>2. Len(t) = c
            BY <6>1 DEF taken
          <6>3. c + 1 \in 1 .. Len(b) - 1 /\ c + 1 < p
            BY <1>1, <5>4
          <6> QED BY <1>1, <5>1, <6>2, <6>3
        <5> QED BY <1>1, <5>2, <5>3, <5>4
      <4> QED BY <4>1, <4>2
    <3>5. \A i \in 1 .. Len(u) : u[i] = asLine(w[i])
      BY <1>4, <2>2, <3>2, <3>4
    <3> QED BY <1>8, <3>2, <3>3, <3>4, <3>5 DEF Rewrites, w
  <2> QED BY <2>3, <2>4
<1> QED BY <1>7, <1>8

\* The ids of users.txt differ, and temp.txt is as much of the rewrite as has been
\* done of it.
IdsInv ==
    /\ records \in Distinct
    /\ pc \in {"copying", "remove"} \/ (pc = "rename" /\ users # NoFile) =>
         temp \in Rewrites(records, op)
    /\ pc = "copying" => copied <= Len(records) /\ Len(temp) = taken(records, op, copied)
    /\ pc = "rename" => parse(temp) \in Distinct

LEMMA EmptyDistinct == <<>> \in Distinct
<1>1. <<>> \in Seq(Known) /\ Len(<<>>) = 0
  BY EmptySeq
<1> QED BY <1>1 DEF Distinct

LEMMA InitIds == Init => IdsInv
<1> SUFFICES ASSUME Init PROVE IdsInv
  OBVIOUS
<1>1. pc = "menu" /\ users = NoFile
  BY DEF Init
<1>2. records \in Distinct
  BY <1>1, RecordsNow, EmptyDistinct
<1> QED BY <1>1, <1>2 DEF IdsInv

\* A record is added whose id was free, or none.
LEMMA CreateIds ==
    ASSUME CrudTypes, ~spoilt', NEW id \in Ids, NEW n \in Names, NEW a \in Ages,
           createUser(id, n, a)
    PROVE  \/ records' = records
           \/ \E u \in Known : /\ u.id = id /\ records' = Append(records, u)
                               /\ \A i \in 1 .. Len(records) : records[i].id # id
<1>1. clean' /\ "unchecked" \notin excuses'
  BY DEF spoilt
<1>2. CASE users' = users
  BY <1>2, RecordsNow
<1>3. ASSUME NEW l \in Line, l.recs # <<>> => l.recs[1].id = id,
             users' = Append(lines, l), users' # NoFile, ~userIdExists(id, TRUE)
      PROVE  \/ records' = records
             \/ \E u \in Known : /\ u.id = id /\ records' = Append(records, u)
                                 /\ \A i \in 1 .. Len(records) : records[i].id # id
  <2>1. records = parse(lines) /\ records' = parse(Append(lines, l)) /\ lines \in Seq(Line)
    BY <1>3, RecordsNow, LinesProps
  <2>2. \/ records' = records
        \/ records' = Append(records, l.recs[1]) /\ l.recs # <<>> /\ l.recs[1] \in Known
    BY <2>1, ParseAppend
  <2>3. \A i \in 1 .. Len(records) : records[i].id # id
    <3>1. DOMAIN records = 1 .. Len(records)
      BY LinesProps, LenProperties
    <3> QED BY <1>3, <3>1 DEF userIdExists
  <2> QED BY <1>3, <2>2, <2>3
<1> QED BY <1>1, <1>2, <1>3, CreateClean

LEMMA StepKeepsIds ==
    ASSUME CrudTypes, CrudTypes', IdsInv, Next, ~spoilt'
    PROVE  IdsInv'
<1>0. clean'
  BY DEF spoilt
<1>1. /\ users \in Seq(Line) \cup {NoFile}
      /\ pc \in {"menu", "copying", "remove", "rename", "down"}
      /\ copied \in Nat /\ (pc \in {"menu", "down"} => copied = 0)
      /\ pc \in {"copying", "remove", "rename"} =>
           temp \in Seq(Line) /\ op.id \in Ids /\ op.kind \in {"update", "delete"}
      /\ pc \in {"copying", "remove"} => users # NoFile
  BY DEF CrudTypes
<1>2. /\ records \in Distinct
      /\ pc \in {"copying", "remove"} \/ (pc = "rename" /\ users # NoFile) =>
           temp \in Rewrites(records, op)
      /\ pc = "copying" => copied <= Len(records) /\ Len(temp) = taken(records, op, copied)
      /\ pc = "rename" => parse(temp) \in Distinct
  BY DEF IdsInv
<1>3. ASSUME records' \in Distinct, pc' \in {"menu", "down"} PROVE IdsInv'
  BY <1>3 DEF IdsInv
<1>4. ASSUME UNCHANGED users, pc' \in {"menu", "down"} PROVE IdsInv'
  BY <1>2, <1>3, <1>4, RecordsNow
<1>5. ASSUME NEW id \in Ids, NEW n \in Names, NEW a \in Ages, createUser(id, n, a)
      PROVE  IdsInv'
  <2>1. pc' = "menu"
    BY <1>5 DEF createUser
  <2>2. ASSUME NEW u \in Known, u.id = id, records' = Append(records, u),
               \A i \in 1 .. Len(records) : records[i].id # id
        PROVE  records' \in Distinct
    <3>1. \A i \in 1 .. Len(records) : records[i].id # u.id
      BY <2>2
    <3>2. Append(records, u) \in Distinct
      BY <1>2, <3>1, AppendDistinct
    <3> QED BY <2>2, <3>2
  <2>3. records' \in Distinct
    BY <1>2, <1>5, <2>2, CreateIds
  <2> QED BY <1>3, <2>1, <2>3
<1>6. ASSUME NEW id \in Ids, NEW kind \in {"update", "delete"}, begin(kind, id)
      PROVE  IdsInv'
  <2>1. UNCHANGED <<users, copied>> /\ pc = "menu" /\ copied = 0
    BY <1>1, <1>6 DEF begin
  <2>2. CASE UNCHANGED pc
    BY <1>4, <2>1, <2>2
  <2>3. CASE temp' = <<>> /\ pc' = "copying" /\ op' = [kind |-> kind, id |-> id]
    <3>1. records' = records /\ Len(records) \in Nat
      BY <2>1, RecordsNow, LinesProps
    <3>2. op'.kind \in {"update", "delete"}
      BY <2>3
    <3>3. Len(without(records, op'.id)) \in Nat
      BY <1>2, WithoutProps, LenProperties
    <3>4. <<>> \in Seq(Line) /\ Len(<<>>) = 0
      BY EmptySeq
    <3>5. temp' \in Rewrites(records, op')
      BY <2>3, <3>1, <3>2, <3>3, <3>4 DEF Rewrites
    <3>6. taken(records, op', 0) = 0
      BY DEF taken
    <3> QED BY <1>2, <2>1, <2>3, <3>1, <3>4, <3>5, <3>6 DEF IdsInv
  <2> QED BY <1>6, <2>2, <2>3 DEF begin
<1>7. CASE readUsers
  BY <1>4, <1>7 DEF readUsers
<1>8. CASE copyRecord
  <2>1. /\ pc = "copying" /\ copied < Len(records) /\ copied' = copied + 1
        /\ UNCHANGED <<users, pc, op>>
    BY <1>0, <1>8, CopyClean
  <2>2. records' = records /\ Len(records) \in Nat
    BY <2>1, RecordsNow, LinesProps
  <2>3. copied \in 0 .. Len(records) - 1
    BY <1>1, <2>1, <2>2
  <2>4. \/ /\ records[copied + 1].id # op.id
           /\ temp' = Append(temp, asLine(records[copied + 1]))
        \/ records[copied + 1].id = op.id /\ op.kind = "delete" /\ temp' = temp
        \/ /\ records[copied + 1].id = op.id /\ op.kind = "update"
           /\ \E l \in Line : (l.recs # <<>> => l.recs[1].id = op.id) /\ temp' = Append(temp, l)
    BY <1>0, <1>8, CopyClean
  <2>5. temp' \in Rewrites(records, op) /\ Len(temp') = taken(records, op, copied + 1)
    <3>1. /\ records \in Distinct /\ temp \in Rewrites(records, op)
          /\ Len(temp) = taken(records, op, copied) /\ op.kind \in {"update", "delete"}
      BY <1>1, <1>2, <2>1
    <3> QED BY <2>3, <2>4, <3>1, RewriteNext
  <2>6. copied + 1 <= Len(records)
    BY <2>2, <2>3
  <2> QED BY <1>2, <2>1, <2>2, <2>5, <2>6 DEF IdsInv
<1>9. CASE closeFiles
  <2>1. pc = "copying" /\ pc' = "remove" /\ UNCHANGED <<users, temp, op>>
    BY <1>0, <1>9, CloseClean
  <2> QED BY <1>2, <2>1, RecordsNow DEF IdsInv
<1>10. CASE removeFile
  <2>1. /\ pc = "remove" /\ pc' = "rename" /\ UNCHANGED <<temp, op>>
        /\ users' = NoFile \/ UNCHANGED users
    BY <1>10 DEF removeFile
  <2>2. temp \in Rewrites(records, op) /\ parse(temp) \in Distinct
    BY <1>2, <2>1, RewriteDistinct
  <2>3. CASE users' = NoFile
    <3>1. records' \in Distinct
      BY <2>3, RecordsNow, EmptyDistinct
    <3> QED BY <2>1, <2>2, <2>3, <3>1 DEF IdsInv
  <2>4. CASE UNCHANGED users
    <3>1. records' = records
      BY <2>4, RecordsNow
    <3> QED BY <1>2, <2>1, <2>2, <2>4, <3>1 DEF IdsInv
  <2> QED BY <2>1, <2>3, <2>4
<1>11. CASE renameFile
  <2>1. /\ pc = "rename" /\ pc' = "menu"
        /\ users' = temp \/ UNCHANGED users
    BY <1>11 DEF renameFile
  <2>2. CASE UNCHANGED users
    BY <1>4, <2>1, <2>2
  <2>3. CASE users' = temp
    <3>1. users' # NoFile
      BY <1>1, <2>1, <2>3, FilesAreNot
    <3>2. records' = parse(temp)
      BY <2>3, <3>1, RecordsNow
    <3> QED BY <1>2, <1>3, <2>1, <3>2
  <2> QED BY <2>1, <2>2, <2>3
<1>12. CASE Crash
  <2>1. pc' = "down" /\ users' \in {users, <<>>}
    BY <1>12 DEF Crash
  <2>2. records' \in Distinct
    BY <1>2, <2>1, RecordsNow, EmptyDistinct
  <2> QED BY <1>3, <2>1, <2>2
<1>13. CASE Restart
  BY <1>4, <1>13 DEF Restart
<1> QED BY <1>5, <1>6, <1>7, <1>8, <1>9, <1>10, <1>11, <1>12, <1>13 DEF Next

\* An id that was free when it was looked up stays the only one of its kind: what
\* the lookup could not read is never read later, and rewriting adds no id; until a
\* write is cut short, a name gives a further record or the lookup cannot be made.
THEOREM IdsCorrect == Spec => []UniqueIds
<1> DEFINE Inv == (clean => CrudTypes) /\ (~spoilt => IdsInv)
<1>1. Init => Inv
  BY InitTypes, InitIds
<1>2. Inv /\ [Next]_vars => Inv'
  <2>1. ASSUME Inv, UNCHANGED vars PROVE Inv'
    BY <2>1, RecordsNow DEF vars, history, CrudTypes, IdsInv, clean, spoilt
  <2>2. ASSUME Inv, Next PROVE Inv'
    <3>1. ASSUME clean' PROVE CrudTypes'
      BY <2>2, <3>1, Excuses, StepKeepsTypes
    <3>2. ASSUME ~spoilt' PROVE IdsInv'
      BY <2>2, <3>1, <3>2, Excuses, StepKeepsIds
    <3> QED BY <3>1, <3>2
  <2> QED BY <2>1, <2>2
<1>3. Inv => UniqueIds
  <2> SUFFICES ASSUME Inv, ~spoilt
               PROVE  \A i, j \in DOMAIN records : records[i].id = records[j].id => i = j
    BY DEF UniqueIds
  <2>1. CrudTypes /\ records \in Distinct
    BY DEF spoilt, IdsInv
  <2>2. DOMAIN records = 1 .. Len(records)
    BY <2>1, LinesProps, LenProperties
  <2> QED BY <2>1, <2>2 DEF Distinct
<1> QED BY <1>1, <1>2, <1>3, PTL DEF Spec

-----------------------------------------------------------------------------
(* What a rewriting keeps, whether or not the ids differ.                    *)

\* The records without the id, in their order.
notOf(id, s) == picked(s, {i \in DOMAIN s : s[i].id # id})

LEMMA OthersAre == \A s : others(s) = notOf(op.id, s)
BY DEF others, othersAt, notOf, picked

LEMMA NotOfAppend ==
    ASSUME NEW s \in Seq(Known), NEW x \in Known, NEW id
    PROVE  notOf(id, Append(s, x)) =
             IF x.id # id THEN Append(notOf(id, s), x) ELSE notOf(id, s)
<1> DEFINE t  == Append(s, x)
           n  == Len(s)
           D  == {i \in DOMAIN s : s[i].id # id}
           D2 == {i \in DOMAIN t : t[i].id # id}
<1>1. /\ t \in Seq(Known) /\ Len(t) = n + 1 /\ n \in Nat /\ t[n + 1] = x
      /\ \A i \in 1 .. n : t[i] = s[i]
      /\ DOMAIN s = 1 .. n /\ DOMAIN t = 1 .. n + 1
  BY AppendProperties, LenProperties
<1>2. notOf(id, s) = picked(s, D) /\ notOf(id, t) = picked(t, D2)
  BY DEF notOf
<1> HIDE DEF t, D, D2
<1>3. PICK k \in [0 .. n -> Seq(Known)] : picks(k, s, D) /\ picked(s, D) = k[n]
  BY PickedUnfolds
<1>4. PICK m \in [0 .. Len(t) -> Seq(Known)] : picks(m, t, D2) /\ picked(t, D2) = m[Len(t)]
  BY <1>1, PickedUnfolds
<1>5. \A i \in 1 .. n : i \in D <=> i \in D2
  BY <1>1 DEF D, D2
<1>6. \A i \in Nat : i <= n => m[i] = k[i]
  <2> DEFINE T == {i \in Nat : i <= n => m[i] = k[i]}
  <2>1. 0 \in T
    BY <1>3, <1>4 DEF picks
  <2>2. ASSUME NEW i \in Nat, i \in T PROVE i + 1 \in T
    <3> SUFFICES ASSUME i + 1 <= n PROVE m[i + 1] = k[i + 1]
      OBVIOUS
    <3>1. i + 1 \in 1 .. n /\ i + 1 \in 1 .. Len(t) /\ (i + 1) - 1 = i /\ i <= n
      BY <1>1
    <3>2. k[i + 1] = IF i + 1 \in D THEN Append(k[i], s[i + 1]) ELSE k[i]
      BY <1>3, <3>1 DEF picks
    <3>3. m[i + 1] = IF i + 1 \in D2 THEN Append(m[i], t[i + 1]) ELSE m[i]
      BY <1>4, <3>1 DEF picks
    <3> QED BY <1>1, <1>5, <2>2, <3>1, <3>2, <3>3
  <2> HIDE DEF T
  <2>3. Nat \subseteq T
    BY <2>1, <2>2, InductiveSet
  <2> QED BY <2>3 DEF T
<1>7. m[n + 1] = IF n + 1 \in D2 THEN Append(m[n], x) ELSE m[n]
  <2>1. n + 1 \in 1 .. Len(t) /\ (n + 1) - 1 = n
    BY <1>1
  <2> QED BY <1>1, <1>4, <2>1 DEF picks
<1>8. n + 1 \in D2 <=> x.id # id
  <2>1. n + 1 \in 1 .. n + 1
    BY <1>1
  <2> QED BY <1>1, <2>1 DEF D2
<1>9. m[n] = k[n]
  BY <1>1, <1>6
<1> QED BY <1>1, <1>2, <1>3, <1>4, <1>7, <1>8, <1>9 DEF t

\* What is read of a file that the scan gets over, when it does not get stuck in
\* the line added either.
LEMMA AllReadAppend ==
    ASSUME NEW t \in Seq(Line), NEW l \in Line, allOn(Append(t, l))
    PROVE  /\ allOn(t) /\ parse(Append(t, l)) = Append(parse(t), l.recs[1])
           /\ parse(t) \in Seq(Known) /\ l.recs # <<>> /\ l.recs[1] \in Known
<1>1. /\ Append(t, l) \in Seq(Line) /\ Len(Append(t, l)) = Len(t) + 1 /\ Len(t) \in Nat
      /\ \A i \in 1 .. Len(t) : Append(t, l)[i] = t[i]
  BY AppendProperties, LenProperties
<1>2. allOn(t)
  <2>1. \A i \in 1 .. Len(t) : i \in 1 .. Len(t) + 1
    BY <1>1
  <2> QED BY <1>1, <2>1 DEF allOn
<1>3. Len(parse(t)) = Len(t) /\ Len(parse(Append(t, l))) = Len(t) + 1
  BY <1>1, <1>2, AllRead
<1>4. parse(Append(t, l)) # parse(t)
  BY <1>1, <1>3
<1> QED BY <1>2, <1>4, ParseAppend, ParseProps

\* What is copied so far are the others of the records read so far.
OthersInv ==
    pc = "copying" =>
        /\ copied <= Len(records)
        /\ allOn(temp) => notOf(op.id, parse(temp)) = notOf(op.id, SubSeq(records, 1, copied))

LEMMA StepKeepsOthers ==
    ASSUME CrudTypes, OthersInv, Next, clean'
    PROVE  OthersInv'
<1>1. pc' # "copying" => OthersInv'
  BY DEF OthersInv
<1>2. ASSUME NEW id \in Ids, NEW kind \in {"update", "delete"}, begin(kind, id)
      PROVE  OthersInv'
  <2>1. UNCHANGED <<users, copied>> /\ pc = "menu" /\ copied = 0
    BY <1>2 DEF begin, CrudTypes
  <2>2. CASE UNCHANGED pc
    BY <1>1, <2>1, <2>2
  <2>3. CASE temp' = <<>>
    <3>1. /\ records' = records /\ Len(records) \in Nat /\ records \in Seq(Known)
          /\ copied' = 0
      BY <2>1, RecordsNow, LinesProps
    <3>2. parse(temp') = <<>>
      <4>1. <<>> \in Seq(Line) /\ Len(<<>>) = 0
        BY EmptySeq
      <4>2. allOn(<<>>)
        BY <4>1 DEF allOn
      <4>3. Len(parse(<<>>)) = 0 /\ parse(<<>>) \in Seq(Known)
        BY <4>1, <4>2, AllRead, ParseProps
      <4> QED BY <2>3, <4>3, EmptySeq
    <3>3. SubSeq(records, 1, 0) = <<>>
      <4>1. SubSeq(records, 1, 0) \in Seq(Known) /\ Len(SubSeq(records, 1, 0)) = 0
        BY <3>1, FirstOf
      <4> QED BY <4>1, EmptySeq
    <3>4. parse(temp') = SubSeq(records', 1, copied')
      BY <3>1, <3>2, <3>3
    <3>5. copied' <= Len(records')
      BY <3>1
    <3> QED BY <3>4, <3>5 DEF OthersInv
  <2> QED BY <1>2, <2>2, <2>3 DEF begin
<1>3. CASE copyRecord
  <2> DEFINE r == records[copied + 1]
             s == SubSeq(records, 1, copied)
  <2>1. /\ pc = "copying" /\ UNCHANGED <<users, pc, op>> /\ copied' = copied + 1
        /\ copied < Len(records) /\ copied + 1 \in 1 .. Len(records)
        /\ r \in Known /\ temp \in Seq(Line) /\ temp' \in Seq(Line)
    BY <1>3, CopyClean
  <2>2. /\ records' = records /\ records \in Seq(Known) /\ Len(records) \in Nat
        /\ copied \in Nat
    BY <2>1, RecordsNow, LinesProps DEF CrudTypes
  <2>3. /\ s \in Seq(Known)
        /\ SubSeq(records, 1, copied + 1) = Append(s, r)
    <3> DEFINE u == SubSeq(records, 1, copied + 1)
    <3>1. copied \in 0 .. Len(records) /\ copied + 1 \in 0 .. Len(records)
      BY <2>1, <2>2
    <3>2. /\ s \in Seq(Known) /\ Len(s) = copied /\ \A i \in 1 .. copied : s[i] = records[i]
      BY <2>2, <3>1, FirstOf
    <3>3. /\ u \in Seq(Known) /\ Len(u) = copied + 1
          /\ \A i \in 1 .. copied + 1 : u[i] = records[i]
      BY <2>2, <3>1, FirstOf
    <3> HIDE DEF s, u, r
    <3>4. /\ Append(s, r) \in Seq(Known) /\ Len(Append(s, r)) = copied + 1
          /\ Append(s, r)[copied + 1] = r /\ \A i \in 1 .. copied : Append(s, r)[i] = s[i]
      BY <2>1, <3>2, AppendProperties
    <3>5. \A i \in 1 .. copied + 1 : i \in 1 .. copied \/ i = copied + 1
      BY <2>2
    <3>6. \A i \in 1 .. copied + 1 : u[i] = Append(s, r)[i]
      BY <3>2, <3>3, <3>4, <3>5 DEF r
    <3>7. u = Append(s, r)
      BY <3>3, <3>4, <3>6, SeqEqual
    <3> QED BY <3>2, <3>7 DEF u
  <2>4. notOf(op.id, Append(s, r)) =
          IF r.id # op.id THEN Append(notOf(op.id, s), r) ELSE notOf(op.id, s)
    BY <2>1, <2>3, NotOfAppend
  <2>5. allOn(temp) => notOf(op.id, parse(temp)) = notOf(op.id, s)
    BY <2>1 DEF OthersInv
  <2> HIDE DEF s, r
  <2>6. ASSUME allOn(temp')
        PROVE  notOf(op.id, parse(temp')) = notOf(op.id, Append(s, r))
    <3>1. ASSUME NEW l \in Line, temp' = Append(temp, l)
          PROVE  /\ l.recs # <<>>
                 /\ notOf(op.id, parse(temp')) =
                      IF l.recs[1].id # op.id THEN Append(notOf(op.id, s), l.recs[1])
                      ELSE notOf(op.id, s)
      <4> DEFINE u == l.recs[1]
      <4>1. /\ allOn(temp) /\ parse(temp') = Append(parse(temp), u)
            /\ parse(temp) \in Seq(Known) /\ l.recs # <<>> /\ u \in Known
        BY <2>1, <2>6, <3>1, AllReadAppend
      <4> HIDE DEF u
      <4>2. notOf(op.id, Append(parse(temp), u)) =
              IF u.id # op.id THEN Append(notOf(op.id, parse(temp)), u)
              ELSE notOf(op.id, parse(temp))
        BY <4>1, NotOfAppend
      <4> QED BY <2>5, <4>1, <4>2 DEF u
    <3>2. CASE r.id # op.id /\ temp' = Append(temp, asLine(r))
      <4>1. asLine(r) \in Line /\ asLine(r).recs[1] = r
        BY <2>1, AsLine
      <4>2. notOf(op.id, parse(temp')) = Append(notOf(op.id, s), r)
        BY <3>1, <3>2, <4>1
      <4> QED BY <2>4, <3>2, <4>2
    <3>3. CASE r.id = op.id /\ temp' = temp
      BY <2>4, <2>5, <2>6, <3>3
    <3>4. ASSUME NEW l \in Line, r.id = op.id, l.recs # <<>> => l.recs[1].id = op.id,
                 temp' = Append(temp, l)
          PROVE  notOf(op.id, parse(temp')) = notOf(op.id, Append(s, r))
      BY <2>4, <3>1, <3>4
    <3>5. \/ r.id # op.id /\ temp' = Append(temp, asLine(r))
          \/ r.id = op.id /\ temp' = temp
          \/ /\ r.id = op.id
             /\ \E l \in Line : (l.recs # <<>> => l.recs[1].id = op.id) /\ temp' = Append(temp, l)
      BY <1>3, CopyClean DEF r
    <3> QED BY <3>2, <3>3, <3>4, <3>5
  <2>7. copied + 1 <= Len(records)
    BY <2>1, <2>2
  <2> QED BY <2>1, <2>2, <2>3, <2>6, <2>7 DEF OthersInv
<1>4. \/ pc' # "copying" \/ copyRecord
      \/ \E id \in Ids, kind \in {"update", "delete"} : begin(kind, id)
  BY DEF Next, createUser, readUsers, closeFiles, removeFile, renameFile, Crash, Restart
<1> QED BY <1>1, <1>2, <1>3, <1>4

\* When temp.txt is complete and can be read to its end, an update or a delete has
\* kept all other records that could be read, in their order; also when an id is
\* there more than once.
THEOREM RewriteCorrect == Spec => RewriteKeepsOthers
<1> DEFINE Inv == clean => CrudTypes /\ OthersInv
           Keeps == (pc = "copying" /\ pc' = "remove" /\ clean'
                     /\ (\A i \in DOMAIN temp : temp[i].end = "on"))
                    => others(parse(temp)) = others(records)
<1>1. Init => Inv
  BY InitTypes DEF Init, OthersInv
<1>2. Inv /\ [Next]_vars => Inv'
  <2>1. ASSUME Inv, UNCHANGED vars PROVE Inv'
    BY <2>1, RecordsNow DEF vars, history, CrudTypes, OthersInv, clean
  <2>2. ASSUME Inv, Next, clean' PROVE CrudTypes' /\ OthersInv'
    BY <2>2, Excuses, StepKeepsTypes, StepKeepsOthers
  <2> QED BY <2>1, <2>2
<1>3. Inv /\ [Next]_vars => [Keeps]_vars
  <2> SUFFICES ASSUME Inv, Next, pc = "copying", pc' = "remove", clean',
                      \A i \in DOMAIN temp : temp[i].end = "on"
               PROVE  others(parse(temp)) = others(records)
    OBVIOUS
  <2>1. CrudTypes /\ OthersInv
    BY Excuses
  <2>2. copied = Len(records)
    BY DEF Next, createUser, readUsers, begin, copyRecord, closeFiles, removeFile, renameFile,
       Crash, Restart
  <2>3. temp \in Seq(Line) /\ records \in Seq(Known) /\ Len(records) \in Nat
    BY <2>1, LinesProps DEF CrudTypes
  <2>4. allOn(temp)
    BY <2>3, LenProperties DEF allOn
  <2>5. SubSeq(records, 1, Len(records)) = records
    <3> DEFINE u == SubSeq(records, 1, Len(records))
    <3>1. Len(records) \in 0 .. Len(records)
      BY <2>3
    <3>2. /\ u \in Seq(Known) /\ Len(u) = Len(records)
          /\ \A i \in 1 .. Len(records) : u[i] = records[i]
      BY <2>3, <3>1, FirstOf
    <3> HIDE DEF u
    <3>3. u = records
      BY <2>3, <3>2, SeqEqual
    <3> QED BY <3>3 DEF u
  <2>6. notOf(op.id, parse(temp)) = notOf(op.id, records)
    BY <2>1, <2>2, <2>4, <2>5 DEF OthersInv
  <2> QED BY <2>6, OthersAre
<1> QED BY <1>1, <1>2, <1>3, PTL DEF Spec, RewriteKeepsOthers

-----------------------------------------------------------------------------
(* The two files as one list of users.                                       *)

bookNow == IF pc = "rename" /\ users = NoFile THEN parse(temp) ELSE records
Beginnings(s) == {SubSeq(s, 1, k) : k \in 0 .. Len(s)}
updated(b, u) == [i \in DOMAIN b |-> IF b[i].id = u.id THEN u ELSE b[i]]

LEMMA BeginningOf ==
    ASSUME NEW s \in Seq(Known), NEW q \in Seq(Known), Len(q) <= Len(s),
           \A i \in 1 .. Len(q) : q[i] = s[i]
    PROVE  q \in Beginnings(s)
<1>1. Len(q) \in 0 .. Len(s)
  BY LenProperties
<1>2. q = SubSeq(s, 1, Len(q))
  <2>1. /\ SubSeq(s, 1, Len(q)) \in Seq(Known) /\ Len(SubSeq(s, 1, Len(q))) = Len(q)
        /\ \A i \in 1 .. Len(q) : SubSeq(s, 1, Len(q))[i] = s[i]
    BY <1>1, FirstOf
  <2> QED BY <2>1, SeqEqual
<1> QED BY <1>1, <1>2 DEF Beginnings

LEMMA UpdatedIs ==
    ASSUME NEW b \in Seq(Known), NEW u \in Known
    PROVE  /\ updated(b, u) \in Seq(Known) /\ Len(updated(b, u)) = Len(b)
           /\ \A i \in 1 .. Len(b) : updated(b, u)[i] = IF b[i].id = u.id THEN u ELSE b[i]
<1>1. updated(b, u) = [i \in 1 .. Len(b) |-> IF b[i].id = u.id THEN u ELSE b[i]]
  BY LenProperties DEF updated
<1>2. \A i \in 1 .. Len(b) : (IF b[i].id = u.id THEN u ELSE b[i]) \in Known
  BY ElementOfSeq
<1>3. Len(b) \in Nat
  BY LenProperties
<1> HIDE DEF updated
<1>4. updated(b, u) \in Seq(Known)
  BY <1>1, <1>2, <1>3
<1> QED BY <1>1, <1>3, <1>4, LenProperties

\* A list with a user replaced by himself.
LEMMA UpdatedSame ==
    ASSUME NEW b \in Distinct, b # <<>>
    PROVE  b[1] \in Known /\ updated(b, b[1]) = b
<1>1. /\ b \in Seq(Known) /\ Len(b) \in Nat /\ 1 \in 1 .. Len(b)
      /\ \A i, j \in 1 .. Len(b) : b[i].id = b[j].id => i = j
  <2>1. b \in Seq(Known) /\ Len(b) \in Nat
    BY LenProperties DEF Distinct
  <2>2. Len(b) # 0
    BY <2>1, EmptySeq
  <2> QED BY <2>1, <2>2 DEF Distinct
<1>2. b[1] \in Known
  BY <1>1, ElementOfSeq
<1>3. /\ updated(b, b[1]) \in Seq(Known) /\ Len(updated(b, b[1])) = Len(b)
      /\ \A i \in 1 .. Len(b) : updated(b, b[1])[i] = IF b[i].id = b[1].id THEN b[1] ELSE b[i]
  BY <1>1, <1>2, UpdatedIs
<1>4. \A i \in 1 .. Len(b) : updated(b, b[1])[i] = b[i]
  BY <1>1, <1>3
<1> QED BY <1>1, <1>2, <1>3, <1>4, SeqEqual

\* What is read of a rewritten file is the list with one user replaced or left
\* out, or a beginning of that.
LEMMA ParseRewrite ==
    ASSUME NEW b \in Distinct, NEW o, NEW t \in Rewrites(b, o)
    PROVE  \/ parse(t) = b
           \/ \E u \in Known : parse(t) \in Beginnings(updated(b, u))
           \/ parse(t) \in Beginnings(without(b, o.id))
<1> DEFINE p == parse(t)
           w == without(b, o.id)
<1>1. /\ b \in Seq(Known) /\ Len(b) \in Nat
      /\ \A i, j \in 1 .. Len(b) : b[i].id = b[j].id => i = j
  BY LenProperties DEF Distinct
<1>2. /\ p \in Seq(Known) /\ Len(p) \in Nat
      /\ \/ /\ Len(p) <= Len(b)
            /\ \A i \in 1 .. Len(p) : p[i] = b[i] \/ (b[i].id = o.id /\ p[i].id = o.id)
         \/ /\ Len(p) <= Len(w)
            /\ \A i \in 1 .. Len(p) : p[i] = w[i]
  BY RewriteReads
<1>3. w \in Seq(Known)
  BY WithoutProps
<1> HIDE DEF p, w
<1>4. ASSUME Len(p) <= Len(w), \A i \in 1 .. Len(p) : p[i] = w[i]
      PROVE  p \in Beginnings(w)
  BY <1>2, <1>3, <1>4, BeginningOf
<1>5. ASSUME Len(p) <= Len(b),
             \A i \in 1 .. Len(p) : p[i] = b[i] \/ (b[i].id = o.id /\ p[i].id = o.id)
      PROVE  p = b \/ \E u \in Known : p \in Beginnings(updated(b, u))
  <2>1. \A i \in 1 .. Len(p) : i \in 1 .. Len(b)
    BY <1>1, <1>2, <1>5
  <2>2. ASSUME NEW u \in Known,
               \A i \in 1 .. Len(p) : p[i] = IF b[i].id = u.id THEN u ELSE b[i]
        PROVE  p \in Beginnings(updated(b, u))
    <3> DEFINE s == updated(b, u)
    <3>1. /\ s \in Seq(Known) /\ Len(s) = Len(b)
          /\ \A i \in 1 .. Len(b) : s[i] = IF b[i].id = u.id THEN u ELSE b[i]
      BY <1>1, UpdatedIs
    <3> HIDE DEF s
    <3>2. \A i \in 1 .. Len(p) : p[i] = s[i]
      BY <2>1, <2>2, <3>1
    <3>3. p \in Beginnings(s)
      BY <1>2, <1>5, <3>1, <3>2, BeginningOf
    <3> QED BY <3>3 DEF s
  <2>3. ASSUME NEW q \in 1 .. Len(p), b[q].id = o.id
        PROVE  p[q] \in Known /\ p \in Beginnings(updated(b, p[q]))
    <3>1. p[q] \in Known /\ p[q].id = o.id
      <4>1. p[q] \in Known
        BY <1>2, ElementOfSeq
      <4> QED BY <1>5, <2>3, <4>1
    <3>2. ASSUME NEW i \in 1 .. Len(p)
          PROVE  p[i] = IF b[i].id = p[q].id THEN p[q] ELSE b[i]
      <4>1. CASE b[i].id = o.id
        <5>1. i = q
          BY <1>1, <2>1, <2>3, <4>1
        <5> QED BY <3>1, <4>1, <5>1
      <4>2. CASE b[i].id # o.id
        BY <1>5, <3>1, <4>2
      <4> QED BY <4>1, <4>2
    <3> QED BY <2>2, <3>1, <3>2
  <2>4. CASE \A q \in 1 .. Len(p) : b[q].id # o.id
    <3>1. \A i \in 1 .. Len(p) : p[i] = b[i]
      BY <1>5, <2>4
    <3>2. p \in Beginnings(b)
      BY <1>1, <1>2, <1>5, <3>1, BeginningOf
    <3>3. CASE b = <<>>
      <4>1. Len(p) = 0 /\ Len(b) = 0
        BY <1>2, <1>5, <3>3, EmptySeq
      <4> QED BY <1>2, <3>3, <4>1, EmptySeq
    <3>4. CASE b # <<>>
      <4>1. b[1] \in Known /\ updated(b, b[1]) = b
        BY <3>4, UpdatedSame
      <4> QED BY <3>2, <4>1
    <3> QED BY <3>3, <3>4
  <2>5. CASE \E q \in 1 .. Len(p) : b[q].id = o.id
    BY <2>3, <2>5
  <2> QED BY <2>4, <2>5
<1> QED BY <1>2, <1>4, <1>5 DEF p, w

LEMMA NothingLeft ==
    ASSUME NEW s \in Seq(Known)
    PROVE  <<>> \in Beginnings(s)
<1> DEFINE q == <<>>
<1>1. q \in Seq(Known) /\ Len(q) = 0 /\ Len(s) \in Nat
  BY EmptySeq, LenProperties
<1> HIDE DEF q
<1>2. Len(q) <= Len(s) /\ \A i \in 1 .. Len(q) : q[i] = s[i]
  BY <1>1
<1>3. q \in Beginnings(s)
  BY <1>1, <1>2, BeginningOf
<1> QED BY <1>3 DEF q

LEMMA WholeList ==
    ASSUME NEW s \in Seq(Known)
    PROVE  s \in Beginnings(s)
<1>1. Len(s) <= Len(s)
  BY LenProperties
<1> QED BY <1>1, BeginningOf

-----------------------------------------------------------------------------
(* Steps of the list, while nothing has spoilt it.                           *)

kept == ~spoilt /\ ~spoilt' /\ shown' \in {shown, <<>>}

LEMMA BookDelete ==
    ASSUME NEW id \in Ids, bookNow' \in Beginnings(without(bookNow, id)), kept
    PROVE  Database!Next
<1> DEFINE i0 == CHOOSE i \in DOMAIN bookNow : bookNow[i].id = id
<1>1. CASE \E i \in DOMAIN bookNow : bookNow[i].id = id
  <2>1. without(bookNow, id) = RemoveAt(bookNow, i0)
    BY <1>1 DEF without
  <2>2. RemoveAt(bookNow, i0) = Database!RemoveAt(bookNow, i0)
    BY DEF RemoveAt, Database!RemoveAt
  <2>3. bookNow' \in Beginnings(Database!RemoveAt(bookNow, i0))
    BY <2>1, <2>2
  <2> HIDE DEF i0
  <2>4. Database!listed(id)
    BY <1>1 DEF Database!listed, bookNow
  <2>5. \E k \in 0 .. Len(Database!RemoveAt(bookNow, i0)) :
          bookNow' = SubSeq(Database!RemoveAt(bookNow, i0), 1, k)
    BY <2>3 DEF Beginnings
  <2>6. Database!Delete(id)
    BY <2>4, <2>5 DEF Database!Delete, Database!Becomes, i0, bookNow, kept
  <2> QED BY <2>6 DEF Database!Next, kept
<1>2. CASE ~ \E i \in DOMAIN bookNow : bookNow[i].id = id
  <2>1. without(bookNow, id) = bookNow
    BY <1>2 DEF without
  <2>2. ~Database!listed(id)
    BY <1>2 DEF Database!listed, bookNow
  <2>3. \E k \in 0 .. Len(bookNow) : bookNow' = SubSeq(bookNow, 1, k)
    BY <2>1 DEF Beginnings
  <2>4. Database!Delete(id)
    BY <2>2, <2>3 DEF Database!Delete, Database!Becomes, bookNow, kept
  <2> QED BY <2>4 DEF Database!Next, kept
<1> QED BY <1>1, <1>2

LEMMA BookUpdate ==
    ASSUME NEW u \in Known, bookNow' \in Beginnings(updated(bookNow, u)), kept
    PROVE  Database!Next
<1>1. Database!Becomes(updated(bookNow, u))
  BY DEF Database!Becomes, Beginnings, bookNow, kept
<1>2. Database!Update(u)
  BY <1>1 DEF Database!Update, updated, bookNow
<1> QED BY <1>2 DEF Database!Next, Known, GoodAges, kept

LEMMA BookCreate ==
    ASSUME NEW u \in Known, \A i \in DOMAIN bookNow : bookNow[i].id # u.id,
           bookNow' \in Beginnings(Append(bookNow, u)), kept
    PROVE  Database!Next
<1>1. Database!Becomes(Append(bookNow, u))
  BY DEF Database!Becomes, Beginnings, bookNow, kept
<1>2. Database!Create(u)
  BY <1>1 DEF Database!Create, Database!listed, bookNow
<1> QED BY <1>2 DEF Database!Next, Known, GoodAges, kept

\* A step that at most clears the screen: a user replaced by himself, or the empty
\* list shown.
LEMMA BookSame ==
    ASSUME bookNow \in Distinct, bookNow' = bookNow, kept
    PROVE  Database!Next \/ UNCHANGED <<bookNow, shown>>
<1>1. CASE shown' = shown
  BY <1>1
<1>2. CASE shown' = <<>> /\ bookNow = <<>>
  <2>1. Database!Read
    BY <1>2 DEF Database!Read, bookNow
  <2> QED BY <2>1 DEF Database!Next, kept
<1>3. CASE bookNow # <<>>
  <2>1. bookNow[1] \in Known /\ updated(bookNow, bookNow[1]) = bookNow
    BY <1>3, UpdatedSame
  <2>2. bookNow \in Beginnings(bookNow)
    BY WholeList DEF Distinct
  <2> QED BY <2>1, <2>2, BookUpdate
<1> QED BY <1>1, <1>2, <1>3 DEF kept

\* Reading a rewritten file in the place of the one it was made of.
LEMMA BookRewrite ==
    ASSUME records \in Distinct, bookNow = records, op.id \in Ids,
           temp \in Rewrites(records, op), bookNow' = parse(temp), kept
    PROVE  Database!Next \/ UNCHANGED <<bookNow, shown>>
<1>1. \/ parse(temp) = records
      \/ \E u \in Known : parse(temp) \in Beginnings(updated(records, u))
      \/ parse(temp) \in Beginnings(without(records, op.id))
  BY ParseRewrite
<1>2. CASE parse(temp) = records
  BY <1>2, BookSame
<1>3. ASSUME NEW u \in Known, parse(temp) \in Beginnings(updated(records, u))
      PROVE  Database!Next
  BY <1>3, BookUpdate
<1>4. CASE parse(temp) \in Beginnings(without(records, op.id))
  BY <1>4, BookDelete
<1> QED BY <1>1, <1>2, <1>3, <1>4

LEMMA StepOfBook ==
    ASSUME CrudTypes, IdsInv, Next, ~spoilt'
    PROVE  Database!Next \/ UNCHANGED <<bookNow, shown>>
<1>0. ~spoilt /\ clean'
  BY Excuses DEF spoilt
<1>1. /\ users \in Seq(Line) \cup {NoFile}
      /\ pc \in {"menu", "copying", "remove", "rename", "down"}
      /\ pc \in {"copying", "remove", "rename"} => temp \in Seq(Line) /\ op.id \in Ids
      /\ pc \in {"copying", "remove"} => users # NoFile
  BY DEF CrudTypes
<1>2. bookNow \in Distinct /\ records \in Distinct
  BY DEF IdsInv, bookNow
<1>3. ASSUME shown' \in {shown, <<>>} PROVE kept
  BY <1>0, <1>3 DEF kept
<1>4. ASSUME UNCHANGED users, shown' \in {shown, <<>>}, pc # "rename",
             pc' # "rename" \/ users # NoFile
      PROVE  Database!Next \/ UNCHANGED <<bookNow, shown>>
  <2>1. bookNow' = bookNow
    BY <1>4, RecordsNow DEF bookNow
  <2> QED BY <1>2, <1>3, <1>4, <2>1, BookSame
<1>5. ASSUME pc = "rename", UNCHANGED <<users, shown>>, pc' # "rename"
      PROVE  Database!Next \/ UNCHANGED <<bookNow, shown>>
  <2>1. CASE users # NoFile
    BY <1>5, <2>1, RecordsNow DEF bookNow
  <2>2. CASE users = NoFile
    <3>1. bookNow' = <<>>
      BY <1>5, <2>2, RecordsNow DEF bookNow
    <3>2. <<>> \in Beginnings(without(bookNow, op.id))
      BY <1>2, WithoutProps, NothingLeft
    <3> QED BY <1>1, <1>3, <1>5, <3>1, <3>2, BookDelete
  <2> QED BY <2>1, <2>2
<1>6. ASSUME NEW id \in Ids, NEW n \in Names, NEW a \in Ages, createUser(id, n, a)
      PROVE  Database!Next \/ UNCHANGED <<bookNow, shown>>
  <2>1. pc = "menu" /\ pc' = "menu" /\ shown' = <<>>
    BY <1>6 DEF createUser
  <2>2. bookNow = records /\ bookNow' = records' /\ kept
    BY <1>3, <2>1 DEF bookNow
  <2>3. CASE records' = records
    BY <1>2, <2>2, <2>3, BookSame
  <2>4. ASSUME NEW u \in Known, u.id = id, records' = Append(records, u),
               \A i \in 1 .. Len(records) : records[i].id # id
        PROVE  Database!Next
    <3>1. records \in Seq(Known) /\ DOMAIN records = 1 .. Len(records)
      BY LinesProps, LenProperties
    <3>2. Append(records, u) \in Beginnings(Append(records, u))
      BY <3>1, AppendProperties, WholeList
    <3>3. \A i \in DOMAIN bookNow : bookNow[i].id # u.id
      BY <2>2, <2>4, <3>1
    <3> QED BY <2>2, <2>4, <3>2, <3>3, BookCreate
  <2> QED BY <1>6, <2>3, <2>4, CreateIds
<1>7. ASSUME NEW id \in Ids, NEW kind, begin(kind, id)
      PROVE  Database!Next \/ UNCHANGED <<bookNow, shown>>
  <2>1. pc = "menu" /\ UNCHANGED users /\ shown' = <<>> /\ pc' \in {"menu", "copying"}
    BY <1>7 DEF begin
  <2> QED BY <1>4, <2>1
<1>8. CASE readUsers
  <2>1. pc = "menu" /\ pc' = "menu" /\ UNCHANGED users /\ shown' \in {records, <<>>}
    BY <1>8 DEF readUsers
  <2>2. CASE shown' = records
    <3>1. shown' = bookNow /\ bookNow' = bookNow
      BY <2>1, <2>2, RecordsNow DEF bookNow
    <3>2. Database!Read
      BY <3>1 DEF Database!Read, bookNow
    <3> QED BY <1>0, <3>2 DEF Database!Next
  <2>3. CASE shown' = <<>>
    BY <1>4, <2>1, <2>3
  <2> QED BY <2>1, <2>2, <2>3
<1>9. CASE copyRecord
  BY <1>4, <1>9 DEF copyRecord
<1>10. CASE closeFiles
  BY <1>4, <1>10 DEF closeFiles
<1>11. CASE removeFile
  <2>1. /\ pc = "remove" /\ pc' = "rename" /\ UNCHANGED <<temp, op, shown>>
        /\ users' = NoFile \/ UNCHANGED users
    BY <1>11 DEF removeFile
  <2>2. CASE users' = NoFile
    <3>1. bookNow = records /\ bookNow' = parse(temp)
      BY <2>1, <2>2 DEF bookNow
    <3>2. temp \in Rewrites(records, op) /\ op.id \in Ids
      BY <1>1, <2>1 DEF IdsInv
    <3> QED BY <1>2, <1>3, <2>1, <3>1, <3>2, BookRewrite
  <2>3. CASE UNCHANGED users
    BY <1>1, <1>4, <2>1, <2>3
  <2> QED BY <2>1, <2>2, <2>3
<1>12. CASE renameFile
  <2>1. /\ pc = "rename" /\ pc' = "menu" /\ UNCHANGED shown
        /\ users' = temp \/ UNCHANGED users
    BY <1>12 DEF renameFile
  <2>2. CASE UNCHANGED users
    BY <1>5, <2>1, <2>2
  <2>3. CASE users' = temp
    <3>1. users' # NoFile
      BY <1>1, <2>1, <2>3, FilesAreNot
    <3>2. bookNow' = parse(temp)
      BY <2>1, <2>3, <3>1, RecordsNow DEF bookNow
    <3>3. CASE users = NoFile
      BY <2>1, <3>2, <3>3 DEF bookNow
    <3>4. CASE users # NoFile
      <4>1. bookNow = records
        BY <3>4 DEF bookNow
      <4>2. temp \in Rewrites(records, op) /\ op.id \in Ids
        BY <1>1, <2>1, <3>4 DEF IdsInv
      <4> QED BY <1>2, <1>3, <2>1, <3>2, <4>1, <4>2, BookRewrite
    <3> QED BY <3>3, <3>4
  <2> QED BY <2>1, <2>2, <2>3
<1>13. CASE Crash
  <2>1. /\ pc' = "down" /\ UNCHANGED shown
        /\ UNCHANGED users \/ (pc = "menu" /\ users = NoFile /\ users' = <<>>)
    BY <1>13 DEF Crash
  <2>2. CASE UNCHANGED users
    BY <1>4, <1>5, <2>1, <2>2
  <2>3. CASE pc = "menu" /\ users = NoFile /\ users' = <<>>
    BY <2>1, <2>3, RecordsNow DEF bookNow
  <2> QED BY <2>1, <2>2, <2>3
<1>14. CASE Restart
  <2>1. pc = "down" /\ pc' = "menu" /\ UNCHANGED users /\ shown' = <<>>
    BY <1>14 DEF Restart
  <2> QED BY <1>4, <2>1
<1> QED BY <1>6, <1>7, <1>8, <1>9, <1>10, <1>11, <1>12, <1>13, <1>14 DEF Next

\* Taken together the two files are one list of users with different ids until one
\* of three things spoils it: every step adds, replaces, leaves out or shows, and
\* what a crash, a failing call or an unreadable name takes is the end of the list.
THEOREM BookCorrect == Spec => BookKept
<1> DEFINE Inv == (clean => CrudTypes) /\ (~spoilt => IdsInv)
<1>1. Init => Inv /\ Database!Init
  <2>1. Init => bookNow = <<>> /\ shown = <<>> /\ spoilt = FALSE
    BY RecordsNow DEF Init, bookNow, spoilt, clean
  <2>2. Init => Database!Init
    BY <2>1 DEF Database!Init, bookNow
  <2> QED BY <2>2, InitTypes, InitIds
<1>2. Inv /\ [Next]_vars => Inv' /\ [Database!Next]_Database!vars
  <2>1. ASSUME Inv, UNCHANGED vars PROVE Inv' /\ UNCHANGED <<bookNow, shown, spoilt>>
    BY <2>1, RecordsNow DEF vars, history, CrudTypes, IdsInv, bookNow, clean, spoilt
  <2>2. ASSUME Inv, Next PROVE Inv'
    <3>1. ASSUME clean' PROVE CrudTypes'
      BY <2>2, <3>1, Excuses, StepKeepsTypes
    <3>2. ASSUME ~spoilt' PROVE IdsInv'
      BY <2>2, <3>1, <3>2, Excuses, StepKeepsIds
    <3> QED BY <3>1, <3>2
  <2>3. ASSUME Inv, Next PROVE Database!Next \/ UNCHANGED <<bookNow, shown, spoilt>>
    <3>1. CASE spoilt'
      BY <3>1 DEF Database!Next
    <3>2. CASE ~spoilt'
      <4>1. ~spoilt /\ CrudTypes /\ IdsInv
        BY <2>3, <3>2, Excuses
      <4>2. spoilt' = spoilt
        BY <3>2, <4>1 DEF spoilt
      <4> QED BY <2>3, <3>2, <4>1, <4>2, StepOfBook
    <3> QED BY <3>1, <3>2
  <2> QED BY <2>1, <2>2, <2>3 DEF Database!vars, bookNow
<1> QED BY <1>1, <1>2, PTL DEF Spec, BookKept, Database!Spec

-----------------------------------------------------------------------------
(* The player analyzer: one insertion.                                       *)

Players == [id: PlayerIds, team: Teams, role: Roles, sr: NumbersOrNaN, pi: NumbersOrNaN]

LEMMA PlayerIs ==
    ASSUME NEW id \in PlayerIds, NEW t \in Teams, NEW role \in Roles, NEW s \in Typed
    PROVE  player(id, t, role, s) \in Players
<1>1. /\ s.avg \in NumbersOrNaN /\ s.sr \in NumbersOrNaN /\ s.wkts \in Int /\ s.econ \in NumbersOrNaN
  BY DEF Typed
<1>2. /\ \A a, b \in NumbersOrNaN : times(a, b) \in NumbersOrNaN /\ plus(a, b) \in NumbersOrNaN
      /\ 200 * s.wkts + 10000 \in NumbersOrNaN /\ 200 * s.wkts \in NumbersOrNaN /\ -100 \in NumbersOrNaN
  BY <1>1, PlayerAssumption DEF NumbersOrNaN, times, plus, PlayerAssumption
<1>3. calculatePerformanceIndex(role, s) \in NumbersOrNaN
  <2>1. CASE role = "Batsman"
    BY <1>1, <1>2, <2>1 DEF calculatePerformanceIndex
  <2>2. CASE role = "Bowler"
    BY <1>1, <1>2, <2>2 DEF calculatePerformanceIndex
  <2>3. CASE role = "All-rounder"
    BY <1>1, <1>2, <2>3 DEF calculatePerformanceIndex
  <2> QED BY <2>1, <2>2, <2>3 DEF Roles
<1> HIDE DEF calculatePerformanceIndex
<1> QED BY <1>1, <1>3 DEF player, Players

\* r is s with p before the element that was number k.
inserted(r, s, k, p) ==
    /\ r \in Seq(Players) /\ Len(r) = Len(s) + 1
    /\ k \in 1 .. Len(s) + 1
    /\ \A i \in 1 .. Len(s) + 1 : r[i] = IF i < k THEN s[i] ELSE IF i = k THEN p ELSE s[i - 1]

LEMMA InsertAtIs ==
    ASSUME NEW s \in Seq(Players), NEW p \in Players, NEW k \in 1 .. Len(s) + 1
    PROVE  inserted(InsertAt(s, k, p), s, k, p)
<1> DEFINE a == SubSeq(s, 1, k - 1)
           b == SubSeq(s, (k - 1) + 1, Len(s))
           r == a \o (<<p>> \o b)
<1>1. Len(s) \in Nat /\ k - 1 \in 0 .. Len(s) /\ (k - 1) + 1 = k
  BY LenProperties
<1>2. a \in Seq(Players) /\ Len(a) = k - 1 /\ \A i \in 1 .. k - 1 : a[i] = s[i]
  BY <1>1, FirstOf
<1>3. /\ b \in Seq(Players) /\ Len(b) = Len(s) - (k - 1)
      /\ \A i \in 1 .. Len(s) - (k - 1) : b[i] = s[(k - 1) + i]
  BY <1>1, LastOf
<1> DEFINE one == <<p>>
           c == one \o b
<1> HIDE DEF a, b
<1>4. /\ c \in Seq(Players) /\ Len(c) = Len(b) + 1 /\ c[1] = p
      /\ \A i \in 1 .. Len(b) : c[i + 1] = b[i]
  <2>1. b \in Seq(Players)
    BY <1>3
  <2> QED BY ONLY <2>1, p \in Players, InFrontOf
<1>5. InsertAt(s, k, p) = a \o c
  <2>1. InsertAt(s, k, p) = (a \o one) \o b
    BY <1>1 DEF InsertAt, a, b
  <2>2. one \in Seq(Players)
    OBVIOUS
  <2> HIDE DEF one
  <2>3. a \in Seq(Players) /\ b \in Seq(Players)
    BY <1>2, <1>3
  <2>4. (a \o one) \o b = a \o (one \o b)
    BY ONLY <2>2, <2>3, ConcatAssociative, SMTT(30)
  <2> QED BY ONLY <2>1, <2>4 DEF c
<1> HIDE DEF c
<1>6. /\ a \o c \in Seq(Players) /\ Len(a \o c) = Len(a) + Len(c)
      /\ \A i \in 1 .. Len(a) + Len(c) : (a \o c)[i] = IF i <= Len(a) THEN a[i] ELSE c[i - Len(a)]
  BY <1>2, <1>4, ConcatProperties
<1>7. Len(a \o c) = Len(s) + 1
  BY <1>1, <1>2, <1>3, <1>4, <1>6
<1>8. ASSUME NEW i \in 1 .. Len(s) + 1
      PROVE  (a \o c)[i] = IF i < k THEN s[i] ELSE IF i = k THEN p ELSE s[i - 1]
  <2>1. (a \o c)[i] = IF i <= k - 1 THEN a[i] ELSE c[i - (k - 1)]
    BY <1>1, <1>2, <1>3, <1>4, <1>6
  <2>2. CASE i < k
    BY <1>1, <1>2, <2>1, <2>2
  <2>3. CASE i = k
    BY <1>1, <1>4, <2>1, <2>3
  <2>4. CASE i > k
    <3>1. i - k \in 1 .. Len(b) /\ i - (k - 1) = (i - k) + 1 /\ (k - 1) + (i - k) = i - 1
      BY <1>1, <1>3, <2>4
    <3>2. c[i - (k - 1)] = b[i - k] /\ b[i - k] = s[i - 1]
      BY <1>3, <1>4, <3>1
    <3>3. ~(i <= k - 1) /\ ~(i < k) /\ i # k
      BY <1>1, <2>4
    <3> QED BY <2>1, <3>2, <3>3
  <2>5. i < k \/ i = k \/ i > k
    BY <1>1
  <2> HIDE DEF r
  <2> QED BY ONLY <2>2, <2>3, <2>4, <2>5
<1> QED BY <1>5, <1>6, <1>7, <1>8 DEF inserted

\* In falling order.
falling(s) == \A i, j \in 1 .. Len(s) : i < j => s[i].pi >= s[j].pi

\* The place is behind those that are as good, and before those that are not.
fits(s, k, p) ==
    /\ \A i \in 1 .. Len(s) : i < k => s[i].pi >= p.pi
    /\ \A i \in 1 .. Len(s) : i >= k => p.pi > s[i].pi

LEMMA InsertsOnce ==
    ASSUME NEW s \in Seq(Players), NEW p \in Players
    PROVE  \E k \in 1 .. Len(s) + 1 :
             /\ inserted(insertPlayerSorted(s, p), s, k, p)
             /\ AllNumbers(s) /\ p.pi # NaN /\ falling(s) => fits(s, k, p)
<1>1. /\ Len(s) \in Nat /\ DOMAIN s = 1 .. Len(s) /\ NaN \notin Int
      /\ \A i \in 1 .. Len(s) : s[i] \in Players /\ s[i].pi \in NumbersOrNaN
      /\ p.pi \in NumbersOrNaN
  <2>1. \A x \in Players : x.pi \in NumbersOrNaN
    BY DEF Players
  <2>2. Len(s) \in Nat /\ DOMAIN s = 1 .. Len(s) /\ \A i \in 1 .. Len(s) : s[i] \in Players
    BY LenProperties, ElementOfSeq
  <2> QED BY <2>1, <2>2, PlayerAssumption DEF PlayerAssumption
<1>2. CASE s = <<>> \/ gt(p.pi, s[1].pi)
  <2>1. insertPlayerSorted(s, p) = <<p>> \o s
    BY <1>2 DEF insertPlayerSorted
  <2> DEFINE r == <<p>> \o s
  <2>2. /\ r \in Seq(Players) /\ Len(r) = Len(s) + 1 /\ r[1] = p
        /\ \A i \in 1 .. Len(s) : r[i + 1] = s[i]
    BY InFrontOf
  <2> HIDE DEF r
  <2>3. ASSUME NEW i \in 1 .. Len(s) + 1, i # 1 PROVE r[i] = s[i - 1]
    <3>1. i - 1 \in 1 .. Len(s) /\ (i - 1) + 1 = i
      BY <1>1, <2>3
    <3> QED BY <2>2, <3>1
  <2>4. inserted(r, s, 1, p)
    BY <1>1, <2>2, <2>3 DEF inserted
  <2>5. ASSUME AllNumbers(s), p.pi # NaN, falling(s) PROVE fits(s, 1, p)
    <3>1. p.pi \in Int /\ \A i \in 1 .. Len(s) : s[i].pi \in Int
      BY <1>1, <2>5 DEF AllNumbers, NumbersOrNaN
    <3>2. ASSUME NEW i \in 1 .. Len(s) PROVE p.pi > s[i].pi
      <4>1. s # <<>> /\ 1 \in 1 .. Len(s)
        BY <1>1, <3>2
      <4>2. p.pi > s[1].pi
        BY <1>2, <4>1 DEF gt
      <4>3. s[1].pi >= s[i].pi
        BY <1>1, <2>5, <3>1, <4>1 DEF falling
      <4> QED BY <3>1, <4>1, <4>2, <4>3
    <3> QED BY <1>1, <3>2 DEF fits
  <2> QED BY <1>1, <2>1, <2>4, <2>5 DEF r
<1>3. CASE ~(s = <<>> \/ gt(p.pi, s[1].pi))
  <2> DEFINE T == {k \in 2 .. Len(s) + 1 : k > Len(s) \/ ~ge(s[k].pi, p.pi)}
             m == Min(T)
  <2>1. insertPlayerSorted(s, p) = InsertAt(s, m, p)
    BY <1>3 DEF insertPlayerSorted
  <2>2. Len(s) >= 1
    BY <1>1, <1>3, EmptySeq
  <2>3. m \in T /\ \A k \in T : m <= k
    <3>1. Len(s) + 1 \in T /\ T \subseteq 2 .. Len(s) + 1
      BY <1>1, <2>2
    <3>2. 2 \in Int /\ Len(s) + 1 \in Int /\ T # {}
      BY <1>1, <3>1
    <3> HIDE DEF T
    <3> QED BY <3>1, <3>2, MinMax
  <2> HIDE DEF m
  <2>4. m \in 1 .. Len(s) + 1
    BY <1>1, <2>3
  <2>5. inserted(InsertAt(s, m, p), s, m, p)
    BY <2>4, InsertAtIs
  <2>6. ASSUME AllNumbers(s), p.pi # NaN, falling(s) PROVE fits(s, m, p)
    <3>1. p.pi \in Int /\ \A i \in 1 .. Len(s) : s[i].pi \in Int
      BY <1>1, <2>6 DEF AllNumbers, NumbersOrNaN
    <3>2. s[1].pi >= p.pi
      BY <1>1, <1>3, <2>2, <3>1 DEF gt
    <3>3. ASSUME NEW i \in 1 .. Len(s), i < m PROVE s[i].pi >= p.pi
      <4>1. CASE i = 1
        BY <3>2, <4>1
      <4>2. CASE i # 1
        <5>1. i \in 2 .. Len(s) + 1 /\ i \notin T /\ ~(i > Len(s))
          BY <1>1, <2>3, <2>4, <3>3, <4>2
        <5>2. ge(s[i].pi, p.pi)
          BY <5>1
        <5> QED BY <5>2 DEF ge
      <4> QED BY <4>1, <4>2
    <3>4. ASSUME NEW i \in 1 .. Len(s), i >= m PROVE p.pi > s[i].pi
      <4>1. m \in 1 .. Len(s) /\ ~ge(s[m].pi, p.pi)
        BY <1>1, <2>3, <2>4, <3>4
      <4>2. p.pi > s[m].pi
        BY <1>1, <2>6, <3>1, <4>1 DEF ge
      <4>3. i = m \/ s[m].pi >= s[i].pi
        BY <2>4, <2>6, <3>4, <4>1 DEF falling
      <4> QED BY <3>1, <4>1, <4>2, <4>3
    <3> QED BY <3>3, <3>4 DEF fits
  <2> QED BY <2>1, <2>4, <2>5, <2>6
<1> QED BY <1>2, <1>3

LEMMA InsertedSet ==
    ASSUME NEW s \in Seq(Players), NEW p \in Players, NEW r, NEW k, inserted(r, s, k, p)
    PROVE  /\ ToSet(r) = ToSet(s) \cup {p}
           /\ IsInjective(s) /\ p \notin ToSet(s) => IsInjective(r)
<1>1. /\ Len(s) \in Nat /\ DOMAIN s = 1 .. Len(s) /\ DOMAIN r = 1 .. Len(s) + 1
      /\ k \in 1 .. Len(s) + 1
      /\ \A i \in 1 .. Len(s) + 1 : r[i] = IF i < k THEN s[i] ELSE IF i = k THEN p ELSE s[i - 1]
  BY LenProperties DEF inserted
<1>2. ToSet(s) = {s[i] : i \in 1 .. Len(s)} /\ ToSet(r) = {r[i] : i \in 1 .. Len(s) + 1}
  BY <1>1 DEF ToSet
<1>3. ASSUME NEW x \in ToSet(r) PROVE x \in ToSet(s) \cup {p}
  <2>1. PICK i \in 1 .. Len(s) + 1 : x = r[i]
    BY <1>2
  <2>2. i < k => i \in 1 .. Len(s)
    BY <1>1
  <2>3. i > k => i - 1 \in 1 .. Len(s)
    BY <1>1
  <2> QED BY <1>1, <1>2, <2>1, <2>2, <2>3
<1>4. p \in ToSet(r)
  BY <1>1, <1>2
<1>5. ASSUME NEW i \in 1 .. Len(s) PROVE s[i] \in ToSet(r)
  <2>1. CASE i < k
    BY <1>1, <1>2, <2>1
  <2>2. CASE i >= k
    <3>1. i + 1 \in 1 .. Len(s) + 1 /\ i + 1 > k /\ (i + 1) - 1 = i
      BY <1>1, <2>2
    <3>2. r[i + 1] = s[i]
      BY <1>1, <3>1
    <3> QED BY <1>2, <3>1, <3>2
  <2> QED BY <1>1, <2>1, <2>2
<1>6. ASSUME IsInjective(s), p \notin ToSet(s), NEW i \in 1 .. Len(s) + 1, NEW j \in 1 .. Len(s) + 1,
             r[i] = r[j]
      PROVE  i = j
  <2> DEFINE f(n) == IF n < k THEN n ELSE n - 1
  <2>1. \A n \in 1 .. Len(s) + 1 : n # k => f(n) \in 1 .. Len(s) /\ r[n] = s[f(n)]
    BY <1>1
  <2>2. i = k <=> j = k
    BY <1>1, <1>2, <1>6, <2>1
  <2>3. i # k => f(i) = f(j)
    BY <1>1, <1>6, <2>1, <2>2 DEF IsInjective
  <2> QED BY <1>1, <2>2, <2>3
<1>7. ToSet(r) = ToSet(s) \cup {p}
  BY <1>2, <1>3, <1>4, <1>5
<1> QED BY <1>1, <1>6, <1>7 DEF IsInjective

-----------------------------------------------------------------------------
(* The lists.                                                                *)

distinctIds(q) == \A i, j \in DOMAIN q : q[i].id = q[j].id => i = j
arrivalIn(q, p) == CHOOSE i \in DOMAIN q : q[i] = p
orderedBy(s, q) == \A i, j \in DOMAIN s : i < j =>
    \/ s[i].pi > s[j].pi
    \/ s[i].pi = s[j].pi /\ arrivalIn(q, s[i]) < arrivalIn(q, s[j])

\* A player who arrives does not change when the others came.
LEMMA Arrivals ==
    ASSUME NEW q \in Seq(Players), distinctIds(q), NEW p \in Players,
           \A i \in 1 .. Len(q) : q[i].id # p.id
    PROVE  /\ Append(q, p) \in Seq(Players) /\ distinctIds(Append(q, p))
           /\ Len(Append(q, p)) = Len(q) + 1
           /\ Append(q, p)[Len(q) + 1] = p
           /\ \A i \in 1 .. Len(q) : Append(q, p)[i] = q[i]
           /\ ToSet(Append(q, p)) = ToSet(q) \cup {p} /\ p \notin ToSet(q)
           /\ arrivalIn(Append(q, p), p) = Len(q) + 1
           /\ \A x \in ToSet(q) : /\ arrivalIn(Append(q, p), x) = arrivalIn(q, x)
                                /\ arrivalIn(q, x) \in 1 .. Len(q)
<1> DEFINE a == Append(q, p)
           n == Len(q)
<1>1. /\ a \in Seq(Players) /\ Len(a) = n + 1 /\ a[n + 1] = p /\ \A i \in 1 .. n : a[i] = q[i]
      /\ n \in Nat /\ DOMAIN a = 1 .. n + 1 /\ DOMAIN q = 1 .. n
  BY AppendProperties, LenProperties
<1> HIDE DEF a, n
<1>2. \A i \in 1 .. n : q[i].id # p.id /\ q[i] # p
  BY DEF n
<1>3. distinctIds(a)
  <2> SUFFICES ASSUME NEW i \in 1 .. n + 1, NEW j \in 1 .. n + 1, a[i].id = a[j].id PROVE i = j
    BY <1>1 DEF distinctIds
  <2>1. (i \in 1 .. n \/ i = n + 1) /\ (j \in 1 .. n \/ j = n + 1)
    BY <1>1
  <2>2. CASE i = n + 1 \/ j = n + 1
    BY <1>1, <1>2, <2>1, <2>2
  <2>3. CASE i \in 1 .. n /\ j \in 1 .. n
    BY <1>1, <2>3 DEF distinctIds
  <2> QED BY <2>1, <2>2, <2>3
<1>4. \A i \in 1 .. n + 1 : a[i] = p => i = n + 1
  <2> SUFFICES ASSUME NEW i \in 1 .. n + 1, a[i] = p, i # n + 1 PROVE FALSE
    OBVIOUS
  <2>1. i \in 1 .. n
    BY <1>1
  <2> QED BY <1>1, <1>2, <2>1
<1>5. arrivalIn(a, p) = n + 1
  BY <1>1, <1>4 DEF arrivalIn
<1>6. ToSet(q) = {q[i] : i \in 1 .. n} /\ ToSet(a) = {a[i] : i \in 1 .. n + 1}
  BY <1>1 DEF ToSet
<1>7. ToSet(a) = ToSet(q) \cup {p} /\ p \notin ToSet(q)
  <2>1. 1 .. n + 1 = (1 .. n) \cup {n + 1}
    BY <1>1
  <2> QED BY <1>1, <1>2, <1>6, <2>1
<1>8. ASSUME NEW x \in ToSet(q)
      PROVE  arrivalIn(a, x) = arrivalIn(q, x) /\ arrivalIn(q, x) \in 1 .. n
  <2>1. PICK i \in 1 .. n : x = q[i]
    BY <1>6
  <2>2. \A j \in 1 .. n : q[j] = x => j = i
    BY <1>1, <2>1 DEF distinctIds
  <2>3. arrivalIn(q, x) = i
    BY <1>1, <2>1, <2>2 DEF arrivalIn
  <2>4. i \in 1 .. n + 1 /\ a[i] = x
    BY <1>1, <2>1
  <2>5. \A j \in 1 .. n + 1 : a[j] = x => j = i
    BY <1>1, <1>3, <2>4 DEF distinctIds
  <2>6. arrivalIn(a, x) = i
    BY <1>1, <2>4, <2>5 DEF arrivalIn
  <2> QED BY <2>3, <2>6
<1> QED BY <1>1, <1>3, <1>5, <1>7, <1>8 DEF a, n

\* An insertion keeps the order.
LEMMA InsertKeepsOrder ==
    ASSUME NEW q \in Seq(Players), distinctIds(q), NEW p \in Players,
           \A i \in 1 .. Len(q) : q[i].id # p.id,
           NEW s \in Seq(Players), ToSet(s) \subseteq ToSet(q),
           AllNumbers(s) => orderedBy(s, q), IsInjective(s)
    PROVE  /\ insertPlayerSorted(s, p) \in Seq(Players)
           /\ ToSet(insertPlayerSorted(s, p)) = ToSet(s) \cup {p}
           /\ IsInjective(insertPlayerSorted(s, p))
           /\ AllNumbers(insertPlayerSorted(s, p))
                => orderedBy(insertPlayerSorted(s, p), Append(q, p))
<1> DEFINE r == insertPlayerSorted(s, p)
           a == Append(q, p)
<1>1. PICK k \in 1 .. Len(s) + 1 :
        /\ inserted(r, s, k, p)
        /\ AllNumbers(s) /\ p.pi # NaN /\ falling(s) => fits(s, k, p)
  BY InsertsOnce
<1>2. /\ p \notin ToSet(q) /\ arrivalIn(a, p) = Len(q) + 1 /\ Len(q) \in Nat
      /\ \A x \in ToSet(q) : arrivalIn(a, x) = arrivalIn(q, x) /\ arrivalIn(q, x) \in 1 .. Len(q)
  BY Arrivals, LenProperties
<1> HIDE DEF r, a
<1>3. ToSet(r) = ToSet(s) \cup {p} /\ IsInjective(r) /\ r \in Seq(Players)
  BY <1>1, <1>2, InsertedSet DEF inserted
<1>4. ASSUME AllNumbers(r) PROVE orderedBy(r, a)
  <2>1. /\ Len(s) \in Nat /\ DOMAIN s = 1 .. Len(s) /\ DOMAIN r = 1 .. Len(s) + 1
        /\ \A i \in 1 .. Len(s) + 1 : r[i] = IF i < k THEN s[i] ELSE IF i = k THEN p ELSE s[i - 1]
    BY <1>1, LenProperties DEF inserted
  <2>2. /\ \A i \in 1 .. Len(s) : s[i] \in ToSet(s) /\ s[i] \in Players
        /\ \A x \in ToSet(r) : x.pi # NaN
        /\ \A x \in Players : x.pi \in NumbersOrNaN
    BY <1>4, <2>1, ElementOfSeq DEF ToSet, AllNumbers, Players
  <2>3. AllNumbers(s) /\ p.pi \in Int /\ \A i \in 1 .. Len(s) : s[i].pi \in Int
    BY <1>3, <2>1, <2>2 DEF AllNumbers, NumbersOrNaN
  <2>4. orderedBy(s, q)
    BY <2>3
  <2>5. falling(s)
    <3> SUFFICES ASSUME NEW x \in 1 .. Len(s), NEW y \in 1 .. Len(s), x < y
                 PROVE  s[x].pi >= s[y].pi
      BY DEF falling
    <3>1. s[x].pi > s[y].pi \/ s[x].pi = s[y].pi
      BY <2>1, <2>4 DEF orderedBy
    <3> QED BY <2>3, <3>1
  <2>6. fits(s, k, p)
    BY <1>1, <2>2, <2>3, <2>5, PlayerAssumption DEF PlayerAssumption
  <2> SUFFICES ASSUME NEW i \in 1 .. Len(s) + 1, NEW j \in 1 .. Len(s) + 1, i < j
               PROVE  \/ r[i].pi > r[j].pi
                      \/ r[i].pi = r[j].pi /\ arrivalIn(a, r[i]) < arrivalIn(a, r[j])
    BY <2>1 DEF orderedBy
  <2> DEFINE f(m) == IF m < k THEN m ELSE m - 1
  <2>7. \A m \in 1 .. Len(s) + 1 : m # k => f(m) \in 1 .. Len(s) /\ r[m] = s[f(m)]
    BY <2>1
  <2>8. CASE i = k
    <3>1. j # k /\ f(j) >= k
      BY <2>1, <2>8
    <3>2. p.pi > s[f(j)].pi
      BY <2>6, <2>7, <3>1 DEF fits
    <3>3. r[i] = p /\ r[j] = s[f(j)]
      BY <2>1, <2>7, <2>8, <3>1
    <3> QED BY <3>2, <3>3
  <2>9. CASE j = k
    <3>1. i # k /\ f(i) < k
      BY <2>1, <2>9
    <3>2. s[f(i)].pi >= p.pi
      BY <2>6, <2>7, <3>1 DEF fits
    <3>3. r[j] = p /\ r[i] = s[f(i)] /\ f(i) \in 1 .. Len(s)
      BY <2>1, <2>7, <2>9, <3>1
    <3>4. arrivalIn(a, r[i]) \in 1 .. Len(q)
      BY <1>2, <2>2, <3>3
    <3>5. arrivalIn(a, r[i]) < arrivalIn(a, r[j])
      BY <1>2, <3>3, <3>4
    <3>6. r[i].pi \in Int /\ r[j].pi \in Int /\ r[i].pi >= r[j].pi
      BY <2>3, <3>2, <3>3
    <3> QED BY ONLY <3>5, <3>6
  <2>10. CASE i # k /\ j # k
    <3>1. \E u, v \in 1 .. Len(s) : u < v /\ r[i] = s[u] /\ r[j] = s[v]
      <4>1. f(i) < f(j) /\ f(i) \in 1 .. Len(s) /\ f(j) \in 1 .. Len(s)
        BY <2>1, <2>10
      <4>2. r[i] = s[f(i)] /\ r[j] = s[f(j)]
        BY <2>7, <2>10
      <4> HIDE DEF f
      <4> QED BY <4>1, <4>2
    <3>2. PICK u, v \in 1 .. Len(s) : u < v /\ r[i] = s[u] /\ r[j] = s[v]
      BY <3>1
    <3>3. \/ s[u].pi > s[v].pi
          \/ s[u].pi = s[v].pi /\ arrivalIn(q, s[u]) < arrivalIn(q, s[v])
      BY <2>1, <2>4, <3>2 DEF orderedBy
    <3>4. s[u] \in ToSet(q) /\ s[v] \in ToSet(q)
      BY <2>2
    <3>5. arrivalIn(a, s[u]) = arrivalIn(q, s[u]) /\ arrivalIn(a, s[v]) = arrivalIn(q, s[v])
      BY <1>2, <3>4
    <3> QED BY <3>2, <3>3, <3>5
  <2> QED BY <2>8, <2>9, <2>10
<1> QED BY <1>3, <1>4 DEF r, a

-----------------------------------------------------------------------------
(* What is loaded and added.                                                 *)

PlayerTypes ==
    /\ lists \in [Teams -> [Roles -> Seq(Players)]]
    /\ tally \in [Teams -> [players: Nat, batting: Nat, srSum: NumbersOrNaN]]
    /\ added \in Seq(Players)
    /\ stage \in {"loading", "menu", "merging", "exit"}

\* While the table is loaded, the players are those of the table so far.
Loading ==
    stage = "loading" =>
        /\ Len(added) <= Len(Data)
        /\ \A i \in 1 .. Len(added) : added[i].id = Data[i].id
        /\ out = noRows

ranked(s, q, t, role) ==
    /\ IsInjective(s)
    /\ ToSet(s) = {p \in ToSet(q) : p.team = t /\ p.role = role}
    /\ AllNumbers(s) => orderedBy(s, q)

ListsRanked == \A t \in Teams, role \in Roles : ranked(lists[t][role], added, t, role)

LEMMA RankedAre ==
    RankedLists <=> distinctIds(added) /\ (stage # "exit" => ListsRanked)
BY DEF RankedLists, distinctIds, ListsRanked, ranked, orderedBy, Arrival, arrivalIn, theirs

LEMMA EnterKeepsLists ==
    ASSUME PlayerTypes, distinctIds(added), ListsRanked, NEW p \in Players, enter(p),
           \A i \in 1 .. Len(added) : added[i].id # p.id
    PROVE  /\ lists' \in [Teams -> [Roles -> Seq(Players)]]
           /\ added' \in Seq(Players)
           /\ distinctIds(added') /\ ListsRanked'
<1>1. /\ added' = Append(added, p) /\ added \in Seq(Players)
      /\ lists' = [lists EXCEPT ![p.team][p.role] = insertPlayerSorted(@, p)]
      /\ p.team \in Teams /\ p.role \in Roles
  BY DEF enter, PlayerTypes, Players
<1>2. /\ added' \in Seq(Players) /\ distinctIds(added')
      /\ ToSet(added') = ToSet(added) \cup {p} /\ p \notin ToSet(added)
      /\ \A x \in ToSet(added) : arrivalIn(added', x) = arrivalIn(added, x)
  BY <1>1, Arrivals
<1>3. ASSUME NEW t \in Teams, NEW role \in Roles
      PROVE  lists'[t][role] \in Seq(Players) /\ ranked(lists'[t][role], added', t, role)
  <2> DEFINE s == lists[t][role]
             r == lists'[t][role]
  <2>1. s \in Seq(Players) /\ ranked(s, added, t, role)
    BY DEF PlayerTypes, ListsRanked
  <2>2. CASE t = p.team /\ role = p.role
    <3>1. r = insertPlayerSorted(s, p)
      BY <1>1, <2>2 DEF PlayerTypes
    <3> HIDE DEF s, r
    <3>2. /\ ToSet(s) = {x \in ToSet(added) : x.team = t /\ x.role = role} /\ IsInjective(s)
          /\ ToSet(s) \subseteq ToSet(added) /\ (AllNumbers(s) => orderedBy(s, added))
      BY <2>1 DEF ranked
    <3>3. /\ r \in Seq(Players) /\ ToSet(r) = ToSet(s) \cup {p} /\ IsInjective(r)
          /\ AllNumbers(r) => orderedBy(r, added')
      BY <1>1, <2>1, <3>1, <3>2, InsertKeepsOrder
    <3>4. ToSet(r) = {x \in ToSet(added') : x.team = t /\ x.role = role}
      BY <1>2, <2>2, <3>2, <3>3
    <3> QED BY <3>3, <3>4 DEF ranked, r
  <2>3. CASE ~(t = p.team /\ role = p.role)
    <3>1. r = s
      BY <1>1, <2>3 DEF PlayerTypes
    <3> HIDE DEF s, r
    <3>2. ToSet(r) = {x \in ToSet(added') : x.team = t /\ x.role = role}
      BY <1>2, <2>1, <2>3, <3>1 DEF ranked
    <3>3. ASSUME AllNumbers(s) PROVE orderedBy(s, added')
      <4>1. orderedBy(s, added) /\ ToSet(s) \subseteq ToSet(added)
        BY <2>1, <3>3 DEF ranked
      <4>2. \A i \in DOMAIN s : s[i] \in ToSet(added)
        BY <4>1 DEF ToSet
      <4> QED BY <1>2, <4>1, <4>2 DEF orderedBy
    <3> QED BY <2>1, <3>1, <3>2, <3>3 DEF ranked, r
  <2> QED BY <2>2, <2>3
<1>4. lists' \in [Teams -> [Roles -> Seq(Players)]]
  <2>1. lists' \in [Teams -> [Roles -> {lists'[t][role] : t \in Teams, role \in Roles}]]
    BY <1>1 DEF PlayerTypes
  <2> QED BY <1>3, <2>1
<1>5. ListsRanked'
  BY <1>3 DEF ListsRanked
<1> QED BY <1>2, <1>4, <1>5

-----------------------------------------------------------------------------
(* The sums of a team.                                                       *)

membersOf(q, t) == {i \in DOMAIN q : q[i].team = t}
battersOf(q, t) == {i \in membersOf(q, t) : q[i].role # "Bowler"}
rates(q, t) ==
    LET sum[n \in 0 .. Len(q)] ==
            IF n = 0 THEN 0
            ELSE IF n \in battersOf(q, t) THEN plus(sum[n - 1], q[n].sr) ELSE sum[n - 1]
    IN  sum[Len(q)]

\* k[i] is what the first i players give.
adds(k, q, t) ==
    /\ k[0] = 0
    /\ \A i \in 1 .. Len(q) :
         k[i] = IF i \in battersOf(q, t) THEN plus(k[i - 1], q[i].sr) ELSE k[i - 1]

LEMMA RatesUnfold ==
    ASSUME NEW q \in Seq(Players), NEW t
    PROVE  \E k \in [0 .. Len(q) -> NumbersOrNaN] : adds(k, q, t) /\ rates(q, t) = k[Len(q)]
<1> DEFINE n == Len(q)
           D == battersOf(q, t)
           next(v, i) == IF i \in 1 .. n /\ i \in D THEN plus(v, q[i].sr) ELSE v
           G == [p \in Nat \X NumbersOrNaN |-> next(p[2], p[1] + 1)]
           body(g) == [i \in 0 .. n |->
                         IF i = 0 THEN 0
                         ELSE IF i \in D THEN plus(g[i - 1], q[i].sr) ELSE g[i - 1]]
<1>1. n \in Nat /\ \A i \in 1 .. n : q[i].sr \in NumbersOrNaN
  <2>1. \A x \in Players : x.sr \in NumbersOrNaN
    BY DEF Players
  <2> QED BY <2>1, LenProperties, ElementOfSeq
<1>2. \A i \in Nat, v \in NumbersOrNaN : next(v, i + 1) \in NumbersOrNaN
  BY <1>1 DEF plus, NumbersOrNaN
<1> HIDE DEF next, D
<1>3. /\ G \in [Nat \X NumbersOrNaN -> NumbersOrNaN]
      /\ \A i \in Nat, v \in NumbersOrNaN : G[<<i, v>>] = next(v, i + 1)
  BY <1>2
<1> HIDE DEF G
<1>4. 0 \in NumbersOrNaN
  BY DEF NumbersOrNaN
<1>5. PICK g : g \in upTo(NumbersOrNaN, 0, G, n)
  <2>1. upTo(NumbersOrNaN, 0, G, n) # {}
    BY <1>1, <1>3, <1>4, SomeUpTo
  <2> QED BY <2>1
<1>6. /\ g \in [0 .. n -> NumbersOrNaN] /\ g[0] = 0
      /\ \A i \in 0 .. n - 1 : g[i + 1] = G[<<i, g[i]>>]
  BY <1>5 DEF upTo
<1>7. \A i \in 1 .. n : g[i] = IF i \in D THEN plus(g[i - 1], q[i].sr) ELSE g[i - 1]
  <2> SUFFICES ASSUME NEW i \in 1 .. n
               PROVE  g[i] = IF i \in D THEN plus(g[i - 1], q[i].sr) ELSE g[i - 1]
    OBVIOUS
  <2>1. i - 1 \in 0 .. n - 1 /\ (i - 1) + 1 = i /\ i - 1 \in Nat
    BY <1>1
  <2>2. g[i - 1] \in NumbersOrNaN
    BY <1>1, <1>6, <2>1
  <2>3. g[i] = G[<<i - 1, g[i - 1]>>]
    BY <1>6, <2>1
  <2>4. g[i] = next(g[i - 1], i)
    BY <1>3, <2>1, <2>2, <2>3
  <2> QED BY <2>4 DEF next
<1>8. g = body(g)
  <2>1. ASSUME NEW i \in 0 .. n
        PROVE  g[i] = IF i = 0 THEN 0
                      ELSE IF i \in D THEN plus(g[i - 1], q[i].sr) ELSE g[i - 1]
    <3>1. i = 0 \/ i \in 1 .. n
      BY <1>1
    <3> QED BY <1>6, <1>7, <3>1
  <2> QED BY <1>6, <2>1
<1> DEFINE x == CHOOSE f : f = body(f)
<1>9. x = body(x)
  <2> HIDE DEF body
  <2> QED BY <1>8
<1>10. rates(q, t) = x[n]
  BY DEF rates, D
<1> HIDE DEF x
<1>11. \A i \in 0 .. n :
         x[i] = IF i = 0 THEN 0 ELSE IF i \in D THEN plus(x[i - 1], q[i].sr) ELSE x[i - 1]
  BY <1>9
<1>12. \A i \in Nat : i \in 0 .. n => x[i] = g[i]
  <2> DEFINE T == {i \in Nat : i \in 0 .. n => x[i] = g[i]}
  <2>1. 0 \in T
    BY <1>1, <1>6, <1>11
  <2>2. ASSUME NEW i \in Nat, i \in T PROVE i + 1 \in T
    <3> SUFFICES ASSUME i + 1 \in 0 .. n PROVE x[i + 1] = g[i + 1]
      OBVIOUS
    <3>1. i \in 0 .. n /\ i + 1 \in 1 .. n /\ (i + 1) - 1 = i /\ i + 1 # 0
      BY <1>1
    <3>2. x[i] = g[i]
      BY <2>2, <3>1
    <3>3. x[i + 1] = IF i + 1 \in D THEN plus(x[i], q[i + 1].sr) ELSE x[i]
      BY <1>11, <3>1
    <3>4. g[i + 1] = IF i + 1 \in D THEN plus(g[i], q[i + 1].sr) ELSE g[i]
      BY <1>7, <3>1
    <3> QED BY <3>2, <3>3, <3>4
  <2> HIDE DEF T
  <2>3. Nat \subseteq T
    BY <2>1, <2>2, InductiveSet
  <2> QED BY <2>3 DEF T
<1>13. rates(q, t) = g[n]
  BY <1>1, <1>10, <1>12
<1>14. adds(g, q, t)
  BY <1>6, <1>7 DEF adds, D
<1> QED BY <1>6, <1>13, <1>14

\* Another player adds to the sum of its team, if it bats.
LEMMA RatesGrow ==
    ASSUME NEW q \in Seq(Players), NEW p \in Players, NEW t
    PROVE  rates(Append(q, p), t) =
             IF p.team = t /\ p.role # "Bowler" THEN plus(rates(q, t), p.sr) ELSE rates(q, t)
<1> DEFINE n == Len(q)
           a == Append(q, p)
<1>1. /\ a \in Seq(Players) /\ Len(a) = n + 1 /\ a[n + 1] = p /\ \A i \in 1 .. n : a[i] = q[i]
      /\ n \in Nat /\ DOMAIN a = 1 .. n + 1 /\ DOMAIN q = 1 .. n
  BY AppendProperties, LenProperties
<1> HIDE DEF a, n
<1>2. PICK k : k \in [0 .. n -> NumbersOrNaN] /\ adds(k, q, t) /\ rates(q, t) = k[n]
  BY RatesUnfold DEF n
<1>3. PICK l : adds(l, a, t) /\ rates(a, t) = l[n + 1]
  <2>1. \E l \in [0 .. Len(a) -> NumbersOrNaN] : adds(l, a, t) /\ rates(a, t) = l[Len(a)]
    BY <1>1, RatesUnfold
  <2> QED BY <1>1, <2>1
<1>4. /\ \A i \in 1 .. n : i \in battersOf(a, t) <=> i \in battersOf(q, t)
      /\ n + 1 \in battersOf(a, t) <=> p.team = t /\ p.role # "Bowler"
  <2>1. \A i \in 1 .. n : i \in 1 .. n + 1
    BY <1>1
  <2>2. n + 1 \in 1 .. n + 1
    BY <1>1
  <2> QED BY <1>1, <2>1, <2>2 DEF battersOf, membersOf
<1>5. /\ k[0] = 0 /\ l[0] = 0
      /\ \A i \in 1 .. n : k[i] = IF i \in battersOf(q, t) THEN plus(k[i - 1], q[i].sr) ELSE k[i - 1]
      /\ \A i \in 1 .. n + 1 : l[i] = IF i \in battersOf(a, t) THEN plus(l[i - 1], a[i].sr) ELSE l[i - 1]
  BY <1>1, <1>2, <1>3 DEF adds, n
<1>6. \A i \in Nat : i \in 0 .. n => l[i] = k[i]
  <2> DEFINE T == {i \in Nat : i \in 0 .. n => l[i] = k[i]}
  <2>1. 0 \in T
    BY <1>5
  <2>2. ASSUME NEW i \in Nat, i \in T PROVE i + 1 \in T
    <3> SUFFICES ASSUME i + 1 \in 0 .. n PROVE l[i + 1] = k[i + 1]
      OBVIOUS
    <3>1. i \in 0 .. n /\ i + 1 \in 1 .. n /\ i + 1 \in 1 .. n + 1 /\ (i + 1) - 1 = i
      BY <1>1
    <3>2. l[i] = k[i]
      BY <2>2, <3>1
    <3>3. a[i + 1] = q[i + 1] /\ (i + 1 \in battersOf(a, t) <=> i + 1 \in battersOf(q, t))
      BY <1>1, <1>4, <3>1
    <3>4. l[i + 1] = IF i + 1 \in battersOf(a, t) THEN plus(l[i], a[i + 1].sr) ELSE l[i]
      BY <1>5, <3>1
    <3>5. k[i + 1] = IF i + 1 \in battersOf(q, t) THEN plus(k[i], q[i + 1].sr) ELSE k[i]
      BY <1>5, <3>1
    <3> QED BY <3>2, <3>3, <3>4, <3>5
  <2> HIDE DEF T
  <2>3. Nat \subseteq T
    BY <2>1, <2>2, InductiveSet
  <2> QED BY <2>3 DEF T
<1>7. l[n] = k[n] /\ n + 1 \in 1 .. n + 1 /\ (n + 1) - 1 = n
  BY <1>1, <1>6
<1>8. l[n + 1] = IF n + 1 \in battersOf(a, t) THEN plus(l[n], p.sr) ELSE l[n]
  BY <1>1, <1>5, <1>7
<1> QED BY <1>2, <1>3, <1>4, <1>7, <1>8 DEF a

\* So it is with the numbers of players.
LEMMA CountsGrow ==
    ASSUME NEW q \in Seq(Players), NEW p \in Players, NEW t
    PROVE  /\ Cardinality(membersOf(q, t)) \in Nat /\ Cardinality(battersOf(q, t)) \in Nat
           /\ IsFiniteSet(battersOf(q, t))
           /\ Cardinality(membersOf(Append(q, p), t)) =
                IF p.team = t THEN Cardinality(membersOf(q, t)) + 1 ELSE Cardinality(membersOf(q, t))
           /\ Cardinality(battersOf(Append(q, p), t)) =
                IF p.team = t /\ p.role # "Bowler" THEN Cardinality(battersOf(q, t)) + 1
                ELSE Cardinality(battersOf(q, t))
<1> DEFINE n == Len(q)
           a == Append(q, p)
<1>1. /\ Len(a) = n + 1 /\ a[n + 1] = p /\ \A i \in 1 .. n : a[i] = q[i]
      /\ n \in Nat /\ DOMAIN a = 1 .. n + 1 /\ DOMAIN q = 1 .. n
  BY AppendProperties, LenProperties
<1> HIDE DEF a, n
<1>2. 1 .. n + 1 = (1 .. n) \cup {n + 1} /\ n + 1 \notin 1 .. n
  BY <1>1
<1>3. /\ membersOf(q, t) \subseteq 1 .. n /\ battersOf(q, t) \subseteq 1 .. n
      /\ IsFiniteSet(membersOf(q, t)) /\ IsFiniteSet(battersOf(q, t))
  <2>1. IsFiniteSet(1 .. n)
    BY <1>1, FS_Interval
  <2>2. membersOf(q, t) \subseteq 1 .. n /\ battersOf(q, t) \subseteq 1 .. n
    BY <1>1 DEF membersOf, battersOf
  <2> QED BY <2>1, <2>2, FS_Subset
<1>4. membersOf(a, t) = IF p.team = t THEN membersOf(q, t) \cup {n + 1} ELSE membersOf(q, t)
  BY <1>1, <1>2 DEF membersOf
<1>5. battersOf(a, t) = IF p.team = t /\ p.role # "Bowler" THEN battersOf(q, t) \cup {n + 1}
                        ELSE battersOf(q, t)
  BY <1>1, <1>2 DEF membersOf, battersOf
<1>6. /\ Cardinality(membersOf(q, t) \cup {n + 1}) = Cardinality(membersOf(q, t)) + 1
      /\ Cardinality(battersOf(q, t) \cup {n + 1}) = Cardinality(battersOf(q, t)) + 1
      /\ Cardinality(membersOf(q, t)) \in Nat /\ Cardinality(battersOf(q, t)) \in Nat
  <2>1. n + 1 \notin membersOf(q, t) /\ n + 1 \notin battersOf(q, t)
    BY <1>2, <1>3
  <2> QED BY <1>3, <2>1, FS_AddElement, FS_CardinalityType
<1> QED BY <1>3, <1>4, <1>5, <1>6 DEF a

Tallied == \A t \in Teams :
    tally[t] = [players |-> Cardinality(membersOf(added, t)),
                batting |-> Cardinality(battersOf(added, t)), srSum |-> rates(added, t)]

LEMMA EnterKeepsTally ==
    ASSUME PlayerTypes, Tallied, NEW p \in Players, enter(p)
    PROVE  /\ tally' \in [Teams -> [players: Nat, batting: Nat, srSum: NumbersOrNaN]]
           /\ Tallied'
<1>1. /\ added' = Append(added, p) /\ added \in Seq(Players) /\ p.team \in Teams
      /\ p.role \in Roles /\ p.sr \in NumbersOrNaN
      /\ DOMAIN tally = Teams
  BY DEF enter, PlayerTypes, Players
<1>2. bats(p.role) <=> p.role # "Bowler"
  BY <1>1 DEF bats, Roles
<1>3. tally' = [tally EXCEPT ![p.team] =
                   [players |-> tally[p.team].players + 1,
                    batting |-> IF bats(p.role) THEN tally[p.team].batting + 1 ELSE tally[p.team].batting,
                    srSum   |-> IF bats(p.role) THEN plus(tally[p.team].srSum, p.sr) ELSE tally[p.team].srSum]]
  BY DEF enter
<1>4. ASSUME NEW t \in Teams
      PROVE  /\ tally'[t] \in [players: Nat, batting: Nat, srSum: NumbersOrNaN]
             /\ tally'[t] = [players |-> Cardinality(membersOf(added', t)),
                             batting |-> Cardinality(battersOf(added', t)), srSum |-> rates(added', t)]
  <2> DEFINE b == tally[t]
             m == Cardinality(membersOf(added, t))
             c == Cardinality(battersOf(added, t))
             s == rates(added, t)
  <2>1. b = [players |-> m, batting |-> c, srSum |-> s]
    BY DEF Tallied
  <2>2. /\ Cardinality(membersOf(added', t)) = IF p.team = t THEN m + 1 ELSE m
        /\ Cardinality(battersOf(added', t)) = IF p.team = t /\ p.role # "Bowler" THEN c + 1 ELSE c
        /\ m \in Nat /\ c \in Nat
    BY <1>1, CountsGrow
  <2>3. rates(added', t) = IF p.team = t /\ p.role # "Bowler" THEN plus(s, p.sr) ELSE s
    BY <1>1, RatesGrow
  <2>4. s \in NumbersOrNaN /\ plus(s, p.sr) \in NumbersOrNaN
    <3>1. s \in NumbersOrNaN
      <4>1. b \in [players: Nat, batting: Nat, srSum: NumbersOrNaN]
        BY DEF PlayerTypes
      <4> HIDE DEF b, m, c, s
      <4> QED BY <2>1, <4>1
    <3> QED BY <1>1, <3>1 DEF plus, NumbersOrNaN
  <2> HIDE DEF m, c, s
  <2>5. CASE t = p.team
    <3>1. tally'[t] = [players |-> b.players + 1,
                       batting |-> IF bats(p.role) THEN b.batting + 1 ELSE b.batting,
                       srSum   |-> IF bats(p.role) THEN plus(b.srSum, p.sr) ELSE b.srSum]
      BY <1>1, <1>3, <2>5
    <3> HIDE DEF b
    <3>2. b.players = m /\ b.batting = c /\ b.srSum = s
      BY <2>1
    <3> QED BY <1>2, <2>2, <2>3, <2>4, <2>5, <3>1, <3>2
  <2>6. CASE t # p.team
    <3>1. tally'[t] = b
      BY <1>1, <1>3, <2>6
    <3> QED BY <2>1, <2>2, <2>3, <2>4, <2>6, <3>1
  <2> QED BY <2>5, <2>6
<1>5. DOMAIN tally' = Teams /\ tally' = [t \in Teams |-> tally'[t]]
  BY <1>1, <1>3
<1> QED BY <1>4, <1>5 DEF Tallied

-----------------------------------------------------------------------------
(* The heap.                                                                 *)

\* A recursion along c, which goes down in rank until it stays.
descends(S, n, c, rank, base, G) ==
    /\ n \in Nat /\ c \in [1 .. n -> 1 .. n] /\ rank \in [1 .. n -> Nat]
    /\ \A i \in 1 .. n : rank[i] <= n /\ (c[i] = i \/ rank[c[i]] < rank[i])
    /\ base \in [1 .. n -> S] /\ G \in [(1 .. n) \X S -> S]

LEMMA Descent ==
    ASSUME NEW S, NEW n, NEW c, NEW rank, NEW base, NEW G, descends(S, n, c, rank, base, G)
    PROVE  \E F \in [1 .. n -> S] :
             \A i \in 1 .. n : F[i] = IF c[i] = i THEN base[i] ELSE G[<<i, F[c[i]]>>]
<1>0. /\ n \in Nat /\ c \in [1 .. n -> 1 .. n] /\ rank \in [1 .. n -> Nat]
      /\ \A i \in 1 .. n : rank[i] <= n /\ (c[i] = i \/ rank[c[i]] < rank[i])
      /\ base \in [1 .. n -> S] /\ G \in [(1 .. n) \X S -> S]
  BY DEF descends
<1> USE <1>0
<1> DEFINE right(F, i) == F[i] = IF c[i] = i THEN base[i] ELSE G[<<i, F[c[i]]>>]
           T == {m \in Nat : \E F \in [1 .. n -> S] : \A i \in 1 .. n : rank[i] < m => right(F, i)}
<1>1. 0 \in T
  <2>1. \A i \in 1 .. n : ~(rank[i] < 0)
    OBVIOUS
  <2> HIDE DEF right
  <2> QED BY <2>1
<1>2. ASSUME NEW m \in Nat, m \in T PROVE m + 1 \in T
  <2>1. PICK F \in [1 .. n -> S] : \A i \in 1 .. n : rank[i] < m => right(F, i)
    BY <1>2
  <2> DEFINE H == [i \in 1 .. n |-> IF rank[i] = m
                                   THEN IF c[i] = i THEN base[i] ELSE G[<<i, F[c[i]]>>]
                                   ELSE F[i]]
  <2>2. H \in [1 .. n -> S]
    <3> SUFFICES ASSUME NEW i \in 1 .. n
                 PROVE  (IF rank[i] = m THEN IF c[i] = i THEN base[i] ELSE G[<<i, F[c[i]]>>] ELSE F[i]) \in S
      OBVIOUS
    <3>1. F[c[i]] \in S /\ F[i] \in S /\ base[i] \in S
      OBVIOUS
    <3>2. <<i, F[c[i]]>> \in (1 .. n) \X S
      BY <3>1
    <3> QED BY <3>1, <3>2
  <2>3. ASSUME NEW i \in 1 .. n, rank[i] < m + 1 PROVE right(H, i)
    <3>1. c[i] \in 1 .. n /\ rank[i] \in Nat /\ rank[c[i]] \in Nat
      OBVIOUS
    <3>2. CASE rank[i] = m
      <4>1. c[i] # i => rank[c[i]] # m
        BY <3>1, <3>2
      <4>2. c[i] # i => H[c[i]] = F[c[i]]
        BY <3>1, <4>1
      <4>3. H[i] = IF c[i] = i THEN base[i] ELSE G[<<i, F[c[i]]>>]
        BY <3>2
      <4> QED BY <4>2, <4>3
    <3>3. CASE rank[i] < m
      <4>0. c[i] = i \/ rank[c[i]] < rank[i]
        OBVIOUS
      <4>4. rank[i] # m
        BY ONLY <3>1, <3>3, m \in Nat
      <4>5. rank[c[i]] # m
        <5>1. CASE c[i] = i
          BY <4>4, <5>1
        <5>2. CASE rank[c[i]] < rank[i]
          BY ONLY <3>1, <3>3, <5>2, m \in Nat
        <5> QED BY <4>0, <5>1, <5>2
      <4>1. H[i] = F[i]
        BY <4>4
      <4>2. H[c[i]] = F[c[i]]
        BY <3>1, <4>5
      <4>3. right(F, i)
        BY <2>1, <3>3
      <4> HIDE DEF H
      <4> QED BY <4>1, <4>2, <4>3
    <3> QED BY <2>3, <3>1, <3>2, <3>3
  <2> HIDE DEF H, right
  <2>4. m + 1 \in Nat /\ \A i \in 1 .. n : rank[i] < m + 1 => right(H, i)
    BY <2>3
  <2> QED BY <2>2, <2>4
<1> HIDE DEF T
<1>3. n + 1 \in T
  BY <1>1, <1>2, InductiveSet
<1>4. PICK F \in [1 .. n -> S] : \A i \in 1 .. n : rank[i] < n + 1 => right(F, i)
  BY <1>3 DEF T
<1>5. \A i \in 1 .. n : rank[i] < n + 1
  OBVIOUS
<1> QED BY <1>4, <1>5

\* The orders of n places, and the same players in another order, those at the
\* places K where they were.
orders(n) == {f \in [1 .. n -> 1 .. n] : /\ \A i, j \in 1 .. n : f[i] = f[j] => i = j
                                       /\ \A j \in 1 .. n : \E i \in 1 .. n : f[i] = j}
arranged(r, s, K) ==
    /\ r \in Seq(Players) /\ Len(r) = Len(s)
    /\ \E f \in orders(Len(s)) : /\ \A k \in 1 .. Len(s) : r[k] = s[f[k]]
                                /\ \A k \in K : f[k] = k

\* One player of a team at most.
oneEach(s) == \A i, j \in DOMAIN s : s[i].team = s[j].team => i = j

LEMMA ArrangedAre ==
    ASSUME NEW s \in Seq(Players), NEW r, NEW K, arranged(r, s, K), K \subseteq 1 .. Len(s)
    PROVE  /\ r \in Seq(Players) /\ Len(r) = Len(s) /\ DOMAIN r = 1 .. Len(s)
           /\ ToSet(r) = ToSet(s)
           /\ oneEach(s) => oneEach(r)
           /\ \A k \in K : r[k] = s[k]
<1> DEFINE n == Len(s)
<1>1. n \in Nat /\ DOMAIN s = 1 .. n /\ DOMAIN r = 1 .. n
  BY LenProperties DEF arranged
<1>2. PICK f \in orders(n) : /\ \A k \in 1 .. n : r[k] = s[f[k]]
                             /\ \A k \in K : f[k] = k
  BY DEF arranged
<1> HIDE DEF n
<1>3. /\ f \in [1 .. n -> 1 .. n] /\ \A i, j \in 1 .. n : f[i] = f[j] => i = j
      /\ \A j \in 1 .. n : \E i \in 1 .. n : f[i] = j
  BY DEF orders
<1>4. ToSet(r) = ToSet(s)
  <2>1. ToSet(r) = {r[k] : k \in 1 .. n} /\ ToSet(s) = {s[k] : k \in 1 .. n}
    BY <1>1 DEF ToSet
  <2>2. ASSUME NEW j \in 1 .. n PROVE s[j] \in ToSet(r)
    <3>1. PICK i \in 1 .. n : f[i] = j
      BY <1>3
    <3>2. r[i] = s[j]
      BY <1>2, <3>1
    <3> QED BY <2>1, <3>2
  <2>3. ASSUME NEW k \in 1 .. n PROVE r[k] \in ToSet(s)
    <3>1. f[k] \in 1 .. n /\ r[k] = s[f[k]]
      BY <1>2, <1>3
    <3> QED BY <2>1, <3>1
  <2> QED BY <2>1, <2>2, <2>3
<1>5. ASSUME oneEach(s) PROVE oneEach(r)
  <2> SUFFICES ASSUME NEW i \in 1 .. n, NEW j \in 1 .. n, r[i].team = r[j].team PROVE i = j
    BY <1>1 DEF oneEach
  <2>1. r[i] = s[f[i]] /\ r[j] = s[f[j]] /\ f[i] \in 1 .. n /\ f[j] \in 1 .. n
    BY <1>2, <1>3
  <2>2. f[i] = f[j]
    BY <1>1, <1>5, <2>1 DEF oneEach
  <2> QED BY <1>3, <2>2
<1>6. \A k \in K : r[k] = s[k]
  BY <1>2 DEF n
<1> QED BY <1>1, <1>4, <1>5, <1>6 DEF arranged, n

\* A player is put at the place i; or at c, and the one of c at i.
LEMMA HoleMoves ==
    ASSUME NEW s \in Seq(Players), NEW p \in Players, NEW i \in 1 .. Len(s), NEW c \in 1 .. Len(s),
           i # c, NEW r, NEW K, arranged(r, [s EXCEPT ![c] = p], K), K \subseteq 1 .. Len(s),
           i \in K, NEW J, J \subseteq K, i \notin J, c \notin J
    PROVE  arranged([r EXCEPT ![i] = s[c]], [s EXCEPT ![i] = p], J)
<1> DEFINE n == Len(s)
           b == [s EXCEPT ![c] = p]
           a == [s EXCEPT ![i] = p]
           q == [r EXCEPT ![i] = s[c]]
<1>1. /\ n \in Nat /\ DOMAIN s = 1 .. n /\ s[c] \in Players
      /\ a \in Seq(Players) /\ b \in Seq(Players) /\ Len(a) = n /\ Len(b) = n
  BY LenProperties, ElementOfSeq, ExceptSeq
<1>2. /\ \A k \in 1 .. n : a[k] = IF k = i THEN p ELSE s[k]
      /\ \A k \in 1 .. n : b[k] = IF k = c THEN p ELSE s[k]
  BY <1>1
<1>3. /\ r \in Seq(Players) /\ Len(r) = n
      /\ \E f \in orders(n) : /\ \A k \in 1 .. n : r[k] = b[f[k]]
                             /\ \A k \in K : f[k] = k
  BY <1>1 DEF arranged
<1>4. PICK f \in orders(n) : /\ \A k \in 1 .. n : r[k] = b[f[k]]
                             /\ \A k \in K : f[k] = k
  BY <1>3
<1>5. /\ q \in Seq(Players) /\ Len(q) = n
      /\ \A k \in 1 .. n : q[k] = IF k = i THEN s[c] ELSE r[k]
  <2>1. DOMAIN r = 1 .. n
    BY <1>3, LenProperties
  <2> QED BY <1>1, <1>3, <2>1, ExceptSeq
<1> HIDE DEF n, a, b, q
<1>6. /\ f \in [1 .. n -> 1 .. n] /\ \A x, y \in 1 .. n : f[x] = f[y] => x = y
      /\ \A y \in 1 .. n : \E x \in 1 .. n : f[x] = y
      /\ f[i] = i /\ i \in 1 .. n /\ c \in 1 .. n
  BY <1>4 DEF orders, n
<1> DEFINE g == [k \in 1 .. n |-> IF k = i THEN c ELSE IF f[k] = c THEN i ELSE f[k]]
<1>7. g \in orders(n)
  <2>1. g \in [1 .. n -> 1 .. n]
    BY <1>6
  <2>2. ASSUME NEW x \in 1 .. n, NEW y \in 1 .. n, g[x] = g[y] PROVE x = y
    <3>1. \A k \in 1 .. n : k # i => f[k] # i /\ f[k] \in 1 .. n
      BY <1>6
    <3>2. g[x] = IF x = i THEN c ELSE IF f[x] = c THEN i ELSE f[x]
      OBVIOUS
    <3>3. g[y] = IF y = i THEN c ELSE IF f[y] = c THEN i ELSE f[y]
      OBVIOUS
    <3> HIDE DEF g
    <3>4. x = i <=> y = i
      BY <2>2, <3>1, <3>2, <3>3
    <3>5. x # i => f[x] = f[y]
      BY <2>2, <3>1, <3>2, <3>3, <3>4
    <3> QED BY <1>6, <3>4, <3>5
  <2>3. ASSUME NEW y \in 1 .. n PROVE \E x \in 1 .. n : g[x] = y
    <3>1. CASE y = c
      BY <1>6, <3>1
    <3>2. CASE y = i
      <4>1. PICK x \in 1 .. n : f[x] = c
        BY <1>6
      <4>2. x # i /\ g[x] = i
        BY <1>6, <4>1
      <4> QED BY <3>2, <4>2
    <3>3. CASE y # c /\ y # i
      <4>1. PICK x \in 1 .. n : f[x] = y
        BY <1>6
      <4>2. x # i /\ g[x] = y
        BY <1>6, <3>3, <4>1
      <4> QED BY <4>2
    <3> QED BY <3>1, <3>2, <3>3
  <2> HIDE DEF g
  <2> QED BY <2>1, <2>2, <2>3 DEF orders
<1>8. ASSUME NEW k \in 1 .. n PROVE q[k] = a[g[k]]
  <2>1. CASE k = i
    BY <1>2, <1>5, <1>6, <2>1
  <2>2. CASE k # i /\ f[k] = c
    <3>1. q[k] = r[k] /\ r[k] = b[f[k]] /\ b[c] = p /\ a[i] = p /\ g[k] = i
      BY <1>2, <1>4, <1>5, <1>6, <2>2
    <3> QED BY <2>2, <3>1
  <2>3. CASE k # i /\ f[k] # c
    <3>1. f[k] \in 1 .. n /\ f[k] # i
      BY <1>6, <2>3
    <3>2. q[k] = s[f[k]] /\ g[k] = f[k]
      BY <1>2, <1>4, <1>5, <2>3, <3>1
    <3> QED BY <1>2, <3>1, <3>2
  <2> QED BY <2>1, <2>2, <2>3
<1>9. ASSUME NEW k \in J PROVE g[k] = k
  <2>1. k \in 1 .. n /\ f[k] = k /\ k # i /\ k # c
    BY <1>4 DEF n
  <2> QED BY <2>1
<1> HIDE DEF g
<1> QED BY <1>1, <1>5, <1>7, <1>8, <1>9, SMTT(30) DEF arranged, n, a, q

LEMMA ArrangedSelf ==
    ASSUME NEW s \in Seq(Players), NEW K, K \subseteq 1 .. Len(s)
    PROVE  arranged(s, s, K)
<1> DEFINE f == [k \in 1 .. Len(s) |-> k]
<1>1. f \in orders(Len(s))
  BY DEF orders
<1>2. /\ \A k \in 1 .. Len(s) : s[k] = s[f[k]]
      /\ \A k \in K : f[k] = k
  OBVIOUS
<1> HIDE DEF f
<1> QED BY <1>1, <1>2 DEF arranged

\* None is better than the one above it, from level a on.
heapOrdered(h, a) == \A k \in 2 .. Len(h) : k \div 2 >= a => h[k].pi <= h[k \div 2].pi

LEMMA PiNumbers ==
    ASSUME NEW s \in Seq(Players), AllNumbers(s)
    PROVE  \A k \in 1 .. Len(s) : s[k].pi \in Int
<1>1. \A x \in Players : x.pi \in NumbersOrNaN
  BY DEF Players
<1>2. \A k \in 1 .. Len(s) : k \in DOMAIN s /\ s[k] \in Players /\ s[k].pi # NaN
  BY LenProperties, ElementOfSeq DEF AllNumbers
<1> QED BY <1>1, <1>2 DEF NumbersOrNaN

LEMMA LargestIs ==
    ASSUME NEW h \in Seq(Players), NEW p \in Players, NEW i \in 1 .. Len(h)
    PROVE  /\ largest(h, i, p) \in 1 .. Len(h)
           /\ \/ largest(h, i, p) = i
              \/ /\ largest(h, i, p) \div 2 = i /\ largest(h, i, p) > i
                 /\ gt(h[largest(h, i, p)].pi, p.pi)
           /\ AllNumbers(h) /\ p.pi \in Int =>
                \A k \in 2 .. Len(h) : k \div 2 = i =>
                    h[k].pi <= IF largest(h, i, p) = i THEN p.pi ELSE h[largest(h, i, p)].pi
<1> DEFINE l == 2 * i
           left == IF l <= Len(h) /\ gt(h[l].pi, p.pi) THEN l ELSE i
           best == IF left = i THEN p ELSE h[left]
           c == IF l + 1 <= Len(h) /\ gt(h[l + 1].pi, best.pi) THEN l + 1 ELSE left
<1>1. largest(h, i, p) = c
  BY DEF largest
<1>2. /\ Len(h) \in Nat /\ i \in Nat /\ i >= 1 /\ l \in Nat /\ l > i /\ l + 1 > i
      /\ l \div 2 = i /\ (l + 1) \div 2 = i
      /\ \A k \in 2 .. Len(h) : k \div 2 = i => k = l \/ k = l + 1
  BY LenProperties
<1> HIDE DEF l
<1>3. c \in 1 .. Len(h) /\ (c = i \/ c = l \/ c = l + 1)
  BY <1>2
<1>4. c = l => gt(h[l].pi, p.pi)
  BY <1>2
<1>5. c = l + 1 => gt(h[l + 1].pi, best.pi)
  BY <1>2
<1>6. c = l + 1 => gt(h[l + 1].pi, p.pi)
  <2>1. ASSUME c = l + 1, left # i PROVE gt(h[l + 1].pi, p.pi)
    <3>1. left = l /\ gt(h[l].pi, p.pi) /\ gt(h[l + 1].pi, h[l].pi) /\ l + 1 <= Len(h) /\ l <= Len(h)
      BY <1>2, <1>5, <2>1
    <3>2. h[l].pi \in NumbersOrNaN /\ h[l + 1].pi \in NumbersOrNaN /\ p.pi \in NumbersOrNaN
      <4>1. h[l] \in Players /\ h[l + 1] \in Players
        BY <1>2, <3>1, ElementOfSeq
      <4> QED BY <4>1 DEF Players
    <3> QED BY <3>1, <3>2 DEF gt, NumbersOrNaN
  <2> QED BY <1>5, <2>1
<1>7. ASSUME AllNumbers(h), p.pi \in Int, NEW k \in 2 .. Len(h), k \div 2 = i
      PROVE  h[k].pi <= IF c = i THEN p.pi ELSE h[c].pi
  <2>1. /\ \A m \in 1 .. Len(h) : h[m].pi \in Int /\ h[m].pi # NaN
        /\ p.pi # NaN
    BY <1>7, PiNumbers, PlayerAssumption DEF PlayerAssumption
  <2>2. (k = l \/ k = l + 1) /\ k \in 1 .. Len(h) /\ k <= Len(h)
    BY <1>2, <1>7
  <2>0. l <= Len(h) => l \in 1 .. Len(h)
    BY <1>2
  <2>3. best.pi \in Int /\ best.pi # NaN /\ best.pi >= p.pi
    <3>1. CASE left = i
      BY <1>7, <2>1, <3>1
    <3>2. CASE left # i
      <4>1. best = h[l] /\ l \in 1 .. Len(h) /\ h[l].pi > p.pi
        BY <2>0, <3>2 DEF gt
      <4> HIDE DEF best
      <4> QED BY <1>7, <2>1, <4>1
    <3> QED BY <3>1, <3>2
  <2>4. l <= Len(h) => h[l].pi <= best.pi
    <3> SUFFICES ASSUME l <= Len(h) PROVE h[l].pi <= best.pi
      OBVIOUS
    <3>1. h[l].pi \in Int /\ h[l].pi # NaN
      BY <2>0, <2>1
    <3>2. CASE gt(h[l].pi, p.pi)
      <4>1. best = h[l]
        BY <1>2, <3>2
      <4> HIDE DEF best
      <4> QED BY <3>1, <4>1
    <3>3. CASE ~gt(h[l].pi, p.pi)
      <4>1. best = p
        BY <3>3
      <4> HIDE DEF best
      <4> QED BY <1>7, <2>1, <3>1, <3>3, <4>1 DEF gt
    <3> QED BY <3>2, <3>3
  <2>5. CASE c = l + 1
    <3>1. h[l + 1].pi > best.pi /\ l + 1 \in 1 .. Len(h) /\ l <= Len(h) /\ l \in 1 .. Len(h)
      BY <1>2, <1>3, <1>5, <2>5 DEF gt
    <3>2. h[l].pi <= h[l + 1].pi
      BY <2>1, <2>3, <2>4, <3>1
    <3>3. h[l + 1].pi <= h[l + 1].pi
      BY <2>1, <3>1
    <3> HIDE DEF c
    <3> QED BY <1>2, <2>2, <2>5, <3>2, <3>3
  <2>6. CASE c # l + 1
    <3>1. c = left /\ (l + 1 <= Len(h) => ~gt(h[l + 1].pi, best.pi))
      BY <2>6
    <3>2. l + 1 <= Len(h) => h[l + 1].pi <= best.pi
      <4>1. l + 1 <= Len(h) => l + 1 \in 1 .. Len(h)
        BY <1>2
      <4> QED BY <2>1, <2>3, <3>1, <4>1 DEF gt
    <3>3. best.pi = IF c = i THEN p.pi ELSE h[c].pi
      BY <3>1
    <3> HIDE DEF c, best
    <3> QED BY <2>2, <2>4, <3>2, <3>3
  <2> QED BY <2>5, <2>6
<1> HIDE DEF c
<1>8. \/ c = i
      \/ c \div 2 = i /\ c > i /\ gt(h[c].pi, p.pi)
  BY <1>2, <1>3, <1>4, <1>6
<1> QED BY <1>1, <1>3, <1>7, <1>8

\* What the recursion of heapifyDown says.
sinks(F, h, p) ==
    \A i \in 1 .. Len(h) :
        F[i] = IF largest(h, i, p) = i THEN [h EXCEPT ![i] = p]
               ELSE [F[largest(h, i, p)] EXCEPT ![i] = h[largest(h, i, p)]]

LEMMA SinkUnfolds ==
    ASSUME NEW h \in Seq(Players), h # <<>>
    PROVE  \E F : sinks(F, h, h[1]) /\ heapifyDown(h) = F[1]
<1> DEFINE n == Len(h)
           p == h[1]
           S == {v \in Seq(Players) : Len(v) = n}
           c == [i \in 1 .. n |-> largest(h, i, p)]
           rank == [i \in 1 .. n |-> n - i]
           base == [i \in 1 .. n |-> [h EXCEPT ![i] = p]]
           G == [a \in (1 .. n) \X S |-> [a[2] EXCEPT ![a[1]] = h[c[a[1]]]]]
           body(F) == [i \in DOMAIN h |->
                         IF largest(h, i, p) = i THEN [h EXCEPT ![i] = p]
                         ELSE [F[largest(h, i, p)] EXCEPT ![i] = h[largest(h, i, p)]]]
<1>1. n \in Nat /\ DOMAIN h = 1 .. n /\ 1 \in 1 .. n /\ \A i \in 1 .. n : h[i] \in Players
  BY LenProperties, ElementOfSeq, EmptySeq
<1>2. c \in [1 .. n -> 1 .. n] /\ \A i \in 1 .. n : c[i] = largest(h, i, p) /\ c[i] >= i
  <2>1. ASSUME NEW i \in 1 .. n PROVE largest(h, i, p) \in 1 .. n /\ largest(h, i, p) >= i
    <3>1. p \in Players
      BY <1>1
    <3> HIDE DEF p
    <3>2. largest(h, i, p) \in 1 .. n /\ (largest(h, i, p) = i \/ largest(h, i, p) > i)
      BY <3>1, LargestIs
    <3> QED BY <1>1, <3>2
  <2> HIDE DEF p
  <2> QED BY <2>1
<1>3. /\ rank \in [1 .. n -> Nat] /\ \A i \in 1 .. n : rank[i] <= n
      /\ \A i \in 1 .. n : c[i] = i \/ rank[c[i]] < rank[i]
  <2> HIDE DEF c
  <2> QED BY <1>1, <1>2
<1>4. base \in [1 .. n -> S]
  BY <1>1, ExceptSeq
<1>5. /\ G \in [(1 .. n) \X S -> S]
      /\ \A i \in 1 .. n, v \in S : G[<<i, v>>] = [v EXCEPT ![i] = h[c[i]]]
  <2> HIDE DEF c, p
  <2>1. ASSUME NEW i \in 1 .. n, NEW v \in S PROVE [v EXCEPT ![i] = h[c[i]]] \in S
    BY <1>1, <1>2, ExceptSeq
  <2> HIDE DEF S
  <2> QED BY <2>1
<1> HIDE DEF c, rank, base, G, S, n
<1>0. descends(S, n, c, rank, base, G)
  BY ONLY <1>1, <1>2, <1>3, <1>4, <1>5 DEF descends
<1>6. PICK F \in [1 .. n -> S] :
        \A i \in 1 .. n : F[i] = IF c[i] = i THEN base[i] ELSE G[<<i, F[c[i]]>>]
  BY ONLY <1>0, Descent
<1>7. \A i \in 1 .. n : F[i] = IF largest(h, i, p) = i THEN [h EXCEPT ![i] = p]
                               ELSE [F[largest(h, i, p)] EXCEPT ![i] = h[largest(h, i, p)]]
  <2> SUFFICES ASSUME NEW i \in 1 .. n
               PROVE  F[i] = IF c[i] = i THEN [h EXCEPT ![i] = p] ELSE [F[c[i]] EXCEPT ![i] = h[c[i]]]
    BY <1>2
  <2>1. F[c[i]] \in S /\ base[i] = [h EXCEPT ![i] = p]
    BY <1>2 DEF base
  <2>2. G[<<i, F[c[i]]>>] = [F[c[i]] EXCEPT ![i] = h[c[i]]]
    BY <1>5, <2>1
  <2> QED BY <1>6, <2>1, <2>2
<1>8. F = body(F)
  <2> HIDE DEF p
  <2> QED BY <1>1, <1>7
<1> DEFINE x == CHOOSE f : f = body(f)
<1>9. x = body(x)
  <2> HIDE DEF body
  <2> QED BY <1>8
<1>10. heapifyDown(h) = x[1]
  BY DEF heapifyDown
<1> HIDE DEF x
<1>11. sinks(x, h, p)
  <2> HIDE DEF p
  <2> QED BY <1>1, <1>9 DEF sinks, n
<1> QED BY <1>10, <1>11

\* Each step of it, from the bottom up, is an exchange, ...
LEMMA SinkArranges ==
    ASSUME NEW h \in Seq(Players), NEW p \in Players, NEW F, sinks(F, h, p)
    PROVE  \A i \in 1 .. Len(h) : arranged(F[i], [h EXCEPT ![i] = p], 1 .. i - 1)
<1> DEFINE n == Len(h)
           good(i) == arranged(F[i], [h EXCEPT ![i] = p], 1 .. i - 1)
           T == {m \in Nat : \A i \in 1 .. n : n - i < m => good(i)}
<1>1. n \in Nat
  BY LenProperties
<1>2. 0 \in T
  <2> HIDE DEF good
  <2> QED BY <1>1
<1>3. ASSUME NEW m \in Nat, m \in T PROVE m + 1 \in T
  <2>1. ASSUME NEW i \in 1 .. n, n - i < m + 1 PROVE good(i)
    <3> DEFINE c == largest(h, i, p)
    <3>1. /\ c \in 1 .. n /\ (c = i \/ c > i)
          /\ F[i] = IF c = i THEN [h EXCEPT ![i] = p] ELSE [F[c] EXCEPT ![i] = h[c]]
      BY LargestIs DEF sinks
    <3> HIDE DEF c
    <3>2. CASE c = i
      <4> DEFINE b == [h EXCEPT ![i] = p]
      <4>1. b \in Seq(Players) /\ Len(b) = n /\ 1 .. i - 1 \subseteq 1 .. n
        BY <1>1, ExceptSeq
      <4> HIDE DEF b, n
      <4>2. arranged(b, b, 1 .. i - 1)
        BY <4>1, ArrangedSelf
      <4> QED BY <3>1, <3>2, <4>2 DEF b
    <3>3. CASE c # i
      <4>1. c > i /\ n - c < m
        BY <1>1, <2>1, <3>1, <3>3
      <4>2. good(c)
        BY <1>3, <3>1, <4>1
      <4>3. /\ 1 .. c - 1 \subseteq 1 .. n /\ i \in 1 .. c - 1 /\ 1 .. i - 1 \subseteq 1 .. c - 1
            /\ i \notin 1 .. i - 1 /\ c \notin 1 .. i - 1 /\ i # c
        BY <1>1, <3>1, <4>1
      <4>4. arranged([F[c] EXCEPT ![i] = h[c]], [h EXCEPT ![i] = p], 1 .. i - 1)
        BY <3>1, <4>2, <4>3, HoleMoves
      <4> QED BY <3>1, <3>3, <4>4
    <3> QED BY <3>2, <3>3
  <2> HIDE DEF good
  <2> QED BY <2>1
<1> HIDE DEF T
<1>4. n + 1 \in T
  BY <1>1, <1>2, <1>3, InductiveSet
<1>5. \A i \in 1 .. n : n - i < n + 1
  BY <1>1
<1> HIDE DEF good
<1>6. \A i \in 1 .. n : good(i)
  BY <1>4, <1>5 DEF T
<1> QED BY <1>6 DEF good

\* One step of it: up comes c, no worse than the players below i.
under(h, p, i, c) ==
    /\ c \in 1 .. Len(h)
    /\ c = i \/ (c > i /\ c \div 2 = i /\ gt(h[c].pi, p.pi))
    /\ AllNumbers(h) /\ p.pi \in Int =>
         \A k \in 2 .. Len(h) : k \div 2 = i => h[k].pi <= IF c = i THEN p.pi ELSE h[c].pi

lifts(F, h, p, i, c) ==
    F[i] = IF c = i THEN [h EXCEPT ![i] = p] ELSE [F[c] EXCEPT ![i] = h[c]]

LEMMA SinkStep ==
    ASSUME NEW h \in Seq(Players), NEW p \in Players, NEW F, sinks(F, h, p),
           NEW i \in 1 .. Len(h)
    PROVE  \E c : under(h, p, i, c) /\ lifts(F, h, p, i, c)
<1> DEFINE c == largest(h, i, p)
<1>1. lifts(F, h, p, i, c)
  BY DEF sinks, lifts
<1>2. under(h, p, i, c)
  <2>1. c \in 1 .. Len(h)
    BY ONLY h \in Seq(Players), p \in Players, i \in 1 .. Len(h), LargestIs
  <2>2. c = i \/ (c > i /\ c \div 2 = i /\ gt(h[c].pi, p.pi))
    BY ONLY h \in Seq(Players), p \in Players, i \in 1 .. Len(h), LargestIs
  <2>3. ASSUME AllNumbers(h), p.pi \in Int, NEW k \in 2 .. Len(h), k \div 2 = i
        PROVE  h[k].pi <= IF c = i THEN p.pi ELSE h[c].pi
    BY <2>3, LargestIs
  <2> HIDE DEF c
  <2> QED BY <2>1, <2>2, <2>3 DEF under
<1> HIDE DEF c
<1> QED BY <1>1, <1>2

LEMMA SunkAre ==
    ASSUME NEW h \in Seq(Players), NEW p \in Players, NEW F, sinks(F, h, p),
           NEW j \in 1 .. Len(h)
    PROVE  /\ F[j] \in Seq(Players) /\ Len(F[j]) = Len(h) /\ DOMAIN F[j] = 1 .. Len(h)
           /\ \A k \in 1 .. Len(h) : k < j => F[j][k] = h[k]
<1> DEFINE b == [h EXCEPT ![j] = p]
<1>1. Len(h) \in Nat
  BY LenProperties
<1>2. /\ b \in Seq(Players) /\ Len(b) = Len(h) /\ \A k \in 1 .. Len(h) : k # j => b[k] = h[k]
  BY ExceptSeq
<1>3. arranged(F[j], b, 1 .. j - 1)
  BY SinkArranges
<1>4. 1 .. j - 1 \subseteq 1 .. Len(b)
  BY <1>1, <1>2
<1> HIDE DEF b
<1>5. /\ F[j] \in Seq(Players) /\ Len(F[j]) = Len(b) /\ DOMAIN F[j] = 1 .. Len(b)
      /\ \A k \in 1 .. j - 1 : F[j][k] = b[k]
  <2> DEFINE r == F[j]
             K == 1 .. j - 1
  <2>1. b \in Seq(Players) /\ arranged(r, b, K) /\ K \subseteq 1 .. Len(b)
    BY <1>2, <1>3, <1>4
  <2> HIDE DEF r, K
  <2>2. r \in Seq(Players) /\ Len(r) = Len(b) /\ DOMAIN r = 1 .. Len(b) /\ \A k \in K : r[k] = b[k]
    BY ONLY <2>1, ArrangedAre, ZenonT(30)
  <2> QED BY <2>2 DEF r, K
<1>6. ASSUME NEW k \in 1 .. Len(h), k < j PROVE F[j][k] = h[k]
  <2>1. k \in 1 .. j - 1 /\ k # j
    BY <1>1, <1>6
  <2> QED BY <1>2, <1>5, <1>6, <2>1
<1> QED BY <1>2, <1>5, <1>6

\* ... and puts what is below in order.
LEMMA SinkOrders ==
    ASSUME NEW h \in Seq(Players), NEW p \in Players, NEW F, sinks(F, h, p),
           AllNumbers(h), p.pi \in Int, heapOrdered(h, 2)
    PROVE  \A i \in 2 .. Len(h) : p.pi <= h[i].pi =>
              /\ \A k \in 1 .. Len(h) : F[i][k].pi \in Int /\ F[i][k].pi <= h[k].pi
              /\ heapOrdered(F[i], 2)
<1> DEFINE n == Len(h)
           good(i) == p.pi <= h[i].pi =>
              /\ \A k \in 1 .. n : F[i][k].pi \in Int /\ F[i][k].pi <= h[k].pi
              /\ heapOrdered(F[i], 2)
           T == {m \in Nat : \A i \in 2 .. n : n - i < m => good(i)}
<1>1. n \in Nat /\ \A k \in 1 .. n : h[k].pi \in Int
  BY LenProperties, PiNumbers
<1>2. 0 \in T
  <2> HIDE DEF good
  <2> QED BY <1>1
<1>3. ASSUME NEW m \in Nat, m \in T PROVE m + 1 \in T
  <2>1. ASSUME NEW i \in 2 .. n, n - i < m + 1, p.pi <= h[i].pi
        PROVE  /\ \A k \in 1 .. n : F[i][k].pi \in Int /\ F[i][k].pi <= h[k].pi
               /\ heapOrdered(F[i], 2)
    <3> DEFINE u == i \div 2
               r == F[i]
    <3>0. i \in 1 .. n /\ u \in 1 .. n /\ u < i /\ u \in Nat
      BY <1>1
    <3>7. PICK c : under(h, p, i, c) /\ lifts(F, h, p, i, c)
      BY ONLY h \in Seq(Players), p \in Players, sinks(F, h, p), i \in 1 .. Len(h), <3>0, SinkStep
    <3>1. /\ c \in 1 .. n /\ (c = i \/ (c > i /\ c \div 2 = i /\ gt(h[c].pi, p.pi)))
          /\ F[i] = IF c = i THEN [h EXCEPT ![i] = p] ELSE [F[c] EXCEPT ![i] = h[c]]
      BY ONLY <3>7 DEF under, lifts, n
    <3>2. \A k \in 2 .. n : k \div 2 = i => h[k].pi <= IF c = i THEN p.pi ELSE h[c].pi
      BY <3>7 DEF under
    <3>3. /\ \A j \in 1 .. n : F[j] \in Seq(Players) /\ Len(F[j]) = n /\ DOMAIN F[j] = 1 .. n
          /\ \A j \in 1 .. n, k \in 1 .. n : k < j => F[j][k] = h[k]
      BY SunkAre
    <3>4. u >= 2 => h[i].pi <= h[u].pi
      BY DEF heapOrdered
    <3>5. CASE c = i
      <4>1. \A k \in 1 .. n : r[k] = IF k = i THEN p ELSE h[k]
        <5>1. r = [h EXCEPT ![i] = p]
          BY <3>1, <3>5
        <5> HIDE DEF r
        <5> QED BY <3>0, <5>1, ExceptSeq
      <4> HIDE DEF r
      <4>2. \A k \in 1 .. n : r[k].pi \in Int /\ r[k].pi <= h[k].pi
        BY <1>1, <2>1, <4>1
      <4>3. ASSUME NEW k \in 2 .. n, k \div 2 >= 2 PROVE r[k].pi <= r[k \div 2].pi
        <5>1. k \in 1 .. n /\ k \div 2 \in 1 .. n /\ k \div 2 < k
          BY <1>1
        <5>2. h[k].pi <= h[k \div 2].pi
          BY <4>3 DEF heapOrdered
        <5>3. CASE k \div 2 = i
          <6>1. h[k].pi <= p.pi /\ r[k \div 2] = p /\ r[k] = h[k]
            BY <3>2, <3>5, <4>1, <5>1, <5>3
          <6> QED BY <6>1
        <5>4. CASE k \div 2 # i
          <6>1. r[k \div 2] = h[k \div 2]
            BY <4>1, <5>1, <5>4
          <6> QED BY <1>1, <4>2, <5>1, <5>2, <6>1
        <5> QED BY <5>3, <5>4
      <4>4. Len(r) = n
        BY <3>0, <3>3 DEF r
      <4>5. heapOrdered(r, 2)
        BY <4>3, <4>4 DEF heapOrdered
      <4> QED BY <4>2, <4>5 DEF r
    <3>6. CASE c # i
      <4>1. c > i /\ c \div 2 = i /\ c \in 2 .. n /\ p.pi <= h[c].pi /\ n - c < m /\ p.pi < h[c].pi
        BY <1>1, <2>1, <3>0, <3>1, <3>6 DEF gt
      <4>2. good(c)
        <5> HIDE DEF good
        <5> QED BY <1>3, <4>1
      <4> DEFINE q == F[c]
      <4>3. /\ \A k \in 1 .. n : q[k].pi \in Int /\ q[k].pi <= h[k].pi
            /\ heapOrdered(q, 2)
        BY <4>1, <4>2
      <4>4. \A k \in 1 .. n : r[k] = IF k = i THEN h[c] ELSE q[k]
        <5>1. r = [q EXCEPT ![i] = h[c]] /\ DOMAIN q = 1 .. n
          BY <3>1, <3>3, <3>6
        <5> HIDE DEF r, q
        <5> QED BY <3>0, <5>1
      <4>5. \A k \in 1 .. n : k < c => q[k] = h[k]
        BY <3>1, <3>3
      <4>6. Len(q) = n /\ Len(r) = n
        BY <3>0, <3>1, <3>3
      <4> HIDE DEF r, q, good
      <4>7. h[c].pi <= h[i].pi
        BY <4>1 DEF heapOrdered
      <4>8. \A k \in 1 .. n : r[k].pi \in Int /\ r[k].pi <= h[k].pi
        BY <1>1, <3>1, <4>3, <4>4, <4>7
      <4>9. ASSUME NEW k \in 2 .. n, k \div 2 >= 2 PROVE r[k].pi <= r[k \div 2].pi
        <5>1. k \in 1 .. n /\ k \div 2 \in 1 .. n /\ k \div 2 < k
          BY <1>1
        <5>2. CASE k \div 2 = i
          <6>1. h[k].pi <= h[c].pi /\ r[k \div 2] = h[c] /\ r[k].pi <= h[k].pi
            BY <3>2, <3>6, <4>4, <4>8, <5>1, <5>2
          <6>2. r[k].pi \in Int /\ h[k].pi \in Int /\ h[c].pi \in Int
            BY <1>1, <3>1, <4>8, <5>1
          <6> QED BY ONLY <6>1, <6>2
        <5>3. CASE k = i
          <6>1. r[k] = h[c] /\ r[k \div 2] = h[k \div 2] /\ h[i].pi <= h[u].pi
            BY <3>4, <4>1, <4>4, <4>5, <4>9, <5>1, <5>3
          <6> QED BY <1>1, <3>0, <3>1, <4>7, <5>3, <6>1
        <5>4. CASE k \div 2 # i /\ k # i
          <6>1. r[k] = q[k] /\ r[k \div 2] = q[k \div 2]
            BY <4>4, <5>1, <5>4
          <6>2. q[k].pi <= q[k \div 2].pi
            BY <4>3, <4>6, <4>9 DEF heapOrdered
          <6> QED BY <6>1, <6>2
        <5> QED BY <5>2, <5>3, <5>4
      <4>10. heapOrdered(r, 2)
        BY <4>6, <4>9 DEF heapOrdered
      <4> QED BY <4>8, <4>10 DEF r
    <3> QED BY <3>5, <3>6
  <2>2. \A i \in 2 .. n : n - i < m + 1 => good(i)
    BY <2>1
  <2> HIDE DEF good
  <2> QED BY <2>2
<1> HIDE DEF T
<1>4. n + 1 \in T
  BY <1>1, <1>2, <1>3, InductiveSet
<1>5. \A i \in 2 .. n : n - i < n + 1
  BY <1>1
<1> HIDE DEF good
<1>6. \A i \in 2 .. n : good(i)
  BY <1>4, <1>5 DEF T
<1> QED BY <1>6 DEF good

\* A new player at the top goes down to its place.
LEMMA HeapifyDownIs ==
    ASSUME NEW h \in Seq(Players), h # <<>>
    PROVE  /\ arranged(heapifyDown(h), h, {})
           /\ AllNumbers(h) /\ heapOrdered(h, 2) => heapOrdered(heapifyDown(h), 1)
<1> DEFINE n == Len(h)
           p == h[1]
<1>1. n \in Nat /\ 1 \in 1 .. n /\ p \in Players
  BY LenProperties, ElementOfSeq, EmptySeq
<1>2. PICK F : sinks(F, h, p) /\ heapifyDown(h) = F[1]
  BY SinkUnfolds
<1>3. [h EXCEPT ![1] = p] = h
  BY <1>1
<1> HIDE DEF p
<1>4. arranged(F[1], h, {})
  <2>1. 1 .. 1 - 1 = {}
    OBVIOUS
  <2>2. arranged(F[1], [h EXCEPT ![1] = p], 1 .. 1 - 1)
    BY <1>1, <1>2, SinkArranges
  <2> QED BY <1>3, <2>1, <2>2
<1>5. ASSUME AllNumbers(h), heapOrdered(h, 2) PROVE heapOrdered(F[1], 1)
  <2> DEFINE r == F[1]
  <2>1. \A k \in 1 .. n : h[k].pi \in Int
    BY <1>5, PiNumbers
  <2>2. p.pi \in Int
    BY <1>1, <2>1 DEF p
  <2>9. PICK c : under(h, p, 1, c) /\ lifts(F, h, p, 1, c)
    BY ONLY h \in Seq(Players), <1>1, <1>2, SinkStep DEF n
  <2>3. /\ c \in 1 .. n /\ (c = 1 \/ (c > 1 /\ gt(h[c].pi, p.pi)))
        /\ r = IF c = 1 THEN [h EXCEPT ![1] = p] ELSE [F[c] EXCEPT ![1] = h[c]]
        /\ \A k \in 2 .. n : k \div 2 = 1 => h[k].pi <= IF c = 1 THEN p.pi ELSE h[c].pi
    <3>1. /\ c \in 1 .. n /\ (c = 1 \/ (c > 1 /\ gt(h[c].pi, p.pi)))
          /\ r = IF c = 1 THEN [h EXCEPT ![1] = p] ELSE [F[c] EXCEPT ![1] = h[c]]
      BY ONLY <2>9 DEF under, lifts, n, r
    <3>2. \A k \in 2 .. n : k \div 2 = 1 => h[k].pi <= IF c = 1 THEN p.pi ELSE h[c].pi
      BY ONLY <1>5, <2>2, <2>9 DEF under, n
    <3> QED BY <3>1, <3>2
  <2>4. Len(r) = n
    BY <1>4 DEF arranged
  <2> HIDE DEF r
  <2>5. CASE c = 1
    <3>1. r = h
      BY <1>3, <2>3, <2>5
    <3>2. ASSUME NEW k \in 2 .. n, k \div 2 >= 1 PROVE h[k].pi <= h[k \div 2].pi
      <4>1. k \div 2 = 1 \/ k \div 2 >= 2
        BY <1>1
      <4> QED BY <1>5, <2>3, <2>5, <4>1 DEF heapOrdered, p
    <3> QED BY <3>1, <3>2 DEF heapOrdered, r
  <2>6. CASE c # 1
    <3> DEFINE q == F[c]
    <3>1. c \in 2 .. n /\ p.pi <= h[c].pi
      BY <1>1, <2>1, <2>2, <2>3, <2>6 DEF gt
    <3>2. /\ \A k \in 1 .. n : q[k].pi \in Int /\ q[k].pi <= h[k].pi
          /\ heapOrdered(q, 2)
      <4>1. \A i \in 2 .. n : p.pi <= h[i].pi =>
               /\ \A k \in 1 .. n : F[i][k].pi \in Int /\ F[i][k].pi <= h[k].pi
               /\ heapOrdered(F[i], 2)
        BY ONLY h \in Seq(Players), <1>1, <1>2, <1>5, <2>2, SinkOrders DEF n
      <4> QED BY <3>1, <4>1
    <3>3. Len(q) = n /\ DOMAIN q = 1 .. n
      BY <1>1, <1>2, <2>3, SunkAre
    <3>4. \A k \in 1 .. n : r[k] = IF k = 1 THEN h[c] ELSE q[k]
      <4>1. r = [q EXCEPT ![1] = h[c]]
        BY <2>3, <2>6
      <4> HIDE DEF q
      <4> QED BY <1>1, <3>3, <4>1
    <3> HIDE DEF q
    <3>5. ASSUME NEW k \in 2 .. n, k \div 2 >= 1 PROVE r[k].pi <= r[k \div 2].pi
      <4>1. k \in 1 .. n /\ k \div 2 \in 1 .. n /\ k # 1 /\ r[k] = q[k]
        BY <1>1, <3>4
      <4>2. CASE k \div 2 = 1
        <5>1. r[k \div 2] = h[c] /\ h[k].pi <= h[c].pi /\ q[k].pi <= h[k].pi
          BY <2>3, <2>6, <3>2, <3>4, <4>1, <4>2
        <5>2. q[k].pi \in Int /\ h[k].pi \in Int /\ h[c].pi \in Int
          BY <2>1, <2>3, <3>2, <4>1
        <5> QED BY ONLY <4>1, <5>1, <5>2
      <4>3. CASE k \div 2 # 1
        <5>1. r[k \div 2] = q[k \div 2] /\ k \div 2 >= 2
          BY <1>1, <3>4, <4>1, <4>3
        <5>2. q[k].pi <= q[k \div 2].pi
          BY <3>2, <3>3, <5>1 DEF heapOrdered
        <5> QED BY <4>1, <5>1, <5>2
      <4> QED BY <4>2, <4>3
    <3>6. heapOrdered(r, 1)
      BY <2>4, <3>5 DEF heapOrdered
    <3> QED BY <3>6 DEF r
  <2> QED BY <2>5, <2>6
<1> QED BY <1>2, <1>4, <1>5

\* Nobody is better than the one at the top.
LEMMA HeapTop ==
    ASSUME NEW h \in Seq(Players), AllNumbers(h), heapOrdered(h, 1)
    PROVE  \A k \in 1 .. Len(h) : h[k].pi <= h[1].pi
<1> DEFINE n == Len(h)
           T == {m \in Nat : \A k \in 1 .. n : k <= m => h[k].pi <= h[1].pi}
<1>1. n \in Nat /\ \A k \in 1 .. n : h[k].pi \in Int
  BY LenProperties, PiNumbers
<1>2. 0 \in T
  BY <1>1
<1>3. ASSUME NEW m \in Nat, m \in T PROVE m + 1 \in T
  <2>1. ASSUME NEW k \in 1 .. n, k <= m + 1 PROVE h[k].pi <= h[1].pi
    <3>1. CASE k = 1
      BY <1>1, <3>1
    <3>2. CASE k # 1
      <4>1. k \in 2 .. n /\ k \div 2 \in 1 .. n /\ k \div 2 >= 1 /\ k \div 2 <= m /\ 1 \in 1 .. n
        BY <1>1, <2>1, <3>2
      <4>2. h[k].pi <= h[k \div 2].pi /\ h[k \div 2].pi <= h[1].pi
        BY <1>3, <4>1 DEF heapOrdered
      <4> QED BY <1>1, <4>1, <4>2
    <3> QED BY <3>1, <3>2
  <2> QED BY <2>1
<1> HIDE DEF T
<1>4. n \in T
  BY <1>1, <1>2, <1>3, InductiveSet
<1> QED BY <1>1, <1>4 DEF T

\* The last player goes to the top when the best one leaves.
LEMMA TopReplaced ==
    ASSUME NEW h \in Seq(Players), Len(h) > 1, NEW g, g = <<Last(h)>> \o SubSeq(h, 2, Len(h) - 1)
    PROVE  /\ g \in Seq(Players) /\ g # <<>> /\ Len(g) = Len(h) - 1 /\ g[1] = h[Len(h)]
           /\ \A k \in 2 .. Len(h) - 1 : g[k] = h[k]
<1> DEFINE n == Len(h)
           b == SubSeq(h, 1 + 1, n - 1)
           l == h[n]
<1>1. n \in Nat /\ \A k \in 1 .. n : h[k] \in Players
  BY LenProperties, ElementOfSeq
<1>2. b \in Seq(Players) /\ Len(b) = n - 2 /\ \A i \in 1 .. n - 2 : b[i] = h[i + 1]
  <2>1. SubSeq(h, 1 + 1, n - 1) = SubSeq(h, 2, n - 1)
    OBVIOUS
  <2>2. /\ SubSeq(h, 2, n - 1) \in Seq(Players)
        /\ Len(SubSeq(h, 2, n - 1)) = n - 2
        /\ \A i \in 1 .. n - 2 : SubSeq(h, 2, n - 1)[i] = h[i + 1]
    <3>1. \A i \in 2 .. n - 1 : i \in 1 .. n
      BY <1>1
    <3>2. 2 \in Int /\ n - 1 \in Int /\ \A i \in 2 .. n - 1 : h[i] \in Players
      BY <1>1, <3>1
    <3>3. SubSeq(h, 2, n - 1) = [i \in 1 .. n - 2 |-> h[i + 1]]
      BY <1>1
    <3>4. \A i \in 1 .. n - 2 : i + 1 \in 2 .. n - 1
      BY <1>1
    <3> DEFINE m == n - 2
               f == SubSeq(h, 2, n - 1)
    <3>5. m \in Nat
      BY <1>1
    <3>6. f = [i \in 1 .. m |-> h[i + 1]] /\ \A i \in 1 .. m : h[i + 1] \in Players
      BY <3>2, <3>3, <3>4
    <3> HIDE DEF m, f
    <3>7. f \in Seq(Players) /\ Len(f) = m /\ \A i \in 1 .. m : f[i] = h[i + 1]
      BY ONLY <3>5, <3>6
    <3> QED BY <3>7 DEF m, f
  <2> QED BY <2>1, <2>2
<1>3. g = <<l>> \o b /\ l \in Players
  BY <1>1 DEF Last
<1> HIDE DEF b, l
<1>4. /\ g \in Seq(Players) /\ Len(g) = Len(b) + 1 /\ g[1] = l
      /\ \A i \in 1 .. Len(b) : g[i + 1] = b[i]
  BY <1>2, <1>3, InFrontOf
<1>5. ASSUME NEW k \in 2 .. n - 1 PROVE g[k] = h[k]
  <2>1. k - 1 \in 1 .. n - 2 /\ (k - 1) + 1 = k
    BY <1>1
  <2> QED BY <1>2, <1>4, <2>1
<1>6. g # <<>>
  BY <1>1, <1>2, <1>4
<1> QED BY <1>1, <1>2, <1>4, <1>5, <1>6 DEF l

LEMMA ExtractIs ==
    ASSUME NEW h \in Seq(Players), h # <<>>
    PROVE  /\ heapExtractMax(h) \in Seq(Players) /\ Len(heapExtractMax(h)) = Len(h) - 1
           /\ ToSet(heapExtractMax(h)) = {h[k] : k \in 2 .. Len(h)}
           /\ oneEach(h) => oneEach(heapExtractMax(h))
           /\ AllNumbers(h) /\ heapOrdered(h, 1) => heapOrdered(heapExtractMax(h), 1)
<1> DEFINE n == Len(h)
           r == heapExtractMax(h)
<1>1. n \in Nat /\ n >= 1 /\ DOMAIN h = 1 .. n
  BY LenProperties, EmptySeq
<1>2. CASE n = 1
  <2>1. r = <<>> /\ r \in Seq(Players) /\ Len(r) = 0
    BY <1>2 DEF heapExtractMax
  <2>2. 2 .. n = {} /\ 2 .. Len(r) = {} /\ ToSet(r) = {} /\ DOMAIN r = {}
    BY <1>2, <2>1 DEF ToSet
  <2> HIDE DEF r
  <2> QED BY <1>2, <2>1, <2>2 DEF oneEach, heapOrdered, r
<1>3. CASE n # 1
  <2> DEFINE g == <<Last(h)>> \o SubSeq(h, 2, n - 1)
  <2>1. r = heapifyDown(g)
    BY <1>3 DEF heapExtractMax
  <2>2. /\ g \in Seq(Players) /\ g # <<>> /\ Len(g) = n - 1 /\ g[1] = h[n]
        /\ \A k \in 2 .. n - 1 : g[k] = h[k]
    <3>1. Len(h) > 1
      BY <1>1, <1>3
    <3> HIDE DEF n
    <3>2. g = <<Last(h)>> \o SubSeq(h, 2, Len(h) - 1)
      BY DEF n
    <3> HIDE DEF g
    <3> QED BY ONLY h \in Seq(Players), <3>1, <3>2, TopReplaced DEF n
  <2> HIDE DEF g, r, n
  <2>3. arranged(r, g, {}) /\ (AllNumbers(g) /\ heapOrdered(g, 2) => heapOrdered(r, 1))
    BY <2>1, <2>2, HeapifyDownIs
  <2>4. /\ r \in Seq(Players) /\ Len(r) = Len(g) /\ ToSet(r) = ToSet(g)
        /\ oneEach(g) => oneEach(r)
    BY <2>2, <2>3, ArrangedAre
  <2>5. DOMAIN g = 1 .. n - 1
    BY <2>2, LenProperties
  <2>6. \A k \in 1 .. n - 1 : g[k] = h[IF k = 1 THEN n ELSE k]
    BY <1>1, <2>2
  <2>7. ToSet(g) = {h[k] : k \in 2 .. n}
    <3>1. ToSet(g) = {g[k] : k \in 1 .. n - 1}
      BY <2>5 DEF ToSet
    <3>2. ASSUME NEW k \in 1 .. n - 1 PROVE g[k] \in {h[j] : j \in 2 .. n}
      <4>1. (IF k = 1 THEN n ELSE k) \in 2 .. n
        BY <1>1, <1>3
      <4> QED BY <2>6, <4>1
    <3>3. ASSUME NEW j \in 2 .. n PROVE h[j] \in ToSet(g)
      <4>1. CASE j = n
        BY <1>1, <1>3, <2>2, <3>1, <4>1
      <4>2. CASE j # n
        <5>1. j \in 2 .. n - 1 /\ j \in 1 .. n - 1
          BY <1>1, <4>2
        <5> QED BY <2>2, <3>1, <5>1
      <4> QED BY <4>1, <4>2
    <3> QED BY <3>1, <3>2, <3>3
  <2>8. ASSUME oneEach(h) PROVE oneEach(g)
    <3> SUFFICES ASSUME NEW i \in 1 .. n - 1, NEW j \in 1 .. n - 1, g[i].team = g[j].team PROVE i = j
      BY <2>5 DEF oneEach
    <3> DEFINE u == IF i = 1 THEN n ELSE i
               v == IF j = 1 THEN n ELSE j
    <3>1. u \in 1 .. n /\ v \in 1 .. n /\ g[i] = h[u] /\ g[j] = h[v] /\ (u = v => i = j)
      BY <1>1, <2>6
    <3> HIDE DEF u, v
    <3> QED BY <1>1, <2>8, <3>1 DEF oneEach
  <2>9. ASSUME AllNumbers(h), heapOrdered(h, 1) PROVE AllNumbers(g) /\ heapOrdered(g, 2)
    <3>1. \A k \in 1 .. n - 1 : (IF k = 1 THEN n ELSE k) \in 1 .. n
      BY <1>1
    <3>2. AllNumbers(g)
      BY <1>1, <2>5, <2>6, <2>9, <3>1 DEF AllNumbers
    <3>3. ASSUME NEW k \in 2 .. n - 1, k \div 2 >= 2 PROVE g[k].pi <= g[k \div 2].pi
      <4>1. k \div 2 \in 2 .. n - 1 /\ k \in 2 .. n /\ k \div 2 >= 1
        BY <1>1, <3>3
      <4>2. h[k].pi <= h[k \div 2].pi
        BY <2>9, <4>1 DEF heapOrdered, n
      <4> QED BY <2>2, <4>1, <4>2
    <3> QED BY <2>2, <3>2, <3>3 DEF heapOrdered
  <2> QED BY <2>2, <2>3, <2>4, <2>7, <2>8, <2>9 DEF r, n
<1> QED BY <1>2, <1>3

\* What the recursion of heapInsert says.
stays(h, p, i) == i = 1 \/ ~gt(p.pi, h[i \div 2].pi)
climbs(F, h, p, i) ==
    F[i] = IF stays(h, p, i) THEN [Append(h, p) EXCEPT ![i] = p]
           ELSE [F[i \div 2] EXCEPT ![i] = h[i \div 2]]
rises(F, h, p) == \A i \in 1 .. Len(h) + 1 : climbs(F, h, p, i)

LEMMA RiseUnfolds ==
    ASSUME NEW h \in Seq(Players), NEW p \in Players
    PROVE  \E F : rises(F, h, p) /\ heapInsert(h, p) = F[Len(h) + 1]
<1> DEFINE n == Len(h) + 1
           w == Append(h, p)
           S == {v \in Seq(Players) : Len(v) = n}
           c == [i \in 1 .. n |-> IF stays(h, p, i) THEN i ELSE i \div 2]
           rank == [i \in 1 .. n |-> i]
           base == [i \in 1 .. n |-> [w EXCEPT ![i] = p]]
           G == [a \in (1 .. n) \X S |-> [a[2] EXCEPT ![a[1]] = w[c[a[1]]]]]
           body(F) == [i \in 1 .. n |->
                         LET up == i \div 2
                         IN  IF i = 1 \/ ~gt(p.pi, h[up].pi) THEN [w EXCEPT ![i] = p]
                             ELSE [F[up] EXCEPT ![i] = h[up]]]
<1>1. /\ Len(h) \in Nat /\ n \in Nat /\ n = Len(h) + 1
      /\ w \in Seq(Players) /\ Len(w) = n /\ DOMAIN w = 1 .. n /\ w = Append(h, p)
      /\ \A i \in 1 .. Len(h) : w[i] = h[i]
  BY LenProperties, AppendProperties
<1> HIDE DEF n, w
<1>2. \A i \in 1 .. n : w[i] \in Players
  BY <1>1, ElementOfSeq
<1>3. ASSUME NEW i \in 1 .. n, ~stays(h, p, i)
      PROVE  i \div 2 \in 1 .. Len(h) /\ i \div 2 \in 1 .. n /\ i \div 2 < i /\ i \div 2 # i
  <2>1. i # 1
    BY <1>3 DEF stays
  <2> QED BY <1>1, <2>1
<1>4. /\ c \in [1 .. n -> 1 .. n]
      /\ \A i \in 1 .. n : c[i] = IF stays(h, p, i) THEN i ELSE i \div 2
  BY <1>3
<1>5. /\ rank \in [1 .. n -> Nat] /\ \A i \in 1 .. n : rank[i] <= n
      /\ \A i \in 1 .. n : c[i] = i \/ rank[c[i]] < rank[i]
  <2> HIDE DEF c
  <2> QED BY <1>1, <1>3, <1>4
<1>6. base \in [1 .. n -> S]
  BY <1>1, ExceptSeq
<1>7. /\ G \in [(1 .. n) \X S -> S]
      /\ \A i \in 1 .. n, v \in S : G[<<i, v>>] = [v EXCEPT ![i] = w[c[i]]]
  <2> HIDE DEF c
  <2>1. ASSUME NEW i \in 1 .. n, NEW v \in S PROVE [v EXCEPT ![i] = w[c[i]]] \in S
    BY <1>2, <1>4, ExceptSeq
  <2> HIDE DEF S
  <2> QED BY <2>1
<1> HIDE DEF c, rank, base, G, S
<1>8. descends(S, n, c, rank, base, G)
  BY ONLY <1>1, <1>4, <1>5, <1>6, <1>7 DEF descends
<1>9. PICK F \in [1 .. n -> S] :
        \A i \in 1 .. n : F[i] = IF c[i] = i THEN base[i] ELSE G[<<i, F[c[i]]>>]
  BY ONLY <1>8, Descent
<1>10. ASSUME NEW i \in 1 .. n
       PROVE  F[i] = IF stays(h, p, i) THEN [w EXCEPT ![i] = p]
                     ELSE [F[i \div 2] EXCEPT ![i] = h[i \div 2]]
  <2>1. CASE stays(h, p, i)
    <3>1. c[i] = i /\ base[i] = [w EXCEPT ![i] = p]
      BY <1>4, <2>1 DEF base
    <3> QED BY <1>9, <2>1, <3>1
  <2>2. CASE ~stays(h, p, i)
    <3> DEFINE u == i \div 2
    <3>1. c[i] = u /\ c[i] # i /\ u \in 1 .. n /\ w[u] = h[u]
      BY <1>1, <1>3, <1>4, <2>2
    <3> HIDE DEF u
    <3>2. F[u] \in S /\ F[i] = G[<<i, F[u]>>]
      BY <1>9, <3>1
    <3>3. F[i] = [F[u] EXCEPT ![i] = h[u]]
      BY <1>7, <3>1, <3>2
    <3> QED BY <2>2, <3>3 DEF u
  <2> QED BY <2>1, <2>2
<1>11. F = body(F)
  <2>1. \A i \in 1 .. n : F[i] = body(F)[i]
    BY <1>10 DEF stays
  <2>2. DOMAIN F = 1 .. n /\ DOMAIN body(F) = 1 .. n
    OBVIOUS
  <2> QED BY <2>1, <2>2
<1> DEFINE x == CHOOSE f : f = body(f)
<1>12. x = body(x)
  <2> HIDE DEF body
  <2> QED BY <1>11
<1>13. heapInsert(h, p) = x[Len(h) + 1]
  BY DEF heapInsert, n, w
<1> HIDE DEF x
<1>14. rises(x, h, p)
  <2>1. ASSUME NEW i \in 1 .. n PROVE climbs(x, h, p, i)
    BY <1>12 DEF climbs, stays, w
  <2> QED BY <2>1 DEF rises, n
<1> QED BY <1>13, <1>14

LEMMA RiseArranges ==
    ASSUME NEW h \in Seq(Players), NEW p \in Players, NEW F, rises(F, h, p)
    PROVE  \A i \in 1 .. Len(h) + 1 :
             arranged(F[i], [Append(h, p) EXCEPT ![i] = p], i + 1 .. Len(h) + 1)
<1> DEFINE n == Len(h) + 1
           w == Append(h, p)
           good(i) == arranged(F[i], [w EXCEPT ![i] = p], i + 1 .. n)
           T == {m \in Nat : \A i \in 1 .. n : i <= m => good(i)}
<1>1. /\ Len(h) \in Nat /\ n \in Nat /\ n = Len(h) + 1
      /\ w \in Seq(Players) /\ Len(w) = n /\ DOMAIN w = 1 .. n /\ w = Append(h, p)
      /\ \A i \in 1 .. Len(h) : w[i] = h[i]
  BY LenProperties, AppendProperties
<1>2. 0 \in T
  <2> HIDE DEF good
  <2> QED BY <1>1
<1>3. ASSUME NEW m \in Nat, m \in T PROVE m + 1 \in T
  <2>1. ASSUME NEW i \in 1 .. n, i <= m + 1 PROVE good(i)
    <3>0. climbs(F, h, p, i)
      BY DEF rises
    <3>1. CASE stays(h, p, i)
      <4> DEFINE b == [w EXCEPT ![i] = p]
      <4>1. b \in Seq(Players) /\ Len(b) = n /\ i + 1 .. n \subseteq 1 .. n
        BY <1>1, ExceptSeq
      <4>2. F[i] = b
        BY <3>0, <3>1 DEF climbs
      <4> HIDE DEF b, n, w
      <4>3. arranged(b, b, i + 1 .. n)
        BY <4>1, ArrangedSelf
      <4> QED BY <4>2, <4>3 DEF b
    <3>2. CASE ~stays(h, p, i)
      <4> DEFINE c == i \div 2
                 K == c + 1 .. n
                 J == i + 1 .. n
      <4>1. F[i] = [F[c] EXCEPT ![i] = h[c]] /\ i # 1
        BY <3>0, <3>2 DEF climbs, stays
      <4>2. c \in 1 .. Len(h) /\ c \in 1 .. n /\ c < i /\ c <= m
        BY <1>1, <2>1, <4>1
      <4>3. arranged(F[c], [w EXCEPT ![c] = p], K) /\ h[c] = w[c]
        BY <1>1, <1>3, <4>2
      <4>4. K \subseteq 1 .. n /\ i \in K /\ J \subseteq K /\ i \notin J /\ c \notin J /\ i # c
        BY <1>1, <4>2
      <4> HIDE DEF c, K, J, n, w
      <4>5. arranged([F[c] EXCEPT ![i] = w[c]], [w EXCEPT ![i] = p], J)
        BY <1>1, <4>2, <4>3, <4>4, HoleMoves
      <4> QED BY <4>1, <4>3, <4>5 DEF J
    <3> QED BY <3>1, <3>2
  <2> HIDE DEF good
  <2> QED BY <2>1
<1> HIDE DEF T
<1>4. n \in T
  BY <1>1, <1>2, <1>3, InductiveSet
<1> HIDE DEF good
<1>5. \A i \in 1 .. n : good(i)
  BY <1>1, <1>4 DEF T
<1> QED BY <1>5 DEF good, n, w

LEMMA RisenAre ==
    ASSUME NEW h \in Seq(Players), NEW p \in Players, NEW F, rises(F, h, p),
           NEW j \in 1 .. Len(h) + 1
    PROVE  /\ F[j] \in Seq(Players) /\ Len(F[j]) = Len(h) + 1 /\ DOMAIN F[j] = 1 .. Len(h) + 1
           /\ \A k \in 1 .. Len(h) : k > j => F[j][k] = h[k]
<1> DEFINE n == Len(h) + 1
           w == Append(h, p)
           b == [w EXCEPT ![j] = p]
           r == F[j]
           K == j + 1 .. n
<1>1. /\ Len(h) \in Nat /\ w \in Seq(Players) /\ Len(w) = n /\ DOMAIN w = 1 .. n
      /\ \A i \in 1 .. Len(h) : w[i] = h[i]
  BY LenProperties, AppendProperties
<1>2. arranged(r, b, K)
  BY RiseArranges
<1> HIDE DEF w
<1>3. b \in Seq(Players) /\ Len(b) = n /\ (\A k \in 1 .. n : k # j => b[k] = w[k]) /\ K \subseteq 1 .. n
  BY <1>1, ExceptSeq
<1>4. \A k \in 1 .. Len(h) : k > j => k \in K /\ k # j /\ k \in 1 .. n
  BY <1>1
<1> HIDE DEF b, r, K, n
<1>5. r \in Seq(Players) /\ Len(r) = Len(b) /\ DOMAIN r = 1 .. Len(b) /\ \A k \in K : r[k] = b[k]
  <2>1. b \in Seq(Players) /\ arranged(r, b, K) /\ K \subseteq 1 .. Len(b)
    BY ONLY <1>2, <1>3
  <2> QED BY ONLY <2>1, ArrangedAre, ZenonT(30)
<1> QED BY <1>1, <1>3, <1>4, <1>5 DEF r, n

\* Up to the place n of the new player, the heap is in order and no place worse.
raised(r, h) ==
    /\ \A k \in 1 .. Len(h) : r[k].pi \in Int /\ r[k].pi >= h[k].pi
    /\ \A k \in 2 .. Len(h) : r[k].pi <= r[k \div 2].pi

LEMMA RiseOrders ==
    ASSUME NEW h \in Seq(Players), NEW p \in Players, NEW F, rises(F, h, p),
           AllNumbers(h), p.pi \in Int, heapOrdered(h, 1)
    PROVE  \A i \in 1 .. Len(h) : gt(p.pi, h[i].pi) => raised(F[i], h)
<1> DEFINE n == Len(h)
           w == Append(h, p)
           good(i) == gt(p.pi, h[i].pi) => raised(F[i], h)
           T == {m \in Nat : \A i \in 1 .. n : i <= m => good(i)}
<1>1. /\ n \in Nat /\ w \in Seq(Players) /\ Len(w) = n + 1 /\ DOMAIN w = 1 .. n + 1
      /\ \A i \in 1 .. n : w[i] = h[i] /\ h[i].pi \in Int /\ h[i].pi # NaN
      /\ p.pi # NaN
  BY LenProperties, AppendProperties, PiNumbers, PlayerAssumption DEF PlayerAssumption
<1>2. \A k \in 2 .. n : h[k].pi <= h[k \div 2].pi /\ k \div 2 \in 1 .. n /\ k \div 2 < k /\ k \in 1 .. n
  <2>1. \A k \in 2 .. n : k \div 2 >= 1 /\ k \div 2 \in 1 .. n /\ k \div 2 < k /\ k \in 1 .. n
    BY <1>1
  <2> QED BY <2>1 DEF heapOrdered
<1> HIDE DEF n, w
<1>3. 0 \in T
  <2> HIDE DEF good
  <2> QED BY <1>1
<1>4. ASSUME NEW m \in Nat, m \in T PROVE m + 1 \in T
  <2>1. ASSUME NEW i \in 1 .. n, i <= m + 1, gt(p.pi, h[i].pi) PROVE raised(F[i], h)
    <3> DEFINE r == F[i]
    <3>0. climbs(F, h, p, i) /\ p.pi > h[i].pi /\ i \in 1 .. n + 1
      BY <1>1, <2>1 DEF rises, gt, n
    <3>1. CASE stays(h, p, i)
      <4>1. \A k \in 1 .. n : r[k] = IF k = i THEN p ELSE h[k]
        <5>1. r = [w EXCEPT ![i] = p]
          BY <3>0, <3>1 DEF climbs, w
        <5> HIDE DEF r
        <5> QED BY <1>1, <5>1
      <4>2. i # 1 => p.pi <= h[i \div 2].pi
        <5> SUFFICES ASSUME i # 1 PROVE p.pi <= h[i \div 2].pi
          OBVIOUS
        <5>1. i \in 2 .. n
          BY <1>1
        <5>2. i \div 2 \in 1 .. n /\ ~gt(p.pi, h[i \div 2].pi)
          BY <1>2, <3>1, <5>1 DEF stays
        <5> QED BY <1>1, <5>2 DEF gt
      <4> HIDE DEF r
      <4>3. \A k \in 1 .. n : r[k].pi \in Int /\ r[k].pi >= h[k].pi
        BY <1>1, <3>0, <4>1
      <4>4. ASSUME NEW k \in 2 .. n PROVE r[k].pi <= r[k \div 2].pi
        <5> DEFINE u == k \div 2
        <5>1. h[k].pi <= h[u].pi /\ u \in 1 .. n /\ u < k /\ k \in 1 .. n
          BY <1>2
        <5> HIDE DEF u
        <5>2. CASE k = i
          <6>1. i # 1 /\ u = i \div 2 /\ r[k] = p /\ r[u] = h[u]
            BY <1>1, <4>1, <5>1, <5>2 DEF u
          <6> QED BY <4>2, <6>1 DEF u
        <5>3. CASE k # i /\ u = i
          <6>1. r[k] = h[k] /\ r[u] = p
            BY <4>1, <5>1, <5>3
          <6>2. r[k].pi <= r[u].pi
            BY <1>1, <3>0, <5>1, <5>3, <6>1
          <6> QED BY <6>2 DEF u
        <5>4. CASE k # i /\ u # i
          <6>1. r[k] = h[k] /\ r[u] = h[u]
            BY <4>1, <5>1, <5>4
          <6> QED BY <5>1, <6>1 DEF u
        <5> QED BY <5>2, <5>3, <5>4
      <4> QED BY <4>3, <4>4 DEF raised, r, n
    <3>2. CASE ~stays(h, p, i)
      <4> DEFINE c == i \div 2
                 q == F[c]
      <4>1. r = [q EXCEPT ![i] = h[c]] /\ i # 1 /\ gt(p.pi, h[c].pi)
        BY <3>0, <3>2 DEF climbs, stays
      <4>2. c \in 1 .. n /\ c < i /\ c <= m /\ h[i].pi <= h[c].pi /\ i \in 2 .. n
        <5>1. i \in 2 .. n
          BY <1>1, <4>1
        <5> QED BY <1>1, <1>2, <2>1, <5>1
      <4>3. raised(q, h)
        BY <1>4, <4>1, <4>2
      <4>4. DOMAIN q = 1 .. n + 1 /\ \A k \in 1 .. n : k > c => q[k] = h[k]
        <5>1. c \in 1 .. Len(h) + 1
          BY <1>1, <4>2 DEF n
        <5> HIDE DEF c
        <5> QED BY <5>1, RisenAre DEF n
      <4>5. \A k \in 1 .. n : r[k] = IF k = i THEN h[c] ELSE q[k]
        <5> HIDE DEF q, r, c
        <5> QED BY <1>1, <4>1, <4>4
      <4>6. /\ \A k \in 1 .. n : q[k].pi \in Int /\ q[k].pi >= h[k].pi
            /\ \A k \in 2 .. n : q[k].pi <= q[k \div 2].pi
        <5> HIDE DEF q
        <5> QED BY <4>3 DEF raised, n
      <4> HIDE DEF q, r, good
      <4>7. \A k \in 1 .. n : r[k].pi \in Int /\ r[k].pi >= h[k].pi
        <5> HIDE DEF c
        <5> QED BY <1>1, <4>2, <4>5, <4>6
      <4>8. ASSUME NEW k \in 2 .. n PROVE r[k].pi <= r[k \div 2].pi
        <5> DEFINE u == k \div 2
        <5>1. h[k].pi <= h[u].pi /\ u \in 1 .. n /\ u < k /\ k \in 1 .. n
          BY <1>2
        <5>2. q[k].pi <= q[u].pi
          BY <4>6
        <5>3. k = i => u = c
          OBVIOUS
        <5> HIDE DEF u, c
        <5>4. CASE k = i
          <6>1. r[k] = h[c] /\ r[u] = q[c] /\ u = c
            BY <1>1, <4>2, <4>5, <5>1, <5>3, <5>4
          <6>2. q[c].pi >= h[c].pi /\ q[c].pi \in Int /\ h[c].pi \in Int
            BY <1>1, <4>2, <4>6
          <6> QED BY <6>1, <6>2 DEF u
        <5>5. CASE k # i /\ u = i
          <6>1. r[k] = q[k] /\ r[u] = h[c]
            BY <4>5, <5>1, <5>5
          <6>2. q[k] = h[k]
            BY <1>1, <4>2, <4>4, <5>1, <5>5
          <6>3. h[k].pi <= h[i].pi /\ h[i].pi <= h[c].pi
            BY <4>2, <5>1, <5>5
          <6>4. h[k].pi \in Int /\ h[i].pi \in Int /\ h[c].pi \in Int
            BY <1>1, <4>2, <5>1
          <6> QED BY ONLY <6>1, <6>2, <6>3, <6>4 DEF u
        <5>6. CASE k # i /\ u # i
          <6>1. r[k] = q[k] /\ r[u] = q[u]
            BY <4>5, <5>1, <5>6
          <6> QED BY <5>2, <6>1 DEF u
        <5> QED BY <5>4, <5>5, <5>6
      <4> QED BY <4>7, <4>8 DEF raised, r, n
    <3> QED BY <3>1, <3>2
  <2> QED BY <2>1
<1> HIDE DEF T
<1>5. n \in T
  BY <1>1, <1>3, <1>4, InductiveSet
<1> HIDE DEF good
<1>6. \A i \in 1 .. n : good(i)
  BY <1>1, <1>5 DEF T
<1> QED BY <1>6 DEF good, n

\* A new player at the end goes up to its place.
LEMMA InsertIs ==
    ASSUME NEW h \in Seq(Players), NEW p \in Players
    PROVE  /\ heapInsert(h, p) \in Seq(Players) /\ Len(heapInsert(h, p)) = Len(h) + 1
           /\ ToSet(heapInsert(h, p)) = ToSet(h) \cup {p}
           /\ oneEach(h) /\ (\A k \in 1 .. Len(h) : h[k].team # p.team)
                => oneEach(heapInsert(h, p))
           /\ AllNumbers(h) /\ p.pi # NaN /\ heapOrdered(h, 1)
                => heapOrdered(heapInsert(h, p), 1)
<1> DEFINE n == Len(h) + 1
           w == Append(h, p)
           r == heapInsert(h, p)
<1>1. /\ Len(h) \in Nat /\ w \in Seq(Players) /\ Len(w) = n /\ DOMAIN w = 1 .. n /\ w[n] = p
      /\ \A i \in 1 .. Len(h) : w[i] = h[i] /\ h[i] \in Players
      /\ n \in 1 .. n
  BY LenProperties, AppendProperties, ElementOfSeq
<1>2. PICK F : rises(F, h, p) /\ r = F[n]
  BY RiseUnfolds
<1>3. arranged(r, w, {})
  <2>1. n + 1 .. n = {}
    BY <1>1
  <2>2. [w EXCEPT ![n] = p] = w
    <3> HIDE DEF w, n
    <3>1. w = [k \in 1 .. n |-> w[k]]
      BY <1>1, LenProperties
    <3> QED BY <1>1, <3>1
  <2>3. arranged(F[n], [w EXCEPT ![n] = p], n + 1 .. n)
    BY <1>1, <1>2, RiseArranges
  <2> QED BY <1>2, <2>1, <2>2, <2>3
<1> HIDE DEF w, r
<1>4. r \in Seq(Players) /\ Len(r) = n /\ ToSet(r) = ToSet(w) /\ (oneEach(w) => oneEach(r))
  <2>1. {} \subseteq 1 .. Len(w)
    OBVIOUS
  <2> QED BY <1>1, <1>3, <2>1, ArrangedAre
<1>5. ToSet(w) = ToSet(h) \cup {p}
  <2>1. ToSet(w) = {w[k] : k \in 1 .. n} /\ ToSet(h) = {h[k] : k \in 1 .. Len(h)}
    BY <1>1, LenProperties DEF ToSet
  <2>2. 1 .. n = (1 .. Len(h)) \cup {n}
    BY <1>1
  <2> HIDE DEF n
  <2> QED BY <1>1, <2>1, <2>2
<1>6. ASSUME oneEach(h), \A k \in 1 .. Len(h) : h[k].team # p.team PROVE oneEach(w)
  <2> SUFFICES ASSUME NEW i \in 1 .. n, NEW j \in 1 .. n, w[i].team = w[j].team PROVE i = j
    BY <1>1 DEF oneEach
  <2>1. (i \in 1 .. Len(h) \/ i = n) /\ (j \in 1 .. Len(h) \/ j = n)
    BY <1>1
  <2>2. DOMAIN h = 1 .. Len(h)
    BY LenProperties
  <2>3. CASE i \in 1 .. Len(h) /\ j \in 1 .. Len(h)
    BY <1>1, <1>6, <2>2, <2>3 DEF oneEach
  <2>4. CASE i = n \/ j = n
    <3> HIDE DEF n
    <3> QED BY <1>1, <1>6, <2>1, <2>4
  <2> QED BY <2>1, <2>3, <2>4
<1>7. ASSUME AllNumbers(h), p.pi # NaN, heapOrdered(h, 1) PROVE heapOrdered(r, 1)
  <2>1. p.pi \in Int /\ \A k \in 1 .. Len(h) : h[k].pi \in Int /\ h[k].pi # NaN
    <3>1. p.pi \in NumbersOrNaN
      BY DEF Players
    <3> QED BY <1>7, <3>1, PiNumbers, PlayerAssumption DEF NumbersOrNaN, PlayerAssumption
  <2>2. climbs(F, h, p, n) /\ \A k \in 2 .. n : k \div 2 \in 1 .. Len(h)
    BY <1>1, <1>2 DEF rises
  <2>3. CASE stays(h, p, n)
    <3>1. r = w
      <4>1. r = [w EXCEPT ![n] = p]
        BY <1>2, <2>2, <2>3 DEF climbs, w
      <4> QED BY <1>1, <4>1
    <3>2. ASSUME NEW k \in 2 .. n PROVE w[k].pi <= w[k \div 2].pi
      <4>1. k \div 2 \in 1 .. Len(h) /\ w[k \div 2] = h[k \div 2]
        BY <1>1, <2>2
      <4>2. CASE k = n
        <5>1. w[k] = p /\ ~gt(p.pi, h[k \div 2].pi)
          BY <1>1, <2>3, <4>2 DEF stays
        <5> QED BY <1>7, <2>1, <4>1, <5>1 DEF gt
      <4>3. CASE k # n
        <5>1. k \in 2 .. Len(h) /\ k \in 1 .. Len(h) /\ k \div 2 >= 1
          BY <1>1, <4>3
        <5>2. h[k].pi <= h[k \div 2].pi
          BY <1>7, <5>1 DEF heapOrdered
        <5> QED BY <1>1, <4>1, <5>1, <5>2
      <4> QED BY <4>2, <4>3
    <3> QED BY <1>4, <3>1, <3>2 DEF heapOrdered
  <2>4. CASE ~stays(h, p, n)
    <3> DEFINE c == n \div 2
               q == F[c]
    <3>1. r = [q EXCEPT ![n] = h[c]] /\ n # 1 /\ gt(p.pi, h[c].pi)
      BY <1>2, <2>2, <2>4 DEF climbs, stays
    <3>2. c \in 1 .. Len(h)
      BY <1>1, <3>1
    <3>3. raised(q, h)
      BY <1>2, <1>7, <2>1, <3>1, <3>2, RiseOrders
    <3>4. DOMAIN q = 1 .. n
      <4>1. c \in 1 .. Len(h) + 1
        BY <1>1, <3>2
      <4> HIDE DEF c
      <4> QED BY <1>2, <4>1, RisenAre
    <3>5. \A k \in 1 .. n : r[k] = IF k = n THEN h[c] ELSE q[k]
      <4> HIDE DEF q, c
      <4> QED BY <3>1, <3>4
    <3> HIDE DEF q
    <3>6. ASSUME NEW k \in 2 .. n PROVE r[k].pi <= r[k \div 2].pi
      <4> DEFINE u == k \div 2
      <4>1. u \in 1 .. Len(h) /\ r[u] = q[u]
        BY <1>1, <2>2, <3>5
      <4>2. CASE k = n
        <5>1. r[k] = h[c] /\ u = c
          BY <1>1, <3>5, <4>2
        <5> HIDE DEF u, c
        <5>2. q[c].pi >= h[c].pi /\ q[c].pi \in Int /\ h[c].pi \in Int
          BY <2>1, <3>2, <3>3 DEF raised
        <5> QED BY <4>1, <5>1, <5>2 DEF u
      <4>3. CASE k # n
        <5>1. k \in 2 .. Len(h) /\ r[k] = q[k]
          BY <1>1, <3>5, <4>3
        <5>2. q[k].pi <= q[k \div 2].pi
          BY <3>3, <5>1 DEF raised
        <5> QED BY <4>1, <5>1, <5>2
      <4> QED BY <4>2, <4>3
    <3> QED BY <1>4, <3>6 DEF heapOrdered
  <2> QED BY <2>3, <2>4
<1> QED BY <1>4, <1>5, <1>6, <1>7 DEF r

-----------------------------------------------------------------------------
(* The merge.                                                                *)

heads(role, n) == {lists[t][role][1] : t \in {u \in 1 .. n : lists[u][role] # <<>>}}
fills(k, role) ==
    /\ k[0] = <<>>
    /\ \A t \in 1 .. NUM_OF_TEAMS :
         k[t] = IF lists[t][role] = <<>> THEN k[t - 1] ELSE heapInsert(k[t - 1], lists[t][role][1])

\* Everybody on a list is of its team and role, and has been added.
LEMMA ListsAre ==
    ASSUME PlayerTypes, ListsRanked, NEW t \in Teams, NEW role \in Roles
    PROVE  /\ lists[t][role] \in Seq(Players) /\ IsInjective(lists[t][role])
           /\ DOMAIN lists[t][role] = 1 .. Len(lists[t][role]) /\ Len(lists[t][role]) \in Nat
           /\ \A i \in 1 .. Len(lists[t][role]) :
                /\ lists[t][role][i] \in Players /\ lists[t][role][i].team = t
                /\ lists[t][role][i].role = role /\ lists[t][role][i] \in ToSet(added)
<1> DEFINE s == lists[t][role]
<1>1. s \in Seq(Players) /\ ranked(s, added, t, role)
  BY DEF PlayerTypes, ListsRanked
<1> HIDE DEF s
<1>2. DOMAIN s = 1 .. Len(s) /\ Len(s) \in Nat /\ \A i \in 1 .. Len(s) : s[i] \in Players
  BY <1>1, LenProperties, ElementOfSeq
<1>3. \A i \in 1 .. Len(s) : s[i] \in ToSet(s)
  BY <1>2 DEF ToSet
<1>4. ToSet(s) = {p \in ToSet(added) : p.team = t /\ p.role = role} /\ IsInjective(s)
  BY <1>1 DEF ranked
<1> QED BY <1>1, <1>2, <1>3, <1>4 DEF s

LEMMA FillUnfolds ==
    ASSUME PlayerTypes, ListsRanked, NEW role \in Roles
    PROVE  \E k \in [0 .. NUM_OF_TEAMS -> Seq(Players)] :
             fills(k, role) /\ heapOfHeads(role) = k[NUM_OF_TEAMS]
<1> DEFINE n == NUM_OF_TEAMS
           S == Seq(Players)
           next(v, t) == IF t \notin 1 .. n \/ lists[t][role] = <<>> THEN v
                         ELSE heapInsert(v, lists[t][role][1])
           G == [p \in Nat \X S |-> next(p[2], p[1] + 1)]
           body(g) == [t \in 0 .. n |->
                         IF t = 0 THEN <<>>
                         ELSE IF lists[t][role] = <<>> THEN g[t - 1]
                         ELSE heapInsert(g[t - 1], lists[t][role][1])]
<1>1. n \in Nat /\ Teams = 1 .. n /\ <<>> \in S
  BY PlayerAssumption DEF PlayerAssumption, Teams
<1>2. \A t \in 1 .. n : lists[t][role] # <<>> => lists[t][role][1] \in Players
  <2> SUFFICES ASSUME NEW t \in 1 .. n, lists[t][role] # <<>> PROVE lists[t][role][1] \in Players
    OBVIOUS
  <2>1. t \in Teams
    BY <1>1
  <2> DEFINE s == lists[t][role]
  <2>2. s \in Seq(Players)
    BY <2>1, ListsAre
  <2> HIDE DEF s
  <2>3. s # <<>> => s[1] \in Players
    BY <2>2, ElementOfSeq, EmptySeq, LenProperties
  <2> QED BY <2>3 DEF s
<1>3. \A t \in Nat, v \in S : next(v, t + 1) \in S
  <2> SUFFICES ASSUME NEW t \in Nat, NEW v \in S PROVE next(v, t + 1) \in S
    OBVIOUS
  <2>1. CASE t + 1 \notin 1 .. n \/ lists[t + 1][role] = <<>>
    BY <2>1
  <2>2. CASE ~(t + 1 \notin 1 .. n \/ lists[t + 1][role] = <<>>)
    <3>1. lists[t + 1][role][1] \in Players
      BY <1>2, <2>2
    <3> QED BY <2>2, <3>1, InsertIs
  <2> QED BY <2>1, <2>2
<1> HIDE DEF next, S, n
<1>4. /\ G \in [Nat \X S -> S]
      /\ \A t \in Nat, v \in S : G[<<t, v>>] = next(v, t + 1)
  BY <1>3
<1> HIDE DEF G
<1>5. PICK g : g \in upTo(S, <<>>, G, n)
  <2>1. upTo(S, <<>>, G, n) # {}
    BY <1>1, <1>4, SomeUpTo
  <2> QED BY <2>1
<1>6. /\ g \in [0 .. n -> S] /\ g[0] = <<>>
      /\ \A t \in 0 .. n - 1 : g[t + 1] = G[<<t, g[t]>>]
  BY <1>5 DEF upTo
<1>7. ASSUME NEW t \in 1 .. n
      PROVE  g[t] = IF lists[t][role] = <<>> THEN g[t - 1]
                    ELSE heapInsert(g[t - 1], lists[t][role][1])
  <2>1. t - 1 \in 0 .. n - 1 /\ (t - 1) + 1 = t /\ t - 1 \in Nat
    BY <1>1
  <2>2. g[t - 1] \in S
    BY <1>1, <1>6, <2>1
  <2>3. g[t] = G[<<t - 1, g[t - 1]>>]
    BY <1>6, <2>1
  <2>4. g[t] = next(g[t - 1], t)
    BY <1>4, <2>1, <2>2, <2>3
  <2> QED BY <2>4 DEF next
<1>8. g = body(g)
  <2>1. ASSUME NEW t \in 0 .. n PROVE g[t] = body(g)[t]
    <3>1. t = 0 \/ t \in 1 .. n
      BY <1>1
    <3> QED BY <1>6, <1>7, <3>1
  <2> QED BY <1>6, <2>1
<1> DEFINE x == CHOOSE f : f = body(f)
<1>9. x = body(x)
  <2> HIDE DEF body
  <2> QED BY <1>8
<1>10. heapOfHeads(role) = x[n]
  BY DEF heapOfHeads, n
<1> HIDE DEF x
<1>11. /\ x[0] = <<>>
       /\ \A t \in 1 .. n : x[t] = IF lists[t][role] = <<>> THEN x[t - 1]
                                 ELSE heapInsert(x[t - 1], lists[t][role][1])
  <2>1. 0 \in 0 .. n /\ \A t \in 1 .. n : t \in 0 .. n /\ t # 0
    BY <1>1
  <2>2. x[0] = <<>>
    BY <1>9, <2>1
  <2>3. ASSUME NEW t \in 1 .. n
        PROVE  x[t] = IF lists[t][role] = <<>> THEN x[t - 1]
                      ELSE heapInsert(x[t - 1], lists[t][role][1])
    BY <1>9, <2>1
  <2> QED BY <2>2, <2>3
<1> HIDE DEF body
<1>12. \A t \in Nat : t \in 0 .. n => x[t] = g[t]
  <2> DEFINE T == {t \in Nat : t \in 0 .. n => x[t] = g[t]}
  <2>1. 0 \in T
    BY <1>6, <1>11
  <2>2. ASSUME NEW t \in Nat, t \in T PROVE t + 1 \in T
    <3> SUFFICES ASSUME t + 1 \in 0 .. n PROVE x[t + 1] = g[t + 1]
      OBVIOUS
    <3>1. t \in 0 .. n /\ t + 1 \in 1 .. n /\ (t + 1) - 1 = t
      BY <1>1
    <3>2. x[t] = g[t]
      BY <2>2, <3>1
    <3> QED BY <1>7, <1>11, <3>1, <3>2
  <2> HIDE DEF T
  <2>3. Nat \subseteq T
    BY <2>1, <2>2, InductiveSet
  <2> QED BY <2>3 DEF T
<1>13. heapOfHeads(role) = g[n] /\ fills(g, role)
  BY <1>1, <1>6, <1>7, <1>10, <1>12 DEF fills, n
<1> QED BY <1>6, <1>13 DEF S, n

\* The heap filled holds the head of each list, the best on top.
LEMMA HeadsEnter ==
    ASSUME PlayerTypes, ListsRanked, NEW role \in Roles
    PROVE  /\ heapOfHeads(role) \in Seq(Players) /\ oneEach(heapOfHeads(role))
           /\ Len(heapOfHeads(role)) <= NUM_OF_TEAMS
           /\ ToSet(heapOfHeads(role)) = heads(role, NUM_OF_TEAMS)
           /\ (\A p \in ToSet(added) : p.role = role => p.pi # NaN) => heapOrdered(heapOfHeads(role), 1)
<1> DEFINE n == NUM_OF_TEAMS
           numbers == \A p \in ToSet(added) : p.role = role => p.pi # NaN
<1>1. n \in Nat /\ Teams = 1 .. n
  BY PlayerAssumption DEF PlayerAssumption, Teams
<1>2. PICK k \in [0 .. n -> Seq(Players)] : fills(k, role) /\ heapOfHeads(role) = k[n]
  BY FillUnfolds
<1> DEFINE good(t) == /\ Len(k[t]) <= t /\ oneEach(k[t])
                      /\ ToSet(k[t]) = heads(role, t)
                      /\ numbers => heapOrdered(k[t], 1)
           T == {t \in Nat : t \in 0 .. n => good(t)}
<1>3. ASSUME NEW t \in Teams, lists[t][role] # <<>>
      PROVE  /\ lists[t][role][1] \in Players /\ lists[t][role][1].team = t
             /\ numbers => lists[t][role][1].pi # NaN
  <2> DEFINE s == lists[t][role]
  <2>1. /\ s \in Seq(Players)
        /\ \A i \in 1 .. Len(s) : s[i] \in Players /\ s[i].team = t /\ s[i].role = role /\ s[i] \in ToSet(added)
    BY ListsAre
  <2>2. 1 \in 1 .. Len(s)
    <3> HIDE DEF s
    <3> QED BY <1>3, <2>1, EmptySeq, LenProperties DEF s
  <2> QED BY <2>1, <2>2
<1> HIDE DEF n, numbers
<1>4. 0 \in T
  <2>1. k[0] = <<>>
    BY <1>2 DEF fills
  <2>2. heads(role, 0) = {}
    BY DEF heads
  <2>3. ToSet(<<>>) = {} /\ oneEach(<<>>) /\ Len(<<>>) = 0 /\ heapOrdered(<<>>, 1)
    BY DEF ToSet, oneEach, heapOrdered
  <2>4. good(0)
    <3> DEFINE e == k[0]
    <3>1. e = <<>>
      BY <2>1
    <3> HIDE DEF e
    <3>2. Len(e) = 0 /\ oneEach(e) /\ ToSet(e) = heads(role, 0) /\ heapOrdered(e, 1)
      BY ONLY <2>2, <2>3, <3>1, Zenon
    <3>3. Len(e) <= 0
      BY ONLY <3>2
    <3> QED BY ONLY <3>2, <3>3 DEF e, good
  <2> HIDE DEF good
  <2> QED BY <2>4
<1>5. ASSUME NEW m \in Nat, m \in T PROVE m + 1 \in T
  <2>1. ASSUME m + 1 \in 0 .. n PROVE good(m + 1)
    <3> DEFINE h == k[m]
               t == m + 1
               s == lists[t][role]
               p == s[1]
               r == k[t]
    <3>1. m \in 0 .. n /\ t \in 1 .. n /\ t - 1 = m /\ t \in Teams /\ t \in Nat
      BY <1>1, <2>1
    <3>2. good(m) /\ h \in Seq(Players)
      BY <1>5, <3>1
    <3>3. 1 .. t = (1 .. m) \cup {t} /\ t \notin 1 .. m
      BY <3>1
    <3>4. r = IF s = <<>> THEN h ELSE heapInsert(h, p)
      BY <1>2, <3>1 DEF fills, n
    <3>5. Len(h) \in Nat /\ DOMAIN h = 1 .. Len(h) /\ \A i \in 1 .. Len(h) : h[i] \in ToSet(h)
      BY <3>2, LenProperties DEF ToSet
    <3>6. s # <<>> => p \in Players /\ p.team = t /\ (numbers => p.pi # NaN)
      BY <1>3, <3>1
    <3>7. heads(role, t) = IF s = <<>> THEN heads(role, m) ELSE heads(role, m) \cup {p}
      <4>1. {u \in 1 .. t : lists[u][role] # <<>>} =
               {u \in 1 .. m : lists[u][role] # <<>>} \cup (IF s = <<>> THEN {} ELSE {t})
        BY <3>3
      <4> QED BY <4>1 DEF heads
    <3>8. \A x \in heads(role, m) : x.team # t /\ (numbers => x.pi # NaN)
      <4> SUFFICES ASSUME NEW u \in 1 .. m, lists[u][role] # <<>>
                   PROVE  lists[u][role][1].team # t /\ (numbers => lists[u][role][1].pi # NaN)
        BY DEF heads
      <4>1. u \in Teams /\ u # t
        BY <1>1, <3>1
      <4> QED BY <1>3, <4>1
    <3> HIDE DEF h, s, p, r, t
    <3>9. /\ Len(h) <= m /\ oneEach(h) /\ ToSet(h) = heads(role, m)
          /\ numbers => heapOrdered(h, 1)
      BY <3>2 DEF h
    <3>10. /\ Len(r) <= t /\ oneEach(r) /\ ToSet(r) = heads(role, t)
           /\ numbers => heapOrdered(r, 1)
      <4>1. CASE s = <<>>
        BY <3>1, <3>4, <3>5, <3>7, <3>9, <4>1
      <4>2. CASE s # <<>>
        <5>1. numbers => AllNumbers(h) /\ p.pi # NaN
          BY <3>5, <3>6, <3>8, <3>9, <4>2 DEF AllNumbers
        <5>2. \A i \in 1 .. Len(h) : h[i].team # p.team
          BY <3>5, <3>6, <3>8, <3>9, <4>2
        <5>3. /\ Len(r) = Len(h) + 1 /\ ToSet(r) = ToSet(h) \cup {p} /\ oneEach(r)
              /\ AllNumbers(h) /\ p.pi # NaN /\ heapOrdered(h, 1) => heapOrdered(r, 1)
          BY <3>2, <3>4, <3>6, <3>9, <4>2, <5>2, InsertIs
        <5>4. Len(r) <= t
          BY <3>1, <3>5, <3>9, <5>3
        <5> QED BY <3>7, <3>9, <4>2, <5>1, <5>3, <5>4
      <4> QED BY <4>1, <4>2
    <3> QED BY <3>10 DEF r, t
  <2> HIDE DEF good
  <2> QED BY <2>1
<1> HIDE DEF T
<1>6. n \in T
  BY <1>1, <1>4, <1>5, InductiveSet
<1> HIDE DEF good
<1>7. good(n)
  BY <1>1, <1>6 DEF T
<1> DEFINE h == k[n]
<1>8. h \in Seq(Players) /\ h = heapOfHeads(role)
  BY <1>1, <1>2
<1>9. /\ Len(h) <= n /\ oneEach(h) /\ ToSet(h) = heads(role, n)
      /\ numbers => heapOrdered(h, 1)
  BY ONLY <1>7 DEF good
<1> HIDE DEF h
<1> QED BY ONLY <1>8, <1>9 DEF n, numbers

\* How many of the first n are of the team.
counted(q, t, n) == Cardinality({i \in 1 .. n : q[i].team = t})

LEMMA CountedGrow ==
    ASSUME NEW q \in Seq(Players), NEW p \in Players, NEW t
    PROVE  /\ \A i \in 0 .. Len(q) : /\ counted(q, t, i) \in Nat
                                    /\ counted(Append(q, p), t, i) = counted(q, t, i)
           /\ counted(Append(q, p), t, Len(q) + 1) =
                IF p.team = t THEN counted(q, t, Len(q)) + 1 ELSE counted(q, t, Len(q))
<1> DEFINE n == Len(q)
           a == Append(q, p)
           own(s, i) == {j \in 1 .. i : s[j].team = t}
<1>1. n \in Nat /\ a[n + 1] = p /\ \A i \in 1 .. n : a[i] = q[i]
  BY AppendProperties, LenProperties
<1> HIDE DEF a, n
<1>2. ASSUME NEW i \in 0 .. n PROVE IsFiniteSet(own(q, i)) /\ own(a, i) = own(q, i)
  <2>1. i \in Nat /\ IsFiniteSet(1 .. i) /\ own(q, i) \subseteq 1 .. i
    BY <1>1, FS_Interval
  <2>2. \A j \in 1 .. i : a[j] = q[j]
    BY <1>1
  <2> QED BY <2>1, <2>2, FS_Subset
<1>3. \A i \in 0 .. n : /\ counted(q, t, i) \in Nat /\ counted(a, t, i) = counted(q, t, i)
  BY <1>2, FS_CardinalityType DEF counted
<1>4. n \in 0 .. n /\ 1 .. n + 1 = (1 .. n) \cup {n + 1} /\ n + 1 \notin 1 .. n
  BY <1>1
<1>5. own(a, n + 1) = IF p.team = t THEN own(q, n) \cup {n + 1} ELSE own(q, n)
  BY <1>1, <1>4
<1>6. n + 1 \notin own(q, n) /\ IsFiniteSet(own(q, n))
  BY <1>2, <1>4
<1> HIDE DEF own
<1>7. Cardinality(own(a, n + 1)) =
        IF p.team = t THEN Cardinality(own(q, n)) + 1 ELSE Cardinality(own(q, n))
  BY <1>5, <1>6, FS_AddElement
<1> QED BY <1>3, <1>7 DEF counted, own, a, n

left(rows, role) == {t \in Teams : counted(rows, t, Len(rows)) < Len(lists[t][role])}
merged(rows, h, role) ==
    /\ Len(h) <= NUM_OF_TEAMS
    /\ \A i \in DOMAIN rows :
         /\ counted(rows, rows[i].team, i) <= Len(lists[rows[i].team][role])
         /\ rows[i] = lists[rows[i].team][role][counted(rows, rows[i].team, i)]
    /\ oneEach(h)
    /\ ToSet(h) = {lists[t][role][counted(rows, t, Len(rows)) + 1] : t \in left(rows, role)}

LEMMA MergedAre ==
    MergeKeepsPlace <=> (stage = "merging" => merged(out.rows, heap, out.role))
BY DEF MergeKeepsPlace, merged, left, unfinished, allPrinted, printed, counted, oneEach

LEMMA MergeStarts ==
    ASSUME PlayerTypes, ListsRanked, NEW role \in Roles
    PROVE  merged(<<>>, heapOfHeads(role), role)
<1>1. /\ oneEach(heapOfHeads(role)) /\ Len(heapOfHeads(role)) <= NUM_OF_TEAMS
      /\ ToSet(heapOfHeads(role)) = heads(role, NUM_OF_TEAMS)
  BY HeadsEnter
<1>2. DOMAIN <<>> = {} /\ Len(<<>>) = 0
  OBVIOUS
<1>3. \A t : counted(<<>>, t, 0) = 0
  <2>1. 1 .. 0 = {}
    OBVIOUS
  <2> QED BY <2>1, FS_EmptySet DEF counted
<1>4. left(<<>>, role) = {t \in Teams : lists[t][role] # <<>>}
  <2>1. \A t \in Teams : 0 < Len(lists[t][role]) <=> lists[t][role] # <<>>
    <3> SUFFICES ASSUME NEW t \in Teams PROVE 0 < Len(lists[t][role]) <=> lists[t][role] # <<>>
      OBVIOUS
    <3> DEFINE s == lists[t][role]
    <3>1. s \in Seq(Players)
      BY ListsAre
    <3> HIDE DEF s
    <3>2. 0 < Len(s) <=> s # <<>>
      BY <3>1, EmptySeq, LenProperties
    <3> QED BY <3>2 DEF s
  <2> QED BY <1>2, <1>3, <2>1 DEF left
<1>5. heads(role, NUM_OF_TEAMS) =
        {lists[t][role][counted(<<>>, t, Len(<<>>)) + 1] : t \in left(<<>>, role)}
  <2>1. Len(<<>>) = 0 /\ 0 + 1 = 1
    OBVIOUS
  <2>2. \A t : counted(<<>>, t, Len(<<>>)) + 1 = 1
    BY <1>3, <2>1
  <2> QED BY <1>4, <2>2 DEF heads, Teams
<1> HIDE DEF heapOfHeads
<1> QED BY <1>1, <1>2, <1>5 DEF merged

ofRole(role) == \A p \in ToSet(added) : p.role = role => p.pi # NaN

\* On a list where everybody has a number, nobody is better than one before.
LEMMA ListFalls ==
    ASSUME PlayerTypes, ListsRanked, NEW t \in Teams, NEW role \in Roles, ofRole(role)
    PROVE  /\ \A i \in 1 .. Len(lists[t][role]) : lists[t][role][i].pi \in Int
           /\ \A i, j \in 1 .. Len(lists[t][role]) : i < j => lists[t][role][j].pi <= lists[t][role][i].pi
<1> DEFINE s == lists[t][role]
<1>1. /\ s \in Seq(Players) /\ DOMAIN s = 1 .. Len(s)
      /\ \A i \in 1 .. Len(s) : s[i].role = role /\ s[i] \in ToSet(added)
  BY ListsAre
<1>2. ranked(s, added, t, role)
  BY DEF ListsRanked
<1> HIDE DEF s
<1>3. AllNumbers(s)
  BY <1>1 DEF AllNumbers, ofRole
<1>4. \A i \in 1 .. Len(s) : s[i].pi \in Int
  BY <1>1, <1>3, PiNumbers
<1>5. orderedBy(s, added)
  BY <1>2, <1>3 DEF ranked
<1>6. ASSUME NEW i \in 1 .. Len(s), NEW j \in 1 .. Len(s), i < j PROVE s[j].pi <= s[i].pi
  <2>1. s[i].pi > s[j].pi \/ s[i].pi = s[j].pi
    BY <1>1, <1>5, <1>6 DEF orderedBy
  <2> QED BY <1>4, <2>1
<1> QED BY <1>4, <1>6 DEF s

\* The next of the team follows the one printed.
LEMMA NextIs ==
    ASSUME PlayerTypes, ListsRanked, NEW t \in Teams, NEW role \in Roles,
           NEW c \in Nat, c < Len(lists[t][role]), NEW p, p = lists[t][role][c + 1]
    PROVE  /\ Len(behind(p)) > 1 <=> c + 1 < Len(lists[t][role])
           /\ c + 1 < Len(lists[t][role]) => behind(p)[2] = lists[t][role][c + 2]
<1> DEFINE s == lists[t][role]
           n == Len(s)
           k == CHOOSE i \in 1 .. n : s[i] = p
<1>1. /\ s \in Seq(Players) /\ IsInjective(s) /\ DOMAIN s = 1 .. n /\ n \in Nat
      /\ \A i \in 1 .. n : s[i].team = t /\ s[i].role = role
  BY ListsAre
<1> HIDE DEF n
<1>2. c + 1 \in 1 .. n /\ s[c + 1] = p /\ p.team = t /\ p.role = role
  BY <1>1 DEF n
<1>3. behind(p) = SubSeq(s, k, n)
  BY <1>2 DEF behind, n
<1>4. \A i \in 1 .. n : s[i] = p => i = c + 1
  <2> HIDE DEF s
  <2> QED BY <1>1, <1>2 DEF IsInjective
<1>5. k = c + 1
  <2> HIDE DEF s
  <2> QED BY <1>2, <1>4
<1> HIDE DEF s, k
<1>6. behind(p) = SubSeq(s, c + 1, Len(s)) /\ c \in 0 .. Len(s)
  BY <1>1, <1>2, <1>3, <1>5 DEF n
<1>7. /\ Len(behind(p)) = Len(s) - c
      /\ \A i \in 1 .. Len(s) - c : behind(p)[i] = s[c + i]
  BY <1>1, <1>6, LastOf
<1>8. Len(behind(p)) > 1 <=> c + 1 < n
  BY <1>1, <1>7 DEF n
<1>9. c + 1 < n => behind(p)[2] = s[c + 2]
  BY <1>1, <1>7 DEF n
<1> QED BY <1>8, <1>9 DEF s, n

LEMMA PrintKeepsPlace ==
    ASSUME PlayerTypes, ListsRanked, NEW role \in Roles,
           NEW rows \in Seq(Players), NEW h \in Seq(Players), h # <<>>, merged(rows, h, role)
    PROVE  /\ nextPlayer(heapExtractMax(h), h[1]) \in Seq(Players)
           /\ merged(Append(rows, h[1]), nextPlayer(heapExtractMax(h), h[1]), role)
           /\ ofRole(role) /\ heapOrdered(h, 1) =>
                /\ heapOrdered(nextPlayer(heapExtractMax(h), h[1]), 1)
                /\ \A x \in ToSet(nextPlayer(heapExtractMax(h), h[1])) : x.pi <= h[1].pi
<1> DEFINE n == Len(rows)
           p == h[1]
           e == heapExtractMax(h)
           g == nextPlayer(e, p)
           q == Append(rows, p)
           here(u) == counted(rows, u, n)
           next(u) == lists[u][role][here(u) + 1]
<1>1. /\ Len(h) \in Nat /\ Len(h) >= 1 /\ DOMAIN h = 1 .. Len(h) /\ 1 \in 1 .. Len(h)
      /\ p \in Players /\ n \in Nat /\ n \in 0 .. n
  BY LenProperties, ElementOfSeq, EmptySeq
<1>2. /\ oneEach(h) /\ Len(h) <= NUM_OF_TEAMS
      /\ ToSet(h) = {next(u) : u \in left(rows, role)}
      /\ \A u \in left(rows, role) : u \in Teams /\ here(u) < Len(lists[u][role])
      /\ \A u \in Teams : here(u) < Len(lists[u][role]) => u \in left(rows, role)
  BY DEF merged, left
<1>3. \A u \in Teams : here(u) \in Nat
  BY <1>1, CountedGrow
<1>4. ASSUME NEW u \in left(rows, role)
      PROVE  next(u) \in Players /\ next(u).team = u /\ (ofRole(role) => next(u).pi \in Int)
  <2> DEFINE s == lists[u][role]
             i == here(u) + 1
  <2>1. u \in Teams
    BY <1>2
  <2>2. Len(s) \in Nat /\ \A j \in 1 .. Len(s) : s[j] \in Players /\ s[j].team = u
    BY <2>1, ListsAre
  <2>3. ofRole(role) => \A j \in 1 .. Len(s) : s[j].pi \in Int
    BY <2>1, ListFalls
  <2>4. i \in 1 .. Len(s)
    BY <1>2, <1>3, <2>1, <2>2
  <2> HIDE DEF s, i
  <2>5. s[i] \in Players /\ s[i].team = u /\ (ofRole(role) => s[i].pi \in Int)
    BY <2>2, <2>3, <2>4
  <2> QED BY <2>5 DEF s, i
<1>5. \A j \in 1 .. Len(h) : h[j] \in ToSet(h)
  BY <1>1 DEF ToSet
<1>6. PICK t \in left(rows, role) : p = next(t)
  BY <1>1, <1>2, <1>5
<1>7. p.team = t /\ t \in Teams
  BY <1>2, <1>4, <1>6
<1> DEFINE c == here(t)
           s == lists[t][role]
<1>8. c \in Nat /\ c < Len(s) /\ p = s[c + 1] /\ Len(s) \in Nat
  BY <1>2, <1>3, <1>6, <1>7, ListsAre
<1>9. /\ Len(behind(p)) > 1 <=> c + 1 < Len(s)
      /\ c + 1 < Len(s) => behind(p)[2] = s[c + 2]
  <2> HIDE DEF c, p
  <2> QED BY <1>7, <1>8, NextIs DEF s
<1>10. /\ e \in Seq(Players) /\ Len(e) = Len(h) - 1
       /\ ToSet(e) = {h[k] : k \in 2 .. Len(h)} /\ oneEach(e)
       /\ AllNumbers(h) /\ heapOrdered(h, 1) => heapOrdered(e, 1)
  BY <1>2, ExtractIs
<1>11. g = IF c + 1 < Len(s) THEN heapInsert(e, s[c + 2]) ELSE e
  <2>1. g = IF Len(behind(p)) > 1 THEN heapInsert(e, behind(p)[2]) ELSE e
    BY DEF nextPlayer
  <2> HIDE DEF g, e, s, c
  <2> QED BY <1>9, <2>1
<1>12. c + 1 < Len(s) => s[c + 2] \in Players /\ s[c + 2].team = t
  <2>1. \A j \in 1 .. Len(s) : s[j] \in Players /\ s[j].team = t
    BY <1>7, ListsAre
  <2>2. c + 1 < Len(s) => c + 2 \in 1 .. Len(s)
    BY <1>8
  <2> HIDE DEF s, c
  <2> QED BY <2>1, <2>2
<1>13. /\ q \in Seq(Players) /\ Len(q) = n + 1 /\ DOMAIN q = 1 .. n + 1 /\ q[n + 1] = p
       /\ \A i \in 1 .. n : q[i] = rows[i]
       /\ DOMAIN rows = 1 .. n /\ \A i \in 1 .. n : rows[i] \in Players
  BY <1>1, AppendProperties, LenProperties, ElementOfSeq
<1>14. /\ \A u \in Teams, i \in 0 .. n : counted(q, u, i) = counted(rows, u, i)
       /\ \A u \in Teams : counted(q, u, n + 1) = IF u = t THEN here(u) + 1 ELSE here(u)
  <2> HIDE DEF p
  <2> QED BY <1>1, <1>7, CountedGrow
<1>15. \A u \in Teams : u \in left(q, role) <=> IF u = t THEN c + 1 < Len(s) ELSE u \in left(rows, role)
  <2> SUFFICES ASSUME NEW u \in Teams
               PROVE  u \in left(q, role) <=> IF u = t THEN c + 1 < Len(s) ELSE u \in left(rows, role)
    OBVIOUS
  <2>1. u \in left(q, role) <=> counted(q, u, n + 1) < Len(lists[u][role])
    BY <1>13 DEF left
  <2>2. u \in left(rows, role) <=> here(u) < Len(lists[u][role])
    BY <1>2
  <2> HIDE DEF q, here
  <2> QED BY <1>14, <2>1, <2>2 DEF c, s
\* What the heap keeps is of the other teams.
<1>16. /\ \A u \in left(rows, role) : u # t => next(u) \in ToSet(e)
       /\ \A x \in ToSet(e) : \E u \in left(rows, role) : u # t /\ x = next(u)
  <2>1. ASSUME NEW u \in left(rows, role), u # t PROVE next(u) \in ToSet(e)
    <3>1. next(u) \in ToSet(h)
      BY <1>2
    <3>2. PICK k \in 1 .. Len(h) : next(u) = h[k]
      BY <1>1, <3>1 DEF ToSet
    <3>3. next(u).team = u
      BY <1>4
    <3> HIDE DEF next
    <3>4. k # 1
      BY <1>7, <2>1, <3>2, <3>3
    <3>5. k \in 2 .. Len(h)
      BY <1>1, <3>4
    <3> HIDE DEF e
    <3> QED BY <1>10, <3>2, <3>5
  <2>2. ASSUME NEW x \in ToSet(e) PROVE \E u \in left(rows, role) : u # t /\ x = next(u)
    <3>1. PICK k \in 2 .. Len(h) : x = h[k]
      BY <1>10
    <3>2. k \in 1 .. Len(h) /\ k # 1 /\ x \in ToSet(h)
      BY <1>1, <1>5, <3>1
    <3>3. PICK u \in left(rows, role) : x = next(u)
      BY <1>2, <3>2
    <3>4. x.team = u
      BY <1>4, <3>3
    <3>5. x.team # p.team
      BY <1>1, <1>2, <3>1, <3>2 DEF oneEach
    <3> QED BY <1>7, <3>3, <3>4, <3>5
  <2> HIDE DEF next
  <2> QED BY <2>1, <2>2
<1>17. \A u \in Teams : u # t => lists[u][role][counted(q, u, n + 1) + 1] = next(u)
  <2> HIDE DEF q
  <2> QED BY <1>14
<1>18. lists[t][role][counted(q, t, n + 1) + 1] = s[c + 2]
  <2>1. counted(q, t, n + 1) = c + 1
    BY <1>7, <1>14
  <2>2. (c + 1) + 1 = c + 2
    BY <1>8
  <2> HIDE DEF q, c
  <2> QED BY <2>1, <2>2
<1> DEFINE after(u) == lists[u][role][counted(q, u, n + 1) + 1]
<1>19. {after(u) : u \in left(q, role)} =
         ToSet(e) \cup (IF c + 1 < Len(s) THEN {s[c + 2]} ELSE {})
  <2>1. ASSUME NEW u \in left(q, role) PROVE after(u) \in ToSet(e) \cup (IF c + 1 < Len(s) THEN {s[c + 2]} ELSE {})
    <3>1. u \in Teams
      BY DEF left
    <3>2. CASE u = t
      <4>1. after(u) = s[c + 2]
        BY <1>18, <3>2
      <4>2. c + 1 < Len(s)
        <5> HIDE DEF c, s, q
        <5> QED BY <1>15, <3>1, <3>2
      <4> HIDE DEF after, c, s, e
      <4> QED BY <4>1, <4>2
    <3>3. CASE u # t
      <4>1. u \in left(rows, role)
        BY <1>15, <3>1, <3>3
      <4>2. after(u) = next(u)
        BY <1>17, <3>1, <3>3
      <4>3. next(u) \in ToSet(e)
        BY <1>16, <3>3, <4>1
      <4> HIDE DEF after, next, e
      <4> QED BY <4>2, <4>3
    <3> QED BY <3>2, <3>3
  <2>2. ASSUME NEW x \in ToSet(e) PROVE x \in {after(u) : u \in left(q, role)}
    <3>1. PICK u \in left(rows, role) : u # t /\ x = next(u)
      BY <1>16
    <3>2. u \in Teams
      BY <1>2
    <3>3. u \in left(q, role)
      BY <1>15, <3>1, <3>2
    <3>4. x = after(u)
      BY <1>17, <3>1, <3>2
    <3> HIDE DEF after
    <3> QED BY <3>3, <3>4
  <2>3. c + 1 < Len(s) => s[c + 2] \in {after(u) : u \in left(q, role)}
    <3>1. c + 1 < Len(s) => t \in left(q, role)
      BY <1>7, <1>15
    <3>2. s[c + 2] = after(t)
      BY <1>18
    <3> HIDE DEF after, c, s
    <3> QED BY <3>1, <3>2
  <2> HIDE DEF after, c, s, e
  <2> QED BY <2>1, <2>2, <2>3
<1>20. \A x \in ToSet(e) : x.team # t /\ x \in Players /\ (ofRole(role) => x.pi # NaN)
  <2> SUFFICES ASSUME NEW x \in ToSet(e) PROVE x.team # t /\ x \in Players /\ (ofRole(role) => x.pi # NaN)
    OBVIOUS
  <2>1. PICK u \in left(rows, role) : u # t /\ x = next(u)
    BY <1>16
  <2>2. x \in Players /\ x.team = u /\ (ofRole(role) => x.pi \in Int)
    BY <1>4, <2>1
  <2> QED BY <2>1, <2>2, PlayerAssumption DEF PlayerAssumption
<1>21. \A j \in 1 .. Len(e) : e[j] \in ToSet(e)
  <2> HIDE DEF e
  <2> QED BY <1>10, LenProperties DEF ToSet
<1> HIDE DEF e, g, next
<1>22. /\ g \in Seq(Players) /\ Len(g) <= NUM_OF_TEAMS /\ oneEach(g)
       /\ ToSet(g) = ToSet(e) \cup (IF c + 1 < Len(s) THEN {s[c + 2]} ELSE {})
  <2>1. CASE c + 1 < Len(s)
    <3> DEFINE b == s[c + 2]
    <3>1. b \in Players /\ b.team = t /\ g = heapInsert(e, b)
      BY <1>11, <1>12, <2>1
    <3> HIDE DEF b, c, s
    <3>2. \A j \in 1 .. Len(e) : e[j].team # b.team
      BY <1>20, <1>21, <3>1
    <3>3. g \in Seq(Players) /\ Len(g) = Len(e) + 1 /\ ToSet(g) = ToSet(e) \cup {b} /\ oneEach(g)
      BY <1>10, <3>1, <3>2, InsertIs
    <3>4. Len(g) <= NUM_OF_TEAMS
      BY <1>1, <1>2, <1>10, <3>3, PlayerAssumption DEF PlayerAssumption
    <3> QED BY <2>1, <3>3, <3>4 DEF b
  <2>2. CASE ~(c + 1 < Len(s))
    <3>1. g = e
      BY <1>11, <2>2
    <3>2. Len(g) <= NUM_OF_TEAMS
      BY <1>1, <1>2, <1>10, <3>1, PlayerAssumption DEF PlayerAssumption
    <3> HIDE DEF c, s
    <3> QED BY <1>10, <2>2, <3>1, <3>2
  <2> QED BY <2>1, <2>2
<1>23. merged(q, g, role)
  <2>1. ASSUME NEW i \in 1 .. n + 1
        PROVE  /\ counted(q, q[i].team, i) <= Len(lists[q[i].team][role])
               /\ q[i] = lists[q[i].team][role][counted(q, q[i].team, i)]
    <3>1. CASE i = n + 1
      <4>1. q[i] = p /\ q[i].team = t /\ counted(q, q[i].team, i) = c + 1
        BY <1>7, <1>13, <1>14, <3>1
      <4> HIDE DEF q, p, c
      <4> QED BY <1>8, <4>1
    <3>2. CASE i # n + 1
      <4>1. i \in 1 .. n /\ i \in 0 .. n
        BY <1>1, <3>2
      <4>2. q[i] = rows[i] /\ rows[i].team \in Teams
        <5>1. q[i] = rows[i] /\ rows[i] \in Players
          BY <1>13, <4>1
        <5> QED BY <5>1 DEF Players
      <4>3. counted(q, q[i].team, i) = counted(rows, rows[i].team, i)
        BY <1>14, <4>1, <4>2
      <4>4. /\ counted(rows, rows[i].team, i) <= Len(lists[rows[i].team][role])
            /\ rows[i] = lists[rows[i].team][role][counted(rows, rows[i].team, i)]
        BY <1>13, <4>1 DEF merged
      <4> HIDE DEF q
      <4> QED BY <4>2, <4>3, <4>4
    <3> QED BY <3>1, <3>2
  <2>2. ToSet(g) = {lists[u][role][counted(q, u, Len(q)) + 1] : u \in left(q, role)}
    <3>1. Len(q) = n + 1
      BY <1>13
    <3>2. ToSet(g) = {after(u) : u \in left(q, role)}
      BY <1>19, <1>22
    <3> QED BY <3>1, <3>2
  <2> HIDE DEF q
  <2> QED BY <1>13, <1>22, <2>1, <2>2 DEF merged
<1>24. ASSUME ofRole(role), heapOrdered(h, 1)
       PROVE  heapOrdered(g, 1) /\ \A x \in ToSet(g) : x.pi <= p.pi
  <2>1. AllNumbers(h)
    <3> SUFFICES ASSUME NEW j \in 1 .. Len(h) PROVE h[j].pi # NaN
      BY <1>1 DEF AllNumbers
    <3>1. PICK u \in left(rows, role) : h[j] = next(u)
      BY <1>2, <1>5 DEF next
    <3>2. h[j].pi \in Int
      BY <1>4, <1>24, <3>1 DEF next
    <3> QED BY <3>2, PlayerAssumption DEF PlayerAssumption
  <2>2. \A j \in 1 .. Len(h) : h[j].pi <= h[1].pi
    BY <1>24, <2>1, HeapTop
  <2>3. \A x \in ToSet(e) : x.pi <= p.pi
    <3> SUFFICES ASSUME NEW x \in ToSet(e) PROVE x.pi <= p.pi
      OBVIOUS
    <3>1. PICK k \in 2 .. Len(h) : x = h[k]
      BY <1>10
    <3>2. k \in 1 .. Len(h)
      BY <1>1
    <3> QED BY <2>2, <3>1, <3>2
  <2>4. heapOrdered(e, 1) /\ AllNumbers(e)
    <3>1. DOMAIN e = 1 .. Len(e)
      BY <1>10, LenProperties
    <3> QED BY <1>10, <1>20, <1>21, <1>24, <2>1, <3>1 DEF AllNumbers
  <2>5. c + 1 < Len(s) => s[c + 2].pi <= p.pi /\ s[c + 2].pi # NaN
    <3> SUFFICES ASSUME c + 1 < Len(s) PROVE s[c + 2].pi <= s[c + 1].pi /\ s[c + 2].pi # NaN
      BY <1>8
    <3>1. c + 1 \in 1 .. Len(s) /\ c + 2 \in 1 .. Len(s) /\ c + 1 < c + 2
      BY <1>8
    <3>2. /\ \A i \in 1 .. Len(s) : s[i].pi \in Int
          /\ \A i, j \in 1 .. Len(s) : i < j => s[j].pi <= s[i].pi
      BY <1>7, <1>24, ListFalls
    <3> HIDE DEF c, s
    <3> QED BY <3>1, <3>2, PlayerAssumption DEF PlayerAssumption
  <2>6. CASE c + 1 < Len(s)
    <3> DEFINE b == s[c + 2]
    <3>1. b \in Players /\ g = heapInsert(e, b) /\ b.pi <= p.pi /\ b.pi # NaN
      BY <1>11, <1>12, <2>5, <2>6
    <3>2. ToSet(g) = ToSet(e) \cup {b}
      BY <1>22, <2>6
    <3> HIDE DEF b, c, s, p
    <3>3. heapOrdered(g, 1)
      BY <1>10, <2>4, <3>1, InsertIs
    <3> QED BY <2>3, <3>1, <3>2, <3>3
  <2>7. CASE ~(c + 1 < Len(s))
    <3>1. g = e
      BY <1>11, <2>7
    <3> QED BY <2>3, <2>4, <3>1
  <2> QED BY <2>6, <2>7
<1> HIDE DEF q, p
<1> QED BY <1>22, <1>23, <1>24 DEF g, e, q, p

-----------------------------------------------------------------------------
(* What is always true.                                                      *)

\* While the lists are merged, the heap and what is printed tell the place.
Merging ==
    stage = "merging" => /\ out.kind = "role" /\ heap \in Seq(Players)
                         /\ merged(out.rows, heap, out.role)

\* The players of a role are printed from the best on.
Best ==
    out.kind = "role" =>
        /\ out \in [kind: {"role"}, role: Roles, rows: Seq(Players)]
        /\ ofRole(out.role) =>
             /\ \A i \in 1 .. Len(out.rows) - 1 : out.rows[i].pi >= out.rows[i + 1].pi
             /\ stage = "merging" =>
                  /\ heapOrdered(heap, 1)
                  /\ out.rows # <<>> => \A x \in ToSet(heap) : x.pi <= Last(out.rows).pi

\* The lines of the teams are those of the sums.
Lines ==
    /\ out.kind = "team" => \E t \in Teams : Last(out.rows) = teamLine(t)
    /\ out.kind = "teams" => \E order \in Orders :
         qsorted(order) /\ out.rows = [i \in Teams |-> teamLine(order[i])]

PlayerInv ==
    /\ PlayerTypes /\ Loading /\ Tallied
    /\ distinctIds(added) /\ (stage # "exit" => ListsRanked)
    /\ Merging /\ Best /\ Lines

LEMMA PlayersStart == PlayerInit => PlayerInv
<1> SUFFICES ASSUME PlayerInit PROVE PlayerInv
  OBVIOUS
<1>1. /\ lists = [t \in Teams |-> [role \in Roles |-> <<>>]]
      /\ tally = [t \in Teams |-> [players |-> 0, batting |-> 0, srSum |-> 0]]
      /\ heap = <<>> /\ out = noRows /\ stage = "loading" /\ added = <<>>
  BY DEF PlayerInit
<1>2. <<>> \in Seq(Players) /\ Len(<<>>) = 0 /\ DOMAIN <<>> = {} /\ ToSet(<<>>) = {}
  BY DEF ToSet
<1>3. PlayerTypes
  <2>1. 0 \in NumbersOrNaN /\ 0 \in Nat
    BY DEF NumbersOrNaN
  <2> QED BY <1>1, <1>2, <2>1 DEF PlayerTypes
<1>4. Loading
  <2>1. Data \in Seq([id: PlayerIds, team: Teams, role: Roles, stats: Typed])
    BY PlayerAssumption DEF PlayerAssumption
  <2>2. Len(Data) \in Nat
    BY <2>1, LenProperties
  <2>3. 1 .. 0 = {}
    OBVIOUS
  <2> QED BY <1>1, <1>2, <2>2, <2>3 DEF Loading
<1>5. Tallied
  <2> SUFFICES ASSUME NEW t \in Teams
               PROVE  tally[t] = [players |-> Cardinality(membersOf(added, t)),
                                  batting |-> Cardinality(battersOf(added, t)), srSum |-> rates(added, t)]
    BY DEF Tallied
  <2>1. membersOf(added, t) = {} /\ battersOf(added, t) = {}
    BY <1>1, <1>2 DEF membersOf, battersOf
  <2>2. rates(added, t) = 0
    <3>1. PICK k : adds(k, added, t) /\ rates(added, t) = k[Len(added)]
      BY <1>1, <1>2, RatesUnfold
    <3>2. k[0] = 0
      BY <3>1 DEF adds
    <3> QED BY <1>1, <1>2, <3>1, <3>2
  <2>3. tally[t] = [players |-> 0, batting |-> 0, srSum |-> 0]
    BY <1>1
  <2>4. Cardinality({}) = 0
    BY FS_EmptySet
  <2> QED BY <2>1, <2>2, <2>3, <2>4
<1>6. distinctIds(added)
  BY <1>1, <1>2 DEF distinctIds
<1>7. ListsRanked
  <2> SUFFICES ASSUME NEW t \in Teams, NEW role \in Roles
               PROVE  ranked(lists[t][role], added, t, role)
    BY DEF ListsRanked
  <2>1. lists[t][role] = <<>>
    BY <1>1
  <2>2. ranked(<<>>, <<>>, t, role)
    BY <1>2 DEF ranked, IsInjective, orderedBy
  <2> QED BY <1>1, <2>1, <2>2
<1>8. Merging /\ Best /\ Lines
  BY <1>1 DEF Merging, Best, Lines, noRows
<1> QED BY <1>3, <1>4, <1>5, <1>6, <1>7, <1>8 DEF PlayerInv

\* When nobody is added and no list changes.
LEMMA PlayersRest ==
    ASSUME PlayerInv, UNCHANGED <<lists, tally, added>>, stage' \in {"loading", "menu", "merging", "exit"},
           stage # "loading" => stage' # "loading", stage = "exit" => stage' = "exit",
           stage' = "loading" => out' = noRows
    PROVE  /\ PlayerTypes' /\ Loading' /\ Tallied' /\ distinctIds(added)'
           /\ stage' # "exit" => ListsRanked'
<1>1. PlayerTypes'
  BY DEF PlayerInv, PlayerTypes
<1>2. Loading'
  BY DEF PlayerInv, Loading
<1>3. Tallied'
  BY DEF PlayerInv, Tallied
<1>4. distinctIds(added)'
  BY DEF PlayerInv
<1>5. stage' # "exit" => ListsRanked'
  BY DEF PlayerInv, ListsRanked
<1> QED BY <1>1, <1>2, <1>3, <1>4, <1>5

\* Somebody who comes and is not yet known.
LEMMA PlayerComes ==
    ASSUME PlayerInv, stage # "exit", NEW p \in Players, enter(p), UNCHANGED stage,
           stage # "merging", \A i \in 1 .. Len(added) : added[i].id # p.id, out' = noRows
    PROVE  /\ PlayerTypes' /\ Tallied' /\ distinctIds(added)' /\ ListsRanked'
           /\ Merging' /\ Best' /\ Lines'
<1>1. PlayerTypes /\ Tallied /\ distinctIds(added) /\ ListsRanked
  BY DEF PlayerInv
<1>2. /\ lists' \in [Teams -> [Roles -> Seq(Players)]] /\ added' \in Seq(Players)
      /\ distinctIds(added)' /\ ListsRanked'
  BY <1>1, EnterKeepsLists
<1>3. /\ tally' \in [Teams -> [players: Nat, batting: Nat, srSum: NumbersOrNaN]]
      /\ Tallied'
  BY <1>1, EnterKeepsTally
<1>4. PlayerTypes'
  BY <1>1, <1>2, <1>3 DEF PlayerTypes
<1>5. Merging' /\ Best' /\ Lines'
  BY DEF Merging, Best, Lines, noRows
<1> QED BY <1>2, <1>3, <1>4, <1>5

LEMMA LoadKeeps == ASSUME PlayerInv, initializeData PROVE PlayerInv'
<1>1. stage = "loading" /\ UNCHANGED <<heap, out, choiceRead>> /\ out = noRows
      /\ Len(added) <= Len(Data) /\ \A i \in 1 .. Len(added) : added[i].id = Data[i].id
  BY DEF initializeData, PlayerInv, Loading
<1>2. (Merging' /\ Best' /\ Lines') \/ stage' = "merging"
  BY <1>1 DEF Merging, Best, Lines, noRows
<1>3. CASE Len(added) < Len(Data)
  <2> DEFINE n == Len(added) + 1
             d == Data[n]
             p == player(d.id, d.team, d.role, d.stats)
  <2>1. enter(p) /\ UNCHANGED stage
    BY <1>3 DEF initializeData
  <2>2. /\ Data \in Seq([id: PlayerIds, team: Teams, role: Roles, stats: Typed])
        /\ \A i, j \in DOMAIN Data : Data[i].id = Data[j].id => i = j
        /\ added \in Seq(Players)
    BY PlayerAssumption DEF PlayerAssumption, PlayerInv, PlayerTypes
  <2>3. Len(added) \in Nat /\ Len(Data) \in Nat /\ DOMAIN Data = 1 .. Len(Data)
    BY <2>2, LenProperties
  <2>4. n \in 1 .. Len(Data)
    BY <1>3, <2>3
  <2>5. d \in [id: PlayerIds, team: Teams, role: Roles, stats: Typed]
    BY <2>2, <2>4, ElementOfSeq
  <2> HIDE DEF d
  <2>6. p \in Players /\ p.id = d.id
    <3>1. d.id \in PlayerIds /\ d.team \in Teams /\ d.role \in Roles /\ d.stats \in Typed
      BY <2>5
    <3>2. p \in Players
      BY <3>1, PlayerIs
    <3>3. p.id = d.id
      BY DEF player
    <3> QED BY <3>2, <3>3
  <2>7. \A i \in 1 .. Len(added) : added[i].id # p.id
    <3> SUFFICES ASSUME NEW i \in 1 .. Len(added), added[i].id = d.id PROVE FALSE
      BY <2>6
    <3>1. i \in 1 .. Len(Data) /\ Data[i].id = Data[n].id /\ i # n
      BY <1>1, <2>3, <2>4 DEF d
    <3> QED BY <2>2, <2>3, <2>4, <3>1
  <2> HIDE DEF p
  <2>8. /\ PlayerTypes' /\ Tallied' /\ distinctIds(added)' /\ ListsRanked'
        /\ Merging' /\ Best' /\ Lines'
    BY <1>1, <2>1, <2>6, <2>7, PlayerComes
  <2>9. Loading'
    <3>1. added' = Append(added, p)
      BY <2>1 DEF enter
    <3>2. /\ Len(added') = Len(added) + 1 /\ added'[Len(added) + 1] = p
          /\ \A i \in 1 .. Len(added) : added'[i] = added[i]
      BY <2>2, <2>6, <3>1, AppendProperties
    <3>3. Len(added') <= Len(Data)
      BY <1>3, <2>3, <3>2
    <3>4. ASSUME NEW i \in 1 .. Len(added') PROVE added'[i].id = Data[i].id
      <4>1. i \in 1 .. Len(added) \/ i = n
        BY <2>3, <3>2
      <4> QED BY <1>1, <2>6, <3>2, <4>1 DEF d
    <3> QED BY <1>1, <3>3, <3>4 DEF Loading
  <2> QED BY <2>8, <2>9 DEF PlayerInv
<1>4. CASE ~(Len(added) < Len(Data))
  <2>1. stage' = "menu" /\ UNCHANGED <<lists, tally, added>>
    BY <1>4 DEF initializeData
  <2>2. /\ PlayerTypes' /\ Loading' /\ Tallied' /\ distinctIds(added)'
        /\ stage' # "exit" => ListsRanked'
    BY <1>1, <2>1, PlayersRest
  <2> QED BY <1>2, <2>1, <2>2 DEF PlayerInv
<1> QED BY <1>3, <1>4

LEMMA AddKeeps ==
    ASSUME PlayerInv, NEW t \in Teams, NEW id \in PlayerIds, NEW role \in Roles, NEW s \in Stats,
           addPlayer(t, id, role, s)
    PROVE  PlayerInv'
<1>1. stage = "menu" /\ UNCHANGED <<heap, stage>> /\ out' = noRows
  BY DEF addPlayer, command
<1>2. CASE isPlayerIdUnique(id) /\ enter(player(id, t, role, s))
  <2> DEFINE p == player(id, t, role, s)
  <2>1. p \in Players /\ p.id = id
    <3>1. s \in Typed
      BY PlayerAssumption DEF PlayerAssumption
    <3>2. p \in Players
      BY <3>1, PlayerIs
    <3>3. p.id = id
      BY DEF player
    <3> QED BY <3>2, <3>3
  <2> HIDE DEF p
  <2>2. \A i \in 1 .. Len(added) : added[i].id # p.id
    <3> SUFFICES ASSUME NEW i \in 1 .. Len(added), added[i].id = id PROVE FALSE
      BY <2>1
    <3> DEFINE x == added[i]
               l == lists[x.team][x.role]
    <3>1. added \in Seq(Players) /\ ListsRanked
      BY <1>1 DEF PlayerInv, PlayerTypes
    <3>2. x \in Players /\ x \in ToSet(added)
      <4>1. i \in DOMAIN added
        BY <3>1, LenProperties
      <4> QED BY <3>1, <4>1, ElementOfSeq DEF ToSet
    <3>3. x.team \in Teams /\ x.role \in Roles /\ x.id = id
      BY <3>2 DEF Players
    <3> HIDE DEF x
    <3>4. ToSet(l) = {y \in ToSet(added) : y.team = x.team /\ y.role = x.role}
      BY <3>1, <3>3 DEF ListsRanked, ranked
    <3>5. x \in ToSet(l)
      BY <3>2, <3>4
    <3>6. PICK j \in DOMAIN l : x = l[j]
      BY <3>5 DEF ToSet
    <3> QED BY <1>2, <3>3, <3>6 DEF isPlayerIdUnique
  <2>3. /\ PlayerTypes' /\ Tallied' /\ distinctIds(added)' /\ ListsRanked'
        /\ Merging' /\ Best' /\ Lines'
    BY <1>1, <1>2, <2>1, <2>2, PlayerComes DEF p
  <2>4. Loading'
    BY <1>1 DEF Loading
  <2> QED BY <2>3, <2>4 DEF PlayerInv
<1>3. CASE UNCHANGED <<lists, tally, added>>
  <2>1. /\ PlayerTypes' /\ Loading' /\ Tallied' /\ distinctIds(added)'
        /\ stage' # "exit" => ListsRanked'
    BY <1>1, <1>3, PlayersRest
  <2>2. Merging' /\ Best' /\ Lines'
    BY <1>1 DEF Merging, Best, Lines, noRows
  <2> QED BY <2>1, <2>2 DEF PlayerInv
<1> QED BY <1>2, <1>3 DEF addPlayer

\* The displays change what is printed only.
LEMMA ShowKeeps ==
    ASSUME PlayerInv, stage = "menu", UNCHANGED <<lists, tally, heap, stage, added>>,
           out'.kind # "role", Lines'
    PROVE  PlayerInv'
<1>1. /\ PlayerTypes' /\ Loading' /\ Tallied' /\ distinctIds(added)'
      /\ stage' # "exit" => ListsRanked'
  BY PlayersRest
<1>2. Merging' /\ Best'
  BY DEF Merging, Best
<1> QED BY <1>1, <1>2 DEF PlayerInv

LEMMA LastAppended ==
    ASSUME NEW S, NEW q \in Seq(S), NEW x
    PROVE  Last(q \o <<x>>) = x
<1> DEFINE T == S \cup {x}
           one == <<x>>
<1>1. q \in Seq(T) /\ one \in Seq(T) /\ Len(one) = 1 /\ one[1] = x
  OBVIOUS
<1> HIDE DEF one, T
<1>2. Len(q) \in Nat
  BY LenProperties
<1>0. /\ Len(q \o one) = Len(q) + Len(one)
      /\ \A i \in 1 .. Len(q) + Len(one) : (q \o one)[i] = IF i <= Len(q) THEN q[i] ELSE one[i - Len(q)]
  BY ONLY <1>1, ConcatProperties
<1>3. (q \o one)[Len(q) + 1] = one[1]
  BY <1>0, <1>1, <1>2
<1>4. Last(q \o one) = x
  BY <1>0, <1>1, <1>2, <1>3 DEF Last
<1> QED BY <1>4 DEF one

LEMMA TeamKeeps == ASSUME PlayerInv, NEW t \in Teams, displayTeamPlayers(t) PROVE PlayerInv'
<1>1. /\ stage = "menu" /\ UNCHANGED <<lists, tally, heap, stage, added>>
      /\ out' = [kind |-> "team", role |-> "none",
                 rows |-> lists[t]["Batsman"] \o lists[t]["Bowler"]
                          \o lists[t]["All-rounder"] \o <<teamLine(t)>>]
  BY DEF displayTeamPlayers, command
<1> DEFINE q == lists[t]["Batsman"] \o lists[t]["Bowler"] \o lists[t]["All-rounder"]
<1>2. q \in Seq(Players)
  <2>1. \A role \in Roles : lists[t][role] \in Seq(Players)
    BY DEF PlayerInv, PlayerTypes
  <2>2. /\ lists[t]["Batsman"] \in Seq(Players) /\ lists[t]["Bowler"] \in Seq(Players)
        /\ lists[t]["All-rounder"] \in Seq(Players)
    BY <2>1 DEF Roles
  <2> QED BY <2>2, ConcatProperties
<1>3. Last(q \o <<teamLine(t)>>) = teamLine(t)
  <2> HIDE DEF q
  <2> QED BY <1>2, LastAppended
<1>4. out'.kind = "team" /\ Last(out'.rows) = teamLine(t)
  BY <1>1, <1>3
<1>5. Lines'
  <2>1. teamLine(t)' = teamLine(t)
    BY <1>1 DEF teamLine, avgStrikeRate
  <2>2. \E u \in Teams : Last(out'.rows) = teamLine(u)'
    BY <1>4, <2>1
  <2>3. out'.kind # "teams"
    BY <1>4
  <2> QED BY <2>2, <2>3 DEF Lines
<1> QED BY <1>1, <1>4, <1>5, ShowKeeps

LEMMA TableKeeps == ASSUME PlayerInv, displayTeamsByAvgStrikeRate PROVE PlayerInv'
<1>1. stage = "menu" /\ UNCHANGED <<lists, tally, heap, stage, added>>
  BY DEF displayTeamsByAvgStrikeRate, command
<1>2. PICK order \in Orders :
        /\ qsorted(order)
        /\ out' = [kind |-> "teams", role |-> "none", rows |-> [i \in Teams |-> teamLine(order[i])]]
  BY DEF displayTeamsByAvgStrikeRate
<1>3. /\ \A t : teamLine(t)' = teamLine(t)
      /\ qsorted(order)'
  BY <1>1, <1>2 DEF teamLine, avgStrikeRate, qsorted, compareTeams
<1>4. out'.kind = "teams" /\ out'.rows = [i \in Teams |-> teamLine(order[i])']
  BY <1>2, <1>3
<1>5. Lines'
  <2>1. Orders' = Orders
    BY DEF Orders
  <2>2. \E o \in Orders : qsorted(o)' /\ out'.rows = [i \in Teams |-> teamLine(o[i])']
    BY <1>3, <1>4
  <2> QED BY <1>4, <2>2 DEF Lines
<1> QED BY <1>1, <1>4, <1>5, ShowKeeps

LEMMA TopKeeps ==
    ASSUME PlayerInv, NEW t \in Teams, NEW role \in Roles, NEW k \in Ks, displayTopKPlayers(t, role, k)
    PROVE  PlayerInv'
<1>1. stage = "menu" /\ UNCHANGED <<lists, tally, heap, stage, added>> /\ out'.kind = "top"
  BY DEF displayTopKPlayers, command
<1>2. Lines'
  BY <1>1 DEF Lines
<1> QED BY <1>1, <1>2, ShowKeeps

LEMMA RoleKeeps ==
    ASSUME PlayerInv, NEW role \in Roles, displayAllPlayersByRole(role)
    PROVE  PlayerInv'
<1>1. /\ stage = "menu" /\ UNCHANGED <<lists, tally, added>> /\ heap' = heapOfHeads(role)
      /\ out' = [kind |-> "role", role |-> role, rows |-> <<>>] /\ stage' = "merging"
  BY DEF displayAllPlayersByRole, command
<1>2. /\ PlayerTypes' /\ Loading' /\ Tallied' /\ distinctIds(added)'
      /\ stage' # "exit" => ListsRanked'
  BY <1>1, PlayersRest
<1>3. PlayerTypes /\ ListsRanked
  BY <1>1 DEF PlayerInv
<1>4. /\ heapOfHeads(role) \in Seq(Players) /\ (ofRole(role) => heapOrdered(heapOfHeads(role), 1))
      /\ merged(<<>>, heapOfHeads(role), role)
  BY <1>3, HeadsEnter, MergeStarts DEF ofRole
<1>5. heap' = heapOfHeads(role) /\ out'.kind = "role" /\ out'.role = role /\ out'.rows = <<>>
  BY <1>1
<1> HIDE DEF heapOfHeads
<1>6. Merging'
  BY <1>1, <1>4, <1>5 DEF Merging, merged, left
<1>7. Best'
  <2>1. /\ out'.kind = "role" /\ out'.role = role /\ out'.rows = <<>>
        /\ out' \in [kind: {"role"}, role: Roles, rows: Seq(Players)]
    BY <1>1
  <2>2. 1 .. Len(<<>>) - 1 = {}
    OBVIOUS
  <2>3. ofRole(role)' => heapOrdered(heap', 1)
    BY <1>1, <1>4 DEF ofRole
  <2> QED BY <2>1, <2>2, <2>3 DEF Best, ofRole
<1>8. Lines'
  BY <1>1 DEF Lines
<1> QED BY <1>2, <1>6, <1>7, <1>8 DEF PlayerInv

LEMMA PrintKeeps == ASSUME PlayerInv, printBest PROVE PlayerInv'
<1> DEFINE role == out.role
           rows == out.rows
           q == Append(rows, heap[1])
           g == nextPlayer(heapExtractMax(heap), heap[1])
<1>1. /\ stage = "merging" /\ heap # <<>> /\ out' = [out EXCEPT !.rows = q] /\ heap' = g
      /\ UNCHANGED <<lists, tally, stage, choiceRead, added>>
  BY DEF printBest
<1>2. /\ PlayerTypes /\ ListsRanked
      /\ out.kind = "role" /\ heap \in Seq(Players) /\ merged(rows, heap, role)
      /\ role \in Roles /\ rows \in Seq(Players)
      /\ ofRole(role) =>
             /\ \A i \in 1 .. Len(rows) - 1 : rows[i].pi >= rows[i + 1].pi
             /\ heapOrdered(heap, 1)
             /\ rows # <<>> => \A x \in ToSet(heap) : x.pi <= Last(rows).pi
  BY <1>1 DEF PlayerInv, Merging, Best
<1>3. /\ PlayerTypes' /\ Loading' /\ Tallied' /\ distinctIds(added)'
      /\ stage' # "exit" => ListsRanked'
  BY <1>1, PlayersRest
<1>4. /\ g \in Seq(Players) /\ merged(q, g, role)
      /\ ofRole(role) /\ heapOrdered(heap, 1) =>
           /\ heapOrdered(g, 1)
           /\ \A x \in ToSet(g) : x.pi <= heap[1].pi
  <2> HIDE DEF role, rows
  <2> QED BY <1>1, <1>2, PrintKeepsPlace
<1>5. /\ heap[1] \in Players /\ heap[1] \in ToSet(heap)
      /\ q \in Seq(Players) /\ Len(q) = Len(rows) + 1 /\ q[Len(rows) + 1] = heap[1]
      /\ \A i \in 1 .. Len(rows) : q[i] = rows[i]
      /\ Len(rows) \in Nat
  <2>1. 1 \in DOMAIN heap /\ heap[1] \in Players
    BY <1>1, <1>2, EmptySeq, LenProperties, ElementOfSeq
  <2>2. heap[1] \in ToSet(heap)
    BY <2>1 DEF ToSet
  <2> HIDE DEF rows
  <2> QED BY <1>2, <2>1, <2>2, AppendProperties, LenProperties
<1>6. Last(q) = heap[1] /\ q # <<>>
  <2> HIDE DEF q, rows
  <2> QED BY <1>5, EmptySeq DEF Last
<1> HIDE DEF q, g
<1>7. /\ out'.kind = "role" /\ out'.role = role /\ out'.rows = q
      /\ out' \in [kind: {"role"}, role: Roles, rows: Seq(Players)]
  <2>1. out \in [kind: {"role"}, role: Roles, rows: Seq(Players)]
    BY <1>1, <1>2 DEF PlayerInv, Best
  <2> QED BY <1>1, <1>5, <2>1
<1>8. Merging'
  BY <1>1, <1>4, <1>7 DEF Merging, merged, left
<1>9. Best'
  <2> SUFFICES ASSUME ofRole(role)
               PROVE  /\ \A i \in 1 .. Len(q) - 1 : q[i].pi >= q[i + 1].pi
                      /\ heapOrdered(g, 1) /\ \A x \in ToSet(g) : x.pi <= Last(q).pi
    BY <1>1, <1>7 DEF Best, ofRole
  <2>1. heapOrdered(g, 1) /\ \A x \in ToSet(g) : x.pi <= Last(q).pi
    BY <1>2, <1>4, <1>6
  <2>2. ASSUME NEW i \in 1 .. Len(q) - 1 PROVE q[i].pi >= q[i + 1].pi
    <3>1. CASE i = Len(rows)
      <4>1. rows # <<>> /\ Last(rows) = rows[i] /\ q[i] = rows[i] /\ q[i + 1] = heap[1]
        BY <1>2, <1>5, <2>2, <3>1, EmptySeq DEF Last
      <4>2. heap[1].pi <= rows[i].pi
        BY <1>2, <1>5, <4>1
      <4> QED BY <1>5, <4>1, <4>2
    <3>2. CASE i # Len(rows)
      <4>1. i \in 1 .. Len(rows) - 1 /\ i \in 1 .. Len(rows) /\ i + 1 \in 1 .. Len(rows)
        BY <1>5, <2>2, <3>2
      <4> QED BY <1>2, <1>5, <4>1
    <3> QED BY <3>1, <3>2
  <2> QED BY <2>1, <2>2
<1>10. Lines'
  BY <1>7 DEF Lines
<1> QED BY <1>3, <1>8, <1>9, <1>10 DEF PlayerInv

LEMMA LinesRest == ASSUME Lines, UNCHANGED <<tally, out>> PROVE Lines'
<1>1. \A t : teamLine(t)' = teamLine(t)
  BY DEF teamLine, avgStrikeRate
<1>2. \A order : qsorted(order)' <=> qsorted(order)
  BY DEF qsorted, compareTeams, avgStrikeRate
<1> HIDE DEF teamLine, qsorted
<1>3. out'.kind = "team" => \E t \in Teams : Last(out'.rows) = teamLine(t)'
  BY <1>1 DEF Lines
<1>4. ASSUME out'.kind = "teams"
      PROVE  \E order \in Orders : qsorted(order)' /\ out'.rows = [i \in Teams |-> teamLine(order[i])']
  <2>1. PICK order \in Orders : qsorted(order) /\ out.rows = [i \in Teams |-> teamLine(order[i])]
    BY <1>4 DEF Lines
  <2>2. [i \in Teams |-> teamLine(order[i])] = [i \in Teams |-> teamLine(order[i])']
    BY <1>1
  <2>3. out'.rows = [i \in Teams |-> teamLine(order[i])']
    BY <2>1, <2>2
  <2> QED BY <1>2, <2>1, <2>3
<1> QED BY <1>3, <1>4 DEF Lines

LEMMA EndKeeps == ASSUME PlayerInv, endMerge PROVE PlayerInv'
<1>1. /\ stage = "merging" /\ stage' = "menu"
      /\ UNCHANGED <<lists, tally, heap, out, choiceRead, added>>
  BY DEF endMerge
<1>2. /\ PlayerTypes' /\ Loading' /\ Tallied' /\ distinctIds(added)'
      /\ stage' # "exit" => ListsRanked'
  BY <1>1, PlayersRest
<1>3. Merging' /\ Best'
  BY <1>1 DEF PlayerInv, Merging, Best, ofRole
<1>4. Lines'
  BY <1>1, LinesRest DEF PlayerInv
<1> QED BY <1>2, <1>3, <1>4 DEF PlayerInv

LEMMA CleanupKeeps == ASSUME PlayerInv, stage = "menu", cleanupMemory PROVE PlayerInv'
<1>1. /\ lists' = [t \in Teams |-> [role \in Roles |-> <<>>]] /\ stage' = "exit"
      /\ UNCHANGED <<tally, heap, out, added>>
  BY DEF cleanupMemory
<1>2. PlayerTypes'
  <2>1. <<>> \in Seq(Players)
    OBVIOUS
  <2> QED BY <1>1, <2>1 DEF PlayerInv, PlayerTypes
<1>3. Loading' /\ Tallied' /\ distinctIds(added)' /\ (stage' # "exit" => ListsRanked')
  BY <1>1 DEF PlayerInv, Loading, Tallied
<1>4. Merging' /\ Best'
  BY <1>1 DEF PlayerInv, Merging, Best, ofRole
<1>5. Lines'
  BY <1>1, LinesRest DEF PlayerInv
<1> QED BY <1>2, <1>3, <1>4, <1>5 DEF PlayerInv

LEMMA PlayersKeep == PlayerInv /\ [PlayerNext]_playerVars => PlayerInv'
<1> SUFFICES ASSUME PlayerInv, [PlayerNext]_playerVars PROVE PlayerInv'
  OBVIOUS
<1>1. CASE initializeData
  BY <1>1, LoadKeeps
<1>2. ASSUME NEW t \in Teams, NEW id \in PlayerIds, NEW role \in Roles, NEW s \in Stats,
             addPlayer(t, id, role, s)
      PROVE  PlayerInv'
  BY <1>2, AddKeeps
<1>3. ASSUME NEW t \in Teams, displayTeamPlayers(t) PROVE PlayerInv'
  BY <1>3, TeamKeeps
<1>4. CASE displayTeamsByAvgStrikeRate
  BY <1>4, TableKeeps
<1>5. ASSUME NEW t \in Teams, NEW role \in Roles, NEW k \in Ks, displayTopKPlayers(t, role, k)
      PROVE  PlayerInv'
  BY <1>5, TopKeeps
<1>6. ASSUME NEW role \in Roles, displayAllPlayersByRole(role) PROVE PlayerInv'
  BY <1>6, RoleKeeps
<1>7. CASE printBest
  BY <1>7, PrintKeeps
<1>8. CASE endMerge
  BY <1>8, EndKeeps
<1>9. CASE badChoice
  BY <1>9, CleanupKeeps DEF badChoice
<1>10. CASE exit
  BY <1>10, CleanupKeeps DEF exit, command
<1>11. CASE UNCHANGED playerVars
  <2>1. UNCHANGED <<lists, tally, heap, out, stage, choiceRead, added>>
    BY <1>11 DEF playerVars
  <2>2. /\ PlayerTypes' /\ Loading' /\ Tallied' /\ distinctIds(added)'
        /\ stage' # "exit" => ListsRanked'
    <3>1. stage' \in {"loading", "menu", "merging", "exit"} /\ (stage' = "loading" => out' = noRows)
      BY <2>1 DEF PlayerInv, PlayerTypes, Loading
    <3> QED BY <2>1, <3>1, PlayersRest
  <2>3. Merging' /\ Best'
    BY <2>1 DEF PlayerInv, Merging, Best, ofRole, merged, left
  <2>4. Lines'
    BY <2>1, LinesRest DEF PlayerInv
  <2> QED BY <2>2, <2>3, <2>4 DEF PlayerInv
<1> QED BY <1>1, <1>2, <1>3, <1>4, <1>5, <1>6, <1>7, <1>8, <1>9, <1>10, <1>11 DEF PlayerNext

LEMMA OrderIsAll ==
    ASSUME NEW order \in Orders
    PROVE  order \in [Teams -> Teams] /\ {order[i] : i \in Teams} = Teams
<1> DEFINE n == NUM_OF_TEAMS
<1>1. n \in Nat /\ Teams = 1 .. n /\ IsFiniteSet(Teams) /\ Cardinality(Teams) = n
  <2>1. n \in Nat /\ Teams = 1 .. n
    BY PlayerAssumption DEF PlayerAssumption, Teams
  <2> QED BY <2>1, FS_Interval
<1> HIDE DEF n
<1>2. order \in [1 .. n -> Teams] /\ \A i, j \in 1 .. n : i # j => order[i] # order[j]
  BY <1>1 DEF Orders, SetToSeqs
<1>3. order \in Seq(Teams) /\ Len(order) = n /\ DOMAIN order = 1 .. n
  BY <1>1, <1>2
<1>4. Different(order)
  BY <1>2, <1>3 DEF Different
<1>5. IsFiniteSet(ToSet(order)) /\ Cardinality(ToSet(order)) = n
  BY <1>1, <1>3, <1>4, NotTooLong
<1>6. ToSet(order) = {order[i] : i \in Teams} /\ ToSet(order) \subseteq Teams
  BY <1>1, <1>2, <1>3 DEF ToSet
<1>7. ToSet(order) = Teams
  BY <1>1, <1>5, <1>6, FS_Subset
<1> QED BY <1>1, <1>2, <1>6, <1>7

\* The line of a team tells what has been added.
avg(t) == IF batters(t) = {} THEN <<0, 1>> ELSE <<sumOfRates(t), Cardinality(batters(t))>>

LEMMA LineIs ==
    ASSUME PlayerInv, NEW t \in Teams
    PROVE  /\ teamLine(t) = [team |-> t, avg |-> avg(t), total |-> Cardinality(members(t))]
           /\ avgStrikeRate(t) = avg(t) /\ tally[t].srSum = sumOfRates(t)
           /\ sumOfRates(t) \in NumbersOrNaN /\ Cardinality(batters(t)) \in Nat
<1>1. /\ added \in Seq(Players) /\ Tallied
      /\ tally \in [Teams -> [players: Nat, batting: Nat, srSum: NumbersOrNaN]]
  BY DEF PlayerInv, PlayerTypes
<1>2. members(t) = membersOf(added, t) /\ batters(t) = battersOf(added, t)
  BY DEF members, batters, membersOf, battersOf
<1>3. sumOfRates(t) = rates(added, t)
  BY <1>2 DEF sumOfRates, rates
<1>4. /\ tally[t].players = Cardinality(members(t)) /\ tally[t].batting = Cardinality(batters(t))
      /\ tally[t].srSum = sumOfRates(t)
  BY <1>1, <1>2, <1>3 DEF Tallied
<1>5. tally[t].srSum \in NumbersOrNaN
  BY <1>1
<1>6. Cardinality(batters(t)) \in Nat /\ (batters(t) = {} <=> Cardinality(batters(t)) = 0)
  <2>0. Len(added) \in Nat /\ DOMAIN added = 1 .. Len(added)
    BY <1>1, LenProperties
  <2>1. batters(t) \subseteq 1 .. Len(added) /\ IsFiniteSet(1 .. Len(added))
    BY <2>0, FS_Interval DEF batters, members
  <2>2. IsFiniteSet(batters(t))
    BY <2>1, FS_Subset
  <2> QED BY <2>2, FS_EmptySet, FS_CardinalityType
<1>7. avgStrikeRate(t) = avg(t)
  <2>1. tally[t].batting > 0 <=> batters(t) # {}
    BY <1>4, <1>6
  <2> QED BY <1>4, <2>1 DEF avgStrikeRate, avg
<1> QED BY <1>4, <1>5, <1>6, <1>7 DEF teamLine

LEMMA TableHolds == PlayerInv => TeamTable
<1> SUFFICES ASSUME PlayerInv PROVE TeamTable
  OBVIOUS
<1> DEFINE rows == IF out.kind = "teams" THEN out.rows
                   ELSE IF out.kind = "team" THEN <<Last(out.rows)>> ELSE <<>>
           right(r) == r.total = Cardinality(members(r.team)) /\ r.avg = avg(r.team)
<1>1. /\ Lines /\ NUM_OF_TEAMS \in Nat /\ Teams = 1 .. NUM_OF_TEAMS
  BY PlayerAssumption DEF PlayerInv, PlayerAssumption, Teams
<1>2. \A t \in Teams : right(teamLine(t)) /\ teamLine(t).team = t /\ teamLine(t).avg = avgStrikeRate(t)
  <2> SUFFICES ASSUME NEW t \in Teams
               PROVE  right(teamLine(t)) /\ teamLine(t).team = t /\ teamLine(t).avg = avgStrikeRate(t)
    OBVIOUS
  <2>1. /\ teamLine(t) = [team |-> t, avg |-> avg(t), total |-> Cardinality(members(t))]
        /\ avgStrikeRate(t) = avg(t)
    BY LineIs
  <2> QED BY <2>1
<1> HIDE DEF right
<1>3. CASE out.kind = "team"
  <2>1. PICK t \in Teams : Last(out.rows) = teamLine(t)
    BY <1>1, <1>3 DEF Lines
  <2>2. rows = <<teamLine(t)>> /\ DOMAIN rows = {1} /\ rows[1] = teamLine(t)
    BY <1>3, <2>1
  <2>3. \A i \in DOMAIN rows : right(rows[i])
    BY <1>2, <2>2
  <2> HIDE DEF rows
  <2> QED BY <1>3, <2>3 DEF TeamTable, right, avg, rows
<1>4. CASE out.kind = "teams"
  <2>1. PICK order \in Orders : qsorted(order) /\ out.rows = [i \in Teams |-> teamLine(order[i])]
    BY <1>1, <1>4 DEF Lines
  <2>2. order \in [Teams -> Teams] /\ {order[i] : i \in Teams} = Teams
    BY OrderIsAll
  <2>3. DOMAIN rows = Teams /\ \A i \in Teams : rows[i] = teamLine(order[i]) /\ order[i] \in Teams
    BY <1>4, <2>1, <2>2
  <2> HIDE DEF rows
  <2>4. \A i \in DOMAIN rows : right(rows[i]) /\ rows[i].team = order[i]
                              /\ rows[i].avg = avgStrikeRate(order[i])
    BY <1>2, <2>3
  <2>5. {rows[i].team : i \in DOMAIN rows} = Teams
    BY <2>2, <2>3, <2>4
  <2>6. ASSUME \A t \in Teams : sumOfRates(t) # NaN, NEW i \in 1 .. NUM_OF_TEAMS - 1
        PROVE  rows[i].avg[1] * rows[i + 1].avg[2] >= rows[i + 1].avg[1] * rows[i].avg[2]
    <3> DEFINE x == order[i]
               y == order[i + 1]
    <3>1. i \in Teams /\ i + 1 \in Teams /\ x \in Teams /\ y \in Teams
      BY <1>1, <2>2
    <3>2. \A t \in Teams : tally[t].srSum # NaN
      BY <2>6, LineIs
    <3>3. ~compareTeams(x, y)
      BY <2>1, <2>6, <3>2 DEF qsorted
    <3>4. \A t \in Teams : /\ avgStrikeRate(t) = <<avgStrikeRate(t)[1], avgStrikeRate(t)[2]>>
                          /\ avgStrikeRate(t)[1] \in Int /\ avgStrikeRate(t)[2] \in Int
      <4> SUFFICES ASSUME NEW t \in Teams
                   PROVE  /\ avg(t) = <<avg(t)[1], avg(t)[2]>> /\ avg(t)[1] \in Int /\ avg(t)[2] \in Int
        BY LineIs
      <4>1. sumOfRates(t) \in Int /\ Cardinality(batters(t)) \in Int
        BY <2>6, LineIs DEF NumbersOrNaN
      <4> QED BY <4>1 DEF avg
    <3> DEFINE a == avgStrikeRate(x)
               b == avgStrikeRate(y)
    <3>5. a[1] \in Int /\ a[2] \in Int /\ b[1] \in Int /\ b[2] \in Int
      BY <3>1, <3>4
    <3>6. ~gt(times(b[1], a[2]), times(a[1], b[2]))
      BY <3>3 DEF compareTeams
    <3> HIDE DEF a, b
    <3>7. times(b[1], a[2]) = b[1] * a[2] /\ times(a[1], b[2]) = a[1] * b[2]
      BY <3>5, PlayerAssumption DEF times, PlayerAssumption
    <3>8. b[1] * a[2] \in Int /\ a[1] * b[2] \in Int
      BY <3>5
    <3>9. a[1] * b[2] >= b[1] * a[2]
      <4> DEFINE u == b[1] * a[2]
                 v == a[1] * b[2]
      <4>1. u \in Int /\ v \in Int /\ ~gt(u, v)
        BY <3>6, <3>7, <3>8
      <4> HIDE DEF u, v
      <4>2. v >= u
        BY <4>1, PlayerAssumption DEF gt, PlayerAssumption
      <4> QED BY <4>2 DEF u, v
    <3>10. rows[i].avg = a /\ rows[i + 1].avg = b
      BY <2>3, <2>4, <3>1 DEF a, b
    <3> QED BY <3>9, <3>10
  <2> QED BY <1>4, <2>4, <2>5, <2>6 DEF TeamTable, right, avg, rows
<1>5. CASE out.kind # "team" /\ out.kind # "teams"
  <2>1. rows = <<>> /\ DOMAIN rows = {}
    BY <1>5
  <2> HIDE DEF rows
  <2> QED BY <1>5, <2>1 DEF TeamTable, rows
<1> QED BY <1>3, <1>4, <1>5

\* The analyzer keeps every player on the list of its team and role, ids and
\* places unique, in falling order.
THEOREM RankingCorrect == PlayerSpec => []RankedLists
<1>1. PlayerInv => RankedLists
  BY RankedAre DEF PlayerInv
<1> QED BY <1>1, PlayersStart, PlayersKeep, PTL DEF PlayerSpec

\* The display of a role prints the beginning of each list, and the heap holds
\* the next of each.
THEOREM MergeCorrect == PlayerSpec => []MergeKeepsPlace
<1>1. PlayerInv => MergeKeepsPlace
  BY MergedAre DEF PlayerInv, Merging
<1> QED BY <1>1, PlayersStart, PlayersKeep, PTL DEF PlayerSpec

\* It prints the best player first.
THEOREM BestCorrect == PlayerSpec => []BestFirst
<1>1. PlayerInv => BestFirst
  BY DEF PlayerInv, Best, BestFirst, ofRole
<1> QED BY <1>1, PlayersStart, PlayersKeep, PTL DEF PlayerSpec

\* What is printed of the teams is true of the players added.
THEOREM TableCorrect == PlayerSpec => []TeamTable
BY TableHolds, PlayersStart, PlayersKeep, PTL DEF PlayerSpec

=============================================================================
