---------------------------- MODULE ProcessProofs ----------------------------
(* Theorems about the programs of several processes.  The bank server: its   *)
(* threads never compute with a stale balance, never overdraw the account,   *)
(* make what users asked for, and implement one ledger, for any number of    *)
(* connections, amounts, requests and crashes.  The sort demonstrations: the *)
(* parent prints its array sorted, and never reads it half done.             *)
EXTENDS AtmProperties, IpcSort, ProofBasics

\* NoStaleBalance is inductive once a connection that has not been made is known
\* to have no thread, and the functions that the actions update to be defined on
\* all connections.
MutexInv ==
    /\ DOMAIN user = Connections
    /\ DOMAIN pc = Connections
    /\ DOMAIN current_balance = Connections
    /\ \A k \in Connections : user[k] = "new" => pc[k] = "none"
    /\ NoStaleBalance

\* Nobody is inside before the first connection.
LEMMA MutexInit == Init => MutexInv
BY AtmAssumption DEF Init, MutexInv, NoStaleBalance, inside, AtmAssumption

\* A step of a client leaves the threads, the mutex and the file alone, but for
\* the start of a thread, which begins outside.
LEMMA ClientKeepsMutex ==
    ASSUME MutexInv, NEW k \in Connections, client(k)
    PROVE  MutexInv'
<1>1. CASE Connect(k)
  BY <1>1, AtmAssumption
  DEF Connect, goto, MutexInv, NoStaleBalance, inside, contents, AtmAssumption
<1>2. ASSUME UNCHANGED <<threadVars, file_mutex, file>>,
             user[k] # "new",
             NEW s, s # "new", user' = [user EXCEPT ![k] = s]
      PROVE  MutexInv'
  BY <1>2 DEF threadVars, MutexInv, NoStaleBalance, contents
<1>3. CASE Receive(k)
  BY <1>2, <1>3 DEF Receive
<1>4. CASE Leave(k)
  BY <1>2, <1>4 DEF Leave
<1>5. ASSUME NEW c \in SentChoices, Choose(k, c) PROVE MutexInv'
  <2> DEFINE next == CASE c = 1 -> "withdraw" [] c = 2 -> "deposit"
                       [] c = 3 -> "await"    [] OTHER -> "menu"
  <2>1. next # "new"
    BY <1>5 DEF SentChoices
  <2>2. user' = [user EXCEPT ![k] = next] /\ user[k] # "new"
        /\ UNCHANGED <<threadVars, file_mutex, file>>
    BY <1>5 DEF Choose
  <2> HIDE DEF next
  <2> QED BY <1>2, <2>1, <2>2
<1>6. ASSUME NEW a \in Amounts \cup Garbage, EnterAmount(k, a) PROVE MutexInv'
  BY <1>2, <1>6 DEF EnterAmount
<1>7. CASE Jam(k)
  BY <1>7 DEF Jam, threadVars, MutexInv, NoStaleBalance, contents
<1> QED BY <1>1, <1>3, <1>4, <1>5, <1>6, <1>7 DEF client

\* The thread that enters finds nobody inside; the one inside is the only one
\* that can change the file, and afterwards it is not about to use what it read.
LEMMA HandlerKeepsMutex ==
    ASSUME MutexInv, NEW k \in Connections, client_handler(k)
    PROVE  MutexInv'
<1> USE AtmAssumption DEF AtmAssumption, MutexInv, NoStaleBalance, inside, contents, goto,
             clientVars
<1>1. CASE recvChoice(k)
  BY <1>1 DEF recvChoice
<1>2. CASE hangUp(k)
  BY <1>2 DEF hangUp
<1>3. CASE lock(k)
  BY <1>3 DEF lock
<1>4. CASE read_balance(k)
  BY <1>4 DEF read_balance
<1>5. CASE recvAmount(k)
  BY <1>5 DEF recvAmount, decide
<1>6. CASE openFile(k)
  BY <1>6 DEF openFile
<1>7. CASE writeFile(k)
  BY <1>7 DEF writeFile
<1>8. CASE sendReply(k)
  BY <1>8 DEF sendReply
<1>9. CASE unlock(k)
  BY <1>9 DEF unlock
<1> QED BY <1>1, <1>2, <1>3, <1>4, <1>5, <1>6, <1>7, <1>8, <1>9 DEF client_handler

\* A crash ends every thread.
LEMMA CrashKeepsMutex == ASSUME MutexInv, Crash PROVE MutexInv'
BY AtmAssumption DEF Crash, MutexInv, NoStaleBalance, inside, AtmAssumption

\* So every step keeps it.
LEMMA NextKeepsMutex == ASSUME MutexInv, [Next]_vars PROVE MutexInv'
<1>1. CASE Crash
  BY <1>1, CrashKeepsMutex
<1>2. CASE \E k \in Connections : client(k) \/ client_handler(k)
  BY <1>2, ClientKeepsMutex, HandlerKeepsMutex
<1>3. CASE UNCHANGED vars
  BY <1>3 DEF vars, clientVars, threadVars, MutexInv, NoStaleBalance, contents
<1> QED BY <1>1, <1>2, <1>3 DEF Next

\* No thread ever computes with a balance that another one has changed since,
\* and at most one is between lock and unlock: updates cannot be lost to the
\* interleaving of client_handler threads, however many there are.
THEOREM NoStaleBalanceCorrect == Spec => []NoStaleBalance
<1>1. Init => MutexInv
  BY MutexInit
<1>2. MutexInv /\ [Next]_vars => MutexInv'
  BY NextKeepsMutex
<1>3. MutexInv => NoStaleBalance
  BY DEF MutexInv
<1> QED BY <1>1, <1>2, <1>3, PTL DEF Spec

-----------------------------------------------------------------------------
(* The numbers a float holds.                                                *)

\* What the recursive definition of pow2 says.
LEMMA Pow2Unfolds ==
    /\ pow2 \in [Nat -> Nat]
    /\ pow2[0] = 1
    /\ \A n \in Nat : pow2[n + 1] = 2 * pow2[n]
<1> DEFINE G == [p \in Nat \X Nat |-> 2 * p[2]]
           body(f) == [n \in Nat |-> IF n = 0 THEN 1 ELSE 2 * f[n - 1]]
<1>1. G \in [Nat \X Nat -> Nat]
  OBVIOUS
<1>2. \A n, v \in Nat : G[<<n, v>>] = 2 * v
  OBVIOUS
<1> HIDE DEF G
<1>3. PICK f \in [Nat -> Nat] : recurs(f, 1, G)
  BY <1>1, RecursiveFunction
<1>4. f = body(f)
  <2>1. ASSUME NEW n \in Nat PROVE f[n] = body(f)[n]
    <3>1. CASE n = 0
      BY <1>3, <3>1 DEF recurs
    <3>2. CASE n # 0
      <4>1. n - 1 \in Nat /\ (n - 1) + 1 = n
        BY <3>2
      <4>2. f[n] = G[<<n - 1, f[n - 1]>>]
        BY <1>3, <4>1 DEF recurs
      <4> QED BY <1>2, <3>2, <4>1, <4>2
    <3> QED BY <3>1, <3>2
  <2> HIDE DEF body
  <2>2. body(f) \in [Nat -> {body(f)[n] : n \in Nat}]
    BY DEF body
  <2> QED BY <2>1, <2>2
<1> HIDE DEF body
<1>5. \E g : g = body(g)
  BY <1>4
<1>6. pow2 = body(pow2)
  <2>1. pow2 = CHOOSE g : g = body(g)
    BY DEF pow2, body
  <2> QED BY <1>5, <2>1
<1>7. \A n \in Nat : pow2[n] = IF n = 0 THEN 1 ELSE 2 * pow2[n - 1]
  <2> SUFFICES ASSUME NEW n \in Nat
               PROVE  pow2[n] = IF n = 0 THEN 1 ELSE 2 * pow2[n - 1]
    OBVIOUS
  <2>1. body(pow2)[n] = IF n = 0 THEN 1 ELSE 2 * pow2[n - 1]
    BY DEF body
  <2> QED BY <1>6, <2>1
<1>8. pow2[0] = 1
  BY <1>7
<1>9. \A n \in Nat : pow2[n + 1] = 2 * pow2[n]
  <2> TAKE n \in Nat
  <2>1. n + 1 \in Nat /\ n + 1 # 0 /\ (n + 1) - 1 = n
    OBVIOUS
  <2> QED BY <1>7, <2>1
<1>10. \A n \in Nat : pow2[n] \in Nat
  <2> DEFINE T == {n \in Nat : pow2[n] \in Nat}
  <2>1. 0 \in T /\ \A n \in Nat : n \in T => n + 1 \in T
    BY <1>8, <1>9
  <2> HIDE DEF T
  <2>2. Nat \subseteq T
    BY <2>1, InductiveSet
  <2> QED BY <2>2 DEF T
<1>11. pow2 = [n \in Nat |-> pow2[n]]
  <2>1. body(pow2) = [n \in Nat |-> body(pow2)[n]]
    BY DEF body
  <2> QED BY <1>6, <2>1
<1> QED BY <1>8, <1>9, <1>10, <1>11

\* pow2 grows faster than its argument, ...
LEMMA Pow2Exceeds == \A n \in Nat : pow2[n] \in Nat /\ n < pow2[n]
<1> DEFINE T == {n \in Nat : n < pow2[n]}
<1>1. \A n \in Nat : pow2[n] \in Nat
  BY Pow2Unfolds
<1>2. 0 \in T
  BY Pow2Unfolds
<1>3. ASSUME NEW n \in Nat, n \in T PROVE n + 1 \in T
  <2>1. pow2[n + 1] = 2 * pow2[n] /\ n < pow2[n] /\ pow2[n] \in Nat
    BY <1>1, <1>3, Pow2Unfolds
  <2>2. n + 1 < pow2[n + 1]
    BY <2>1
  <2> QED BY <2>2
<1> HIDE DEF T
<1>4. Nat \subseteq T
  BY <1>2, <1>3, InductiveSet
<1> QED BY <1>1, <1>4 DEF T

\* ... and with it.
LEMMA Pow2Grows ==
    ASSUME NEW n \in Nat, NEW d \in Nat
    PROVE  pow2[n] <= pow2[n + d]
<1> DEFINE T == {i \in Nat : pow2[n] <= pow2[n + i]}
<1>1. 0 \in T
  <2>1. pow2[n] \in Nat /\ n + 0 = n
    BY Pow2Exceeds
  <2> QED BY <2>1
<1>2. ASSUME NEW i \in Nat, i \in T PROVE i + 1 \in T
  <2>1. n + i \in Nat /\ n + (i + 1) = (n + i) + 1
    OBVIOUS
  <2>2. pow2[n + (i + 1)] = 2 * pow2[n + i]
    BY <2>1, Pow2Unfolds
  <2>3. pow2[n] \in Nat /\ pow2[n + i] \in Nat /\ pow2[n] <= pow2[n + i]
    BY <1>2, <2>1, Pow2Exceeds
  <2>4. pow2[n] <= pow2[n + (i + 1)]
    BY <2>2, <2>3
  <2> QED BY <2>4
<1> HIDE DEF T
<1>3. Nat \subseteq T
  BY <1>1, <1>2, InductiveSet
<1> QED BY <1>3 DEF T

\* The exponent of the float next to a number: how many bits the number has
\* more than a float.
expo(m) == CHOOSE i \in 0 .. m : /\ m < pow2[i + MANTISSA]
                                 /\ i = 0 \/ m >= pow2[i - 1 + MANTISSA]

\* There is such an exponent.
LEMMA Exponent ==
    ASSUME NEW m \in Nat
    PROVE  /\ expo(m) \in 0 .. m
           /\ m < pow2[expo(m) + MANTISSA]
           /\ expo(m) = 0 \/ m >= pow2[expo(m) - 1 + MANTISSA]
<1> USE AtmAssumption DEF AtmAssumption
<1> DEFINE T == {i \in Nat : m < pow2[i + MANTISSA]}
<1>1. m \in T
  <2>1. m + MANTISSA \in Nat
    OBVIOUS
  <2>2. m + MANTISSA < pow2[m + MANTISSA] /\ pow2[m + MANTISSA] \in Nat
    BY <2>1, Pow2Exceeds
  <2>3. m < pow2[m + MANTISSA]
    BY <2>1, <2>2
  <2> QED BY <2>3
<1>2. PICK i \in T : \A j \in T : i <= j
  BY <1>1, LeastNat
<1>3. i \in 0 .. m /\ m < pow2[i + MANTISSA]
  BY <1>1, <1>2
<1>4. i = 0 \/ m >= pow2[i - 1 + MANTISSA]
  <2> SUFFICES ASSUME i # 0 PROVE m >= pow2[i - 1 + MANTISSA]
    OBVIOUS
  <2>1. i - 1 \in Nat /\ ~(i <= i - 1)
    BY <1>3
  <2>2. i - 1 \notin T
    BY <1>2, <2>1
  <2>3. ~(m < pow2[i - 1 + MANTISSA])
    BY <2>1, <2>2
  <2>4. i - 1 + MANTISSA \in Nat
    BY <2>1
  <2>5. pow2[i - 1 + MANTISSA] \in Nat
    BY <2>4, Pow2Exceeds
  <2> QED BY <2>3, <2>5
<1>5. \E j \in 0 .. m : /\ m < pow2[j + MANTISSA]
                        /\ j = 0 \/ m >= pow2[j - 1 + MANTISSA]
  BY <1>3, <1>4
<1> QED BY <1>5 DEF expo

\* The magnitude of the float next to a number of magnitude m.
near(m) ==
    LET unit  == pow2[expo(m)]
        below == m \div unit
        twice == 2 * (m % unit)
        above == twice > unit \/ (twice = unit /\ expo(m) > 0 /\ below % 2 = 1)
    IN  unit * (IF above THEN below + 1 ELSE below)

\* asFloat rounds the magnitude and keeps the sign.
LEMMA AsFloatIsNear ==
    \A x \in Int : asFloat(x) = IF x < 0 THEN -near(-x) ELSE near(x)
BY DEF asFloat, near, expo

\* A product of natural numbers is one: the provers need it by name, since both
\* factors below are variable.
LEMMA ProductNat == \A a, b \in Nat : a * b \in Nat
OBVIOUS

\* The magnitude of a float is one.
LEMMA NearNat ==
    ASSUME NEW m \in Nat
    PROVE  near(m) \in Nat
<1> DEFINE unit == pow2[expo(m)]
           below == m \div unit
           twice == 2 * (m % unit)
           above == twice > unit \/ (twice = unit /\ expo(m) > 0 /\ below % 2 = 1)
           factor == IF above THEN below + 1 ELSE below
<1>1. unit \in Nat /\ unit > 0
  <2>1. expo(m) \in Nat
    BY Exponent
  <2> QED BY <2>1, Pow2Exceeds
<1> HIDE DEF unit
<1>2. below \in Nat
  BY <1>1
<1> HIDE DEF below
<1> HIDE DEF above
<1>3. factor \in Nat
  BY <1>2
<1> HIDE DEF factor
<1>4. near(m) = unit * factor
  BY DEF near, unit, below, above, factor
<1> QED BY <1>1, <1>3, <1>4, ProductNat

\* A number of at most MANTISSA bits, and the first that has more, is a float.
LEMMA NearExact ==
    ASSUME NEW m \in Nat, m <= Limit
    PROVE  near(m) = m
<1> USE AtmAssumption DEF AtmAssumption
<1> DEFINE e == expo(m)
<1>1. /\ e \in Nat /\ m < pow2[e + MANTISSA]
      /\ e = 0 \/ m >= pow2[e - 1 + MANTISSA]
  BY Exponent
<1>2. near(m) = LET unit  == pow2[e]
                    below == m \div unit
                    twice == 2 * (m % unit)
                    above == twice > unit \/ (twice = unit /\ e > 0 /\ below % 2 = 1)
                IN  unit * (IF above THEN below + 1 ELSE below)
  BY DEF near
<1> HIDE DEF e
<1>3. CASE e = 0
  <2>1. pow2[e] = 1
    BY <1>3, Pow2Unfolds
  <2>2. m \div 1 = m /\ m % 1 = 0
    OBVIOUS
  <2> QED BY <1>2, <1>3, <2>1, <2>2
<1>4. CASE e # 0
  <2>1. e - 1 \in Nat /\ (e - 1) + MANTISSA = MANTISSA + (e - 1)
    BY <1>1, <1>4
  <2>2. pow2[MANTISSA] \in Nat /\ pow2[MANTISSA] > 0
    BY Pow2Exceeds
  <2>3. e = 1
    <3> SUFFICES ASSUME e - 2 \in Nat PROVE FALSE
      BY <1>1, <1>4
    <3>1. e - 1 + MANTISSA = MANTISSA + 1 + (e - 2)
      BY <1>1
    <3>2. pow2[MANTISSA + 1] <= pow2[MANTISSA + 1 + (e - 2)]
      <4>1. MANTISSA + 1 \in Nat
        OBVIOUS
      <4> QED BY <4>1, Pow2Grows
    <3>3. pow2[MANTISSA + 1] = 2 * pow2[MANTISSA]
      BY Pow2Unfolds
    <3>4. 2 * pow2[MANTISSA] <= m
      <4>1. pow2[e - 1 + MANTISSA] \in Nat
        BY <2>1, Pow2Exceeds
      <4> QED BY <1>1, <1>4, <2>2, <3>1, <3>2, <3>3, <4>1
    <3> QED BY <2>2, <3>4 DEF Limit
  <2>4. m = pow2[MANTISSA]
    <3>1. e - 1 + MANTISSA = MANTISSA
      BY <2>3
    <3>2. m >= pow2[MANTISSA]
      BY <1>1, <1>4, <3>1
    <3> QED BY <2>2, <3>2 DEF Limit
  <2>5. m = 2 * pow2[MANTISSA - 1] /\ pow2[MANTISSA - 1] \in Nat
    <3>1. MANTISSA - 1 \in Nat /\ (MANTISSA - 1) + 1 = MANTISSA
      OBVIOUS
    <3>2. pow2[(MANTISSA - 1) + 1] = 2 * pow2[MANTISSA - 1]
      BY <3>1, Pow2Unfolds
    <3> QED BY <2>4, <3>1, <3>2, Pow2Exceeds
  <2>6. pow2[e] = 2
    <3>1. pow2[0 + 1] = 2 * pow2[0] /\ pow2[0] = 1
      BY Pow2Unfolds
    <3> QED BY <2>3, <3>1
  <2>7. m % 2 = 0 /\ 2 * (m \div 2) = m
    BY <2>5
  <2> QED BY <1>2, <2>6, <2>7
<1> QED BY <1>3, <1>4

\* What the threads need of a float: it is a number, rounding makes no number
\* negative, and up to Limit there is nothing to round.
LEMMA AsFloat ==
    ASSUME NEW x \in Int
    PROVE  /\ asFloat(x) \in Int
           /\ x >= 0 => asFloat(x) >= 0
           /\ x \in -Limit .. Limit => asFloat(x) = x
<1>1. CASE x >= 0
  <2>1. x \in Nat /\ asFloat(x) = near(x)
    BY <1>1, AsFloatIsNear
  <2>2. near(x) \in Nat
    BY <2>1, NearNat
  <2>3. x \in -Limit .. Limit => near(x) = x
    BY <2>1, NearExact
  <2> QED BY <2>1, <2>2, <2>3
<1>2. CASE x < 0
  <2>1. -x \in Nat /\ asFloat(x) = -near(-x)
    BY <1>2, AsFloatIsNear
  <2>2. near(-x) \in Nat
    BY <2>1, NearNat
  <2>3. Limit \in Nat
    BY AtmAssumption, Pow2Exceeds DEF Limit, AtmAssumption
  <2>4. x \in -Limit .. Limit => -x <= Limit
    BY <2>3
  <2>5. x \in -Limit .. Limit => near(-x) = -x
    BY <2>1, <2>4, NearExact
  <2> QED BY <1>2, <2>1, <2>2, <2>5
<1> QED BY <1>1, <1>2

-----------------------------------------------------------------------------
(* The messages of a connection, and what the threads' variables can hold.   *)

Transfers == Amounts \cup Garbage

\* A choice, one that an amount follows, and an amount.
Chosen == [choice : SentChoices]
Asking == [choice : {1, 2}]
Given  == [amount : Transfers]

Entries == [connection : Connections, choice : {1, 2}, amount : Transfers]

\* What may follow a message: its amount, or the next choice.
after(m) == IF m \in Asking THEN Given ELSE Chosen

\* Amounts come where they are asked for; first comes what first holds.
inTurn(s, first) ==
    \A i \in 1 .. Len(s) : s[i] \in IF i = 1 THEN first ELSE after(s[i - 1])

\* What the next message has to be.
owed(s, first) == IF s = <<>> THEN first ELSE after(s[Len(s)])

\* What the thread takes next: an amount, if it has taken a choice that asks.
expected(k) ==
    IF pc[k] \in {"lock", "read", "amount"} /\ choice[k] \in {1, 2}
    THEN Given ELSE Chosen

ServerType ==
    /\ up \in [Connections -> Seq(Chosen \cup Given)]
    /\ choice \in [Connections -> SentChoices \cup {0}]
    /\ amount \in [Connections -> Transfers \cup {0}]
    /\ current_balance \in [Connections -> Int]
    /\ file \in Int \cup {NULL}
    /\ log \in Seq(Entries)
    /\ DOMAIN user = Connections
    /\ DOMAIN pc = Connections

\* The two ends of a connection agree on what comes next, so that recv never
\* takes an amount for a choice or a choice for an amount.
InTurn(k) ==
    /\ inTurn(up[k], expected(k))
    /\ user[k] = "new" => pc[k] = "none" /\ up[k] = <<>>
    /\ user[k] \in {"withdraw", "deposit"} => owed(up[k], expected(k)) = Given
    /\ user[k] \in {"menu", "await"} => owed(up[k], expected(k)) = Chosen
    /\ pc[k] # "none" => amount[k] \in Transfers
    /\ pc[k] \in {"amount", "open", "write"} => choice[k] \in {1, 2}

ProtocolInv == ServerType /\ \A k \in Connections : InTurn(k)

LEMMA Kinds ==
    /\ \A c \in SentChoices : /\ [choice |-> c] \in Chosen
                              /\ [choice |-> c] \in Asking <=> c \in {1, 2}
    /\ \A a \in Transfers : [amount |-> a] \in Given
    /\ \A m \in Given : m \notin Asking /\ m.amount \in Transfers
    /\ \A m \in Chosen : m.choice \in SentChoices
                         /\ (m \in Asking <=> m.choice \in {1, 2})
<1>1. \A m \in Given : m \notin Asking /\ m.amount \in Transfers
  BY DEF Given, Asking
<1>2. \A m \in Chosen : m = [choice |-> m.choice]
  BY DEF Chosen
<1> QED BY <1>1, <1>2 DEF Chosen, Asking, Given, SentChoices

\* Taking the first message leaves the others in turn.
LEMMA TakeInTurn ==
    ASSUME NEW s \in Seq(Chosen \cup Given), s # <<>>, NEW first, inTurn(s, first)
    PROVE  /\ Head(s) \in first
           /\ Tail(s) \in Seq(Chosen \cup Given)
           /\ inTurn(Tail(s), after(Head(s)))
           /\ owed(Tail(s), after(Head(s))) = owed(s, first)
<1> DEFINE t == Tail(s)
           n == Len(s)
<1>1. n \in Nat /\ n >= 1 /\ Head(s) = s[1]
  OBVIOUS
<1>2. /\ t \in Seq(Chosen \cup Given)
      /\ Len(t) = n - 1
      /\ \A i \in 1 .. n - 1 : t[i] = s[i + 1]
  OBVIOUS
<1> HIDE DEF t
<1>3. \A i \in 1 .. n : s[i] \in IF i = 1 THEN first ELSE after(s[i - 1])
  BY DEF inTurn
<1>4. owed(s, first) = after(s[n])
  BY DEF owed
<1> HIDE DEF n
<1>5. s[1] \in first
  BY <1>1, <1>3
<1>6. ASSUME NEW i \in 1 .. Len(t)
      PROVE  t[i] \in IF i = 1 THEN after(s[1]) ELSE after(t[i - 1])
  <2>1. i + 1 \in 1 .. n /\ i + 1 # 1 /\ (i + 1) - 1 = i
    BY <1>1, <1>2
  <2>2. t[i] \in after(s[i])
    BY <1>1, <1>2, <1>3, <2>1
  <2>3. i # 1 => t[i - 1] = s[i]
    BY <1>1, <1>2
  <2> QED BY <2>2, <2>3
<1>7. inTurn(t, after(s[1]))
  BY <1>6 DEF inTurn
<1>8. owed(t, after(s[1])) = after(s[n])
  <2>1. CASE n = 1
    <3>1. t = <<>>
      BY <1>2, <2>1
    <3> QED BY <2>1, <3>1 DEF owed
  <2>2. CASE n > 1
    <3>1. n - 1 \in 1 .. n - 1 /\ (n - 1) + 1 = n
      BY <1>1, <2>2
    <3>2. t[Len(t)] = s[n]
      BY <1>2, <3>1
    <3>3. t # <<>>
      BY <1>1, <1>2, <2>2
    <3> QED BY <3>2, <3>3 DEF owed
  <2> QED BY <1>1, <2>1, <2>2
<1> QED BY <1>1, <1>2, <1>4, <1>5, <1>7, <1>8 DEF t

\* What is owed may be sent, and decides what is owed then.
LEMMA PutInTurn ==
    ASSUME NEW s \in Seq(Chosen \cup Given), NEW first, inTurn(s, first),
           NEW m \in Chosen \cup Given, m \in owed(s, first)
    PROVE  /\ Append(s, m) \in Seq(Chosen \cup Given)
           /\ inTurn(Append(s, m), first)
           /\ owed(Append(s, m), first) = after(m)
<1> DEFINE t == Append(s, m)
           n == Len(s)
<1>1. n \in Nat
  OBVIOUS
<1>2. /\ t \in Seq(Chosen \cup Given)
      /\ Len(t) = n + 1
      /\ t[n + 1] = m
      /\ \A i \in 1 .. n : t[i] = s[i]
  OBVIOUS
<1> HIDE DEF t
<1>3. \A i \in 1 .. n : s[i] \in IF i = 1 THEN first ELSE after(s[i - 1])
  BY DEF inTurn
<1>4. m \in IF n = 0 THEN first ELSE after(s[n])
  BY DEF owed
<1> HIDE DEF n
<1>5. ASSUME NEW i \in 1 .. Len(t)
      PROVE  t[i] \in IF i = 1 THEN first ELSE after(t[i - 1])
  <2>1. CASE i \in 1 .. n
    BY <1>1, <1>2, <1>3, <2>1
  <2>2. CASE i = n + 1 /\ n = 0
    BY <1>2, <1>4, <2>2
  <2>3. CASE i = n + 1 /\ n # 0
    BY <1>1, <1>2, <1>4, <2>3
  <2> QED BY <1>1, <1>2, <2>1, <2>2, <2>3
<1>6. inTurn(t, first)
  BY <1>5 DEF inTurn
<1>7. owed(t, first) = after(m)
  <2>1. t # <<>> /\ t[Len(t)] = m
    BY <1>1, <1>2
  <2> QED BY <2>1 DEF owed
<1> QED BY <1>2, <1>6, <1>7 DEF t

\* Nothing is under way before the first connection.
LEMMA ProtocolInit == Init => ProtocolInv
<1> SUFFICES ASSUME Init PROVE ProtocolInv
  OBVIOUS
<1>1. ServerType
  BY AtmAssumption DEF Init, ServerType, AtmAssumption
<1>2. ASSUME NEW k \in Connections PROVE InTurn(k)
  BY <1>2 DEF Init, InTurn, inTurn
<1> QED BY <1>1, <1>2 DEF ProtocolInv

\* What a step of another connection, or one that leaves messages and choices
\* alone, keeps.
LEMMA InTurnKept ==
    ASSUME NEW k \in Connections, InTurn(k),
           up'[k] = up[k], choice'[k] = choice[k], amount'[k] = amount[k],
           user'[k] = user[k],
           pc'[k] = pc[k]
    PROVE  InTurn(k)'
BY DEF InTurn, expected

\* A step of a client sends only what is owed.
LEMMA ClientInTurn ==
    ASSUME ProtocolInv, NEW k \in Connections, client(k)
    PROVE  ProtocolInv'
<1>1. /\ ServerType /\ InTurn(k)
      /\ up[k] \in Seq(Chosen \cup Given)
  BY DEF ProtocolInv, ServerType
<1>2. ASSUME ServerType', InTurn(k)',
             \A j \in Connections \ {k} :
                /\ up'[j] = up[j] /\ choice'[j] = choice[j] /\ amount'[j] = amount[j]
                /\ user'[j] = user[j] /\ pc'[j] = pc[j]
      PROVE  ProtocolInv'
  BY <1>2, InTurnKept DEF ProtocolInv
<1>3. CASE Connect(k)
  <2>1. ServerType'
    BY <1>1, <1>3 DEF Connect, goto, ServerType, Transfers
  <2>2. /\ pc[k] = "none" /\ up[k] = <<>> /\ user'[k] = "menu" /\ pc'[k] = "recv"
        /\ up'[k] = <<>> /\ amount'[k] \in Transfers
    BY <1>1, <1>3 DEF Connect, goto, ServerType, InTurn, Transfers
  <2>3. expected(k)' = Chosen
    BY <2>2 DEF expected
  <2>4. owed(up[k], expected(k))' = Chosen
    BY <2>2, <2>3 DEF owed
  <2>5. inTurn(up[k], expected(k))'
    BY <2>2 DEF inTurn
  <2>6. InTurn(k)'
    BY <2>2, <2>4, <2>5 DEF InTurn
  <2> QED BY <1>1, <1>2, <1>3, <2>1, <2>6 DEF Connect, goto, ServerType
<1>4. ASSUME UNCHANGED <<pc, choice, amount, current_balance, file, log>>,
             NEW u, user' = [user EXCEPT ![k] = u],
             u \notin {"new", "withdraw", "deposit"},
             u = "gone" \/ user[k] \in {"menu", "await"},
             NEW s, s \in {up[k], <<>>},
             s = up[k] \/ u = "gone",
             up' = [up EXCEPT ![k] = s]
      PROVE  ProtocolInv'
  <2>1. ServerType'
    <3>1. s \in Seq(Chosen \cup Given)
      <4>1. <<>> \in Seq(Chosen \cup Given)
        OBVIOUS
      <4>2. s = up[k] \/ s = <<>>
        BY <1>4
      <4> QED BY <1>1, <4>1, <4>2
    <3> QED BY <1>1, <1>4, <3>1 DEF ServerType
  <2>2. expected(k)' = expected(k) /\ up'[k] = s /\ user'[k] = u
    BY <1>1, <1>4 DEF expected, ServerType
  <2>3. inTurn(up[k], expected(k))'
    BY <1>1, <1>4, <2>2 DEF InTurn, inTurn
  <2>4. u # "gone" => owed(up[k], expected(k))' = Chosen
    BY <1>1, <1>4, <2>2 DEF InTurn
  <2>5. InTurn(k)'
    BY <1>1, <1>4, <2>2, <2>3, <2>4 DEF InTurn
  <2> QED BY <1>1, <1>2, <1>4, <2>1, <2>5 DEF ServerType
<1>5. ASSUME NEW m \in Chosen \cup Given, m \in owed(up[k], expected(k)),
             UNCHANGED <<pc, choice, amount, current_balance, file, log>>,
             NEW u, user' = [user EXCEPT ![k] = u],
             user[k] # "new", u # "new",
             u \in {"withdraw", "deposit"} => m \in Asking,
             u \in {"menu", "await"} => m \notin Asking,
             up' = [up EXCEPT ![k] = Append(@, m)]
      PROVE  ProtocolInv'
  <2>1. expected(k)' = expected(k) /\ user'[k] = u /\ up'[k] = Append(up[k], m)
    BY <1>1, <1>5 DEF expected, ServerType
  <2>2. /\ Append(up[k], m) \in Seq(Chosen \cup Given)
        /\ inTurn(Append(up[k], m), expected(k))
        /\ owed(Append(up[k], m), expected(k)) = IF m \in Asking THEN Given ELSE Chosen
    BY <1>1, <1>5, PutInTurn DEF InTurn, after
  <2>3. ServerType'
    BY <1>1, <1>5, <2>2 DEF ServerType
  <2>4. InTurn(k)'
    BY <1>1, <1>5, <2>1, <2>2 DEF InTurn
  <2> QED BY <1>1, <1>2, <1>5, <2>3, <2>4 DEF ServerType
<1>6. CASE Receive(k)
  BY <1>1, <1>4, <1>6 DEF Receive, threadVars, ServerType
<1>7. CASE Leave(k)
  BY <1>1, <1>4, <1>7 DEF Leave, threadVars, ServerType
<1>8. ASSUME NEW c \in SentChoices, Choose(k, c) PROVE ProtocolInv'
  <2> DEFINE next == CASE c = 1 -> "withdraw" [] c = 2 -> "deposit"
                       [] c = 3 -> "await"    [] OTHER -> "menu"
  <2>1. /\ next # "new"
        /\ next \in {"withdraw", "deposit"} => c \in {1, 2}
        /\ next \in {"menu", "await"} => c \notin {1, 2}
    BY <1>8 DEF SentChoices
  <2>2. /\ user' = [user EXCEPT ![k] = next] /\ user[k] = "menu"
        /\ up' = [up EXCEPT ![k] = Append(@, [choice |-> c])]
        /\ UNCHANGED <<pc, choice, amount, current_balance, file, log>>
    BY <1>8 DEF Choose, threadVars
  <2> HIDE DEF next
  <2>3. owed(up[k], expected(k)) = Chosen
    BY <1>1, <2>2 DEF InTurn
  <2>4. [choice |-> c] \in Chosen /\ ([choice |-> c] \in Asking <=> c \in {1, 2})
    BY Kinds
  <2> QED BY <1>5, <2>1, <2>2, <2>3, <2>4
<1>9. ASSUME NEW a \in Amounts \cup Garbage, EnterAmount(k, a) PROVE ProtocolInv'
  <2>1. [amount |-> a] \in Given /\ [amount |-> a] \notin Asking
    BY Kinds DEF Transfers
  <2>2. /\ user' = [user EXCEPT ![k] = "await"] /\ user[k] \in {"withdraw", "deposit"}
        /\ up' = [up EXCEPT ![k] = Append(@, [amount |-> a])]
        /\ UNCHANGED <<pc, choice, amount, current_balance, file, log>>
    BY <1>9 DEF EnterAmount, threadVars
  <2>3. owed(up[k], expected(k)) = Given
    BY <1>1, <2>2 DEF InTurn
  <2> QED BY <1>5, <2>1, <2>2, <2>3
<1>10. CASE Jam(k)
  BY <1>1, <1>2, <1>10 DEF Jam, threadVars, ServerType, InTurn, expected
<1> QED BY <1>3, <1>6, <1>7, <1>8, <1>9, <1>10 DEF client


\* A step of a thread takes what is owed to it.
LEMMA HandlerInTurn ==
    ASSUME ProtocolInv, NEW k \in Connections, client_handler(k)
    PROVE  ProtocolInv'
<1>1. /\ ServerType /\ InTurn(k)
      /\ up[k] \in Seq(Chosen \cup Given)
  BY DEF ProtocolInv, ServerType
<1>2. ASSUME ServerType', InTurn(k)',
             \A j \in Connections \ {k} :
                /\ up'[j] = up[j] /\ choice'[j] = choice[j] /\ amount'[j] = amount[j]
                /\ user'[j] = user[j] /\ pc'[j] = pc[j]
      PROVE  ProtocolInv'
  BY <1>2, InTurnKept DEF ProtocolInv
\* Most steps only move on, to where as much is owed as before.
<1>3. ASSUME UNCHANGED <<user, up, choice, amount>>,
             file' \in Int \cup {NULL}, log' \in Seq(Entries),
             current_balance' \in [Connections -> Int],
             NEW p, pc' = [pc EXCEPT ![k] = p], pc[k] # "none",
             expected(k) = IF p \in {"lock", "read", "amount"} /\ choice[k] \in {1, 2}
                           THEN Given ELSE Chosen,
             p \in {"amount", "open", "write"} => choice[k] \in {1, 2}
      PROVE  ProtocolInv'
  <2>1. ServerType'
    BY <1>1, <1>3 DEF ServerType
  <2>2. pc'[k] = p
    BY <1>1, <1>3 DEF ServerType
  <2>3. expected(k)' = expected(k)
    BY <1>3, <2>2 DEF expected
  <2>4. user[k] # "new"
    BY <1>1, <1>3 DEF InTurn
  <2>5. InTurn(k)'
    BY <1>1, <1>3, <2>2, <2>3, <2>4 DEF InTurn
  <2> QED BY <1>1, <1>2, <1>3, <2>1, <2>5 DEF ServerType
<1>4. CASE recvChoice(k)
  <2>1. pc[k] = "recv" /\ up[k] # <<>> /\ expected(k) = Chosen
    BY <1>4 DEF recvChoice, expected
  <2> DEFINE m == Head(up[k])
  <2>2. /\ m \in Chosen /\ Tail(up[k]) \in Seq(Chosen \cup Given)
        /\ inTurn(Tail(up[k]), after(m))
        /\ owed(Tail(up[k]), after(m)) = owed(up[k], expected(k))
    BY <1>1, <2>1, TakeInTurn DEF InTurn
  <2>3. m.choice \in SentChoices /\ (m \in Asking <=> m.choice \in {1, 2})
    BY <2>2, Kinds
  <2> HIDE DEF m
  <2>4. /\ choice' = [choice EXCEPT ![k] = m.choice]
        /\ up' = [up EXCEPT ![k] = Tail(up[k])]
        /\ pc' = [pc EXCEPT ![k] = "lock"]
        /\ UNCHANGED <<user, amount, current_balance, file, log>>
    BY <1>4 DEF recvChoice, goto, clientVars, m
  <2>5. ServerType'
    BY <1>1, <2>2, <2>3, <2>4 DEF ServerType
  <2>6. /\ choice'[k] = m.choice /\ up'[k] = Tail(up[k]) /\ pc'[k] = "lock"
        /\ user'[k] = user[k] /\ amount'[k] = amount[k]
    BY <1>1, <2>4 DEF ServerType
  <2>7. expected(k)' = after(m)
    BY <2>3, <2>6 DEF expected, after
  <2>8. InTurn(k)'
    BY <1>1, <2>1, <2>2, <2>6, <2>7 DEF InTurn
  <2> QED BY <1>1, <1>2, <2>4, <2>5, <2>8 DEF ServerType
<1>5. CASE recvAmount(k)
  <2>1. /\ pc[k] = "amount" /\ choice[k] \in {1, 2} /\ expected(k) = Given
        /\ amount[k] \in Transfers
    BY <1>1, <1>5 DEF recvAmount, expected, InTurn
  <2>2. ASSUME NEW s \in Seq(Chosen \cup Given), inTurn(s, Chosen),
               user[k] = "gone" \/ owed(s, Chosen) = owed(up[k], expected(k)),
               NEW a \in Transfers, decide(k, a),
               up' = [up EXCEPT ![k] = s]
        PROVE  ProtocolInv'
    <3>1. PICK p \in {"send", "open"}, b \in Int :
             /\ pc' = [pc EXCEPT ![k] = p]
             /\ current_balance' = [current_balance EXCEPT ![k] = b]
      <4>1. current_balance[k] \in Int /\ a \in Int
        BY <1>1, AtmAssumption DEF ServerType, AtmAssumption, Transfers
      <4> DEFINE less == current_balance[k] - a
                 more == current_balance[k] + a
      <4>2. less \in Int /\ more \in Int
        BY <4>1
      <4>3. asFloat(less) \in Int /\ asFloat(more) \in Int
        BY <4>2, AsFloat
      <4>4. current_balance = [current_balance EXCEPT ![k] = current_balance[k]]
        BY <1>1 DEF ServerType
      <4> QED BY <2>2, <4>1, <4>3, <4>4 DEF decide, goto
    <3>2. /\ amount' = [amount EXCEPT ![k] = a]
          /\ UNCHANGED <<user, choice, file, log>>
      BY <2>2 DEF decide, clientVars
    <3>3. ServerType'
      BY <1>1, <2>2, <3>1, <3>2 DEF ServerType
    <3>4. /\ amount'[k] = a /\ up'[k] = s /\ pc'[k] = p
          /\ user'[k] = user[k] /\ choice'[k] = choice[k]
      BY <1>1, <2>2, <3>1, <3>2 DEF ServerType
    <3>5. expected(k)' = Chosen
      BY <3>4 DEF expected
    <3>6. user[k] # "new"
      BY <1>1, <2>1 DEF InTurn
    <3>7. InTurn(k)'
      BY <1>1, <2>1, <2>2, <3>4, <3>5, <3>6 DEF InTurn
    <3> QED BY <1>1, <1>2, <2>2, <3>1, <3>2, <3>3, <3>7 DEF ServerType
  <2>3. CASE up[k] # <<>>
    <3> DEFINE m == Head(up[k])
    <3>1. m \in Given
      BY <1>1, <2>1, <2>3, TakeInTurn DEF InTurn
    <3>2. m \notin Asking /\ m.amount \in Transfers
      BY <3>1, Kinds
    <3>3. /\ Tail(up[k]) \in Seq(Chosen \cup Given)
          /\ inTurn(Tail(up[k]), Chosen)
          /\ owed(Tail(up[k]), Chosen) = owed(up[k], expected(k))
      BY <1>1, <2>1, <2>3, <3>2, TakeInTurn DEF InTurn, after
    <3> QED BY <1>5, <2>2, <2>3, <3>2, <3>3 DEF recvAmount
  <2>4. CASE up[k] = <<>>
    <3>1. user[k] = "gone" /\ decide(k, amount[k]) /\ up' = up
      BY <1>5, <2>4 DEF recvAmount
    <3>2. <<>> \in Seq(Chosen \cup Given) /\ inTurn(<<>>, Chosen)
      BY DEF inTurn
    <3>3. up' = [up EXCEPT ![k] = <<>>]
      BY <1>1, <2>4, <3>1 DEF ServerType
    <3> QED BY <2>1, <2>2, <3>1, <3>2, <3>3
  <2> QED BY <2>3, <2>4
<1> USE DEF goto, clientVars, expected
<1>6. CASE hangUp(k)
  BY <1>1, <1>3, <1>6 DEF hangUp, ServerType
<1>7. CASE lock(k)
  BY <1>1, <1>3, <1>7 DEF lock, ServerType
<1>8. CASE read_balance(k)
  <2> DEFINE p == CASE choice[k] \in {1, 2} -> "amount"
                    [] choice[k] = 3        -> "send"
                    [] OTHER                -> "unlock"
  <2>1. p = "amount" <=> choice[k] \in {1, 2}
    OBVIOUS
  <2>2. p \in {"amount", "send", "unlock"}
    OBVIOUS
  <2>3. pc[k] = "read" /\ pc' = [pc EXCEPT ![k] = p]
        /\ UNCHANGED <<user, up, choice, amount, file, log>>
    BY <1>8 DEF read_balance
  <2>4. current_balance' \in [Connections -> Int]
    BY <1>1, <1>8, AtmAssumption DEF read_balance, ServerType, contents, AtmAssumption
  <2> HIDE DEF p
  <2> QED BY <1>1, <1>3, <2>1, <2>2, <2>3, <2>4 DEF ServerType
<1>9. CASE openFile(k)
  <2>1. entry(k, choice[k], amount[k]) \in Entries
    BY <1>1, <1>9 DEF openFile, entry, Entries, InTurn
  <2>2. log' \in Seq(Entries)
    BY <1>1, <1>9, <2>1 DEF openFile, ServerType
  <2> QED BY <1>1, <1>3, <1>9, <2>2 DEF openFile, ServerType, InTurn
<1>10. CASE writeFile(k)
  BY <1>1, <1>3, <1>10 DEF writeFile, ServerType
<1>11. CASE sendReply(k)
  BY <1>1, <1>3, <1>11 DEF sendReply, ServerType
<1>12. CASE unlock(k)
  BY <1>1, <1>3, <1>12 DEF unlock, ServerType
<1> QED BY <1>4, <1>5, <1>6, <1>7, <1>8, <1>9, <1>10, <1>11, <1>12 DEF client_handler

\* A crash empties every connection.
LEMMA CrashInTurn == ASSUME ProtocolInv, Crash PROVE ProtocolInv'
<1>1. ServerType
  BY DEF ProtocolInv
<1>2. ServerType'
  <2>1. <<>> \in Seq(Chosen \cup Given)
    OBVIOUS
  <2> QED BY <1>1, <2>1 DEF Crash, ServerType
<1>3. ASSUME NEW k \in Connections PROVE InTurn(k)'
  <2>1. InTurn(k)
    BY DEF ProtocolInv
  <2>2. /\ up'[k] = <<>> /\ user'[k] = IF user[k] = "new" THEN "new" ELSE "gone"
        /\ pc'[k] = IF pc[k] = "none" THEN "none" ELSE "done"
        /\ amount' = amount /\ choice' = choice
    BY DEF Crash
  <2>3. inTurn(up[k], expected(k))'
    BY <2>2 DEF inTurn
  <2> QED BY <2>1, <2>2, <2>3 DEF InTurn
<1> QED BY <1>2, <1>3 DEF ProtocolInv

LEMMA ProtocolStep == ASSUME ProtocolInv, [Next]_vars PROVE ProtocolInv'
<1>1. CASE Crash
  BY <1>1, CrashInTurn
<1>2. CASE \E k \in Connections : client(k) \/ client_handler(k)
  BY <1>2, ClientInTurn, HandlerInTurn
<1>3. CASE UNCHANGED vars
  BY <1>3 DEF vars, clientVars, threadVars, ProtocolInv, ServerType, InTurn, expected
<1> QED BY <1>1, <1>2, <1>3 DEF Next

-----------------------------------------------------------------------------
(* No overdraft.                                                             *)

\* A negative amount has been moved.
negativeMade == \E i \in DOMAIN log : log[i].amount < 0

\* NoOverdraft, for the balances that the threads compute with, too.  Between
\* the decision and the log the amount is still in the thread's hands.
OverdraftInv ==
    /\ contents < 0 => negativeMade
    /\ \A k \in Connections :
          /\ pc[k] \in {"amount", "write"} /\ current_balance[k] < 0 => negativeMade
          /\ pc[k] = "open" /\ current_balance[k] < 0 => negativeMade \/ amount[k] < 0

\* Only client_handler computes, and a client starts a thread outside of it.
LEMMA ClientLeavesThreads ==
    ASSUME ProtocolInv, NEW k \in Connections, client(k)
    PROVE  /\ UNCHANGED <<choice, current_balance, file, log, crashes>>
           /\ \/ UNCHANGED <<pc, amount>>
              \/ pc[k] = "none" /\ pc' = [pc EXCEPT ![k] = "recv"]
                 /\ \A j \in Connections : j # k => amount'[j] = amount[j]
<1>1. CASE Connect(k)
  BY <1>1 DEF Connect, goto, ProtocolInv, ServerType, InTurn
<1>2. ASSUME NEW c \in SentChoices, Choose(k, c)
      PROVE  UNCHANGED <<choice, current_balance, file, log, crashes, pc, amount>>
  BY <1>2 DEF Choose, threadVars
<1>3. ASSUME NEW a \in Amounts \cup Garbage, EnterAmount(k, a)
      PROVE  UNCHANGED <<choice, current_balance, file, log, crashes, pc, amount>>
  BY <1>3 DEF EnterAmount, threadVars
<1>4. CASE Receive(k) \/ Leave(k) \/ Jam(k)
  BY <1>4 DEF Receive, Leave, Jam, threadVars
<1> QED BY <1>1, <1>2, <1>3, <1>4 DEF client

LEMMA OverdraftStep == ASSUME ProtocolInv, OverdraftInv, [Next]_vars PROVE OverdraftInv'
<1>1. /\ ServerType
      /\ \A k \in Connections : current_balance[k] \in Int /\ amount[k] \in Int
  <2>1. Transfers \cup {0} \subseteq Int
    BY AtmAssumption DEF Transfers, AtmAssumption
  <2>2. ServerType
    BY DEF ProtocolInv
  <2>3. /\ amount \in [Connections -> Transfers \cup {0}]
        /\ current_balance \in [Connections -> Int]
    BY <2>2 DEF ServerType
  <2> QED BY <2>1, <2>2, <2>3
<1>2. CASE Crash
  BY <1>1, <1>2 DEF Crash, OverdraftInv, negativeMade, contents
<1>3. ASSUME NEW k \in Connections, client(k) PROVE OverdraftInv'
  BY <1>1, <1>3, ClientLeavesThreads
  DEF OverdraftInv, negativeMade, contents, ServerType
<1>4. ASSUME NEW k \in Connections, client_handler(k) PROVE OverdraftInv'
  <2> USE DEF goto, clientVars
  \* Most steps take the thread to a place where nothing is said of it.
  <2>1. ASSUME UNCHANGED <<current_balance, amount, file, log>>,
               NEW p, pc' = [pc EXCEPT ![k] = p], p \notin {"amount", "open", "write"}
        PROVE  OverdraftInv'
    BY <1>1, <2>1 DEF OverdraftInv, negativeMade, contents, ServerType
  <2>2. CASE recvChoice(k) \/ hangUp(k) \/ lock(k) \/ sendReply(k) \/ unlock(k)
    BY <2>1, <2>2 DEF recvChoice, hangUp, lock, sendReply, unlock
  <2>3. CASE read_balance(k)
    <3>1. current_balance'[k] < 0 => contents < 0
      BY <1>1, <2>3 DEF read_balance, ServerType
    <3>2. /\ UNCHANGED <<amount, file, log>>
          /\ \A j \in Connections : j # k => /\ current_balance'[j] = current_balance[j]
                                             /\ pc'[j] = pc[j]
          /\ pc'[k] # "open"
      BY <1>1, <2>3 DEF read_balance, ServerType
    <3> QED BY <3>1, <3>2 DEF OverdraftInv, negativeMade, contents
  <2>4. CASE recvAmount(k)
    <3>1. PICK a \in Int : decide(k, a)
      <4>1. CASE up[k] = <<>>
        BY <1>1, <2>4, <4>1 DEF recvAmount
      <4>2. CASE up[k] # <<>>
        <5>1. /\ up[k] \in Seq(Chosen \cup Given)
              /\ inTurn(up[k], Given)
          BY <2>4 DEF ProtocolInv, ServerType, InTurn, expected, recvAmount
        <5>2. Head(up[k]) \in Given
          BY <4>2, <5>1, TakeInTurn
        <5>3. Head(up[k]).amount \in Int
          BY <5>2, Kinds, AtmAssumption DEF Transfers, AtmAssumption
        <5> QED BY <2>4, <4>2, <5>3 DEF recvAmount
      <4> QED BY <4>1, <4>2
    <3> DEFINE b == current_balance[k]
    <3>2. pc[k] = "amount" /\ b \in Int /\ (b < 0 => negativeMade)
      BY <1>1, <2>4 DEF recvAmount, OverdraftInv
    <3>3. /\ UNCHANGED <<file, log>> /\ amount'[k] = a
          /\ \A j \in Connections : j # k => /\ current_balance'[j] = current_balance[j]
                                             /\ pc'[j] = pc[j] /\ amount'[j] = amount[j]
          /\ pc'[k] \notin {"amount", "write"}
      BY <1>1, <3>1 DEF decide, ServerType
    <3>4. pc'[k] = "open" /\ current_balance'[k] < 0 => negativeMade \/ a < 0
      <4>1. CASE choice[k] = 1 /\ sufficient(k, a)
        <5> DEFINE x == b - a
        <5>1. x \in Int /\ x >= 0
          BY <3>1, <3>2, <4>1 DEF sufficient
        <5>2. asFloat(x) \in Int /\ asFloat(x) >= 0
          BY <5>1, AsFloat
        <5>3. current_balance'[k] = asFloat(x)
          BY <1>1, <3>1, <4>1 DEF decide, ServerType
        <5> QED BY <5>2, <5>3
      <4>2. CASE choice[k] = 1 /\ ~sufficient(k, a)
        BY <1>1, <3>1, <4>2 DEF decide, ServerType
      <4>3. CASE choice[k] = 2
        <5> SUFFICES ASSUME a >= 0, ~negativeMade PROVE ~(current_balance'[k] < 0)
          BY <3>1
        <5> DEFINE x == b + a
        <5>1. x \in Int /\ x >= 0
          BY <3>1, <3>2
        <5>2. asFloat(x) \in Int /\ asFloat(x) >= 0
          BY <5>1, AsFloat
        <5>3. current_balance'[k] = asFloat(x)
          BY <1>1, <3>1, <4>3 DEF decide, ServerType
        <5> QED BY <5>2, <5>3
      <4> QED BY <3>1, <4>1, <4>2, <4>3 DEF decide
    <3> QED BY <3>3, <3>4 DEF OverdraftInv, negativeMade, contents
  \* The amount that may be negative is logged before the file changes.
  <2>5. CASE openFile(k)
    <3> DEFINE n == entry(k, choice[k], amount[k])
    <3>1. log' = Append(log, n) /\ log \in Seq(Entries) /\ n.amount = amount[k]
      BY <1>1, <2>5 DEF openFile, ServerType, entry
    <3> HIDE DEF n
    <3>2. Len(log) \in Nat /\ DOMAIN log = 1 .. Len(log) /\ DOMAIN log' = 1 .. Len(log) + 1
          /\ log'[Len(log) + 1] = n /\ \A i \in DOMAIN log : log'[i] = log[i]
      BY <3>1
    <3>3. negativeMade => negativeMade'
      BY <3>2 DEF negativeMade
    <3>4. amount[k] < 0 => negativeMade'
      BY <3>1, <3>2 DEF negativeMade
    <3>5. /\ UNCHANGED <<amount, current_balance>> /\ file' \in {file, NULL}
          /\ \A j \in Connections : j # k => pc'[j] = pc[j]
          /\ pc[k] = "open" /\ pc'[k] \in {"write", "send"}
      BY <1>1, <2>5 DEF openFile, ServerType
    <3> QED BY <3>3, <3>4, <3>5 DEF OverdraftInv, contents
  <2>6. CASE writeFile(k)
    BY <1>1, <2>6 DEF writeFile, OverdraftInv, negativeMade, contents, ServerType
  <2> QED BY <1>4, <2>2, <2>3, <2>4, <2>5, <2>6 DEF client_handler
<1>5. CASE UNCHANGED vars
  BY <1>5 DEF vars, clientVars, threadVars, OverdraftInv, negativeMade, contents
<1> QED BY <1>2, <1>3, <1>4, <1>5 DEF Next

\* Whoever withdraws has seen a balance that covers it, and rounding turns no
\* balance negative: only a negative amount can take the account below zero, at
\* any interleaving, with files that cannot be opened and servers that crash.
THEOREM NoOverdraftCorrect == Spec => []NoOverdraft
<1>1. Init => ProtocolInv /\ OverdraftInv
  <2>1. Init => OverdraftInv
    BY AtmAssumption DEF Init, OverdraftInv, contents, AtmAssumption
  <2> QED BY <2>1, ProtocolInit
<1>2. ProtocolInv /\ OverdraftInv /\ [Next]_vars => (ProtocolInv /\ OverdraftInv)'
  BY ProtocolStep, OverdraftStep
<1>3. OverdraftInv => NoOverdraft
  BY DEF OverdraftInv, negativeMade, NoOverdraft
<1> QED BY <1>1, <1>2, <1>3, PTL DEF Spec

-----------------------------------------------------------------------------
(* Transactions that were asked for.                                         *)

made(k) == {n \in DOMAIN log : log[n].connection = k}

\* Where a transaction e may come, after places of all that were made.
nextPlacings(k, e) ==
    {r \in placings(k, made(k)) \X DOMAIN asked(k) :
        /\ asked(k)[r[2]] = e
        /\ \A n \in made(k) : \/ r[1][n] < r[2]
                              \/ r[1][n] = r[2] /\ r[2] > Len(entered[k])}

Orders == [connection : Connections, choice : Int, amount : Int]

AskedType ==
    /\ down \in [Connections -> Seq(Int)]
    /\ jammed \in [Connections -> BOOLEAN]
    /\ clientChoice \in [Connections -> Int]
    /\ clientAmount \in [Connections -> Int]
    /\ entered \in [Connections -> Seq(Orders)]

\* The choice that the server does not answer, and lines that s is the end of.
Fives == Seq({[choice |-> 5]})
endingIn(s) == {t \o s : t \in Fives}

\* The thread is done with all requests it has taken, or at one without answer.
between(k) ==
    \/ pc[k] \in {"recv", "unlock"}
    \/ pc[k] \in {"lock", "read"} /\ choice[k] = 5

\* What is left of the last request to be answered: nothing; its amount is not
\* sent; it is not decided or not yet made; it is not replied to; the reply is
\* under way.
Idle(k) == between(k) /\ up[k] \in endingIn(<<>>)

Questioned(k, c) ==
    \/ between(k) /\ up[k] \in endingIn(<<[choice |-> c]>>)
    \/ pc[k] \in {"lock", "read", "amount"} /\ choice[k] = c /\ up[k] = <<>>

Ordered(k, c, a) ==
    \/ between(k) /\ up[k] \in endingIn(<<[choice |-> c], [amount |-> a]>>)
    \/ /\ pc[k] \in {"lock", "read", "amount"} /\ choice[k] = c
       /\ up[k] = <<[amount |-> a]>>
    \/ pc[k] = "open" /\ choice[k] = c /\ amount[k] = a /\ up[k] = <<>>

Answering(k) ==
    \/ between(k) /\ up[k] \in endingIn(<<[choice |-> 3]>>)
    \/ pc[k] \in {"lock", "read"} /\ choice[k] = 3 /\ up[k] = <<>>
    \/ pc[k] \in {"write", "send"} /\ up[k] = <<>>

Answered(k) == pc[k] \in {"unlock", "recv"} /\ up[k] = <<>>

\* The thread of a client that is gone, with nothing more to receive.
Over(k) ==
    pc[k] \in {"open", "write", "send", "unlock", "recv", "done"} /\ up[k] = <<>>

\* A transaction under way was asked for, after those that were made.
Pending(k) ==
    \E c \in {1, 2}, a \in Transfers :
        Ordered(k, c, a) /\ nextPlacings(k, entry(k, c, a)) # {}

\* The two ends of a connection agree on how far the last request has come.
InPhase(k) ==
    /\ user[k] = "new" => up[k] = <<>> /\ down[k] = <<>> /\ ~jammed[k]
    /\ user[k] = "menu" => down[k] = <<>> /\ Idle(k)
    /\ user[k] = "withdraw" => down[k] = <<>> /\ Questioned(k, 1)
    /\ user[k] = "deposit" => down[k] = <<>> /\ Questioned(k, 2)
    /\ user[k] = "await" => \/ down[k] = <<>> /\ (Answering(k) \/ Pending(k))
                            \/ Len(down[k]) = 1 /\ Answered(k)
    /\ user[k] = "gone" => \/ Idle(k) \/ Questioned(k, 1) \/ Questioned(k, 2)
                           \/ Pending(k) \/ Answering(k) \/ Over(k)
    /\ user[k] \in {"new", "menu", "withdraw", "deposit", "await", "gone"}

\* A client that can jam still has the choice it asks an amount for.
Repeats(k) ==
    /\ jammed[k] => InputMayJam
    /\ InputMayJam => /\ user[k] = "withdraw" => clientChoice[k] = 1
                      /\ user[k] = "deposit" => clientChoice[k] = 2

\* The one transaction more is the last thing a thread does.
MadeAsAsked(k) ==
    \/ placings(k, made(k)) # {}
    \/ /\ user[k] = "gone" /\ up[k] = <<>>
       /\ pc[k] \in {"write", "send", "unlock", "recv", "done"}
       /\ \E last \in made(k) : /\ \A n \in made(k) : n <= last
                                /\ placings(k, made(k) \ {last}) # {}

AskedInv ==
    AskedType /\ \A k \in Connections : InPhase(k) /\ Repeats(k) /\ MadeAsAsked(k)

-----------------------------------------------------------------------------
\* Taking the first message of a line takes one that is not answered, or is the
\* beginning of its end.
LEMMA TakeFromLine ==
    ASSUME NEW s \in Seq(Chosen \cup Given), NEW u \in endingIn(s), u # <<>>
    PROVE  \/ Head(u) = [choice |-> 5] /\ Tail(u) \in endingIn(s)
           \/ s # <<>> /\ Head(u) = Head(s) /\ Tail(u) = Tail(s)
<1>1. PICK t \in Fives : u = t \o s
  BY DEF endingIn
<1>2. CASE t = <<>>
  <2>1. u = s
    BY <1>1, <1>2
  <2> QED BY <2>1
<1>3. CASE t # <<>>
  <2>1. Head(t) = [choice |-> 5] /\ Tail(t) \in Fives
    BY <1>1, <1>3 DEF Fives
  <2>2. Head(u) = Head(t) /\ Tail(u) = Tail(t) \o s
    BY <1>1, <1>3 DEF Fives
  <2> QED BY <2>1, <2>2 DEF endingIn
<1> QED BY <1>2, <1>3

\* A line goes on at its end.
LEMMA PutAtEnd ==
    ASSUME NEW s \in Seq(Chosen \cup Given), NEW u \in endingIn(s),
           NEW m \in Chosen \cup Given
    PROVE  Append(u, m) \in endingIn(Append(s, m))
<1>1. PICK t \in Fives : u = t \o s
  BY DEF endingIn
<1>2. [choice |-> 5] \in Chosen
  BY Kinds DEF SentChoices
<1>3. t \in Seq(Chosen \cup Given)
  BY <1>1, <1>2 DEF Fives
<1>4. Append(t \o s, m) = t \o Append(s, m)
  BY <1>3
<1> QED BY <1>1, <1>4 DEF endingIn

LEMMA AppendProps ==
    ASSUME NEW S, NEW s \in Seq(S), NEW y \in S
    PROVE  /\ Append(s, y) \in Seq(S) /\ Len(Append(s, y)) = Len(s) + 1
           /\ Append(s, y)[Len(s) + 1] = y
           /\ \A i \in 1 .. Len(s) : Append(s, y)[i] = s[i]
OBVIOUS

LEMMA TwoMessages ==
    ASSUME NEW S, NEW x \in S, NEW y \in S
    PROVE  Append(<<x>>, y) = <<x, y>>
<1> DEFINE s == <<x>>
           t == Append(s, y)
<1>1. s \in Seq(S) /\ Len(s) = 1 /\ s[1] = x
  OBVIOUS
<1>2. s \in Seq(S)
  OBVIOUS
<1> HIDE DEF s
<1>3. /\ t \in Seq(S) /\ Len(t) = Len(s) + 1 /\ t[Len(s) + 1] = y
      /\ \A i \in 1 .. Len(s) : t[i] = s[i]
  BY <1>2, AppendProps
<1> HIDE DEF t
<1>4. t \in Seq(S) /\ Len(t) = 2 /\ t[1] = x /\ t[2] = y
  BY <1>1, <1>3
<1>5. t = <<x, y>>
  BY <1>4
<1> QED BY <1>5 DEF s, t

LEMMA PutFive ==
    ASSUME NEW u \in endingIn(<<>>)
    PROVE  Append(u, [choice |-> 5]) \in endingIn(<<>>)
<1>1. PICK t \in Fives : u = t \o <<>>
  BY DEF endingIn
<1>2. u = t
  BY <1>1 DEF Fives
<1>3. Append(t, [choice |-> 5]) \in Fives
  BY DEF Fives
<1>4. Append(t, [choice |-> 5]) = Append(t, [choice |-> 5]) \o <<>>
  BY <1>3 DEF Fives
<1> QED BY <1>2, <1>3, <1>4 DEF endingIn

LEMMA EmptyLine == <<>> \in endingIn(<<>>)
<1>1. <<>> \in Fives /\ <<>> = <<>> \o <<>>
  BY DEF Fives
<1> QED BY <1>1 DEF endingIn

LEMMA WholeLine ==
    ASSUME NEW s \in Seq(Chosen \cup Given)
    PROVE  s \in endingIn(s)
<1>1. <<>> \in Fives /\ s = <<>> \o s
  BY DEF Fives
<1> QED BY <1>1 DEF endingIn

-----------------------------------------------------------------------------
\* What was asked for is a sequence of orders, one longer for a client that
\* repeats.
LEMMA AskedProps ==
    ASSUME AskedType, NEW k \in Connections
    PROVE  /\ entered[k] \in Seq(Orders) /\ Len(entered[k]) \in Nat
           /\ entry(k, clientChoice[k], clientAmount[k]) \in Orders
           /\ asked(k) \in Seq(Orders)
           /\ Len(asked(k)) = Len(entered[k]) + IF jammed[k] THEN 1 ELSE 0
           /\ DOMAIN asked(k) = 1 .. Len(asked(k))
           /\ \A q \in 1 .. Len(entered[k]) : asked(k)[q] = entered[k][q]
           /\ jammed[k] => asked(k)[Len(entered[k]) + 1]
                               = entry(k, clientChoice[k], clientAmount[k])
<1>1. entered[k] \in Seq(Orders)
  BY DEF AskedType
<1>2. entry(k, clientChoice[k], clientAmount[k]) \in Orders
  BY DEF AskedType, entry, Orders
<1>3. CASE jammed[k]
  <2>1. asked(k) = Append(entered[k], entry(k, clientChoice[k], clientAmount[k]))
    BY <1>3 DEF asked
  <2> QED BY <1>1, <1>2, <1>3, <2>1
<1>4. CASE ~jammed[k]
  <2>1. asked(k) = entered[k]
    BY <1>4 DEF asked
  <2> QED BY <1>1, <1>2, <1>4, <2>1
<1> QED BY <1>3, <1>4

\* Transactions keep their places as long as what was asked for only grows, and
\* no place becomes one of a repetition or ceases to be.
LEMMA PlacesStay ==
    ASSUME NEW k \in Connections, made(k)' = made(k),
           \A n \in made(k) : log'[n] = log[n],
           \A q \in DOMAIN asked(k) : q \in DOMAIN asked(k)' /\ asked(k)'[q] = asked(k)[q],
           \/ Len(entered'[k]) = Len(entered[k])
           \/ \A q \in DOMAIN asked(k) : ~(q > Len(entered[k])),
           NEW place \in placings(k, made(k))
    PROVE  place \in placings(k, made(k))'
<1> DEFINE P == made(k)
<1>1. P' = P /\ \A n \in P : log'[n] = log[n]
  OBVIOUS
<1> HIDE DEF P
<1>2. /\ place \in [P -> DOMAIN asked(k)]
      /\ \A m, n \in P :
            /\ log[m] = asked(k)[place[m]]
            /\ m < n => \/ place[m] < place[n]
                        \/ place[m] = place[n] /\ place[n] > Len(entered[k])
  BY DEF placings, P
<1>3. placings(k, P)' =
        {pl \in [P' -> DOMAIN asked(k)'] :
            \A m, n \in P' :
                /\ log'[m] = asked(k)'[pl[m]]
                /\ m < n => \/ pl[m] < pl[n]
                            \/ pl[m] = pl[n] /\ pl[n] > Len(entered'[k])}
  BY DEF placings
<1>4. place \in [P -> DOMAIN asked(k)']
  BY <1>2
<1>5. place \in placings(k, P)'
  BY <1>1, <1>2, <1>3, <1>4
<1> QED BY <1>5 DEF P

\* What one connection has made stays what another connection's step logs.
LEMMA MadeStays ==
    ASSUME log \in Seq(Entries), NEW k \in Connections,
           \/ log' = log
           \/ \E e \in Entries : e.connection # k /\ log' = Append(log, e)
    PROVE  /\ made(k)' = made(k)
           /\ made(k) \in SUBSET DOMAIN log
           /\ \A n \in made(k) : log'[n] = log[n]
<1>1. CASE log' = log
  BY <1>1 DEF made
<1>2. ASSUME NEW e \in Entries, e.connection # k, log' = Append(log, e)
      PROVE  /\ made(k)' = made(k)
             /\ \A n \in made(k) : log'[n] = log[n]
  <2>1. /\ DOMAIN log = 1 .. Len(log) /\ Len(log) \in Nat
        /\ DOMAIN log' = 1 .. Len(log) + 1
        /\ \A n \in 1 .. Len(log) : log'[n] = log[n]
        /\ log'[Len(log) + 1] = e
    BY <1>2
  <2>2. DOMAIN log' = DOMAIN log \cup {Len(log) + 1}
    BY <2>1
  <2>3. made(k)' = {n \in DOMAIN log' : log'[n].connection = k}
    BY DEF made
  <2>4. made(k)' = {n \in DOMAIN log : log'[n].connection = k}
    BY <1>2, <2>1, <2>2, <2>3
  <2>5. made(k)' = made(k)
    BY <2>1, <2>4 DEF made
  <2> QED BY <2>1, <2>5 DEF made
<1> QED BY <1>1, <1>2 DEF made

\* The same for a transaction that is to come.
LEMMA NextStays ==
    ASSUME log \in Seq(Entries), NEW k \in Connections, NEW e,
           log' = log \/ \E f \in Entries : f.connection # k /\ log' = Append(log, f),
           asked(k)' = asked(k), entered'[k] = entered[k],
           nextPlacings(k, e) # {}
    PROVE  nextPlacings(k, e)' # {}
<1>1. PICK place \in placings(k, made(k)), q \in DOMAIN asked(k) :
        /\ asked(k)[q] = e
        /\ \A n \in made(k) : \/ place[n] < q
                              \/ place[n] = q /\ q > Len(entered[k])
  BY DEF nextPlacings
<1>2. /\ made(k)' = made(k) /\ made(k) \in SUBSET DOMAIN log
      /\ \A n \in made(k) : log'[n] = log[n]
  BY MadeStays
<1>3. place \in placings(k, made(k))'
  BY <1>1, <1>2, PlacesStay
<1>4. <<place, q>> \in nextPlacings(k, e)'
  BY <1>1, <1>2, <1>3 DEF nextPlacings
<1> QED BY <1>4

\* An order that is entered comes after all that were made.
LEMMA EnterOrder ==
    ASSUME AskedType, AskedType', log \in Seq(Entries),
           NEW k \in Connections, NEW c, NEW a,
           log' = log, jammed' = jammed, placings(k, made(k)) # {},
           \/ ~jammed[k] /\ entered'[k] = Append(entered[k], entry(k, c, a))
           \/ /\ jammed[k] /\ entered'[k] = entered[k]
              /\ clientChoice[k] = c /\ clientAmount[k] = a
              /\ clientChoice'[k] = c /\ clientAmount'[k] = a
    PROVE  nextPlacings(k, entry(k, c, a))' # {}
<1> DEFINE e == entry(k, c, a)
           q == Len(entered[k]) + 1
<1>1. PICK place \in placings(k, made(k)) : TRUE
  OBVIOUS
<1>2. made(k)' = made(k) /\ made(k) \in SUBSET DOMAIN log
      /\ \A n \in made(k) : log'[n] = log[n]
  BY MadeStays
<1>3. /\ entered[k] \in Seq(Orders) /\ Len(entered[k]) \in Nat
      /\ DOMAIN asked(k) = 1 .. Len(asked(k))
      /\ Len(asked(k)) = Len(entered[k]) + IF jammed[k] THEN 1 ELSE 0
      /\ \A i \in 1 .. Len(entered[k]) : asked(k)[i] = entered[k][i]
      /\ jammed[k] => asked(k)[q] = entry(k, clientChoice[k], clientAmount[k])
  BY AskedProps
<1>4. /\ q \in DOMAIN asked(k)' /\ asked(k)'[q] = e
      /\ \A i \in DOMAIN asked(k) : i \in DOMAIN asked(k)' /\ asked(k)'[i] = asked(k)[i]
      /\ \/ Len(entered[k])' = Len(entered[k])
         \/ \A i \in DOMAIN asked(k) : ~(i > Len(entered[k]))
      /\ jammed[k] => Len(entered'[k]) = Len(entered[k])
  <2>1. CASE ~jammed[k]
    <3>1. asked(k) = entered[k] /\ asked(k)' = entered'[k]
      BY <2>1 DEF asked
    <3>2. e \in Orders
      <4>1. entered'[k] \in Seq(Orders) /\ entered'[k] = Append(entered[k], e)
        BY <2>1 DEF AskedType
      <4>2. Append(entered[k], e)[q] = e /\ q \in DOMAIN Append(entered[k], e)
        BY <1>3
      <4> QED BY <4>1, <4>2
    <3>3. /\ entered'[k] = Append(entered[k], e)
          /\ Len(entered'[k]) = q /\ DOMAIN entered'[k] = 1 .. q
          /\ entered'[k][q] = e
          /\ \A i \in 1 .. Len(entered[k]) : entered'[k][i] = entered[k][i]
      BY <1>3, <2>1, <3>2
    <3> QED BY <1>3, <2>1, <3>1, <3>3
  <2>2. CASE jammed[k]
    <3>1. asked(k)' = asked(k)
      BY <2>2 DEF asked
    <3> QED BY <1>3, <2>2, <3>1
  <2> QED BY <2>1, <2>2
<1>5. place \in placings(k, made(k))'
  BY <1>2, <1>4, PlacesStay
<1>6. \A n \in made(k) : place[n] \in DOMAIN asked(k)
  BY <1>1 DEF placings
<1>7. \A n \in made(k)' : \/ place[n] < q
                          \/ place[n] = q /\ q > Len(entered'[k])
  <2> SUFFICES ASSUME NEW n \in made(k)
               PROVE  \/ place[n] < q
                      \/ place[n] = q /\ q > Len(entered'[k])
    BY <1>2
  <2>1. place[n] \in 1 .. Len(asked(k))
    BY <1>3, <1>6
  <2>2. CASE jammed[k]
    BY <1>3, <1>4, <2>1, <2>2
  <2>3. CASE ~jammed[k]
    BY <1>3, <2>1, <2>3
  <2> QED BY <2>2, <2>3
<1>8. <<place, q>> \in nextPlacings(k, e)'
  BY <1>4, <1>5, <1>7 DEF nextPlacings
<1> QED BY <1>8

\* All places but the last stay, too.
LEMMA OtherPlacesStay ==
    ASSUME NEW k \in Connections, made(k)' = made(k),
           \A n \in made(k) : log'[n] = log[n],
           asked(k)' = asked(k), entered'[k] = entered[k],
           \E last \in made(k) : /\ \A n \in made(k) : n <= last
                                 /\ placings(k, made(k) \ {last}) # {}
    PROVE  (\E last \in made(k) : /\ \A n \in made(k) : n <= last
                                  /\ placings(k, made(k) \ {last}) # {})'
<1>1. PICK last \in made(k) : /\ \A n \in made(k) : n <= last
                              /\ placings(k, made(k) \ {last}) # {}
  OBVIOUS
<1> DEFINE P == made(k) \ {last}
<1>2. P' = P /\ \A n \in P : log'[n] = log[n]
  OBVIOUS
<1> HIDE DEF P
<1>3. placings(k, P)' =
        {pl \in [P' -> DOMAIN asked(k)'] :
            \A m, n \in P' :
                /\ log'[m] = asked(k)'[pl[m]]
                /\ m < n => \/ pl[m] < pl[n]
                            \/ pl[m] = pl[n] /\ pl[n] > Len(entered'[k])}
  BY DEF placings
<1>4. placings(k, P)' =
        {pl \in [P -> DOMAIN asked(k)] :
            \A m, n \in P :
                /\ log'[m] = asked(k)[pl[m]]
                /\ m < n => \/ pl[m] < pl[n]
                            \/ pl[m] = pl[n] /\ pl[n] > Len(entered[k])}
  BY <1>2, <1>3
<1>5. placings(k, P)' = placings(k, P)
  BY <1>2, <1>4 DEF placings
<1>6. placings(k, P)' # {}
  BY <1>1, <1>5 DEF P
<1> QED BY <1>1, <1>6 DEF P

\* What a step appends to the log is the last that its connection has made.
LEMMA MadeGrows ==
    ASSUME log \in Seq(Entries), NEW k \in Connections, NEW e \in Entries,
           e.connection = k, log' = Append(log, e)
    PROVE  /\ Len(log) \in Nat /\ made(k) \subseteq 1 .. Len(log)
           /\ made(k)' = made(k) \cup {Len(log) + 1}
           /\ log'[Len(log) + 1] = e
           /\ \A n \in made(k) : log'[n] = log[n]
<1>1. /\ DOMAIN log = 1 .. Len(log) /\ Len(log) \in Nat
      /\ DOMAIN log' = 1 .. Len(log) + 1
      /\ \A n \in 1 .. Len(log) : log'[n] = log[n]
      /\ log'[Len(log) + 1] = e
  OBVIOUS
<1>2. DOMAIN log' = DOMAIN log \cup {Len(log) + 1}
  BY <1>1
<1>3. made(k)' = {n \in DOMAIN log' : log'[n].connection = k}
  BY DEF made
<1>4. made(k)' = {n \in DOMAIN log : log'[n].connection = k} \cup {Len(log) + 1}
  BY <1>1, <1>2, <1>3
<1>5. {n \in DOMAIN log : log'[n].connection = k} = made(k)
  BY <1>1 DEF made
<1>6. made(k) \subseteq DOMAIN log
  BY DEF made
<1> QED BY <1>1, <1>4, <1>5, <1>6

\* A transaction that was to come is made in its place.
LEMMA MadeInPlace ==
    ASSUME AskedType, log \in Seq(Entries), NEW k \in Connections, NEW e \in Entries,
           e.connection = k, log' = Append(log, e),
           asked(k)' = asked(k), entered'[k] = entered[k],
           nextPlacings(k, e) # {}
    PROVE  placings(k, made(k))' # {}
<1>1. PICK place \in placings(k, made(k)), q \in DOMAIN asked(k) :
        /\ asked(k)[q] = e
        /\ \A n \in made(k) : \/ place[n] < q
                              \/ place[n] = q /\ q > Len(entered[k])
  BY DEF nextPlacings
<1>2. /\ Len(log) \in Nat /\ made(k) \subseteq 1 .. Len(log)
      /\ made(k)' = made(k) \cup {Len(log) + 1}
      /\ log'[Len(log) + 1] = e
      /\ \A n \in made(k) : log'[n] = log[n]
  BY MadeGrows
<1> DEFINE l == Len(log) + 1
           P == made(k)
           more == [n \in P \cup {l} |-> IF n = l THEN q ELSE place[n]]
<1>3. /\ place \in [P -> DOMAIN asked(k)]
      /\ \A m, n \in P :
            /\ log[m] = asked(k)[place[m]]
            /\ m < n => \/ place[m] < place[n]
                        \/ place[m] = place[n] /\ place[n] > Len(entered[k])
  BY <1>1 DEF placings
<1>4. l \in Nat /\ l \notin P /\ \A n \in P : n < l /\ ~(l < n)
  BY <1>2
<1>5. P' = P \cup {l} /\ log'[l] = e /\ \A n \in P : log'[n] = log[n]
  BY <1>2
<1>10. \A n \in P : place[n] < q \/ (place[n] = q /\ q > Len(entered[k]))
  BY <1>1
<1>11. ~(l < l)
  BY <1>4
<1> HIDE DEF l, P
<1>6. more \in [P \cup {l} -> DOMAIN asked(k)]
  BY <1>1, <1>3
<1>7. \A n \in P : more[n] = place[n]
  BY <1>4
<1>12. more[l] = q
  OBVIOUS
<1> HIDE DEF more
<1>8. ASSUME NEW m \in P \cup {l}, NEW n \in P \cup {l}
      PROVE  /\ log'[m] = asked(k)[more[m]]
             /\ m < n => \/ more[m] < more[n]
                         \/ more[m] = more[n] /\ more[n] > Len(entered[k])
  <2>1. log'[m] = asked(k)[more[m]]
    BY <1>1, <1>3, <1>5, <1>7, <1>12
  <2>2. CASE m \in P /\ n \in P
    BY <1>3, <1>7, <2>1, <2>2
  <2>3. CASE m \in P /\ n = l
    BY <1>7, <1>10, <1>12, <2>1, <2>3
  <2>4. CASE m = l
    BY <1>4, <1>11, <2>1, <2>4
  <2> QED BY <2>2, <2>3, <2>4
<1>9. placings(k, P)' =
        {pl \in [P' -> DOMAIN asked(k)'] :
            \A m, n \in P' :
                /\ log'[m] = asked(k)'[pl[m]]
                /\ m < n => \/ pl[m] < pl[n]
                            \/ pl[m] = pl[n] /\ pl[n] > Len(entered'[k])}
  BY DEF placings
<1>13. more \in placings(k, P)'
  BY <1>5, <1>6, <1>8, <1>9
<1> QED BY <1>13 DEF P

\* One more leaves the places of the others.
LEMMA MadeOneMore ==
    ASSUME log \in Seq(Entries), NEW k \in Connections, NEW e \in Entries,
           e.connection = k, log' = Append(log, e),
           asked(k)' = asked(k), entered'[k] = entered[k],
           placings(k, made(k)) # {}
    PROVE  (\E last \in made(k) : /\ \A n \in made(k) : n <= last
                                  /\ placings(k, made(k) \ {last}) # {})'
<1> DEFINE l == Len(log) + 1
           P == made(k)
<1>1. /\ Len(log) \in Nat /\ made(k) \subseteq 1 .. Len(log)
      /\ made(k)' = made(k) \cup {l}
      /\ \A n \in made(k) : log'[n] = log[n]
  BY MadeGrows
<1>2. /\ l \in made(k)' /\ \A n \in made(k)' : n <= l
      /\ made(k)' \ {l} = made(k)
  BY <1>1
<1>3. PICK place \in placings(k, made(k)) : TRUE
  OBVIOUS
<1>4. P \subseteq 1 .. Len(log) /\ \A n \in P : log'[n] = log[n]
  BY <1>1
<1> HIDE DEF P
<1>5. /\ place \in [P -> DOMAIN asked(k)]
      /\ \A m, n \in P :
            /\ log[m] = asked(k)[place[m]]
            /\ m < n => \/ place[m] < place[n]
                        \/ place[m] = place[n] /\ place[n] > Len(entered[k])
  BY <1>3 DEF placings, P
<1>6. ASSUME NEW Q, Q = P
      PROVE  place \in {pl \in [Q -> DOMAIN asked(k)'] :
                \A m, n \in Q :
                    /\ log'[m] = asked(k)'[pl[m]]
                    /\ m < n => \/ pl[m] < pl[n]
                                \/ pl[m] = pl[n] /\ pl[n] > Len(entered'[k])}
  BY <1>4, <1>5, <1>6
<1>7. \E last \in made(k)' :
         /\ \A n \in made(k)' : n <= last
         /\ {pl \in [made(k)' \ {last} -> DOMAIN asked(k)'] :
                \A m, n \in made(k)' \ {last} :
                    /\ log'[m] = asked(k)'[pl[m]]
                    /\ m < n => \/ pl[m] < pl[n]
                                \/ pl[m] = pl[n] /\ pl[n] > Len(entered'[k])} # {}
  <2>1. made(k)' \ {l} = P
    BY <1>2 DEF P
  <2>2. place \in {pl \in [made(k)' \ {l} -> DOMAIN asked(k)'] :
                \A m, n \in made(k)' \ {l} :
                    /\ log'[m] = asked(k)'[pl[m]]
                    /\ m < n => \/ pl[m] < pl[n]
                                \/ pl[m] = pl[n] /\ pl[n] > Len(entered'[k])}
    BY <1>6, <2>1
  <2> HIDE DEF l
  <2> QED BY <1>2, <2>2
<1> QED BY <1>7 DEF placings

-----------------------------------------------------------------------------
\* What a step of the thread does to its own connection.
Moves(k) ==
    \/ /\ pc[k] = "recv" /\ up[k] # <<>> /\ pc'[k] = "lock"
       /\ choice'[k] = Head(up[k]).choice /\ up'[k] = Tail(up[k])
       /\ amount'[k] = amount[k] /\ down'[k] = down[k] /\ log' = log
    \/ /\ choice'[k] = choice[k] /\ up'[k] = up[k]
       /\ amount'[k] = amount[k] /\ down'[k] = down[k] /\ log' = log
       /\ \/ /\ pc[k] = "recv" /\ up[k] = <<>> /\ user[k] = "gone"
             /\ pc'[k] = "done"
          \/ pc[k] = "lock" /\ pc'[k] = "read"
          \/ pc[k] = "read" /\ choice[k] \in {1, 2} /\ pc'[k] = "amount"
          \/ pc[k] = "read" /\ choice[k] = 3 /\ pc'[k] = "send"
          \/ pc[k] = "read" /\ choice[k] \notin {1, 2, 3} /\ pc'[k] = "unlock"
          \/ pc[k] = "write" /\ pc'[k] = "send"
          \/ pc[k] = "unlock" /\ pc'[k] = "recv"
    \/ /\ pc[k] = "amount" /\ pc'[k] \in {"send", "open"}
       /\ \/ /\ up[k] # <<>> /\ up'[k] = Tail(up[k])
             /\ amount'[k] = Head(up[k]).amount
          \/ up[k] = <<>> /\ up'[k] = <<>> /\ user[k] = "gone"
       /\ choice'[k] = choice[k] /\ down'[k] = down[k] /\ log' = log
    \/ /\ pc[k] = "open" /\ pc'[k] \in {"write", "send"}
       /\ choice'[k] = choice[k] /\ up'[k] = up[k]
       /\ amount'[k] = amount[k] /\ down'[k] = down[k]
       /\ log' = Append(log, entry(k, choice[k], amount[k]))
    \/ /\ pc[k] = "send" /\ pc'[k] = "unlock"
       /\ choice'[k] = choice[k] /\ up'[k] = up[k]
       /\ amount'[k] = amount[k] /\ log' = log
       /\ down'[k] = IF user[k] = "gone" THEN down[k]
                     ELSE Append(down[k], current_balance[k])

LEMMA HandlerMoves ==
    ASSUME ServerType, AskedType, NEW k \in Connections, client_handler(k)
    PROVE  /\ Moves(k)
           /\ user' = user /\ entered' = entered
           /\ clientChoice' = clientChoice /\ clientAmount' = clientAmount
           /\ jammed' = jammed
           /\ \A j \in Connections \ {k} :
                 /\ pc'[j] = pc[j] /\ choice'[j] = choice[j] /\ amount'[j] = amount[j]
                 /\ up'[j] = up[j] /\ down'[j] = down[j]
           /\ down' \in [Connections -> Seq(Int)]
<1> USE DEF goto, clientVars, localVars, Moves
<1>1. /\ DOMAIN pc = Connections /\ DOMAIN choice = Connections
      /\ DOMAIN amount = Connections /\ DOMAIN up = Connections
      /\ down \in [Connections -> Seq(Int)]
      /\ current_balance[k] \in Int
  BY DEF ServerType, AskedType
<1>2. CASE recvChoice(k)
  BY <1>1, <1>2 DEF recvChoice
<1>3. CASE hangUp(k)
  BY <1>1, <1>3 DEF hangUp
<1>4. CASE lock(k)
  BY <1>1, <1>4 DEF lock
<1>5. CASE read_balance(k)
  <2> DEFINE p == CASE choice[k] \in {1, 2} -> "amount"
                    [] choice[k] = 3        -> "send"
                    [] OTHER                -> "unlock"
  <2>1. /\ choice[k] \in {1, 2} => p = "amount"
        /\ choice[k] = 3 => p = "send"
        /\ choice[k] \notin {1, 2, 3} => p = "unlock"
    OBVIOUS
  <2>2. pc[k] = "read" /\ pc' = [pc EXCEPT ![k] = p]
        /\ UNCHANGED <<user, entered, clientChoice, clientAmount, jammed, choice,
                       amount, up, down, log>>
    BY <1>5 DEF read_balance
  <2> HIDE DEF p
  <2> QED BY <1>1, <2>1, <2>2
<1>6. CASE recvAmount(k)
  <2>1. ASSUME NEW a, decide(k, a)
        PROVE  /\ amount' = [amount EXCEPT ![k] = a]
               /\ pc' = [pc EXCEPT ![k] = "send"] \/ pc' = [pc EXCEPT ![k] = "open"]
               /\ UNCHANGED <<user, entered, clientChoice, clientAmount, jammed,
                              choice, down, log>>
    BY <2>1 DEF decide
  <2>2. CASE up[k] # <<>>
    <3>1. decide(k, Head(up[k]).amount) /\ up' = [up EXCEPT ![k] = Tail(@)]
      BY <1>6, <2>2 DEF recvAmount
    <3> QED BY <1>1, <1>6, <2>1, <2>2, <3>1 DEF recvAmount
  <2>3. CASE up[k] = <<>>
    <3>1. decide(k, amount[k]) /\ up' = up /\ user[k] = "gone"
      BY <1>6, <2>3 DEF recvAmount
    <3> QED BY <1>1, <1>6, <2>1, <2>3, <3>1 DEF recvAmount
  <2> QED BY <2>2, <2>3
<1>7. CASE openFile(k)
  BY <1>1, <1>7 DEF openFile
<1>8. CASE writeFile(k)
  BY <1>1, <1>8 DEF writeFile
<1>9. CASE sendReply(k)
  <2>1. down' \in [Connections -> Seq(Int)]
    BY <1>1, <1>9 DEF sendReply
  <2> QED BY <1>1, <1>9, <2>1 DEF sendReply
<1>10. CASE unlock(k)
  BY <1>1, <1>10 DEF unlock
<1> QED BY <1>2, <1>3, <1>4, <1>5, <1>6, <1>7, <1>8, <1>9, <1>10 DEF client_handler

\* What becomes of a line of which the last request is s.
LEMMA MovesLine ==
    ASSUME NEW k \in Connections, Moves(k), between(k),
           NEW s \in Seq(Chosen \cup Given), up[k] \in endingIn(s)
    PROVE  /\ log' = log /\ down'[k] = down[k] /\ amount'[k] = amount[k]
           /\ \/ (between(k) /\ up[k] \in endingIn(s))'
              \/ user[k] = "gone" /\ pc'[k] = "done" /\ up'[k] = <<>>
              \/ /\ s # <<>> /\ pc'[k] = "lock"
                 /\ choice'[k] = Head(s).choice /\ up'[k] = Tail(s)
<1>1. CASE pc[k] = "recv" /\ up[k] # <<>>
  <2>1. /\ pc'[k] = "lock" /\ choice'[k] = Head(up[k]).choice /\ up'[k] = Tail(up[k])
        /\ log' = log /\ down'[k] = down[k] /\ amount'[k] = amount[k]
    BY <1>1 DEF Moves
  <2>2. \/ Head(up[k]) = [choice |-> 5] /\ Tail(up[k]) \in endingIn(s)
        \/ s # <<>> /\ Head(up[k]) = Head(s) /\ Tail(up[k]) = Tail(s)
    BY <1>1, TakeFromLine
  <2>3. CASE Head(up[k]) = [choice |-> 5] /\ Tail(up[k]) \in endingIn(s)
    <3>1. choice'[k] = 5 /\ up'[k] \in endingIn(s)
      BY <2>1, <2>3
    <3> QED BY <2>1, <3>1 DEF between, endingIn, Fives
  <2> QED BY <2>1, <2>2, <2>3
<1>2. CASE ~(pc[k] = "recv" /\ up[k] # <<>>)
  <2>1. /\ log' = log /\ down'[k] = down[k] /\ amount'[k] = amount[k]
        /\ up'[k] = up[k] /\ choice'[k] = choice[k]
        /\ \/ pc'[k] \in {"recv", "unlock"}
           \/ pc'[k] = "read" /\ choice[k] = 5
           \/ up[k] = <<>> /\ user[k] = "gone" /\ pc'[k] = "done"
    BY <1>2 DEF Moves, between
  <2>2. (up[k] \in endingIn(s))'
    BY <2>1 DEF endingIn, Fives
  <2> QED BY <2>1, <2>2 DEF between
<1> QED BY <1>1, <1>2

\* How a step of the thread moves each phase on.
LEMMA MovesIdle ==
    ASSUME NEW k \in Connections, Moves(k), Idle(k)
    PROVE  /\ log' = log /\ down'[k] = down[k]
           /\ Idle(k)' \/ (user[k] = "gone" /\ Over(k)')
<1>1. <<>> \in Seq(Chosen \cup Given)
  OBVIOUS
<1>2. between(k) /\ up[k] \in endingIn(<<>>)
  BY DEF Idle
<1>3. /\ log' = log /\ down'[k] = down[k] /\ amount'[k] = amount[k]
      /\ \/ (between(k) /\ up[k] \in endingIn(<<>>))'
         \/ user[k] = "gone" /\ pc'[k] = "done" /\ up'[k] = <<>>
  BY <1>1, <1>2, MovesLine
<1> QED BY <1>3 DEF Idle, Over

LEMMA MovesQuestioned ==
    ASSUME NEW k \in Connections, Moves(k), NEW c \in {1, 2}, Questioned(k, c)
    PROVE  /\ log' = log /\ down'[k] = down[k]
           /\ Questioned(k, c)' \/ (user[k] = "gone" /\ Over(k)')
<1> DEFINE s == <<[choice |-> c]>>
<1>1. s \in Seq(Chosen \cup Given) /\ s # <<>>
      /\ Head(s).choice = c /\ Tail(s) = <<>>
  <2>1. [choice |-> c] \in Chosen
    BY Kinds DEF SentChoices
  <2> QED BY <2>1
<1>2. CASE between(k) /\ up[k] \in endingIn(s)
  <2> HIDE DEF s
  <2>1. /\ log' = log /\ down'[k] = down[k] /\ amount'[k] = amount[k]
        /\ \/ (between(k) /\ up[k] \in endingIn(s))'
           \/ user[k] = "gone" /\ pc'[k] = "done" /\ up'[k] = <<>>
           \/ /\ s # <<>> /\ pc'[k] = "lock"
              /\ choice'[k] = Head(s).choice /\ up'[k] = Tail(s)
    BY <1>1, <1>2, MovesLine
  <2> QED BY <1>1, <2>1 DEF Questioned, Over, s
<1>3. CASE pc[k] \in {"lock", "read", "amount"} /\ choice[k] = c /\ up[k] = <<>>
  BY <1>3 DEF Moves, Questioned, Over
<1> QED BY <1>2, <1>3 DEF Questioned

LEMMA MovesOrdered ==
    ASSUME NEW k \in Connections, Moves(k), NEW c \in {1, 2}, NEW a \in Transfers,
           Ordered(k, c, a)
    PROVE  /\ down'[k] = down[k]
           /\ \/ log' = log /\ Ordered(k, c, a)'
              \/ log' = log /\ (user[k] = "gone" /\ Over(k)')
              \/ log' = log /\ Answering(k)'
              \/ log' = Append(log, entry(k, c, a)) /\ Answering(k)'
<1> DEFINE s == <<[choice |-> c], [amount |-> a]>>
<1>1. s \in Seq(Chosen \cup Given) /\ s # <<>>
      /\ Head(s).choice = c /\ Tail(s) = <<[amount |-> a]>>
  <2>1. [choice |-> c] \in Chosen /\ [amount |-> a] \in Given
    BY Kinds DEF SentChoices
  <2> QED BY <2>1
<1>2. CASE between(k) /\ up[k] \in endingIn(s)
  <2> HIDE DEF s
  <2>1. /\ log' = log /\ down'[k] = down[k] /\ amount'[k] = amount[k]
        /\ \/ (between(k) /\ up[k] \in endingIn(s))'
           \/ user[k] = "gone" /\ pc'[k] = "done" /\ up'[k] = <<>>
           \/ /\ s # <<>> /\ pc'[k] = "lock"
              /\ choice'[k] = Head(s).choice /\ up'[k] = Tail(s)
    BY <1>1, <1>2, MovesLine
  <2> QED BY <1>1, <2>1 DEF Ordered, Over, s
<1>3. CASE /\ pc[k] \in {"lock", "read", "amount"} /\ choice[k] = c
           /\ up[k] = <<[amount |-> a]>>
  <2>1. up[k] # <<>> /\ Head(up[k]).amount = a /\ Tail(up[k]) = <<>>
    BY <1>3
  <2> QED BY <1>3, <2>1 DEF Moves, Ordered, Answering
<1>4. CASE pc[k] = "open" /\ choice[k] = c /\ amount[k] = a /\ up[k] = <<>>
  BY <1>4 DEF Moves, Answering
<1> QED BY <1>2, <1>3, <1>4 DEF Ordered

LEMMA MovesAnswering ==
    ASSUME NEW k \in Connections, Moves(k), Answering(k)
    PROVE  /\ log' = log
           /\ \/ down'[k] = down[k] /\ Answering(k)'
              \/ down'[k] = down[k] /\ user[k] = "gone" /\ Over(k)'
              \/ down'[k] = Append(down[k], current_balance[k]) /\ Answered(k)'
<1> DEFINE s == <<[choice |-> 3]>>
<1>1. s \in Seq(Chosen \cup Given) /\ s # <<>>
      /\ Head(s).choice = 3 /\ Tail(s) = <<>>
  <2>1. [choice |-> 3] \in Chosen
    BY Kinds DEF SentChoices
  <2> QED BY <2>1
<1>2. CASE between(k) /\ up[k] \in endingIn(s)
  <2> HIDE DEF s
  <2>1. /\ log' = log /\ down'[k] = down[k] /\ amount'[k] = amount[k]
        /\ \/ (between(k) /\ up[k] \in endingIn(s))'
           \/ user[k] = "gone" /\ pc'[k] = "done" /\ up'[k] = <<>>
           \/ /\ s # <<>> /\ pc'[k] = "lock"
              /\ choice'[k] = Head(s).choice /\ up'[k] = Tail(s)
    BY <1>1, <1>2, MovesLine
  <2> QED BY <1>1, <2>1 DEF Answering, Over, s
<1>3. CASE pc[k] \in {"lock", "read"} /\ choice[k] = 3 /\ up[k] = <<>>
  BY <1>3 DEF Moves, Answering
<1>4. CASE pc[k] \in {"write", "send"} /\ up[k] = <<>>
  BY <1>4 DEF Moves, Answering, Answered, Over
<1> QED BY <1>2, <1>3, <1>4 DEF Answering

LEMMA MovesAnswered ==
    ASSUME NEW k \in Connections, Moves(k), Answered(k)
    PROVE  /\ log' = log /\ down'[k] = down[k]
           /\ Answered(k)' \/ (user[k] = "gone" /\ Over(k)')
BY DEF Moves, Answered, Over

\* Of a client that is gone; all but an open file leaves the log alone.
LEMMA MovesOver ==
    ASSUME NEW k \in Connections, Moves(k), Over(k), user[k] = "gone"
    PROVE  /\ Over(k)' /\ down'[k] = down[k]
           /\ \/ log' = log
              \/ /\ pc[k] = "open" /\ pc'[k] \in {"write", "send"}
                 /\ log' = Append(log, entry(k, choice[k], amount[k]))
           /\ pc[k] # "open" => pc'[k] # "open"
BY DEF Moves, Over

-----------------------------------------------------------------------------
\* A step of another connection.
LEMMA OthersStay ==
    ASSUME log \in Seq(Entries), NEW k \in Connections,
           InPhase(k), Repeats(k), MadeAsAsked(k),
           user'[k] = user[k], pc'[k] = pc[k], choice'[k] = choice[k],
           amount'[k] = amount[k], up'[k] = up[k], down'[k] = down[k],
           entered'[k] = entered[k], jammed'[k] = jammed[k],
           clientChoice'[k] = clientChoice[k], clientAmount'[k] = clientAmount[k],
           \/ log' = log
           \/ \E e \in Entries : e.connection # k /\ log' = Append(log, e)
    PROVE  InPhase(k)' /\ Repeats(k)' /\ MadeAsAsked(k)'
<1>1. asked(k)' = asked(k)
  BY DEF asked, entry
<1>2. Repeats(k)'
  BY DEF Repeats
<1>3. /\ Idle(k)' = Idle(k) /\ Answering(k)' = Answering(k)
      /\ Answered(k)' = Answered(k) /\ Over(k)' = Over(k)
  BY DEF Idle, Answering, Answered, Over, between
<1>4. \A c \in {1, 2} : Questioned(k, c)' = Questioned(k, c)
  BY DEF Questioned, between
<1>5. ASSUME NEW c \in {1, 2}, NEW a \in Transfers, Ordered(k, c, a),
             nextPlacings(k, entry(k, c, a)) # {}
      PROVE  Pending(k)'
  <2>1. Ordered(k, c, a)'
    BY <1>5 DEF Ordered, between
  <2>2. nextPlacings(k, entry(k, c, a))' # {}
    <3> DEFINE e == entry(k, c, a)
    <3>1. e' = e
      BY DEF entry
    <3> HIDE DEF e
    <3>2. nextPlacings(k, e)' # {}
      BY <1>1, <1>5, <3>1, NextStays DEF e
    <3> QED BY <3>2 DEF e
  <2> QED BY <2>1, <2>2 DEF Pending
<1>6. Pending(k) => Pending(k)'
  BY <1>5 DEF Pending
<1>7. InPhase(k)'
  BY <1>3, <1>4, <1>6 DEF InPhase
<1>8. /\ made(k)' = made(k)
      /\ \A n \in made(k) : log'[n] = log[n]
  BY MadeStays
<1>9. placings(k, made(k)) # {} => placings(k, made(k))' # {}
  BY <1>1, <1>8, PlacesStay
<1>10. MadeAsAsked(k)'
  BY <1>1, <1>8, <1>9, OtherPlacesStay DEF MadeAsAsked
<1> QED BY <1>2, <1>7, <1>10

\* A step of a thread makes what was asked for next, refuses it, or makes the one
\* transaction more.
LEMMA HandlerAsked ==
    ASSUME ProtocolInv, AskedInv, NEW k \in Connections, client_handler(k)
    PROVE  AskedInv'
<1>1. /\ ServerType /\ InTurn(k) /\ AskedType /\ log \in Seq(Entries)
      /\ InPhase(k) /\ Repeats(k) /\ MadeAsAsked(k)
      /\ current_balance[k] \in Int
  BY DEF ProtocolInv, ServerType, AskedInv
<1>2. /\ Moves(k)
      /\ user' = user /\ entered' = entered
      /\ clientChoice' = clientChoice /\ clientAmount' = clientAmount
      /\ jammed' = jammed
      /\ \A j \in Connections \ {k} :
            /\ pc'[j] = pc[j] /\ choice'[j] = choice[j] /\ amount'[j] = amount[j]
            /\ up'[j] = up[j] /\ down'[j] = down[j]
      /\ down' \in [Connections -> Seq(Int)]
  BY <1>1, HandlerMoves
<1>3. AskedType'
  BY <1>1, <1>2 DEF AskedType
<1>4. asked(k)' = asked(k) /\ entered'[k] = entered[k]
  BY <1>2 DEF asked, entry
<1>5. /\ entry(k, choice[k], amount[k]).connection = k
      /\ pc[k] = "open" => entry(k, choice[k], amount[k]) \in Entries
  BY <1>1 DEF entry, Entries, InTurn
<1>6. \/ log' = log
      \/ pc[k] = "open" /\ log' = Append(log, entry(k, choice[k], amount[k]))
  BY <1>2 DEF Moves
<1>7. ASSUME NEW j \in Connections \ {k}
      PROVE  InPhase(j)' /\ Repeats(j)' /\ MadeAsAsked(j)'
  <2>1. InPhase(j) /\ Repeats(j) /\ MadeAsAsked(j)
    BY DEF AskedInv
  <2>2. \/ log' = log
        \/ \E e \in Entries : e.connection # j /\ log' = Append(log, e)
    BY <1>5, <1>6, <1>7
  <2> QED BY <1>1, <1>2, <1>7, <2>1, <2>2, OthersStay
<1>8. Repeats(k)'
  BY <1>1, <1>2 DEF Repeats
\* As long as nothing is logged.
<1>9. ASSUME log' = log PROVE MadeAsAsked(k)'
  <2>1. /\ made(k)' = made(k)
        /\ \A n \in made(k) : log'[n] = log[n]
    BY <1>1, <1>9, MadeStays
  <2>2. placings(k, made(k)) # {} => placings(k, made(k))' # {}
    BY <1>4, <2>1, PlacesStay
  <2>3. CASE placings(k, made(k)) # {}
    BY <2>2, <2>3 DEF MadeAsAsked
  <2>4. CASE placings(k, made(k)) = {}
    <3>1. /\ user[k] = "gone" /\ up[k] = <<>>
          /\ pc[k] \in {"write", "send", "unlock", "recv", "done"}
          /\ \E last \in made(k) : /\ \A n \in made(k) : n <= last
                                   /\ placings(k, made(k) \ {last}) # {}
      BY <1>1, <2>4 DEF MadeAsAsked
    <3>2. /\ up'[k] = <<>>
          /\ pc'[k] \in {"write", "send", "unlock", "recv", "done"}
      BY <1>2, <3>1 DEF Moves
    <3>3. (\E last \in made(k) : /\ \A n \in made(k) : n <= last
                                 /\ placings(k, made(k) \ {last}) # {})'
      BY <1>4, <2>1, <3>1, OtherPlacesStay
    <3> QED BY <1>2, <3>1, <3>2, <3>3 DEF MadeAsAsked
  <2> QED BY <2>3, <2>4
<1>10. ASSUME Pending(k)
       PROVE  /\ down'[k] = down[k] /\ MadeAsAsked(k)'
              /\ \/ Pending(k)' \/ Answering(k)'
                 \/ user[k] = "gone" /\ Over(k)'
  <2>1. PICK c \in {1, 2}, a \in Transfers :
          Ordered(k, c, a) /\ nextPlacings(k, entry(k, c, a)) # {}
    BY <1>10 DEF Pending
  <2>2. /\ down'[k] = down[k]
        /\ \/ log' = log /\ Ordered(k, c, a)'
           \/ log' = log /\ (user[k] = "gone" /\ Over(k)')
           \/ log' = log /\ Answering(k)'
           \/ log' = Append(log, entry(k, c, a)) /\ Answering(k)'
    BY <1>2, <2>1, MovesOrdered
  <2>3. CASE log' = log /\ Ordered(k, c, a)'
    <3> DEFINE e == entry(k, c, a)
    <3>1. e' = e
      BY DEF entry
    <3> HIDE DEF e
    <3>2. nextPlacings(k, e)' # {}
      BY <1>1, <1>4, <2>1, <2>3, <3>1, NextStays DEF e
    <3> QED BY <1>9, <2>2, <2>3, <3>2 DEF Pending, e
  <2>4. CASE log' = Append(log, entry(k, c, a)) /\ Answering(k)'
    <3>1. entry(k, c, a) \in Entries /\ entry(k, c, a).connection = k
      BY DEF entry, Entries
    <3>2. placings(k, made(k))' # {}
      BY <1>1, <1>4, <2>1, <2>4, <3>1, MadeInPlace
    <3> QED BY <2>2, <2>4, <3>2 DEF MadeAsAsked
  <2> QED BY <1>9, <2>2, <2>3, <2>4
<1>11. InPhase(k)' /\ MadeAsAsked(k)'
  <2>1. user[k] # "new"
    BY <1>1, <1>2 DEF InTurn, Moves
  <2>2. CASE user[k] = "menu"
    <3>1. down[k] = <<>> /\ Idle(k)
      BY <1>1, <2>2 DEF InPhase
    <3>2. log' = log /\ down'[k] = down[k] /\ Idle(k)'
      BY <1>2, <2>2, <3>1, MovesIdle
    <3> QED BY <1>2, <1>9, <2>2, <3>1, <3>2 DEF InPhase
  <2>3. CASE user[k] = "withdraw"
    <3>1. down[k] = <<>> /\ Questioned(k, 1)
      BY <1>1, <2>3 DEF InPhase
    <3>2. log' = log /\ down'[k] = down[k] /\ Questioned(k, 1)'
      BY <1>2, <2>3, <3>1, MovesQuestioned
    <3> QED BY <1>2, <1>9, <2>3, <3>1, <3>2 DEF InPhase
  <2>4. CASE user[k] = "deposit"
    <3>1. down[k] = <<>> /\ Questioned(k, 2)
      BY <1>1, <2>4 DEF InPhase
    <3>2. log' = log /\ down'[k] = down[k] /\ Questioned(k, 2)'
      BY <1>2, <2>4, <3>1, MovesQuestioned
    <3> QED BY <1>2, <1>9, <2>4, <3>1, <3>2 DEF InPhase
  <2>5. CASE user[k] = "await"
    <3>1. CASE down[k] = <<>> /\ Answering(k)
      <4>1. log' = log
            /\ \/ down'[k] = down[k] /\ Answering(k)'
               \/ down'[k] = Append(down[k], current_balance[k]) /\ Answered(k)'
        BY <1>2, <2>5, <3>1, MovesAnswering
      <4>2. Len(Append(<<>>, current_balance[k])) = 1
        BY <1>1
      <4> QED BY <1>2, <1>9, <2>5, <3>1, <4>1, <4>2 DEF InPhase
    <3>2. CASE down[k] = <<>> /\ Pending(k)
      BY <1>2, <1>10, <2>5, <3>2 DEF InPhase
    <3>3. CASE Len(down[k]) = 1 /\ Answered(k)
      <4>1. log' = log /\ down'[k] = down[k] /\ Answered(k)'
        BY <1>2, <2>5, <3>3, MovesAnswered
      <4> QED BY <1>2, <1>9, <2>5, <3>3, <4>1 DEF InPhase
    <3> QED BY <1>1, <2>5, <3>1, <3>2, <3>3 DEF InPhase
  <2>6. CASE user[k] = "gone"
    <3>1. ASSUME \/ Idle(k)' \/ Questioned(k, 1)' \/ Questioned(k, 2)'
                 \/ Pending(k)' \/ Answering(k)' \/ Over(k)'
          PROVE  InPhase(k)'
      BY <1>2, <2>6, <3>1 DEF InPhase
    <3>2. CASE Idle(k)
      BY <1>2, <1>9, <3>1, <3>2, MovesIdle
    <3>3. CASE Questioned(k, 1)
      BY <1>2, <1>9, <3>1, <3>3, MovesQuestioned
    <3>4. CASE Questioned(k, 2)
      BY <1>2, <1>9, <3>1, <3>4, MovesQuestioned
    <3>5. CASE Pending(k)
      BY <1>10, <3>1, <3>5
    <3>6. CASE Answering(k)
      <4>1. log' = log /\ (Answering(k)' \/ Over(k)')
        BY <1>2, <3>6, MovesAnswering DEF Answered, Over
      <4> QED BY <1>9, <3>1, <4>1
    <3>7. CASE Over(k)
      <4>1. /\ Over(k)'
            /\ \/ log' = log
               \/ /\ pc[k] = "open" /\ pc'[k] \in {"write", "send"}
                  /\ log' = Append(log, entry(k, choice[k], amount[k]))
        BY <1>2, <2>6, <3>7, MovesOver
      <4>2. ASSUME pc[k] = "open", pc'[k] \in {"write", "send"},
                   log' = Append(log, entry(k, choice[k], amount[k]))
            PROVE  MadeAsAsked(k)'
        <5>1. placings(k, made(k)) # {}
          BY <1>1, <4>2 DEF MadeAsAsked
        <5> DEFINE e == entry(k, choice[k], amount[k])
        <5>2. e \in Entries /\ e.connection = k /\ log' = Append(log, e)
          BY <1>5, <4>2
        <5> HIDE DEF e
        <5>3. (\E last \in made(k) : /\ \A n \in made(k) : n <= last
                                     /\ placings(k, made(k) \ {last}) # {})'
          BY <1>1, <1>4, <5>1, <5>2, MadeOneMore
        <5> QED BY <1>2, <2>6, <4>1, <4>2, <5>3 DEF MadeAsAsked, Over
      <4> QED BY <1>9, <3>1, <4>1, <4>2
    <3> QED BY <1>1, <2>6, <3>2, <3>3, <3>4, <3>5, <3>6, <3>7 DEF InPhase
  <2> QED BY <1>1, <2>1, <2>2, <2>3, <2>4, <2>5, <2>6 DEF InPhase
<1>12. \A j \in Connections : InPhase(j)' /\ Repeats(j)' /\ MadeAsAsked(j)'
  BY <1>7, <1>8, <1>11
<1> QED BY <1>3, <1>12 DEF AskedInv

\* A step of a client enters or repeats an order only after the last was answered.
LEMMA ClientAsked ==
    ASSUME ProtocolInv, AskedInv, NEW k \in Connections, client(k)
    PROVE  AskedInv'
<1>1. /\ ServerType /\ InTurn(k) /\ AskedType /\ log \in Seq(Entries)
      /\ InPhase(k) /\ Repeats(k) /\ MadeAsAsked(k)
      /\ DOMAIN user = Connections /\ DOMAIN pc = Connections
      /\ DOMAIN amount = Connections /\ DOMAIN up = Connections
  BY DEF ProtocolInv, ServerType, AskedInv
<1>2. ASSUME AskedType', log' = log, choice' = choice,
             \A j \in Connections \ {k} :
                /\ user'[j] = user[j] /\ pc'[j] = pc[j] /\ amount'[j] = amount[j]
                /\ up'[j] = up[j] /\ down'[j] = down[j]
                /\ entered'[j] = entered[j] /\ jammed'[j] = jammed[j]
                /\ clientChoice'[j] = clientChoice[j]
                /\ clientAmount'[j] = clientAmount[j],
             InPhase(k)', Repeats(k)', MadeAsAsked(k)'
      PROVE  AskedInv'
  <2>1. ASSUME NEW j \in Connections \ {k}
        PROVE  InPhase(j)' /\ Repeats(j)' /\ MadeAsAsked(j)'
    <3>1. InPhase(j) /\ Repeats(j) /\ MadeAsAsked(j)
      BY DEF AskedInv
    <3> QED BY <1>1, <1>2, <3>1, OthersStay
  <2>2. \A j \in Connections : InPhase(j)' /\ Repeats(j)' /\ MadeAsAsked(j)'
    BY <1>2, <2>1
  <2> QED BY <1>2, <2>2 DEF AskedInv
\* A client that has not left has made nothing that it did not ask for.
<1>3. user[k] # "gone" => placings(k, made(k)) # {}
  BY <1>1 DEF MadeAsAsked
<1>4. ASSUME log' = log,
             \A q \in DOMAIN asked(k) : q \in DOMAIN asked(k)' /\ asked(k)'[q] = asked(k)[q],
             \/ Len(entered'[k]) = Len(entered[k])
             \/ \A q \in DOMAIN asked(k) : ~(q > Len(entered[k])),
             user[k] # "gone"
      PROVE  MadeAsAsked(k)'
  <2>1. /\ made(k)' = made(k)
        /\ \A n \in made(k) : log'[n] = log[n]
    BY <1>1, <1>4, MadeStays
  <2>2. placings(k, made(k))' # {}
    BY <1>3, <1>4, <2>1, PlacesStay
  <2> QED BY <2>2 DEF MadeAsAsked
<1>5. CASE Connect(k)
  <2>1. user[k] = "new" /\ pc[k] = "none" /\ ~jammed[k] /\ up[k] = <<>> /\ down[k] = <<>>
    BY <1>1, <1>5 DEF Connect, InPhase, InTurn
  <2>2. /\ UNCHANGED <<entered, clientChoice, jammed, choice, up, down, log>>
        /\ user' = [user EXCEPT ![k] = "menu"] /\ pc' = [pc EXCEPT ![k] = "recv"]
        /\ \E a \in Int : amount' = [amount EXCEPT ![k] = a]
        /\ \E a \in Int : clientAmount' = [clientAmount EXCEPT ![k] = a]
    <3>1. Garbage \subseteq Int /\ (IF InputMayJam THEN Garbage ELSE {0}) \subseteq Int
      BY AtmAssumption DEF AtmAssumption
    <3>2. \E a \in Int : amount' = [amount EXCEPT ![k] = a]
      BY <1>5, <3>1 DEF Connect
    <3>3. \E a \in Int : clientAmount' = [clientAmount EXCEPT ![k] = a]
      BY <1>5, <3>1 DEF Connect
    <3> QED BY <1>5, <3>2, <3>3 DEF Connect, goto
  <2>3. AskedType'
    BY <1>1, <2>2 DEF AskedType
  <2>4. InPhase(k)'
    BY <1>1, <2>1, <2>2, EmptyLine DEF InPhase, Idle, between
  <2>5. Repeats(k)'
    BY <1>1, <2>1, <2>2 DEF Repeats
  <2>6. asked(k)' = asked(k)
    BY <2>1, <2>2 DEF asked
  <2>7. MadeAsAsked(k)'
    BY <1>4, <2>1, <2>2, <2>6
  <2> QED BY <1>1, <1>2, <2>2, <2>3, <2>4, <2>5, <2>7 DEF AskedType
<1>6. CASE Jam(k)
  <2>1. PICK c \in Int :
          /\ clientChoice' = [clientChoice EXCEPT ![k] = c]
          /\ clientChoice[k] # 0 => c = clientChoice[k]
    <3>1. clientChoice[k] \in Int
      BY <1>1 DEF AskedType
    <3>2. CASE clientChoice[k] = 0
      <4>1. \E c \in SentChoices : clientChoice' = [clientChoice EXCEPT ![k] = c]
        BY <1>6, <3>2 DEF Jam
      <4>2. SentChoices \subseteq Int
        BY DEF SentChoices
      <4> QED BY <3>2, <4>1, <4>2
    <3>3. CASE clientChoice[k] # 0
      BY <1>6, <3>1, <3>3 DEF Jam
    <3> QED BY <3>2, <3>3
  <2>2. /\ InputMayJam /\ ~jammed[k] /\ user[k] \in {"menu", "withdraw", "deposit"}
        /\ jammed' = [jammed EXCEPT ![k] = TRUE]
        /\ UNCHANGED <<pc, choice, amount, user, entered, clientAmount, up, down, log>>
    BY <1>6 DEF Jam, threadVars
  <2>3. AskedType'
    BY <1>1, <2>1, <2>2 DEF AskedType, SentChoices
  <2>4. InPhase(k)'
    BY <1>1, <2>2 DEF InPhase, Idle, Questioned, between
  <2>5. Repeats(k)'
    BY <1>1, <2>1, <2>2 DEF Repeats, AskedType
  <2>6. /\ entered'[k] = entered[k]
        /\ \A q \in DOMAIN asked(k) : q \in DOMAIN asked(k)' /\ asked(k)'[q] = asked(k)[q]
    <3>1. asked(k) = entered[k]
      BY <2>2 DEF asked
    <3>2. /\ entered[k] \in Seq(Orders) /\ Len(entered[k]) \in Nat
          /\ DOMAIN entered[k] = 1 .. Len(entered[k])
      BY <1>1 DEF AskedType
    <3>3. jammed'[k]
      BY <1>1, <2>2 DEF AskedType
    <3>4. asked(k)' = Append(entered[k], entry(k, clientChoice[k], clientAmount[k])')
      BY <2>2, <3>3 DEF asked
    <3> QED BY <2>2, <3>1, <3>2, <3>4
  <2>7. MadeAsAsked(k)'
    BY <1>4, <2>2, <2>6
  <2> QED BY <1>1, <1>2, <2>1, <2>2, <2>3, <2>4, <2>5, <2>7 DEF AskedType
<1>7. ASSUME NEW c \in SentChoices, Choose(k, c) PROVE AskedInv'
  <2> DEFINE next == CASE c = 1 -> "withdraw" [] c = 2 -> "deposit"
                       [] c = 3 -> "await"    [] OTHER -> "menu"
  <2>1. /\ c = 1 => next = "withdraw"
        /\ c = 2 => next = "deposit"
        /\ c = 3 => next = "await"
        /\ c = 5 => next = "menu"
        /\ c \in {1, 2, 3, 5}
    BY DEF SentChoices
  <2>2. /\ user[k] = "menu" /\ (jammed[k] => c = clientChoice[k])
        /\ clientChoice' = IF InputMayJam THEN [clientChoice EXCEPT ![k] = c]
                           ELSE clientChoice
        /\ user' = [user EXCEPT ![k] = next]
        /\ up' = [up EXCEPT ![k] = Append(up[k], [choice |-> c])]
        /\ UNCHANGED <<pc, choice, amount, entered, clientAmount, jammed, down, log>>
    BY <1>7 DEF Choose, kept, threadVars
  <2> HIDE DEF next
  <2>3. AskedType'
    BY <1>1, <2>1, <2>2 DEF AskedType
  <2>4. down[k] = <<>> /\ between(k) /\ up[k] \in endingIn(<<>>)
    BY <1>1, <2>2 DEF InPhase, Idle
  <2>5. InPhase(k)'
    <3>1. /\ user'[k] = next /\ up'[k] = Append(up[k], [choice |-> c])
          /\ down'[k] = <<>> /\ between(k)'
      BY <1>1, <2>2, <2>4 DEF between
    <3>2. up'[k] \in endingIn(<<[choice |-> c]>>)
      <4>1. <<>> \in Seq(Chosen \cup Given) /\ [choice |-> c] \in Chosen \cup Given
            /\ Append(<<>>, [choice |-> c]) = <<[choice |-> c]>>
        BY Kinds
      <4> QED BY <2>4, <3>1, <4>1, PutAtEnd
    <3>3. c = 5 => up'[k] \in endingIn(<<>>)
      BY <2>4, <3>1, PutFive
    <3> QED BY <2>1, <3>1, <3>2, <3>3 DEF InPhase, Idle, Questioned, Answering
  <2>6. Repeats(k)'
    BY <1>1, <2>1, <2>2 DEF Repeats, AskedType
  <2>7. asked(k)' = asked(k)
    BY <1>1, <2>2 DEF asked, entry, AskedType
  <2>8. MadeAsAsked(k)'
    BY <1>4, <2>2, <2>7
  <2> QED BY <1>1, <1>2, <2>2, <2>3, <2>5, <2>6, <2>8 DEF AskedType
<1>8. ASSUME NEW a \in Amounts \cup Garbage, EnterAmount(k, a) PROVE AskedInv'
  <2>1. PICK c \in {1, 2} :
        /\ user[k] = IF c = 1 THEN "withdraw" ELSE "deposit"
        /\ \/ ~jammed[k] /\ entered' = [entered EXCEPT ![k] = Append(entered[k], entry(k, c, a))]
           \/ jammed[k] /\ a = clientAmount[k] /\ UNCHANGED entered
        /\ clientAmount' = IF InputMayJam THEN [clientAmount EXCEPT ![k] = a]
                           ELSE clientAmount
        /\ up' = [up EXCEPT ![k] = Append(up[k], [amount |-> a])]
        /\ user' = [user EXCEPT ![k] = "await"]
        /\ UNCHANGED <<pc, choice, amount, clientChoice, jammed, down, log>>
    <3>1. CASE user[k] = "withdraw"
      BY <1>8, <3>1 DEF EnterAmount, kept, threadVars
    <3>2. CASE user[k] = "deposit"
      BY <1>8, <3>2 DEF EnterAmount, kept, threadVars
    <3> QED BY <1>8, <3>1, <3>2 DEF EnterAmount
  <2>2. down[k] = <<>> /\ Questioned(k, c)
        /\ (jammed[k] => clientChoice[k] = c)
    <3>1. CASE c = 1
      BY <1>1, <2>1, <3>1 DEF InPhase, Repeats
    <3>2. CASE c = 2
      BY <1>1, <2>1, <3>2 DEF InPhase, Repeats
    <3> QED BY <3>1, <3>2
  <2>3. a \in Transfers /\ a \in Int /\ entry(k, c, a) \in Orders
    BY AtmAssumption DEF Transfers, AtmAssumption, entry, Orders
  <2>4. AskedType'
    <3>1. entered[k] \in Seq(Orders)
      BY <1>1 DEF AskedType
    <3>2. Append(entered[k], entry(k, c, a)) \in Seq(Orders)
      BY <2>3, <3>1
    <3>3. entered' \in [Connections -> Seq(Orders)]
      BY <1>1, <2>1, <3>2 DEF AskedType
    <3>4. clientAmount' \in [Connections -> Int]
      BY <1>1, <2>1, <2>3 DEF AskedType
    <3> QED BY <1>1, <2>1, <3>3, <3>4 DEF AskedType
  <2>5. Ordered(k, c, a)'
    <3>1. up'[k] = Append(up[k], [amount |-> a]) /\ pc'[k] = pc[k] /\ choice'[k] = choice[k]
      BY <1>1, <2>1
    <3> DEFINE s == <<[choice |-> c]>>
    <3>2. /\ s \in Seq(Chosen \cup Given) /\ [amount |-> a] \in Chosen \cup Given
          /\ Append(s, [amount |-> a]) = <<[choice |-> c], [amount |-> a]>>
      <4>1. [choice |-> c] \in Chosen /\ [amount |-> a] \in Given
        BY <2>3, Kinds DEF SentChoices
      <4>2. s \in Seq(Chosen \cup Given)
        BY <4>1
      <4>3. Append(s, [amount |-> a]) = <<[choice |-> c], [amount |-> a]>>
        <5> DEFINE x == [choice |-> c]
                   y == [amount |-> a]
                   S == Chosen \cup Given
        <5>1. x \in S /\ y \in S
          BY <4>1
        <5> HIDE DEF x, y, S
        <5>2. Append(<<x>>, y) = <<x, y>>
          BY <5>1, TwoMessages
        <5> QED BY <5>2 DEF x, y
      <4> QED BY <4>1, <4>2, <4>3
    <3>3. CASE between(k) /\ up[k] \in endingIn(s)
      <4> HIDE DEF s
      <4>1. Append(up[k], [amount |-> a]) \in endingIn(Append(s, [amount |-> a]))
        BY <3>2, <3>3, PutAtEnd
      <4>2. up'[k] \in endingIn(<<[choice |-> c], [amount |-> a]>>)
        BY <3>1, <3>2, <4>1
      <4>3. between(k)'
        BY <3>1, <3>3 DEF between
      <4> QED BY <4>2, <4>3 DEF Ordered
    <3>4. CASE pc[k] \in {"lock", "read", "amount"} /\ choice[k] = c /\ up[k] = <<>>
      <4>1. up'[k] = <<[amount |-> a]>>
        BY <3>1, <3>4
      <4> QED BY <3>1, <3>4, <4>1 DEF Ordered
    <3> QED BY <2>2, <3>3, <3>4 DEF Questioned
  <2>6. nextPlacings(k, entry(k, c, a))' # {}
    BY <1>1, <1>3, <2>1, <2>2, <2>4, EnterOrder DEF AskedType
  <2>7. Pending(k)'
    BY <2>2, <2>3, <2>5, <2>6 DEF Pending
  <2>8. InPhase(k)'
    BY <1>1, <2>1, <2>2, <2>7 DEF InPhase
  <2>9. Repeats(k)'
    BY <1>1, <2>1 DEF Repeats
  <2>10. MadeAsAsked(k)'
    <3>1. placings(k, made(k))' # {}
      BY <2>6 DEF nextPlacings
    <3> QED BY <3>1 DEF MadeAsAsked
  <2> QED BY <1>1, <1>2, <2>1, <2>4, <2>8, <2>9, <2>10 DEF AskedType
<1>9. CASE Receive(k)
  <2>1. /\ user[k] = "await" /\ down[k] # <<>>
        /\ down' = [down EXCEPT ![k] = Tail(down[k])]
        /\ user' = [user EXCEPT ![k] = "menu"]
        /\ UNCHANGED <<pc, choice, amount, entered, clientChoice, clientAmount,
                       jammed, up, log>>
    BY <1>9 DEF Receive, threadVars, localVars
  <2>2. Len(down[k]) = 1 /\ Answered(k)
    BY <1>1, <2>1 DEF InPhase
  <2>3. down[k] \in Seq(Int) /\ Tail(down[k]) = <<>>
    <3>1. down[k] \in Seq(Int) /\ Len(down[k]) = 1
      BY <1>1, <2>2 DEF AskedType
    <3>2. ASSUME NEW d \in Seq(Int), Len(d) = 1 PROVE Tail(d) = <<>>
      <4>1. Tail(d) \in Seq(Int) /\ Len(Tail(d)) = 0
        BY <3>2
      <4>2. ASSUME NEW t \in Seq(Int), Len(t) = 0 PROVE t = <<>>
        BY <4>2
      <4> QED BY <4>1, <4>2
    <3> QED BY <3>1, <3>2
  <2>4. AskedType'
    BY <1>1, <2>1, <2>3 DEF AskedType
  <2>5. InPhase(k)'
    <3>1. user'[k] = "menu" /\ down'[k] = <<>> /\ up'[k] = <<>>
          /\ pc'[k] \in {"unlock", "recv"}
      BY <1>1, <2>1, <2>2, <2>3 DEF Answered, AskedType
    <3> QED BY <3>1, EmptyLine DEF InPhase, Idle, between
  <2>6. Repeats(k)'
    BY <1>1, <2>1 DEF Repeats
  <2>7. asked(k)' = asked(k)
    BY <2>1 DEF asked, entry
  <2>8. MadeAsAsked(k)'
    BY <1>4, <2>1, <2>7
  <2> QED BY <1>1, <1>2, <2>1, <2>4, <2>5, <2>6, <2>8 DEF AskedType
<1>10. CASE Leave(k)
  <2>1. /\ user[k] \notin {"new", "gone"}
        /\ user' = [user EXCEPT ![k] = "gone"]
        /\ up' = IF down[k] = <<>> THEN up ELSE [up EXCEPT ![k] = <<>>]
        /\ down' = [down EXCEPT ![k] = <<>>]
        /\ UNCHANGED <<pc, choice, amount, entered, clientChoice, clientAmount,
                       jammed, log>>
    BY <1>10 DEF Leave, threadVars, localVars
  <2>2. AskedType'
    BY <1>1, <2>1 DEF AskedType
  <2>3. asked(k)' = asked(k)
    BY <2>1 DEF asked, entry
  <2>4. InPhase(k)'
    <3>1. user'[k] = "gone"
      BY <1>1, <2>1
    <3>2. CASE down[k] = <<>>
      <4>1. up'[k] = up[k]
        BY <2>1, <3>2
      <4>2. (Idle(k) => Idle(k)') /\ (Answering(k) => Answering(k)')
            /\ (Questioned(k, 1) => Questioned(k, 1)')
            /\ (Questioned(k, 2) => Questioned(k, 2)')
        BY <2>1, <4>1 DEF Idle, Answering, Questioned, between
      <4>3. Pending(k) => Pending(k)'
        <5>1. ASSUME NEW c \in {1, 2}, NEW a \in Transfers, Ordered(k, c, a),
                     nextPlacings(k, entry(k, c, a)) # {}
              PROVE  Pending(k)'
          <6>1. Ordered(k, c, a)'
            BY <2>1, <4>1, <5>1 DEF Ordered, between
          <6> DEFINE e == entry(k, c, a)
          <6>2. e' = e
            BY DEF entry
          <6> HIDE DEF e
          <6>3. nextPlacings(k, e)' # {}
            BY <1>1, <2>1, <2>3, <5>1, <6>2, NextStays DEF e
          <6> QED BY <6>1, <6>3 DEF Pending, e
        <5> QED BY <5>1 DEF Pending
      <4> QED BY <1>1, <2>1, <3>1, <3>2, <4>2, <4>3 DEF InPhase
    <3>3. CASE down[k] # <<>>
      <4>1. user[k] = "await" /\ Answered(k)
        BY <1>1, <2>1, <3>3 DEF InPhase
      <4>2. up'[k] = <<>>
        BY <1>1, <2>1, <3>3
      <4>3. Over(k)'
        BY <2>1, <4>1, <4>2 DEF Over, Answered
      <4> QED BY <3>1, <4>3 DEF InPhase
    <3> QED BY <3>2, <3>3
  <2>5. Repeats(k)'
    BY <1>1, <2>1 DEF Repeats
  <2>6. MadeAsAsked(k)'
    BY <1>4, <2>1, <2>3
  <2> QED BY <1>1, <1>2, <2>1, <2>2, <2>4, <2>5, <2>6 DEF AskedType
<1> QED BY <1>5, <1>6, <1>7, <1>8, <1>9, <1>10 DEF client

\* A crash ends every thread after what it has made.
LEMMA CrashAsked ==
    ASSUME ProtocolInv, AskedInv, Crash
    PROVE  AskedInv'
<1>1. AskedType /\ log \in Seq(Entries)
  BY DEF ProtocolInv, ServerType, AskedInv
<1>2. /\ user' = [k \in Connections |-> IF user[k] = "new" THEN "new" ELSE "gone"]
      /\ pc' = [k \in Connections |-> IF pc[k] = "none" THEN "none" ELSE "done"]
      /\ up' = [k \in Connections |-> <<>>]
      /\ down' = [k \in Connections |-> <<>>]
      /\ UNCHANGED <<entered, clientChoice, clientAmount, jammed, log>>
  BY DEF Crash, localVars
<1>3. AskedType'
  BY <1>1, <1>2 DEF AskedType
<1>4. ASSUME NEW k \in Connections
      PROVE  InPhase(k)' /\ Repeats(k)' /\ MadeAsAsked(k)'
  <2>1. InTurn(k) /\ InPhase(k) /\ Repeats(k) /\ MadeAsAsked(k)
    BY DEF ProtocolInv, AskedInv
  <2>2. up'[k] = <<>> /\ down'[k] = <<>>
    BY <1>2
  <2>3. /\ made(k)' = made(k)
        /\ \A n \in made(k) : log'[n] = log[n]
        /\ asked(k)' = asked(k) /\ entered'[k] = entered[k]
    BY <1>1, <1>2, MadeStays DEF asked, entry
  <2>4. placings(k, made(k)) # {} => placings(k, made(k))' # {}
    BY <2>3, PlacesStay
  <2>5. CASE user[k] = "new"
    <3>1. user'[k] = "new" /\ ~jammed'[k]
      BY <1>2, <2>1, <2>5 DEF InPhase
    <3>2. placings(k, made(k))' # {}
      BY <2>1, <2>4, <2>5 DEF MadeAsAsked
    <3> QED BY <2>2, <3>1, <3>2 DEF InPhase, Repeats, MadeAsAsked
  <2>6. CASE user[k] # "new"
    <3>1. pc[k] # "none"
      BY <2>1, <2>6
      DEF InPhase, Idle, Questioned, Pending, Ordered, Answering, Answered, Over, between
    <3>2. user'[k] = "gone" /\ pc'[k] = "done"
      BY <1>2, <2>6, <3>1
    <3>3. Over(k)'
      BY <2>2, <3>2 DEF Over
    <3>4. InPhase(k)' /\ Repeats(k)'
      BY <1>2, <2>1, <3>2, <3>3 DEF InPhase, Repeats
    <3>5. MadeAsAsked(k)'
      <4>1. CASE placings(k, made(k)) # {}
        BY <2>4, <4>1 DEF MadeAsAsked
      <4>2. CASE placings(k, made(k)) = {}
        <5>1. (\E last \in made(k) : /\ \A n \in made(k) : n <= last
                                     /\ placings(k, made(k) \ {last}) # {})'
          BY <2>1, <2>3, <4>2, OtherPlacesStay DEF MadeAsAsked
        <5> QED BY <2>2, <3>2, <5>1 DEF MadeAsAsked
      <4> QED BY <4>1, <4>2
    <3> QED BY <3>4, <3>5
  <2> QED BY <2>5, <2>6
<1> QED BY <1>3, <1>4 DEF AskedInv

LEMMA AskedInit == Init => AskedInv
<1> SUFFICES ASSUME Init PROVE AskedInv
  OBVIOUS
<1>1. AskedType
  <2>1. <<>> \in Seq(Int) /\ <<>> \in Seq(Orders)
    OBVIOUS
  <2> QED BY <2>1 DEF Init, AskedType
<1>2. ASSUME NEW k \in Connections PROVE InPhase(k) /\ Repeats(k) /\ MadeAsAsked(k)
  <2>1. /\ user[k] = "new" /\ up[k] = <<>> /\ down[k] = <<>> /\ ~jammed[k] /\ log = <<>>
    BY DEF Init
  <2>2. made(k) = {}
    BY <2>1 DEF made
  <2>3. [n \in {} |-> n] \in placings(k, {})
    BY DEF placings
  <2>4. placings(k, made(k)) # {}
    BY <2>2, <2>3
  <2> QED BY <2>1, <2>4 DEF InPhase, Repeats, MadeAsAsked
<1> QED BY <1>1, <1>2 DEF AskedInv

LEMMA AskedStep ==
    ASSUME ProtocolInv, AskedInv, [Next]_vars
    PROVE  AskedInv'
<1>1. CASE Crash
  BY <1>1, CrashAsked
<1>2. CASE \E k \in Connections : client(k) \/ client_handler(k)
  BY <1>2, ClientAsked, HandlerAsked
<1>3. CASE UNCHANGED vars
  <2>1. /\ AskedType /\ log \in Seq(Entries)
        /\ \A k \in Connections : InPhase(k) /\ Repeats(k) /\ MadeAsAsked(k)
    BY DEF AskedInv, ProtocolInv, ServerType
  <2>2. AskedType'
    BY <1>3, <2>1 DEF AskedType, vars, clientVars, localVars
  <2>3. ASSUME NEW k \in Connections
        PROVE  InPhase(k)' /\ Repeats(k)' /\ MadeAsAsked(k)'
    BY <1>3, <2>1, OthersStay DEF vars, clientVars, localVars, threadVars
  <2> QED BY <2>2, <2>3 DEF AskedInv
<1> QED BY <1>1, <1>2, <1>3 DEF Next

\* The server makes the transactions a user asked for, in that order and each
\* once: whatever the threads of other users do, wherever the client stops, leaves
\* or cannot read its input, and whenever the server dies.
THEOREM AskedForCorrect == Spec => []TransactionsAreAskedFor
<1>1. Init => ProtocolInv /\ AskedInv
  BY ProtocolInit, AskedInit
<1>2. ProtocolInv /\ AskedInv /\ [Next]_vars => (ProtocolInv /\ AskedInv)'
  BY ProtocolStep, AskedStep
<1>3. AskedInv => TransactionsAreAskedFor
  BY DEF AskedInv, MadeAsAsked, made, TransactionsAreAskedFor
<1> QED BY <1>1, <1>2, <1>3, PTL DEF Spec

-----------------------------------------------------------------------------
(* The ledger.                                                               *)

\* What the balance may be after a transaction that makes it sum.
settled(b, sum) == b = sum \/ (sum \notin -Limit .. Limit /\ b \in Int)

\* A thread at fopen holds the balance that the file is going to have, computed
\* from the one it has; one at fclose is the reason why the file is empty.
SettledInv ==
    \A k \in Connections :
        /\ pc[k] = "write" => file = NULL
        /\ pc[k] = "open" /\ choice[k] = 1 =>
              /\ amount[k] <= contents
              /\ settled(current_balance[k], contents - amount[k])
        /\ pc[k] = "open" /\ choice[k] = 2 =>
              settled(current_balance[k], contents + amount[k])

\* A thread that is inside is alone there, so the balance is its own while it
\* writes and the content of the file otherwise.
LEMMA CommittedBalance ==
    ASSUME MutexInv
    PROVE  /\ \A k \in Connections : pc[k] = "write" => committed = current_balance[k]
           /\ (\A k \in Connections : pc[k] # "write") => committed = contents
<1> DEFINE w == {k \in Connections : pc[k] = "write"}
<1>1. ASSUME NEW k \in Connections, pc[k] = "write" PROVE committed = current_balance[k]
  <2>1. w = {k}
    BY <1>1 DEF MutexInv, NoStaleBalance, inside
  <2>2. k = CHOOSE j \in w : TRUE
    BY <2>1
  <2>3. w # {}
    BY <2>1
  <2> QED BY <2>2, <2>3 DEF committed
<1>2. ASSUME \A k \in Connections : pc[k] # "write" PROVE committed = contents
  <2>1. w = {}
    BY <1>2
  <2> QED BY <2>1 DEF committed
<1> QED BY <1>1, <1>2

\* What is the same in the state after a step, since it holds in every state.
LEMMA CommittedBalanceNext ==
    ASSUME MutexInv'
    PROVE  /\ \A k \in Connections : pc'[k] = "write" => committed' = current_balance'[k]
           /\ (\A k \in Connections : pc'[k] # "write") => committed' = contents'
<1> DEFINE w == {k \in Connections : pc'[k] = "write"}
<1>1. ASSUME NEW k \in Connections, pc'[k] = "write" PROVE committed' = current_balance'[k]
  <2>1. w = {k}
    BY <1>1 DEF MutexInv, NoStaleBalance, inside
  <2>2. k = CHOOSE j \in w : TRUE
    BY <2>1
  <2>3. w # {}
    BY <2>1
  <2> QED BY <2>2, <2>3 DEF committed
<1>2. ASSUME \A k \in Connections : pc'[k] # "write" PROVE committed' = contents'
  <2>1. w = {}
    BY <1>2
  <2> QED BY <2>1 DEF committed
<1> QED BY <1>1, <1>2

\* As long as no thread moves to or from fclose and the file stays, so does the
\* balance.
LEMMA CommittedKept ==
    ASSUME MutexInv, MutexInv', UNCHANGED file,
           \A k \in Connections : /\ pc'[k] = "write" <=> pc[k] = "write"
                                  /\ pc[k] = "write" =>
                                        current_balance'[k] = current_balance[k]
    PROVE  committed' = committed
<1>1. CASE \E k \in Connections : pc[k] = "write"
  BY <1>1, CommittedBalance, CommittedBalanceNext
<1>2. CASE \A k \in Connections : pc[k] # "write"
  BY <1>2, CommittedBalance, CommittedBalanceNext DEF contents
<1> QED BY <1>1, <1>2

LedgerInv == MutexInv /\ ProtocolInv /\ SettledInv

\* The two facts that every step has to establish.
LedgerStep == SettledInv' /\ [Ledger!Next]_<<committed, log, crashes>>

\* A step outside of fopen and fclose is none of the ledger's.
LEMMA StutterStep ==
    ASSUME LedgerInv, MutexInv', UNCHANGED <<file, log, crashes>>,
           \A k \in Connections :
              /\ pc'[k] = "write" <=> pc[k] = "write"
              /\ pc'[k] = "open" => pc[k] = "open"
              /\ pc[k] \in {"open", "write"} =>
                    /\ current_balance'[k] = current_balance[k]
                    /\ amount'[k] = amount[k] /\ choice'[k] = choice[k]
    PROVE  LedgerStep
<1>1. committed' = committed
  BY CommittedKept DEF LedgerInv
<1>2. SettledInv'
  BY DEF LedgerInv, SettledInv, settled, contents
<1> QED BY <1>1, <1>2 DEF LedgerStep

LEMMA CrashLedger == ASSUME LedgerInv, MutexInv', Crash PROVE LedgerStep
<1>1. ServerType
  BY DEF LedgerInv, ProtocolInv
<1>2. \A k \in Connections : pc'[k] \in {"none", "done"}
  BY DEF Crash
<1>3. SettledInv'
  BY <1>2 DEF SettledInv
<1>4. committed' = contents
  BY <1>2, CommittedBalanceNext DEF Crash, contents
<1>5. committed' \in {committed, 0}
  <2>1. CASE \E k \in Connections : pc[k] = "write"
    BY <1>4, <2>1 DEF LedgerInv, SettledInv, contents
  <2>2. CASE \A k \in Connections : pc[k] # "write"
    BY <1>4, <2>2, CommittedBalance DEF LedgerInv
  <2> QED BY <2>1, <2>2
<1> QED BY <1>3, <1>5 DEF Crash, LedgerStep, Ledger!Next, Ledger!Crash

\* A thread computes from what the file holds, with a sum that is exact up to
\* Limit.
LEMMA DecideLedger ==
    ASSUME LedgerInv, MutexInv', ~OpenMayFail, NEW k \in Connections, recvAmount(k)
    PROVE  LedgerStep
<1>1. ServerType
  BY DEF LedgerInv, ProtocolInv
<1>2. PICK a \in Int : decide(k, a)
  <2>1. CASE up[k] = <<>>
    <3>1. amount[k] \in Transfers
      BY DEF recvAmount, LedgerInv, ProtocolInv, InTurn
    <3> QED BY <2>1, <3>1, AtmAssumption DEF recvAmount, Transfers, AtmAssumption
  <2>2. CASE up[k] # <<>>
    <3>1. up[k] \in Seq(Chosen \cup Given) /\ inTurn(up[k], Given)
      BY DEF LedgerInv, ProtocolInv, ServerType, InTurn, expected, recvAmount
    <3>2. Head(up[k]).amount \in Int
      BY <2>2, <3>1, TakeInTurn, Kinds, AtmAssumption DEF Transfers, AtmAssumption
    <3> QED BY <2>2, <3>2 DEF recvAmount
  <2> QED BY <2>1, <2>2
<1>3. /\ pc[k] = "amount" /\ current_balance[k] = contents /\ contents \in Int
      /\ UNCHANGED <<choice, file, log, crashes>>
      /\ pc'[k] \in {"open", "send"} /\ amount'[k] = a
      /\ \A j \in Connections \ {k} : /\ pc'[j] = pc[j] /\ amount'[j] = amount[j]
                                      /\ current_balance'[j] = current_balance[j]
  BY <1>1, <1>2
  DEF recvAmount, decide, goto, LedgerInv, MutexInv, NoStaleBalance, contents, ServerType
\* Nobody else is inside.
<1>4. \A j \in Connections \ {k} : pc[j] \notin {"open", "write"}
  BY <1>3 DEF LedgerInv, MutexInv, NoStaleBalance, inside
<1>5. ASSUME NEW x \in Int, current_balance'[k] = asFloat(x)
      PROVE  settled(current_balance'[k], x)
  BY <1>5, AsFloat DEF settled
<1>6. pc'[k] = "open" =>
        /\ choice[k] = 1 => a <= contents /\ settled(current_balance'[k], contents - a)
        /\ choice[k] = 2 => settled(current_balance'[k], contents + a)
  <2>1. contents - a \in Int /\ contents + a \in Int
    BY <1>3
  <2>2. CASE choice[k] = 1 /\ sufficient(k, a)
    <3>1. a <= contents
      BY <1>3, <2>2 DEF sufficient
    <3>2. current_balance'[k] = asFloat(contents - a)
      BY <1>1, <1>2, <1>3, <2>2 DEF decide, ServerType
    <3> QED BY <1>5, <2>1, <2>2, <3>1, <3>2
  <2>3. CASE choice[k] = 2
    <3>1. current_balance'[k] = asFloat(contents + a)
      BY <1>1, <1>2, <1>3, <2>3 DEF decide, ServerType
    <3> QED BY <1>5, <2>1, <2>3, <3>1
  <2>4. CASE choice[k] = 1 /\ ~sufficient(k, a)
    BY <1>1, <1>2, <2>4 DEF decide, goto, LedgerInv, MutexInv
  <2> QED BY <1>2, <2>2, <2>3, <2>4 DEF decide
<1>7. SettledInv'
  BY <1>3, <1>4, <1>6 DEF SettledInv, contents
<1>8. committed' = committed
  BY <1>3, <1>4, CommittedKept DEF LedgerInv
<1> QED BY <1>3, <1>7, <1>8 DEF LedgerStep

\* The transaction happens when the file is opened.
LEMMA OpenLedger ==
    ASSUME LedgerInv, MutexInv', ~OpenMayFail, NEW k \in Connections, openFile(k)
    PROVE  LedgerStep
<1>1. ServerType /\ InTurn(k)
  BY DEF LedgerInv, ProtocolInv
<1>2. /\ pc[k] = "open" /\ choice[k] \in {1, 2} /\ amount[k] \in Transfers
      /\ UNCHANGED <<choice, amount, current_balance, crashes>>
      /\ log' = Append(log, entry(k, choice[k], amount[k]))
      /\ file' = NULL /\ pc'[k] = "write"
      /\ \A j \in Connections \ {k} : pc'[j] = pc[j]
  BY <1>1 DEF openFile, goto, ServerType, InTurn
<1>3. \A j \in Connections \ {k} : pc[j] \notin {"open", "write"}
  BY <1>2 DEF LedgerInv, MutexInv, NoStaleBalance, inside
<1>4. SettledInv'
  BY <1>2, <1>3 DEF SettledInv
<1>5. committed = contents /\ committed' = current_balance[k]
  BY <1>2, <1>3, CommittedBalance, CommittedBalanceNext DEF LedgerInv
<1>6. /\ choice[k] = 1 => /\ amount[k] <= committed
                          /\ settled(committed', committed - amount[k])
      /\ choice[k] = 2 => settled(committed', committed + amount[k])
  BY <1>2, <1>5 DEF LedgerInv, SettledInv
<1>7. CASE choice[k] = 1
  <2>1. Ledger!Withdraw(k, amount[k])
    BY <1>2, <1>6, <1>7 DEF Ledger!Withdraw, Ledger!settles, Ledger!entry, entry, settled
  <2> QED BY <1>2, <1>4, <2>1 DEF LedgerStep, Ledger!Next, Transfers
<1>8. CASE choice[k] = 2
  <2>1. Ledger!Deposit(k, amount[k])
    BY <1>2, <1>6, <1>8 DEF Ledger!Deposit, Ledger!settles, Ledger!entry, entry, settled
  <2> QED BY <1>2, <1>4, <2>1 DEF LedgerStep, Ledger!Next, Transfers
<1> QED BY <1>2, <1>7, <1>8

\* When the file is closed it holds what the transaction made of it.
LEMMA WriteLedger ==
    ASSUME LedgerInv, MutexInv', NEW k \in Connections, writeFile(k)
    PROVE  LedgerStep
<1>1. ServerType
  BY DEF LedgerInv, ProtocolInv
<1>2. /\ pc[k] = "write" /\ file' = current_balance[k] /\ pc'[k] = "send"
      /\ current_balance[k] \in Int
      /\ UNCHANGED <<choice, amount, current_balance, log, crashes>>
      /\ \A j \in Connections \ {k} : pc'[j] = pc[j]
  BY <1>1 DEF writeFile, goto, ServerType
<1>3. \A j \in Connections \ {k} : pc[j] \notin {"open", "write"}
  BY <1>2 DEF LedgerInv, MutexInv, NoStaleBalance, inside
<1>4. SettledInv'
  BY <1>2, <1>3 DEF SettledInv
<1>5. committed = current_balance[k]
  BY <1>2, CommittedBalance DEF LedgerInv
<1>6. committed' = contents'
  BY <1>2, <1>3, CommittedBalanceNext
<1>7. contents' = current_balance[k]
  BY <1>2, AtmAssumption DEF contents, AtmAssumption
<1> QED BY <1>2, <1>4, <1>5, <1>6, <1>7 DEF LedgerStep

LEMMA NextLedger ==
    ASSUME LedgerInv, MutexInv', ~OpenMayFail, [Next]_vars
    PROVE  LedgerStep
<1>1. ServerType /\ DOMAIN pc = Connections
  BY DEF LedgerInv, ProtocolInv, ServerType
<1>2. CASE Crash
  BY <1>2, CrashLedger
<1>3. ASSUME NEW k \in Connections, client(k) PROVE LedgerStep
  <2>1. ProtocolInv
    BY DEF LedgerInv
  <2>2. /\ UNCHANGED <<choice, current_balance, file, log, crashes>>
        /\ \/ UNCHANGED <<pc, amount>>
           \/ pc[k] = "none" /\ pc' = [pc EXCEPT ![k] = "recv"]
              /\ \A j \in Connections : j # k => amount'[j] = amount[j]
    BY <1>3, <2>1, ClientLeavesThreads
  <2> QED BY <1>1, <2>2, StutterStep
<1>4. ASSUME NEW k \in Connections, client_handler(k) PROVE LedgerStep
  <2>1. ASSUME UNCHANGED <<choice, current_balance, amount, file, log, crashes>>,
               pc[k] \notin {"open", "write"},
               NEW p, pc' = [pc EXCEPT ![k] = p], p \notin {"open", "write"}
        PROVE  LedgerStep
    BY <1>1, <2>1, StutterStep DEF ServerType
  <2>2. CASE hangUp(k) \/ lock(k) \/ sendReply(k) \/ unlock(k)
    BY <2>1, <2>2 DEF hangUp, lock, sendReply, unlock, goto
  <2>3. CASE recvChoice(k)
    <3>1. /\ UNCHANGED <<amount, current_balance, file, log, crashes>> /\ pc[k] = "recv"
          /\ pc'[k] = "lock"
          /\ \A j \in Connections \ {k} : choice'[j] = choice[j] /\ pc'[j] = pc[j]
      BY <1>1, <2>3 DEF recvChoice, goto, ServerType
    <3> QED BY <3>1, StutterStep
  <2>4. CASE read_balance(k)
    <3>1. /\ UNCHANGED <<amount, choice, file, log, crashes>> /\ pc[k] = "read"
          /\ pc'[k] \notin {"open", "write"}
          /\ \A j \in Connections \ {k} : /\ current_balance'[j] = current_balance[j]
                                          /\ pc'[j] = pc[j]
      BY <1>1, <2>4 DEF read_balance, goto, ServerType
    <3> QED BY <3>1, StutterStep
  <2> QED BY <1>4, <2>2, <2>3, <2>4, DecideLedger, OpenLedger, WriteLedger
          DEF client_handler
<1>5. CASE UNCHANGED vars
  BY <1>5, StutterStep DEF vars, clientVars, threadVars
<1> QED BY <1>2, <1>3, <1>4, <1>5 DEF Next

\* The bank server implements one account on which the transactions happen one
\* at a time, for any number of connections, requests and crashes and any amounts
\* and float width: opening the file for writing is the moment a transaction
\* happens, everything else is invisible, and only a crash loses the balance.  The
\* one hypothesis is that the file can be opened: if it cannot, the code reports a
\* transaction that it has not made.
THEOREM LedgerImplemented == ~OpenMayFail => (Spec => AtomicLedger)
<1> SUFFICES ASSUME ~OpenMayFail PROVE Spec => AtomicLedger
  OBVIOUS
<1>1. Init => LedgerInv
  <2>1. Init => SettledInv
    BY DEF Init, SettledInv
  <2> QED BY <2>1, MutexInit, ProtocolInit DEF LedgerInv
<1>2. LedgerInv /\ [Next]_vars => LedgerInv'
  BY NextLedger, NextKeepsMutex, ProtocolStep DEF LedgerInv, LedgerStep
<1>3. Init => Ledger!Init
  BY MutexInit, CommittedBalance, AtmAssumption
  DEF Init, Ledger!Init, contents, AtmAssumption
<1>4. LedgerInv /\ [Next]_vars => [Ledger!Next]_<<committed, log, crashes>>
  BY NextLedger, NextKeepsMutex DEF LedgerInv, LedgerStep
<1> QED BY <1>1, <1>2, <1>3, <1>4, PTL DEF Spec, AtomicLedger, Ledger!Spec, Ledger!vars

-----------------------------------------------------------------------------
(* The sort demonstrations: arrays.                                          *)

Places == 1 .. 5
Arrays == [Places -> Int]
Values == {original[mechanism][k] : k \in Places}

\* The arrays in order.
ordered == {a \in rearranged : \A k \in 1 .. 4 : a[k] <= a[k + 1]}

\* The last i elements are where they belong.
placed(a, i) == \A k \in 6 - i .. 5 : \A m \in 1 .. k : a[m] <= a[k]

\* None of the first k elements is greater than the next one.
atMost(a, k) == \A m \in 1 .. k : a[m] <= a[k + 1]

sorting(a, i, j) == a \in rearranged /\ placed(a, i) /\ atMost(a, j)

\* A swap is half done: the greater element is only in v.
halfDone(a, i, j, v) ==
    /\ a \in [Places -> Values] /\ v \in Values
    /\ sorting([a EXCEPT ![j + 2] = v], i, j + 1)

LEMMA OriginalIs ==
    ASSUME mechanism \in Mechanisms
    PROVE  original[mechanism] \in Arrays
BY DEF original, Mechanisms, Arrays, Places

LEMMA RearrangedAre ==
    ASSUME mechanism \in Mechanisms
    PROVE  /\ original[mechanism] \in rearranged
           /\ rearranged \subseteq [Places -> Values]
           /\ Values \subseteq Int
           /\ [Places -> Values] \subseteq Arrays
<1> DEFINE o == original[mechanism]
<1>1. o \in Arrays
  BY OriginalIs
<1>2. o \in rearranged
  <2> DEFINE p == [k \in 1 .. 5 |-> k]
  <2>1. p \in {f \in [1 .. 5 -> 1 .. 5] : IsInjective(f)}
    BY DEF IsInjective
  <2>2. o = [k \in 1 .. 5 |-> o[p[k]]]
    BY <1>1 DEF Arrays, Places
  <2> HIDE DEF p, o
  <2>3. o \in {[k \in 1 .. 5 |-> o[q[k]]] : q \in {f \in [1 .. 5 -> 1 .. 5] : IsInjective(f)}}
    BY <2>1, <2>2
  <2> QED BY <2>3 DEF rearranged, o
<1>3. Values \subseteq Int
  BY <1>1 DEF Values, Arrays
<1>4. ASSUME NEW a \in rearranged PROVE a \in [Places -> Values]
  <2>1. PICK p \in [1 .. 5 -> 1 .. 5] : a = [k \in 1 .. 5 |-> o[p[k]]]
    BY DEF rearranged
  <2>2. \A k \in 1 .. 5 : o[p[k]] \in Values
    BY DEF Values, Places
  <2> HIDE DEF o
  <2> QED BY <2>1, <2>2 DEF Places
<1>5. [Places -> Values] \subseteq Arrays
  BY <1>3 DEF Arrays
<1> QED BY <1>2, <1>3, <1>4, <1>5

LEMMA Swapped ==
    ASSUME NEW a \in rearranged, NEW k \in 1 .. 4
    PROVE  [[a EXCEPT ![k] = a[k + 1]] EXCEPT ![k + 1] = a[k]] \in rearranged
<1> DEFINE o == original[mechanism]
<1>1. PICK p \in [1 .. 5 -> 1 .. 5] : IsInjective(p) /\ a = [m \in 1 .. 5 |-> o[p[m]]]
  BY DEF rearranged
<1> DEFINE q == [m \in 1 .. 5 |-> IF m = k THEN p[k + 1] ELSE IF m = k + 1 THEN p[k] ELSE p[m]]
           b == [[a EXCEPT ![k] = a[k + 1]] EXCEPT ![k + 1] = a[k]]
<1>2. q \in [1 .. 5 -> 1 .. 5] /\ IsInjective(q)
  BY <1>1 DEF IsInjective
<1>3. b = [m \in 1 .. 5 |-> o[q[m]]]
  <2> HIDE DEF o
  <2> QED BY <1>1
<1> HIDE DEF q, b
<1>4. b \in rearranged
  BY <1>2, <1>3 DEF rearranged
<1> QED BY <1>4 DEF b

\* Two elements that are the wrong way round change places.
LEMMA HalfSwap ==
    ASSUME mechanism \in Mechanisms, NEW a, NEW i \in 0 .. 3, NEW j \in 0 .. 3 - i, sorting(a, i, j),
           a[j + 1] > a[j + 2]
    PROVE  halfDone([a EXCEPT ![j + 1] = a[j + 2]], i, j, a[j + 1])
<1> DEFINE b == [a EXCEPT ![j + 1] = a[j + 2]]
           v == a[j + 1]
           c == [b EXCEPT ![j + 2] = v]
           k == j + 1
<1>1. /\ a \in rearranged /\ a \in [Places -> Values] /\ a \in Arrays
      /\ k \in 1 .. 4 /\ k + 1 = j + 2 /\ k + 1 \in 1 .. 5 - i
      /\ a[k] > a[k + 1] /\ j = k - 1
  BY RearrangedAre DEF sorting
<1>2. c \in rearranged
  <2>1. c = [[a EXCEPT ![k] = a[k + 1]] EXCEPT ![k + 1] = a[k]]
    BY <1>1
  <2> HIDE DEF c, k
  <2> QED BY <1>1, <2>1, Swapped
<1>3. b \in [Places -> Values] /\ v \in Values
  BY <1>1 DEF Places
<1>4. /\ c[k] = a[k + 1] /\ c[k + 1] = a[k]
      /\ \A m \in 1 .. 5 : m # k /\ m # k + 1 => c[m] = a[m]
      /\ \A m \in 1 .. 5 : a[m] \in Int
  BY <1>1 DEF Arrays, Places
<1> HIDE DEF c, k, b, v
<1>5. placed(c, i)
  <2> SUFFICES ASSUME NEW l \in 6 - i .. 5, NEW m \in 1 .. l PROVE c[m] <= c[l]
    BY DEF placed
  <2>1. l \in 1 .. 5 /\ m \in 1 .. 5 /\ l # k /\ l # k + 1 /\ k \in 1 .. l /\ k + 1 \in 1 .. l
    BY <1>1
  <2>2. \A x \in 1 .. l : a[x] <= a[l]
    BY DEF sorting, placed
  <2> QED BY <1>4, <2>1, <2>2
<1>6. \A m \in 1 .. k : c[m] <= c[k + 1]
  <2> SUFFICES ASSUME NEW m \in 1 .. k PROVE c[m] <= c[k + 1]
    OBVIOUS
  <2>1. m \in 1 .. 5 /\ k \in 1 .. 5 /\ k + 1 \in 1 .. 5 /\ (m = k \/ m \in 1 .. j)
    BY <1>1
  <2>2. \A x \in 1 .. j : a[x] <= a[k]
    BY <1>1 DEF sorting, atMost, k
  <2>3. CASE m = k
    BY <1>1, <1>4, <2>1, <2>3
  <2>4. CASE m # k
    <3>1. m \in 1 .. j /\ m # k + 1
      BY <1>1, <2>1, <2>4
    <3> QED BY <1>4, <2>1, <2>2, <2>4, <3>1
  <2> QED BY <2>3, <2>4
<1>7. sorting(c, i, k)
  BY <1>2, <1>5, <1>6 DEF sorting, atMost
<1> QED BY <1>3, <1>7 DEF halfDone, c, k, b, v

\* After a pair the next one is looked at, or the next pass begins.
LEMMA PairDone ==
    ASSUME mechanism \in Mechanisms, NEW a, NEW i \in 0 .. 3, NEW j \in 0 .. 3 - i,
           sorting(a, i, j + 1)
    PROVE  /\ j + 1 < lastPair(i) => j + 1 \in 0 .. 3 - i
           /\ ~(j + 1 < lastPair(i)) => sorting(a, i + 1, 0)
<1>1. CASE j + 1 < lastPair(i)
  BY <1>1 DEF lastPair
<1>2. CASE ~(j + 1 < lastPair(i))
  <2>1. j + 1 = 4 - i
    BY <1>2 DEF lastPair
  <2>2. placed(a, i + 1)
    <3> SUFFICES ASSUME NEW k \in 6 - (i + 1) .. 5, NEW m \in 1 .. k PROVE a[m] <= a[k]
      BY DEF placed
    <3>1. CASE k = 5 - i
      <4>1. \A x \in 1 .. 4 - i : a[x] <= a[(4 - i) + 1]
        BY <2>1 DEF sorting, atMost
      <4>2. (4 - i) + 1 = k /\ (m = k \/ m \in 1 .. 4 - i)
        BY <3>1
      <4>3. a[k] <= a[k]
        <5>1. a \in Arrays /\ k \in Places
          BY RearrangedAre DEF sorting, Places
        <5> QED BY <5>1 DEF Arrays
      <4> QED BY <4>1, <4>2, <4>3
    <3>2. CASE k # 5 - i
      <4>1. k \in 6 - i .. 5
        BY <3>2
      <4> QED BY <4>1 DEF sorting, placed
    <3> QED BY <3>1, <3>2
  <2> QED BY <1>2, <2>2 DEF sorting, atMost
<1> QED BY <1>1, <1>2

\* After four passes the array is in order.
LEMMA AllSettled ==
    ASSUME NEW a, sorting(a, 4, 0)
    PROVE  a \in ordered
<1>1. \A k \in 2 .. 5 : \A m \in 1 .. k : a[m] <= a[k]
  BY DEF sorting, placed
<1>2. \A k \in 1 .. 4 : k + 1 \in 2 .. 5 /\ k \in 1 .. k + 1
  OBVIOUS
<1>3. \A k \in 1 .. 4 : a[k] <= a[k + 1]
  BY <1>1, <1>2
<1> QED BY <1>3 DEF sorting, ordered

\* A pair that is the right way round is left.
LEMMA PairKept ==
    ASSUME mechanism \in Mechanisms, NEW a, NEW i \in 0 .. 3, NEW j \in 0 .. 3 - i, sorting(a, i, j),
           a[j + 1] <= a[j + 2]
    PROVE  sorting(a, i, j + 1)
<1>1. a \in Arrays
  BY RearrangedAre DEF sorting
<1>2. ASSUME NEW m \in 1 .. j + 1 PROVE a[m] <= a[(j + 1) + 1]
  <2>1. a[m] \in Int /\ a[j + 1] \in Int /\ a[j + 2] \in Int /\ (j + 1) + 1 = j + 2
    BY <1>1 DEF Arrays, Places
  <2>2. CASE m = j + 1
    BY <2>1, <2>2
  <2>3. CASE m \in 1 .. j
    <3>1. a[m] <= a[j + 1]
      BY <2>3 DEF sorting, atMost
    <3> QED BY <2>1, <3>1
  <2> QED BY <2>2, <2>3
<1> QED BY <1>2 DEF sorting, atMost

-----------------------------------------------------------------------------
(* The two processes.                                                        *)

IpcTypes ==
    /\ mechanism \in Mechanisms
    /\ parent \in {"fork", "send", "close", "wait", "collect", "printed"}
    /\ child \in {"unborn", "none", "receive", "sort", "swap", "close", "exited", "killed"}
    /\ pass \in 0 .. 4 /\ pair \in 0 .. 3
    /\ pass < 4 => pair \in 0 .. 3 - pass
    /\ child \in {"unborn", "receive"} \/ pass = 4 => pair = 0
    /\ child \in {"unborn", "receive"} => pass = 0 /\ ~raced
    /\ child = "swap" => pass < 4

\* Which steps the parent takes in the four programs, and what it has waited for.
Waiting ==
    /\ child = "unborn" <=> parent = "fork"
    /\ parent = "send" => ~shared
    /\ parent = "close" => mechanism = "file"
    /\ child = "close" => mechanism = "file"
    /\ parent \in {"collect", "printed"} /\ ~queued => childEnded

\* What is on its way to the child and back.
UnderWay ==
    /\ toChild \in {Nothing, original[mechanism]}
    /\ toParent \in {Nothing} \cup ordered
    /\ onDisk \in {Nothing, <<>>, original[mechanism]} \cup ordered
    /\ mechanism = "file" =>
         /\ parent \in {"fork", "send", "close"} => onDisk \in {Nothing, <<>>}
         /\ parent \in {"wait", "collect"} => onDisk # Nothing
         /\ child \in {"sort", "swap", "close"} => parent = "wait"
         /\ child \in {"unborn", "none", "receive"} => onDisk \in {Nothing, <<>>, original[mechanism]}
         /\ child = "exited" /\ parent \in {"wait", "collect"} => onDisk \in ordered
         /\ child = "exited" => parent \in {"wait", "collect", "printed"}

\* What the arrays hold.
Sorting ==
    /\ child = "sort" => sorting(array, pass, pair)
    /\ child = "swap" => halfDone(array, pass, pair, temp)
    /\ child = "close" => received \in ordered

Printing ==
    /\ shared => /\ data \in [Places -> Values]
                 /\ child \in {"unborn", "none", "receive"} => data = original[mechanism]
                 /\ child = "exited" => data \in ordered
    /\ ~shared => /\ parent # "printed" => data = original[mechanism]
                  /\ parent = "printed" => data \in {original[mechanism]} \cup ordered
                  /\ parent = "printed" /\ (queued \/ child = "exited") => data \in ordered

IpcInv == IpcTypes /\ Waiting /\ (~raced => UnderWay /\ Sorting /\ Printing)

LEMMA IpcStart == SortInit => IpcInv
<1> SUFFICES ASSUME SortInit PROVE IpcInv
  OBVIOUS
<1>1. /\ mechanism \in Mechanisms /\ parent = "fork" /\ child = "unborn"
      /\ data = original[mechanism] /\ toChild = Nothing /\ toParent = Nothing /\ onDisk = Nothing
      /\ pass = 0 /\ pair = 0 /\ raced = FALSE
  BY DEF SortInit
<1>2. data \in [Places -> Values]
  BY <1>1, RearrangedAre
<1>3. IpcTypes
  BY <1>1 DEF IpcTypes
<1>4. Waiting
  BY <1>1 DEF Waiting, childEnded
<1>5. UnderWay /\ Sorting /\ Printing
  BY <1>1, <1>2 DEF UnderWay, Sorting, Printing
<1> QED BY <1>3, <1>4, <1>5 DEF IpcInv

\* Nothing but data and the messages changes what there is to say of arrays.
LEMMA ArraysSame ==
    ASSUME UNCHANGED mechanism
    PROVE  /\ rearranged' = rearranged /\ ordered' = ordered /\ Values' = Values
           /\ \A a, i, j : sorting(a, i, j)' <=> sorting(a, i, j)
BY DEF rearranged, ordered, Values, sorting

LEMMA ArrivedIs ==
    ASSUME mechanism \in Mechanisms
    PROVE  sorting(original[mechanism], 0, 0)
BY RearrangedAre DEF sorting, placed, atMost

\* A step that leaves the child and its array alone.
LEMMA SortingSame ==
    ASSUME UNCHANGED <<mechanism, child, received, pass, pair, temp>>, Sorting,
           data' = data \/ ~shared
    PROVE  Sorting'
<1>1. array' = array
  BY DEF array, shared
<1>2. halfDone(array, pass, pair, temp)' <=> halfDone(array, pass, pair, temp)
  BY <1>1, ArraysSame DEF halfDone, sorting, rearranged, Values
<1>3. sorting(array, pass, pair)' <=> sorting(array, pass, pair)
  BY <1>1 DEF sorting, rearranged
<1> QED BY <1>2, <1>3 DEF Sorting, ordered, rearranged

\* An array is not the missing message.
LEMMA MessageIs ==
    ASSUME NEW a \in Arrays
    PROVE  a # <<>> /\ a # Nothing
<1>1. a \in [1 .. 5 -> Int] /\ 5 \in Nat
  BY DEF Arrays, Places
<1>2. a \in Seq(Int)
  BY <1>1, SeqDef
<1>3. 1 \in DOMAIN a /\ DOMAIN a # DOMAIN << >>
  BY <1>1
<1> QED BY <1>2, <1>3, IpcAssumption

LEMMA OrderedAre ==
    ASSUME mechanism \in Mechanisms, NEW a \in ordered
    PROVE  a \in rearranged /\ a \in [Places -> Values] /\ a # <<>> /\ a # Nothing
<1>1. a \in rearranged /\ a \in [Places -> Values] /\ a \in Arrays
  BY RearrangedAre DEF ordered
<1> QED BY <1>1, MessageIs

LEMMA OriginalMessage ==
    ASSUME mechanism \in Mechanisms
    PROVE  original[mechanism] # <<>> /\ original[mechanism] # Nothing
BY OriginalIs, MessageIs

-----------------------------------------------------------------------------
(* The steps of the parent.                                                  *)

LEMMA ForkKeeps == IpcInv /\ Fork => IpcInv'
<1> SUFFICES ASSUME IpcInv, Fork PROVE IpcInv'
  OBVIOUS
<1>1. /\ parent = "fork" /\ child = "unborn" /\ child' \in {"receive", "none"}
      /\ parent' = IF shared THEN "wait" ELSE "send"
      /\ UNCHANGED <<mechanism, data, received, toChild, toParent, onDisk, pass, pair, temp, raced>>
      /\ mechanism \in Mechanisms
  BY DEF IpcInv, IpcTypes, Waiting, Fork, channels, loop
<1>2. IpcTypes'
  BY <1>1 DEF IpcInv, IpcTypes
<1>3. Waiting'
  BY <1>1 DEF IpcInv, Waiting, childEnded, shared, queued
<1>4. ASSUME ~raced' PROVE UnderWay' /\ Sorting' /\ Printing'
  <2>1. ~raced /\ UnderWay /\ Sorting /\ Printing
    BY <1>1, <1>4 DEF IpcInv
  <2>2. UnderWay'
    BY <1>1, <2>1, ArraysSame DEF UnderWay, shared
  <2>3. Sorting'
    BY <1>1 DEF Sorting
  <2>4. Printing'
    BY <1>1, <2>1, ArraysSame DEF Printing, shared, queued
  <2> QED BY <2>2, <2>3, <2>4
<1> QED BY <1>2, <1>3, <1>4 DEF IpcInv

LEMMA SendQueueKeeps == IpcInv /\ SendQueue => IpcInv'
<1> SUFFICES ASSUME IpcInv, SendQueue PROVE IpcInv'
  OBVIOUS
<1>1. /\ parent = "send" /\ queued /\ toChild' = data /\ parent' \in {"wait", "collect"}
      /\ UNCHANGED <<mechanism, child, data, received, toParent, onDisk, pass, pair, temp, raced>>
      /\ mechanism \in Mechanisms
  BY DEF IpcInv, IpcTypes, SendQueue, loop
<1>2. IpcTypes'
  BY <1>1 DEF IpcInv, IpcTypes
<1>3. Waiting'
  BY <1>1 DEF IpcInv, Waiting, childEnded, shared, queued
<1>4. ASSUME ~raced' PROVE UnderWay' /\ Sorting' /\ Printing'
  <2>1. ~raced /\ UnderWay /\ Sorting /\ Printing
    BY <1>1, <1>4 DEF IpcInv
  <2>2. UnderWay'
    <3>1. data = original[mechanism] /\ mechanism # "file"
      BY <1>1, <2>1 DEF Printing, shared, queued
    <3> QED BY <1>1, <2>1, <3>1, ArraysSame DEF UnderWay
  <2>3. Sorting'
    BY <1>1, <2>1, ArraysSame, SortingSame DEF Sorting
  <2>4. Printing'
    BY <1>1, <2>1, ArraysSame DEF Printing, shared, queued
  <2> QED BY <2>2, <2>3, <2>4
<1> QED BY <1>2, <1>3, <1>4 DEF IpcInv

LEMMA SendFileKeeps == IpcInv /\ SendFile => IpcInv'
<1> SUFFICES ASSUME IpcInv, SendFile PROVE IpcInv'
  OBVIOUS
<1>1. /\ mechanism = "file" /\ mechanism \in Mechanisms
      /\ UNCHANGED <<mechanism, child, data, received, toChild, toParent, pass, pair, temp, raced>>
      /\ \/ parent = "send" /\ onDisk' = <<>> /\ parent' = "close"
         \/ parent = "close" /\ onDisk' = data /\ parent' = "wait"
  BY DEF IpcInv, IpcTypes, SendFile, loop
<1>2. IpcTypes'
  BY <1>1 DEF IpcInv, IpcTypes
<1>3. Waiting'
  BY <1>1 DEF IpcInv, Waiting, childEnded, shared, queued
<1>4. ASSUME ~raced' PROVE UnderWay' /\ Sorting' /\ Printing'
  <2>1. ~raced /\ UnderWay /\ Sorting /\ Printing /\ ~shared /\ ~queued
    BY <1>1, <1>4 DEF IpcInv, shared, queued
  <2>2. data = original[mechanism] /\ data # Nothing /\ data # <<>>
    BY <1>1, <2>1, OriginalMessage DEF Printing
  <2>3. UnderWay'
    BY <1>1, <2>1, <2>2, ArraysSame DEF UnderWay
  <2>4. Sorting'
    BY <1>1, <2>1, ArraysSame, SortingSame DEF Sorting
  <2>5. Printing'
    BY <1>1, <2>1, ArraysSame DEF Printing, shared, queued
  <2> QED BY <2>3, <2>4, <2>5
<1> QED BY <1>2, <1>3, <1>4 DEF IpcInv

LEMMA WaitKeeps == IpcInv /\ Wait => IpcInv'
<1> SUFFICES ASSUME IpcInv, Wait PROVE IpcInv'
  OBVIOUS
<1>1. /\ parent = "wait" /\ childEnded /\ parent' = "collect" /\ mechanism \in Mechanisms
      /\ UNCHANGED <<mechanism, child, data, received, toChild, toParent, onDisk, pass, pair, temp, raced>>
  BY DEF IpcInv, IpcTypes, Wait, waited, channels, loop
<1>2. IpcTypes'
  BY <1>1 DEF IpcInv, IpcTypes
<1>3. Waiting'
  BY <1>1 DEF IpcInv, Waiting, childEnded, shared, queued
<1>4. ASSUME ~raced' PROVE UnderWay' /\ Sorting' /\ Printing'
  <2>1. ~raced /\ UnderWay /\ Sorting /\ Printing
    BY <1>1, <1>4 DEF IpcInv
  <2>2. UnderWay'
    BY <1>1, <2>1, ArraysSame DEF UnderWay, childEnded
  <2>3. Sorting'
    BY <1>1, <2>1, SortingSame
  <2>4. Printing'
    BY <1>1, <2>1, ArraysSame DEF Printing, shared, queued
  <2> QED BY <2>2, <2>3, <2>4
<1> QED BY <1>2, <1>3, <1>4 DEF IpcInv

LEMMA CollectKeeps == IpcInv /\ Collect => IpcInv'
<1> SUFFICES ASSUME IpcInv, Collect PROVE IpcInv'
  OBVIOUS
<1>1. /\ parent = "collect" /\ parent' = "printed" /\ mechanism \in Mechanisms
      /\ UNCHANGED <<mechanism, child, received, toChild, pass, pair, temp, raced>>
  BY DEF IpcInv, IpcTypes, Collect, loop
<1>2. \/ queued /\ toParent # Nothing /\ data' = toParent /\ toParent' = Nothing /\ onDisk' = onDisk
      \/ /\ mechanism = "file" /\ data' = (IF onDisk = <<>> THEN data ELSE onDisk)
         /\ onDisk' = Nothing /\ toParent' = toParent
      \/ shared /\ UNCHANGED <<data, toParent, onDisk>>
  BY DEF Collect
<1>3. IpcTypes'
  BY <1>1 DEF IpcInv, IpcTypes
<1>4. Waiting /\ Waiting'
  BY <1>1 DEF IpcInv, Waiting, childEnded, shared, queued
<1>5. ASSUME ~raced' PROVE UnderWay' /\ Sorting' /\ Printing'
  <2>1. ~raced /\ UnderWay /\ Sorting /\ Printing
    BY <1>1, <1>5 DEF IpcInv
  <2>2. UnderWay'
    <3>1. mechanism = "file" => childEnded
      BY <1>1, <1>4 DEF Waiting, queued
    <3> QED BY <1>1, <1>2, <2>1, <3>1, ArraysSame DEF UnderWay, childEnded, shared, queued
  <2>3. Sorting'
    <3>1. child = "sort" \/ child = "swap" \/ child = "close" => queued
      BY <1>1, <1>4 DEF Waiting, childEnded
    <3>2. CASE child \in {"sort", "swap", "close"}
      <4>1. ~shared
        BY <1>1, <3>1, <3>2 DEF shared, queued
      <4> QED BY <1>1, <2>1, <4>1, SortingSame
    <3> QED BY <1>1, <3>2 DEF Sorting
  <2>4. Printing'
    <3>1. CASE queued
      <4>1. data' \in ordered /\ ~shared
        BY <1>2, <2>1, <3>1 DEF UnderWay, shared, queued
      <4> QED BY <1>1, <4>1, ArraysSame DEF Printing, shared
    <3>2. CASE mechanism = "file"
      <4>1. childEnded /\ ~shared /\ ~queued /\ data = original[mechanism]
        BY <1>1, <1>4, <2>1, <3>2 DEF Waiting, Printing, shared, queued
      <4>2. data' \in {original[mechanism]} \cup ordered
        BY <1>1, <1>2, <2>1, <3>2, <4>1 DEF UnderWay
      <4>3. child = "exited" => data' \in ordered
        <5>1. \A a \in ordered : a # <<>>
          BY <1>1, OrderedAre
        <5> QED BY <1>1, <1>2, <2>1, <3>2, <4>1, <5>1 DEF UnderWay
      <4> QED BY <1>1, <4>1, <4>2, <4>3, ArraysSame DEF Printing, shared, queued
    <3>3. CASE shared
      BY <1>1, <1>2, <2>1, <3>3, ArraysSame DEF Printing, shared, queued
    <3> QED BY <1>1, <1>2, <3>1, <3>2, <3>3
  <2> QED BY <2>2, <2>3, <2>4
<1> QED BY <1>3, <1>4, <1>5 DEF IpcInv

-----------------------------------------------------------------------------
(* The steps of the child.                                                   *)

LEMMA ReceiveQueueKeeps == IpcInv /\ ReceiveQueue => IpcInv'
<1> SUFFICES ASSUME IpcInv, ReceiveQueue PROVE IpcInv'
  OBVIOUS
<1>1. /\ child = "receive" /\ queued /\ toChild # Nothing /\ received' = toChild
      /\ toChild' = Nothing /\ child' = "sort" /\ mechanism \in Mechanisms
      /\ UNCHANGED <<mechanism, parent, data, toParent, onDisk, pass, pair, temp, raced>>
      /\ pass = 0 /\ pair = 0
  BY DEF IpcInv, IpcTypes, ReceiveQueue, loop
<1>2. IpcTypes'
  BY <1>1 DEF IpcInv, IpcTypes
<1>3. Waiting'
  BY <1>1 DEF IpcInv, Waiting, childEnded, shared, queued
<1>4. ASSUME ~raced' PROVE UnderWay' /\ Sorting' /\ Printing'
  <2>1. ~raced /\ UnderWay /\ Sorting /\ Printing
    BY <1>1, <1>4 DEF IpcInv
  <2>2. UnderWay'
    BY <1>1, <2>1, ArraysSame DEF UnderWay, queued
  <2>3. Sorting'
    <3>1. array' = original[mechanism]
      BY <1>1, <2>1 DEF array, shared, queued, UnderWay
    <3>2. sorting(array', pass', pair')
      BY <1>1, <3>1, ArrivedIs
    <3> QED BY <1>1, <3>2 DEF Sorting, sorting, rearranged
  <2>4. Printing'
    BY <1>1, <2>1, ArraysSame DEF Printing, shared, queued
  <2> QED BY <2>2, <2>3, <2>4
<1> QED BY <1>2, <1>3, <1>4 DEF IpcInv

LEMMA ReceiveSharedKeeps == IpcInv /\ ReceiveShared => IpcInv'
<1> SUFFICES ASSUME IpcInv, ReceiveShared PROVE IpcInv'
  OBVIOUS
<1>1. /\ child = "receive" /\ shared /\ child' = "sort" /\ mechanism \in Mechanisms
      /\ UNCHANGED <<mechanism, parent, data, received, toChild, toParent, onDisk, pass, pair, temp, raced>>
      /\ pass = 0 /\ pair = 0
  BY DEF IpcInv, IpcTypes, ReceiveShared, loop, channels
<1>2. IpcTypes'
  BY <1>1 DEF IpcInv, IpcTypes
<1>3. Waiting'
  BY <1>1 DEF IpcInv, Waiting, childEnded, shared, queued
<1>4. ASSUME ~raced' PROVE UnderWay' /\ Sorting' /\ Printing'
  <2>1. ~raced /\ UnderWay /\ Sorting /\ Printing
    BY <1>1, <1>4 DEF IpcInv
  <2>2. UnderWay'
    BY <1>1, <2>1, ArraysSame DEF UnderWay, shared
  <2>3. Sorting'
    <3>1. array' = original[mechanism]
      BY <1>1, <2>1 DEF array, shared, Printing
    <3>2. sorting(array', pass', pair')
      BY <1>1, <3>1, ArrivedIs
    <3> QED BY <1>1, <3>2 DEF Sorting, sorting, rearranged
  <2>4. Printing'
    BY <1>1, <2>1, ArraysSame DEF Printing, shared, queued
  <2> QED BY <2>2, <2>3, <2>4
<1> QED BY <1>2, <1>3, <1>4 DEF IpcInv

LEMMA ReceiveFileKeeps == IpcInv /\ ReceiveFile => IpcInv'
<1> SUFFICES ASSUME IpcInv, ReceiveFile PROVE IpcInv'
  OBVIOUS
<1>1. /\ child = "receive" /\ mechanism = "file" /\ mechanism \in Mechanisms
      /\ child' = IF onDisk = Nothing THEN "killed" ELSE "sort"
      /\ UNCHANGED <<mechanism, parent, data, toChild, toParent, onDisk, pass, pair, temp>>
      /\ pass = 0 /\ pair = 0 /\ ~raced
  BY DEF IpcInv, IpcTypes, ReceiveFile, loop, channels
<1>2. ~raced' => onDisk # Nothing /\ onDisk # <<>> /\ received' = onDisk
  BY DEF ReceiveFile
<1>3. IpcTypes'
  BY <1>1 DEF IpcInv, IpcTypes
<1>4. Waiting /\ Waiting'
  BY <1>1 DEF IpcInv, Waiting, childEnded, shared, queued
<1>5. ASSUME ~raced' PROVE UnderWay' /\ Sorting' /\ Printing'
  <2>1. UnderWay /\ Printing
    BY <1>1 DEF IpcInv
  <2>2. /\ child' = "sort" /\ received' = original[mechanism] /\ onDisk = original[mechanism]
        /\ parent = "wait"
    BY <1>1, <1>2, <1>4, <1>5, <2>1 DEF UnderWay, Waiting, queued, childEnded, IpcInv, IpcTypes
  <2>3. UnderWay'
    BY <1>1, <2>1, <2>2, ArraysSame DEF UnderWay
  <2>4. Sorting'
    <3>1. array' = original[mechanism]
      BY <1>1, <2>2 DEF array, shared
    <3>2. sorting(array', pass', pair')
      BY <1>1, <3>1, ArrivedIs
    <3> QED BY <1>1, <2>2, <3>2 DEF Sorting, sorting, rearranged
  <2>5. Printing'
    BY <1>1, <2>1, <2>2, ArraysSame DEF Printing, shared, queued
  <2> QED BY <2>3, <2>4, <2>5
<1> QED BY <1>3, <1>4, <1>5 DEF IpcInv

\* A step of the sort touches the child and its array only.
LEMMA SortsOn ==
    ASSUME IpcInv, IpcTypes', child \in {"sort", "swap"}, child' \in {"sort", "swap"},
           UNCHANGED <<mechanism, parent, toChild, toParent, onDisk, raced>>,
           IF shared THEN received' = received ELSE data' = data,
           ~raced => array' \in [Places -> Values],
           ~raced /\ child' = "sort" => sorting(array', pass', pair'),
           ~raced /\ child' = "swap" => halfDone(array', pass', pair', temp')
    PROVE  IpcInv'
<1>1. Waiting'
  BY DEF IpcInv, Waiting, childEnded, shared, queued
<1>2. ASSUME ~raced' PROVE UnderWay' /\ Sorting' /\ Printing'
  <2>1. ~raced /\ UnderWay /\ Printing
    BY <1>2 DEF IpcInv
  <2>2. UnderWay'
    BY <2>1, ArraysSame DEF UnderWay
  <2>3. Sorting'
    BY <2>1 DEF Sorting, halfDone, sorting, rearranged, Values
  <2>4. Printing'
    <3>1. CASE shared
      <4>1. shared' /\ data' \in [Places -> Values]
        BY <2>1, <3>1 DEF array, shared
      <4> QED BY <4>1, ArraysSame DEF Printing
    <3>2. CASE ~shared
      BY <2>1, <3>2, ArraysSame DEF Printing, shared, queued
    <3> QED BY <3>1, <3>2
  <2> QED BY <2>2, <2>3, <2>4
<1> QED BY <1>1, <1>2 DEF IpcInv

\* The loops go on after a pair.
LEMMA LoopGoesOn ==
    ASSUME IpcTypes, stepLoop, pass < 4, NEW a, NEW d \in {TRUE, FALSE},
           d => sorting(a, pass, pair + 1)
    PROVE  /\ pass' \in 0 .. 4 /\ pair' \in 0 .. 3
           /\ pass' < 4 => pair' \in 0 .. 3 - pass'
           /\ pass' = 4 => pair' = 0
           /\ d => sorting(a, pass', pair')
<1>1. pass \in 0 .. 3 /\ pair \in 0 .. 3 - pass /\ mechanism \in Mechanisms
  BY DEF IpcTypes
<1>2. CASE pair + 1 < lastPair(pass)
  BY <1>1, <1>2 DEF stepLoop, lastPair
<1>3. CASE ~(pair + 1 < lastPair(pass))
  <2>1. pair' = 0 /\ pass' = pass + 1
    BY <1>3 DEF stepLoop
  <2>2. d => sorting(a, pass + 1, 0)
    BY <1>1, <1>3, PairDone
  <2> QED BY <1>1, <2>1, <2>2
<1> QED BY <1>2, <1>3

LEMMA CompareKeeps == IpcInv /\ Compare => IpcInv'
<1> SUFFICES ASSUME IpcInv, Compare PROVE IpcInv'
  OBVIOUS
<1>1. /\ child = "sort" /\ pass < 4 /\ mechanism \in Mechanisms /\ IpcTypes
      /\ UNCHANGED <<mechanism, parent, toChild, toParent, onDisk, raced>>
      /\ pass \in 0 .. 3 /\ pair \in 0 .. 3 - pass
      /\ ~raced => sorting(array, pass, pair)
  BY DEF IpcInv, IpcTypes, Sorting, Compare, channels
<1>2. CASE /\ array[pair + 1] > array[pair + 2]
           /\ temp' = array[pair + 1]
           /\ store(pair + 1, array[pair + 2])
           /\ child' = "swap"
           /\ UNCHANGED <<pass, pair>>
  <2>1. /\ IF shared THEN received' = received ELSE data' = data
        /\ array' = [array EXCEPT ![pair + 1] = array[pair + 2]]
    BY <1>1, <1>2 DEF store, array, shared
  <2>2. ASSUME ~raced PROVE halfDone(array', pass', pair', temp') /\ array' \in [Places -> Values]
    <3>1. halfDone([array EXCEPT ![pair + 1] = array[pair + 2]], pass, pair, array[pair + 1])
      BY <1>1, <1>2, <2>2, HalfSwap
    <3> QED BY <1>2, <2>1, <3>1 DEF halfDone
  <2>3. IpcTypes'
    BY <1>1, <1>2 DEF IpcTypes
  <2> QED BY <1>1, <1>2, <2>1, <2>2, <2>3, SortsOn
<1>3. CASE /\ array[pair + 1] <= array[pair + 2]
           /\ stepLoop
           /\ UNCHANGED <<child, data, received, temp>>
  <2>1. array' = array
    BY <1>1, <1>3 DEF array, shared
  <2>2. ~raced => sorting(array, pass, pair + 1)
    BY <1>1, <1>3, PairKept
  <2>3. /\ pass' \in 0 .. 4 /\ pair' \in 0 .. 3
        /\ pass' < 4 => pair' \in 0 .. 3 - pass'
        /\ pass' = 4 => pair' = 0
        /\ ~raced => sorting(array, pass', pair')
    <3>1. CASE raced
      BY <1>1, <1>3, <3>1, LoopGoesOn
    <3>2. CASE ~raced
      BY <1>1, <1>3, <2>2, <3>2, LoopGoesOn
    <3> QED BY <3>1, <3>2
  <2>4. IpcTypes'
    BY <1>1, <1>3, <2>3 DEF IpcTypes
  <2>5. ~raced => array' \in [Places -> Values]
    BY <1>1, <2>1, RearrangedAre DEF sorting
  <2> QED BY <1>1, <1>3, <2>1, <2>3, <2>4, <2>5, SortsOn
<1> QED BY <1>2, <1>3 DEF Compare

LEMMA SwapKeeps == IpcInv /\ Swap => IpcInv'
<1> SUFFICES ASSUME IpcInv, Swap PROVE IpcInv'
  OBVIOUS
<1>1. /\ child = "swap" /\ child' = "sort" /\ pass < 4 /\ mechanism \in Mechanisms /\ IpcTypes
      /\ UNCHANGED <<mechanism, parent, toChild, toParent, onDisk, raced>>
      /\ stepLoop
      /\ ~raced => halfDone(array, pass, pair, temp)
  BY DEF IpcInv, IpcTypes, Sorting, Swap, channels
<1>2. /\ IF shared THEN received' = received ELSE data' = data
      /\ array' = [array EXCEPT ![pair + 2] = temp]
  BY <1>1 DEF Swap, store, array, shared
<1>3. ~raced => sorting(array', pass, pair + 1)
  BY <1>1, <1>2 DEF halfDone
<1>4. /\ pass' \in 0 .. 4 /\ pair' \in 0 .. 3
      /\ pass' < 4 => pair' \in 0 .. 3 - pass'
      /\ pass' = 4 => pair' = 0
      /\ ~raced => sorting(array', pass', pair')
  <2>1. CASE raced
    BY <1>1, <2>1, LoopGoesOn
  <2>2. CASE ~raced
    BY <1>1, <1>3, <2>2, LoopGoesOn
  <2> QED BY <2>1, <2>2
<1>5. IpcTypes'
  BY <1>1, <1>4 DEF IpcTypes
<1>6. ~raced => array' \in [Places -> Values]
  BY <1>1, <1>4, RearrangedAre DEF sorting
<1> QED BY <1>1, <1>2, <1>4, <1>5, <1>6, SortsOn

LEMMA ReplyKeeps == IpcInv /\ Reply => IpcInv'
<1> SUFFICES ASSUME IpcInv, Reply PROVE IpcInv'
  OBVIOUS
<1>1. /\ child = "sort" /\ pass = 4 /\ pair = 0 /\ mechanism \in Mechanisms /\ IpcTypes
      /\ UNCHANGED <<mechanism, parent, data, received, pass, pair, temp, raced>>
  BY DEF IpcInv, IpcTypes, Reply, loop
<1>2. \/ /\ queued /\ ~shared /\ mechanism # "file" /\ toParent' = received /\ child' = "exited"
         /\ UNCHANGED <<toChild, onDisk>>
      \/ shared /\ ~queued /\ mechanism # "file" /\ child' = "exited" /\ UNCHANGED <<toChild, toParent, onDisk>>
      \/ /\ mechanism = "file" /\ ~shared /\ ~queued /\ onDisk' = <<>> /\ child' = "close"
         /\ UNCHANGED <<toChild, toParent>>
  BY <1>1 DEF Reply, reply, channels, shared, queued
<1>3. IpcTypes'
  BY <1>1, <1>2 DEF IpcTypes
<1>4. Waiting /\ Waiting'
  BY <1>1, <1>2 DEF IpcInv, Waiting, childEnded, shared, queued
<1>5. ASSUME ~raced' PROVE UnderWay' /\ Sorting' /\ Printing'
  <2>1. ~raced /\ UnderWay /\ Sorting /\ Printing
    BY <1>1, <1>5 DEF IpcInv
  <2>2. array \in ordered
    BY <1>1, <2>1, AllSettled DEF Sorting
  <2>3. UnderWay'
    <3>1. CASE queued
      BY <1>1, <1>2, <2>1, <2>2, <3>1, ArraysSame DEF UnderWay, array
    <3>2. CASE shared
      BY <1>1, <1>2, <2>1, <3>2, ArraysSame DEF UnderWay
    <3>3. CASE mechanism = "file"
      <4>1. parent = "wait" /\ onDisk' = <<>> /\ child' = "close" /\ UNCHANGED <<toChild, toParent>>
        BY <1>1, <1>2, <2>1, <3>3 DEF UnderWay
      <4>2. <<>> # Nothing
        BY EmptySeq, IpcAssumption
      <4> QED BY <1>1, <2>1, <3>3, <4>1, <4>2, ArraysSame DEF UnderWay
    <3> QED BY <1>2, <3>1, <3>2, <3>3
  <2>4. Sorting'
    BY <1>1, <1>2, <2>2, ArraysSame DEF Sorting, array
  <2>5. Printing'
    BY <1>1, <1>2, <1>4, <2>1, <2>2, ArraysSame DEF Printing, Waiting, childEnded, shared, queued, array
  <2> QED BY <2>3, <2>4, <2>5
<1> QED BY <1>3, <1>4, <1>5 DEF IpcInv

LEMMA CloseFileKeeps == IpcInv /\ CloseFile => IpcInv'
<1> SUFFICES ASSUME IpcInv, CloseFile PROVE IpcInv'
  OBVIOUS
<1>1. /\ child = "close" /\ mechanism = "file" /\ mechanism \in Mechanisms
      /\ onDisk' = received /\ child' = "exited"
      /\ UNCHANGED <<mechanism, parent, data, received, toChild, toParent, pass, pair, temp, raced>>
  BY DEF IpcInv, IpcTypes, Waiting, CloseFile, loop
<1>2. IpcTypes'
  BY <1>1 DEF IpcInv, IpcTypes
<1>3. Waiting /\ Waiting'
  BY <1>1 DEF IpcInv, Waiting, childEnded, shared, queued
<1>4. ASSUME ~raced' PROVE UnderWay' /\ Sorting' /\ Printing'
  <2>1. ~raced /\ UnderWay /\ Sorting /\ Printing
    BY <1>1, <1>4 DEF IpcInv
  <2>2. received \in ordered /\ received # Nothing /\ parent = "wait"
    BY <1>1, <2>1, OrderedAre DEF Sorting, UnderWay
  <2>3. UnderWay'
    BY <1>1, <2>1, <2>2, ArraysSame DEF UnderWay
  <2>4. Sorting'
    BY <1>1 DEF Sorting
  <2>5. Printing'
    BY <1>1, <2>1, <2>2, ArraysSame DEF Printing, shared, queued
  <2> QED BY <2>3, <2>4, <2>5
<1> QED BY <1>2, <1>3, <1>4 DEF IpcInv

LEMMA KillKeeps == IpcInv /\ Kill => IpcInv'
<1> SUFFICES ASSUME IpcInv, Kill PROVE IpcInv'
  OBVIOUS
<1>1. /\ ~childEnded /\ child # "unborn" /\ child' = "killed" /\ mechanism \in Mechanisms
      /\ UNCHANGED <<mechanism, parent, data, received, toChild, toParent, onDisk, pass, pair, temp, raced>>
  BY DEF IpcInv, IpcTypes, Kill, loop, channels
<1>2. IpcTypes'
  BY <1>1 DEF IpcInv, IpcTypes
<1>3. Waiting /\ Waiting'
  BY <1>1 DEF IpcInv, Waiting, childEnded, shared, queued
<1>4. ASSUME ~raced' PROVE UnderWay' /\ Sorting' /\ Printing'
  <2>1. ~raced /\ UnderWay /\ Sorting /\ Printing
    BY <1>1, <1>4 DEF IpcInv
  <2>2. UnderWay'
    BY <1>1, <2>1, ArraysSame DEF UnderWay
  <2>3. Sorting'
    BY <1>1 DEF Sorting
  <2>4. Printing'
    BY <1>1, <1>3, <2>1, ArraysSame DEF Printing, Waiting, childEnded, shared, queued
  <2> QED BY <2>2, <2>3, <2>4
<1> QED BY <1>2, <1>3, <1>4 DEF IpcInv

LEMMA IpcStep == IpcInv /\ [SortNext]_ipcVars => IpcInv'
<1> SUFFICES ASSUME IpcInv, [SortNext]_ipcVars PROVE IpcInv'
  OBVIOUS
<1>1. CASE Fork
  BY <1>1, ForkKeeps
<1>2. CASE SendQueue
  BY <1>2, SendQueueKeeps
<1>3. CASE SendFile
  BY <1>3, SendFileKeeps
<1>4. CASE Wait
  BY <1>4, WaitKeeps
<1>5. CASE Collect
  BY <1>5, CollectKeeps
<1>6. CASE ReceiveQueue
  BY <1>6, ReceiveQueueKeeps
<1>7. CASE ReceiveShared
  BY <1>7, ReceiveSharedKeeps
<1>8. CASE ReceiveFile
  BY <1>8, ReceiveFileKeeps
<1>9. CASE Compare
  BY <1>9, CompareKeeps
<1>10. CASE Swap
  BY <1>10, SwapKeeps
<1>11. CASE Reply
  BY <1>11, ReplyKeeps
<1>12. CASE CloseFile
  BY <1>12, CloseFileKeeps
<1>13. CASE Kill
  BY <1>13, KillKeeps
<1>14. CASE UNCHANGED ipcVars
  <2>1. UNCHANGED <<mechanism, parent, child, data, received, toChild, toParent, onDisk,
                    pass, pair, temp, raced>>
    BY <1>14 DEF ipcVars, channels, loop
  <2>2. IpcTypes'
    BY <2>1 DEF IpcInv, IpcTypes
  <2>3. Waiting'
    BY <2>1 DEF IpcInv, Waiting, childEnded, shared, queued
  <2>4. ASSUME ~raced' PROVE UnderWay' /\ Sorting' /\ Printing'
    <3>1. ~raced /\ UnderWay /\ Sorting /\ Printing
      BY <2>1, <2>4 DEF IpcInv
    <3>2. UnderWay'
      BY <2>1, <3>1, ArraysSame DEF UnderWay
    <3>3. Sorting'
      BY <2>1, <3>1, SortingSame
    <3>4. Printing'
      BY <2>1, <3>1, ArraysSame DEF Printing, shared, queued
    <3> QED BY <3>2, <3>3, <3>4
  <2> QED BY <2>2, <2>3, <2>4 DEF IpcInv
<1> QED BY <1>1, <1>2, <1>3, <1>4, <1>5, <1>6, <1>7, <1>8, <1>9, <1>10, <1>11, <1>12, <1>13, <1>14
       DEF SortNext, parentStep, childStep

\* In every behaviour of the four programs, with or without faults, IpcInv
\* holds.
LEMMA IpcInvariant == SortSpec => []IpcInv
BY IpcStart, IpcStep, PTL DEF SortSpec

LEMMA PrintsFromInv == IpcInv => PrintsSorted
<1> SUFFICES ASSUME IpcInv, parent = "printed", ~faulty
             PROVE  (\A k \in 1 .. 4 : data[k] <= data[k + 1]) /\ data \in rearranged
  BY DEF PrintsSorted
<1>1. ~raced /\ Printing /\ Waiting /\ mechanism \in Mechanisms /\ child # "none" /\ child # "killed"
  BY DEF IpcInv, IpcTypes, faulty
<1>2. data \in ordered
  BY <1>1 DEF Printing, Waiting, childEnded, shared, queued
<1> QED BY <1>2 DEF ordered

LEMMA NothingFromInv == IpcInv => NothingInvented
<1> SUFFICES ASSUME IpcInv, ~raced PROVE ToSet(data) \subseteq ToSet(original[mechanism])
  BY DEF NothingInvented
<1>1. Printing /\ mechanism \in Mechanisms
  BY DEF IpcInv, IpcTypes
<1>2. data \in [Places -> Values]
  <2>1. original[mechanism] \in [Places -> Values] /\ ordered \subseteq [Places -> Values]
    BY <1>1, RearrangedAre DEF ordered
  <2> QED BY <1>1, <2>1 DEF Printing, IpcInv, IpcTypes
<1>3. ToSet(data) \subseteq Values
  BY <1>2 DEF ToSet
<1>4. DOMAIN original[mechanism] = Places
  BY <1>1, OriginalIs DEF Arrays
<1>5. Values \subseteq ToSet(original[mechanism])
  BY <1>4 DEF Values, ToSet
<1> QED BY <1>3, <1>5

\* What the parent of a sort demonstration prints is its array, sorted, unless
\* the child was never there, died or read an incomplete file.
THEOREM SortsCorrect == SortSpec => []PrintsSorted
<1>1. IpcInv => PrintsSorted
  BY PrintsFromInv
<1> QED BY <1>1, IpcInvariant, PTL

\* The parent of the demonstrations with shared memory or a file reads the
\* result only when the child has ended, killed or not.
THEOREM ResultsWhole == SortSpec => []NoTornRead
<1>1. IpcInv => NoTornRead
  BY DEF IpcInv, Waiting, NoTornRead
<1> QED BY <1>1, IpcInvariant, PTL

\* The parent's array holds values of its own at all times, even in the middle
\* of a swap in shared memory, unless the child read an incomplete file.
THEOREM SortsInvent == SortSpec => []NothingInvented
<1>1. IpcInv => NothingInvented
  BY NothingFromInv
<1> QED BY <1>1, IpcInvariant, PTL

=============================================================================
