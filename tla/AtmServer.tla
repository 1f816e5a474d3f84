------------------------------ MODULE AtmServer ------------------------------
(* The bank server of src/IPCAssignment/socketIPCMechanism/server/server.c   *)
(* with the clients of client/client.c: one handler thread per connection,   *)
(* the account file they share and the mutex around it, and the bytes under  *)
(* way on each connection.  Amounts are whole units of money; a float holds  *)
(* MANTISSA bits of them.                                                    *)
EXTENDS Integers, Sequences

CONSTANTS
    Connections, NULL,
    Amounts,        \* what users type
    Garbage,        \* what an uninitialized amount can hold
    Initial,        \* the balance in the file at the start
    MANTISSA,       \* 24 in a float
    MAX_REQUESTS,   \* bound: choices sent per connection
    MAX_CRASHES,    \* bound: crashes of the server
    OpenMayFail,    \* fopen may fail
    InputMayJam     \* a user may type what the client's scanf cannot read

ASSUME AtmAssumption ==
    /\ NULL \notin Connections \cup Int
    /\ Amounts \subseteq Int /\ Garbage \subseteq Int /\ Initial \in Nat
    /\ MANTISSA \in Nat \ {0}
    /\ MAX_REQUESTS \in Nat /\ MAX_CRASHES \in Nat
    /\ OpenMayFail \in BOOLEAN /\ InputMayJam \in BOOLEAN

\* Withdraw, deposit, display, and anything else but 4, which is not sent.
SentChoices == {1, 2, 3, 5}

VARIABLES
    user,           \* "new", "menu", "withdraw", "deposit", "await" or "gone"
    clientChoice, clientAmount,  \* the client's variables, 0: choice not yet set
    jammed,         \* whether its scanf fails from now on
    up, down,       \* messages to the server, and replies
    pc,             \* where the handler thread of a connection is
    choice, amount, current_balance,  \* its local variables
    file_mutex,     \* the connection whose thread holds it, or NULL
    file,           \* the balance in accountDB.txt, or NULL: empty
    entered,        \* the transactions a user asked for, in order
    log,            \* the transactions the server made, in order
    requests, crashes

localVars == <<clientChoice, clientAmount, jammed>>
clientVars == <<user, entered, requests, localVars>>
threadVars == <<pc, choice, amount, current_balance>>
vars == <<clientVars, threadVars, up, down, file_mutex, file, log, crashes>>

Init ==
    /\ user = [k \in Connections |-> "new"]
    /\ clientChoice = [k \in Connections |-> 0]
    /\ clientAmount = [k \in Connections |-> 0]
    /\ jammed = [k \in Connections |-> FALSE]
    /\ up = [k \in Connections |-> <<>>]
    /\ down = [k \in Connections |-> <<>>]
    /\ pc = [k \in Connections |-> "none"]
    /\ choice = [k \in Connections |-> 0]
    /\ amount = [k \in Connections |-> 0]
    /\ current_balance = [k \in Connections |-> 0]
    /\ file_mutex = NULL
    /\ file = Initial
    /\ entered = [k \in Connections |-> <<>>]
    /\ log = <<>>
    /\ requests = [k \in Connections |-> 0]
    /\ crashes = 0

goto(k, place) == pc' = [pc EXCEPT ![k] = place]
entry(k, c, a) == [connection |-> k, choice |-> c, amount |-> a]

pow2[n \in Nat] == IF n = 0 THEN 1 ELSE 2 * pow2[n - 1]

\* Mutant: one bit too few is kept.
asFloatNarrow(x) == IF x >= pow2[MANTISSA - 1] THEN 2 * (x \div 2) ELSE x

\* The float nearest to x: MANTISSA bits, the even one of two that are as near.
asFloat(x) ==
    LET m     == IF x < 0 THEN -x ELSE x
        e     == CHOOSE i \in 0 .. m : /\ m < pow2[i + MANTISSA]
                                       /\ i = 0 \/ m >= pow2[i - 1 + MANTISSA]
        unit  == pow2[e]
        below == m \div unit
        twice == 2 * (m % unit)
        above == twice > unit \/ (twice = unit /\ e > 0 /\ below % 2 = 1)
        near  == unit * (IF above THEN below + 1 ELSE below)
    IN  IF x < 0 THEN -near ELSE near

-----------------------------------------------------------------------------
(* The client.                                                               *)

\* connect, and accept and pthread_create in the server.  Neither the thread's
\* amount nor the client's is initialized.
Connect(k) ==
    /\ user[k] = "new"
    /\ user' = [user EXCEPT ![k] = "menu"]
    /\ goto(k, "recv")
    /\ \E a \in Garbage : amount' = [amount EXCEPT ![k] = a]
    /\ \E a \in IF InputMayJam THEN Garbage ELSE {0} :
          clientAmount' = [clientAmount EXCEPT ![k] = a]
    /\ UNCHANGED <<entered, requests, clientChoice, jammed, choice, current_balance, up, down,
                   file_mutex, file, log, crashes>>

\* The user types what scanf cannot read, or ends the input: every later scanf
\* fails on it, too, and leaves the client's variables as they are.
Jam(k) ==
    /\ InputMayJam /\ ~jammed[k]
    /\ user[k] \in {"menu", "withdraw", "deposit"}
    /\ jammed' = [jammed EXCEPT ![k] = TRUE]
    /\ \E c \in IF clientChoice[k] = 0 THEN SentChoices ELSE {clientChoice[k]} :
          clientChoice' = [clientChoice EXCEPT ![k] = c]
    /\ UNCHANGED <<threadVars, user, entered, requests, clientAmount, up, down,
                   file_mutex, file, log, crashes>>

\* The client's variables matter only to a client that may jam.
kept(f, k, value) == IF InputMayJam THEN [f EXCEPT ![k] = value] ELSE f

\* A choice that is a transaction is followed by the question for its amount.
Choose(k, c) ==
    /\ user[k] = "menu" /\ requests[k] < MAX_REQUESTS
    /\ jammed[k] => c = clientChoice[k]
    /\ clientChoice' = kept(clientChoice, k, c)
    /\ requests' = [requests EXCEPT ![k] = @ + 1]
    /\ up' = [up EXCEPT ![k] = Append(@, [choice |-> c])]
    /\ user' = [user EXCEPT ![k] = CASE c = 1 -> "withdraw"
                                     [] c = 2 -> "deposit"
                                     [] c = 3 -> "await"
                                     [] OTHER -> "menu"]
    /\ UNCHANGED <<threadVars, entered, clientAmount, jammed, down, file_mutex,
                   file, log, crashes>>

\* What is sent is what the user entered, unless scanf failed.
EnterAmount(k, a) ==
    /\ user[k] \in {"withdraw", "deposit"}
    /\ LET c == IF user[k] = "withdraw" THEN 1 ELSE 2
       IN  \/ /\ ~jammed[k] /\ a \in Amounts
              /\ entered' = [entered EXCEPT ![k] = Append(@, entry(k, c, a))]
           \/ jammed[k] /\ a = clientAmount[k] /\ UNCHANGED entered
    /\ clientAmount' = kept(clientAmount, k, a)
    /\ up' = [up EXCEPT ![k] = Append(@, [amount |-> a])]
    /\ user' = [user EXCEPT ![k] = "await"]
    /\ UNCHANGED <<threadVars, requests, clientChoice, jammed, down, file_mutex,
                   file, log, crashes>>

Receive(k) ==
    /\ user[k] = "await" /\ down[k] # <<>>
    /\ down' = [down EXCEPT ![k] = Tail(@)]
    /\ user' = [user EXCEPT ![k] = "menu"]
    /\ UNCHANGED <<threadVars, entered, requests, localVars, up, file_mutex, file,
                   log, crashes>>

\* The user chooses 4, or the client ends in any other way.  What it has sent
\* still arrives, unless a reply was left unread: then the connection is reset.
Leave(k) ==
    /\ user[k] \notin {"new", "gone"}
    /\ user' = [user EXCEPT ![k] = "gone"]
    /\ up' = IF down[k] = <<>> THEN up ELSE [up EXCEPT ![k] = <<>>]
    /\ down' = [down EXCEPT ![k] = <<>>]
    /\ UNCHANGED <<threadVars, entered, requests, localVars, file_mutex, file, log,
                   crashes>>

-----------------------------------------------------------------------------
(* client_handler, the thread of connection k.                               *)

recvChoice(k) ==
    /\ pc[k] = "recv" /\ up[k] # <<>>
    /\ choice' = [choice EXCEPT ![k] = Head(up[k]).choice]
    /\ up' = [up EXCEPT ![k] = Tail(@)]
    /\ goto(k, "lock")
    /\ UNCHANGED <<clientVars, amount, current_balance, down, file_mutex, file,
                   log, crashes>>

hangUp(k) ==
    /\ pc[k] = "recv" /\ up[k] = <<>> /\ user[k] = "gone"
    /\ goto(k, "done")
    /\ UNCHANGED <<clientVars, choice, amount, current_balance, up, down,
                   file_mutex, file, log, crashes>>

\* Mutant: the mutex is not waited for.
lockFree(k) ==
    /\ pc[k] = "lock"
    /\ file_mutex' = k
    /\ goto(k, "read")
    /\ UNCHANGED <<clientVars, choice, amount, current_balance, up, down, file,
                   log, crashes>>

lock(k) ==
    /\ pc[k] = "lock" /\ file_mutex = NULL
    /\ file_mutex' = k
    /\ goto(k, "read")
    /\ UNCHANGED <<clientVars, choice, amount, current_balance, up, down, file,
                   log, crashes>>

\* An empty file, or one that cannot be opened, reads as 0.
contents == IF file = NULL THEN 0 ELSE file

read_balance(k) ==
    /\ pc[k] = "read"
    /\ \E b \in {contents} \cup (IF OpenMayFail THEN {0} ELSE {}) :
          current_balance' = [current_balance EXCEPT ![k] = b]
    /\ goto(k, CASE choice[k] \in {1, 2} -> "amount"
                 [] choice[k] = 3        -> "send"
                 [] OTHER                -> "unlock")
    /\ UNCHANGED <<clientVars, choice, amount, up, down, file_mutex, file, log,
                   crashes>>

\* Mutant: off by one.
sufficientByOne(k, a) == a <= current_balance[k] + 1
sufficient(k, a) == a <= current_balance[k]

\* The amount of a client that is gone is the one of the transaction before,
\* which recv leaves in place.
decide(k, a) ==
    /\ amount' = [amount EXCEPT ![k] = a]
    /\ \/ /\ choice[k] = 1 /\ ~sufficient(k, a)
          /\ goto(k, "send")
          /\ UNCHANGED current_balance
       \/ /\ choice[k] = 1 /\ sufficient(k, a)
          /\ goto(k, "open")
          /\ current_balance' = [current_balance EXCEPT ![k] = asFloat(@ - a)]
       \/ /\ choice[k] = 2
          /\ goto(k, "open")
          /\ current_balance' = [current_balance EXCEPT ![k] = asFloat(@ + a)]
    /\ UNCHANGED <<clientVars, choice, down, file_mutex, file, log, crashes>>

\* Mutant: the amount that was received is not the one used.
recvAmountStale(k) ==
    /\ pc[k] = "amount"
    /\ up[k] # <<>> \/ user[k] = "gone"
    /\ up' = [up EXCEPT ![k] = IF @ = <<>> THEN @ ELSE Tail(@)]
    /\ decide(k, amount[k])

recvAmount(k) ==
    /\ pc[k] = "amount"
    /\ \/ /\ up[k] # <<>>
          /\ up' = [up EXCEPT ![k] = Tail(@)]
          /\ decide(k, Head(up[k]).amount)
       \/ /\ up[k] = <<>> /\ user[k] = "gone"
          /\ decide(k, amount[k])
          /\ UNCHANGED up

\* write_balance: fopen empties the file; a file that cannot be opened is left
\* as it is, and the transaction reported all the same.
openFile(k) ==
    /\ pc[k] = "open"
    /\ \/ file' = NULL /\ goto(k, "write")
       \/ OpenMayFail /\ goto(k, "send") /\ UNCHANGED file
    /\ log' = Append(log, entry(k, choice[k], amount[k]))
    /\ UNCHANGED <<clientVars, choice, amount, current_balance, up, down,
                   file_mutex, crashes>>

\* fprintf fills a buffer, which fclose writes.
writeFile(k) ==
    /\ pc[k] = "write"
    /\ file' = current_balance[k]
    /\ goto(k, "send")
    /\ UNCHANGED <<clientVars, choice, amount, current_balance, up, down,
                   file_mutex, log, crashes>>

\* Mutant: back to recv without unlocking.
sendReplyContinue(k) ==
    /\ pc[k] = "send"
    /\ down' = IF user[k] = "gone" THEN down
               ELSE [down EXCEPT ![k] = Append(@, current_balance[k])]
    /\ goto(k, "recv")
    /\ UNCHANGED <<clientVars, choice, amount, current_balance, up, file_mutex,
                   file, log, crashes>>

sendReply(k) ==
    /\ pc[k] = "send"
    /\ down' = IF user[k] = "gone" THEN down
               ELSE [down EXCEPT ![k] = Append(@, current_balance[k])]
    /\ goto(k, "unlock")
    /\ UNCHANGED <<clientVars, choice, amount, current_balance, up, file_mutex,
                   file, log, crashes>>

unlock(k) ==
    /\ pc[k] = "unlock"
    /\ file_mutex' = NULL
    /\ goto(k, "recv")
    /\ UNCHANGED <<clientVars, choice, amount, current_balance, up, down, file,
                   log, crashes>>

\* The server dies, with every thread and connection it has, and is started
\* again on the file as it is.
Crash ==
    /\ crashes < MAX_CRASHES
    /\ crashes' = crashes + 1
    /\ user' = [k \in Connections |-> IF user[k] = "new" THEN "new" ELSE "gone"]
    /\ pc' = [k \in Connections |-> IF pc[k] = "none" THEN "none" ELSE "done"]
    /\ up' = [k \in Connections |-> <<>>]
    /\ down' = [k \in Connections |-> <<>>]
    /\ file_mutex' = NULL
    /\ UNCHANGED <<entered, requests, localVars, choice, amount, current_balance,
                   file, log>>

-----------------------------------------------------------------------------
client(k) ==
    \/ Connect(k) \/ Receive(k) \/ Leave(k) \/ Jam(k)
    \/ \E c \in SentChoices : Choose(k, c)
    \/ \E a \in Amounts \cup Garbage : EnterAmount(k, a)

client_handler(k) ==
    \/ recvChoice(k) \/ hangUp(k) \/ lock(k) \/ read_balance(k)
    \/ recvAmount(k) \/ openFile(k) \/ writeFile(k) \/ sendReply(k) \/ unlock(k)

Next == Crash \/ \E k \in Connections : client(k) \/ client_handler(k)

Spec == Init /\ [][Next]_vars

\* The system runs every thread that can run.  Nothing is assumed of users.
LiveSpec == Spec /\ \A k \in Connections : WF_vars(client_handler(k))

=============================================================================
