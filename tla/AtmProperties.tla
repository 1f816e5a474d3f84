---------------------------- MODULE AtmProperties ----------------------------
(* What the bank server of src/IPCAssignment/socketIPCMechanism promises.    *)
EXTENDS AtmServer

Limit == pow2[MANTISSA]

inside == {"read", "amount", "open", "write", "send", "unlock"}

\* A thread computes with a balance that nobody has changed since it was read:
\* whoever is between reading the file and writing it holds the mutex and, if
\* the file could be read, still sees its content.
NoStaleBalance ==
    \A k \in Connections :
        /\ pc[k] \in inside <=> file_mutex = k
        /\ pc[k] = "amount" /\ ~OpenMayFail => current_balance[k] = contents

\* The transactions that the user of connection k can be said to have asked for.
\* A client whose input cannot be read any more repeats its last choice and
\* amount, as often as it likes, after all that the user did ask for.
asked(k) ==
    IF jammed[k]
    THEN Append(entered[k], entry(k, clientChoice[k], clientAmount[k]))
    ELSE entered[k]

\* Each of the transactions in P was asked for, in the order they were made, and
\* each at a place of its own, unless it is a repetition.
placings(k, P) ==
    {place \in [P -> DOMAIN asked(k)] :
        \A m, n \in P :
            /\ log[m] = asked(k)[place[m]]
            /\ m < n => \/ place[m] < place[n]
                        \/ place[m] = place[n] /\ place[n] > Len(entered[k])}

\* The server makes the transactions a user asked for, in that order and each
\* once, some of them refused.  One who left at the question for the amount gets
\* at most one more.
TransactionsAreAskedFor ==
    \A k \in Connections :
        LET made == {n \in DOMAIN log : log[n].connection = k}
        IN  \/ placings(k, made) # {}
            \/ /\ user[k] = "gone"
               /\ \E last \in made : /\ \A n \in made : n <= last
                                     /\ placings(k, made \ {last}) # {}

\* The balance in the file goes below zero only through a negative amount.
NoOverdraft ==
    contents < 0 => \E i \in DOMAIN log : log[i].amount < 0

\* The balance after the last transaction made, also while it is being written.
committed ==
    LET w == {k \in Connections : pc[k] = "write"}
    IN  IF w = {} THEN contents ELSE current_balance[CHOOSE k \in w : TRUE]
Ledger == INSTANCE AtmLedger WITH
    Transfers <- Amounts \cup Garbage,
    LIMIT     <- Limit,
    balance   <- committed,
    log       <- log

\* The committed balance and the transactions made behave like one account on
\* which they happen one at a time, whatever the threads' interleaving: every
\* balance that a float holds exactly is the initial one with all transactions
\* since, and only a crash can lose it.  Opening the file for writing is the
\* moment a transaction happens.
AtomicLedger == Ledger!Spec

\* A thread gives the mutex back, unless its user sits at the question for the
\* amount; the thread waits for the answer with the mutex in its hands.
MutexGivenBack ==
    \A k \in Connections :
        file_mutex = k ~> file_mutex # k \/ user[k] \in {"withdraw", "deposit"}

=============================================================================
