------------------------------ MODULE AtmLedger ------------------------------
(* What the bank server of src/IPCAssignment/socketIPCMechanism promises:    *)
(* one account, on which the transactions of many connections happen one     *)
(* after the other, each on the balance the one before it left.              *)
EXTENDS Integers, Sequences

CONSTANTS
    Connections, Transfers,  \* transfers: amounts that may be moved
    Initial,
    LIMIT                    \* sums up to here are exact in a float

VARIABLES
    balance,
    log,                     \* the transactions that took effect, in order
    crashes                  \* crashes of the server so far

vars == <<balance, log, crashes>>

Init == balance = Initial /\ log = <<>> /\ crashes = 0

entry(k, c, a) == [connection |-> k, choice |-> c, amount |-> a]

\* Past LIMIT the new balance is rounded.
settles(sum) == \/ balance' = sum
                \/ sum \notin -LIMIT .. LIMIT /\ balance' \in Int

Withdraw(k, a) ==
    /\ a <= balance
    /\ settles(balance - a)
    /\ log' = Append(log, entry(k, 1, a))
    /\ UNCHANGED crashes

Deposit(k, a) ==
    /\ settles(balance + a)
    /\ log' = Append(log, entry(k, 2, a))
    /\ UNCHANGED crashes

\* A crash loses the balance at worst, and no transaction.
Crash ==
    /\ crashes' = crashes + 1
    /\ balance' \in {balance, 0}
    /\ UNCHANGED log

Next == \/ \E k \in Connections, a \in Transfers : Withdraw(k, a) \/ Deposit(k, a)
        \/ Crash

Spec == Init /\ [][Next]_vars

=============================================================================
