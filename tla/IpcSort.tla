------------------------------- MODULE IpcSort -------------------------------
(* The four programs of src/IPCAssignment that have a child process sort an  *)
(* array for its parent: over two pipes, in shared memory, through a file    *)
(* and over a message queue.  Each behaviour runs one of them.               *)
EXTENDS Integers, SequencesExt

CONSTANTS
    Unfilled,     \* what an array holds that nothing was read into
    FAULTS,       \* fork may fail and the child may be killed
    Nothing

Mechanisms == {"pipe", "shm", "file", "msg"}

ASSUME IpcAssumption == FAULTS \in BOOLEAN /\ Nothing \notin Seq(Int)

VARIABLES
    mechanism,
    parent, child,     \* where the two processes are
    data,              \* the parent's array, in shared memory the one of both
    received,          \* the child's array
    toChild, toParent, \* what is under way in a pipe or queue, or Nothing
    onDisk,            \* ipc_file.bin: Nothing, <<>> when just opened, or an array
    pass, pair, temp,  \* the child's loop variables i, j and temp
    raced              \* the child opened the file before it was complete

channels == <<toChild, toParent, onDisk>>
loop == <<pass, pair, temp>>
ipcVars == <<mechanism, parent, child, data, received, channels, loop, raced>>

original == [pipe |-> <<10, 2, 8, 4, 6>>, shm |-> <<9, 1, 5, 2, 7>>,
             file |-> <<45, 12, 89, 7, 33>>, msg |-> <<5, 3, 8, 1, 2>>]

SortInit ==
    /\ mechanism \in Mechanisms
    /\ parent = "fork" /\ child = "unborn"
    /\ data = original[mechanism]
    /\ received = Unfilled
    /\ toChild = Nothing /\ toParent = Nothing /\ onDisk = Nothing
    /\ pass = 0 /\ pair = 0 /\ temp = 0
    /\ raced = FALSE

shared == mechanism = "shm"
queued == mechanism \in {"pipe", "msg"}
childEnded == child \in {"none", "exited", "killed"}

-----------------------------------------------------------------------------
(* The parent.                                                               *)

\* A failed fork is not told from the parent's return.
Fork ==
    /\ parent = "fork"
    /\ parent' = IF shared THEN "wait" ELSE "send"
    /\ child' \in {"receive"} \cup (IF FAULTS THEN {"none"} ELSE {})
    /\ UNCHANGED <<mechanism, data, received, channels, loop, raced>>

SendQueue ==
    /\ parent = "send" /\ queued
    /\ toChild' = data
    /\ parent' = IF mechanism = "msg" THEN "wait" ELSE "collect"
    /\ UNCHANGED <<mechanism, child, data, received, toParent, onDisk, loop, raced>>

\* fopen empties the file, fclose fills it.
SendFile ==
    /\ mechanism = "file"
    /\ \/ parent = "send" /\ onDisk' = <<>> /\ parent' = "close"
       \/ parent = "close" /\ onDisk' = data /\ parent' = "wait"
    /\ UNCHANGED <<mechanism, child, data, received, toChild, toParent, loop, raced>>

\* Mutant: wait is not called.
waitedNot == TRUE
waited == childEnded
Wait ==
    /\ parent = "wait" /\ waited
    /\ parent' = "collect"
    /\ UNCHANGED <<mechanism, child, data, received, channels, loop, raced>>

\* An empty file leaves the array as it was.
Collect ==
    /\ parent = "collect"
    /\ parent' = "printed"
    /\ \/ queued /\ toParent # Nothing /\ data' = toParent /\ toParent' = Nothing
          /\ UNCHANGED onDisk
       \/ mechanism = "file" /\ data' = (IF onDisk = <<>> THEN data ELSE onDisk)
          /\ onDisk' = Nothing /\ UNCHANGED toParent
       \/ shared /\ UNCHANGED <<data, toParent, onDisk>>
    /\ UNCHANGED <<mechanism, child, received, toChild, loop, raced>>

-----------------------------------------------------------------------------
(* The child.                                                                *)

ReceiveQueue ==
    /\ child = "receive" /\ queued /\ toChild # Nothing
    /\ received' = toChild /\ toChild' = Nothing
    /\ child' = "sort"
    /\ UNCHANGED <<mechanism, parent, data, toParent, onDisk, loop, raced>>

ReceiveShared ==
    /\ child = "receive" /\ shared
    /\ child' = "sort"
    /\ UNCHANGED <<mechanism, parent, data, received, channels, loop, raced>>

\* After sleep(1), whatever the parent has done by then.  Reading a file that
\* does not exist ends the child.
ReceiveFile ==
    /\ child = "receive" /\ mechanism = "file"
    /\ raced' = (onDisk \in {Nothing, <<>>})
    /\ child' = IF onDisk = Nothing THEN "killed" ELSE "sort"
    /\ received' = IF raced' THEN received ELSE onDisk
    /\ UNCHANGED <<mechanism, parent, data, channels, loop>>

\* The array being sorted, and storing into it.  Mutant: always the child's own.
arrayOwn == received
array == IF shared THEN data ELSE received
store(k, v) ==
    IF shared THEN data' = [data EXCEPT ![k] = v] /\ UNCHANGED received
    ELSE received' = [received EXCEPT ![k] = v] /\ UNCHANGED data

\* Mutant: the last pair is left out.
lastPairLess(k) == 3 - k
lastPair(k) == 4 - k

\* The inner loop, then the outer one, goes on.
stepLoop ==
    IF pair + 1 < lastPair(pass) THEN pair' = pair + 1 /\ UNCHANGED pass
    ELSE pair' = 0 /\ pass' = pass + 1

Compare ==
    /\ child = "sort" /\ pass < 4
    /\ \/ /\ array[pair + 1] > array[pair + 2]
          /\ temp' = array[pair + 1]
          /\ store(pair + 1, array[pair + 2])
          /\ child' = "swap"
          /\ UNCHANGED <<pass, pair>>
       \/ /\ array[pair + 1] <= array[pair + 2]
          /\ stepLoop
          /\ UNCHANGED <<child, data, received, temp>>
    /\ UNCHANGED <<mechanism, parent, channels, raced>>

Swap ==
    /\ child = "swap"
    /\ store(pair + 2, temp)
    /\ child' = "sort"
    /\ stepLoop
    /\ UNCHANGED <<mechanism, parent, channels, temp, raced>>

\* Mutant: the message keeps the type it came with.
replySameType(a) == toChild' = a /\ UNCHANGED <<toParent, onDisk>>
reply(a) == toParent' = a /\ UNCHANGED <<toChild, onDisk>>

Reply ==
    /\ child = "sort" /\ pass = 4
    /\ \/ queued /\ reply(received) /\ child' = "exited"
       \/ shared /\ child' = "exited" /\ UNCHANGED channels
       \/ mechanism = "file" /\ onDisk' = <<>> /\ child' = "close"
          /\ UNCHANGED <<toChild, toParent>>
    /\ UNCHANGED <<mechanism, parent, data, received, loop, raced>>

CloseFile ==
    /\ child = "close"
    /\ onDisk' = received
    /\ child' = "exited"
    /\ UNCHANGED <<mechanism, parent, data, received, toChild, toParent, loop, raced>>

\* A fault from outside.
Kill ==
    /\ FAULTS /\ ~childEnded /\ child # "unborn"
    /\ child' = "killed"
    /\ UNCHANGED <<mechanism, parent, data, received, channels, loop, raced>>

-----------------------------------------------------------------------------
parentStep == Fork \/ SendQueue \/ SendFile \/ Wait \/ Collect
childStep == \/ ReceiveQueue \/ ReceiveShared \/ ReceiveFile
             \/ Compare \/ Swap \/ Reply \/ CloseFile

SortNext == parentStep \/ childStep \/ Kill

SortSpec == SortInit /\ [][SortNext]_ipcVars

\* Both processes run whenever they can.
LiveSortSpec == SortSpec /\ WF_ipcVars(parentStep) /\ WF_ipcVars(childStep)

-----------------------------------------------------------------------------
faulty == raced \/ child \in {"none", "killed"}

\* The array of the program in any order.
rearranged == {[k \in 1 .. 5 |-> original[mechanism][p[k]]] :
                 p \in {f \in [1 .. 5 -> 1 .. 5] : IsInjective(f)}}

\* What the parent prints is its array, sorted; unless there was no child, or it
\* died, or woke before the file was complete.
PrintsSorted ==
    parent = "printed" /\ ~faulty =>
        /\ \A k \in 1 .. 4 : data[k] <= data[k + 1]
        /\ data \in rearranged

\* The parent never reads the shared array or the file while the child may
\* still write to it.
NoTornRead ==
    parent = "collect" /\ ~queued => childEnded

\* A half-done swap, seen when the child is killed, doubles a value; a value
\* from nowhere is only seen after the race for the file.
NothingInvented ==
    ~raced => ToSet(data) \subseteq ToSet(original[mechanism])

\* The parent prints a result, unless it waits for a message or for bytes of a
\* child that will not send them.
ParentEnds ==
    <>(parent = "printed" \/ (queued /\ child \in {"none", "killed"}))

=============================================================================
