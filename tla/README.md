# Kalpavriksha in TLA+

The repository is a collection of C programs: a scheduler simulation, a file
system in memory, a bank server with its client, a cache, a user database in a
text file, four demonstrations of interprocess communication, an inventory, a
player analyzer, a student report, a calculator and an image filter. This
directory has a model of each of them in TLA+, the configurations that check the
models with TLC, and proofs of the most important results with TLAPS.

## Inventory

| Program | State it keeps | Operations | What is hard about it |
|---|---|---|---|
| `fcfs_implementation.c` | PCBs in a hash map with chains; `ReadyQ`, `WaitingQ`, `TerminatedQ` through one `nextQueue` link per PCB; `running`; the kill schedule; the clock | read process and KILL lines; per tick: kill loop, dispatch, cpu, io walk; print; free | a process moves between three queues on one link, and out of the one being walked; a kill meets it anywhere; the end depends on a count |
| `virtual_file_system.c` | a tree of nodes with circular sibling lists, the current directory, a disk of blocks, the list of free blocks and its count | mkdir, create, write, read, delete, rmdir, ls, cd, pwd, df, exit | writes that fail half way, blocks in two lists, names that are cut, the root and the current directory as special cases |
| `socketIPCMechanism/server` and `client` | the balance in `accountDB.txt`, a mutex, one thread and one byte stream per connection; in the client the last choice and amount | withdraw, deposit, display, leave | threads, a lock held while waiting for a user, clients that vanish or repeat themselves, a file that is empty for a moment, floats |
| `lru_cache.c` | a doubly linked list in order of use, hash chains through the same nodes, a count | createCache, put, get, exit | list, chains and count in step when an address is freed and used again |
| `crud.c` | `users.txt`, `temp.txt` | create, read, update, delete | the rewrite through `temp.txt` can be interrupted or fail at every call; names with a comma end what can be read |
| `pipe_ipc.c`, `shm_ipc.c`, `file_ipc.c`, `msg_ipc.c` | the array of the parent, the one of the child, a pipe, segment, file or queue | send, sort, reply, print | two processes; a sleep as synchronisation; a child that dies |
| `dynamic_inventory_management_system.c` | an array of products that doubles, the number in use | add, view, update, three searches, delete | cells that hold old or foreign content, allocation half-way through an addition, a prompt that takes no answer |
| `player_performance_analyzer.c` | per team a list of players per role, sums of strike rates | load, add, show a team, table of teams, top k, all by role through a heap of list heads | the merge of ten lists; indices that are not numbers |
| `student_performance_analyzer.c` | an array of students | read lines, ask again, sort, report | lines that are refused, what the pattern for the name swallows |
| `calculator.c` | an arena, a stack of values and one of operators | check, evaluate, go on or not | overflow tests, stacks without a test, what is left of a long line |
| `sonar_image_processing.c` | a matrix, copies of two rows | generate, rotate, smooth | both in place |

The programs do not call each other. Inside a program the parts share memory
(the scheduler's queues, the cache's list and chains), a file (database, bank,
`file_ipc.c`) or a channel (bank, pipe, message queue). Nothing but the bank
server has threads, and nothing but the bank, the database and the file
demonstration persists anything: crashes are modelled there only.

What makes each program correct, and where it can go wrong, is listed line by
line under `hazards` in `PROJECT.json`; the properties below are aimed at them.

## Modules

| Component | Abstract promise | Detailed model | Properties | Proofs | Instances |
|---|---|---|---|---|---|
| scheduler | | `FcfsScheduler` on `FcfsQueue` | `FcfsProperties` | `FcfsProofs` | `MCFcfs` |
| its queues | `FcfsQueueSpec` on `FcfsQueue` | `FcfsPointerQueue` | in the same module | `PointerProofs` | `MCPointers` |
| file system | `VfsSpec` | `Vfs` | `VfsProperties` | `VfsProofs` | `MCVfs` |
| its rings and free list | `VfsListSpec` | `VfsPointers` | in the same module | | `MCPointers` |
| bank and client | `AtmLedger` | `AtmServer` | `AtmProperties` | `ProcessProofs` | `MCAtm` |
| cache | `LruSpec` | `LruCache` | `LruProperties` | `LruProofs` | `MCLru` |
| user database | `CrudSpec` | `CrudStore` | `CrudProperties` | `RecordProofs` | `MCCrud` |
| sort demonstrations | | `IpcSort` | in the same module | `ProcessProofs` | `MCIpcSort` |
| inventory | `InventorySpec` | `Inventory` | in the same module | `ProgramProofs` | `MCInventory` |
| player analyzer | | `PlayerAnalyzer` | `PlayerProperties` | `RecordProofs` | `MCPlayers` |
| calculator | the recursive `Meaning` | `Calculator` | `CalculatorProperties` | `ProgramProofs` | `MCPrograms` |
| student report | | `StudentReport` | in the same module | `ProgramProofs` | `MCPrograms` |
| image filter | | `SonarImage` | in the same module | `ProgramProofs` | `MCPrograms` |

`ProofBasics` has what the proof modules share: induction and recursion on the
natural numbers, lemmas about parts of sequences and about some of their elements,
and chains of pointers.

`MCPrograms` and `MCPointers` each put several modules side by side; a
variable `program` says which of them a behaviour runs.

Definitions keep the names of the C code. An operator commented as a mutant is
the code with one plausible mistake in it; `PROJECT.json` pairs each with the
property that notices it, and no action uses it.

### Scheduler

`FcfsScheduler` has one action per step of `main`: a process or KILL line, the
end of the input, one turn of the kill loop, the dispatch, the CPU tick, one
visit of the walk over the waiting list, the end of the tick, the report and the
release of memory. `phase` is the place in `main`, `cursor` the loop variable.
Queues are sequences. That the linked queues of the code behave like sequences,
also while the walk removes the process it stands on, is a refinement of its
own: `FcfsPointerQueue` has `front`, `rear` and the shared `nextQueue` as they
are in memory, and implements `FcfsQueueSpec`, which uses the same operators as
the scheduler.

### File system

`Vfs` has one action per command. The ring of siblings is the sequence that
starts at the parent's `child`, the free list the sequence from its head. `write`
is one action with its real order: blocks go back first, then the size is
tested. `freeNode` resets what a freed node held, so that no property can depend
on it. Where the code calls `malloc`, any free address can come back, or none.
`buildCurrentPath` goes up by parent pointers (`namesUp`) and prints down into a buffer
of `MAX_INPUT_LEN` bytes, where a long path is cut (`NameLen`).
`VfsSpec` knows no blocks: a file holds the last content written, or has lost it
when a write did not fit, and the space is counted.

`VfsPointers` has what `Vfs` abstracts from: `child`, `parent`, `nextSibling` and
`prevSibling` of nodes at addresses that are used again, `prevBlock` and
`nextBlock` of the free list in cells that are, and the release that cuts each
ring open behind its tail. It implements `VfsListSpec`: sequences of children, a
sequence of free blocks, and a release of every node, once, before its
directory. Tree and free list share no memory, so they are explored one at a
time.

### Bank

`AtmServer` has the client's loop (`Connect`, `Choose`, `EnterAmount`, `Receive`,
`Leave`) with its two variables: from an input that `scanf` cannot read on
(`Jam`) it sends what they hold again and again, at first what was never
assigned. It has `client_handler` cut at every call that another thread, the client
or a crash can come between: `recv`, the lock, reading the file, `recv` again,
`fopen` (which empties the file), `fclose` (which fills it), `send`, the unlock.
`recv` on a closed connection leaves the amount as it was. `asFloat` is the
rounding of a float with `MANTISSA` bits, on whole units. `AtmLedger` is one
account with a log of transactions; the step that opens the file for writing is
the one that makes a transaction happen.

### Cache

`LruCache` has the pointers of the code, one action per command. A freed node
keeps what it held, so a pointer left behind is seen. `LruSpec` is a list in
order of use.

### User database

`CrudStore` cuts an update or a delete into opening both files, one record at a
time, closing, `remove` and `rename`; the program may die in between. A file is a
sequence of lines as the `fscanf` loops find them: the records a line gives and
whether the scan then goes on, is stuck, or runs on into the next line. A name that
is a word gives the record that was typed. An empty one or one with a comma does
not: `typed` has the record, none, or several that come of it (`Found`), and
`RunTogether` what a line without an end may give together with the next one.
`parse` is the loop: the records up to the first line that the scan does not get over.

On a full disk a file ends at any byte (`cuts`, `parts`), so also within an age,
which may then have lost digits. `fopen`, `remove` and `rename` may fail: an id is
not found in a file that cannot be opened (`userIdExists`), a rewrite is not begun,
the copy does not take the place of `users.txt`. The program looks at none of this
but the first `fopen` of a command.

`history` records what no variable of the program has: the lines of the users
stored, as they were typed (`believed`), what they are to be after the rewrite under
way (`due`), and which of the things have happened that no promise covers
(`excuses`): a write cut short, a name that gives a further record, an id taken without
a look at the file, a new `users.txt` begun while the users were in `temp.txt`, lines
dropped by a rewrite. `CrudSpec` is a list of users with different ids, changed one
user at a time; all that can go wrong with it is that the list loses its end, until
it is spoilt.

### Sort demonstrations

`IpcSort` runs one of the four programs per behaviour. The parent's steps and the
child's are the calls of the code, the bubble sort goes comparison by comparison
and a swap is two stores, since the parent can see the array in between when
memory is shared.

### Inventory

`Inventory` has one action per command, on the whole array: `ProductCount` cells
are in use, the others hold what a delete left there or `realloc` found there.
An addition grows the array first, and may end after that. The search by price
is two steps, since it asks twice. `InventorySpec` is a list of products with
different ids.

### Player analyzer

`PlayerAnalyzer` has one action per command and per player printed of the merge
by role, whose state is the heap. The insertion keeps what is odd in the code: it
looks at the head first and, when the new player does not go before it, not
again. Numbers are integers or `NaN`, which `scanf` accepts and comparisons
refuse; the index is in hundredths and an average is a fraction, so that nothing
is rounded. The order in which `qsort` leaves teams it cannot tell apart is a
choice. The table of initial players is a header outside of `src/`, given as a
constant.

### Calculator, student report, image filter

`Calculator` runs over the characters of a line: the syntax check as an
automaton, then one action per operand, reduction or operator, and the question
at the end, which takes its answer from what the buffer had no room for. Numbers
are those of a small word. `Meaning` in `CalculatorProperties` is what an
expression is worth by its grammar. `StudentReport` takes one line per step; `qsort`
may leave the students in any order that is sorted (`sortedOrders`).
`SonarImage` goes cell by cell through the transposition, the mirroring and the
smoothing.

## Runs

| Run | Bounds | What it shows |
|---|---|---|
| `fcfs` | three processes out of the descriptors of `MCFcfs`, malformed ones among them (any order, pids twice), two KILL lines, two buckets, 20 ticks | where every process is; a complete report in order of completion; I/O at its point and in every tick; order of service; no wasted tick; kills honoured; the end of the simulation, and who can keep it from ending |
| `pointers` | four processes and any sequence of queue operations; a root and three nodes in any tree; three blocks in four cells | linked queues, rings and the free list are the sequences the other models use; what the release frees |
| `vfs` | root and two nodes, two blocks of two bytes, a name that is cut to another one, paths of up to three names in a buffer that two long names do not fit into, contents of none, half a block, one, one and a half | the tree, its names and paths, and files that hold what was written |
| `vfs_no_memory` | three blocks, `malloc` of list nodes may fail | no block is given out twice, and the count agrees with the list |
| `atm` | two connections with two requests each, one crash, inputs that cannot be read | a thread's balance is that of the file, the transactions that were asked for, one ledger |
| `atm_faults` | two connections with one request each, amounts of either sign, one crash, `fopen` may fail, fairness of the threads | no overdraft even then; when the mutex comes back |
| `lru` | three nodes, three keys of which two share a bucket, capacities one and two | list, chains, count; the refinement of `LruSpec` |
| `crud` | two ids, ages that are refused and of two digits, three records, one crash, every file operation may fail, names that stop the scan, give a second record or run on into the next line; one of the things that no promise covers per behaviour | what can be recovered, which ids stay unique, what a rewrite keeps; the refinement of `CrudSpec` |
| `ipc` | the arrays of the code, a failed fork, a killed child | what is printed, and who waits for ever |
| `inventory` | three ids, arrays of two cells that grow once, foreign content in new cells, failing allocations, minimum prices above the greatest price | the refinement of `InventorySpec`; the search by price ends |
| `players` | four teams with a batsman each, two more players of any team, role and three sets of numbers, one of them not numbers | one list per role, in order; the merge; the table of teams |
| `programs` | all expressions of four characters of a small alphabet and longer ones, five-bit numbers; four lines for up to three students; all matrices of two and three with few values, some of four and five | what each of the three prints |

The bounds are small but let the interesting cases happen. Three processes give
a queue with a first, a middle and a last one, and a bucket with a chain. Two
blocks give a full disk, a free list with one block and one with none, and a file
that loses its blocks to another. Two connections give every interleaving of two
threads, and two requests one that follows an interrupted one. Three nodes for a
capacity of two give an eviction while the new node is already allocated, and
addresses that are used again. Three records give a first, a middle and a last
one; with two ids they are the two users and one more that a name or an unchecked id
gives. Four teams give a heap of three levels and two more players a list with a
first, a middle and a last. An array of two that grows has cells never used and
cells used before. Three operators of two precedences give every order of two
reductions; five bits have a least number without an opposite. A matrix of three
has a middle, and one of four and of five each a mirror axis of its own kind.

The bounds the code does not have are the constants `MaxProcs`, `MaxClock`,
`MAX_REQUESTS`, `MAX_CRASHES`, `MAX_RECORDS`, `MAX_EXCUSES`, `MAX_STOCK` (products), `MAX_ADDED`
(players) and `MAX_TYPED` (lines for students); they appear only in guards. Bounds
the code has are smaller than in the code: tables, buckets, blocks, teams,
`LLONG_MAX`, the size of a line and of the path's buffer. The
longest schedule of processes that can complete ends before `MaxClock`, so that
its end is a result and not the bound. Behaviours with a process that never
completes and is not killed are cut off there, which is why `EveryProcessEnds`
asks of them only that such a process is live for ever.

The programs end when their input does, or when a bound is reached, so most
configurations switch the search for deadlocks off. It is on for
the database, whose menu can always be used.

### Fairness

`FcfsScheduler` assumes that the program takes its next step and that the input
ends. `AtmServer` assumes that every handler thread that can take a step does
so some day, which is what the system's scheduler gives; nothing is assumed of
users, and so `MutexGivenBack` has to except a user at the question for the
amount. `IpcSort` assumes that parent and child both run.
`Inventory` assumes of its user only that who is asked for a maximum price in the
end types one that is accepted, if there is one; the programs that only compute
have no liveness property.
Weak fairness is enough everywhere: the only step that others can disable is
taking the mutex, and the property is about giving it back.

## What the checks say about the code

Most properties state what one would hope for. Some state exactly how far the
code goes, because the hope is not true of it:

- A write that does not fit has already given back the old content; `VfsSpec`
  has the lost content as part of the promise.
- `TreeIntact` lets two siblings have one name only when one of them is longer
  than `MAX_NAME_LEN`: it was looked up in full and stored cut. `PathLeadsBack`
  holds in spite of them, since `cd` only ever enters the first of two siblings
  with one name; it excepts paths of `MAX_PATH_DEPTH` names, and those that are printed
  cut because they do not fit into the buffer of `MAX_INPUT_LEN` bytes.
- An empty first line may end the shell (`BlankFirstLine`), since `commandCode`
  is tested before it was set.
- A user who leaves at the question for the amount causes a transaction with an
  old amount (`TransactionsAreAskedFor`), and one who stays there stops the bank
  (`MutexGivenBack`). One who types a letter for a number, or whose input ends,
  repeats the last transaction until the connection breaks.
- A crash of the server while it writes empties the account (`AtomicLedger`);
  with a file that cannot be opened, balances are simply replaced (`atm_faults`
  checks only that nobody is overdrawn).
- After a crash between `remove` and `rename` the users are in `temp.txt`, until
  a new user starts a new `users.txt` (`Recoverable`).
- A line that cannot be read hides all lines behind it, and a rewrite drops them.
  A full disk cuts the copy, with the update reported as made: users are lost, and
  the last one left may have a shorter age, or run together with the next one added.
- An existing id is accepted when `users.txt` cannot be opened to look for it, and a
  name like `a,7 5,b` adds two users (`UniqueIds`, `BookKept` hold until then).
- After a minimum price above 100000 no maximum is taken, and the question comes
  back for ever (`PriceSearchEnds`).
- A choice in the player analyzer that is not a number leaves the variable as it
  was, and the first one leaves it unassigned: the program may end (`badChoice`).
  With an index that is not a number the lists and the table have no order, but
  still everybody once (`RankedLists`, `MergeKeepsPlace`).
- The minus sign of a first mark becomes part of the name, and the mark counts
  as positive (`ReportOfFirstLines`).
- What the calculator's buffer has no room for is taken as the answer to the
  question behind the result (`answer`).
- A process without a burst holds the CPU until it is killed
  (`EndlessNeedsKill`).
- The first tick of I/O is the tick in which the process still ran
  (`IoService`).

No comment, test or document of the repository says otherwise, so these are
descriptions and not contradictions.

## Proofs

The theorems hold for every value of the constants that the named assumptions
allow (`FcfsAssumption`, `PointerAssumption`, `AtmAssumption`, `VfsAssumption`,
`ContentAssumption`, `CrudAssumption`, `LruAssumption`, `CalculatorAssumption`,
`ReportAssumption`, `SonarAssumption`, `InventoryAssumption`, `IpcAssumption`,
`PlayerAssumption`). Two theorems have a further hypothesis:
`LedgerImplemented` (`~OpenMayFail`) and `FilesCorrect` (`~MallocMayFail`).

| Theorem | Property | Inductive invariant |
|---|---|---|
| `TypeCorrect` | | `TypeOK` |
| `PlacementCorrect` | `Placement` | `TypeOK`, `Placement` |
| `TerminatedFinal` | `TerminatedIsFinal` | the same |
| `ReportIsComplete` | `ReportComplete` | and `ReportInv` |
| `FirstTickCorrect` | `FirstTickInOrder` | and `AccountInv`, `FreshFirst` |
| `EndlessCorrect` | `EndlessNeedsKill` | and `AccountInv`, `CpuHeld` |
| `KillsCorrect` | `KillsHonoured` | and `AccountInv`, `KillsInv`, `ChainInv` |
| `ServiceCorrect` | `IoService` | and `AccountInv`, `ServedInOrder` |
| `WorkCorrect` | `NoWastedTick` | and `AccountInv`, `TickInv` |
| `QueuesImplemented` | `ImplementsQueues` | `PointerInv` |
| `NoStaleBalanceCorrect` | `NoStaleBalance` | `MutexInv` |
| `NoOverdraftCorrect` | `NoOverdraft` | `ProtocolInv`, `OverdraftInv` |
| `AskedForCorrect` | `TransactionsAreAskedFor` | `ProtocolInv`, `AskedInv` |
| `LedgerImplemented` | `AtomicLedger` | `MutexInv`, `ProtocolInv`, `SettledInv` |
| `SortsCorrect` | `PrintsSorted` | `IpcInv` |
| `ResultsWhole` | `NoTornRead` | the same |
| `SortsInvent` | `NothingInvented` | the same |
| `BlocksCorrect` | `BlocksExclusive` | `TreeTypes`, `DiskInv` |
| `TreeCorrect` | `TreeIntact` | `TreeInv` |
| `PathCorrect` | `PathLeadsBack` | `TreeInv`, `PathInv` |
| `FilesCorrect` | `FilesHoldWhatWasWritten` | `TreeInv`, `DiskInv`, `FileInv` |
| `RecoveryCorrect` | `Recoverable` | `CrudTypes`, `Stored` |
| `IdsCorrect` | `UniqueIds` | `CrudTypes`, `IdsInv` |
| `BookCorrect` | `BookKept` | the same |
| `RewriteCorrect` | `RewriteKeepsOthers` | `CrudTypes`, `OthersInv` |
| `ListAndTableCorrect` | `ListAndTableAgree` | `CacheInv` |
| `CacheImplementsLru` | `ImplementsLru` | the same |
| `CalculationCorrect` | `CalculatesMeaning` | `CalculatorInv` |
| `StacksCorrect` | `StacksStayLow` | the same |
| `ReportCorrect` | `ReportOfFirstLines` | `ReportInv` |
| `TurnedCorrect` | `TurnedAndSmoothed` | `SonarInv` |
| `StockImplements` | `ImplementsCatalogue` | `StockInv` |
| `RankingCorrect` | `RankedLists` | `PlayerInv` |
| `MergeCorrect` | `MergeKeepsPlace` | the same |
| `BestCorrect` | `BestFirst` | the same |
| `TableCorrect` | `TeamTable` | the same |

### Scheduler

`TypeCorrect` proves the scheduler's `TypeOK`, which the other proofs rest on and
no run has to check. It is inductive as it stands,
since it says of the loops' cursors how far they can be. The lemmas before it
say what the queue operators return for a sequence over any set, and that
`HashSearch` returns a process or `NULL`; then there is one lemma per action.

`PlacementCorrect` proves `Placement`: a process is in exactly one place, its
`state` says which, and the count of terminated processes is the length of their
queue. `Placement` is inductive relative to `TypeOK`. The argument per action is
the same: the process that moves is in the queue its state names and in no
other, so what is removed from there and appended elsewhere neither repeats nor
loses anybody. The lemmas `In`- and repeat-freeness after `enqueue`, `dequeue`
and `removeNode` carry it.

`TerminatedFinal` proves `TerminatedIsFinal`, an action
property, from the two: each action that changes an entry of the table changes
that of a process which is on the CPU, in the ready queue or in the I/O list, and
so, by `Placement`, of one that has not terminated. A KILL line has a test of its
own for that.

`ReportIsComplete` proves `ReportComplete`. The invariant is
`ReportInv`: the completion times in the terminated list do not decrease and are
none later than now, where "now" is one tick ahead while the I/O list is walked
(`CompletedInOrder`, which needs `TerminatedFinal`'s step lemma, so that the old
times stay); a process that is marked killed implies a KILL line, without which
there is no status column (`KilledByLine`); and the loop is left with a count that
is not below the number of processes (`Printed`). That such a count means
everybody is a pigeonhole argument: the terminated list is an injection into the
processes, and as long as they are many, hence onto them.

The second half of `FcfsProofs` is about time. `StepShape` says that a step changes at most one
entry, by one of four updates (killed, dispatched, executed, visited), or reads a
process; most of what follows is shown once per update instead of once per action.
`AccountInv` is what an entry says of its process at any time: how the rest of the
burst, the executed ticks, the rest of the I/O and the state go together. On it rest:

- `FirstTickCorrect`. That a later process did not run first is not inductive: it
  must also be known who is in front. `FreshFirst` says that the processes that
  never ran are the first of the ready queue, in the order of reading, and that
  one of them on the CPU was read before all in the queue.
- `EndlessCorrect`. `CpuHeld`: behind a live process without a burst that has
  had the CPU, nobody has executed. Such a process never leaves the CPU for I/O
  either, since I/O starts only with some of the burst left.
- `KillsCorrect`. `KillsInv` speaks of every event the loop has passed, also
  inside the loop, and of the processes it has marked. Which process a pid finds
  does not change once the input has ended, so an event keeps its target. `ChainInv`
  is why that is the process read last under the pid: a chain has the later process
  before the earlier one, and everybody in the chain of his pid.
- `ServiceCorrect`. The walk removes the process it stands on, so "everybody once"
  is shown by how often each was served: `ServedInOrder` says that a waiter that
  came earlier was served strictly more often, which fixes who is still to come.
- `WorkCorrect`. What a tick does is seen by comparing the table with what it was when
  the tick began, which `TickSpec` keeps in the history variable `before`. `TickInv`
  says what has happened since to each process: until the CPU step no one's work has
  changed (`UntilCpu`); after it one process at most has executed, and each process in
  I/O has had its tick or is still ahead of the walk (`SinceCpu`). At the end
  of the walk nobody is ahead of it.

### Queues as pointers

`QueuesImplemented` is the refinement of `FcfsQueueSpec`, the sequences of the scheduler
model, by `front`, `rear` and one `nextQueue` per process. `PointerInv` says that three
sequences exist that the pointers chain, without a process in two of them (`Shows`): the
links are shared, so this is what keeps a change in one queue out of the others
(`OtherChain`). `EnqueueFields` and `RemoveFields` say what the queue functions do to
the pointers, `EnqueueChain` and `RemoveChain` that this appends and cuts out, and the
walk of the I/O pass is at a process of the waiting queue or behind its end: when that
process is moved to the ready queue, the one that was linked behind it takes its place.

### Bank

`NoStaleBalanceCorrect` proves that a handler thread is between lock and unlock
exactly while it holds the mutex, and that what it computes with is what the file
holds. It needs a strengthening, `MutexInv`: a connection that was not made has
no thread, or `Connect` could put a thread out of the section it is in.

`ProtocolInv` is the agreement of client and thread on the streams: which kinds of
messages are under way, in which order, given where each of the two is. Without it
nothing is known of the value a thread receives. `NoOverdraftCorrect` adds
`OverdraftInv`, the property for the balances that threads hold, with the moment
between the decision and the log, where the amount is still only in the thread's
hands; and that `asFloat` turns no balance negative, for every width.

`AskedForCorrect` needs to know how far the last request of each client has come.
`AskedInv` has a phase for that (`InPhase`): nothing is open, the amount is not sent,
it is not decided or not yet made, it is not replied to, the reply is under way. In
each phase the messages on the streams and the thread's place agree, and while a
transaction is still to be made it has a place behind those that are made
(`Pending`). The property speaks of places, not of subsequences, since nothing can
be proved about `SelectSeq`. A step makes at most one transaction, which is the
pending one (`MadeOneMore`); all others leave the places as they are. A jammed
client repeats its last entry, so its repetitions may share the place behind the
end. A client that left with a question unanswered has at most one
transaction that it did not ask for, and it is the last, because its thread then
finds nothing more to receive.

`LedgerImplemented` is the refinement: `SettledInv` says that a thread at `fopen`
holds the balance that the transaction makes of the file's content, and one at
`fclose` is the reason why the file is empty. The step that opens the file is a
transaction of `AtmLedger`, and a crash with an empty file is its loss; all others
leave `committed` and `log` alone. The hypothesis `~OpenMayFail` is needed: a file
that cannot be opened reads as 0, and the code reports a transaction it has not
made. The run `atm` has it too. What `settles` demands, that a sum within the
float's width is exact, is proved of `asFloat`.

### Sort demonstrations

`IpcInv` is about both processes and what is between them. `Waiting` has where the
parent can be in each program, and that the child has ended when a parent that waits
for it goes on. `UnderWay` has what can be in the pipes, the queue and the file: the
program's array on the way to the child, a sorted one on the way back, and for the
file which of them it is at each place of the two. `Sorting` is the invariant of
the bubble sort: the last `pass` elements are where they belong, and the greatest of
the first `pair + 1` is the last of them. Between the two stores of a swap
(`halfDone`) that holds of the array with the second store made, while the array
itself has one value twice. All this is said unless the child
opened the file too early; `Waiting` holds even then. The lemmas on one comparison
(`PairKept`, `HalfSwap`, `PairDone`) hold for any five integers. The theorems are
about `SortSpec`, without fairness, and for any values of what an
array holds that nothing was read into. The programs' own data are small enough that
TLC sees every behaviour too; the proof says why none of the orders does harm.

### File system

`BlocksCorrect` proves `BlocksExclusive`, also when list nodes cannot be
allocated. `DiskInv` has the sets the blocks are from, which the property leaves
out, and says of whole block lists that they are apart from each other and from the
free list; the lemmas say that giving blocks back, some or all of them, and taking
from the front keep them apart.

`TreeCorrect` proves `TreeIntact`. The walk from the root (`reachable`) is a
recursive function, which no step changes in a way that can be followed call by
call. `ReachIsLeast` shows that its result is the least set that holds the root and
with each node its children; the argument counts, since as long as the set is not
closed every round adds a node, and there are finitely many. Then `TreeInv` is
shown per command with closed sets: a new child adds itself, a removed leaf takes
itself away, and nothing else hangs on it, because it is in the list of its parent only
(`Siblings`).

`PathCorrect` proves `PathLeadsBack`. Both walks, up for the prompt and down again,
are recursive; `PathUnfolds` (of `namesUp`, which a path that is not cut prints in full) and
`ResolveUnfolds` give them by levels. `PathInv` says that
there is a trail: a sequence of directories from the root to the current one, in which each
names the one above as its parent and is the first of its name in there
(`Trails`). The walk up collects the names on the trail, and going down by them finds
the trail again. `cd` makes it longer or shorter by one; `create` and `mkdir` append
behind all children, so who is first stays first; what is removed has no
children and is not the current directory, so it is on no trail, and taking it out
puts nobody in front of those who are.

`FilesCorrect` is the refinement of `VfsSpec`. `FileInv` says of each file that its
content was lost (a size, and no blocks), or that it has exactly as many blocks as its
size needs and that these hold a content. A write takes blocks that were free or its
own, which `DiskInv` keeps apart from those of all other files (`BytesSame`), and
what is split over blocks is put together again (`BytesWritten`, by the division in
`ByteAt`). The count of free blocks together with those the file gives back is
what `VfsSpec` compares with. The hypothesis `~MallocMayFail` is needed: when the list node
of a returned block cannot be allocated, the block is gone, and a write may be refused
for which there was room. The run `vfs` has it too.

### User database

All of it holds until something happens that no promise covers. While the state is
`clean`, every line gives the one record that was typed or none (`Line`), and
`CrudTypes` says so of both files; what has happened once stays in `excuses` (`Excuses`),
so a step to a clean state starts in one. `ParseProps` says what `fscanf` reads
then: one record of each of as many lines as are `Readable`, the last of which
may stop the scan.

`RecoveryCorrect` adds `Stored`: `Held` says for each point in the program which file has
the users, `Prepared` that what was copied and what is still to be copied are together
the users as they are to be (`due`), unless a line stops the scan. So the step with which
the copy takes the place of `users.txt` gives the users asked for, or drops what it did
not reach, which is an excuse.

`IdsCorrect` needs to know what is being written: `IdsInv` says that `temp.txt` is a
beginning of the list rewritten (`Rewrites`), with as many lines as were `taken`,
until it takes the list's place; what cannot be read ends the list and is never found
later. A new user is added behind a file that was looked through, or the state is spoilt.

`BookCorrect` is the refinement of `CrudSpec` on the same invariant, while nothing is spoilt.
The list is what can be read in the file that counts, so it changes at `remove` (when the
copy takes over), at `rename` (when `remove` had failed), and at an addition.
`ParseRewrite` shows that a beginning of a rewritten list is read as a beginning of the
list after one update or deletion. When `rename` fails after `remove`, the list is lost;
that is a deletion that leaves nothing.

`RewriteCorrect` does not need different ids, and holds when an id was taken twice.
`OthersInv` says at each turn of the copy loop that the other records of the copy are
those of the records read so far; `NotOfAppend` is the step for one more record, and
`AllReadAppend` that a copy which is read to its end was so before its last line.

### Cache

The properties follow the pointers (`linked` walks from a node along one link), and
no step changes what a walk finds in a way that can be followed call by call. So
`CacheInv` says that sequences exist that the pointers chain: one that `head`,
`next`, `prev` and `tail` run through, forwards and backwards, with exactly the live
nodes in it, and for each bucket one along `hashNext` with exactly the live nodes
whose key belongs there; and that live nodes have different keys. `WalkIsChain` gives
the walk back (with `WalkFinds` of `ProofBasics`, as for the queues). What remains is to say what the four pointer operations do
to a chain (`DetachList`, `InsertList`, `UnhashTable`, `AddTable`: cut one node out,
push one in front, the rest of the links as they were) and that the last node of
the list is the one to throw out (`RemoveLast`).

`CacheImplementsLru` reads the list of keys and values off that sequence. Detaching a
node takes out the entry at its place (`EntriesCut`), inserting puts one in front
(`EntriesPush`), and since keys differ, the place is the one where `LruSpec` finds the
key. A freed node keeps what it held, and may be the one that `malloc` returns next; the
invariant says nothing of it, and needs to say nothing.

### Calculator

The machine reads from left to right and never looks back; `Meaning` splits the
expression at its last operator of least precedence. `CalculatorInv` says how the
two meet. When the machine is at place `p` of a line that passed the check, the last
operator on the stack is that at some place `t`, and (`Evaluated`)

- the stacks hold nothing, one operator and the value of all that is before it, or
  two, an addition at `c` and a product at `t`, with the values of what is before `c` and of
  what is between `c` and `t`, where no sum is (`stacked`);
- behind `t` are only spaces when an operand is expected (`beforeOperand`); when an
  operator is expected, one more value, that of everything from `t` to `p`
  (`beforeOperator`).

"Value" is `worth`: the number on the stack is what `Meaning` gives the part of the
expression. From that `StacksStayLow` follows, and at the end of the line the one value left is
that of the whole. A reduction replaces two parts by the part that they make up, which
is split at the operator between them (`Reduction`). An operand is read digit by digit
with its signs before it (`NumberIs`, `ReadNumber`). When a test for an overflow fails, the
operand or the reduction has no value in the word, and then neither has any part that
it is an operand of (`Spoils`): so the program may exit at once, whatever
follows. That the overflow tests, which divide the bounds by an operand, fail exactly when the
result is none of the word is `OverflowTests`. The syntax check, an automaton, accepts what is
`WellFormed`. `CalculatorAssumption` says that the arena has room for the longest line and
the two stacks, which the numbers of the code satisfy; so that no allocation fails is
a result.

### Student report

`ReportInv` says that the array holds, of every roll number in a readable line so far,
the student of the first such line, and nobody twice. Sorting permutes the array; the
roll numbers are different, so an order in which nobody is greater than the next one is strict.
`Accepting` says that what the loop accepts, with the sign of a first mark swallowed by
the name's pattern, is what is `readable`, if the roll number is new.

### Image filter

`SonarInv` says of every cell what it holds when the loops have come to `row` and
`col`, in each of the three passes: the generated cell, the one across the diagonal, the
turned one, or the mean around it. The proof of the filter is `CellsOfTurned`: the row
of the cell and the one above are read from copies made before they changed, the row
below has not changed yet. The middle column of an odd matrix stays where it is when its
row is mirrored, as it should. The mean itself, a fold, is never unfolded: both sides
take it of the same cells.

### Inventory

`StockImplements` is the refinement of `InventorySpec`. `StockInv` says that there are never
more cells in use than there are, that those in use hold products as they were typed in, with
different ids, and that the question for a maximum is asked only when there is a product
(the search of the specification is between the prices of two products). Of the cells not in
use it says nothing but that they hold numbers, which is the point: an addition makes room
and writes behind the last one in use (`Room`), a deletion moves up what is
behind the product found (`StockDeletes`), and the loops stop at the count. What
`strstr` finds in two lower-case copies is `TermFound`.

### Player analyzer

The four properties rest on one invariant, `PlayerInv`, which was model-checked on the
run's instance before it was proved. Its parts:

- `ListsRanked` with `distinctIds`, which is `RankedLists`. `InsertKeepsOrder` is about one
  list: the place that the code finds has only greater or equal indices before it and
  smaller ones behind, although the head is looked at once and with the other comparison.
  With `NaN` in the list that place may be any, but nobody is lost or doubled, which is
  all that is claimed then. `Loading` gives the ids of the table's players, who are not
  looked up.
- `Tallied`: the three sums of a team are what counting the players added gives;
  the sum of rates is taken in the order of arrival, as `sumOfRates` takes it.
- `Merging`, which is `MergeKeepsPlace` while the lists are merged. `oneEach`, that no two
  players of the heap are of one team, makes the player who follows the printed one
  (`nextPlayer`, by the place on the list) the next that is not printed. `lists` do not
  change meanwhile, as the display is left only at its end.
- `Best`: the array is a heap (`heapOrdered`), and what it holds is not better than
  what was printed last.
- `Lines`: a printed line of a team is `teamLine` still, because the sums change only in
  actions that print no such line.

The heap is used in two ways. For `Merging` only its players count, whatever the
comparisons say: extracting and inserting rearrange (`arranged`), `NaN` or not, because the
sinking and rising recursions move the element along one path (`descends`, `sinks`, `rises`).
For `Best` all indices are numbers: below the place where the hole is the array is a heap, and
the hole is filled with the greatest of its children (`SinkOrders`), or of its parent and the
new one (`RiseOrders`).

### Induction

No induction theorem of the library can be used, since they take an operator as a
parameter. `ProofBasics` has what replaces them: every set of natural numbers that
is not empty has a least element (from well-foundedness), hence a set that has 0
and with each number the next one has all (`InductiveSet`); and for every first value
and step there is a function that recurs (`RecursiveFunction`), which is what the
equation of a recursive definition follows from. `WalkExists` and `WalkFinds` are
that for a walk along links: it is a function, and it finds the chain of nodes that
starts where it does, because a chain without repetition has no more nodes than there
are. So proofs by induction here
are about sets of numbers or least counterexamples, and `pow2`, `matches`, `parse`,
 `others`, `reachable`, `sumOfRates`, `namesUp`, `resolve` and `linked` could be
unfolded. `picked` is the recursion of a loop that collects some elements of a sequence, with
`PickedUnfolds` for its equation; `Descent` is that for the two recursions of the heap, whose
index falls or grows with each call. What `SelectSeq` and the folds of the
community modules compute is still out of reach.

### Only model-checked

- A refinement: `ImplementsLists`, whose lists come from `SelectSeq` and folds.
- Liveness, which is out of the prover's reach, as `ENABLED` is: `EveryProcessEnds`,
  `MutexGivenBack`, `ParentEnds`, `PriceSearchEnds`.

No module declares a RECURSIVE operator: what is recursive is a function.

## Abstractions

- Text is left out: prompts, tables, and the splitting of command lines. Where
  a conversion matters it is modelled by what it does: the cut of long names, the
  `fscanf` that stops, the rounding to float, the remainder of a pid.
- Undefined behaviour that stays inside a variable is a choice (an uninitialized
  amount, command code or array). Accesses outside of an array or an allocation
  (a negative pid or key, a full kill schedule, values of 64 characters, a
  one-byte `malloc`) are not modelled; the assumptions exclude the inputs.
- Amounts are whole units, so a float's loss of cents is not seen.
- A file that does not get to the disk in full is cut once, when it is closed; that
  space comes free between two flushes of one file is left out, as are reads that fail.
- What the scan makes of a name that is no word is given by examples of each kind
  (`Found`, `RunTogether`), not computed from its characters; the theorems hold for
  any such table.
- A prompt that meets the end of the input and asks again for ever (inventory,
  players, calculator) is not a behaviour of the models: their input goes on.
- The averages of players and students are exact; that a float may round two
  different indices to one is not seen, that it may be `NaN` is.
- Reads and writes of a few bytes on pipes and sockets are not divided.

## Not modelled

- The headers the programs include and do not carry (`Players_data.h`), the
  system's library beyond what the programs use of it, and the initial content
  of `accountDB.txt`, which is a constant. The repository's own README is empty.
- `socket`, `bind`, `accept` and `pthread_create` that fail; the server does not
  look at their results.
- Layout of tables, progress messages and menus.

## Plan

Every program is modelled, and every invariant that a run checks is proved. What is
left is the refinement `ImplementsLists`: its lists would have to be recursive functions
instead of `SelectSeq` and folds before it can be proved.
