# gomembase: TLA+ models, checks and proofs

gomembase is an in-memory database server in Go. Clients create *sub-instances*
(key-value, list, set or sorted set engines, each named by a uuid), send
commands to them over TCP, group commands with MULTI/EXEC and use
publish/subscribe. State survives restarts through a write-ahead log and
periodic snapshots. This directory models the parts of it whose correctness
depends on the order of steps of several actors, or on when a failure comes.

## 1. Inventory

| Part | State it keeps | Operations | What makes it correct |
| --- | --- | --- | --- |
| `pkg/wal` | log file, its open/synced status, buffer of lines, one mutex | WriteToWal/WriteRaw (buffer only), SyncWal, RecoverFromWal, CloseWal, TruncateWal | every accepted line reaches the file once and in order, whatever system call fails; the buffer drains; recovery reads everything |
| `pkg/persistence` | the registered engines, log and snapshot | Log, Restore (two passes over the log), SaveSnapshot, Reset, Clear | after a crash the state is the one acknowledged work produced |
| `pkg/snapshot` | the snapshot file | Save (temporary file, fsync, rename), Load, Delete | the file is always one complete snapshot |
| `multiplexer/tx_wal_logger.go`, `scoped_logger.go` | active flag, buffered entries, a mutex | Log, BeginTx, CommitTx, RollbackTx | a transaction's lines form one block between markers, or are not logged |
| `pkg/transaction`, `multiplexer/tx_builder.go` | queued requests, operations, undo closures | Queue, Exec, Discard | all commands take effect or none; nobody sees the middle |
| `multiplexer/multiplexer.go`, `router.go` | four maps uuid -> engine, `mutex`, `txLock` | CREATE, DELETE_INSTANCE, Execute, CleanupAllExpired, replay, serialization | the instance limit, and a deleted instance stays deleted |
| `pkg/storage` | map key -> payload with expiry, expiry heap | about 30 commands, lazy and periodic expiry, replay | memory and replay agree; expired values never come back |
| `pkg/list_storage`, `pkg/set_storage`, `pkg/zset_storage` | one collection per key with an expiry, expiry heap; a skip list | about 80 commands, replay | memory and replay agree; ranks follow the order of scores |
| `pkg/pubsub` | channel -> subscribers, a list of (pattern, subscriber), an RWMutex | Subscribe, Unsubscribe, PSubscribe, PUnsubscribe, UnsubscribeAll, Publish | a message reaches the subscribers of that moment and nobody who has left; no subscriber stays after its connection |
| `pkg/server` | listener, `quit`, connections, a wait group; per connection a queue of 256, a writer, subscriber mode, the transaction queued so far | Start, Stop, one read loop per connection | the answers tell what was run; slow subscribers block nobody; Stop ends, and so does everything it stops |
| `main.go` | the tickers | flush, recovery, expiry, snapshot, server, started in this order | no operation meets the recovery; no circle of goroutines that wait |

**Interaction.** `Multiplexer.Execute` looks up an engine under `mux.mutex`
and `txLock` (read); the engine changes its map and logs the operation under
its own mutex; the line goes through `ScopedWalLogger`, `TxWalLogger`,
`PersistenceManager.Log` into the buffer of `BufferedWal`. `TxBuilder.Exec`
holds `txLock` for writing and makes `TxWalLogger` collect lines. Three
tickers run beside the clients: the flush (`SyncWal`), the snapshot
(`SaveSnapshot`: `SerializeState` of every engine, rename, `TruncateWal`) and
the expiry. A start reads the snapshot and then the log. The read loop of a
connection calls the hub or `Multiplexer.Execute` and queues the response for
the connection's writer; `Hub.Publish`, called by one connection, puts messages
into the queues of others. `Server.Stop` wakes handlers and writers through the
channels `quit` and `done` and by closing sockets.

**Hard behaviour.** Crashes between any two of these steps; I/O errors in the
middle of an export; the snapshot racing clients and transactions; commands
that do not take the transaction lock; engines used after their deletion; undo
closures that restore less than the command changed; replay code that is
written apart from the command it repeats; clients that do not read, connections
that end while they are published to, a shutdown that races the accept loop;
seven mutexes, taken in one order by clients and in another by the recovery. `PROJECT.json` lists these hazards
at their lines.

## 2. Modules

| Module | Models | How state and actions correspond |
| --- | --- | --- |
| `DurableLog` | what everybody relies on when logging | the accepted lines and how many of them are durable |
| `BufferedWal` | `pkg/wal` | `buffer` is `bw.buffer.content`; `file`, `synced`, `open` the file; `mu` who holds `bw.mutex` over several system calls; `pos` how far `ExportToWal` has come. One action per method, and one per system call of `ExportToWal` |
| `BufferedWalProofs` | proofs about `BufferedWal` | |
| `Persistence` | recovery end to end | `live`, `data`: the registered list engines; `held`: an engine looked up and not used yet; `active`, `txBuffer`, `toFlush`: `TxWalLogger`; `txPhase`, `undos`: the EXEC under way; `snapPhase`, `toCopy`, `partial`, `snapshot`: `SaveSnapshot`; the log is that of `DurableLog` |
| `PersistenceProofs` | proofs about `Persistence` | |
| `KVStorage` | `pkg/storage` | `store.data` is `Storage.data`, `store.heap` the expiry heap together with `expirationMap`; `seen` the expired keys a reading method has met when it releases the read lock; `log`, `snapshot` what a restart finds; `now` the clock in ticks. One action per method, two for the methods that release the mutex in between |
| `KVStorageProofs` | proofs about `KVStorage` | |
| `TxExec` | `tx_builder.go`, `transaction.go`, the undo closures of all engines | `db`: every key of every engine; `log`: the lines about them, with expiries in whole seconds, of which `Replayed` is what a restart at this moment would make; `undos`, `txBuffer`: the closures and lines collected so far. One action per shape of command and closure: a closure that knows all it needs, only a first key, or nothing. What a list or a set looks like is left open |
| `TxExecProofs` | proofs about `TxExec` | |
| `ListStorage`, `SetStorage`, `ZSetStorage` | the engines of that name | `data` is the engine's map; `disk` what replaying its log gives, kept up to date by replaying each line as it is logged. One action per command that changes something; the STORE commands of sets are two, as the reply is computed before the lock is taken; `reading` is the gap. `Restart` is a stop right after a snapshot: `SerializeState` and `DeserializeState` of the engine, one after the other |
| `SkipList` | `skiplist.go` | a record of nodes with their forward links and spans, tail, length and level; operators for insertion, deletion and searches |
| `Collections` | one instance, whose kind CREATE chooses | the three engines as INSTANCEs over one `data` and `disk` |
| `CollectionsProofs` | proofs about `Collections` and its three engines | |
| `PubSub` | `pkg/pubsub` | the hub as a value: a set of pairs for `channels`, a sequence for `patternSubs`; one operator per method; `Publish` gives the deliveries, in each order the walk over a map may have |
| `Server` | `pkg/server`, and what queues commands in `tx_builder.go` | `start`, `stop`: where the two methods are; `pc`: where each handler is; `mode`, `subCount`, `tx`: its variables; `stream` and `sent`: everything put into `writeCh` and how much the writer has taken; `link`: the connection, whose `Close` has two steps. A handler's step runs to the next place where it can wait |
| `ServerProofs` | proofs about `Server` | |
| `LockPaths` | what each operation locks and unlocks | a path is the sequence of these steps, built from the paths of what the operation calls |
| `Locks` | goroutines that run such paths on Go's `sync.RWMutex` | `todo`: the rest of each goroutine's path; `writer`, `readers`, `waiting`: the state of each mutex. One action per thing that can happen in Lock, Unlock, RLock, RUnlock |
| `LocksProofs` | proofs about `Locks` | |
| `SequenceLemmas` | what proofs need of the community modules: greatest positions, sequences of sets, a step for each line of a log, how many of a set of positions come first | |
| `MC...` | small instances for TLC | |

`Persistence` uses the actions of `DurableLog` for its log, and `BufferedWal`
is proved to implement `DurableLog`: this is how the two are composed.

`Persistence` keeps one list per instance. That is enough for every way a
recovery can go wrong to be visible: pushes are not idempotent, a pop of an
absent key panics on replay, and deleting an unknown instance is an error that
ends `Restore`. The engines' own commands are the subject of modules of their
own: `KVStorage` and the three of `Collections`. `KVStorage` takes from `Persistence`
only what happens when nothing goes wrong: a snapshot that replaces the log, and
a restart that replays the log on the snapshot. In return, `Persistence` may
treat the replay of a line as the command that logged it, which is what
`ReplayMatchesLive` is about, there and in `Collections`.

`TxExec` takes from `Persistence` that an EXEC is alone with the engines
(`ExecIsAlone`), so that other commands run between EXECs only, and that its
lines enter the log together (`BlockIsContiguous`), so that its commit is one
step; crashes inside it are the subject of `Persistence`. In return it opens up
what `Persistence` has as an undo stack that restores everything. The expiry
ticker, which no lock keeps away from an EXEC, is in `TxExec` at every step.

`Server` is composed of `PubSub` and the handlers, writers and queues around it.
The multiplexer is one step there: a command, or an EXEC as a whole, runs or
fails; what is inside is the subject of `TxExec`. `Locks` is the other
way to cut the same system: it leaves out all data and keeps what each
operation of the process locks, from the connection's request to the log.

### Plan

In this order, the part of the system whose failure costs most first:

1. `DurableLog`, `BufferedWal`, `Persistence`, and the proofs about
   `BufferedWal` and about the lock in `Persistence` (done); proof that
   recovery is exact (done).
2. `KVStorage`: expiry by `Get`, by `Exists` and by the ticker; increments on a
   small word; live state against replay (done).
3. `TxExec`: EXEC over the engines with each command's undo closure, against
   `transaction.go:16-20` ("restores pre-state") (done).
4. `SkipList`: insertion, deletion and ranks with span counters, against a
   sorted sequence (done).
5. `ListStorage`, `SetStorage`, `ZSetStorage`: live execution of each command
   against the replay of the line it logs, over bounded inputs (done); proofs
   about the three engines (done).
6. `PubSub` and `Server`: read loops, queues and writers of connections,
   subscriber mode, slow subscribers, shutdown; MULTI, DISCARD and the queue of
   a transaction (done); proofs of all its invariants (done).
7. `LockPaths` and `Locks`: the order of all locks of the process, with the
   recovery, the tickers and clients; freedom from deadlock, checked and proved
   (done).
8. Proofs: that a rollback restores the places its closures know (`TxExec`),
   the expiry heap and the replay of `KVStorage`, the replay of lists and what
   LREM, LRANGE, LINDEX and LPOS make of positions (done); skip lists, their
   links, spans and levels, and the replay of sorted sets (done); what the
   searches by rank and by score find (done). Every safety property of the
   passing runs has its theorem.
9. `Registry`: the limit on instances, which a replay does not look at, with
   recoveries that create deleted instances again (not begun).

## 3. Checks

| Run | Bounds | Shows |
| --- | --- | --- |
| `buffered_wal` | 2 different lines, 3 writes, 2 I/O errors, 1 crash | type invariant; `ImplementsDurableLog` (refinement); `ExportKeepsLines`; `RecoveryIsComplete`; liveness: `BufferDrains`, `AcceptedBecomesDurable` |
| `buffered_wal_retry` | 2 writes, 1 I/O error | `RetryWritesRemaining` fails, see findings |
| `persistence` | 1 client beside one EXEC at a time, 2 instances, 3 commands, 2 EXECs, 1 snapshot, 2 crashes | type invariant; `RecoveryIsExact`; `ExecIsAlone`, `BlockIsContiguous` |
| `open_block` | as above, 1 EXEC, no snapshot | `OnlyIncompleteTxSkipped` fails, see findings |
| `kv_storage` | 2 keys, 1 reader beside the writers, 1-bit integers, seconds of 2 ticks, clock to 3, 3 commands, 1 snapshot, 1 restart | type invariant; `HeapMatchesData`; `ReplayMatchesLive`; `ServedValuesStay` |
| `kv_expiry` | as above | `ExpiredStaysExpired` fails, see findings |
| `tx_exec` | 2 keys of the key-value engine and of a collection engine, 2 values, times to live of 1 tick, seconds of 2 ticks, clock to 3, 3 commands, 2 EXECs | type invariant; `RollbackRestores`; `MemoryMatchesLog` |
| `tx_undo` | as above, 1 EXEC | `UndoRestoresPreState` fails, see findings |
| `collections` | 3 keys of lists and sets, 1 of sorted sets, 2 values, lists to length 3; skip lists of 3 members, 3 levels, 3 scores and NaN, ZADD of 1 member, or of 2 with nodes of level 1 | type invariant; `ReplayMatchesLive`; `ListsMeetReference`; `StoreReplyIsExact`; `SpansAreExact`; `ReadsMeetReference` |
| `server` | 2 clients, 1 channel and 1 pattern that matches it, queues of 2; four conversations (below) | type invariant; `ModeMatchesHub`; `LeftTheHub`; `NoMessageAfterUnsubscribe`; `StreamTellsWhatRan`; `QuietAfterStop` |
| `server_stop` | 2 clients, one of which need not read, 1 channel, queues of 1; three conversations | liveness: `RequestsFinish`, `StopEnds`, `ConnectionsEnd` |
| `locks` | main, the flush and snapshot tickers, and two goroutines that run every client operation and the expiry; 6 locks | type invariant; `NoDeadlock`; TLC's own check for deadlock |

**Why the bounds are enough.** Three lines and two faults give every split of an
export (before, between, after the lines) and a retry after a failed retry; a
further line repeats what a middle line does. In `Persistence`, the two
instances let a snapshot be between them; three commands build, change and empty
an instance; the second EXEC follows a rolled back or cut one; two crashes are
needed to see what recovery does to lines that were logged after a recovery. The
client holds at most one engine, so one client can be between lookup and use
while every other actor moves. In `KVStorage` two keys let one command touch a
key that a reader has seen and one that it has not, a second of two ticks
separates an expiry from its logged form, one bit makes every increment reach a
limit, and three commands set a key, give it a time to live and set it anew. In
`TxExec` three commands are one before the EXEC and two in it, so that two
closures can be about the same key, or all three in it; the second EXEC finds
what the rollback of the first has left; with a clock of three, a key that is
set, and set anew with a time to live, has expired for the replay as well, and
one whose time to live a closure has started anew outlives its line; one collection engine stands for the
three, as the shapes of their closures are the same, and the second key is what
a move goes to. In `Collections`, with three keys a STORE command has two
sources besides its destination; lists of three elements over two values have a
first, a middle and a last occurrence for LREM and every position relative to
both ends for LRANGE, whose indices reach one beyond either end; three nodes on
up to three levels give a node before, at and after every place where a span
changes, with links on each level that end, pass one node or pass two, and a
level that is new or becomes empty. The three scores stand for 0, the greatest
finite float64 and +Inf: they tie in every way, a sum gives each of them,
and adding may change nothing. NaN comes in as an argument; it is no sum of these
three, as -Inf is not among them (the proofs leave that open). In a ZADD of two members nodes draw level 1 (`MaxBatchLevel`); all the
shapes of a list come about by adding one member after the other.
Keys and values are symmetric where they are model values; in `TxExec` the lines
of one command enter buffer and log in an order that TLC chooses, which symmetry
does not respect, but they are about different places and no property sees their
order. A list that a negative LSET index has set apart from its log, or a sorted
set that holds a NaN, is not followed further (`NotMisled`). States of `Persistence` in which a cause of
`RecoveryIsExact` has occurred are checked and then not extended (`NoCauseYet`),
as the property says nothing of what follows. The bounded counters make
behaviours end, so these runs do not check for deadlock; those of `Collections`
and `Locks`, which count nothing, do.

In `Server` a conversation (`Menus`) says what each client may send, in any
order, how many lines, and whether it may hang up. Three are about the hub and
the handlers: a publisher of two messages beside a client that sends three
(un)subscriptions, so that one subscription can be undone or repeated while a
message is under way; a subscriber that hangs up, with arguments that name
nothing; five lines of MULTI, EXEC, DISCARD, commands and subscriptions, enough
for a transaction that is closed off by subscriber mode and reopened. A fourth
has Stop in it while a message is on its way. Queues of two are full after one
message and one answer. For liveness, in queues of one: a subscriber that does
not read while two messages are published, so that the second finds the queue
full with one in the writer's hand; Stop with a client that leaves three
answers unread, the third of which its handler waits to queue; Stop with two
clients, one of which may be accepted when Stop has walked the connections.
`main` never calls `Stop`; tests do, so that it is in some conversations only.
The server may stop for good after that, or when nobody has anything left to
send, so these runs do not check for deadlock.

In `Locks` the expiry is among the paths of one of the two client goroutines,
and these have different operations, to keep the instance small: a circle of
waiting goroutines over six locks that are taken in one order has to begin at
one lock, and the five goroutines hold any two of them. That more goroutines
change nothing is what the theorem says.

**`RecoveryIsExact`.** The history variable `owed` gives, for each length that
the log may be cut to, the state the clients are owed then: what the last work
acknowledged within that much of the log has led to. Logging a line whose work
is not acknowledged yet (a line of a block that is being flushed) owes nothing
new; a truncation after a snapshot makes what was owed for the whole log owed
for good; a crash that keeps `n` lines leaves `owed[n]` as what everybody is
owed. The invariant says that the instances always hold what is owed for the log
as it is, that the server is up, and that no EXEC is half there, unless one of
seven named causes has occurred:

| Cause | Where | What goes wrong |
| --- | --- | --- |
| `lostWrites` | `persistence.go:175-179` | a command logged after its instance was copied is truncated with the log |
| `staleLog` | `persistence.go:175-179` | crash or failed truncation after the rename: lines are replayed on a snapshot that holds their effects; the server may be unable to start |
| `openBlock` | `persistence.go:134` | lines logged after a cut-off block are skipped |
| `dirtySnapshot` | `persistence.go:167` | a snapshot of a running EXEC |
| `cutBlock` | `tx_wal_logger.go:62` | truncation between two lines of a block |
| `foreignEntry` | `tx_wal_logger.go:34` | CREATE or DELETE_INSTANCE logged into another client's transaction |
| `zombie` | `multiplexer.go:225` | a command on an engine that has been deleted since its lookup |

So the model does not claim that recovery is right; it claims that these seven
are all the ways in which it is wrong at this level of detail. TLC confirms it
for a small instance and `RecoveriesExact` (section 4) for all.

**The lock and the log.** `ExecIsAlone` says that the transaction lock works,
although commands take it for reading around a lookup and a use that are
separate steps: during an EXEC no command of another connection changes an
engine. `BlockIsContiguous` says that the mutex of `TxWalLogger`, and it alone,
keeps foreign lines out of a block while it is flushed line by line; CREATE and
DELETE_INSTANCE, which take no transaction lock, wait there. Neither covers the
expiry ticker, which takes no transaction lock either and logs nothing.

**The key-value engine.** `HeapMatchesData` relates the two structures that
every method must change together. `ServedValuesStay` is about the gap in which
reading methods have released the read lock: a value that was set in the gap
must not be deleted. It holds for the methods that look again
(`deleteExpiredKeys`) and the ticker; `Get` and `Exists` do not look again
(`storage.go:583`, `storage.go:620`), and the property excepts them by name.
`ReplayMatchesLive` compares, in every state, what clients are served with what
a restart at this moment would serve. Its exceptions are the second that is cut
off an expiry, and keys whose last SET has expired, see finding 3. It also says
that nothing is lost by not logging what the ticker removes.

**Rollback.** `RollbackRestores` and `MemoryMatchesLog` are about closures that
are written by hand beside each command. `unsaved` holds the places that the
EXEC has changed when no closure knew what was there, and `lost` those that a
rollback has left so. `RollbackRestores` excepts the former and no others: the
order of the closures, several commands on one key, times to live that a
closure starts anew and the ticker between any two steps are all covered, and
the list of commands with incomplete closures (finding 4) is complete at this
level of detail. `MemoryMatchesLog` compares what is served between EXECs with
what a restart would serve. The log has expiries in whole seconds, and the
replay skips a SET whose expiry has passed, so that the line before it counts
(`storage.go:693`). Besides `lost` it excepts, each for what goes wrong there and
for nothing else: a key whose last SET has expired (`LastSetHasExpired`), which
falls back to an older value after a restart, as in finding 3; and a place whose
time to live a closure has started anew (`prolonged`), which lives longer than
its line, because `RollbackTx` throws the line of the closure away.

**Collections.** `ReplayMatchesLive` compares what a command does with what the
replay of its line does. The lines often hold what was asked for, not what was
found: a count, an index, two keys. LSET is the exception: it resolves an index
below 0 and logs it unresolved (`list_storage.go:771`), the replay then
replaces nothing; the history variable `misled` records this case and the
property excepts it. A `Restart` may come at any time: what a snapshot gives back
must be what all the lines so far would have given, for a sorted set with new
random levels. `StoreReplyIsExact` excepts a destination among the
sources and STORE commands during whose gap another command has
changed a set. `SpansAreExact` determines every link and span of a skip list
from the sorted members and the heights of the nodes; `ReadsMeetReference`
compares ranks, rank ranges, counts and score ranges, which are found by summing
spans, with the sorted members. `ListsMeetReference` states LREM, LRANGE, LINDEX and LPOS by
positions, without the loops and copies of the code.

A score is a float64. In the model it is an integer, which stands for the place of
the number in the order of all float64s but NaN (infinities included), and
`FloatSum` gives what any two of them add up to: a rounded sum, an infinity, or
`NaN`. `Less`, `Equal` and `AtMost` are Go's comparisons, which all fail with a
NaN. The router lets NaN in (`router.go:26`), and from then on the skip list has no
order: the member has no rank and `delete` does not find its node (see
[findings](#findings)).
`unordered` (in `Collections` the same variable as `misled`) records that a
NaN has been stored; nothing happens after it, and the properties of sorted sets
speak of the states before.

The first exception of `StoreReplyIsExact` is `set_storage.go:841`: the STORE
commands empty the destination before they read the sources, so that
`SINTERSTORE k k` empties `k`, and replies the size `k` had. `API_CONTRACT.md:55`
promises that it stores the result and returns its size.

**Subscribers and answers.** `ModeMatchesHub` relates three counts that are kept
apart: the handler's, the mode it derives from it, and what the hub has.
`LeftTheHub` says that nothing is left of a connection in the hub, wherever in a
conversation it ended. `NoMessageAfterUnsubscribe` is about the order of a
client's stream: `Publish` sends to one subscriber after the other, and it is
the read lock it keeps meanwhile that puts each message before the
acknowledgement of the UNSUBSCRIBE. (There is no such promise for SUBSCRIBE: a
message may come before its acknowledgement.) `StreamTellsWhatRan` reads the
answers a client got, in order, as the client would, and finds in them exactly
what was run for it, once and in order, through MULTI, EXEC, DISCARD, refusals
and subscriber mode; messages are dropped from a full queue, answers are not.

**Shutdown.** `Start` adds a connection to the wait group after it has let go of
`connsMutex`. Stop may therefore return while a handler has yet to begin, and
`QuietAfterStop` says that such a handler sees `quit` and reads nothing. If
`wg.Add` comes between the last `Done` and the return of a woken `Wait`, Go's
wait group panics ("WaitGroup is reused", or misused); this is a step of
the model (`panicked`) after which nothing happens, and the liveness properties
except it.

**Deadlock.** Clients and tickers take the locks in the order
`PersistenceManager.mu`, `txLock`, `mux.mutex`, an engine's mutex,
`TxWalLogger.mu`, `BufferedWal.mutex`. `Restore` does not: `RecoverFromWal` keeps
`BufferedWal.mutex` while the replay locks `mux.mutex`. `NoDeadlock` says that no
goroutines wait for one another in a circle all the same, as only the flush
ticker, which takes one lock and no other, is started before `Restore` returns.
The mutant of this property starts the others at once, and TLC finds CREATE and
`Restore` waiting for one another. A reader that waits behind a waiting writer
is part of the model: it is what makes taking a read lock twice a deadlock in Go,
and no path does so (`Disciplined`, evaluated for every path of the code).

**Fairness.** `BufferedWal` and `Server` have liveness properties. Weak fairness of
`ExportStep` says that a method that holds the mutex runs to its end: it makes
a finite number of system calls. Strong fairness of `StartExport("SyncWal")`
is the flush ticker (`main.go:150`): it fires for ever, and Go's mutex passes
itself to a waiter after a millisecond of starvation, so that clients cannot
keep it away. There is no fairness for clients, faults or crashes.
`BufferDrains` holds while the file is open. `AcceptedBecomesDurable` is about
moments from which on nothing fails and no process dies, whatever failed before,
but with a line in the buffer: then this line and all before it are fsynced in
the end, those included that a failed fsync or a dead process has left unsynced.
With an empty buffer `ExportToWal` does not fsync (`buffered_wal.go:26`), so
that such lines stay volatile until somebody writes, and nothing is promised.

In `Server`, weak fairness of the steps of `Start`, of `Stop`, of each handler
and of each writer says that Go schedules goroutines that can go on. Two things
are left out of it on purpose: reading a request, as no client has to send one,
and the next turn of the accept loop while the listener is open, as nobody has
to connect and `Accept` may go on failing. Clients in `Attentive` keep reading
what they are sent; of the others nothing is assumed. `RequestsFinish` is about
the attentive ones only, `StopEnds` and `ConnectionsEnd` hold with the others.
`Locks` has no fairness; its theorem says which waits cannot be for ever.

Every property of a passing run has a mutant: a definition marked as a slip in
the comments, which stands for a plausible error and with which TLC finds the
property violated.

### Findings

1. `wal.go:57` closes the log file after a write error. Nothing opens it again:
   the server acknowledges commands it can no longer log
   (`RetryWritesRemaining`, against `tests/buffered_wal_test.go:147`).
2. `persistence.go:134` (`OnlyIncompleteTxSkipped`, against the comment at
   `persistence.go:135`): see `openBlock`.
3. `storage.go:693` (`ExpiredStaysExpired`, against `API_CONTRACT.md:14`): SET,
   then SET_TTL, then the time runs out, then a restart: the replay skips the
   SET_TTL because it has expired, and GET answers with the first value, which
   now never expires.
4. `tx_builder.go:73` (`UndoRestoresPreState`, against `transaction.go:20`): the
   closures of INCRBY and DECRBY are filed under names that no command has,
   MSET, MSET_TTL and the pattern deletions have none, and RPOPLPUSH and SMOVE
   restore their source only. After a failed EXEC these changes stay in memory,
   while the log does not have them.

Further disagreements are excepted by name in the properties of passing runs
and have no run of their own: `staleLog` (against the comment at
`persistence.go:91`), `dirtySnapshot` (against `API_CONTRACT.md:96`), STORE
commands with the destination among the sources (against `API_CONTRACT.md:55`),
LSET with a negative index, of whose replay no document says anything, and a NaN
in a sorted set (against `API_CONTRACT.md:69`: ZRANK "Returns 0-indexed rank of
member", but answers of a member with NaN as of one that is not there, as every
comparison with NaN fails, and ZREM leaves its node in the skip list,
`skiplist.go:148`).

## 4. Proofs

`BufferedWalProofs` proves, for every set `Line` and every natural bound:

- `TypeCorrect`: `Spec => []TypeOK`. `TypeOK` is inductive; two of its parts
  are more than types. `pos \in 0 .. Len(buffer)` needs that the buffer cannot
  shrink during an export, and `mu = "free" => pos = 0` that each export ends
  by resetting its position. They are what the refinement rests on.
- `Refinement`: `Spec => ImplementsDurableLog`. The mapping is the file followed
  by the rest of the buffer from `pos`. Writing a line moves it from one to the
  other (`WriteKeepsAccepted`), dropping the written lines at the end of an
  export leaves the concatenation alone (`FinishKeepsAccepted`), a crash keeps a
  prefix (`PrefixOfConcat`).
- `ExportsKeepLines` and `RecoveryComplete` follow from the same lemmas.

The assumptions are `BoundsAssumption` (the bounds are naturals) and nothing
about `Line`. The facts about sequences are cited from the library's
`SequenceTheorems`.

`PersistenceProofs` proves, for any sets of clients, instances and values and
any bounds:

- `LockSafe`: `Spec => []LockInvariant`. The invariant says that the logger is
  active exactly while `txPhase` is not idle, and that then no client holds an
  engine; that is what a command in its second step would need.
- `ExecAlone`: `Spec => ExecIsAlone`. A command's second step needs an engine in
  hand (`NobodyHolds`), CREATE and DELETE_INSTANCE do not touch engines, and
  each step of the EXEC itself changes the undo stack with the engine.
- `BlocksAreContiguous`: `Spec => BlockIsContiguous`. `Log` is disabled during a
  commit (`LogKeepsBlock`), commands are excluded as above, and of the steps
  that are left only the flush changes the log.

Two more need `ConstantsAssumption` (the bounds are naturals and the constant
for no engine is no instance):

- `Typing`: `Spec => []TypeOK`. A crash puts into memory what `Restore` makes of
  a prefix of the log, so the invariant behind it, `Typed`, says more: log,
  buffers, undo stack, snapshot and every state in `owed` speak of instances in
  `created` only. `Restore` of such a log is a state over them
  (`RestoreLinesType`), and no later step makes `created` smaller.
- `RecoveriesExact`: `Spec => []RecoveryIsExact`. The property speaks of memory,
  and only a crash makes the log matter to it, so the inductive
  `ExactInvariant` has to say at every moment what a crash would find:
  - `PrefixesRestore`: every part of the log that a crash may leave restores
    what is owed for it. It is silent between the rename of a snapshot and the
    truncation, where a crash is a cause (`staleLog`); there `SavedIsOwed` and
    `MissedIsLogged` say what the truncation will settle.
  - `BufferIsOwed` is about what is not in the log yet: the lines an EXEC has
    collected lead from what is owed to what is in memory, and those already
    flushed would be restored were the TX_COMMIT behind them (`Kept`, which is
    `Restore` with this transaction not counted as incomplete). So the last line
    of the block changes what is restored all at once. It needs `RestOfBlock`
    (what is left to flush is the rest of the block), `OnlyCommands`,
    `MarkersAreOld` (this transaction has no marker before) and `BlockIsOpen`.
  - `UndoneIsOwed`: of several undos of an instance the first to have been
    pushed holds its list as it is owed, so that the rollback ends there,
    wherever it stands. `BufferUndone` links both: an instance has an undo if and
    only if it has a line in the buffer.
  - `CopiesAreOwed`: what a snapshot under way has copied is owed, as long as it
    has neither missed a change nor seen one that may be undone.

  The other half of the argument is about `Restore` alone, for a log that gets
  one line longer: a command outside a block is applied (`OutsideLine`), a
  TX_BEGIN changes nothing (`BlockBegins`), nor does a line behind it
  (`BlockGoesOn`), and a TX_COMMIT makes pass 1 change its mind about the block,
  so that pass 2 is a different one from its TX_BEGIN on, and the same before
  (`BlockEnds`, `NotBegunYet`). `InsideIsOpen` says when pass 2 ends inside a
  block. No assumption is made on when any of the causes occurs: the invariant
  says nothing more once one has.

`KVStorageProofs` proves, for any keys, readers, clock and times to live, for
integers of any width and a second of any length, from `ConstantsAssumption` (a
command is about finitely many keys):

- `Typing`: `Spec => []TypeOK`, which needs that an increment wraps into the
  integers (`Wrap` is a remainder), and what the replay of a log of lines is.
- `HeapFollowsData`: `Spec => []HeapMatchesData`. `State` is the set of stores
  whose heap follows the data; every command is an operation that keeps a store
  in it, and so is every step of a replay.
- `ReplayGivesServed`: `Spec => []ReplayMatchesLive`. Comparing the replay of the
  whole log after each command would be a second induction in every step.
  `LogTells` is about the log itself instead: the last line about a key says what
  the store holds of it (up to the second that is cut off), or is a SET that the
  replay would skip; a key without a line is as in the snapshot. That the
  replay of a log leaves each key what its last line says is proved once
  (`IsRun`, `CountingUp`). A SET that is skipped is why the property excepts
  `LastSetHasExpired`, and finding 3 is what happens there. The ticker logs
  nothing and may: what it removes has expired, so that `Tells` allows the log
  to have it, but with an expiry that has passed.
- `ValuesStay`: `Spec => ServedValuesStay`, from the same invariant.

`TxExecProofs` proves, for any places, values and times to live, and EXECs of any
length, from `ConstantsAssumption` and `AbsentAssumption` (an absent entry is no
entry):

- `Typing`: `Spec => []TypeOK`.
- `RollbacksRestore`: `Spec => []RollbackRestores`. Closures run latest first, so
  that of several closures about a place the first to have been collected has
  the last word, whatever state the rollback is in. `UndosKeepBefore`
  says that it will put back what was there before the EXEC, and that a place
  for which no closure is left has that already, unless it is one of `unsaved`.
- `MemoryStaysLogged`: `Spec => []MemoryMatchesLog`. `LinesMatchMemory` says that
  the last line about a place, of the log and the collected ones, tells what is
  in memory, `LogTellsBefore` that the last one of the log alone still tells what
  was there before; with `UndosKeepBefore` the lines of a rollback, those of the
  closures included, may be thrown away. What a restart makes of the log is the
  last word about each place unless that is a SET that is skipped
  (`ReplayedIs`).

They use two relations. `Keeps` is about what becomes of an entry: the same
value, gone only when it may have expired, and with a later expiry only where a
closure has started it anew. `Tells` is the same of a line and what is in
memory, but for the part of a second that is cut off. The second composed with
the first is the second again, and a tick preserves both, which takes care of
the ticker at once.

`SequenceLemmas` has what these rest on. The library's induction theorems take an
operator as a parameter, which the provers cannot instantiate. `CountingUp` and
`BuiltByAppend` are induction over a set of numbers or of sequences instead,
which they can: with them it is possible to prove what a fold over a log
computes, as long as the fold is written as a recursive function (`RestoreLines`,
`Replayed`).

`CollectionsProofs` proves, for any keys, values, members and levels, for any
float64s but NaN as scores (integers in their order), and whatever these add up to,
from `ConstantsAssumption` (that the constant for an absent key is no set, no list
and no sorted set, the one for a panicked replay no map of lists, members are
positive, scores integers and `NaN` none, sums scores or `NaN`, and the bounds
positive numbers). What it says of sorted sets holds until a NaN is stored:

- `SetsSafe`: `Spec => []SetInvariant`. Besides the types and `disk = data`, the
  invariant says that a STORE command between its steps, unless disturbed, would
  read the same result again. This is what its second step needs, which reads
  anew: a result depends on the sources only (`ResultOfSources`), so emptying a
  destination that is no source does not change it.
- `StoreRepliesExact` and `SetsReplay` follow. The latter needs one lemma for
  each command: that its line, replayed, makes what it has made.
- `ListsSafe`: `Spec => []ListInvariant`: the types, with no empty list under a
  key, and `disk = data` unless an LSET was misled, of lists of any length.
  `ReplayListType` says it of every line: the engine commands log only lines that
  do not panic on what they found. The replay of an LSET with an index below 0
  replaces nothing (`ReplacedType`), so the lists differ but neither is broken.
  `ListsReplay` is what `TypeOK` and `ReplayMatchesLive` say of lists.
- `ListsMeetTheirReference`: `Spec => []ListsMeetReference`. After i elements the
  loop of LREM has kept i less the removed ones, and every element it has kept
  stands at its own position less the number of removed ones before it
  (`RemovedSoFar`, by `CountingUp` along the loop). A count below 0 runs on the
  reversed list; `Mirror` carries positions and their numbers over.
- `SortedSetsSafe`: `Spec => []SortedSetInvariant`: every key that is there holds a
  skip list of at least one member, the map holds the scores of its nodes, and
  the replay of the log the same scores, or a NaN has been stored. The order of the
  code's comparisons is that of the numbers (`FloatOrder`) because no node has one. A skip list (`SkipListOf`) is told by the
  rank R of each node, the header's being 0, and its height H: ranks are 0 to the
  length, follow scores and elements, and `Linked` says that a link on level i
  leads to the node of least rank above that has level i, with the difference of
  the ranks as its span. Without the spans in the invariant nothing could be said
  of an insertion, which takes its new spans from the ranks the search has summed
  up. `PathEnds` says where a search ends, on every level; `InsertNodeKeeps` and
  `DeleteElementKeeps` that the new links are those of the ranks raised behind the
  new node, or lowered behind the one that left; they have a lemma each for
  links from the new node, over it (or over the one that left) and elsewhere.
- `SortedSetsReplay` follows: no property of the replay depends on levels.
  `ReadSetIs` is for a restart: the walk along the lowest level meets the members
  by rank (`FollowingIs`), and reading inserts them one after the other.
- `SpansStayExact`: `Spec => []SpansAreExact`. The sequence of the members by rank
  is the sorted one, and the only one (`SortedIs`), so the ranks of the invariant
  are the positions the property speaks of.
- `ReadsAreExact`: `Spec => []ReadsMeetReference`. A search whose condition holds up
  to some rank leaves every level at the last node up to it, with its rank
  (`WalkArrives`, `PathEnds`); scores below a bound, or up to it, are such a
  condition, so the members in a range of scores are those of an interval of
  ranks (`ScoresFound`). `getElementByRank` has no such condition: it looks at the
  sums of spans only. As spans are differences of ranks, each of its steps is the
  step of a search up to the rank (`SameStep`), so it ends at the same nodes
  (`WalkToRankIs`, `ElementFound`). What is then met along the links, or along the
  ways back, is a piece of the members by rank (`FollowingIs`, `PrecedingIs`);
  `Pieces` and `CutPieces` say which pieces the reference asks for, with its
  indices below 0 or outside, offsets and counts. The lemmas are for all integers
  as indices and bounds, and all offsets and counts from 0.
- `Typing` and `ReplayGivesLive` put the three kinds together: `Spec => []TypeOK`
  and `Spec => []ReplayMatchesLive`.

`ServerProofs` proves, for any clients, channels, patterns, requests and queues,
all the invariants that the run `server` checks. They use `ServerAssumption`
(queues have room for something; the constants for "no name" name nothing) and
`MatchesAssumption` (patterns match channels).

- `StopIsFinal`: `Spec => []QuietAfterStop`. The invariant `StopInv` needs two
  more facts: `quit` is closed before anything else of Stop, and every handler
  under way is counted. So when Stop finds the count at zero none is under way,
  and one that starts later looks at `quit` first.
- `Typing`: `Spec => []TypeOK`, which says that no queue exceeds its capacity and
  no pattern is entered twice for a client. `Typed` adds which part of `work` a
  handler has where (topics or messages left), and `LinkFollowsHandler`: a
  handler begins on an open connection and closes it before it leaves the hub.
- `CountIsTheHubs`, `EndedIsOut`: `Spec => []ModeMatchesHub` and
  `Spec => []LeftTheHub`. `HubFollowsMode` extends both to the middle of a line:
  the handler's count is the number of its entries after each topic, and a
  handler in a subscribing line is in subscriber mode before it has any.
- `UnsubscribedIsQuiet`: `Spec => []NoMessageAfterUnsubscribe`. `StreamsClean`
  says it of what is in the stream, for every topic the client is not subscribed
  to now; `SendsToSubscribers` of what publishers have yet to send: while one is
  at it, the hub's lock keeps the recipients subscribed, so that no acknowledged
  leave can overtake a message.
- `AnswersTellWhatRan`: `Spec => []StreamTellsWhatRan`. `AnswersTell` says of the
  answers so far, together, which lines have been run, which are queued and
  whether a transaction is open; an answer can only be appended, and lines have
  rising numbers, so that the set of numbers told determines the order.

What `Only` (the elements of a sequence that are in a set, as in `patternSubs`
after an UNSUBSCRIBE or the answers of a stream) keeps and drops is proved from
its definition as a recursive function.

`LocksProofs` proves, for any goroutines, locks and paths, from
`LocksAssumption`: each path releases what it takes and takes locks downwards in
`Rank`, those of `main` and of the early goroutines in `BootRank`. TLC evaluates
the assumption for the paths of `LockPaths`.

- `Typing`: `Spec => []TypeOK`, which says more than types: readers wait only
  while there is a writer. It is proved from the same invariant `IInv`, as
  inductiveness of the writers' entries needs to know who holds what.
- `NeverDeadlocked`: `Spec => []NoDeadlock`. `HoldersMatchPaths` says that whom
  a lock names as writer or reader has the release of that lock still before it
  on its path, or is about to enter; `Orderly` that what is left of each path is
  disciplined in the order in force. In a circle, everybody who waits for a lock
  waits for somebody who holds it, or is at its door; take the lock of lowest
  rank that somebody in the circle waits for (well-founded induction on the
  naturals). Its holder waits for a lower one, which cannot be, or is at the door
  and waits for a holder, about whom the same is said.

Only model-checked: liveness (`BufferDrains`, `AcceptedBecomesDurable`,
`RequestsFinish`, `StopEnds`, `ConnectionsEnd`), which needs ENABLED.

## 5. Assumptions and what is not modelled

- A line is written whole or not at all (no torn lines), and `bufio.Scanner`
  reads every line (no line above its limit).
- `os.Truncate` and `os.Rename` are durable when they return. The code does not
  fsync the directory, so this is an assumption about the file system.
- An fsync that succeeds after a failed one makes the earlier lines durable.
- Lists, sets and sorted sets have no expiry: the router passes none to their
  commands (it passes nil), so their heaps stay empty. The engines have code
  for it that no command of the server reaches.
- The elements of a sorted set are ordered as numbers where the code orders
  strings. Of a float64 only its place in the order is kept, and what sums there
  are is a constant (0 and -0 are the same score). After a NaN has been stored a
  sorted set is not followed: ranks, order and deletion fail from there on.
- The commands that read lists and sets and then change nothing (SISMEMBER,
  SINTER, LLEN and the like) are left out, but for LRANGE, LINDEX, LPOS and the
  searches of the skip list.
- A snapshot is kept as what its bytes say: keys, counts, elements, scores. That
  every byte sequence is read back in the lengths it was written in is assumed.
- uuids and transaction ids never repeat (`rand.Read`).
- Corrupt snapshot files, JSON and argument decoding, statistics (`GetInfo`),
  error wording and the environment are left out.
- The clock does not go back, and is the same for all actors at one step.
- `Reset` and `Clear` are called by tests only and are left out so far, in
  `LockPaths` too; so are `RegisterEngine` and `RegisterFallbackEngine`, which
  `main` calls before `Restore`.
- `Hub.Channels` and `Hub.NumSub` only read, and only tests call them. A server
  without a hub exists in tests only.
- Stop is called once. The number of recipients PUBLISH answers with is left
  out (it counts dropped messages too), as is the size of a line.
- In `Locks` a goroutine waits for locks only, not for the network, the disk or
  a client; no operation waits for a client while it holds one of these locks.
