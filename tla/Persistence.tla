---------------------------- MODULE Persistence -----------------------------
(***************************************************************************)
(* How a gomembase server survives a crash: the multiplexer's instances,   *)
(* the transaction logger in front of the write-ahead log, the snapshot    *)
(* ticker of main.go and the two-pass recovery of PersistenceManager, with *)
(* clients, one EXEC at a time, the snapshot goroutine and crashes         *)
(* interleaved.                                                            *)
(*                                                                         *)
(* Every instance is a list engine with one key, so that a push replayed   *)
(* twice shows, a pop replayed on an empty list shows, and a deleted       *)
(* instance can come back.  The log is DurableLog, which BufferedWal       *)
(* implements; file system errors other than the loss of unsynced lines    *)
(* are left to that module, except a failing save or truncation.           *)
(***************************************************************************)
EXTENDS Naturals, Sequences, FiniteSets, SequencesExt

CONSTANTS Client,          \* connections that run single commands
          Instance,        \* uuids the server may hand out
          Value,           \* elements a client may push
          MaxInstances,    \* mux.maxInstances
          MaxCommands,     \* bound: state-changing commands, EXEC's included
          MaxTxs,          \* bound: EXECs
          MaxSnapshots,    \* bound: ticks of the snapshot ticker
          MaxCrashes,      \* bound: crashes
          NoInstance       \* a client that holds no engine

ASSUME ConstantsAssumption ==
    /\ NoInstance \notin Instance
    /\ {MaxInstances, MaxCommands, MaxTxs, MaxSnapshots, MaxCrashes} \subseteq Nat

VARIABLES live,        \* uuids registered in mux.listEngines
          data,        \* the list held by each engine object
          held,        \* the engine a client has looked up and not used yet
          created,     \* uuids handed out so far (generateUUID never repeats)
          log, durable,                   \* the write-ahead log (DurableLog)
          active, txBuffer, toFlush,      \* TxWalLogger
          txPhase, undos,                 \* the EXEC under way
          snapPhase, toCopy, partial, snapshot,   \* SaveSnapshot and its file
          failed,                         \* Restore failed: main panics
          commands, txs, snapshots, crashes,      \* what the bounds count
          (* history, for the properties only *)
          owed,        \* for each length of the log, the state owed to clients
                       \* when that much of it survives
          missed,      \* a change the snapshot under way has not seen
          dirty,       \* the snapshot under way read during an EXEC
          causes       \* what has happened that recovery cannot undo

memory   == <<live, data, held, created>>
wal      == <<log, durable>>
logger   == <<active, txBuffer, toFlush>>
exec     == <<txPhase, undos>>
saving   == <<snapPhase, toCopy, partial, snapshot>>
bounds   == <<commands, txs, snapshots, crashes>>
ghosts   == <<owed, missed, dirty, causes>>
vars == <<memory, wal, logger, exec, saving, failed, bounds, ghosts>>

-----------------------------------------------------------------------------
(* Log lines.  A command of an engine names the uuid as its first argument *)
(* (ScopedWalLogger); the markers of a transaction name its id.            *)
Command(op, i, v) == [op |-> op, inst |-> i, val |-> v]
Marker(op, t)     == [op |-> op, tx |-> t]

IsMarker(e) == e.op \in {"TX_BEGIN", "TX_COMMIT"}

Entry == [op : {"CREATE_INSTANCE", "DELETE_INSTANCE", "LPOP"},
          inst : Instance, val : {NoInstance}]
         \cup [op : {"RPUSH"}, inst : Instance, val : Value]
         \cup [op : {"TX_BEGIN", "TX_COMMIT"}, tx : 1 .. MaxTxs]

(* What a snapshot holds and a recovery restores: the registered instances *)
(* with their lists.                                                       *)
Db == [i \in live |-> data[i]]
EmptyDb == [i \in {} |-> << >>]

With(db, i, list) == [j \in DOMAIN db \cup {i} |-> IF j = i THEN list ELSE db[j]]
Without(db, i)    == [j \in DOMAIN db \ {i} |-> db[j]]

-----------------------------------------------------------------------------
(* Recovery.  The replay of one line by Multiplexer.ProcessWalEntry and    *)
(* ProcessDelegatedWalEntry: an unknown uuid is created on the fly, and    *)
(* deleting an unknown instance is an error, as is popping from a list     *)
(* that does not exist (popNoLockAndNoWal dereferences a nil list).        *)
Replay(r, e) ==
    LET list == IF e.inst \in DOMAIN r.db THEN r.db[e.inst] ELSE << >>
    IN CASE e.op = "CREATE_INSTANCE" -> [r EXCEPT !.db = With(r.db, e.inst, << >>)]
         [] e.op = "RPUSH" -> [r EXCEPT !.db = With(r.db, e.inst, Append(list, e.val))]
         [] e.op = "LPOP" /\ list # << >> -> [r EXCEPT !.db = With(r.db, e.inst, Tail(list))]
         [] e.op = "DELETE_INSTANCE" /\ e.inst \in DOMAIN r.db ->
                [r EXCEPT !.db = Without(r.db, e.inst)]
         [] OTHER -> [r EXCEPT !.ok = FALSE]

(* Pass 1 of Restore: the transactions whose TX_COMMIT is not in the log. *)
IncompleteTxs(l) ==
    {t \in 1 .. MaxTxs : /\ Contains(l, Marker("TX_BEGIN", t))
                         /\ ~Contains(l, Marker("TX_COMMIT", t))}

(* A slip: every line is replayed, whatever transaction it belongs to. *)
RestoreLineSkipsNothing(incomplete, r, e) ==
    IF ~r.ok \/ IsMarker(e) THEN r ELSE Replay(r, e)

(* Pass 2 of Restore: one line.  TX_BEGIN sets currentTxID, TX_COMMIT      *)
(* clears it, and as long as it names an incomplete transaction the line   *)
(* is skipped.  The first error ends the recovery.                         *)
RestoreLine(incomplete, r, e) ==
    IF ~r.ok THEN r
    ELSE IF e.op = "TX_BEGIN" THEN [r EXCEPT !.currentTx = e.tx]
    ELSE IF e.op = "TX_COMMIT" THEN [r EXCEPT !.currentTx = 0]
    ELSE IF r.currentTx \in incomplete THEN r
    ELSE Replay(r, e)

RestoreLines(incomplete, snap, l) ==
    LET restored[n \in 0 .. Len(l)] ==
            IF n = 0 THEN [ok |-> TRUE, db |-> snap, currentTx |-> 0]
                     ELSE RestoreLine(incomplete, restored[n - 1], l[n])
    IN  restored[Len(l)]

(* Restore: the snapshot first, then the log on top of it. *)
Restore(snap, l) == RestoreLines(IncompleteTxs(l), snap, l)

-----------------------------------------------------------------------------
DL == INSTANCE DurableLog WITH Line <- Entry

(* History.  A line is logged for an instance that the snapshot under way  *)
(* has already passed.                                                     *)
NoteLogged(e) ==
    missed' = (missed \/ (~IsMarker(e) /\ snapPhase # "idle" /\ e.inst \notin toCopy))

(* A slip: logging without the logger's mutex, past a commit under way. *)
LogUnlocked(e) ==
    /\ \/ active /\ txPhase # "commit" /\ txBuffer' = Append(txBuffer, e) /\ UNCHANGED <<wal, missed>>
       \/ (~active \/ txPhase = "commit") /\ DL!Accept(e) /\ NoteLogged(e) /\ UNCHANGED txBuffer
    /\ UNCHANGED <<active, toFlush>>

(* TxWalLogger.Log: into the transaction's buffer while one is active,     *)
(* whoever is calling, and otherwise to the write-ahead log.  The caller   *)
(* waits while CommitTx holds the logger's mutex.                          *)
Log(e) == /\ txPhase # "commit"
          /\ \/ active /\ txBuffer' = Append(txBuffer, e) /\ UNCHANGED <<wal, missed>>
             \/ ~active /\ DL!Accept(e) /\ NoteLogged(e) /\ UNCHANGED txBuffer
          /\ UNCHANGED <<active, toFlush>>

(* The state the server owes its clients. *)
Ideal == owed[Len(log)]

(* History.  Work is acknowledged: its state is owed as long as the whole  *)
(* log survives.                                                           *)
Acknowledge == owed' = [n \in 0 .. Len(log') |-> IF n < Len(log') THEN owed[n] ELSE Db']

(* History.  A line is logged and nothing is acknowledged. *)
NothingNew == owed' = [n \in 0 .. Len(log') |-> IF n < Len(log') THEN owed[n] ELSE Ideal]

(* History.  What has been acknowledged is on disk, and is owed whatever   *)
(* is lost of the log.                                                     *)
Settle == owed' = [n \in 0 .. Len(log') |-> Ideal]

(* A crash has left a TX_BEGIN in the log that no marker follows. *)
OpenBlock == /\ txPhase # "commit"
             /\ \E k \in DOMAIN log :
                  /\ log[k].op = "TX_BEGIN"
                  /\ \A m \in k + 1 .. Len(log) : ~IsMarker(log[m])

Cause(name, when) == IF when THEN {name} ELSE {}

Init == /\ live = {} /\ created = {}
        /\ data = [i \in Instance |-> << >>]
        /\ held = [c \in Client |-> NoInstance]
        /\ DL!LogInit
        /\ active = FALSE /\ txBuffer = << >> /\ toFlush = << >>
        /\ txPhase = "idle" /\ undos = << >>
        /\ snapPhase = "idle" /\ toCopy = {} /\ partial = EmptyDb
        /\ snapshot = EmptyDb
        /\ failed = FALSE
        /\ commands = 0 /\ txs = 0 /\ snapshots = 0 /\ crashes = 0
        /\ owed = [n \in {0} |-> EmptyDb] /\ missed = FALSE /\ dirty = FALSE /\ causes = {}

-----------------------------------------------------------------------------
(* CREATE and DELETE_INSTANCE do not take the transaction lock.  From the  *)
(* check to the log line they hold mux.mutex, which SerializeState holds   *)
(* for reading while it copies the instances.                              *)
AdminCommand == /\ ~failed
                /\ snapPhase = "copy" => toCopy = {}
                /\ commands < MaxCommands
                /\ commands' = commands + 1
                /\ UNCHANGED <<held, exec, saving, failed, txs, snapshots, crashes>>
                /\ causes' = causes \cup Cause("foreignEntry", active)
                                    \cup Cause("openBlock", ~active /\ OpenBlock)
                /\ UNCHANGED dirty

CreateInstance(i) ==
    /\ AdminCommand
    /\ Cardinality(live) < MaxInstances
    /\ i \notin created
    /\ created' = created \cup {i}
    /\ live' = live \cup {i}
    /\ UNCHANGED data
    /\ Log(Command("CREATE_INSTANCE", i, NoInstance))
    /\ Acknowledge

DeleteInstance(i) ==
    /\ AdminCommand
    /\ i \in live
    /\ live' = live \ {i}
    /\ UNCHANGED <<data, created>>
    /\ Log(Command("DELETE_INSTANCE", i, NoInstance))
    /\ Acknowledge

(* Execute of a list command: the engine is looked up under the            *)
(* transaction read lock, which no EXEC may hold for writing ...  It also  *)
(* takes mux.mutex before that, for a moment: a snapshot may start after.  *)
LookUp(c, i) ==
    /\ ~failed
    /\ held[c] = NoInstance
    /\ txPhase = "idle"
    /\ i \in live
    /\ held' = [held EXCEPT ![c] = i]
    /\ UNCHANGED <<live, data, created, wal, logger, exec, saving, failed, bounds, ghosts>>

(* ... and then used: the engine changes and logs under its own mutex,     *)
(* also when the instance has been deleted in the meantime.                *)
EngineCommand(c) ==
    /\ ~failed
    /\ held[c] # NoInstance
    /\ commands < MaxCommands
    /\ commands' = commands + 1
    /\ held' = [held EXCEPT ![c] = NoInstance]
    /\ causes' = causes \cup Cause("zombie", held[c] \notin live)
                        \cup Cause("openBlock", OpenBlock)
    /\ UNCHANGED <<live, created, exec, saving, failed, txs, snapshots, crashes, dirty>>

RightPush(c, v) ==
    /\ EngineCommand(c)
    /\ data' = [data EXCEPT ![held[c]] = Append(@, v)]
    /\ Log(Command("RPUSH", held[c], v))
    /\ Acknowledge

LeftPop(c) ==
    /\ EngineCommand(c)
    /\ data[held[c]] # << >>
    /\ data' = [data EXCEPT ![held[c]] = Tail(@)]
    /\ Log(Command("LPOP", held[c], NoInstance))
    /\ Acknowledge

(* Popping from an empty list is an error and changes nothing. *)
LeftPopEmpty(c) ==
    /\ ~failed
    /\ held[c] # NoInstance
    /\ data[held[c]] = << >>
    /\ held' = [held EXCEPT ![c] = NoInstance]
    /\ UNCHANGED <<live, data, created, wal, logger, exec, saving, failed, bounds, ghosts>>

-----------------------------------------------------------------------------
(* A slip: commands that have looked up their engine are not waited for. *)
BeginTxAtOnce ==
    /\ ~failed /\ txPhase = "idle"
    /\ txs < MaxTxs /\ txs' = txs + 1
    /\ active' = TRUE /\ txBuffer' = << >> /\ txPhase' = "exec"
    /\ UNCHANGED <<memory, wal, toFlush, undos, saving, failed, commands, snapshots,
                   crashes, ghosts>>

(* TxBuilder.Exec: take the transaction lock for writing, then BeginTx. *)
BeginTx ==
    /\ ~failed
    /\ txPhase = "idle"
    /\ \A c \in Client : held[c] = NoInstance
    /\ txs < MaxTxs /\ txs' = txs + 1
    /\ active' = TRUE /\ txBuffer' = << >>
    /\ txPhase' = "exec"
    /\ UNCHANGED <<memory, wal, toFlush, undos, saving, failed, commands, snapshots,
                   crashes, ghosts>>

(* PrepareAndDo of a list command: remember the list for the undo, then    *)
(* run the command, which logs into the buffer.                            *)
TxCommand(i, list, e) ==
    /\ ~failed
    /\ txPhase = "exec"
    /\ i \in live
    /\ commands < MaxCommands /\ commands' = commands + 1
    /\ undos' = << [inst |-> i, list |-> data[i]] >> \o undos
    /\ data' = [data EXCEPT ![i] = list]
    /\ Log(e)
    /\ UNCHANGED <<live, created, held, txPhase, saving, failed, txs, snapshots, crashes,
                   owed, dirty, causes>>

TxRightPush(i, v) == TxCommand(i, Append(data[i], v), Command("RPUSH", i, v))

TxLeftPop(i) == /\ data[i] # << >>
                /\ TxCommand(i, Tail(data[i]), Command("LPOP", i, NoInstance))

(* A queued command fails: its instance is unknown or its list empty.  A   *)
(* client can queue such a command at any time.                            *)
TxFails ==
    /\ ~failed
    /\ txPhase = "exec"
    /\ txPhase' = "rollback"
    /\ UNCHANGED <<memory, wal, logger, undos, saving, failed, bounds, ghosts>>

(* One undo closure, the latest first: the key is deleted and pushed again *)
(* as it was.  What that logs goes to the buffer RollbackTx throws away.   *)
TxUndo ==
    /\ ~failed
    /\ txPhase = "rollback"
    /\ undos # << >>
    /\ data' = [data EXCEPT ![Head(undos).inst] = Head(undos).list]
    /\ undos' = Tail(undos)
    /\ UNCHANGED <<live, created, held, wal, logger, txPhase, saving, failed, bounds,
                   ghosts>>

(* A slip: the logger stays active, and collects what comes next. *)
RollbackTxStaysActive ==
    /\ ~failed /\ txPhase = "rollback" /\ undos = << >>
    /\ txBuffer' = << >> /\ txPhase' = "idle"
    /\ UNCHANGED <<memory, wal, active, toFlush, undos, saving, failed, bounds, ghosts>>

(* The rollback is complete: the buffer is thrown away, the locks released. *)
RollbackTx ==
    /\ ~failed
    /\ txPhase = "rollback"
    /\ undos = << >>
    /\ active' = FALSE /\ txBuffer' = << >>
    /\ txPhase' = "idle"
    /\ UNCHANGED <<memory, wal, toFlush, undos, saving, failed, bounds, ghosts>>

(* CommitTx: the block goes to the log line by line, under the logger's    *)
(* mutex but with the log's mutex taken for each line.                     *)
CommitTx ==
    /\ ~failed
    /\ txPhase = "exec"
    /\ txPhase' = "commit"
    /\ toFlush' = << Marker("TX_BEGIN", txs) >> \o txBuffer \o << Marker("TX_COMMIT", txs) >>
    /\ UNCHANGED <<memory, wal, active, txBuffer, undos, saving, failed, bounds, ghosts>>

FlushLine ==
    /\ ~failed
    /\ txPhase = "commit"
    /\ Len(toFlush) > 1
    /\ DL!Accept(Head(toFlush))
    /\ NoteLogged(Head(toFlush))
    /\ toFlush' = Tail(toFlush)
    /\ NothingNew
    /\ UNCHANGED <<memory, active, txBuffer, exec, saving, failed, bounds, dirty, causes>>

(* The last line is the TX_COMMIT; then the locks are released. *)
FlushCommit ==
    /\ ~failed
    /\ txPhase = "commit"
    /\ Len(toFlush) = 1
    /\ DL!Accept(Head(toFlush))
    /\ toFlush' = << >>
    /\ active' = FALSE /\ txBuffer' = << >>
    /\ txPhase' = "idle" /\ undos' = << >>
    /\ UNCHANGED <<memory, saving, failed, bounds, missed, dirty, causes>>
    /\ Acknowledge

-----------------------------------------------------------------------------
(* SaveSnapshot.  SerializeState reads the instances one after the other,  *)
(* each under its engine's mutex, and takes neither the transaction lock   *)
(* nor anything that would stop the clients in between.                    *)
SnapshotBegin ==
    /\ ~failed
    /\ snapPhase = "idle"
    /\ snapshots < MaxSnapshots /\ snapshots' = snapshots + 1
    /\ snapPhase' = "copy" /\ toCopy' = live /\ partial' = EmptyDb
    /\ missed' = FALSE /\ dirty' = FALSE
    /\ UNCHANGED <<memory, wal, logger, exec, snapshot, failed, commands, txs, crashes,
                   owed, causes>>

SnapshotCopy(i) ==
    /\ ~failed
    /\ snapPhase = "copy"
    /\ i \in toCopy
    /\ toCopy' = toCopy \ {i}
    /\ partial' = With(partial, i, data[i])
    /\ dirty' = (dirty \/ \E k \in DOMAIN undos : undos[k].inst = i)
    /\ UNCHANGED <<memory, wal, logger, exec, snapPhase, snapshot, failed, bounds,
                   owed, missed, causes>>

(* The temporary file is complete and synced: it replaces the snapshot. *)
SnapshotRename ==
    /\ ~failed
    /\ snapPhase = "copy" /\ toCopy = {}
    /\ snapshot' = partial
    /\ snapPhase' = "saved"
    /\ causes' = causes \cup Cause("dirtySnapshot", dirty)
    /\ UNCHANGED <<memory, wal, logger, exec, toCopy, partial, failed, bounds, missed, dirty>>
    /\ Settle

(* Creating, writing, syncing or renaming the temporary file fails: it is  *)
(* removed and the log is kept.                                            *)
SnapshotFails ==
    /\ ~failed
    /\ snapPhase = "copy"
    /\ snapPhase' = "idle" /\ toCopy' = {} /\ partial' = EmptyDb
    /\ UNCHANGED <<memory, wal, logger, exec, snapshot, failed, bounds, ghosts>>

(* The log is truncated, whatever has been logged since the instances were *)
(* copied.  When truncation fails, only what was still buffered is gone.   *)
SnapshotTruncate ==
    /\ ~failed
    /\ snapPhase = "saved"
    /\ snapPhase' = "idle" /\ partial' = EmptyDb
    /\ \/ /\ DL!Truncate
          /\ causes' = causes
                \cup Cause("lostWrites", missed)
                \cup Cause("cutBlock", txPhase = "commit" /\ Len(toFlush) < Len(txBuffer) + 2)
       \/ /\ UNCHANGED durable /\ DL!LoseTail
          /\ causes' = causes \cup Cause("staleLog", log # << >>)
    /\ Settle
    /\ UNCHANGED <<memory, logger, exec, toCopy, snapshot, failed, bounds, missed, dirty>>

-----------------------------------------------------------------------------
(* The process or the machine dies at any point; a new process restores    *)
(* the snapshot and what is left of the log, none of which it may assume   *)
(* to be on disk if it was not before.  If Restore returns an error        *)
(* or the replay panics, the process ends, and so does each later attempt. *)
Crash ==
    /\ ~failed
    /\ crashes < MaxCrashes /\ crashes' = crashes + 1
    /\ UNCHANGED durable /\ DL!LoseTail
    /\ LET r == Restore(snapshot, log')
       IN  /\ failed' = ~r.ok
           /\ live' = IF r.ok THEN DOMAIN r.db ELSE {}
           /\ data' = [i \in Instance |-> IF i \in live' THEN r.db[i] ELSE << >>]
    /\ held' = [c \in Client |-> NoInstance]
    /\ active' = FALSE /\ txBuffer' = << >> /\ toFlush' = << >>
    /\ txPhase' = "idle" /\ undos' = << >>
    /\ snapPhase' = "idle" /\ toCopy' = {} /\ partial' = EmptyDb
    /\ owed' = [n \in 0 .. Len(log') |-> owed[n]]
    /\ causes' = causes
          \cup Cause("staleLog", snapPhase = "saved" /\ log' # << >>)
          \cup Cause("lostWrites", snapPhase = "saved" /\ missed)
    /\ missed' = FALSE /\ dirty' = FALSE
    /\ UNCHANGED <<created, snapshot, commands, txs, snapshots>>

(* The flush ticker: SyncWal writes and fsyncs all that is buffered. *)
Flush == /\ ~failed
         /\ durable # Len(log)
         /\ durable' = Len(log) /\ DL!Persist
         /\ Settle
         /\ UNCHANGED <<memory, logger, exec, saving, failed, bounds,
                        missed, dirty, causes>>

Next == \/ \E i \in Instance : CreateInstance(i) \/ DeleteInstance(i)
        \/ \E c \in Client, i \in Instance : LookUp(c, i)
        \/ \E c \in Client, v \in Value : RightPush(c, v)
        \/ \E c \in Client : LeftPop(c) \/ LeftPopEmpty(c)
        \/ BeginTx
        \/ \E i \in Instance, v \in Value : TxRightPush(i, v)
        \/ \E i \in Instance : TxLeftPop(i)
        \/ TxFails \/ TxUndo \/ RollbackTx
        \/ CommitTx \/ FlushLine \/ FlushCommit
        \/ SnapshotBegin \/ SnapshotRename \/ SnapshotFails \/ SnapshotTruncate
        \/ \E i \in Instance : SnapshotCopy(i)
        \/ Flush
        \/ Crash

Spec == Init /\ [][Next]_vars

-----------------------------------------------------------------------------
Causes == {"foreignEntry", "openBlock", "zombie", "dirtySnapshot", "lostWrites",
           "cutBlock", "staleLog"}

(* The state is well formed, and the logger collects exactly while an EXEC *)
(* is under way.                                                           *)
TypeOK ==
    /\ live \subseteq created /\ created \subseteq Instance
    /\ data \in [Instance -> Seq(Value)]
    /\ held \in [Client -> Instance \cup {NoInstance}]
    /\ log \in Seq(Entry) /\ durable \in 0 .. Len(log)
    /\ active \in BOOLEAN /\ (active <=> txPhase # "idle")
    /\ txBuffer \in Seq(Entry) /\ toFlush \in Seq(Entry)
    /\ (toFlush # << >>) <=> (txPhase = "commit")
    /\ txPhase \in {"idle", "exec", "rollback", "commit"}
    /\ undos \in Seq([inst : Instance, list : Seq(Value)])
    /\ snapPhase \in {"idle", "copy", "saved"}
    /\ toCopy \subseteq Instance
    /\ failed \in BOOLEAN
    /\ commands \in 0 .. MaxCommands /\ txs \in 0 .. MaxTxs
    /\ snapshots \in 0 .. MaxSnapshots /\ crashes \in 0 .. MaxCrashes
    /\ missed \in BOOLEAN /\ dirty \in BOOLEAN /\ causes \subseteq Causes

(* What the clients are owed when no EXEC is under way: the server is up   *)
(* and its instances hold what the acknowledged work that survived has     *)
(* made of them.                                                           *)
Consistent == ~failed /\ (txPhase = "idle" => Db = Ideal)

(* Crashes, power failures, rollbacks, snapshots and half-written          *)
(* transactions are recovered from exactly, unless one of the named causes *)
(* has occurred: they are the only ways in which this code loses, repeats  *)
(* or half-applies work, or cannot start again.                            *)
RecoveryIsExact == causes = {} => Consistent

(* While an EXEC is under way, no command of another client changes an     *)
(* engine: the transaction lock keeps commands out from the lookup to the  *)
(* end, also those that had looked their engine up before.                 *)
ExecIsAlone ==
    [][txPhase # "idle" /\ crashes' = crashes =>
          held' = held /\ (data' # data => undos' # undos)]_vars

(* While a block is being flushed only its lines enter the log, in their   *)
(* order, whoever logs at the same time; truncation may still cut it.      *)
BlockIsContiguous ==
    [][txPhase = "commit" /\ crashes' = crashes /\ snapPhase' = snapPhase /\ log' # log =>
          log' = Append(log, Head(toFlush)) /\ toFlush' = Tail(toFlush)]_vars

(* persistence.go:135: "Skip incomplete TX entries".  What an incomplete   *)
(* transaction did is skipped, and nothing else.                           *)
OnlyIncompleteTxSkipped == causes \subseteq {"openBlock"} => Consistent
=============================================================================
