----------------------------- MODULE LockPaths -----------------------------
(***************************************************************************)
(* What the operations lock, in order: "pm" of PersistenceManager, "tx"    *)
(* and "mux" of Multiplexer, "engine" of a storage engine (no operation    *)
(* has two at a time), "log" of TxWalLogger, "wal" of BufferedWal.  The    *)
(* mutex of a Transaction is known to one goroutine only; the hub's and    *)
(* the server's are never held together with these (module Server).        *)
(***************************************************************************)
EXTENDS Sequences

Locked(l, inside)  == <<[op |-> "Lock", on |-> l]>> \o inside \o <<[op |-> "Unlock", on |-> l]>>
RLocked(l, inside) == <<[op |-> "RLock", on |-> l]>> \o inside \o <<[op |-> "RUnlock", on |-> l]>>

-----------------------------------------------------------------------------
(* BufferedWal *)
WriteToWal == Locked("wal", << >>)
SyncWal    == Locked("wal", << >>)
TruncateWal == Locked("wal", << >>)
RecoverFromWal(apply) == Locked("wal", apply)

(* TxWalLogger, forwarding or, in a transaction, buffering.  CommitTx      *)
(* forwards TX_BEGIN, the entries and TX_COMMIT.                           *)
Log      == Locked("log", WriteToWal)
LogInTx  == Locked("log", << >>)
BeginTx  == Locked("log", << >>)
RollbackTx == Locked("log", << >>)
CommitTx == Locked("log", WriteToWal \o WriteToWal \o WriteToWal)

-----------------------------------------------------------------------------
(* The engines.  A read that meets an expired key lets go of the lock and  *)
(* takes it again to delete; the searches take it a third time, and the    *)
(* STORE commands compute with it shared and store with it exclusive.      *)
ReadPath  == RLocked("engine", << >>)
WritePath(log) == Locked("engine", log)
LazyDelete(log) == ReadPath \o WritePath(log)
Search(log)     == ReadPath \o WritePath(log) \o ReadPath
StorePath(log)  == ReadPath \o WritePath(log)

-----------------------------------------------------------------------------
(* Multiplexer *)
GetEngine == RLocked("mux", << >>)
TotalInstances == Locked("mux", << >>)
CreateInstance(log) == Locked("mux", log)
GetInfo == RLocked("mux", ReadPath \o ReadPath)
CleanupAllExpired(log) == GetEngine \o WritePath(log)
SerializeState   == RLocked("mux", ReadPath)
DeserializeState == Locked("mux", WritePath(<< >>))
ProcessDelegatedWalEntry == Locked("mux", << >>)

Execute(body) == TotalInstances \o RLocked("tx", GetEngine \o body)
ExecuteUnrouted(body) == TotalInstances \o body

(* EXEC of one operation, and of one that is undone because the next fails. *)
PrepareAndDo == GetEngine \o ReadPath \o GetEngine \o WritePath(LogInTx)
Exec       == Locked("tx", BeginTx \o PrepareAndDo \o CommitTx)
ExecFails  == Locked("tx", BeginTx \o PrepareAndDo \o GetEngine \o WritePath(LogInTx) \o RollbackTx)

-----------------------------------------------------------------------------
(* PersistenceManager *)
SaveSnapshot == Locked("pm", SerializeState \o TruncateWal)
Restore == Locked("pm", DeserializeState \o RecoverFromWal(<< >>)
                        \o RecoverFromWal(ProcessDelegatedWalEntry))

(* What each goroutine of the process does. *)
FlushPaths   == {SyncWal}
CleanupPaths == {CleanupAllExpired(log) : log \in {<< >>, Log, LogInTx}}
SnapshotPaths == {SaveSnapshot}
(* A connection runs any of these, one at a time.  They are in two groups  *)
(* for the small instance.                                                 *)
ReaderPaths == {Execute(ReadPath), Execute(LazyDelete(Log)), Execute(Search(Log)), Exec, ExecFails}
WriterPaths == {Execute(WritePath(Log)), Execute(StorePath(Log)), TotalInstances, GetInfo}
               \cup {ExecuteUnrouted(CreateInstance(log)) : log \in {<< >>, Log, LogInTx}}
=============================================================================
