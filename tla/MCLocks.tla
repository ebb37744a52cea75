------------------------------ MODULE MCLocks ------------------------------
(* Locks with the goroutines of the process and two clients.  The cleanup   *)
(* is not a goroutine of its own here: the writer may be it.               *)
EXTENDS Locks, LockPaths

MCGoroutine == {"main", "flush", "snapshot", "reader", "writer"}
MCPaths == [main |-> {}, flush |-> FlushPaths, snapshot |-> SnapshotPaths,
            reader |-> ReaderPaths, writer |-> WriterPaths \cup CleanupPaths]

MCLock == {"pm", "tx", "mux", "engine", "log", "wal"}
MCRank     == [pm |-> 6, tx |-> 5, mux |-> 4, engine |-> 3, log |-> 2, wal |-> 1]
MCBootRank == [pm |-> 6, wal |-> 5, mux |-> 4, engine |-> 3, log |-> 2, tx |-> 1]
=============================================================================
