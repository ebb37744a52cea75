---------------------------- MODULE BufferedWal -----------------------------
(***************************************************************************)
(* pkg/wal: the write-ahead log file (Wal) behind the in-memory buffer of  *)
(* BufferedWal.  Every exported method of BufferedWal runs under bw.mutex, *)
(* so appending to the buffer and truncating are single actions.  A method *)
(* that exports the buffer makes one system call per line and an fsync,    *)
(* and the process can die between any two of them: those methods hold mu  *)
(* over several actions.                                                   *)
(*                                                                         *)
(* A line is written whole or not at all, and truncation is durable when   *)
(* it returns (assumptions about the file system, see README.md).          *)
(***************************************************************************)
EXTENDS Naturals, Sequences

CONSTANTS Line,         \* the lines a client may log
          MaxWrites,    \* bound: lines accepted in a behaviour
          MaxFaults,    \* bound: I/O errors in a behaviour
          MaxCrashes    \* bound: process or machine failures in a behaviour

ASSUME BoundsAssumption == /\ MaxWrites \in Nat
                           /\ MaxFaults \in Nat
                           /\ MaxCrashes \in Nat

VARIABLES buffer,       \* bw.buffer.content
          file,         \* lines of the log file, as a reader of the file sees them
          synced,       \* how many of them the last successful fsync covers
          open,         \* w.file is open
          mu,           \* who holds bw.mutex across system calls
          pos,          \* lines of the buffer the export under way has written
          recovered,    \* lines the last RecoverFromWal passed to applyFunc
          writes, faults, crashes   \* what the bounds count

fileVars  == <<file, synced, open>>
boundVars == <<writes, faults, crashes>>
vars == <<buffer, file, synced, open, mu, pos, recovered, boundVars>>

Exporting == {"SyncWal", "RecoverFromWal", "CloseWal"}

(* The lines not written yet, and with the file all that was accepted. *)
Pending  == SubSeq(buffer, pos + 1, Len(buffer))
Accepted == file \o Pending

Init == /\ buffer = << >>
        /\ file = << >> /\ synced = 0 /\ open = TRUE
        /\ mu = "free" /\ pos = 0
        /\ recovered = << >>
        /\ writes = 0 /\ faults = 0 /\ crashes = 0

-----------------------------------------------------------------------------
(* WriteToWal and WriteRaw: the line is only buffered, and the caller is   *)
(* told that it was written.                                               *)
WriteToWal(l) ==
    /\ mu = "free"
    /\ writes < MaxWrites
    /\ buffer' = Append(buffer, l)
    /\ writes' = writes + 1
    /\ UNCHANGED <<fileVars, mu, pos, recovered, faults, crashes>>

(* SyncWal (the flush ticker), RecoverFromWal (the start-up) and CloseWal  *)
(* all take the mutex and call ExportToWal first.                          *)
StartExport(method) ==
    /\ mu = "free"
    /\ mu' = method
    /\ UNCHANGED <<buffer, fileVars, pos, recovered, boundVars>>

(* A slip: the loop ends before the last line, which it waits for for ever. *)
WriteRawAllButLast ==
    /\ mu # "free" /\ pos + 1 < Len(buffer) /\ open
    /\ file' = Append(file, buffer[pos + 1]) /\ pos' = pos + 1
    /\ UNCHANGED <<buffer, synced, open, mu, recovered, boundVars>>

(* ExportToWal: one WriteRaw of a buffered line that succeeds. *)
WriteRaw ==
    /\ mu # "free"
    /\ pos < Len(buffer)
    /\ open
    /\ file' = Append(file, buffer[pos + 1])
    /\ pos' = pos + 1
    /\ UNCHANGED <<buffer, synced, open, mu, recovered, boundVars>>

(* Slips that FinishExport could have made, for the mutants of PROJECT.json: *)
(* dropping all of the buffer although the export stopped early, and keeping *)
(* the last line that was written.                                           *)
FinishExportDropsAll(ok) ==
    /\ buffer' = << >> /\ pos' = 0 /\ mu' = "free"
    /\ recovered' = IF mu = "RecoverFromWal" /\ ok /\ open THEN file ELSE recovered
    /\ UNCHANGED <<file, writes, crashes>>

FinishExportOffByOne(ok) ==
    /\ buffer' = SubSeq(buffer, IF pos = 0 THEN 1 ELSE pos, Len(buffer))
    /\ pos' = 0 /\ mu' = "free"
    /\ recovered' = IF mu = "RecoverFromWal" /\ ok /\ open THEN file ELSE recovered
    /\ UNCHANGED <<file, writes, crashes>>

(* What the method does when ExportToWal has returned: it drops what was   *)
(* written from the buffer and releases the mutex.  RecoverFromWal goes on *)
(* to read the file unless there was an error; CloseWal closes the file in *)
(* either case.                                                            *)
FinishExport(ok) ==
    /\ buffer' = SubSeq(buffer, pos + 1, Len(buffer))
    /\ pos' = 0
    /\ mu' = "free"
    /\ recovered' = IF mu = "RecoverFromWal" /\ ok /\ open THEN file ELSE recovered
    /\ UNCHANGED <<file, writes, crashes>>

(* An empty buffer: ExportToWal returns at once and there is no fsync. *)
ExportNothing ==
    /\ mu # "free"
    /\ buffer = << >>
    /\ FinishExport(TRUE)
    /\ open' = (open /\ mu # "CloseWal")
    /\ UNCHANGED <<synced, faults>>

(* A slip: the recovery goes on after a write error as if it had succeeded. *)
WriteRawFailsIgnored ==
    /\ mu # "free" /\ pos < Len(buffer)
    /\ open /\ faults < MaxFaults /\ faults' = faults + 1
    /\ FinishExport(TRUE)
    /\ UNCHANGED <<open, synced>>

(* A write error: Wal.WriteRaw closes the file before it returns the       *)
(* error, so each later write fails without a new fault.                   *)
WriteRawFails ==
    /\ mu # "free"
    /\ pos < Len(buffer)
    /\ \/ open /\ faults < MaxFaults /\ faults' = faults + 1
       \/ ~open /\ UNCHANGED faults
    /\ FinishExport(FALSE)
    /\ open' = FALSE
    /\ UNCHANGED synced

(* A slip: no fsync after the last line. *)
ExportDoesNotSync ==
    /\ mu # "free" /\ buffer # << >> /\ pos = Len(buffer)
    /\ FinishExport(TRUE)
    /\ open' = (open /\ mu # "CloseWal")
    /\ UNCHANGED <<synced, faults>>

(* All lines are written, and the fsync succeeds ... *)
ExportSyncs ==
    /\ mu # "free"
    /\ buffer # << >> /\ pos = Len(buffer)
    /\ FinishExport(TRUE)
    /\ synced' = Len(file)
    /\ open' = (open /\ mu # "CloseWal")
    /\ UNCHANGED faults

(* ... or fails: ExportToWal still reports every line as written.  What a  *)
(* failed fsync leaves unsynced is written by the next one that succeeds.  *)
ExportSyncFails ==
    /\ mu # "free"
    /\ buffer # << >> /\ pos = Len(buffer)
    /\ faults < MaxFaults /\ faults' = faults + 1
    /\ FinishExport(FALSE)
    /\ open' = (open /\ mu # "CloseWal")
    /\ UNCHANGED synced

(* A slip: truncating without taking the mutex. *)
TruncateWalUnlocked ==
    /\ buffer' = << >> /\ file' = << >> /\ synced' = 0
    /\ UNCHANGED <<open, mu, pos, recovered, boundVars>>

(* TruncateWal clears the buffer, then truncates the file by its path,     *)
(* which works on a closed file too, or fails and leaves the file alone.   *)
TruncateWal ==
    /\ mu = "free"
    /\ buffer' = << >>
    /\ \/ file' = << >> /\ synced' = 0 /\ UNCHANGED faults
       \/ /\ faults < MaxFaults /\ faults' = faults + 1
          /\ UNCHANGED <<file, synced>>
    /\ UNCHANGED <<open, mu, pos, recovered, writes, crashes>>

(* The process dies (the page cache keeps the file as it is) or the        *)
(* machine does (some unsynced lines are gone); the new process opens the  *)
(* file again.                                                             *)
Crash ==
    /\ crashes < MaxCrashes /\ crashes' = crashes + 1
    /\ \/ UNCHANGED <<file, synced>>
       \/ \E n \in synced .. Len(file) : file' = SubSeq(file, 1, n) /\ synced' = n
    /\ open' = TRUE
    /\ buffer' = << >> /\ pos' = 0 /\ mu' = "free" /\ recovered' = << >>
    /\ UNCHANGED <<writes, faults>>

ExportStep == \/ WriteRaw
              \/ ExportNothing
              \/ WriteRawFails
              \/ ExportSyncs
              \/ ExportSyncFails

Next == \/ \E l \in Line : WriteToWal(l)
        \/ \E method \in Exporting : StartExport(method)
        \/ ExportStep
        \/ TruncateWal
        \/ Crash

(* The flush ticker never stops, a started export runs to its end, and Go's *)
(* mutex hands itself to a waiter that has waited long enough.              *)
Fairness == /\ SF_vars(StartExport("SyncWal"))
            /\ WF_vars(ExportStep)

Spec == Init /\ [][Next]_vars
FairSpec == Spec /\ Fairness

-----------------------------------------------------------------------------
(* The state is well formed: the export never runs past the buffer, none   *)
(* is under way while the mutex is free, and fsync never covers more than  *)
(* the file holds.                                                         *)
TypeOK == /\ buffer \in Seq(Line)
          /\ file \in Seq(Line)
          /\ synced \in 0 .. Len(file)
          /\ open \in BOOLEAN
          /\ mu \in Exporting \cup {"free"}
          /\ pos \in 0 .. Len(buffer)
          /\ mu = "free" => pos = 0
          /\ recovered \in Seq(Line)
          /\ writes \in 0 .. MaxWrites
          /\ faults \in 0 .. MaxFaults
          /\ crashes \in 0 .. MaxCrashes

(* Buffering, partial exports and retries keep the promise of DurableLog:  *)
(* the file followed by the unwritten rest of the buffer is the list of    *)
(* accepted lines, each once and in order, whatever call failed where.     *)
DL == INSTANCE DurableLog WITH log <- Accepted, durable <- synced
ImplementsDurableLog == DL!LogSpec

(* No export adds, drops or repeats a line, however it ends: what is lost  *)
(* is lost in a crash or by truncation only.                               *)
ExportKeepsLines ==
    [][mu # "free" => Accepted' = Accepted \/ crashes' # crashes]_vars

(* A recovery that reports success has handed every accepted line to       *)
(* applyFunc, the ones that were still buffered included.                  *)
RecoveryIsComplete ==
    [][recovered' # recovered => recovered' = Accepted \/ crashes' # crashes]_vars

(* The flush ticker empties the buffer again and again, I/O errors and     *)
(* crashes notwithstanding, as long as the file has not been closed.       *)
BufferDrains == []<>(buffer = << >> \/ ~open)

(* When a line waits in the buffer and from then on nothing fails, all     *)
(* that was accepted is fsynced in the end, with what earlier failures of  *)
(* fsync and dead processes had left unsynced.  It takes that line: the    *)
(* others have left the buffer, and ExportToWal does not fsync when the    *)
(* buffer is empty.                                                        *)
AcceptedBecomesDurable ==
    \A f \in 0 .. MaxFaults, c \in 0 .. MaxCrashes :
        []( /\ buffer # << >>
            /\ [](faults = f /\ crashes = c /\ open)
            => <>(synced = Len(Accepted)) )

(* tests/buffered_wal_test.go:147, on a flush after a failed one: "It      *)
(* should succeed and write the remaining 3 lines."  Unless someone calls  *)
(* CloseWal, the buffer must therefore drain.                              *)
RetryWritesRemaining == [](mu # "CloseWal") => []<>(buffer = << >>)
=============================================================================
