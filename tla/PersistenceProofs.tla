------------------------- MODULE PersistenceProofs --------------------------
(***************************************************************************)
(* Proofs about Persistence, for any clients, instances, values and        *)
(* bounds: the transaction lock and the contiguity of a commit's block,    *)
(* the types, what Restore makes of a log that has grown by one line, and, *)
(* from an inductive invariant, that a recovery is exact unless one of the *)
(* named causes has occurred.                                              *)
(***************************************************************************)
EXTENDS Persistence, SequenceLemmas, SequenceTheorems, TLAPS

IsSeq(s) == s \in Seq(Range(s))

(* The lock, held for writing from BeginTx to the end of the commit or the *)
(* rollback, and the logger, which collects exactly as long.  Nobody has   *)
(* an engine in hand meanwhile.                                            *)
LockInvariant ==
    /\ active \in BOOLEAN
    /\ active <=> txPhase # "idle"
    /\ txPhase # "idle" => \A c \in Client : held[c] = NoInstance
    /\ held \in [Client -> Instance \cup {NoInstance}]
    /\ IsSeq(undos) /\ IsSeq(txBuffer) /\ IsSeq(toFlush)
    /\ txPhase = "commit" => toFlush # << >>
    /\ crashes \in Nat

-----------------------------------------------------------------------------
(* A sequence of anything is a sequence of its elements. *)
LEMMA SeqIsSeq ==
  ASSUME NEW S, NEW s \in Seq(S)
  PROVE  IsSeq(s)
BY SeqOfRange DEF IsSeq

(* So is the empty one. *)
LEMMA EmptyIsSeq == IsSeq(<< >>)
BY EmptySeq, SeqIsSeq

(* The ways in which the undo stack and the transaction buffer change. *)
LEMMA SeqSteps ==
  ASSUME NEW s, IsSeq(s), NEW x
  PROVE  /\ IsSeq(<< x >> \o s) /\ << x >> \o s # s
         /\ IsSeq(Append(s, x))
         /\ s # << >> => IsSeq(Tail(s)) /\ Tail(s) # s
<1> DEFINE S == Range(s) \cup {x}
<1>1. s \in Seq(S) /\ << x >> \in Seq(S) /\ Len(<< x >>) = 1
  <2>1. s \in Seq(Range(s))
    BY DEF IsSeq
  <2> QED
    BY <2>1, SeqMonotonic
<1>2. << x >> \o s \in Seq(S) /\ Len(<< x >> \o s) = Len(s) + 1
  BY <1>1, ConcatProperties, LenProperties
<1>3. Append(s, x) \in Seq(S)
  BY <1>1, AppendProperties
<1>4. s # << >> => Tail(s) \in Seq(S) /\ Len(Tail(s)) = Len(s) - 1
  BY <1>1, HeadTailProperties
<1>5. Len(s) \in Nat
  BY <1>1, LenProperties
<1> HIDE DEF S
<1>6. << x >> \o s # s /\ (s # << >> => Tail(s) # s)
  BY <1>2, <1>4, <1>5
<1> QED
  BY <1>2, <1>3, <1>4, <1>6, SeqIsSeq

(* The lines of a commit, between their markers. *)
LEMMA BlockIsSeq ==
  ASSUME NEW s, IsSeq(s), NEW a, NEW b
  PROVE  IsSeq(<< a >> \o s \o << b >>) /\ << a >> \o s \o << b >> # << >>
<1> DEFINE S == Range(s) \cup {a, b}
<1>1. s \in Seq(S) /\ << a >> \in Seq(S) /\ << b >> \in Seq(S)
  <2>1. s \in Seq(Range(s))
    BY DEF IsSeq
  <2> QED
    BY <2>1, SeqMonotonic
<1>2. << a >> \o s \in Seq(S) /\ Len(s) \in Nat /\ Len(<< a >> \o s) = Len(s) + 1
  BY <1>1, ConcatProperties, LenProperties
<1>3. /\ << a >> \o s \o << b >> \in Seq(S)
      /\ Len(<< a >> \o s \o << b >>) = Len(s) + 2
  BY <1>1, <1>2, ConcatProperties, LenProperties
<1>4. Len(<< >>) = 0
  BY EmptySeq
<1> DEFINE block == << a >> \o s \o << b >>
<1>5. block \in Seq(S) /\ Len(block) = Len(s) + 2
  BY <1>3
<1> HIDE DEF S, block
<1>6. IsSeq(block)
  BY <1>5, SeqIsSeq
<1>7. block # << >>
  BY <1>2, <1>4, <1>5
<1> QED
  BY <1>6, <1>7 DEF block

(* A line goes either to the buffer or to the log, and not at all while a  *)
(* commit is under way.                                                    *)
LEMMA LogKeepsBlock ==
  ASSUME LockInvariant, NEW e, Log(e)
  PROVE  /\ txPhase # "commit"
         /\ IsSeq(txBuffer') /\ UNCHANGED <<active, toFlush>>
BY SeqSteps DEF LockInvariant, Log, DL!Accept

-----------------------------------------------------------------------------
(* The commands of single clients. *)
LEMMA CommandsKeepLock ==
  ASSUME LockInvariant
  PROVE  /\ \A i \in Instance : CreateInstance(i) \/ DeleteInstance(i) => LockInvariant'
         /\ \A c \in Client, i \in Instance : LookUp(c, i) => LockInvariant'
         /\ \A c \in Client, v \in Value : RightPush(c, v) => LockInvariant'
         /\ \A c \in Client : LeftPop(c) \/ LeftPopEmpty(c) => LockInvariant'
<1>1. ASSUME NEW e, AdminCommand, Log(e)
      PROVE  LockInvariant'
  BY <1>1, LogKeepsBlock DEF LockInvariant, AdminCommand, exec
<1>2. ASSUME NEW c \in Client, EngineCommand(c), NEW e, Log(e)
      PROVE  LockInvariant'
  BY <1>2, LogKeepsBlock DEF LockInvariant, EngineCommand, exec
<1>3. ASSUME NEW i \in Instance, CreateInstance(i) \/ DeleteInstance(i)
      PROVE  LockInvariant'
  BY <1>1, <1>3 DEF CreateInstance, DeleteInstance
<1>4. ASSUME NEW c \in Client, NEW i \in Instance, LookUp(c, i)
      PROVE  LockInvariant'
  BY <1>4 DEF LockInvariant, LookUp, logger, exec, bounds
<1>5. ASSUME NEW c \in Client, NEW v \in Value, RightPush(c, v)
      PROVE  LockInvariant'
  BY <1>2, <1>5 DEF RightPush
<1>6. ASSUME NEW c \in Client, LeftPop(c)
      PROVE  LockInvariant'
  BY <1>2, <1>6 DEF LeftPop
<1>7. ASSUME NEW c \in Client, LeftPopEmpty(c)
      PROVE  LockInvariant'
  BY <1>7 DEF LockInvariant, LeftPopEmpty, logger, exec, bounds
<1> QED
  BY <1>3, <1>4, <1>5, <1>6, <1>7

(* The steps of an EXEC, which keeps the lock between them. *)
LEMMA ExecKeepsLock ==
  ASSUME LockInvariant
  PROVE  /\ BeginTx => LockInvariant'
         /\ \A i \in Instance, v \in Value : TxRightPush(i, v) => LockInvariant'
         /\ \A i \in Instance : TxLeftPop(i) => LockInvariant'
         /\ TxFails \/ TxUndo \/ RollbackTx => LockInvariant'
         /\ CommitTx \/ FlushLine \/ FlushCommit => LockInvariant'
<1> USE DEF LockInvariant
<1>1. BeginTx => LockInvariant'
  BY EmptyIsSeq DEF BeginTx, memory
<1>2. ASSUME NEW i, NEW list, NEW e, TxCommand(i, list, e)
      PROVE  LockInvariant'
  <2>1. IsSeq(undos')
    BY <1>2, SeqSteps DEF TxCommand
  <2> QED
    BY <1>2, <2>1, LogKeepsBlock DEF TxCommand
<1>3. TxFails => LockInvariant'
  BY DEF TxFails, memory, logger, bounds
<1>4. ASSUME TxUndo
      PROVE  LockInvariant'
  <2>1. IsSeq(undos')
    BY <1>4, SeqSteps DEF TxUndo
  <2> QED
    BY <1>4, <2>1 DEF TxUndo, logger, bounds
<1>5. RollbackTx => LockInvariant'
  BY EmptyIsSeq DEF RollbackTx, memory, bounds
<1>6. CommitTx => LockInvariant'
  BY BlockIsSeq DEF CommitTx, memory, bounds
<1>7. FlushLine => LockInvariant'
  <2>1. ASSUME FlushLine
        PROVE  IsSeq(toFlush') /\ toFlush' # << >>
    <3>1. toFlush \in Seq(Range(toFlush)) /\ Len(toFlush) > 1
      BY <2>1 DEF FlushLine, IsSeq
    <3>2. /\ Tail(toFlush) \in Seq(Range(toFlush))
          /\ Len(Tail(toFlush)) = Len(toFlush) - 1
      BY <3>1, HeadTailProperties, EmptySeq
    <3>3. Len(toFlush) \in Nat /\ Len(<< >>) = 0
      BY <3>1, LenProperties, EmptySeq
    <3> DEFINE rest == Tail(toFlush)
    <3>4. Len(rest) = Len(toFlush) - 1
      BY <3>2
    <3> HIDE DEF rest
    <3>5. rest # << >>
      BY <3>1, <3>3, <3>4
    <3> QED
      BY <2>1, <3>2, <3>5, SeqIsSeq DEF FlushLine, rest
  <2> QED
    BY <2>1 DEF FlushLine, memory, exec, bounds
<1>8. FlushCommit => LockInvariant'
  BY EmptyIsSeq DEF FlushCommit, memory, bounds
<1> QED
  BY <1>1, <1>2, <1>3, <1>4, <1>5, <1>6, <1>7, <1>8 DEF TxRightPush, TxLeftPop

(* The snapshot, the flush ticker and crashes. *)
LEMMA TickersKeepLock ==
  ASSUME LockInvariant
  PROVE  /\ SnapshotBegin \/ SnapshotRename \/ SnapshotFails \/ SnapshotTruncate
               => LockInvariant'
         /\ \A i \in Instance : SnapshotCopy(i) => LockInvariant'
         /\ Flush \/ Crash \/ UNCHANGED vars => LockInvariant'
<1> USE DEF LockInvariant, memory, logger, exec, bounds
<1>1. SnapshotBegin \/ SnapshotRename \/ SnapshotFails => LockInvariant'
  BY DEF SnapshotBegin, SnapshotRename, SnapshotFails
<1>2. SnapshotTruncate => LockInvariant'
  BY DEF SnapshotTruncate
<1>3. \A i \in Instance : SnapshotCopy(i) => LockInvariant'
  BY DEF SnapshotCopy
<1>4. Flush => LockInvariant'
  BY DEF Flush
<1>5. Crash => LockInvariant'
  <2>1. ASSUME Crash
        PROVE  /\ held' = [c \in Client |-> NoInstance]
               /\ active' = FALSE /\ txPhase' = "idle"
               /\ txBuffer' = << >> /\ toFlush' = << >> /\ undos' = << >>
               /\ crashes' = crashes + 1
    BY <2>1 DEF Crash
  <2> QED
    BY <2>1, EmptyIsSeq
<1>6. UNCHANGED vars => LockInvariant'
  BY DEF vars
<1> QED
  BY <1>1, <1>2, <1>3, <1>4, <1>5, <1>6

(* No EXEC is under way at the start. *)
LEMMA LockInit == Init => LockInvariant
<1> SUFFICES ASSUME Init
             PROVE  LockInvariant
  OBVIOUS
<1>1. /\ held = [c \in Client |-> NoInstance]
      /\ active = FALSE /\ txPhase = "idle"
      /\ txBuffer = << >> /\ toFlush = << >> /\ undos = << >>
      /\ crashes = 0
  BY DEF Init
<1> QED
  BY <1>1, EmptyIsSeq DEF LockInvariant

(* Every step of the system keeps the lock and the logger in step with the *)
(* EXEC.                                                                   *)
LEMMA LockStep == LockInvariant /\ [Next]_vars => LockInvariant'
BY CommandsKeepLock, ExecKeepsLock, TickersKeepLock DEF Next

(* The inductive invariant holds always: the lock is held, and the logger  *)
(* collects, exactly while an EXEC is under way.                           *)
THEOREM LockSafe == Spec => []LockInvariant
BY LockInit, LockStep, PTL DEF Spec

-----------------------------------------------------------------------------
(* What a line that is logged leaves alone. *)
LEMMA LogIsOutside ==
  ASSUME LockInvariant, NEW e, Log(e)
  PROVE  txPhase # "commit"
BY LogKeepsBlock

(* No command is under way during an EXEC. *)
LEMMA NobodyHolds ==
  ASSUME LockInvariant, txPhase # "idle"
  PROVE  /\ ~ \E c \in Client, i \in Instance : LookUp(c, i)
         /\ ~ \E c \in Client, v \in Value : RightPush(c, v)
         /\ ~ \E c \in Client : LeftPop(c) \/ LeftPopEmpty(c)
         /\ ~ BeginTx
BY DEF LockInvariant, LookUp, RightPush, LeftPop, LeftPopEmpty, EngineCommand, BeginTx

(* A step of the system during an EXEC. *)
LEMMA ExecStep ==
  ASSUME LockInvariant, [Next]_vars, txPhase # "idle", crashes' = crashes
  PROVE  held' = held /\ (data' # data => undos' # undos)
<1>1. CASE \E i \in Instance : CreateInstance(i) \/ DeleteInstance(i)
  BY <1>1 DEF CreateInstance, DeleteInstance, AdminCommand
<1>2. ASSUME NEW i, NEW list, NEW e, TxCommand(i, list, e)
      PROVE  held' = held /\ undos' # undos
  BY <1>2, SeqSteps DEF TxCommand, LockInvariant
<1>3. CASE \/ \E i \in Instance, v \in Value : TxRightPush(i, v)
           \/ \E i \in Instance : TxLeftPop(i)
  BY <1>2, <1>3 DEF TxRightPush, TxLeftPop
<1>4. CASE TxUndo
  BY <1>4, SeqSteps DEF TxUndo, LockInvariant
<1>5. CASE TxFails \/ RollbackTx \/ CommitTx \/ FlushLine \/ FlushCommit
  BY <1>5 DEF TxFails, RollbackTx, CommitTx, FlushLine, FlushCommit, memory
<1>6. CASE \/ SnapshotBegin \/ SnapshotRename \/ SnapshotFails \/ SnapshotTruncate
           \/ \E i \in Instance : SnapshotCopy(i)
           \/ Flush
  BY <1>6 DEF SnapshotBegin, SnapshotRename, SnapshotFails, SnapshotTruncate,
              SnapshotCopy, Flush, memory
<1>7. CASE Crash
  BY <1>7 DEF Crash, LockInvariant
<1>8. CASE UNCHANGED vars
  BY <1>8 DEF vars, memory
<1> QED
  BY <1>1, <1>3, <1>4, <1>5, <1>6, <1>7, <1>8, NobodyHolds DEF Next

(* While an EXEC is under way no other client's command touches an engine. *)
THEOREM ExecAlone == Spec => ExecIsAlone
<1>1. LockInvariant /\ [Next]_vars
        => [txPhase # "idle" /\ crashes' = crashes =>
               held' = held /\ (data' # data => undos' # undos)]_vars
  BY ExecStep
<1> QED
  BY <1>1, LockSafe, PTL DEF Spec, ExecIsAlone

(* A step of the system while a block is being flushed. *)
LEMMA FlushStep ==
  ASSUME LockInvariant, [Next]_vars,
         txPhase = "commit", crashes' = crashes, snapPhase' = snapPhase, log' # log
  PROVE  log' = Append(log, Head(toFlush)) /\ toFlush' = Tail(toFlush)
<1>1. CASE \E i \in Instance : CreateInstance(i) \/ DeleteInstance(i)
  BY <1>1, LogIsOutside DEF CreateInstance, DeleteInstance
<1>2. CASE \/ \E i \in Instance, v \in Value : TxRightPush(i, v)
           \/ \E i \in Instance : TxLeftPop(i)
           \/ TxFails \/ TxUndo \/ RollbackTx \/ CommitTx
  BY <1>2 DEF TxRightPush, TxLeftPop, TxCommand, TxFails, TxUndo, RollbackTx, CommitTx
<1>3. CASE FlushLine
  BY <1>3 DEF FlushLine, DL!Accept
<1>4. CASE FlushCommit
  <2>1. log' = Append(log, Head(toFlush)) /\ toFlush' = << >> /\ Len(toFlush) = 1
    BY <1>4 DEF FlushCommit, DL!Accept
  <2>2. toFlush \in Seq(Range(toFlush)) /\ toFlush # << >>
    BY DEF LockInvariant, IsSeq
  <2>3. Tail(toFlush) \in Seq(Range(toFlush)) /\ Len(Tail(toFlush)) = 0
    BY <2>1, <2>2, HeadTailProperties
  <2>4. Tail(toFlush) = << >>
    BY <2>3, EmptySeq
  <2> QED
    BY <2>1, <2>4
<1>5. CASE \/ SnapshotBegin \/ SnapshotRename \/ SnapshotFails \/ SnapshotTruncate
           \/ \E i \in Instance : SnapshotCopy(i)
           \/ Flush
  BY <1>5 DEF SnapshotBegin, SnapshotRename, SnapshotFails, SnapshotTruncate,
              SnapshotCopy, Flush, DL!Persist, wal
<1>6. CASE Crash
  BY <1>6 DEF Crash, LockInvariant
<1>7. CASE UNCHANGED vars
  BY <1>7 DEF vars, wal
<1> QED
  BY <1>1, <1>2, <1>3, <1>4, <1>5, <1>6, <1>7, NobodyHolds DEF Next

(* The lines of a transaction enter the log as one block, in their order,  *)
(* whoever else logs.                                                      *)
THEOREM BlocksAreContiguous == Spec => BlockIsContiguous
<1>1. LockInvariant /\ [Next]_vars
        => [txPhase = "commit" /\ crashes' = crashes /\ snapPhase' = snapPhase
               /\ log' # log =>
               log' = Append(log, Head(toFlush)) /\ toFlush' = Tail(toFlush)]_vars
  BY FlushStep
<1> QED
  BY <1>1, LockSafe, PTL DEF Spec, BlockIsContiguous

-----------------------------------------------------------------------------
(* The lines and the states that mention instances of a set only. *)
LinesOf(C)  == {e \in Entry : IsMarker(e) \/ e.inst \in C}
DbsOf(C)    == UNION {[S -> Seq(Value)] : S \in SUBSET C}
StatesOf(C) == [ok : BOOLEAN, db : DbsOf(C), currentTx : 0 .. MaxTxs]

(* What is a state, and which functions are. *)
LEMMA DbsOfIs ==
  ASSUME NEW C
  PROVE  /\ \A db \in DbsOf(C) : DOMAIN db \subseteq C /\ db \in [DOMAIN db -> Seq(Value)]
         /\ \A S \in SUBSET C : [S -> Seq(Value)] \subseteq DbsOf(C)
BY DEF DbsOf

(* The state without an instance, with which a first start begins. *)
LEMMA EmptyDbType ==
  ASSUME NEW C
  PROVE  EmptyDb \in DbsOf(C) /\ DOMAIN EmptyDb = {}
<1>1. EmptyDb \in [{} -> Seq(Value)]
  BY DEF EmptyDb
<1> QED
  BY <1>1, DbsOfIs

(* d is db but for the list of i, or without i. *)
Sets(d, db, i, list) == /\ DOMAIN d = DOMAIN db \cup {i} /\ d[i] = list
                        /\ \A j \in DOMAIN db : j # i => d[j] = db[j]
Drops(d, db, i) == DOMAIN d = DOMAIN db \ {i} /\ \A j \in DOMAIN db \ {i} : d[j] = db[j]

(* An instance is created, or its list is set. *)
LEMMA WithType ==
  ASSUME NEW C, NEW db \in DbsOf(C), NEW i \in C, NEW list \in Seq(Value)
  PROVE  With(db, i, list) \in DbsOf(C) /\ Sets(With(db, i, list), db, i, list)
<1>1. DOMAIN db \subseteq C /\ db \in [DOMAIN db -> Seq(Value)]
  BY DbsOfIs
<1>2. With(db, i, list) \in [DOMAIN db \cup {i} -> Seq(Value)]
  BY <1>1 DEF With
<1>3. With(db, i, list) \in DbsOf(C)
  BY <1>1, <1>2, DbsOfIs
<1> QED
  BY <1>1, <1>3 DEF With, Sets

(* An instance is deleted. *)
LEMMA WithoutType ==
  ASSUME NEW C, NEW db \in DbsOf(C), NEW i
  PROVE  Without(db, i) \in DbsOf(C) /\ Drops(Without(db, i), db, i)
<1>1. DOMAIN db \subseteq C /\ db \in [DOMAIN db -> Seq(Value)]
  BY DbsOfIs
<1>2. Without(db, i) \in [DOMAIN db \ {i} -> Seq(Value)]
  BY <1>1 DEF Without
<1>3. Without(db, i) \in DbsOf(C)
  BY <1>1, <1>2, DbsOfIs
<1> QED
  BY <1>3 DEF Without, Drops

(* More instances, more lines and states. *)
LEMMA MoreInstances ==
  ASSUME NEW C, NEW D, C \subseteq D
  PROVE  LinesOf(C) \subseteq LinesOf(D) /\ DbsOf(C) \subseteq DbsOf(D)
<1>1. LinesOf(C) \subseteq LinesOf(D)
  BY DEF LinesOf
<1>2. ASSUME NEW db \in DbsOf(C)
      PROVE  db \in DbsOf(D)
  <2>1. DOMAIN db \subseteq D /\ db \in [DOMAIN db -> Seq(Value)]
    BY DbsOfIs
  <2> QED
    BY <2>1, DbsOfIs
<1> QED
  BY <1>1, <1>2

-----------------------------------------------------------------------------
(* What the replay of a line makes of a state. *)
LEMMA ReplayType ==
  ASSUME NEW C, NEW r \in StatesOf(C), NEW e \in LinesOf(C), ~IsMarker(e)
  PROVE  Replay(r, e) \in StatesOf(C) /\ Replay(r, e).currentTx = r.currentTx
<1> DEFINE list == IF e.inst \in DOMAIN r.db THEN r.db[e.inst] ELSE << >>
           Changed(d) == [r EXCEPT !.db = d]
<1>1. e.inst \in C /\ r.db \in DbsOf(C)
  BY DEF LinesOf, StatesOf
<1>2. list \in Seq(Value)
  <2>1. r.db \in [DOMAIN r.db -> Seq(Value)]
    BY <1>1, DbsOfIs
  <2> QED
    BY <2>1
<1>3. ASSUME NEW d \in DbsOf(C)
      PROVE  Changed(d) \in StatesOf(C) /\ Changed(d).currentTx = r.currentTx
  BY DEF StatesOf
<1>4. [r EXCEPT !.ok = FALSE] \in StatesOf(C) /\ [r EXCEPT !.ok = FALSE].currentTx = r.currentTx
  BY DEF StatesOf
<1>5. e.op = "RPUSH" => e.val \in Value
  BY DEF LinesOf, Entry, IsMarker
<1> HIDE DEF list, Changed
<1>6. CASE e.op = "CREATE_INSTANCE"
  <2>1. Replay(r, e) = Changed(With(r.db, e.inst, << >>))
    BY <1>6 DEF Replay, Changed
  <2>2. << >> \in Seq(Value)
    OBVIOUS
  <2>3. With(r.db, e.inst, << >>) \in DbsOf(C)
    BY <1>1, <2>2, WithType
  <2> QED
    BY <1>3, <2>1, <2>3
<1>7. CASE e.op = "RPUSH"
  <2>1. Replay(r, e) = Changed(With(r.db, e.inst, Append(list, e.val)))
    BY <1>7 DEF Replay, Changed, list
  <2>2. Append(list, e.val) \in Seq(Value)
    BY <1>2, <1>5, <1>7
  <2>3. With(r.db, e.inst, Append(list, e.val)) \in DbsOf(C)
    BY <1>1, <2>2, WithType
  <2> QED
    BY <1>3, <2>1, <2>3
<1>8. CASE e.op = "LPOP" /\ list # << >>
  <2>1. Replay(r, e) = Changed(With(r.db, e.inst, Tail(list)))
    BY <1>8 DEF Replay, Changed, list
  <2>2. Tail(list) \in Seq(Value)
    BY <1>2, <1>8
  <2>3. With(r.db, e.inst, Tail(list)) \in DbsOf(C)
    BY <1>1, <2>2, WithType
  <2> QED
    BY <1>3, <2>1, <2>3
<1>9. CASE e.op = "DELETE_INSTANCE" /\ e.inst \in DOMAIN r.db
  <2>1. Replay(r, e) = Changed(Without(r.db, e.inst))
    BY <1>9 DEF Replay, Changed
  <2>2. Without(r.db, e.inst) \in DbsOf(C)
    BY <1>1, WithoutType
  <2> QED
    BY <1>3, <2>1, <2>2
<1>10. CASE /\ e.op \notin {"CREATE_INSTANCE", "RPUSH"}
            /\ ~(e.op = "LPOP" /\ list # << >>)
            /\ ~(e.op = "DELETE_INSTANCE" /\ e.inst \in DOMAIN r.db)
  <2>1. Replay(r, e) = [r EXCEPT !.ok = FALSE]
    BY <1>10 DEF Replay, list
  <2> QED
    BY <1>4, <2>1
<1> QED
  BY <1>6, <1>7, <1>8, <1>9, <1>10

(* Pass 2 of Restore makes a state of a state, whichever line it reads. *)
LEMMA RestoreLineType ==
  ASSUME NEW C, NEW incomplete, NEW r \in StatesOf(C), NEW e \in LinesOf(C)
  PROVE  RestoreLine(incomplete, r, e) \in StatesOf(C)
<1>1. CASE e.op = "TX_BEGIN"
  <2>1. e.tx \in 0 .. MaxTxs
    BY <1>1 DEF LinesOf, Entry
  <2> QED
    BY <1>1, <2>1 DEF RestoreLine, StatesOf
<1>2. CASE e.op = "TX_COMMIT"
  <2>1. 0 \in 0 .. MaxTxs
    BY ConstantsAssumption
  <2> QED
    BY <1>2, <2>1 DEF RestoreLine, StatesOf
<1>3. CASE e.op \notin {"TX_BEGIN", "TX_COMMIT"}
  <2>1. Replay(r, e) \in StatesOf(C)
    BY <1>3, ReplayType DEF IsMarker
  <2> QED
    BY <1>3, <2>1 DEF RestoreLine
<1> QED
  BY <1>1, <1>2, <1>3

-----------------------------------------------------------------------------
(* Pass 2 of Restore goes from one line to the next. *)
Start(snap) == [ok |-> TRUE, db |-> snap, currentTx |-> 0]
Restores(after, incomplete, snap, l, X) ==
    /\ after \in [0 .. Len(l) -> X] /\ after[0] = Start(snap)
    /\ \A n \in 1 .. Len(l) : after[n] = RestoreLine(incomplete, after[n - 1], l[n])
    /\ RestoreLines(incomplete, snap, l) = after[Len(l)]

(* The states that pass 2 of Restore goes through: the recursive function  *)
(* that RestoreLines chooses exists.                                       *)
LEMMA RestoreSteps ==
  ASSUME NEW C, NEW incomplete, NEW snap \in DbsOf(C), NEW l \in Seq(LinesOf(C))
  PROVE  \E after : Restores(after, incomplete, snap, l, StatesOf(C))
<1> DEFINE X == StatesOf(C)
           L == LinesOf(C)
           Do(r, e) == RestoreLine(incomplete, r, e)
           F == [p \in X \X L |-> Do(p[1], p[2])]
           s0 == Start(snap)
           R(a) == a = [n \in 0 .. Len(l) |-> IF n = 0 THEN s0 ELSE Do(a[n - 1], l[n])]
           after == CHOOSE a : R(a)
<1>1. Len(l) \in Nat /\ \A n \in 1 .. Len(l) : l[n] \in L
  OBVIOUS
<1>2. F \in [X \X L -> X]
  <2>1. ASSUME NEW r \in X, NEW e \in L
        PROVE  Do(r, e) \in X
    BY RestoreLineType
  <2> HIDE DEF X, L, Do
  <2> QED
    BY <2>1
<1>3. s0 \in X
  BY ConstantsAssumption DEF Start, StatesOf
<1> HIDE DEF X, L, s0
<1>4. PICK a \in [0 .. Len(l) -> X] :
         a[0] = s0 /\ \A n \in 1 .. Len(l) : a[n] = F[<<a[n - 1], l[n]>>]
  <2> HIDE DEF F
  <2>1. l \in Seq(L)
    BY DEF L
  <2>2. \E a : IsRun(a, X, F, s0, l)
    BY <1>2, <1>3, <2>1, StepsExist
  <2> QED
    BY <2>2 DEF IsRun
<1>5. R(a)
  <2> HIDE DEF Do
  <2>1. ASSUME NEW n \in 1 .. Len(l)
        PROVE  F[<<a[n - 1], l[n]>>] = Do(a[n - 1], l[n])
    <3>1. n - 1 \in 0 .. Len(l)
      BY <1>1
    <3>2. a[n - 1] \in X /\ l[n] \in L
      BY <1>1, <3>1
    <3> QED
      BY <3>2
  <2> HIDE DEF F
  <2>2. ASSUME NEW n \in 0 .. Len(l)
        PROVE  a[n] = IF n = 0 THEN s0 ELSE Do(a[n - 1], l[n])
    <3>1. CASE n = 0
      BY <1>4, <3>1
    <3>2. CASE n # 0
      <4>1. n \in 1 .. Len(l)
        BY <1>1, <3>2
      <4> QED
        BY <1>4, <2>1, <3>2, <4>1
    <3> QED
      BY <3>1, <3>2
  <2> QED
    BY <2>2
<1>6. R(after)
  <2> HIDE DEF R
  <2> QED
    BY <1>5
<1>7. /\ after[0] = s0
      /\ \A n \in 1 .. Len(l) : n # 0 /\ n \in 0 .. Len(l)
      /\ \A n \in 1 .. Len(l) : after[n] = Do(after[n - 1], l[n])
  <2> HIDE DEF after, Do
  <2>1. \A n \in 1 .. Len(l) : n # 0 /\ n \in 0 .. Len(l)
    BY <1>1
  <2>2. \A n \in 0 .. Len(l) : after[n] = IF n = 0 THEN s0 ELSE Do(after[n - 1], l[n])
    BY <1>6
  <2>3. 0 \in 0 .. Len(l)
    BY <1>1
  <2> QED
    BY <2>1, <2>2, <2>3
<1>8. RestoreLines(incomplete, snap, l) = after[Len(l)]
  BY DEF RestoreLines, Start, s0
<1>9. a = after
  <2> DEFINE Q == {n \in 0 .. Len(l) : a[n] = after[n]}
  <2>1. 0 \in Q
    <3> HIDE DEF after
    <3> QED
      BY <1>1, <1>4, <1>7
  <2>2. ASSUME NEW n \in 0 .. Len(l) - 1, n \in Q
        PROVE  n + 1 \in Q
    <3> HIDE DEF after, Do, F
    <3>1. n + 1 \in 1 .. Len(l) /\ n + 1 \in 0 .. Len(l) /\ (n + 1) - 1 = n /\ n + 1 # 0
      BY <1>1
    <3>2. a[n + 1] = Do(a[n], l[n + 1])
      BY <1>5, <3>1
    <3> QED
      BY <1>7, <2>2, <3>1, <3>2
  <2>3. 0 .. Len(l) \subseteq Q
    <3> HIDE DEF Q
    <3> QED
      BY <1>1, <2>1, <2>2, CountingUp
  <2> HIDE DEF after, Do
  <2>4. after = [n \in 0 .. Len(l) |-> after[n]]
    BY <1>6
  <2> QED
    BY <1>4, <2>3, <2>4
<1>10. after \in [0 .. Len(l) -> X] /\ after[0] = s0
  BY <1>4, <1>9
<1> HIDE DEF after
<1> QED
  BY <1>7, <1>8, <1>10 DEF Restores, X, s0

(* An empty log restores the snapshot. *)
LEMMA RestoreNothing ==
  ASSUME NEW C, NEW incomplete, NEW snap \in DbsOf(C)
  PROVE  RestoreLines(incomplete, snap, << >>) = Start(snap)
<1>1. << >> \in Seq(LinesOf(C)) /\ Len(<< >>) = 0
  OBVIOUS
<1>2. PICK a : Restores(a, incomplete, snap, << >>, StatesOf(C))
  BY <1>1, RestoreSteps
<1> QED
  BY <1>1, <1>2 DEF Restores

(* One line more. *)
GoesOn(incomplete, snap, l, e) ==
    RestoreLines(incomplete, snap, Append(l, e))
        = RestoreLine(incomplete, RestoreLines(incomplete, snap, l), e)

(* Pass 2 reads one line more. *)
LEMMA RestoreAppend ==
  ASSUME NEW C, NEW incomplete, NEW snap \in DbsOf(C), NEW l \in Seq(LinesOf(C)),
         NEW e \in LinesOf(C)
  PROVE  GoesOn(incomplete, snap, l, e)
<1> DEFINE s == Append(l, e)
           Do(r, x) == RestoreLine(incomplete, r, x)
<1>1. /\ s \in Seq(LinesOf(C)) /\ Len(l) \in Nat /\ Len(s) = Len(l) + 1 /\ s[Len(l) + 1] = e
      /\ \A n \in 1 .. Len(l) : s[n] = l[n]
  OBVIOUS
<1> HIDE DEF s
<1>2. PICK a : Restores(a, incomplete, snap, l, StatesOf(C))
  BY RestoreSteps
<1>3. PICK b : Restores(b, incomplete, snap, s, StatesOf(C))
  BY <1>1, RestoreSteps
<1>4. /\ a[0] = Start(snap) /\ \A n \in 1 .. Len(l) : a[n] = Do(a[n - 1], l[n])
      /\ RestoreLines(incomplete, snap, l) = a[Len(l)] /\ a \in [0 .. Len(l) -> StatesOf(C)]
  BY <1>2 DEF Restores
<1>5. /\ b[0] = Start(snap) /\ \A n \in 1 .. Len(l) + 1 : b[n] = Do(b[n - 1], s[n])
      /\ RestoreLines(incomplete, snap, s) = b[Len(l) + 1]
  BY <1>1, <1>3 DEF Restores
<1> HIDE DEF Do
<1> DEFINE Q == {n \in 0 .. Len(l) : a[n] = b[n]}
<1>6. 0 \in Q
  BY <1>1, <1>4, <1>5
<1>7. ASSUME NEW n \in 0 .. Len(l) - 1, n \in Q
      PROVE  n + 1 \in Q
  <2>1. n + 1 \in 1 .. Len(l) /\ n + 1 \in 1 .. Len(l) + 1 /\ n + 1 \in 0 .. Len(l) /\ (n + 1) - 1 = n
    BY <1>1
  <2>2. a[n + 1] = Do(a[n], l[n + 1]) /\ b[n + 1] = Do(b[n], s[n + 1]) /\ s[n + 1] = l[n + 1]
    BY <1>1, <1>4, <1>5, <2>1
  <2> QED
    BY <1>7, <2>1, <2>2
<1>8. 0 .. Len(l) \subseteq Q
  <2> HIDE DEF Q
  <2> QED
    BY <1>1, <1>6, <1>7, CountingUp
<1>9. Len(l) \in 0 .. Len(l) /\ Len(l) + 1 \in 1 .. Len(l) + 1 /\ (Len(l) + 1) - 1 = Len(l)
  BY <1>1
<1>10. a[Len(l)] = b[Len(l)] /\ b[Len(l) + 1] = Do(b[Len(l)], e)
  BY <1>1, <1>5, <1>8, <1>9
<1>11. RestoreLines(incomplete, snap, s) = Do(RestoreLines(incomplete, snap, l), e)
  BY <1>4, <1>5, <1>10
<1> QED
  BY <1>11 DEF s, Do, GoesOn

(* What Restore yields is a state. *)
LEMMA RestoreLinesType ==
  ASSUME NEW C, NEW incomplete, NEW snap \in DbsOf(C), NEW l \in Seq(LinesOf(C))
  PROVE  RestoreLines(incomplete, snap, l) \in StatesOf(C)
<1>1. PICK a : Restores(a, incomplete, snap, l, StatesOf(C))
  BY RestoreSteps
<1>2. Len(l) \in 0 .. Len(l)
  OBVIOUS
<1> QED
  BY <1>1, <1>2 DEF Restores

(* Whether a transaction counts as complete makes no difference to lines   *)
(* before its TX_BEGIN.                                                    *)
BeginsNot(l, t) == \A k \in DOMAIN l : l[k].op = "TX_BEGIN" => l[k].tx # t

(* Whether a transaction counts as incomplete makes no difference to pass  *)
(* 2 before its TX_BEGIN.                                                  *)
LEMMA NotBegunYet ==
  ASSUME NEW C, NEW inc1, NEW inc2, NEW t, t # 0, inc1 \ {t} = inc2 \ {t},
         NEW snap \in DbsOf(C), NEW l \in Seq(LinesOf(C)), BeginsNot(l, t)
  PROVE  RestoreLines(inc1, snap, l) = RestoreLines(inc2, snap, l)
<1> DEFINE Begun(s) == \E k \in DOMAIN s : s[k].op = "TX_BEGIN" /\ s[k].tx = t
           Same(s) == /\ RestoreLines(inc1, snap, s) = RestoreLines(inc2, snap, s)
                      /\ RestoreLines(inc1, snap, s).currentTx # t
           Y == {s \in Seq(LinesOf(C)) : Begun(s) \/ Same(s)}
<1>1. << >> \in Y
  <2>1. Same(<< >>)
    <3>1. RestoreLines(inc1, snap, << >>) = Start(snap) /\ RestoreLines(inc2, snap, << >>) = Start(snap)
      BY RestoreNothing
    <3>2. Start(snap).currentTx = 0
      BY DEF Start
    <3> QED
      BY <3>1, <3>2
  <2> HIDE DEF Same, Begun
  <2> QED
    BY <2>1
<1>2. ASSUME NEW s \in Seq(LinesOf(C)), NEW e \in LinesOf(C), s \in Y
      PROVE  Append(s, e) \in Y
  <2> DEFINE r == RestoreLines(inc1, snap, s)
  <2>1. Append(s, e) \in Seq(LinesOf(C))
    OBVIOUS
  <2>2. CASE Begun(s)
    <3>1. Begun(Append(s, e))
      BY <2>2
    <3> HIDE DEF Begun, Same
    <3> QED
      BY <2>1, <3>1
  <2>3. CASE e.op = "TX_BEGIN" /\ e.tx = t
    <3>1. Len(s) + 1 \in DOMAIN Append(s, e) /\ Append(s, e)[Len(s) + 1] = e
      OBVIOUS
    <3>2. Begun(Append(s, e))
      BY <2>3, <3>1
    <3> HIDE DEF Begun, Same
    <3> QED
      BY <2>1, <3>2
  <2>4. CASE Same(s) /\ ~(e.op = "TX_BEGIN" /\ e.tx = t)
    <3>1. /\ r \in StatesOf(C)
          /\ RestoreLines(inc1, snap, Append(s, e)) = RestoreLine(inc1, r, e)
          /\ RestoreLines(inc2, snap, Append(s, e)) = RestoreLine(inc2, r, e)
      <4>1. GoesOn(inc1, snap, s, e) /\ GoesOn(inc2, snap, s, e) /\ r \in StatesOf(C)
        BY RestoreAppend, RestoreLinesType
      <4> QED
        BY <2>4, <4>1 DEF GoesOn
    <3>2. r.currentTx # t
      BY <2>4
    <3> HIDE DEF r
    <3>3. r.currentTx \in inc1 <=> r.currentTx \in inc2
      BY <3>2
    <3>4. RestoreLine(inc1, r, e) = RestoreLine(inc2, r, e)
      BY <3>3 DEF RestoreLine
    <3>5. RestoreLine(inc1, r, e).currentTx # t
      <4>1. CASE ~r.ok \/ (r.currentTx \in inc1 /\ ~IsMarker(e))
        BY <3>2, <4>1 DEF RestoreLine, IsMarker
      <4>2. CASE r.ok /\ e.op = "TX_BEGIN"
        BY <2>4, <3>1, <4>2 DEF RestoreLine, StatesOf
      <4>3. CASE r.ok /\ e.op = "TX_COMMIT"
        BY <3>1, <4>3 DEF RestoreLine, StatesOf
      <4>4. CASE r.ok /\ r.currentTx \notin inc1 /\ ~IsMarker(e)
        <5>1. RestoreLine(inc1, r, e) = Replay(r, e)
          BY <4>4 DEF RestoreLine, IsMarker
        <5> QED
          BY <3>1, <3>2, <4>4, <5>1, ReplayType
      <4> QED
        BY <4>1, <4>2, <4>3, <4>4 DEF IsMarker
    <3>6. Same(Append(s, e))
      BY <3>1, <3>4, <3>5
    <3> HIDE DEF Same, Begun
    <3> QED
      BY <2>1, <3>6
  <2> HIDE DEF Same, Begun
  <2> QED
    BY <1>2, <2>2, <2>3, <2>4
<1>3. Seq(LinesOf(C)) \subseteq Y
  <2> HIDE DEF Y
  <2> QED
    BY <1>1, <1>2, BuiltByAppend
<1>4. ~Begun(l)
  BY DEF BeginsNot
<1> HIDE DEF Begun
<1> QED
  BY <1>3, <1>4

(* A TX_BEGIN that no marker follows. *)
OpenAt(l, k) == l[k].op = "TX_BEGIN" /\ \A m \in k + 1 .. Len(l) : ~IsMarker(l[m])

(* Pass 2 is inside a transaction only behind such a TX_BEGIN. *)
LEMMA InsideIsOpen ==
  ASSUME NEW C, NEW inc, NEW snap \in DbsOf(C), NEW l \in Seq(LinesOf(C))
  PROVE  RestoreLines(inc, snap, l).ok /\ RestoreLines(inc, snap, l).currentTx # 0
           => \E k \in DOMAIN l : OpenAt(l, k)
<1> DEFINE R(s) == RestoreLines(inc, snap, s)
           Open(s) == \E k \in DOMAIN s : OpenAt(s, k)
           Y == {s \in Seq(LinesOf(C)) : R(s).ok /\ R(s).currentTx # 0 => Open(s)}
<1>1. << >> \in Y
  BY RestoreNothing DEF Start
<1>2. ASSUME NEW s \in Seq(LinesOf(C)), NEW e \in LinesOf(C), s \in Y
      PROVE  Append(s, e) \in Y
  <2> DEFINE q == Append(s, e)
             r == R(s)
  <2>1. r \in StatesOf(C) /\ R(q) = RestoreLine(inc, r, e)
    <3>1. GoesOn(inc, snap, s, e) /\ r \in StatesOf(C)
      BY RestoreAppend, RestoreLinesType
    <3> QED
      BY <3>1 DEF GoesOn
  <2>2. /\ q \in Seq(LinesOf(C)) /\ Len(s) \in Nat /\ Len(q) = Len(s) + 1 /\ q[Len(s) + 1] = e
        /\ DOMAIN s = 1 .. Len(s) /\ DOMAIN q = 1 .. Len(s) + 1
        /\ \A n \in 1 .. Len(s) : q[n] = s[n]
    OBVIOUS
  <2>3. r.ok /\ r.currentTx # 0 => Open(s)
    BY <1>2
  <2> HIDE DEF q, R, r
  <2>4. ASSUME e.op = "TX_BEGIN"
        PROVE  Open(q)
    <3>1. Len(s) + 1 \in DOMAIN q /\ OpenAt(q, Len(s) + 1)
      BY <2>2, <2>4 DEF OpenAt
    <3> QED
      BY <3>1
  <2>5. ASSUME ~IsMarker(e), Open(s)
        PROVE  Open(q)
    <3>1. PICK k \in DOMAIN s : OpenAt(s, k)
      BY <2>5
    <3>2. \A m \in k + 1 .. Len(q) : m \in k + 1 .. Len(s) \/ m = Len(s) + 1
      BY <2>2
    <3>3. k \in DOMAIN q /\ OpenAt(q, k)
      BY <2>2, <2>5, <3>1, <3>2 DEF OpenAt
    <3> QED
      BY <3>3
  <2>6. ASSUME R(q).ok, R(q).currentTx # 0
        PROVE  Open(q)
    <3>1. r.ok
      BY <2>1, <2>6 DEF RestoreLine
    <3>2. CASE IsMarker(e)
      <4>1. e.op = "TX_BEGIN"
        BY <2>1, <2>6, <3>1, <3>2 DEF RestoreLine, IsMarker, StatesOf
      <4> QED
        BY <2>4, <4>1
    <3>3. CASE ~IsMarker(e)
      <4>1. RestoreLine(inc, r, e).currentTx = r.currentTx
        BY <2>1, <3>1, <3>3, ReplayType DEF RestoreLine, IsMarker
      <4> QED
        BY <2>1, <2>3, <2>5, <2>6, <3>1, <3>3, <4>1
    <3> QED
      BY <3>2, <3>3
  <2> HIDE DEF Open
  <2> QED
    BY <2>2, <2>6 DEF q
<1>3. Seq(LinesOf(C)) \subseteq Y
  <2> HIDE DEF Y
  <2> QED
    BY <1>1, <1>2, BuiltByAppend
<1> QED
  BY <1>3

-----------------------------------------------------------------------------
(* Pass 1 of Restore, for one line more. *)
LEMMA ContainsAppend ==
  ASSUME NEW T, NEW s \in Seq(T), NEW e \in T, NEW x
  PROVE  Contains(Append(s, e), x) <=> Contains(s, x) \/ x = e
<1>1. /\ Len(s) \in Nat /\ Len(Append(s, e)) = Len(s) + 1
      /\ Append(s, e)[Len(s) + 1] = e /\ \A i \in 1 .. Len(s) : Append(s, e)[i] = s[i]
  OBVIOUS
<1>2. 1 .. Len(s) + 1 = (1 .. Len(s)) \cup {Len(s) + 1}
  BY <1>1
<1> QED
  BY <1>1, <1>2 DEF Contains

(* No line of l is a marker of t. *)
Unmarked(l, t) == \A k \in DOMAIN l : IsMarker(l[k]) => l[k].tx # t

(* A transaction that has no marker in the log has neither of the two. *)
LEMMA UnmarkedContains ==
  ASSUME NEW C, NEW l \in Seq(LinesOf(C)), NEW t, Unmarked(l, t)
  PROVE  ~Contains(l, Marker("TX_BEGIN", t)) /\ ~Contains(l, Marker("TX_COMMIT", t))
BY DEF Unmarked, Contains, Marker, IsMarker

(* Pass 1 of Restore, for one line more: only a marker changes which       *)
(* transactions are incomplete.                                            *)
LEMMA IncompleteAppend ==
  ASSUME NEW C, NEW l \in Seq(LinesOf(C)), NEW e \in LinesOf(C)
  PROVE  /\ ~IsMarker(e) => IncompleteTxs(Append(l, e)) = IncompleteTxs(l)
         /\ \A t \in 1 .. MaxTxs : e = Marker("TX_BEGIN", t) /\ Unmarked(l, t)
               => /\ IncompleteTxs(Append(l, e)) = IncompleteTxs(l) \cup {t}
                  /\ t \notin IncompleteTxs(l)
         /\ \A t \in 1 .. MaxTxs : e = Marker("TX_COMMIT", t)
               => IncompleteTxs(Append(l, e)) = IncompleteTxs(l) \ {t}
<1>1. \A x : Contains(Append(l, e), x) <=> Contains(l, x) \/ x = e
  BY ContainsAppend
<1>2. ASSUME ~IsMarker(e)
      PROVE  IncompleteTxs(Append(l, e)) = IncompleteTxs(l)
  <2>1. \A t \in 1 .. MaxTxs : e # Marker("TX_BEGIN", t) /\ e # Marker("TX_COMMIT", t)
    BY <1>2 DEF IsMarker, Marker
  <2> QED
    BY <1>1, <2>1 DEF IncompleteTxs
<1>3. ASSUME NEW t \in 1 .. MaxTxs, e = Marker("TX_BEGIN", t), Unmarked(l, t)
      PROVE  IncompleteTxs(Append(l, e)) = IncompleteTxs(l) \cup {t} /\ t \notin IncompleteTxs(l)
  <2>1. \A u \in 1 .. MaxTxs : e # Marker("TX_COMMIT", u) /\ (e = Marker("TX_BEGIN", u) <=> u = t)
    BY <1>3 DEF Marker
  <2>2. ~Contains(l, Marker("TX_BEGIN", t)) /\ ~Contains(l, Marker("TX_COMMIT", t))
    BY <1>3, UnmarkedContains
  <2> QED
    BY <1>1, <2>1, <2>2 DEF IncompleteTxs
<1>4. ASSUME NEW t \in 1 .. MaxTxs, e = Marker("TX_COMMIT", t)
      PROVE  IncompleteTxs(Append(l, e)) = IncompleteTxs(l) \ {t}
  <2>1. \A u \in 1 .. MaxTxs : e # Marker("TX_BEGIN", u) /\ (e = Marker("TX_COMMIT", u) <=> u = t)
    BY <1>4 DEF Marker
  <2> QED
    BY <1>1, <2>1 DEF IncompleteTxs
<1> QED
  BY <1>2, <1>3, <1>4

-----------------------------------------------------------------------------
(* Restore, for one line more: a line outside of transactions, and the     *)
(* first, the next and the last line of a block.                           *)
Restored(db, t) == [ok |-> TRUE, db |-> db, currentTx |-> t]
Kept(snap, l, t) == RestoreLines(IncompleteTxs(l) \ {t}, snap, l)   \* as if t were complete
Makes(db, e, db2) == \A t \in 0 .. MaxTxs : Replay(Restored(db, t), e) = Restored(db2, t)

(* A command logged outside a transaction is replayed on what the log      *)
(* restores.                                                               *)
LEMMA OutsideLine ==
  ASSUME NEW C, NEW snap \in DbsOf(C), NEW l \in Seq(LinesOf(C)), NEW e \in LinesOf(C), ~IsMarker(e),
         NEW db, NEW db2, Restore(snap, l) = Restored(db, 0), Makes(db, e, db2)
  PROVE  Restore(snap, Append(l, e)) = Restored(db2, 0)
<1> DEFINE inc == IncompleteTxs(l)
<1>1. IncompleteTxs(Append(l, e)) = inc /\ 0 \notin inc
  BY IncompleteAppend DEF IncompleteTxs
<1> HIDE DEF inc
<1>2. RestoreLines(inc, snap, l) = Restored(db, 0)
  BY DEF Restore, inc
<1>3. GoesOn(inc, snap, l, e)
  BY RestoreAppend
<1>4. RestoreLines(inc, snap, Append(l, e)) = RestoreLine(inc, Restored(db, 0), e)
  BY <1>2, <1>3 DEF GoesOn
<1>5. RestoreLine(inc, Restored(db, 0), e) = Replay(Restored(db, 0), e)
  BY <1>1 DEF RestoreLine, Restored, IsMarker
<1>6. Replay(Restored(db, 0), e) = Restored(db2, 0)
  BY ConstantsAssumption DEF Makes
<1> QED
  BY <1>1, <1>4, <1>5, <1>6 DEF Restore

(* With its TX_BEGIN alone a transaction is incomplete, and what the log   *)
(* restores stays as it was.                                               *)
LEMMA BlockBegins ==
  ASSUME NEW C, NEW snap \in DbsOf(C), NEW l \in Seq(LinesOf(C)), NEW t \in 1 .. MaxTxs,
         Unmarked(l, t), NEW db, NEW u, Restore(snap, l) = Restored(db, u)
  PROVE  LET q == Append(l, Marker("TX_BEGIN", t))
         IN  /\ Restore(snap, q) = Restored(db, t) /\ Kept(snap, q, t) = Restored(db, t)
             /\ t \in IncompleteTxs(q)
<1> DEFINE e == Marker("TX_BEGIN", t)
           inc == IncompleteTxs(l)
<1>1. e \in LinesOf(C) /\ e.op = "TX_BEGIN" /\ e.tx = t
  BY DEF LinesOf, Entry, IsMarker, Marker
<1>2. IncompleteTxs(Append(l, e)) = inc \cup {t} /\ t \notin inc /\ t # 0
  BY <1>1, IncompleteAppend
<1>3. RestoreLines(inc, snap, l) = Restored(db, u)
  BY DEF Restore, inc
<1> HIDE DEF e, inc
<1>4. RestoreLines(inc \cup {t}, snap, l) = Restored(db, u)
  <2>1. BeginsNot(l, t)
    BY DEF Unmarked, IsMarker, BeginsNot
  <2> DEFINE more == inc \cup {t}
  <2>2. inc \ {t} = more \ {t}
    OBVIOUS
  <2> HIDE DEF more
  <2>3. RestoreLines(inc, snap, l) = RestoreLines(more, snap, l)
    BY <1>2, <2>1, <2>2, NotBegunYet
  <2> QED
    BY <1>3, <2>3 DEF more
<1>5. GoesOn(inc, snap, l, e) /\ GoesOn(inc \cup {t}, snap, l, e)
  BY <1>1, RestoreAppend
<1>6. \A i : RestoreLine(i, Restored(db, u), e) = Restored(db, t)
  BY <1>1 DEF RestoreLine, Restored
<1>7. RestoreLines(inc, snap, Append(l, e)) = Restored(db, t)
  BY <1>3, <1>5, <1>6 DEF GoesOn
<1>8. RestoreLines(inc \cup {t}, snap, Append(l, e)) = Restored(db, t)
  BY <1>4, <1>5, <1>6 DEF GoesOn
<1>9. (inc \cup {t}) \ {t} = inc
  BY <1>2
<1> QED
  BY <1>2, <1>7, <1>8, <1>9 DEF Restore, Kept, e

(* A further line of an incomplete transaction changes what it would make  *)
(* of the state were it committed, and not what the log restores.          *)
LEMMA BlockGoesOn ==
  ASSUME NEW C, NEW snap \in DbsOf(C), NEW l \in Seq(LinesOf(C)), NEW t \in IncompleteTxs(l),
         NEW db, Restore(snap, l) = Restored(db, t),
         NEW e \in LinesOf(C), ~IsMarker(e),
         NEW d, NEW d2, Kept(snap, l, t) = Restored(d, t), Makes(d, e, d2)
  PROVE  LET q == Append(l, e)
         IN  /\ Restore(snap, q) = Restored(db, t) /\ Kept(snap, q, t) = Restored(d2, t)
             /\ t \in IncompleteTxs(q)
<1> DEFINE inc == IncompleteTxs(l)
<1>1. IncompleteTxs(Append(l, e)) = inc /\ t \in 1 .. MaxTxs
  BY IncompleteAppend DEF IncompleteTxs
<1>2. t \in inc /\ RestoreLines(inc, snap, l) = Restored(db, t) /\ RestoreLines(inc \ {t}, snap, l) = Restored(d, t)
  BY DEF Restore, Kept, inc
<1> HIDE DEF inc
<1>3. GoesOn(inc, snap, l, e) /\ GoesOn(inc \ {t}, snap, l, e)
  BY RestoreAppend
<1>4. RestoreLine(inc, Restored(db, t), e) = Restored(db, t)
  BY <1>2 DEF RestoreLine, Restored, IsMarker
<1>5. RestoreLine(inc \ {t}, Restored(d, t), e) = Replay(Restored(d, t), e)
  BY DEF RestoreLine, Restored, IsMarker
<1>6. Replay(Restored(d, t), e) = Restored(d2, t)
  BY <1>1, ConstantsAssumption DEF Makes
<1>7. RestoreLines(inc, snap, Append(l, e)) = Restored(db, t)
  BY <1>2, <1>3, <1>4 DEF GoesOn
<1>8. RestoreLines(inc \ {t}, snap, Append(l, e)) = Restored(d2, t)
  BY <1>2, <1>3, <1>5, <1>6 DEF GoesOn
<1> QED
  BY <1>1, <1>2, <1>7, <1>8 DEF Restore, Kept

(* With its TX_COMMIT a transaction is restored. *)
LEMMA BlockEnds ==
  ASSUME NEW C, NEW snap \in DbsOf(C), NEW l \in Seq(LinesOf(C)), NEW t \in 1 .. MaxTxs,
         NEW d, Kept(snap, l, t) = Restored(d, t)
  PROVE  Restore(snap, Append(l, Marker("TX_COMMIT", t))) = Restored(d, 0)
<1> DEFINE e == Marker("TX_COMMIT", t)
           inc == IncompleteTxs(l) \ {t}
<1>1. e \in LinesOf(C) /\ e.op = "TX_COMMIT"
  BY DEF LinesOf, Entry, IsMarker, Marker
<1>2. IncompleteTxs(Append(l, e)) = inc
  BY <1>1, IncompleteAppend
<1>3. RestoreLines(inc, snap, l) = Restored(d, t)
  BY DEF Kept
<1> HIDE DEF e, inc
<1>4. GoesOn(inc, snap, l, e)
  BY <1>1, RestoreAppend
<1>5. RestoreLine(inc, Restored(d, t), e) = Restored(d, 0)
  BY <1>1 DEF RestoreLine, Restored
<1>6. RestoreLines(inc, snap, Append(l, e)) = Restored(d, 0)
  BY <1>3, <1>4, <1>5 DEF GoesOn
<1> QED
  BY <1>2, <1>6 DEF Restore, e

-----------------------------------------------------------------------------
(* Types.  A line and a state mention only instances that have been        *)
(* created, and the list of an instance to come is empty.                  *)
Undo(C) == [inst : C, list : Seq(Value)]
MemoryTypes ==
    /\ created \subseteq Instance /\ live \subseteq created
    /\ data \in [Instance -> Seq(Value)]
    /\ \A i \in Instance \ created : data[i] = << >>
    /\ held \in [Client -> created \cup {NoInstance}]
LogTypes ==
    /\ log \in Seq(LinesOf(created)) /\ durable \in 0 .. Len(log)
    /\ owed \in [0 .. Len(log) -> DbsOf(created)]
ExecTypes ==
    /\ active \in BOOLEAN /\ (active <=> txPhase # "idle")
    /\ txPhase \in {"idle", "exec", "rollback", "commit"}
    /\ txBuffer \in Seq(LinesOf(created)) /\ toFlush \in Seq(LinesOf(created))
    /\ (toFlush # << >>) <=> (txPhase = "commit")
    /\ undos \in Seq(Undo(created))
    /\ txPhase # "idle" => txs # 0
SavingTypes ==
    /\ snapPhase \in {"idle", "copy", "saved"} /\ toCopy \subseteq created
    /\ partial \in DbsOf(created) /\ snapshot \in DbsOf(created)
CountTypes ==
    /\ failed \in BOOLEAN
    /\ commands \in 0 .. MaxCommands /\ txs \in 0 .. MaxTxs
    /\ snapshots \in 0 .. MaxSnapshots /\ crashes \in 0 .. MaxCrashes
    /\ missed \in BOOLEAN /\ dirty \in BOOLEAN /\ causes \subseteq Causes
Typed == MemoryTypes /\ LogTypes /\ ExecTypes /\ SavingTypes /\ CountTypes

(* The types hold, with the lines and states over the instances created so *)
(* far.                                                                    *)
LEMMA TypedIsTyped ==
  ASSUME Typed
  PROVE  TypeOK
<1> USE DEF Typed, MemoryTypes, LogTypes, ExecTypes, SavingTypes, CountTypes
<1>1. log \in Seq(Entry) /\ txBuffer \in Seq(Entry) /\ toFlush \in Seq(Entry)
  <2>1. LinesOf(created) \subseteq Entry
    BY DEF LinesOf
  <2> QED
    BY <2>1, SeqMonotonic
<1>2. undos \in Seq([inst : Instance, list : Seq(Value)])
  <2>1. Undo(created) \subseteq [inst : Instance, list : Seq(Value)]
    BY DEF Undo
  <2> QED
    BY <2>1, SeqMonotonic
<1>3. held \in [Client -> Instance \cup {NoInstance}] /\ toCopy \subseteq Instance
  OBVIOUS
<1> QED
  BY <1>1, <1>2, <1>3 DEF TypeOK

(* They hold at the start. *)
LEMMA InitTyped == Init => Typed
<1> SUFFICES ASSUME Init
             PROVE  Typed
  OBVIOUS
<1> USE DEF Init, DL!LogInit
<1>1. EmptyDb \in DbsOf(created)
  BY EmptyDbType
<1>2. MemoryTypes
  BY DEF MemoryTypes
<1>3. LogTypes
  <2>1. log = << >> /\ durable = 0 /\ owed = [n \in {0} |-> EmptyDb] /\ 0 .. 0 = {0} /\ Len(<< >>) = 0
    OBVIOUS
  <2>2. log \in Seq(LinesOf(created)) /\ durable \in 0 .. Len(log)
    BY <2>1
  <2>3. owed \in [0 .. Len(log) -> DbsOf(created)]
    BY <1>1, <2>1
  <2> QED
    BY <2>2, <2>3 DEF LogTypes
<1>4. ExecTypes
  <2>1. << >> \in Seq(LinesOf(created)) /\ << >> \in Seq(Undo(created))
    OBVIOUS
  <2>2. active = FALSE /\ txPhase = "idle" /\ txBuffer = << >> /\ toFlush = << >> /\ undos = << >>
    OBVIOUS
  <2> QED
    BY <2>1, <2>2 DEF ExecTypes
<1>5. SavingTypes
  BY <1>1 DEF SavingTypes
<1>6. CountTypes
  <2>1. \A n \in {MaxCommands, MaxTxs, MaxSnapshots, MaxCrashes} : 0 \in 0 .. n
    BY ConstantsAssumption
  <2>2. commands = 0 /\ txs = 0 /\ snapshots = 0 /\ crashes = 0
    OBVIOUS
  <2>3. failed = FALSE /\ missed = FALSE /\ dirty = FALSE /\ causes = {}
    OBVIOUS
  <2> QED
    BY <2>1, <2>2, <2>3 DEF CountTypes
<1> QED
  BY <1>2, <1>3, <1>4, <1>5, <1>6 DEF Typed

-----------------------------------------------------------------------------
(* Steps, by what they leave alone. *)
Commands == \/ \E i \in Instance : CreateInstance(i) \/ DeleteInstance(i)
            \/ \E c \in Client, v \in Value : RightPush(c, v)
            \/ \E c \in Client : LeftPop(c)
TxCommands == \/ \E i \in Instance, v \in Value : TxRightPush(i, v)
              \/ \E i \in Instance : TxLeftPop(i)
Saving == SnapshotBegin \/ SnapshotRename \/ SnapshotFails \/ SnapshotTruncate
          \/ \E i \in Instance : SnapshotCopy(i)
Looking == \/ \E c \in Client, i \in Instance : LookUp(c, i)
           \/ \E c \in Client : LeftPopEmpty(c)

(* The steps of the system. *)
LEMMA Steps ==
  ASSUME Next
  PROVE  Commands \/ Looking \/ BeginTx \/ TxCommands \/ TxFails \/ TxUndo \/ RollbackTx
         \/ CommitTx \/ FlushLine \/ FlushCommit \/ Saving \/ Flush \/ Crash
BY DEF Next, Commands, TxCommands, Saving, Looking

(* Each command changes the engines and logs one line. *)
IsCommand(i, list, e) ==
    /\ ~failed /\ UNCHANGED <<exec, saving, failed, dirty, txs, snapshots, crashes>>
    /\ commands < MaxCommands /\ commands' = commands + 1
    /\ Log(e) /\ Acknowledge
    /\ causes \subseteq causes' /\ causes' \subseteq causes \cup {"foreignEntry", "openBlock", "zombie"}
    /\ causes' = {} => active \/ ~OpenBlock
    /\ \/ /\ e = Command("CREATE_INSTANCE", i, NoInstance)
          /\ i \notin created /\ created' = created \cup {i} /\ live' = live \cup {i}
          /\ UNCHANGED <<data, held>>
          /\ (causes' = {} => ~active) /\ (snapPhase = "copy" => toCopy = {})
       \/ /\ e = Command("DELETE_INSTANCE", i, NoInstance)
          /\ i \in live /\ live' = live \ {i} /\ UNCHANGED <<data, created, held>>
          /\ (causes' = {} => ~active) /\ (snapPhase = "copy" => toCopy = {})
       \/ /\ \/ \E v \in Value : e = Command("RPUSH", i, v) /\ list = Append(data[i], v)
             \/ e = Command("LPOP", i, NoInstance) /\ data[i] # << >> /\ list = Tail(data[i])
          /\ data' = [data EXCEPT ![i] = list] /\ UNCHANGED <<live, created>>
          /\ \E c \in Client : held[c] = i /\ i # NoInstance /\ held' = [held EXCEPT ![c] = NoInstance]
          /\ causes' = {} => i \in live

(* Every command of a client is of that form. *)
LEMMA CommandSteps ==
  ASSUME MemoryTypes, Commands
  PROVE  \E i \in Instance, list \in Seq(Value), e \in LinesOf(created') : IsCommand(i, list, e)
<1>1. << >> \in Seq(Value)
  OBVIOUS
<1>2. ASSUME NEW i \in Instance, CreateInstance(i) \/ DeleteInstance(i)
      PROVE  \E e \in LinesOf(created') : IsCommand(i, << >>, e)
  <2>1. CASE CreateInstance(i)
    <3> DEFINE e == Command("CREATE_INSTANCE", i, NoInstance)
    <3>1. e \in LinesOf(created')
      BY <2>1 DEF CreateInstance, LinesOf, Entry, Command, IsMarker
    <3>2. IsCommand(i, << >>, e)
      BY <2>1 DEF IsCommand, CreateInstance, AdminCommand, Cause
    <3> QED
      BY <3>1, <3>2
  <2>2. CASE DeleteInstance(i)
    <3> DEFINE e == Command("DELETE_INSTANCE", i, NoInstance)
    <3>1. e \in LinesOf(created')
      BY <2>2 DEF DeleteInstance, LinesOf, Entry, Command, IsMarker, MemoryTypes
    <3>2. IsCommand(i, << >>, e)
      BY <2>2 DEF IsCommand, DeleteInstance, AdminCommand, Cause
    <3> QED
      BY <3>1, <3>2
  <2> QED
    BY <1>2, <2>1, <2>2
<1>3. ASSUME NEW c \in Client, NEW v \in Value, RightPush(c, v)
      PROVE  \E i \in Instance, list \in Seq(Value), e \in LinesOf(created') : IsCommand(i, list, e)
  <2> DEFINE i == held[c]
             list == Append(data[i], v)
             e == Command("RPUSH", i, v)
  <2>1. i \in created /\ i \in Instance /\ created' = created /\ i # NoInstance
    BY <1>3 DEF RightPush, EngineCommand, MemoryTypes
  <2>2. e \in LinesOf(created')
    BY <2>1 DEF LinesOf, Entry, Command, IsMarker
  <2>3. list \in Seq(Value)
    BY <2>1 DEF MemoryTypes
  <2>4. IsCommand(i, list, e)
    BY <1>3, <2>1 DEF IsCommand, RightPush, EngineCommand, Cause
  <2> QED
    BY <2>1, <2>2, <2>3, <2>4
<1>4. ASSUME NEW c \in Client, LeftPop(c)
      PROVE  \E i \in Instance, list \in Seq(Value), e \in LinesOf(created') : IsCommand(i, list, e)
  <2> DEFINE i == held[c]
             list == Tail(data[i])
             e == Command("LPOP", i, NoInstance)
  <2>1. i \in created /\ i \in Instance /\ created' = created /\ i # NoInstance
    BY <1>4 DEF LeftPop, EngineCommand, MemoryTypes
  <2>2. e \in LinesOf(created')
    BY <2>1 DEF LinesOf, Entry, Command, IsMarker
  <2>3. list \in Seq(Value)
    BY <1>4, <2>1 DEF MemoryTypes, LeftPop
  <2>4. IsCommand(i, list, e)
    BY <1>4, <2>1 DEF IsCommand, LeftPop, EngineCommand, Cause
  <2> QED
    BY <2>1, <2>2, <2>3, <2>4
<1> QED
  BY <1>1, <1>2, <1>3, <1>4 DEF Commands

(* A command of the EXEC under way. *)
IsTxCommand(i, list, e) ==
    /\ TxCommand(i, list, e)
    /\ \/ \E v \in Value : e = Command("RPUSH", i, v) /\ list = Append(data[i], v)
       \/ e = Command("LPOP", i, NoInstance) /\ data[i] # << >> /\ list = Tail(data[i])

(* Every command of an EXEC is of the form above. *)
LEMMA TxCommandSteps ==
  ASSUME MemoryTypes, TxCommands
  PROVE  \E i \in live, list \in Seq(Value), e \in LinesOf(created) : IsTxCommand(i, list, e)
<1>1. ASSUME NEW i \in Instance, NEW v \in Value, TxRightPush(i, v)
      PROVE  \E list \in Seq(Value), e \in LinesOf(created) : i \in live /\ IsTxCommand(i, list, e)
  <2>1. i \in live /\ i \in created
    BY <1>1 DEF TxRightPush, TxCommand, MemoryTypes
  <2>2. Command("RPUSH", i, v) \in LinesOf(created) /\ Append(data[i], v) \in Seq(Value)
    BY <2>1 DEF LinesOf, Entry, Command, IsMarker, MemoryTypes
  <2>3. IsTxCommand(i, Append(data[i], v), Command("RPUSH", i, v))
    BY <1>1 DEF IsTxCommand, TxRightPush
  <2> QED
    BY <2>1, <2>2, <2>3
<1>2. ASSUME NEW i \in Instance, TxLeftPop(i)
      PROVE  \E list \in Seq(Value), e \in LinesOf(created) : i \in live /\ IsTxCommand(i, list, e)
  <2>1. i \in live /\ i \in created /\ data[i] # << >>
    BY <1>2 DEF TxLeftPop, TxCommand, MemoryTypes
  <2>2. Command("LPOP", i, NoInstance) \in LinesOf(created) /\ Tail(data[i]) \in Seq(Value)
    BY <2>1 DEF LinesOf, Entry, Command, IsMarker, MemoryTypes
  <2>3. IsTxCommand(i, Tail(data[i]), Command("LPOP", i, NoInstance))
    BY <1>2 DEF IsTxCommand, TxLeftPop
  <2> QED
    BY <2>1, <2>2, <2>3
<1> QED
  BY <1>1, <1>2 DEF TxCommands

(* What a crash leaves, and what the new process makes of it. *)
IsCrash(n, r) ==
    /\ ~failed /\ n \in durable .. Len(log) /\ log' = SubSeq(log, 1, n) /\ durable' = durable
    /\ r = Restore(snapshot, log')
    /\ failed' = ~r.ok /\ live' = (IF r.ok THEN DOMAIN r.db ELSE {})
    /\ data' = [i \in Instance |-> IF i \in live' THEN r.db[i] ELSE << >>]
    /\ owed' = [m \in 0 .. Len(log') |-> owed[m]]
    /\ created' = created /\ snapshot' = snapshot /\ txs' = txs

(* A restart is of the form above. *)
LEMMA CrashSteps ==
  ASSUME Crash
  PROVE  \E n, r : IsCrash(n, r)
<1>1. PICK n \in durable .. Len(log) : log' = SubSeq(log, 1, n)
  BY DEF Crash, DL!LoseTail
<1>2. IsCrash(n, Restore(snapshot, log'))
  BY <1>1 DEF Crash, IsCrash
<1> QED
  BY <1>2

(* A prefix of a sequence. *)
LEMMA PrefixType ==
  ASSUME NEW T, NEW s \in Seq(T), NEW n \in 0 .. Len(s)
  PROVE  /\ SubSeq(s, 1, n) \in Seq(T) /\ Len(SubSeq(s, 1, n)) = n
         /\ \A i \in 1 .. n : SubSeq(s, 1, n)[i] = s[i]
OBVIOUS

(* What a restart reads back is a state, of a log that is a prefix of the  *)
(* one before.                                                             *)
LEMMA CrashType ==
  ASSUME LogTypes, SavingTypes, NEW n, NEW r, IsCrash(n, r)
  PROVE  /\ r \in StatesOf(created) /\ DOMAIN r.db \subseteq created
         /\ r.db \in [DOMAIN r.db -> Seq(Value)]
         /\ log' \in Seq(LinesOf(created)) /\ Len(log') = n /\ n \in durable .. Len(log) /\ n \in Nat
<1>1. n \in 0 .. Len(log) /\ n \in Nat /\ n \in durable .. Len(log) /\ log' = SubSeq(log, 1, n) /\ r = Restore(snapshot, log')
  BY DEF LogTypes, IsCrash
<1>2. log' \in Seq(LinesOf(created)) /\ Len(log') = n
  <2>1. log \in Seq(LinesOf(created))
    BY DEF LogTypes
  <2> QED
    BY <1>1, <2>1, PrefixType
<1>3. snapshot \in DbsOf(created)
  BY DEF SavingTypes
<1>4. r \in StatesOf(created)
  <2>1. PICK l : l = log'
    OBVIOUS
  <2>2. RestoreLines(IncompleteTxs(l), snapshot, l) \in StatesOf(created)
    BY <1>2, <1>3, <2>1, RestoreLinesType
  <2> QED
    BY <1>1, <2>1, <2>2 DEF Restore
<1>5. r.db \in DbsOf(created)
  BY <1>4 DEF StatesOf
<1> QED
  BY <1>1, <1>2, <1>4, <1>5, DbsOfIs

(* Instances are never forgotten. *)
LEMMA CreatedGrows ==
  ASSUME MemoryTypes, Next
  PROVE  created \subseteq created' /\ (created' # created => Commands)
<1>1. CASE Commands
  <2>1. PICK i \in Instance, list \in Seq(Value), e \in LinesOf(created') : IsCommand(i, list, e)
    BY <1>1, CommandSteps
  <2> QED
    BY <1>1, <2>1 DEF IsCommand
<1>2. CASE Looking \/ TxCommands
  BY <1>2 DEF Looking, LookUp, LeftPopEmpty, TxCommands, TxRightPush, TxLeftPop, TxCommand
<1>3. CASE BeginTx \/ TxFails \/ TxUndo \/ RollbackTx \/ CommitTx \/ FlushLine \/ FlushCommit
  BY <1>3 DEF BeginTx, TxFails, TxUndo, RollbackTx, CommitTx, FlushLine, FlushCommit, memory
<1>4. CASE Saving \/ Flush \/ Crash
  BY <1>4 DEF Saving, SnapshotBegin, SnapshotRename, SnapshotFails, SnapshotTruncate, SnapshotCopy,
              Flush, Crash, memory
<1> QED
  BY <1>1, <1>2, <1>3, <1>4, Steps

(* The engines keep their types. *)
LEMMA MemoryNext ==
  ASSUME Typed, Next
  PROVE  MemoryTypes'
<1> MemoryTypes
  BY DEF Typed
<1>1. CASE Commands
  <2>1. PICK i \in Instance, list \in Seq(Value), e \in LinesOf(created') : IsCommand(i, list, e)
    BY <1>1, CommandSteps
  <2>2. CASE data' = data /\ held' = held
    <3>1. created' \subseteq Instance /\ live' \subseteq created' /\ created \subseteq created'
      BY <2>1, <2>2 DEF IsCommand, MemoryTypes
    <3> QED
      BY <2>2, <3>1 DEF MemoryTypes
  <2>3. CASE ~(data' = data /\ held' = held)
    <3>1. PICK c \in Client : /\ data' = [data EXCEPT ![i] = list] /\ live' = live /\ created' = created
                              /\ held[c] = i /\ i # NoInstance /\ held' = [held EXCEPT ![c] = NoInstance]
      BY <2>1, <2>3 DEF IsCommand
    <3>2. i \in created
      BY <3>1 DEF MemoryTypes
    <3> QED
      BY <3>1, <3>2 DEF MemoryTypes
  <2> QED
    BY <2>2, <2>3
<1>2. CASE Looking
  BY <1>2 DEF Looking, LookUp, LeftPopEmpty, MemoryTypes
<1>3. CASE TxCommands
  <2>1. PICK i \in live, list \in Seq(Value), e \in LinesOf(created) : IsTxCommand(i, list, e)
    BY <1>3, TxCommandSteps
  <2>2. /\ data' = [data EXCEPT ![i] = list] /\ live' = live /\ created' = created /\ held' = held
        /\ i \in created
    BY <2>1 DEF IsTxCommand, TxCommand, MemoryTypes
  <2> QED
    BY <2>2 DEF MemoryTypes
<1>4. CASE TxUndo
  <2>1. undos # << >> /\ undos \in Seq(Undo(created))
    BY <1>4 DEF TxUndo, Typed, ExecTypes
  <2>2. Head(undos).inst \in created /\ Head(undos).list \in Seq(Value)
    <3>1. Head(undos) \in Undo(created)
      BY <2>1, HeadTailProperties
    <3> QED
      BY <3>1 DEF Undo
  <2>3. /\ data' = [data EXCEPT ![Head(undos).inst] = Head(undos).list]
        /\ live' = live /\ created' = created /\ held' = held
    BY <1>4 DEF TxUndo
  <2> QED
    BY <2>2, <2>3 DEF MemoryTypes
<1>5. CASE BeginTx \/ TxFails \/ RollbackTx \/ CommitTx \/ FlushLine \/ FlushCommit
  BY <1>5 DEF BeginTx, TxFails, RollbackTx, CommitTx, FlushLine, FlushCommit, memory, MemoryTypes
<1>6. CASE Saving \/ Flush
  BY <1>6 DEF Saving, SnapshotBegin, SnapshotRename, SnapshotFails, SnapshotTruncate, SnapshotCopy,
              Flush, memory, MemoryTypes
<1>7. CASE Crash
  <2>1. PICK n, r : IsCrash(n, r)
    BY <1>7, CrashSteps
  <2>2. r.db \in [DOMAIN r.db -> Seq(Value)] /\ DOMAIN r.db \subseteq created
    BY <2>1, CrashType DEF Typed
  <2>3. created' = created /\ live' \subseteq DOMAIN r.db /\ data' = [i \in Instance |-> IF i \in live' THEN r.db[i] ELSE << >>]
    BY <2>1 DEF IsCrash
  <2>4. held' \in [Client -> created' \cup {NoInstance}]
    BY <1>7, <2>3 DEF Crash
  <2>5. data' \in [Instance -> Seq(Value)] /\ \A i \in Instance \ created : data'[i] = << >>
    BY <2>2, <2>3
  <2> QED
    BY <2>2, <2>3, <2>4, <2>5 DEF MemoryTypes
<1> QED
  BY <1>1, <1>2, <1>3, <1>4, <1>5, <1>6, <1>7, Steps

(* What is owed is a state, however the log changes. *)
LEMMA OwedType ==
  ASSUME NEW X, NEW Y, X \subseteq Y, NEW n \in Nat, NEW m \in Nat, m <= n + 1,
         NEW f \in [0 .. n -> X], NEW d \in Y
  PROVE  [k \in 0 .. m |-> IF k < m THEN f[k] ELSE d] \in [0 .. m -> Y]
<1>1. \A k \in 0 .. m : k < m => k \in 0 .. n
  OBVIOUS
<1> QED
  BY <1>1

(* The live lists are a state. *)
LEMMA DbType ==
  ASSUME MemoryTypes
  PROVE  Db \in DbsOf(created) /\ DOMAIN Db = live /\ \A i \in live : Db[i] = data[i]
<1>1. Db \in [live -> Seq(Value)] /\ live \subseteq created
  BY DEF Db, MemoryTypes
<1> QED
  BY <1>1, DbsOfIs DEF Db

(* So is what is owed now. *)
LEMMA IdealType ==
  ASSUME LogTypes
  PROVE  Ideal \in DbsOf(created) /\ owed[Len(log)] = Ideal
<1>1. Len(log) \in 0 .. Len(log)
  BY DEF LogTypes
<1> QED
  BY <1>1 DEF LogTypes, Ideal

(* A line is logged, to the log or the buffer. *)
LEMMA LogType ==
  ASSUME LogTypes, ExecTypes, created \subseteq created', NEW e \in LinesOf(created'), Log(e)
  PROVE  /\ log' \in Seq(LinesOf(created')) /\ durable' \in 0 .. Len(log')
         /\ Len(log') <= Len(log) + 1
         /\ txBuffer' \in Seq(LinesOf(created'))
         /\ active' = active /\ toFlush' = toFlush /\ (missed \in BOOLEAN => missed' \in BOOLEAN)
<1>1. log \in Seq(LinesOf(created')) /\ txBuffer \in Seq(LinesOf(created'))
  BY MoreInstances DEF LogTypes, ExecTypes
<1>2. durable \in 0 .. Len(log)
  BY DEF LogTypes
<1>3. CASE active /\ txBuffer' = Append(txBuffer, e) /\ UNCHANGED <<wal, missed>>
  <2>1. log' = log /\ durable' = durable /\ missed' = missed
    BY <1>3 DEF wal
  <2> QED
    BY <1>1, <1>2, <1>3, <2>1 DEF Log
<1>4. CASE ~active /\ DL!Accept(e) /\ NoteLogged(e) /\ UNCHANGED txBuffer
  <2>1. log' = Append(log, e) /\ durable' = durable
    BY <1>4 DEF DL!Accept
  <2>2. missed \in BOOLEAN => missed' \in BOOLEAN
    BY <1>4 DEF NoteLogged
  <2> QED
    BY <1>1, <1>2, <1>4, <2>1, <2>2 DEF Log
<1> QED
  BY <1>3, <1>4 DEF Log

(* A state is acknowledged, and owed from then on. *)
LEMMA AcknowledgeType ==
  ASSUME LogTypes, MemoryTypes', created \subseteq created', Len(log') \in Nat,
         Len(log') <= Len(log) + 1, Acknowledge
  PROVE  owed' \in [0 .. Len(log') -> DbsOf(created')]
<1>1. Db' \in DbsOf(created')
  <2>1. Db' = [i \in live' |-> data'[i]]
    BY DEF Db
  <2>2. Db' \in [live' -> Seq(Value)] /\ live' \subseteq created'
    BY <2>1 DEF MemoryTypes
  <2> QED
    BY <2>2, DbsOfIs
<1>2. DbsOf(created) \subseteq DbsOf(created') /\ Len(log) \in Nat /\ owed \in [0 .. Len(log) -> DbsOf(created)]
  BY MoreInstances DEF LogTypes
<1>3. PICK d : d = Db'
  OBVIOUS
<1>4. owed' = [n \in 0 .. Len(log') |-> IF n < Len(log') THEN owed[n] ELSE d]
  BY <1>3 DEF Acknowledge
<1> QED
  BY <1>1, <1>2, <1>3, <1>4, OwedType

(* A snapshot settles what is owed. *)
LEMMA SettleType ==
  ASSUME LogTypes, created' = created, Settle
  PROVE  owed' \in [0 .. Len(log') -> DbsOf(created')]
BY IdealType DEF Settle

(* The log, and what is owed for its prefixes, keep their types. *)
LEMMA LogNextTypes ==
  ASSUME Typed, Next
  PROVE  LogTypes'
<1> MemoryTypes /\ LogTypes /\ ExecTypes /\ SavingTypes /\ MemoryTypes' /\ created \subseteq created'
  BY MemoryNext, CreatedGrows DEF Typed
<1>1. CASE Commands
  <2>1. PICK i \in Instance, list \in Seq(Value), e \in LinesOf(created') : IsCommand(i, list, e)
    BY <1>1, CommandSteps
  <2>2. Log(e) /\ Acknowledge
    BY <2>1 DEF IsCommand
  <2>3. log' \in Seq(LinesOf(created')) /\ durable' \in 0 .. Len(log') /\ Len(log') <= Len(log) + 1
    BY <2>2, LogType
  <2>4. Len(log') \in Nat
    BY <2>3
  <2>5. owed' \in [0 .. Len(log') -> DbsOf(created')]
    BY <2>2, <2>3, <2>4, AcknowledgeType
  <2> QED
    BY <2>3, <2>5 DEF LogTypes
<1>2. CASE FlushLine \/ FlushCommit
  <2>1. toFlush # << >> /\ toFlush \in Seq(LinesOf(created))
    BY <1>2 DEF FlushLine, FlushCommit, ExecTypes
  <2>2. Head(toFlush) \in LinesOf(created)
    BY <2>1, HeadTailProperties
  <2>3. log' = Append(log, Head(toFlush)) /\ durable' = durable /\ created' = created
    BY <1>2 DEF FlushLine, FlushCommit, DL!Accept, memory
  <2>4. log' \in Seq(LinesOf(created')) /\ durable' \in 0 .. Len(log') /\ Len(log') = Len(log) + 1 /\ Len(log) \in Nat
    BY <2>2, <2>3 DEF LogTypes
  <2>5. owed' \in [0 .. Len(log') -> DbsOf(created')]
    <3>1. CASE FlushCommit
      BY <2>4, <3>1, AcknowledgeType DEF FlushCommit
    <3>2. CASE FlushLine
      <4>1. owed' = [n \in 0 .. Len(log') |-> IF n < Len(log') THEN owed[n] ELSE Ideal]
        BY <3>2 DEF FlushLine, NothingNew
      <4>2. Ideal \in DbsOf(created') /\ owed \in [0 .. Len(log) -> DbsOf(created)]
        BY <2>3, IdealType DEF LogTypes
      <4>3. PICK d : d = Ideal
        OBVIOUS
      <4> QED
        BY <2>3, <2>4, <4>1, <4>2, <4>3, OwedType
    <3> QED
      BY <1>2, <3>1, <3>2
  <2> QED
    BY <2>4, <2>5 DEF LogTypes
<1>3. CASE SnapshotRename \/ Flush
  <2>1. log' = log /\ durable' \in 0 .. Len(log) /\ created' = created /\ Settle
    BY <1>3 DEF SnapshotRename, Flush, DL!Persist, wal, memory, LogTypes
  <2> QED
    BY <2>1, SettleType DEF LogTypes
<1>4. CASE SnapshotTruncate
  <2>1. created' = created /\ Settle
    BY <1>4 DEF SnapshotTruncate, memory
  <2>2. CASE log' = << >> /\ durable' = 0
    <3>1. log' \in Seq(LinesOf(created')) /\ durable' \in 0 .. Len(log')
      BY <2>2
    <3> QED
      BY <2>1, <3>1, SettleType DEF LogTypes
  <2>3. CASE \E n \in durable .. Len(log) : log' = SubSeq(log, 1, n) /\ durable' = durable
    <3>1. log' \in Seq(LinesOf(created')) /\ durable' \in 0 .. Len(log')
      BY <2>1, <2>3, PrefixType DEF LogTypes
    <3> QED
      BY <2>1, <3>1, SettleType DEF LogTypes
  <2> QED
    BY <1>4, <2>2, <2>3 DEF SnapshotTruncate, DL!Truncate, DL!LoseTail
<1>5. CASE Crash
  <2>1. PICK n, r : IsCrash(n, r)
    BY <1>5, CrashSteps
  <2>2. log' \in Seq(LinesOf(created)) /\ Len(log') = n /\ n \in durable .. Len(log) /\ n \in Nat
    BY <2>1, CrashType
  <2>3. created' = created /\ durable' = durable /\ owed' = [m \in 0 .. Len(log') |-> owed[m]]
    BY <2>1 DEF IsCrash
  <2>4. 0 .. n \subseteq 0 .. Len(log) /\ durable' \in 0 .. n
    BY <2>2, <2>3 DEF LogTypes
  <2>5. owed' \in [0 .. Len(log') -> DbsOf(created')]
    BY <2>2, <2>3, <2>4 DEF LogTypes
  <2> QED
    BY <2>2, <2>3, <2>4, <2>5 DEF LogTypes
<1>6. CASE \/ Looking \/ BeginTx \/ TxFails \/ TxUndo \/ RollbackTx \/ CommitTx
           \/ SnapshotBegin \/ SnapshotFails \/ \E i \in Instance : SnapshotCopy(i)
  <2>1. log' = log /\ durable' = durable /\ owed' = owed /\ created' = created
    BY <1>6 DEF Looking, LookUp, LeftPopEmpty, BeginTx, TxFails, TxUndo, RollbackTx, CommitTx,
                SnapshotBegin, SnapshotFails, SnapshotCopy, memory, wal, ghosts
  <2> QED
    BY <2>1 DEF LogTypes
<1>7. CASE TxCommands
  <2>1. PICK i \in live, list \in Seq(Value), e \in LinesOf(created) : IsTxCommand(i, list, e)
    BY <1>7, TxCommandSteps
  <2>2. active
    BY <2>1 DEF IsTxCommand, TxCommand, ExecTypes
  <2>3. log' = log /\ durable' = durable /\ owed' = owed /\ created' = created
    BY <2>1, <2>2 DEF IsTxCommand, TxCommand, Log, wal
  <2> QED
    BY <2>3 DEF LogTypes
<1> QED
  BY <1>1, <1>2, <1>3, <1>4, <1>5, <1>6, <1>7, Steps DEF Saving

(* The lines of a commit. *)
Block == << Marker("TX_BEGIN", txs) >> \o txBuffer \o << Marker("TX_COMMIT", txs) >>

(* The block that a commit flushes. *)
LEMMA BlockType ==
  ASSUME NEW T, NEW s \in Seq(T), NEW a \in T, NEW b \in T
  PROVE  LET q == << a >> \o s \o << b >>
         IN  /\ q \in Seq(T) /\ Len(q) = Len(s) + 2 /\ q # << >> /\ q[1] = a /\ q[Len(s) + 2] = b
             /\ \A k \in 1 .. Len(s) : q[k + 1] = s[k]
<1> DEFINE q == << a >> \o s \o << b >>
<1>1. q \in Seq(T) /\ Len(q) = Len(s) + 2 /\ Len(s) \in Nat
  OBVIOUS
<1>2. q[1] = a /\ q[Len(s) + 2] = b /\ \A k \in 1 .. Len(s) : q[k + 1] = s[k]
  OBVIOUS
<1> HIDE DEF q
<1>3. q # << >>
  BY <1>1
<1> QED
  BY <1>1, <1>2, <1>3 DEF q

(* The two markers. *)
LEMMA MarkersType ==
  ASSUME NEW C, NEW t \in 1 .. MaxTxs
  PROVE  /\ Marker("TX_BEGIN", t) \in LinesOf(C) /\ Marker("TX_COMMIT", t) \in LinesOf(C)
         /\ Marker("TX_BEGIN", t).op = "TX_BEGIN" /\ Marker("TX_COMMIT", t).op = "TX_COMMIT"
         /\ Marker("TX_BEGIN", t).tx = t /\ Marker("TX_COMMIT", t).tx = t
BY DEF LinesOf, Entry, IsMarker, Marker

(* The transaction logger and the undo stack keep their types. *)
LEMMA ExecNextTypes ==
  ASSUME Typed, Next
  PROVE  ExecTypes'
<1> MemoryTypes /\ LogTypes /\ ExecTypes /\ SavingTypes /\ created \subseteq created'
  BY CreatedGrows DEF Typed
<1>0. /\ txBuffer \in Seq(LinesOf(created')) /\ toFlush \in Seq(LinesOf(created'))
      /\ undos \in Seq(Undo(created'))
  <2>1. Undo(created) \subseteq Undo(created')
    BY DEF Undo
  <2> QED
    BY <2>1, MoreInstances, SeqMonotonic DEF ExecTypes
<1>1. CASE Commands
  <2>1. PICK i \in Instance, list \in Seq(Value), e \in LinesOf(created') : IsCommand(i, list, e)
    BY <1>1, CommandSteps
  <2>2. Log(e) /\ txPhase' = txPhase /\ undos' = undos /\ txs' = txs
    BY <2>1 DEF IsCommand, exec
  <2>3. txBuffer' \in Seq(LinesOf(created')) /\ active' = active /\ toFlush' = toFlush
    BY <2>2, LogType
  <2> QED
    BY <1>0, <2>2, <2>3 DEF ExecTypes
<1>2. CASE TxCommands
  <2>1. PICK i \in live, list \in Seq(Value), e \in LinesOf(created) : IsTxCommand(i, list, e)
    BY <1>2, TxCommandSteps
  <2>2. /\ Log(e) /\ txPhase' = txPhase /\ txs' = txs /\ created' = created
        /\ undos' = << [inst |-> i, list |-> data[i]] >> \o undos
    BY <2>1 DEF IsTxCommand, TxCommand
  <2>3. txBuffer' \in Seq(LinesOf(created')) /\ active' = active /\ toFlush' = toFlush
    BY <2>2, LogType
  <2>4. [inst |-> i, list |-> data[i]] \in Undo(created)
    BY DEF Undo, MemoryTypes
  <2>5. undos' \in Seq(Undo(created'))
    BY <2>2, <2>4 DEF ExecTypes
  <2> QED
    BY <1>0, <2>2, <2>3, <2>5 DEF ExecTypes
<1>3. CASE BeginTx
  <2>1. /\ active' = TRUE /\ txBuffer' = << >> /\ txPhase' = "exec" /\ txs' = txs + 1 /\ txPhase = "idle"
        /\ toFlush' = toFlush /\ undos' = undos /\ created' = created
    BY <1>3 DEF BeginTx, memory
  <2>2. << >> \in Seq(LinesOf(created')) /\ txs \in Nat
    BY DEF Typed, CountTypes
  <2> QED
    BY <1>0, <2>1, <2>2 DEF ExecTypes
<1>4. CASE TxUndo
  <2>1. undos # << >> /\ undos' = Tail(undos) /\ txPhase' = txPhase /\ txs' = txs /\ created' = created
    BY <1>4 DEF TxUndo, bounds
  <2>2. undos' \in Seq(Undo(created'))
    BY <1>0, <2>1, HeadTailProperties
  <2> QED
    BY <1>0, <1>4, <2>1, <2>2 DEF TxUndo, logger, ExecTypes
<1>5. CASE RollbackTx \/ FlushCommit \/ Crash
  <2>1. /\ active' = FALSE /\ txBuffer' = << >> /\ txPhase' = "idle" /\ undos' = << >>
        /\ toFlush' = << >>
    BY <1>5 DEF RollbackTx, FlushCommit, Crash, ExecTypes
  <2>2. << >> \in Seq(LinesOf(created')) /\ << >> \in Seq(Undo(created'))
    OBVIOUS
  <2> QED
    BY <2>1, <2>2 DEF ExecTypes
<1>6. CASE CommitTx
  <2>1. /\ txPhase' = "commit" /\ txPhase = "exec" /\ active' = active /\ txBuffer' = txBuffer /\ undos' = undos
        /\ txs' = txs /\ created' = created /\ toFlush' = Block
    BY <1>6 DEF CommitTx, bounds, Block, memory
  <2>2. txs \in 1 .. MaxTxs
    BY <2>1 DEF Typed, CountTypes, ExecTypes
  <2>3. Block \in Seq(LinesOf(created')) /\ Block # << >>
    BY <1>0, <2>2, BlockType, MarkersType DEF Block
  <2> QED
    BY <1>0, <2>1, <2>3 DEF ExecTypes
<1>7. CASE FlushLine
  <2>1. /\ txPhase' = txPhase /\ txPhase = "commit" /\ active' = active /\ txBuffer' = txBuffer /\ undos' = undos
        /\ txs' = txs /\ created' = created /\ toFlush' = Tail(toFlush) /\ Len(toFlush) > 1
    BY <1>7 DEF FlushLine, bounds, memory, exec
  <2>2. toFlush' \in Seq(LinesOf(created')) /\ Len(toFlush') = Len(toFlush) - 1 /\ Len(toFlush) \in Nat
    BY <1>0, <2>1
  <2>3. toFlush' # << >>
    <3>1. PICK rest : rest = toFlush'
      OBVIOUS
    <3>2. Len(rest) # 0
      BY <2>1, <2>2, <3>1
    <3> QED
      BY <3>1, <3>2
  <2> QED
    BY <1>0, <2>1, <2>2, <2>3 DEF ExecTypes
<1>8. CASE TxFails \/ Looking \/ Saving \/ Flush
  <2>1. /\ UNCHANGED <<active, txBuffer, toFlush, undos, txs, created>>
        /\ txPhase' = txPhase \/ (txPhase = "exec" /\ txPhase' = "rollback")
    BY <1>8 DEF TxFails, Looking, LookUp, LeftPopEmpty, Saving, SnapshotBegin, SnapshotRename, SnapshotFails,
                SnapshotTruncate, SnapshotCopy, Flush, memory, logger, exec, bounds
  <2> QED
    BY <1>0, <2>1 DEF ExecTypes
<1> QED
  BY <1>1, <1>2, <1>3, <1>4, <1>5, <1>6, <1>7, <1>8, Steps

(* The snapshot keeps its types. *)
LEMMA SavingNextTypes ==
  ASSUME Typed, Next
  PROVE  SavingTypes'
<1> MemoryTypes /\ LogTypes /\ ExecTypes /\ SavingTypes /\ created \subseteq created'
  BY CreatedGrows DEF Typed
<1>0. partial \in DbsOf(created') /\ snapshot \in DbsOf(created') /\ EmptyDb \in DbsOf(created')
  BY MoreInstances, EmptyDbType DEF SavingTypes
<1>1. CASE \E i \in Instance : SnapshotCopy(i)
  <2>1. PICK i \in toCopy : /\ partial' = With(partial, i, data[i]) /\ toCopy' = toCopy \ {i}
                            /\ snapPhase' = snapPhase /\ snapshot' = snapshot
    BY <1>1 DEF SnapshotCopy
  <2>2. i \in created /\ data[i] \in Seq(Value)
    BY DEF SavingTypes, MemoryTypes
  <2>3. partial' \in DbsOf(created')
    BY <1>0, <2>1, <2>2, WithType
  <2> QED
    BY <1>0, <2>1, <2>3 DEF SavingTypes
<1>2. CASE SnapshotBegin \/ SnapshotRename \/ SnapshotFails \/ SnapshotTruncate \/ Crash
  BY <1>0, <1>2 DEF SnapshotBegin, SnapshotRename, SnapshotFails, SnapshotTruncate, Crash, SavingTypes, MemoryTypes
<1>3. CASE Commands
  <2>1. PICK i \in Instance, list \in Seq(Value), e \in LinesOf(created') : IsCommand(i, list, e)
    BY <1>3, CommandSteps
  <2> QED
    BY <1>0, <2>1 DEF IsCommand, saving, SavingTypes
<1>4. CASE TxCommands \/ Looking \/ BeginTx \/ TxFails \/ TxUndo \/ RollbackTx \/ CommitTx \/ FlushLine
           \/ FlushCommit \/ Flush
  <2>1. UNCHANGED <<snapPhase, toCopy, partial, snapshot>>
    BY <1>4 DEF TxCommands, TxRightPush, TxLeftPop, TxCommand, Looking, LookUp, LeftPopEmpty, BeginTx,
                TxFails, TxUndo, RollbackTx, CommitTx, FlushLine, FlushCommit, Flush, saving
  <2> QED
    BY <1>0, <2>1 DEF SavingTypes
<1> QED
  BY <1>1, <1>2, <1>3, <1>4, Steps DEF Saving

(* The counters and the flags keep theirs. *)
LEMMA CountNextTypes ==
  ASSUME Typed, Next
  PROVE  CountTypes'
<1> MemoryTypes /\ LogTypes /\ ExecTypes /\ SavingTypes /\ CountTypes /\ created \subseteq created'
  BY CreatedGrows DEF Typed
<1>0. {MaxCommands, MaxTxs, MaxSnapshots, MaxCrashes} \subseteq Nat
  BY ConstantsAssumption
<1>1. CASE Commands
  <2>1. PICK i \in Instance, list \in Seq(Value), e \in LinesOf(created') : IsCommand(i, list, e)
    BY <1>1, CommandSteps
  <2>2. missed' \in BOOLEAN
    BY <2>1, LogType DEF IsCommand, CountTypes
  <2>3. /\ commands < MaxCommands /\ commands' = commands + 1 /\ UNCHANGED <<failed, dirty, txs, snapshots, crashes>>
        /\ causes' \subseteq causes \cup {"foreignEntry", "openBlock", "zombie"}
    BY <2>1 DEF IsCommand
  <2> QED
    BY <1>0, <2>2, <2>3 DEF CountTypes, Causes
<1>2. CASE TxCommands
  <2>1. PICK i \in live, list \in Seq(Value), e \in LinesOf(created) : IsTxCommand(i, list, e)
    BY <1>2, TxCommandSteps
  <2>2. missed' \in BOOLEAN
    <3>1. active /\ Log(e)
      BY <2>1 DEF IsTxCommand, TxCommand, ExecTypes
    <3> QED
      BY <3>1 DEF Log, CountTypes
  <2>3. /\ commands < MaxCommands /\ commands' = commands + 1 /\ UNCHANGED <<failed, txs, snapshots, crashes, dirty, causes>>
    BY <2>1 DEF IsTxCommand, TxCommand
  <2> QED
    BY <1>0, <2>2, <2>3 DEF CountTypes
<1>3. CASE FlushLine \/ FlushCommit
  <2>1. UNCHANGED <<failed, commands, txs, snapshots, crashes, dirty, causes>> /\ missed' \in BOOLEAN
    BY <1>3 DEF FlushLine, FlushCommit, bounds, NoteLogged, CountTypes
  <2> QED
    BY <2>1 DEF CountTypes
<1>4. CASE Crash
  <2>1. /\ crashes < MaxCrashes /\ crashes' = crashes + 1 /\ UNCHANGED <<commands, txs, snapshots>>
        /\ missed' = FALSE /\ dirty' = FALSE /\ causes' \subseteq causes \cup {"staleLog", "lostWrites"}
    BY <1>4 DEF Crash, Cause
  <2>2. failed' \in BOOLEAN
    BY <1>4 DEF Crash
  <2>3. causes' \subseteq Causes
    BY <2>1 DEF CountTypes, Causes
  <2>4. crashes' \in 0 .. MaxCrashes
    BY <1>0, <2>1 DEF CountTypes
  <2> QED
    BY <2>1, <2>2, <2>3, <2>4 DEF CountTypes
<1>5. CASE BeginTx
  <2>1. txs < MaxTxs /\ txs' = txs + 1 /\ UNCHANGED <<failed, commands, snapshots, crashes, missed, dirty, causes>>
    BY <1>5 DEF BeginTx, ghosts
  <2> QED
    BY <1>0, <2>1 DEF CountTypes
<1>6. CASE Saving
  <2>1. /\ UNCHANGED <<failed, commands, txs, crashes>>
        /\ snapshots' = snapshots \/ (snapshots < MaxSnapshots /\ snapshots' = snapshots + 1)
        /\ missed' = missed \/ missed' = FALSE
        /\ causes' \subseteq causes \cup {"dirtySnapshot", "lostWrites", "cutBlock", "staleLog"}
    BY <1>6 DEF Saving, SnapshotBegin, SnapshotRename, SnapshotFails, SnapshotTruncate, SnapshotCopy,
                bounds, ghosts, Cause
  <2>2. dirty' \in BOOLEAN
    BY <1>6 DEF Saving, SnapshotBegin, SnapshotRename, SnapshotFails, SnapshotTruncate, SnapshotCopy,
                ghosts, CountTypes
  <2>3. causes' \subseteq Causes
    BY <2>1 DEF CountTypes, Causes
  <2>4. snapshots' \in 0 .. MaxSnapshots
    BY <1>0, <2>1 DEF CountTypes
  <2>5. missed' \in BOOLEAN
    BY <2>1 DEF CountTypes
  <2> QED
    BY <2>1, <2>2, <2>3, <2>4, <2>5 DEF CountTypes
<1>7. CASE Looking \/ TxFails \/ TxUndo \/ RollbackTx \/ CommitTx \/ Flush
  BY <1>7 DEF Looking, LookUp, LeftPopEmpty, TxFails, TxUndo, RollbackTx, CommitTx, Flush, bounds, ghosts, CountTypes
<1> QED
  BY <1>1, <1>2, <1>3, <1>4, <1>5, <1>6, <1>7, Steps

(* Every step of the system keeps the types. *)
LEMMA TypedNext == Typed /\ [Next]_vars => Typed'
<1>1. ASSUME Typed, Next
      PROVE  Typed'
  BY <1>1, MemoryNext, LogNextTypes, ExecNextTypes, SavingNextTypes, CountNextTypes DEF Typed
<1>2. ASSUME Typed, UNCHANGED vars
      PROVE  Typed'
  BY <1>2 DEF vars, memory, wal, logger, exec, saving, bounds, ghosts, Typed, MemoryTypes, LogTypes,
              ExecTypes, SavingTypes, CountTypes
<1> QED
  BY <1>1, <1>2

(* The engines, the log, the transaction logger, the snapshot and what     *)
(* Restore (persistence.go) rebuilds from them always have their types: a  *)
(* restart reads back lists of values of instances that have been created, *)
(* and nothing else.                                                       *)
THEOREM Typing == Spec => []TypeOK
<1>1. Spec => []Typed
  BY InitTyped, TypedNext, PTL DEF Spec
<1> QED
  BY <1>1, TypedIsTyped, PTL

-----------------------------------------------------------------------------
(* What the invariant of exact recovery says, part by part.  How much of   *)
(* the block of a commit is in the log: *)
Flushed  == Len(txBuffer) + 2 - Len(toFlush)
Flushing == txPhase = "commit" /\ Flushed > 0

(* What is left to flush is the rest of the block. *)
RestOfBlock ==
    txPhase = "commit" =>
        /\ Flushed \in 0 .. Len(txBuffer) + 1
        /\ \A k \in 1 .. Len(toFlush) : toFlush[k] = Block[Flushed + k]

(* Markers are written by the commit only. *)
OnlyCommands == \A k \in 1 .. Len(txBuffer) : ~IsMarker(txBuffer[k])

(* The transaction under way has no line in the log until it is flushed,   *)
(* and no later one ever has.                                              *)
MarkersAreOld ==
    \A k \in DOMAIN log : IsMarker(log[k]) =>
        /\ log[k].tx <= txs
        /\ txPhase # "idle" /\ ~Flushing => log[k].tx # txs

(* The undo stack leads back to what is owed: the first undo of an         *)
(* instance holds its list as it was owed, and an instance without one     *)
(* still has it.                                                           *)
FirstUndo(s, i, k) == s[k].inst = i /\ \A m \in k + 1 .. Len(s) : s[m].inst # i
NoUndo(s, i) == \A k \in 1 .. Len(s) : s[k].inst # i
UndoneIsOwed ==
    /\ live = DOMAIN Ideal
    /\ \A k \in 1 .. Len(undos) : undos[k].inst \in live
    /\ txPhase = "idle" => undos = << >>
    /\ \A i \in live : \/ \E k \in 1 .. Len(undos) : FirstUndo(undos, i, k) /\ undos[k].list = Ideal[i]
                       \/ NoUndo(undos, i) /\ data[i] = Ideal[i]

(* The transaction's buffer holds what has led from the state that is owed *)
(* to the one in memory, on the instances that can be undone ...           *)
Collecting == txPhase \in {"exec", "commit"}
Leads(after, lines, X, from, to) ==
    /\ after \in [0 .. Len(lines) -> X]
    /\ after[0] = from /\ after[Len(lines)] = to
    /\ \A k \in 1 .. Len(lines) : Makes(after[k - 1], lines[k], after[k])
BufferMakes(after) == Leads(after, txBuffer, DbsOf(created), Ideal, Db)
BufferUndone ==
    Collecting => /\ \A k \in 1 .. Len(txBuffer) : ~NoUndo(undos, txBuffer[k].inst)
                  /\ \A i \in live : ~NoUndo(undos, i) =>
                         \E k \in 1 .. Len(txBuffer) : txBuffer[k].inst = i
(* ... and what is flushed of it would be restored, were it committed. *)
FlushedMakes(after) ==
    Flushing /\ snapPhase # "saved" =>
        /\ Kept(snapshot, log, txs) = Restored(after[Flushed - 1], txs)
        /\ Restore(snapshot, log).currentTx = txs
BufferIsOwed == Collecting => \E after : BufferMakes(after) /\ FlushedMakes(after)
BlockIsOpen  == Flushing => txs \in IncompleteTxs(log)

(* What a crash may leave of the log restores what is owed then. *)
RestoresTo(snap, l, db) == Restore(snap, l).ok /\ Restore(snap, l).db = db
PrefixesRestore ==
    snapPhase # "saved" =>
        \A n \in durable .. Len(log) : RestoresTo(snapshot, SubSeq(log, 1, n), owed[n])

(* The snapshot under way holds what is owed, unless it has missed a       *)
(* change or has seen one that may be undone.                              *)
CopiesAreOwed ==
    snapPhase # "idle" /\ ~missed /\ ~dirty =>
        /\ DOMAIN partial \cap toCopy = {} /\ DOMAIN partial \cup toCopy = live
        /\ \A i \in DOMAIN partial : partial[i] = Ideal[i]
        /\ Flushing => \A k \in 1 .. Flushed - 1 : txBuffer[k].inst \notin DOMAIN partial
SavedIsOwed ==
    snapPhase = "saved" => /\ toCopy = {} /\ partial = snapshot /\ ~dirty
                           /\ ~missed => owed[0] = snapshot
MissedIsLogged == missed /\ snapPhase # "idle" => log # << >>

Exact == /\ ~failed /\ UndoneIsOwed /\ BufferUndone /\ BufferIsOwed /\ BlockIsOpen
         /\ PrefixesRestore /\ CopiesAreOwed /\ SavedIsOwed /\ MissedIsLogged
ExactInvariant == /\ LockInvariant /\ Typed /\ RestOfBlock /\ OnlyCommands /\ MarkersAreOld
                  /\ causes = {} => Exact

-----------------------------------------------------------------------------
(* States with the same lists are the same. *)
LEMMA SameDb ==
  ASSUME NEW C, NEW a \in DbsOf(C), NEW b \in DbsOf(C), DOMAIN a = DOMAIN b,
         \A i \in DOMAIN a : a[i] = b[i]
  PROVE  a = b
<1>1. a \in [DOMAIN a -> Seq(Value)] /\ b \in [DOMAIN a -> Seq(Value)]
  BY DbsOfIs
<1> QED
  BY <1>1

(* What the lines of the commands make of a state. *)
LEMMA ReplayMakes ==
  ASSUME NEW db, NEW i
  PROVE  /\ Makes(db, Command("CREATE_INSTANCE", i, NoInstance), With(db, i, << >>))
         /\ i \in DOMAIN db =>
              Makes(db, Command("DELETE_INSTANCE", i, NoInstance), Without(db, i))
         /\ i \in DOMAIN db =>
              \A v : Makes(db, Command("RPUSH", i, v), With(db, i, Append(db[i], v)))
         /\ i \in DOMAIN db /\ db[i] # << >> =>
              Makes(db, Command("LPOP", i, NoInstance), With(db, i, Tail(db[i])))
<1>1. ASSUME NEW d, NEW t
      PROVE  [Restored(db, t) EXCEPT !.db = d] = Restored(d, t) /\ Restored(db, t).db = db
  <2>1. Restored(db, t).db = db
    BY DEF Restored
  <2>2. [Restored(db, t) EXCEPT !.db = d] = Restored(d, t)
    <3> DEFINE ok == TRUE
               a == [ok |-> ok, db |-> db, currentTx |-> t]
               b == [ok |-> ok, db |-> d, currentTx |-> t]
    <3>1. ok \in BOOLEAN
      OBVIOUS
    <3> HIDE DEF ok
    <3>2. [a EXCEPT !.db = d] = b
      BY <3>1
    <3> QED
      BY <3>2 DEF Restored, ok
  <2> QED
    BY <2>1, <2>2
<1>2. Makes(db, Command("CREATE_INSTANCE", i, NoInstance), With(db, i, << >>))
  <2> DEFINE e == Command("CREATE_INSTANCE", i, NoInstance)
  <2>1. e.op = "CREATE_INSTANCE" /\ e.inst = i
    BY DEF Command
  <2> HIDE DEF e
  <2>2. \A t : Replay(Restored(db, t), e) = Restored(With(db, i, << >>), t)
    BY <1>1, <2>1 DEF Replay
  <2> QED
    BY <2>2 DEF Makes, e
<1>3. ASSUME i \in DOMAIN db
      PROVE  Makes(db, Command("DELETE_INSTANCE", i, NoInstance), Without(db, i))
  <2> DEFINE e == Command("DELETE_INSTANCE", i, NoInstance)
  <2>1. e.op = "DELETE_INSTANCE" /\ e.inst = i
    BY DEF Command
  <2> HIDE DEF e
  <2>2. \A t : Replay(Restored(db, t), e) = Restored(Without(db, i), t)
    BY <1>1, <1>3, <2>1 DEF Replay
  <2> QED
    BY <2>2 DEF Makes, e
<1>4. ASSUME i \in DOMAIN db, NEW v
      PROVE  Makes(db, Command("RPUSH", i, v), With(db, i, Append(db[i], v)))
  <2> DEFINE e == Command("RPUSH", i, v)
             d == With(db, i, Append(db[i], v))
  <2>1. e.op = "RPUSH" /\ e.inst = i /\ e.val = v
    BY DEF Command
  <2> HIDE DEF e
  <2>2. \A t : Replay(Restored(db, t), e) = [Restored(db, t) EXCEPT !.db = d]
    BY <1>1, <1>4, <2>1 DEF Replay
  <2> HIDE DEF d
  <2>3. \A t : Replay(Restored(db, t), e) = Restored(d, t)
    BY <1>1, <2>2
  <2> QED
    BY <2>3 DEF Makes, e, d
<1>5. ASSUME i \in DOMAIN db, db[i] # << >>
      PROVE  Makes(db, Command("LPOP", i, NoInstance), With(db, i, Tail(db[i])))
  <2> DEFINE e == Command("LPOP", i, NoInstance)
             d == With(db, i, Tail(db[i]))
  <2>1. e.op = "LPOP" /\ e.inst = i
    BY DEF Command
  <2> HIDE DEF e
  <2>2. \A t : Replay(Restored(db, t), e) = [Restored(db, t) EXCEPT !.db = d]
    BY <1>1, <1>5, <2>1 DEF Replay
  <2> HIDE DEF d
  <2>3. \A t : Replay(Restored(db, t), e) = Restored(d, t)
    BY <1>1, <2>2
  <2> QED
    BY <2>3 DEF Makes, e, d
<1> QED
  BY <1>2, <1>3, <1>4, <1>5

(* The invariant says that recovery is exact. *)
LEMMA ExactMeans ==
  ASSUME ExactInvariant
  PROVE  RecoveryIsExact
<1> SUFFICES ASSUME causes = {}
             PROVE  Consistent
  BY DEF RecoveryIsExact
<1>1. LogTypes /\ MemoryTypes /\ ExecTypes
  BY DEF ExactInvariant, Typed
<1>2. ~failed /\ UndoneIsOwed
  BY DEF ExactInvariant, Exact
<1>3. ASSUME txPhase = "idle"
      PROVE  Db = Ideal
  <2>1. undos = << >> /\ Len(undos) = 0 /\ live = DOMAIN Ideal
    BY <1>2, <1>3 DEF UndoneIsOwed
  <2>2. \A i \in live : data[i] = Ideal[i]
    BY <1>2, <2>1 DEF UndoneIsOwed
  <2>3. Db \in DbsOf(created) /\ Ideal \in DbsOf(created) /\ DOMAIN Db = live /\ \A i \in live : Db[i] = data[i]
    BY <1>1, DbType, IdealType
  <2> QED
    BY <2>1, <2>2, <2>3, SameDb
<1> QED
  BY <1>2, <1>3 DEF Consistent

-----------------------------------------------------------------------------
(* The undo stack when an undo is added ... *)
LEMMA UndoPushed ==
  ASSUME NEW T, NEW s \in Seq(T), NEW x \in T
  PROVE  LET q == << x >> \o s
         IN  /\ \A i : \A k \in 1 .. Len(s) : FirstUndo(s, i, k) =>
                   k + 1 \in 1 .. Len(q) /\ FirstUndo(q, i, k + 1) /\ q[k + 1] = s[k]
             /\ 1 \in 1 .. Len(q) /\ q[1] = x
             /\ \A i : NoUndo(s, i) /\ x.inst = i => FirstUndo(q, i, 1)
             /\ \A i : NoUndo(q, i) <=> NoUndo(s, i) /\ x.inst # i
             /\ \A k \in 1 .. Len(q) : q[k] = x \/ \E m \in 1 .. Len(s) : q[k] = s[m]
<1> DEFINE q == << x >> \o s
<1>1. Len(s) \in Nat /\ Len(q) = Len(s) + 1 /\ q[1] = x /\ \A k \in 1 .. Len(s) : q[k + 1] = s[k]
  OBVIOUS
<1> HIDE DEF q
<1>2. \A k \in 2 .. Len(q) : k - 1 \in 1 .. Len(s) /\ (k - 1) + 1 = k
  BY <1>1
<1>3. \A k \in 1 .. Len(q) : k = 1 \/ k \in 2 .. Len(q)
  BY <1>1
<1>4. \A k \in 2 .. Len(q) : q[k] = s[k - 1]
  BY <1>1, <1>2
<1>5. \A k \in 1 .. Len(s) : \A m \in k + 2 .. Len(q) : m \in 2 .. Len(q) /\ m - 1 \in k + 1 .. Len(s)
  BY <1>1
<1>6. ASSUME NEW i, NEW k \in 1 .. Len(s), FirstUndo(s, i, k)
      PROVE  k + 1 \in 1 .. Len(q) /\ FirstUndo(q, i, k + 1) /\ q[k + 1] = s[k]
  <2>1. k + 1 \in 1 .. Len(q) /\ q[k + 1] = s[k] /\ (k + 1) + 1 = k + 2
    BY <1>1
  <2>2. \A m \in (k + 1) + 1 .. Len(q) : q[m].inst # i
    BY <1>4, <1>5, <1>6, <2>1 DEF FirstUndo
  <2> QED
    BY <1>6, <2>1, <2>2 DEF FirstUndo
<1>7. ASSUME NEW i, NoUndo(s, i), x.inst = i
      PROVE  FirstUndo(q, i, 1)
  <2>1. \A m \in 1 + 1 .. Len(q) : m \in 2 .. Len(q)
    BY <1>1
  <2> QED
    BY <1>1, <1>2, <1>4, <1>7, <2>1 DEF FirstUndo, NoUndo
<1>8. ASSUME NEW i
      PROVE  NoUndo(q, i) <=> NoUndo(s, i) /\ x.inst # i
  <2>1. ASSUME NoUndo(q, i)
        PROVE  NoUndo(s, i) /\ x.inst # i
    <3>1. 1 \in 1 .. Len(q) /\ \A k \in 1 .. Len(s) : k + 1 \in 1 .. Len(q)
      BY <1>1
    <3> QED
      BY <1>1, <2>1, <3>1 DEF NoUndo
  <2>2. ASSUME NoUndo(s, i), x.inst # i
        PROVE  NoUndo(q, i)
    BY <1>1, <1>2, <1>3, <1>4, <2>2 DEF NoUndo
  <2> QED
    BY <2>1, <2>2
<1>9. \A k \in 1 .. Len(q) : q[k] = x \/ \E m \in 1 .. Len(s) : q[k] = s[m]
  BY <1>1, <1>2, <1>3, <1>4
<1>10. 1 \in 1 .. Len(q)
  BY <1>1
<1> QED
  BY <1>1, <1>6, <1>7, <1>8, <1>9, <1>10 DEF q

(* ... and when one has been carried out. *)
LEMMA UndoPopped ==
  ASSUME NEW T, NEW s \in Seq(T), s # << >>
  PROVE  LET q == Tail(s)
         IN  /\ \A i : \A k \in 1 .. Len(s) : FirstUndo(s, i, k) /\ k # 1 =>
                   k - 1 \in 1 .. Len(q) /\ FirstUndo(q, i, k - 1) /\ q[k - 1] = s[k]
             /\ 1 \in 1 .. Len(s) /\ s[1] = Head(s)
             /\ \A i : FirstUndo(s, i, 1) => NoUndo(q, i) /\ Head(s).inst = i
             /\ \A i : NoUndo(s, i) => NoUndo(q, i) /\ Head(s).inst # i
             /\ \A k \in 1 .. Len(q) : \E m \in 1 .. Len(s) : q[k] = s[m]
<1> DEFINE q == Tail(s)
<1>1. /\ Len(s) \in Nat /\ Len(s) # 0 /\ Len(q) = Len(s) - 1 /\ Head(s) = s[1]
      /\ \A k \in 1 .. Len(s) - 1 : q[k] = s[k + 1]
  OBVIOUS
<1> HIDE DEF q
<1>2. \A k \in 1 .. Len(s) : k # 1 => k - 1 \in 1 .. Len(q) /\ (k - 1) + 1 = k
  BY <1>1
<1>3. \A k \in 1 .. Len(q) : k + 1 \in 1 .. Len(s) /\ q[k] = s[k + 1] /\ k + 1 \in 1 + 1 .. Len(s)
  BY <1>1
<1>4. 1 \in 1 .. Len(s)
  BY <1>1
<1>5. ASSUME NEW i, NEW k \in 1 .. Len(s), FirstUndo(s, i, k), k # 1
      PROVE  k - 1 \in 1 .. Len(q) /\ FirstUndo(q, i, k - 1) /\ q[k - 1] = s[k]
  <2>1. k - 1 \in 1 .. Len(q) /\ (k - 1) + 1 = k /\ q[k - 1] = s[k]
    BY <1>2, <1>3, <1>5
  <2>2. \A m \in (k - 1) + 1 .. Len(q) : m \in 1 .. Len(q) /\ m + 1 \in k + 1 .. Len(s)
    BY <1>1, <2>1
  <2>3. \A m \in (k - 1) + 1 .. Len(q) : q[m].inst # i
    BY <1>3, <1>5, <2>2 DEF FirstUndo
  <2> QED
    BY <1>5, <2>1, <2>3 DEF FirstUndo
<1>6. ASSUME NEW i, FirstUndo(s, i, 1)
      PROVE  NoUndo(q, i) /\ Head(s).inst = i
  BY <1>1, <1>3, <1>6 DEF FirstUndo, NoUndo
<1>7. ASSUME NEW i, NoUndo(s, i)
      PROVE  NoUndo(q, i) /\ Head(s).inst # i
  BY <1>1, <1>3, <1>4, <1>7 DEF NoUndo
<1> QED
  BY <1>1, <1>3, <1>4, <1>5, <1>6, <1>7 DEF q

(* The state that is owed, after a step. *)
LEMMA IdealNext ==
  ASSUME LogTypes, Len(log') \in Nat
  PROVE  /\ Settle \/ NothingNew => Ideal' = Ideal
         /\ log' = log /\ owed' = owed => Ideal' = Ideal
         /\ Acknowledge => Ideal' = Db'
         /\ (Acknowledge \/ NothingNew) /\ Len(log') = Len(log) + 1
              => \A n \in 0 .. Len(log) : owed'[n] = owed[n]
<1>1. Len(log') \in 0 .. Len(log') /\ ~(Len(log') < Len(log'))
  OBVIOUS
<1>2. Settle \/ NothingNew => Ideal' = Ideal
  <2>1. PICK d : d = Ideal
    OBVIOUS
  <2>2. Settle \/ NothingNew => owed'[Len(log')] = d
    BY <1>1, <2>1 DEF Settle, NothingNew
  <2> QED
    BY <2>1, <2>2 DEF Ideal
<1>3. Acknowledge => Ideal' = Db'
  <2>1. PICK d : d = Db'
    OBVIOUS
  <2>2. Acknowledge => owed'[Len(log')] = d
    BY <1>1, <2>1 DEF Acknowledge
  <2> QED
    BY <2>1, <2>2 DEF Ideal
<1>4. ASSUME Acknowledge \/ NothingNew, Len(log') = Len(log) + 1, NEW n \in 0 .. Len(log)
      PROVE  owed'[n] = owed[n]
  <2>1. n \in 0 .. Len(log') /\ n < Len(log')
    BY <1>4 DEF LogTypes
  <2> QED
    BY <1>4, <2>1 DEF Acknowledge, NothingNew
<1>5. log' = log /\ owed' = owed => Ideal' = Ideal
  BY DEF Ideal
<1> QED
  BY <1>2, <1>3, <1>4, <1>5

(* A command that no cause spoils: it is logged at the end of the log. *)
IsLogged(i, list, e) ==
    /\ IsCommand(i, list, e) /\ txPhase = "idle" /\ ~OpenBlock /\ causes = {}
    /\ log' = Append(log, e) /\ durable' = durable /\ txBuffer' = txBuffer /\ NoteLogged(e)
    /\ ~IsMarker(e) /\ e.inst = i

(* While nothing has gone wrong, a command outside a transaction is logged *)
(* at the end of the log.                                                  *)
LEMMA CleanCommand ==
  ASSUME LockInvariant, Typed, Commands, causes' = {}
  PROVE  \E i \in Instance, list \in Seq(Value), e \in LinesOf(created') : IsLogged(i, list, e)
<1>1. PICK i \in Instance, list \in Seq(Value), e \in LinesOf(created') : IsCommand(i, list, e)
  BY CommandSteps DEF Typed
<1>2. causes = {} /\ Log(e) /\ (active \/ ~OpenBlock)
  BY <1>1 DEF IsCommand
<1>3. ~IsMarker(e) /\ e.inst = i
  BY <1>1 DEF IsCommand, Command, IsMarker
<1>4. ~active /\ txPhase = "idle"
  <2>1. CASE data' = data /\ held' = held
    <3>1. ~active \/ \E c \in Client : held[c] # NoInstance
      BY <1>1 DEF IsCommand
    <3> QED
      BY <3>1 DEF LockInvariant
  <2>2. CASE ~(data' = data /\ held' = held)
    <3>1. \E c \in Client : held[c] # NoInstance
      BY <1>1, <2>2 DEF IsCommand
    <3> QED
      BY <3>1 DEF LockInvariant
  <2> QED
    BY <2>1, <2>2
<1>5. log' = Append(log, e) /\ durable' = durable /\ txBuffer' = txBuffer /\ NoteLogged(e)
  BY <1>2, <1>4 DEF Log, DL!Accept
<1> QED
  BY <1>1, <1>2, <1>3, <1>4, <1>5 DEF IsLogged

(* Between EXECs what is in memory is what is owed. *)
LEMMA IdleIsOwed ==
  ASSUME MemoryTypes, LogTypes, UndoneIsOwed, txPhase = "idle"
  PROVE  Db = Ideal
<1>1. undos = << >> /\ Len(undos) = 0 /\ live = DOMAIN Ideal
  BY DEF UndoneIsOwed
<1>2. \A i \in live : data[i] = Ideal[i]
  BY <1>1 DEF UndoneIsOwed
<1>3. Db \in DbsOf(created) /\ Ideal \in DbsOf(created) /\ DOMAIN Db = live /\ \A i \in live : Db[i] = data[i]
  BY DbType, IdealType
<1> QED
  BY <1>1, <1>2, <1>3, SameDb

(* Its line makes the new state from the one that is owed. *)
LEMMA CommandMakes ==
  ASSUME MemoryTypes, MemoryTypes', LogTypes, UndoneIsOwed, causes' = {},
         NEW i \in Instance, NEW list \in Seq(Value), NEW e, IsLogged(i, list, e)
  PROVE  Makes(Ideal, e, Db')
<1>1. Db = Ideal
  BY IdleIsOwed DEF IsLogged
<1>2. Db \in DbsOf(created) /\ DOMAIN Db = live /\ \A j \in live : Db[j] = data[j]
  BY DbType
<1>3. created \subseteq created' /\ live' \subseteq created'
  BY DEF IsLogged, IsCommand, MemoryTypes
<1>4. Db' = [j \in live' |-> data'[j]]
  BY DEF Db
<1>5. Db' \in DbsOf(created')
  <2>1. Db' \in [live' -> Seq(Value)]
    BY <1>3, <1>4 DEF MemoryTypes
  <2> QED
    BY <1>3, <2>1, DbsOfIs
<1>6. Db \in DbsOf(created')
  BY <1>2, <1>3, MoreInstances
<1>7. PICK C, a, b :
         /\ C = created' /\ a = Db /\ b = Db'
         /\ a \in DbsOf(C) /\ b \in DbsOf(C) /\ DOMAIN a = live /\ DOMAIN b = live'
         /\ (\A j \in live : a[j] = data[j]) /\ (\A j \in live' : b[j] = data'[j])
  BY <1>2, <1>4, <1>5, <1>6
<1>8. CASE e = Command("CREATE_INSTANCE", i, NoInstance) /\ live' = live \cup {i} /\ data' = data
           /\ i \notin created /\ created' = created \cup {i}
  <2>1. i \in C /\ << >> \in Seq(Value) /\ data[i] = << >> /\ i \notin live
    BY <1>7, <1>8 DEF MemoryTypes
  <2> DEFINE d == With(a, i, << >>)
  <2>2. d \in DbsOf(C) /\ Sets(d, a, i, << >>)
    BY <1>7, <2>1, WithType
  <2> HIDE DEF d
  <2>3. b = d
    <3>1. \A j \in DOMAIN b : b[j] = d[j]
      BY <1>7, <1>8, <2>1, <2>2 DEF Sets
    <3> QED
      BY <1>7, <1>8, <2>2, <3>1, SameDb DEF Sets
  <2>4. Makes(a, e, d)
    BY <1>8, ReplayMakes DEF d
  <2> QED
    BY <1>1, <1>7, <2>3, <2>4
<1>9. CASE e = Command("DELETE_INSTANCE", i, NoInstance) /\ i \in live /\ live' = live \ {i} /\ data' = data
  <2> DEFINE d == Without(a, i)
  <2>2. d \in DbsOf(C) /\ Drops(d, a, i)
    BY <1>7, WithoutType
  <2>4. Makes(a, e, d)
    BY <1>7, <1>9, ReplayMakes
  <2> HIDE DEF d
  <2>3. b = d
    <3>1. \A j \in DOMAIN b : b[j] = d[j]
      BY <1>7, <1>9, <2>2 DEF Drops
    <3> QED
      BY <1>7, <1>9, <2>2, <3>1, SameDb DEF Drops
  <2> QED
    BY <1>1, <1>7, <2>3, <2>4
<1>10. CASE i \in live /\ data' = [data EXCEPT ![i] = list] /\ live' = live
            /\ Makes(a, e, With(a, i, list))
  <2> DEFINE d == With(a, i, list)
  <2>1. i \in C /\ i \in Instance
    BY <1>3, <1>7, <1>10
  <2>2. d \in DbsOf(C) /\ Sets(d, a, i, list)
    BY <1>7, <1>10, <2>1, WithType
  <2> HIDE DEF d
  <2>3. b = d
    <3>1. data'[i] = list /\ \A j \in live : j # i => data'[j] = data[j]
      BY <1>10 DEF MemoryTypes
    <3>2. \A j \in DOMAIN b : b[j] = d[j]
      BY <1>7, <1>10, <2>2, <3>1 DEF Sets
    <3> QED
      BY <1>7, <1>10, <2>2, <3>2, SameDb DEF Sets
  <2> QED
    BY <1>1, <1>7, <1>10, <2>3 DEF d
<1>11. CASE i \in live /\ data' = [data EXCEPT ![i] = list] /\ live' = live
            /\ \/ \E v \in Value : e = Command("RPUSH", i, v) /\ list = Append(data[i], v)
               \/ e = Command("LPOP", i, NoInstance) /\ data[i] # << >> /\ list = Tail(data[i])
  <2>1. i \in DOMAIN a /\ a[i] = data[i]
    BY <1>7, <1>11
  <2>2. Makes(a, e, With(a, i, list))
    BY <1>11, <2>1, ReplayMakes
  <2> QED
    BY <1>10, <1>11, <2>2
<1> QED
  BY <1>8, <1>9, <1>11 DEF IsLogged, IsCommand

-----------------------------------------------------------------------------
(* The undo stack keeps leading back to what is owed. *)
LEMMA UndoneKept ==
  ASSUME UndoneIsOwed, live' = live, data' = data, undos' = undos, Ideal' = Ideal,
         txPhase' = "idle" => txPhase = "idle"
  PROVE  UndoneIsOwed'
BY DEF UndoneIsOwed

(* Work has been acknowledged: there is nothing to undo. *)
LEMMA UndoneAnew ==
  ASSUME undos' = << >>, Ideal' = Db'
  PROVE  UndoneIsOwed'
<1>1. Len(<< >>) = 0 /\ \A k \in 1 .. 0 : FALSE
  OBVIOUS
<1>2. Ideal' = [i \in live' |-> data'[i]]
  BY DEF Db
<1>3. live' = DOMAIN Ideal' /\ \A i \in live' : data'[i] = Ideal'[i]
  BY <1>2
<1>4. \A i : NoUndo(undos', i)
  BY <1>1 DEF NoUndo
<1>5. \A k \in 1 .. Len(undos') : undos'[k].inst \in live'
  BY <1>1
<1> QED
  BY <1>3, <1>4, <1>5 DEF UndoneIsOwed

(* A command of an EXEC pushes the undo that leads back from it. *)
LEMMA UndoneTxCommand ==
  ASSUME Typed, UndoneIsOwed, NEW i \in live, NEW list, NEW e, IsTxCommand(i, list, e), Ideal' = Ideal
  PROVE  UndoneIsOwed'
<1> DEFINE x == [inst |-> i, list |-> data[i]]
           s == undos
           q == << x >> \o s
<1>1. /\ undos' = q /\ data' = [data EXCEPT ![i] = list] /\ live' = live /\ txPhase' = "exec"
  BY DEF IsTxCommand, TxCommand
<1>2. s \in Seq(Undo(created)) /\ x \in Undo(created) /\ x.inst = i /\ x.list = data[i]
  BY DEF Typed, ExecTypes, MemoryTypes, Undo
<1> HIDE DEF x
<1>3. /\ \A j : \A k \in 1 .. Len(s) : FirstUndo(s, j, k) =>
              k + 1 \in 1 .. Len(q) /\ FirstUndo(q, j, k + 1) /\ q[k + 1] = s[k]
      /\ 1 \in 1 .. Len(q) /\ q[1] = x
      /\ \A j : NoUndo(s, j) /\ x.inst = j => FirstUndo(q, j, 1)
      /\ \A j : NoUndo(q, j) <=> NoUndo(s, j) /\ x.inst # j
      /\ \A k \in 1 .. Len(q) : q[k] = x \/ \E m \in 1 .. Len(s) : q[k] = s[m]
  BY <1>2, UndoPushed
<1> HIDE DEF q
<1>4. \A j \in live : j # i => data'[j] = data[j]
  BY <1>1 DEF Typed, MemoryTypes
<1>5. \A k \in 1 .. Len(q) : q[k].inst \in live
  BY <1>2, <1>3 DEF UndoneIsOwed
<1>6. ASSUME NEW j \in live
      PROVE  \/ \E k \in 1 .. Len(q) : FirstUndo(q, j, k) /\ q[k].list = Ideal[j]
             \/ NoUndo(q, j) /\ data'[j] = Ideal[j]
  <2>1. CASE \E k \in 1 .. Len(s) : FirstUndo(s, j, k) /\ s[k].list = Ideal[j]
    <3>1. PICK k \in 1 .. Len(s) : FirstUndo(s, j, k) /\ s[k].list = Ideal[j]
      BY <2>1
    <3>2. k + 1 \in 1 .. Len(q) /\ FirstUndo(q, j, k + 1) /\ q[k + 1] = s[k]
      BY <1>3, <3>1
    <3> QED
      BY <3>1, <3>2
  <2>2. CASE NoUndo(s, j) /\ data[j] = Ideal[j] /\ j = i
    <3>1. FirstUndo(q, j, 1) /\ q[1].list = Ideal[j] /\ 1 \in 1 .. Len(q)
      BY <1>2, <1>3, <2>2
    <3> QED
      BY <3>1
  <2>3. CASE NoUndo(s, j) /\ data[j] = Ideal[j] /\ j # i
    BY <1>2, <1>3, <1>4, <2>3
  <2> QED
    BY <2>1, <2>2, <2>3 DEF UndoneIsOwed
<1>7. live' = DOMAIN Ideal'
  BY <1>1 DEF UndoneIsOwed
<1> QED
  BY <1>1, <1>5, <1>6, <1>7 DEF UndoneIsOwed

(* An undo that is carried out leads back to what was owed. *)
LEMMA UndoneTxUndo ==
  ASSUME Typed, UndoneIsOwed, TxUndo, Ideal' = Ideal
  PROVE  UndoneIsOwed'
<1> DEFINE s == undos
           q == Tail(s)
<1>1. /\ s # << >> /\ undos' = q /\ live' = live /\ txPhase' = "rollback"
      /\ data' = [data EXCEPT ![Head(s).inst] = Head(s).list]
  BY DEF TxUndo
<1>2. s \in Seq(Undo(created))
  BY DEF Typed, ExecTypes
<1>3. /\ \A i : \A k \in 1 .. Len(s) : FirstUndo(s, i, k) /\ k # 1 =>
             k - 1 \in 1 .. Len(q) /\ FirstUndo(q, i, k - 1) /\ q[k - 1] = s[k]
      /\ 1 \in 1 .. Len(s) /\ s[1] = Head(s)
      /\ \A i : FirstUndo(s, i, 1) => NoUndo(q, i) /\ Head(s).inst = i
      /\ \A i : NoUndo(s, i) => NoUndo(q, i) /\ Head(s).inst # i
      /\ \A k \in 1 .. Len(q) : \E m \in 1 .. Len(s) : q[k] = s[m]
  BY <1>1, <1>2, UndoPopped
<1>4. Head(s).inst \in live
  BY <1>3 DEF UndoneIsOwed
<1>5. /\ data'[Head(s).inst] = Head(s).list
      /\ \A i \in live : i # Head(s).inst => data'[i] = data[i]
  BY <1>1, <1>4 DEF Typed, MemoryTypes
<1> HIDE DEF q
<1>6. \A k \in 1 .. Len(q) : q[k].inst \in live
  BY <1>3 DEF UndoneIsOwed
<1>7. ASSUME NEW i \in live
      PROVE  \/ \E k \in 1 .. Len(q) : FirstUndo(q, i, k) /\ q[k].list = Ideal[i]
             \/ NoUndo(q, i) /\ data'[i] = Ideal[i]
  <2>1. CASE \E k \in 1 .. Len(s) : FirstUndo(s, i, k) /\ s[k].list = Ideal[i] /\ k # 1
    <3>1. PICK k \in 1 .. Len(s) : FirstUndo(s, i, k) /\ s[k].list = Ideal[i] /\ k # 1
      BY <2>1
    <3>2. k - 1 \in 1 .. Len(q) /\ FirstUndo(q, i, k - 1) /\ q[k - 1] = s[k]
      BY <1>3, <3>1
    <3> QED
      BY <3>1, <3>2
  <2>2. CASE FirstUndo(s, i, 1) /\ s[1].list = Ideal[i]
    BY <1>3, <1>5, <2>2
  <2>3. CASE NoUndo(s, i) /\ data[i] = Ideal[i]
    BY <1>3, <1>5, <2>3
  <2> QED
    BY <2>1, <2>2, <2>3 DEF UndoneIsOwed
<1>8. live' = DOMAIN Ideal'
  BY <1>1 DEF UndoneIsOwed
<1> QED
  BY <1>1, <1>6, <1>7, <1>8 DEF UndoneIsOwed

(* What a snapshot's last step leaves of the log: all, nothing or a prefix. *)
LEMMA SettledLog ==
  ASSUME LogTypes, SnapshotRename \/ SnapshotTruncate \/ Flush
  PROVE  Settle /\ log' \in Seq(LinesOf(created)) /\ Len(log') \in Nat
<1>1. Settle
  BY DEF SnapshotRename, SnapshotTruncate, Flush
<1>2. log' \in Seq(LinesOf(created))
  <2>1. log \in Seq(LinesOf(created)) /\ << >> \in Seq(LinesOf(created)) /\ durable \in 0 .. Len(log)
    BY DEF LogTypes
  <2>2. \A n \in durable .. Len(log) : SubSeq(log, 1, n) \in Seq(LinesOf(created))
    BY <2>1, PrefixType
  <2>3. log' = log \/ log' = << >> \/ \E n \in durable .. Len(log) : log' = SubSeq(log, 1, n)
    BY DEF SnapshotRename, SnapshotTruncate, Flush, wal, DL!Truncate, DL!LoseTail, DL!Persist
  <2> QED
    BY <2>1, <2>2, <2>3
<1> QED
  BY <1>1, <1>2

(* A crash that no cause spoils restores what was owed. *)
CrashRestores(n, r) == r.ok /\ r.db = owed[n]

(* While nothing has gone wrong, a restart restores what was owed for the  *)
(* lines it has kept.                                                      *)
LEMMA CleanCrash ==
  ASSUME Typed, Exact, Crash, causes' = {}, NEW n, NEW r, IsCrash(n, r)
  PROVE  CrashRestores(n, r) /\ owed'[n] = owed[n] /\ Len(log') = n /\ (snapPhase = "saved" => n = 0)
<1>1. /\ Len(log') = n /\ n \in durable .. Len(log) /\ n \in Nat
      /\ log' = SubSeq(log, 1, n) /\ r = Restore(snapshot, log')
  BY CrashType DEF IsCrash, Typed
<1>2. owed'[n] = owed[n]
  <2>1. n \in 0 .. Len(log')
    BY <1>1
  <2> QED
    BY <2>1 DEF IsCrash
<1>3. CASE snapPhase # "saved"
  <2>1. RestoresTo(snapshot, SubSeq(log, 1, n), owed[n])
    BY <1>1, <1>3 DEF Exact, PrefixesRestore
  <2> QED
    BY <1>1, <1>2, <1>3, <2>1 DEF RestoresTo, CrashRestores
<1>4. CASE snapPhase = "saved"
  <2>1. log' = << >> /\ ~missed
    BY <1>4 DEF Crash, Cause
  <2>2. n = 0 /\ snapshot = owed[0]
    BY <1>1, <1>4, <2>1 DEF Exact, SavedIsOwed
  <2>3. r = Start(snapshot)
    BY <1>1, <2>1, RestoreNothing DEF Restore, Typed, SavingTypes
  <2> QED
    BY <1>1, <1>2, <1>4, <2>2, <2>3 DEF Start, CrashRestores
<1> QED
  BY <1>3, <1>4

(* Every step keeps the undo stack leading back to what is owed. *)
LEMMA UndoneNext ==
  ASSUME LockInvariant, Typed, Exact, Next, causes' = {}, causes = {}
  PROVE  UndoneIsOwed'
<1> MemoryTypes /\ LogTypes /\ LogTypes' /\ UndoneIsOwed
  BY LogNextTypes DEF Typed, Exact
<1>0. Len(log') \in Nat
  BY DEF LogTypes
<1>1. CASE Commands
  <2>1. PICK i \in Instance, list \in Seq(Value), e \in LinesOf(created') : IsLogged(i, list, e)
    BY <1>1, CleanCommand
  <2>2. undos' = undos /\ undos = << >> /\ Acknowledge
    BY <2>1 DEF IsLogged, IsCommand, exec, UndoneIsOwed
  <2> QED
    BY <1>0, <2>2, IdealNext, UndoneAnew
<1>2. CASE TxCommands
  <2>1. PICK i \in live, list \in Seq(Value), e \in LinesOf(created) : IsTxCommand(i, list, e)
    BY <1>2, TxCommandSteps
  <2>2. active /\ Log(e) /\ owed' = owed
    BY <2>1 DEF IsTxCommand, TxCommand, LockInvariant
  <2>3. log' = log
    BY <2>2 DEF Log, wal
  <2> QED
    BY <1>0, <2>1, <2>2, <2>3, IdealNext, UndoneTxCommand
<1>3. CASE TxUndo
  <2>1. log' = log /\ owed' = owed
    BY <1>3 DEF TxUndo, wal, ghosts
  <2> QED
    BY <1>0, <1>3, <2>1, IdealNext, UndoneTxUndo
<1>4. CASE FlushCommit
  BY <1>0, <1>4, IdealNext, UndoneAnew DEF FlushCommit
<1>5. CASE Crash
  <2>1. PICK n, r : IsCrash(n, r)
    BY <1>5, CrashSteps
  <2>2. CrashRestores(n, r) /\ owed'[n] = owed[n] /\ Len(log') = n
    BY <1>5, <2>1, CleanCrash
  <2>3. Ideal' = owed[n]
    BY <2>2 DEF Ideal
  <2>4. live' = DOMAIN r.db /\ live' \subseteq Instance /\ data' = [i \in Instance |-> IF i \in live' THEN r.db[i] ELSE << >>]
    <3>1. DOMAIN r.db \subseteq created /\ created \subseteq Instance
      BY <2>1, CrashType DEF MemoryTypes, Typed
    <3> QED
      BY <2>1, <2>2, <3>1 DEF IsCrash, CrashRestores
  <2>5. undos' = << >>
    BY <1>5 DEF Crash
  <2>6. Ideal' = Db'
    <3>1. r.db \in [live' -> Seq(Value)]
      BY <2>1, <2>4, CrashType DEF Typed
    <3>2. \A i \in live' : data'[i] = r.db[i]
      BY <2>4
    <3>3. r.db = [i \in live' |-> data'[i]]
      BY <3>1, <3>2
    <3> QED
      BY <2>2, <2>3, <3>3 DEF Db, CrashRestores
  <2> QED
    BY <2>5, <2>6, UndoneAnew
<1>6. CASE SnapshotRename \/ SnapshotTruncate \/ Flush
  <2>1. live' = live /\ data' = data /\ undos' = undos /\ txPhase' = txPhase
    BY <1>6 DEF SnapshotRename, SnapshotTruncate, Flush, memory, exec
  <2> QED
    BY <1>0, <1>6, <2>1, SettledLog, IdealNext, UndoneKept
<1>7. CASE FlushLine
  <2>1. live' = live /\ data' = data /\ undos' = undos /\ txPhase' = txPhase /\ NothingNew
    BY <1>7 DEF FlushLine, memory, exec
  <2> QED
    BY <1>0, <2>1, IdealNext, UndoneKept
<1>8. CASE RollbackTx
  <2>1. undos' = undos /\ undos = << >> /\ live' = live /\ data' = data /\ log' = log /\ owed' = owed
    BY <1>8 DEF RollbackTx, memory, wal, ghosts
  <2>2. Ideal' = Ideal
    BY <1>0, <2>1, IdealNext
  <2> QED
    BY <2>1, <2>2 DEF UndoneIsOwed
<1>9. CASE Looking \/ BeginTx \/ TxFails \/ CommitTx \/ SnapshotBegin \/ SnapshotFails
           \/ \E i \in Instance : SnapshotCopy(i)
  <2>1. /\ live' = live /\ data' = data /\ undos' = undos /\ log' = log /\ owed' = owed
        /\ txPhase' = "idle" => txPhase = "idle"
    BY <1>9 DEF Looking, LookUp, LeftPopEmpty, BeginTx, TxFails, CommitTx, SnapshotBegin, SnapshotFails,
                SnapshotCopy, memory, wal, exec, ghosts
  <2> QED
    BY <1>0, <2>1, IdealNext, UndoneKept
<1> QED
  BY <1>1, <1>2, <1>3, <1>4, <1>5, <1>6, <1>7, <1>8, <1>9, Steps DEF Saving

-----------------------------------------------------------------------------
(* The line of the block that is flushed next. *)
LineToFlush == CASE Flushed = 0 -> Marker("TX_BEGIN", txs)
                 [] Flushed = Len(txBuffer) + 1 -> Marker("TX_COMMIT", txs)
                 [] OTHER -> txBuffer[Flushed]

(* The line that a commit flushes next is the one after those it has       *)
(* flushed.                                                                *)
LEMMA FlushSteps ==
  ASSUME Typed, RestOfBlock, FlushLine \/ FlushCommit
  PROVE  /\ txs \in 1 .. MaxTxs /\ Len(txBuffer) \in Nat /\ Flushed \in Nat
         /\ Head(toFlush) = LineToFlush /\ LineToFlush \in LinesOf(created)
         /\ log' = Append(log, LineToFlush) /\ durable' = durable /\ txPhase = "commit"
         /\ FlushLine => Flushed <= Len(txBuffer) /\ Flushed' = Flushed + 1
         /\ FlushCommit => Flushed = Len(txBuffer) + 1
<1>1. /\ txPhase = "commit" /\ toFlush \in Seq(LinesOf(created)) /\ txBuffer \in Seq(LinesOf(created))
      /\ txs \in Nat /\ txs # 0 /\ txs \in 0 .. MaxTxs
  BY DEF FlushLine, FlushCommit, Typed, ExecTypes, CountTypes
<1>2. Len(txBuffer) \in Nat /\ Len(toFlush) \in Nat /\ txs \in 1 .. MaxTxs
  BY <1>1
<1>3. Flushed \in 0 .. Len(txBuffer) + 1 /\ \A k \in 1 .. Len(toFlush) : toFlush[k] = Block[Flushed + k]
  BY <1>1 DEF RestOfBlock
<1>4. Len(toFlush) >= 1 /\ (FlushLine => Len(toFlush) > 1) /\ (FlushCommit => Len(toFlush) = 1)
  BY <1>1, <1>2 DEF FlushLine, FlushCommit
<1>5. Head(toFlush) = toFlush[1] /\ toFlush # << >>
  BY <1>1, <1>4
<1>6. Head(toFlush) = Block[Flushed + 1] /\ Head(toFlush) \in LinesOf(created)
  <2>1. 1 \in 1 .. Len(toFlush)
    BY <1>2, <1>4
  <2> QED
    BY <1>1, <1>3, <1>5, <2>1
<1>7. /\ Block[1] = Marker("TX_BEGIN", txs) /\ Block[Len(txBuffer) + 2] = Marker("TX_COMMIT", txs)
      /\ \A k \in 1 .. Len(txBuffer) : Block[k + 1] = txBuffer[k]
  BY <1>1, <1>2, BlockType, MarkersType DEF Block
<1>8. Head(toFlush) = LineToFlush
  <2>1. CASE Flushed = 0
    BY <1>6, <1>7, <2>1 DEF LineToFlush
  <2>2. CASE Flushed = Len(txBuffer) + 1
    <3>1. Flushed # 0 /\ Flushed + 1 = Len(txBuffer) + 2
      BY <1>2, <2>2
    <3> QED
      BY <1>6, <1>7, <2>2, <3>1 DEF LineToFlush
  <2>3. CASE Flushed # 0 /\ Flushed # Len(txBuffer) + 1
    <3>1. Flushed \in 1 .. Len(txBuffer)
      BY <1>2, <1>3, <2>3
    <3> QED
      BY <1>6, <1>7, <2>3, <3>1 DEF LineToFlush
  <2> QED
    BY <2>1, <2>2, <2>3
<1>9. log' = Append(log, LineToFlush) /\ durable' = durable
  BY <1>8 DEF FlushLine, FlushCommit, DL!Accept
<1>10. ASSUME FlushLine
       PROVE  Flushed <= Len(txBuffer) /\ Flushed' = Flushed + 1
  <2>1. toFlush' = Tail(toFlush) /\ txBuffer' = txBuffer
    BY <1>10 DEF FlushLine
  <2>2. Len(Tail(toFlush)) = Len(toFlush) - 1
    BY <1>1, <1>5
  <2> QED
    <3>1. Flushed = Len(txBuffer) + 2 - Len(toFlush)
      BY DEF Flushed
    <3>2. Flushed' = Len(txBuffer) + 2 - (Len(toFlush) - 1)
      <4>1. Flushed' = Len(txBuffer') + 2 - Len(toFlush')
        BY DEF Flushed
      <4> QED
        BY <2>1, <2>2, <4>1
    <3> QED
      BY <1>2, <1>4, <1>10, <3>1, <3>2
<1>11. FlushCommit => Flushed = Len(txBuffer) + 1
  BY <1>2, <1>4 DEF Flushed
<1> QED
  BY <1>1, <1>2, <1>3, <1>6, <1>8, <1>9, <1>10, <1>11

(* Every step leaves the rest of the block to flush. *)
LEMMA RestOfBlockNext ==
  ASSUME LockInvariant, Typed, RestOfBlock, Next
  PROVE  RestOfBlock'
<1>1. CASE CommitTx
  <2>1. toFlush' = Block /\ txBuffer' = txBuffer /\ txs' = txs /\ txPhase' = "commit" /\ txPhase = "exec"
    BY <1>1 DEF CommitTx, Block, bounds
  <2>2. txBuffer \in Seq(LinesOf(created)) /\ txs \in 1 .. MaxTxs
    BY <2>1 DEF Typed, ExecTypes, CountTypes
  <2>3. Len(Block) = Len(txBuffer) + 2 /\ Len(txBuffer) \in Nat
    BY <2>2, BlockType, MarkersType DEF Block
  <2>4. Block' = Block
    BY <2>1 DEF Block
  <2>5. Flushed' = 0 /\ 0 \in 0 .. Len(txBuffer) + 1
    BY <2>1, <2>3 DEF Flushed
  <2>6. \A k \in 1 .. Len(toFlush') : 0 + k = k
    BY <2>1, <2>3
  <2> QED
    BY <2>1, <2>4, <2>5, <2>6 DEF RestOfBlock
<1>2. CASE FlushLine
  <2>1. toFlush' = Tail(toFlush) /\ txBuffer' = txBuffer /\ txs' = txs /\ txPhase = "commit"
    BY <1>2 DEF FlushLine, bounds
  <2>2. Flushed \in Nat /\ Len(txBuffer) \in Nat /\ Flushed <= Len(txBuffer) /\ Flushed' = Flushed + 1
    BY <1>2, FlushSteps
  <2>3. Block' = Block
    BY <2>1 DEF Block
  <2>4. toFlush \in Seq(LinesOf(created)) /\ Len(toFlush) > 1
    BY <1>2 DEF FlushLine, Typed, ExecTypes
  <2>5. /\ Len(toFlush') = Len(toFlush) - 1 /\ Len(toFlush) \in Nat
        /\ \A k \in 1 .. Len(toFlush) - 1 : toFlush'[k] = toFlush[k + 1] /\ k + 1 \in 1 .. Len(toFlush)
    BY <2>1, <2>4
  <2>6. ASSUME NEW k \in 1 .. Len(toFlush')
        PROVE  toFlush'[k] = Block[(Flushed + 1) + k]
    <3>1. k + 1 \in 1 .. Len(toFlush) /\ toFlush'[k] = toFlush[k + 1] /\ Flushed + (k + 1) = (Flushed + 1) + k
      BY <2>2, <2>5
    <3> QED
      BY <2>1, <3>1 DEF RestOfBlock
  <2>7. Flushed + 1 \in 0 .. Len(txBuffer) + 1
    BY <2>2
  <2> QED
    BY <2>1, <2>2, <2>3, <2>6, <2>7 DEF RestOfBlock
<1>3. CASE TxCommands
  BY <1>3 DEF TxCommands, TxRightPush, TxLeftPop, TxCommand, RestOfBlock
<1>4. CASE Commands
  <2>1. PICK i \in Instance, list \in Seq(Value), e \in LinesOf(created') : IsCommand(i, list, e)
    BY <1>4, CommandSteps DEF Typed
  <2>2. txPhase # "commit" /\ txPhase' = txPhase
    BY <2>1, LogKeepsBlock DEF IsCommand, exec
  <2> QED
    BY <2>2 DEF RestOfBlock
<1>5. CASE BeginTx \/ TxFails \/ TxUndo \/ RollbackTx \/ FlushCommit \/ Crash
  <2>1. txPhase' # "commit"
    BY <1>5 DEF BeginTx, TxFails, TxUndo, RollbackTx, FlushCommit, Crash
  <2> QED
    BY <2>1 DEF RestOfBlock
<1>6. CASE Looking \/ Saving \/ Flush
  <2>1. UNCHANGED <<txPhase, txBuffer, toFlush, txs>>
    BY <1>6 DEF Looking, LookUp, LeftPopEmpty, Saving, SnapshotBegin, SnapshotRename, SnapshotFails,
                SnapshotTruncate, SnapshotCopy, Flush, logger, exec, bounds
  <2>2. Block' = Block /\ Flushed' = Flushed
    BY <2>1 DEF Block, Flushed
  <2> QED
    BY <2>1, <2>2 DEF RestOfBlock
<1> QED
  BY <1>1, <1>2, <1>3, <1>4, <1>5, <1>6, Steps

(* Every step leaves the markers to the commit. *)
LEMMA OnlyCommandsNext ==
  ASSUME LockInvariant, Typed, OnlyCommands, Next
  PROVE  OnlyCommands'
<1>1. ASSUME NEW e, ~IsMarker(e), Log(e)
      PROVE  OnlyCommands'
  <2>1. txBuffer \in Seq(LinesOf(created))
    BY DEF Typed, ExecTypes
  <2> QED
    BY <1>1, <2>1 DEF Log, OnlyCommands
<1>2. CASE Commands
  <2>1. PICK i \in Instance, list \in Seq(Value), e \in LinesOf(created') : IsCommand(i, list, e)
    BY <1>2, CommandSteps DEF Typed
  <2> QED
    BY <1>1, <2>1 DEF IsCommand, Command, IsMarker
<1>3. CASE TxCommands
  <2>1. PICK i \in live, list \in Seq(Value), e \in LinesOf(created) : IsTxCommand(i, list, e)
    BY <1>3, TxCommandSteps DEF Typed
  <2> QED
    BY <1>1, <2>1 DEF IsTxCommand, TxCommand, Command, IsMarker
<1>4. CASE BeginTx \/ RollbackTx \/ FlushCommit \/ Crash
  <2>1. txBuffer' = << >> /\ Len(<< >>) = 0
    BY <1>4 DEF BeginTx, RollbackTx, FlushCommit, Crash
  <2> QED
    BY <2>1 DEF OnlyCommands
<1>5. CASE Looking \/ TxFails \/ TxUndo \/ CommitTx \/ FlushLine \/ Saving \/ Flush
  <2>1. txBuffer' = txBuffer
    BY <1>5 DEF Looking, LookUp, LeftPopEmpty, TxFails, TxUndo, CommitTx, FlushLine, Saving, SnapshotBegin,
                SnapshotRename, SnapshotFails, SnapshotTruncate, SnapshotCopy, Flush, logger
  <2> QED
    BY <2>1 DEF OnlyCommands
<1> QED
  BY <1>2, <1>3, <1>4, <1>5, Steps

(* Lines are added at the end of the log only, and lost from its end. *)
LEMMA MarkersKept ==
  ASSUME MarkersAreOld, txs \in Nat, txs' = txs,
         \A k \in DOMAIN log' : k \in DOMAIN log /\ log'[k] = log[k],
         txPhase' = "idle" \/ (txPhase # "idle" /\ (Flushing => Flushing'))
  PROVE  MarkersAreOld'
BY DEF MarkersAreOld

(* Every step keeps the transaction under way out of the log until it is   *)
(* flushed.                                                                *)
LEMMA MarkersNext ==
  ASSUME LockInvariant, Typed, RestOfBlock, OnlyCommands, MarkersAreOld, Next
  PROVE  MarkersAreOld'
<1>0. /\ log \in Seq(LinesOf(created)) /\ durable \in 0 .. Len(log) /\ txs \in 0 .. MaxTxs /\ MemoryTypes
      /\ LogTypes /\ SavingTypes
  BY DEF Typed, LogTypes, CountTypes
<1>1. txs \in Nat /\ \A k \in DOMAIN log : IsMarker(log[k]) => log[k].tx \in Nat
  BY <1>0 DEF LinesOf, Entry, IsMarker
<1>2. CASE Commands
  <2>1. PICK i \in Instance, list \in Seq(Value), e \in LinesOf(created') : IsCommand(i, list, e)
    BY <1>0, <1>2, CommandSteps
  <2>2. /\ ~IsMarker(e) /\ txs' = txs /\ txPhase' = txPhase /\ txPhase # "commit" /\ Log(e)
    BY <2>1, LogKeepsBlock DEF IsCommand, exec, Command, IsMarker
  <2>3. CASE log' = log
    BY <2>2, <2>3 DEF MarkersAreOld, Flushing
  <2>4. CASE log' = Append(log, e)
    <3>1. \A k \in DOMAIN log' : (k \in DOMAIN log /\ log'[k] = log[k]) \/ ~IsMarker(log'[k])
      BY <1>0, <2>2, <2>4
    <3> QED
      BY <2>2, <3>1 DEF MarkersAreOld, Flushing
  <2> QED
    BY <2>2, <2>3, <2>4 DEF Log, DL!Accept, wal
<1>3. CASE BeginTx
  <2>1. log' = log /\ txs' = txs + 1
    BY <1>3 DEF BeginTx, wal
  <2>2. \A k \in DOMAIN log' : IsMarker(log'[k]) => log'[k].tx <= txs' /\ log'[k].tx # txs'
    BY <1>1, <2>1 DEF MarkersAreOld
  <2> QED
    BY <2>2 DEF MarkersAreOld
<1>4. CASE TxCommands \/ TxFails \/ TxUndo \/ CommitTx
  <2>1. log' = log /\ txs' = txs /\ txPhase \in {"exec", "rollback"}
    BY <1>4 DEF TxCommands, TxRightPush, TxLeftPop, TxCommand, TxFails, TxUndo, CommitTx, wal, bounds,
                LockInvariant, Log
  <2> QED
    BY <2>1 DEF MarkersAreOld, Flushing
<1>5. CASE RollbackTx
  <2>1. log' = log /\ txs' = txs /\ txPhase' = "idle"
    BY <1>5 DEF RollbackTx, wal, bounds
  <2> QED
    BY <2>1 DEF MarkersAreOld
<1>6. CASE FlushLine \/ FlushCommit
  <2> DEFINE e == LineToFlush
  <2>1. /\ log' = Append(log, e) /\ e \in LinesOf(created) /\ txPhase = "commit" /\ Flushed \in Nat /\ txs' = txs
        /\ Len(txBuffer) \in Nat /\ txs \in 1 .. MaxTxs
        /\ FlushLine => Flushed <= Len(txBuffer) /\ Flushed' = Flushed + 1
        /\ FlushCommit => Flushed = Len(txBuffer) + 1
    BY <1>6, FlushSteps DEF FlushLine, FlushCommit, bounds
  <2>2. txPhase' = "idle" \/ Flushing'
    BY <1>6, <2>1 DEF FlushLine, FlushCommit, Flushing, exec
  <2>3. IsMarker(e) => e.tx = txs
    <3>1. CASE Flushed = 0 \/ Flushed = Len(txBuffer) + 1
      BY <2>1, <3>1, MarkersType DEF LineToFlush
    <3>2. CASE Flushed # 0 /\ Flushed # Len(txBuffer) + 1
      <4>1. Flushed \in 1 .. Len(txBuffer)
        BY <1>6, <2>1, <3>2
      <4> QED
        BY <3>2, <4>1 DEF LineToFlush, OnlyCommands
    <3> QED
      BY <3>1, <3>2
  <2> HIDE DEF e
  <2>4. \A k \in DOMAIN log' : (k \in DOMAIN log /\ log'[k] = log[k]) \/ log'[k] = e
    BY <1>0, <2>1
  <2>5. txs <= txs
    BY <1>1
  <2> QED
    BY <2>1, <2>2, <2>3, <2>4, <2>5 DEF MarkersAreOld
<1>7. CASE Saving \/ Flush \/ Looking
  <2>1. txs' = txs /\ txPhase' = txPhase /\ Flushing' = Flushing
    BY <1>7 DEF Saving, SnapshotBegin, SnapshotRename, SnapshotFails, SnapshotTruncate, SnapshotCopy, Flush,
                Looking, LookUp, LeftPopEmpty, bounds, exec, logger, Flushing, Flushed
  <2>2. log' = log \/ log' = << >> \/ \E n \in durable .. Len(log) : log' = SubSeq(log, 1, n)
    BY <1>7 DEF Saving, SnapshotBegin, SnapshotRename, SnapshotFails, SnapshotTruncate, SnapshotCopy, Flush,
                Looking, LookUp, LeftPopEmpty, wal, DL!Truncate, DL!LoseTail, DL!Persist
  <2>3. \A k \in DOMAIN log' : k \in DOMAIN log /\ log'[k] = log[k]
    BY <1>0, <2>2
  <2> QED
    BY <2>1, <2>3 DEF MarkersAreOld
<1>8. CASE Crash
  <2>1. PICK n, r : IsCrash(n, r)
    BY <1>8, CrashSteps
  <2>2. log' = SubSeq(log, 1, n) /\ n \in durable .. Len(log) /\ txs' = txs /\ txPhase' = "idle"
    BY <1>8, <2>1 DEF IsCrash, Crash
  <2>3. \A k \in DOMAIN log' : k \in DOMAIN log /\ log'[k] = log[k]
    BY <1>0, <2>2
  <2> QED
    BY <2>2, <2>3 DEF MarkersAreOld
<1> QED
  BY <1>2, <1>3, <1>4, <1>5, <1>6, <1>7, <1>8, Steps

-----------------------------------------------------------------------------
(* The snapshot that is saved and has missed nothing holds what is owed.   *)
LEMMA SnapshotIsOwed ==
  ASSUME Typed, Exact, snapPhase # "idle", toCopy = {}, ~missed, ~dirty
  PROVE  partial = Ideal
<1>1. /\ DOMAIN partial \cup toCopy = live /\ (\A i \in DOMAIN partial : partial[i] = Ideal[i])
      /\ live = DOMAIN Ideal
  BY DEF Exact, CopiesAreOwed, UndoneIsOwed
<1>2. partial \in DbsOf(created) /\ Ideal \in DbsOf(created)
  BY IdealType DEF Typed, SavingTypes
<1> QED
  BY <1>1, <1>2, SameDb

(* While nothing has gone wrong, the log is truncated when the snapshot    *)
(* holds all that is owed.                                                 *)
LEMMA CleanTruncate ==
  ASSUME Typed, Exact, SnapshotTruncate, causes' = {}
  PROVE  /\ ~Flushing /\ log' = << >> /\ durable' = 0 /\ Settle
         /\ snapshot = Ideal /\ snapPhase' = "idle"
<1>1. /\ snapPhase = "saved" /\ toCopy = {} /\ partial = snapshot /\ ~dirty
      /\ snapPhase' = "idle" /\ Settle /\ log \in Seq(LinesOf(created)) /\ durable \in 0 .. Len(log)
  BY DEF SnapshotTruncate, Exact, SavedIsOwed, Typed, LogTypes
<1>2. ~Flushing /\ log' = << >> /\ durable' = 0 /\ ~missed
  <2>1. CASE log' = << >> /\ durable' = 0
             /\ causes' = causes
                   \cup Cause("lostWrites", missed)
                   \cup Cause("cutBlock", txPhase = "commit" /\ Len(toFlush) < Len(txBuffer) + 2)
    <3>1. ~missed /\ ~(txPhase = "commit" /\ Len(toFlush) < Len(txBuffer) + 2)
      BY <2>1 DEF Cause
    <3>2. Len(toFlush) \in Nat /\ Len(txBuffer) \in Nat
      BY DEF Typed, ExecTypes
    <3>3. ~Flushing
      BY <3>1, <3>2 DEF Flushing, Flushed
    <3> QED
      BY <2>1, <3>1, <3>3
  <2>2. CASE durable' = durable /\ DL!LoseTail /\ causes' = causes \cup Cause("staleLog", log # << >>)
    <3>1. log = << >>
      BY <2>2 DEF Cause
    <3>2. durable = 0 /\ Len(log) = 0
      BY <1>1, <3>1
    <3>3. log' = << >>
      BY <2>2, <3>1, <3>2 DEF DL!LoseTail
    <3>4. ~missed
      BY <1>1, <3>1 DEF Exact, MissedIsLogged
    <3>5. IncompleteTxs(log) = {}
      BY <3>2 DEF IncompleteTxs, Contains
    <3>6. ~Flushing
      BY <3>5 DEF Exact, BlockIsOpen
    <3> QED
      BY <2>2, <3>2, <3>3, <3>4, <3>6
  <2> QED
    BY <2>1, <2>2 DEF SnapshotTruncate, DL!Truncate
<1>3. snapshot = Ideal
  BY <1>1, <1>2, SnapshotIsOwed
<1> QED
  BY <1>1, <1>2, <1>3

(* Recovery succeeds. *)
LEMMA NotFailedNext ==
  ASSUME Typed, Exact, Next, causes' = {}
  PROVE  ~failed'
<1>1. ~failed
  BY DEF Exact
<1>2. CASE Crash
  <2>1. PICK n, r : IsCrash(n, r)
    BY <1>2, CrashSteps
  <2>2. r.ok
    BY <1>2, <2>1, CleanCrash DEF CrashRestores
  <2> QED
    BY <2>1, <2>2 DEF IsCrash
<1>3. CASE Commands
  <2>1. PICK i \in Instance, list \in Seq(Value), e \in LinesOf(created') : IsCommand(i, list, e)
    BY <1>3, CommandSteps DEF Typed
  <2> QED
    BY <1>1, <2>1 DEF IsCommand
<1>4. CASE TxCommands \/ Looking \/ BeginTx \/ TxFails \/ TxUndo \/ RollbackTx \/ CommitTx \/ FlushLine
           \/ FlushCommit \/ Flush \/ Saving
  BY <1>1, <1>4 DEF TxCommands, TxRightPush, TxLeftPop, TxCommand, Looking, LookUp, LeftPopEmpty, BeginTx,
                TxFails, TxUndo, RollbackTx, CommitTx, FlushLine, FlushCommit, Flush, Saving, SnapshotBegin,
                SnapshotRename, SnapshotFails, SnapshotTruncate, SnapshotCopy
<1> QED
  BY <1>2, <1>3, <1>4, Steps

(* The transaction that is being flushed is incomplete. *)
LEMMA BlockIsOpenNext ==
  ASSUME LockInvariant, Typed, RestOfBlock, OnlyCommands, MarkersAreOld, Exact, Next, causes' = {}
  PROVE  BlockIsOpen'
<1> BlockIsOpen
  BY DEF Exact
<1>1. CASE FlushLine
  <2> DEFINE e == LineToFlush
  <2>1. /\ log' = Append(log, e) /\ e \in LinesOf(created) /\ txPhase = "commit" /\ Flushed \in Nat
        /\ txs' = txs /\ Len(txBuffer) \in Nat /\ txs \in 1 .. MaxTxs /\ Flushed <= Len(txBuffer)
    BY <1>1, FlushSteps DEF FlushLine, bounds
  <2>2. log \in Seq(LinesOf(created))
    BY DEF Typed, LogTypes
  <2>3. txs \in IncompleteTxs(Append(log, e))
    <3>1. CASE Flushed = 0
      <4>1. e = Marker("TX_BEGIN", txs)
        BY <3>1 DEF LineToFlush
      <4>2. Unmarked(log, txs)
        BY <2>1, <3>1 DEF MarkersAreOld, Flushing, Unmarked
      <4> QED
        BY <2>1, <2>2, <4>1, <4>2, IncompleteAppend
    <3>2. CASE Flushed # 0
      <4>1. Flushed \in 1 .. Len(txBuffer) /\ Flushed # Len(txBuffer) + 1 /\ Flushing
        BY <2>1, <3>2 DEF Flushing
      <4>2. ~IsMarker(e)
        BY <3>2, <4>1 DEF LineToFlush, OnlyCommands
      <4>3. IncompleteTxs(Append(log, e)) = IncompleteTxs(log)
        BY <2>1, <2>2, <4>2, IncompleteAppend
      <4> QED
        BY <4>1, <4>3 DEF BlockIsOpen
    <3> QED
      BY <3>1, <3>2
  <2> QED
    BY <2>1, <2>3 DEF BlockIsOpen
<1>2. CASE SnapshotTruncate
  <2>1. ~Flushing
    BY <1>2, CleanTruncate
  <2> QED
    BY <1>2, <2>1 DEF SnapshotTruncate, BlockIsOpen, Flushing, Flushed, logger, exec
<1>3. CASE Commands
  <2>1. PICK i \in Instance, list \in Seq(Value), e \in LinesOf(created') : IsLogged(i, list, e)
    BY <1>3, CleanCommand
  <2> QED
    BY <2>1 DEF IsLogged, IsCommand, exec, BlockIsOpen, Flushing
<1>4. CASE BeginTx \/ TxCommands \/ TxFails \/ TxUndo \/ RollbackTx \/ FlushCommit \/ Crash
  <2>1. txPhase' # "commit"
    BY <1>4 DEF BeginTx, TxCommands, TxRightPush, TxLeftPop, TxCommand, TxFails, TxUndo, RollbackTx,
                FlushCommit, Crash
  <2> QED
    BY <2>1 DEF BlockIsOpen, Flushing
<1>5. CASE CommitTx
  <2>1. toFlush' = Block /\ txBuffer' = txBuffer /\ txPhase = "exec"
    BY <1>5 DEF CommitTx, Block, bounds
  <2>2. txBuffer \in Seq(LinesOf(created)) /\ txs \in 1 .. MaxTxs
    BY <2>1 DEF Typed, ExecTypes, CountTypes
  <2>3. Len(Block) = Len(txBuffer) + 2 /\ Len(txBuffer) \in Nat
    BY <2>2, BlockType, MarkersType DEF Block
  <2>4. Flushed' = 0
    BY <2>1, <2>3 DEF Flushed
  <2> QED
    BY <2>4 DEF BlockIsOpen, Flushing
<1>6. CASE Looking \/ SnapshotBegin \/ SnapshotRename \/ SnapshotFails
           \/ (\E i \in Instance : SnapshotCopy(i)) \/ Flush
  <2>1. UNCHANGED <<txPhase, txBuffer, toFlush, txs, log>>
    BY <1>6 DEF Looking, LookUp, LeftPopEmpty, SnapshotBegin, SnapshotRename, SnapshotFails, SnapshotCopy,
                Flush, DL!Persist, wal, logger, exec, bounds
  <2> QED
    BY <2>1 DEF BlockIsOpen, Flushing, Flushed
<1> QED
  BY <1>1, <1>2, <1>3, <1>4, <1>5, <1>6, Steps DEF Saving

(* A change that the snapshot has missed is in the log. *)
LEMMA MissedIsLoggedNext ==
  ASSUME LockInvariant, Typed, RestOfBlock, Exact, Next, causes' = {}
  PROVE  MissedIsLogged'
<1> MissedIsLogged
  BY DEF Exact
<1>0. \A e : Append(log, e) # << >>
  <2>1. log \in Seq(LinesOf(created))
    BY DEF Typed, LogTypes
  <2> TAKE e
  <2>2. log \in Seq(LinesOf(created) \cup {e}) /\ e \in LinesOf(created) \cup {e}
    BY <2>1, SeqMonotonic
  <2> QED
    BY <2>2, AppendProperties, EmptySeq
<1>1. CASE Commands
  <2>1. PICK i \in Instance, list \in Seq(Value), e \in LinesOf(created') : IsLogged(i, list, e)
    BY <1>1, CleanCommand
  <2> QED
    BY <1>0, <2>1 DEF IsLogged, MissedIsLogged
<1>2. CASE FlushLine \/ FlushCommit
  BY <1>0, <1>2, FlushSteps DEF MissedIsLogged
<1>3. CASE SnapshotBegin \/ SnapshotFails \/ SnapshotTruncate \/ Crash
  BY <1>3 DEF SnapshotBegin, SnapshotFails, SnapshotTruncate, Crash, MissedIsLogged
<1>4. CASE TxCommands
  <2>1. PICK i \in live, list \in Seq(Value), e \in LinesOf(created) : IsTxCommand(i, list, e)
    BY <1>4, TxCommandSteps DEF Typed
  <2>2. active /\ Log(e) /\ snapPhase' = snapPhase
    BY <2>1 DEF IsTxCommand, TxCommand, LockInvariant, saving
  <2> QED
    BY <2>2 DEF Log, wal, MissedIsLogged
<1>5. CASE Looking \/ BeginTx \/ TxFails \/ TxUndo \/ RollbackTx \/ CommitTx \/ SnapshotRename
           \/ (\E i \in Instance : SnapshotCopy(i)) \/ Flush
  <2>1. log' = log /\ missed' = missed /\ (snapPhase' # "idle" => snapPhase # "idle")
    BY <1>5 DEF Looking, LookUp, LeftPopEmpty, BeginTx, TxFails, TxUndo, RollbackTx, CommitTx, SnapshotRename,
                SnapshotCopy, Flush, DL!Persist, wal, saving, ghosts
  <2> QED
    BY <2>1 DEF MissedIsLogged
<1> QED
  BY <1>1, <1>2, <1>3, <1>4, <1>5, Steps DEF Saving

(* What the buffer holds is about the instances that can be undone. *)
LEMMA BufferUndoneNext ==
  ASSUME LockInvariant, Typed, Exact, Next, causes' = {}
  PROVE  BufferUndone'
<1> BufferUndone /\ UndoneIsOwed
  BY DEF Exact
<1>1. CASE TxCommands
  <2>1. PICK i \in live, list \in Seq(Value), e \in LinesOf(created) : IsTxCommand(i, list, e)
    BY <1>1, TxCommandSteps DEF Typed
  <2> DEFINE x == [inst |-> i, list |-> data[i]]
             q == << x >> \o undos
  <2>2. /\ active /\ Log(e) /\ e.inst = i /\ undos' = q /\ live' = live /\ txPhase' = txPhase /\ txPhase = "exec"
    BY <2>1 DEF IsTxCommand, TxCommand, LockInvariant, Command
  <2>3. txBuffer' = Append(txBuffer, e) /\ txBuffer \in Seq(LinesOf(created))
    BY <2>2 DEF Log, Typed, ExecTypes
  <2>4. undos \in Seq(Undo(created)) /\ x \in Undo(created) /\ x.inst = i
    BY DEF Typed, ExecTypes, MemoryTypes, Undo
  <2> HIDE DEF x
  <2>5. \A j : NoUndo(q, j) <=> NoUndo(undos, j) /\ x.inst # j
    BY <2>4, UndoPushed
  <2> HIDE DEF q
  <2>6. /\ Len(txBuffer') = Len(txBuffer) + 1 /\ Len(txBuffer) \in Nat /\ txBuffer'[Len(txBuffer) + 1] = e
        /\ \A k \in 1 .. Len(txBuffer) : txBuffer'[k] = txBuffer[k]
    BY <2>3
  <2>7. ASSUME NEW k \in 1 .. Len(txBuffer')
        PROVE  ~NoUndo(q, txBuffer'[k].inst)
    <3>1. CASE k = Len(txBuffer) + 1
      BY <2>2, <2>4, <2>5, <2>6, <3>1
    <3>2. CASE k \in 1 .. Len(txBuffer)
      <4>1. ~NoUndo(undos, txBuffer[k].inst)
        BY <2>2, <3>2 DEF BufferUndone, Collecting
      <4> QED
        BY <2>5, <2>6, <3>2, <4>1
    <3> QED
      BY <2>6, <3>1, <3>2
  <2>8. ASSUME NEW j \in live, ~NoUndo(q, j)
        PROVE  \E k \in 1 .. Len(txBuffer') : txBuffer'[k].inst = j
    <3>1. CASE j = i
      <4>1. Len(txBuffer) + 1 \in 1 .. Len(txBuffer')
        BY <2>6
      <4> QED
        BY <2>2, <2>6, <3>1, <4>1
    <3>2. CASE j # i
      <4>1. ~NoUndo(undos, j)
        BY <2>4, <2>5, <2>8, <3>2
      <4>2. PICK k \in 1 .. Len(txBuffer) : txBuffer[k].inst = j
        BY <2>2, <4>1 DEF BufferUndone, Collecting
      <4>3. k \in 1 .. Len(txBuffer') /\ txBuffer'[k].inst = j
        BY <2>6, <4>2
      <4> QED
        BY <4>3
    <3> QED
      BY <3>1, <3>2
  <2> QED
    BY <2>2, <2>7, <2>8 DEF BufferUndone
<1>2. CASE BeginTx
  <2>1. txBuffer' = << >> /\ undos' = undos /\ undos = << >> /\ Len(<< >>) = 0
    BY <1>2 DEF BeginTx, UndoneIsOwed
  <2>2. \A j : NoUndo(undos', j)
    BY <2>1 DEF NoUndo
  <2> QED
    BY <2>1, <2>2 DEF BufferUndone
<1>3. CASE Commands
  <2>1. PICK i \in Instance, list \in Seq(Value), e \in LinesOf(created') : IsLogged(i, list, e)
    BY <1>3, CleanCommand
  <2> QED
    BY <2>1 DEF IsLogged, IsCommand, exec, BufferUndone, Collecting
<1>4. CASE TxFails \/ TxUndo \/ RollbackTx \/ FlushCommit \/ Crash
  BY <1>4 DEF TxFails, TxUndo, RollbackTx, FlushCommit, Crash, BufferUndone, Collecting
<1>5. CASE Looking \/ CommitTx \/ FlushLine \/ Saving \/ Flush
  <2>1. txBuffer' = txBuffer /\ undos' = undos /\ live' = live /\ (Collecting' => Collecting)
    BY <1>5 DEF Looking, LookUp, LeftPopEmpty, CommitTx, FlushLine, Saving, SnapshotBegin, SnapshotRename,
                SnapshotFails, SnapshotTruncate, SnapshotCopy, Flush, logger, exec, memory, Collecting
  <2> QED
    BY <2>1 DEF BufferUndone
<1> QED
  BY <1>1, <1>2, <1>3, <1>4, <1>5, Steps

(* Sequences that agree on a prefix have the same one. *)
LEMMA PrefixIs ==
  ASSUME NEW S, NEW T, NEW a \in Seq(S), NEW b \in Seq(T), NEW n \in 0 .. Len(a), n \in 0 .. Len(b),
         \A k \in 1 .. n : a[k] = b[k]
  PROVE  SubSeq(a, 1, n) = SubSeq(b, 1, n)
OBVIOUS

-----------------------------------------------------------------------------
(* The whole log restores what is owed. *)
LEMMA RestoredIs ==
  ASSUME NEW C, NEW r \in StatesOf(C), NEW db
  PROVE  r.ok /\ r.db = db => r = Restored(db, r.currentTx)
<1> DEFINE ok == r.ok
<1>1. ok \in BOOLEAN /\ r = [ok |-> ok, db |-> r.db, currentTx |-> r.currentTx]
  BY DEF StatesOf
<1> HIDE DEF ok
<1>2. ok => ok = TRUE
  BY <1>1
<1>3. ok /\ r.db = db => r = [ok |-> TRUE, db |-> db, currentTx |-> r.currentTx]
  BY <1>1, <1>2
<1> QED
  BY <1>3 DEF Restored, ok

(* What the whole log restores, and where it leaves pass 2. *)
LEMMA LogRestores ==
  ASSUME Typed, Exact, snapPhase # "saved"
  PROVE  \E u : /\ Restore(snapshot, log) = Restored(Ideal, u)
                /\ u = Restore(snapshot, log).currentTx
                /\ ~OpenBlock /\ txPhase # "commit" => u = 0
<1>1. log \in Seq(LinesOf(created)) /\ snapshot \in DbsOf(created) /\ durable \in 0 .. Len(log)
  BY DEF Typed, LogTypes, SavingTypes
<1> DEFINE r == Restore(snapshot, log)
<1>2. r \in StatesOf(created)
  BY <1>1, RestoreLinesType DEF Restore
<1>3. r.ok /\ r.db = Ideal
  <2>1. SubSeq(log, 1, Len(log)) = log /\ Len(log) \in durable .. Len(log)
    BY <1>1
  <2>2. RestoresTo(snapshot, SubSeq(log, 1, Len(log)), owed[Len(log)])
    BY <2>1 DEF Exact, PrefixesRestore
  <2> QED
    BY <2>1, <2>2 DEF RestoresTo, Ideal
<1>4. ~OpenBlock /\ txPhase # "commit" => r.currentTx = 0
  <2>1. r.ok /\ r.currentTx # 0 => \E k \in DOMAIN log : OpenAt(log, k)
    BY <1>1, InsideIsOpen DEF Restore
  <2> QED
    BY <1>3, <2>1 DEF OpenAt, OpenBlock
<1> HIDE DEF r
<1>5. r = Restored(Ideal, r.currentTx)
  BY <1>2, <1>3, RestoredIs
<1> QED
  BY <1>4, <1>5 DEF r

(* With the line of a command the log restores the state that the command  *)
(* has made.                                                               *)
LEMMA CommandRestores ==
  ASSUME Typed, Exact, MemoryTypes', snapPhase # "saved", causes' = {},
         NEW i \in Instance, NEW list \in Seq(Value), NEW e \in LinesOf(created'), IsLogged(i, list, e)
  PROVE  Restore(snapshot, log') = Restored(Db', 0)
<1>1. Makes(Ideal, e, Db')
  BY CommandMakes DEF Typed, Exact
<1>2. Restore(snapshot, log) = Restored(Ideal, 0)
  <2>1. ~OpenBlock /\ txPhase # "commit"
    BY DEF IsLogged
  <2> QED
    BY <2>1, LogRestores
<1>3. PICK C, d, d2, l, s : C = created' /\ d = Ideal /\ d2 = Db' /\ l = log /\ s = snapshot
  OBVIOUS
<1>4. l \in Seq(LinesOf(C)) /\ s \in DbsOf(C) /\ e \in LinesOf(C) /\ ~IsMarker(e)
  <2>1. created \subseteq created'
    BY DEF IsLogged, IsCommand
  <2> QED
    BY <1>3, <2>1, MoreInstances DEF Typed, LogTypes, SavingTypes, IsLogged
<1>5. Restore(s, Append(l, e)) = Restored(d2, 0)
  BY <1>1, <1>2, <1>3, <1>4, OutsideLine
<1> QED
  BY <1>3, <1>5 DEF IsLogged

(* A flushed line is replayed on what was flushed before it, and not       *)
(* restored yet.                                                           *)
LEMMA FlushLineMakes ==
  ASSUME Typed, RestOfBlock, OnlyCommands, MarkersAreOld, Exact, snapPhase # "saved", FlushLine,
         NEW after, BufferMakes(after), FlushedMakes(after)
  PROVE  /\ Kept(snapshot, log', txs) = Restored(after[Flushed], txs)
         /\ Restore(snapshot, log') = Restored(Ideal, txs)
<1> DEFINE e == LineToFlush
           t == txs
<1>1. /\ log' = Append(log, e) /\ e \in LinesOf(created) /\ txPhase = "commit" /\ Flushed \in Nat
      /\ Len(txBuffer) \in Nat /\ txs \in 1 .. MaxTxs /\ Flushed <= Len(txBuffer)
  BY FlushSteps
<1>2. log \in Seq(LinesOf(created)) /\ snapshot \in DbsOf(created)
  BY DEF Typed, LogTypes, SavingTypes
<1>3. PICK u : Restore(snapshot, log) = Restored(Ideal, u) /\ u = Restore(snapshot, log).currentTx
  BY LogRestores
<1>4. CASE Flushed = 0
  <2>1. e = Marker("TX_BEGIN", t)
    BY <1>4 DEF LineToFlush
  <2>2. Unmarked(log, t)
    BY <1>1, <1>4 DEF MarkersAreOld, Flushing, Unmarked
  <2>3. after[Flushed] = Ideal
    BY <1>4 DEF BufferMakes, Leads
  <2> HIDE DEF e
  <2>4. /\ Restore(snapshot, Append(log, Marker("TX_BEGIN", t))) = Restored(Ideal, t)
        /\ Kept(snapshot, Append(log, Marker("TX_BEGIN", t)), t) = Restored(Ideal, t)
    BY <1>1, <1>2, <1>3, <2>2, BlockBegins
  <2> QED
    BY <1>1, <2>1, <2>3, <2>4
<1>5. CASE Flushed # 0
  <2>1. Flushed \in 1 .. Len(txBuffer) /\ Flushed # Len(txBuffer) + 1 /\ Flushing
    BY <1>1, <1>5 DEF Flushing
  <2>2. e = txBuffer[Flushed] /\ ~IsMarker(e)
    BY <1>5, <2>1 DEF LineToFlush, OnlyCommands
  <2>3. Kept(snapshot, log, t) = Restored(after[Flushed - 1], t) /\ u = t
    BY <1>3, <2>1 DEF FlushedMakes
  <2>4. Makes(after[Flushed - 1], e, after[Flushed])
    BY <2>1, <2>2 DEF BufferMakes, Leads
  <2>5. t \in IncompleteTxs(log)
    BY <2>1 DEF Exact, BlockIsOpen
  <2> HIDE DEF e
  <2>6. /\ Restore(snapshot, Append(log, e)) = Restored(Ideal, t)
        /\ Kept(snapshot, Append(log, e), t) = Restored(after[Flushed], t)
    BY <1>1, <1>2, <1>3, <2>2, <2>3, <2>4, <2>5, BlockGoesOn
  <2> QED
    BY <1>1, <2>6
<1> QED
  BY <1>4, <1>5

(* With the TX_COMMIT the log restores what the transaction has made. *)
LEMMA FlushCommitRestores ==
  ASSUME Typed, RestOfBlock, Exact, snapPhase # "saved", FlushCommit
  PROVE  Restore(snapshot, log') = Restored(Db, 0)
<1>1. /\ log' = Append(log, LineToFlush) /\ txPhase = "commit" /\ Flushed = Len(txBuffer) + 1
      /\ Len(txBuffer) \in Nat /\ txs \in 1 .. MaxTxs
  BY FlushSteps
<1>2. LineToFlush = Marker("TX_COMMIT", txs) /\ Flushing /\ Flushed - 1 = Len(txBuffer)
  BY <1>1 DEF LineToFlush, Flushing
<1>3. PICK after : BufferMakes(after) /\ FlushedMakes(after)
  BY <1>1 DEF Exact, BufferIsOwed, Collecting
<1>4. Kept(snapshot, log, txs) = Restored(Db, txs)
  BY <1>2, <1>3 DEF BufferMakes, Leads, FlushedMakes
<1>5. log \in Seq(LinesOf(created)) /\ snapshot \in DbsOf(created)
  BY DEF Typed, LogTypes, SavingTypes
<1>6. Restore(snapshot, Append(log, Marker("TX_COMMIT", txs))) = Restored(Db, 0)
  BY <1>1, <1>4, <1>5, BlockEnds
<1> QED
  BY <1>1, <1>2, <1>6

-----------------------------------------------------------------------------
(* What a crash may leave keeps restoring what is owed then. *)
LEMMA PrefixesAppend ==
  ASSUME LogTypes, PrefixesRestore, NEW e, log' \in Seq(LinesOf(created')), log' = Append(log, e),
         durable' = durable, snapshot' = snapshot, snapPhase' = snapPhase,
         Acknowledge \/ NothingNew, snapPhase # "saved" => RestoresTo(snapshot, log', Ideal')
  PROVE  PrefixesRestore'
<1> SUFFICES ASSUME snapPhase # "saved", NEW n \in durable .. Len(log')
             PROVE  RestoresTo(snapshot, SubSeq(log', 1, n), owed'[n])
  BY DEF PrefixesRestore
<1>1. log \in Seq(LinesOf(created)) /\ Len(log) \in Nat /\ durable \in Nat /\ durable <= Len(log)
  BY DEF LogTypes
<1>2. Len(log') = Len(log) + 1 /\ \A k \in 1 .. Len(log) : log'[k] = log[k]
  <2>1. log \in Seq(LinesOf(created) \cup {e}) /\ e \in LinesOf(created) \cup {e}
    BY <1>1, SeqMonotonic
  <2> QED
    BY <2>1, AppendProperties
<1>3. CASE n = Len(log) + 1
  <2>1. SubSeq(log', 1, n) = log'
    BY <1>2, <1>3
  <2>2. owed'[n] = Ideal'
    BY <1>2, <1>3 DEF Ideal
  <2> QED
    BY <2>1, <2>2
<1>4. CASE n \in durable .. Len(log)
  <2>1. n \in Nat /\ n <= Len(log) /\ n \in 0 .. Len(log)
    BY <1>1, <1>4
  <2>2. SubSeq(log', 1, n) = SubSeq(log, 1, n)
    <3>1. \A k \in 1 .. n : log'[k] = log[k]
      BY <1>1, <1>2, <2>1
    <3>2. n \in 0 .. Len(log')
      BY <1>2, <2>1
    <3> QED
      BY <1>1, <2>1, <3>1, <3>2, PrefixIs
  <2>3. owed'[n] = owed[n]
    <3>1. Len(log') \in Nat
      BY <1>1, <1>2
    <3> QED
      BY <1>2, <2>1, <3>1, IdealNext
  <2> QED
    BY <1>4, <2>2, <2>3 DEF PrefixesRestore
<1> QED
  BY <1>1, <1>2, <1>3, <1>4

(* Every step leaves logs behind whose kept part restores what is owed. *)
LEMMA PrefixesNext ==
  ASSUME LockInvariant, Typed, RestOfBlock, OnlyCommands, MarkersAreOld, Exact, Next, causes' = {}
  PROVE  PrefixesRestore'
<1> MemoryTypes /\ LogTypes /\ MemoryTypes' /\ LogTypes' /\ PrefixesRestore
  BY MemoryNext, LogNextTypes DEF Typed, Exact
<1>0. /\ Len(log') \in Nat /\ log' \in Seq(LinesOf(created')) /\ log \in Seq(LinesOf(created))
      /\ snapshot \in DbsOf(created) /\ durable \in 0 .. Len(log)
  BY DEF LogTypes, Typed, SavingTypes
<1>1. CASE Commands
  <2>1. PICK i \in Instance, list \in Seq(Value), e \in LinesOf(created') : IsLogged(i, list, e)
    BY <1>1, CleanCommand
  <2>2. /\ log' = Append(log, e) /\ durable' = durable /\ snapshot' = snapshot /\ snapPhase' = snapPhase
        /\ Acknowledge
    BY <2>1 DEF IsLogged, IsCommand, saving
  <2>3. snapPhase # "saved" => RestoresTo(snapshot, log', Ideal')
    <3>1. Ideal' = Db'
      BY <1>0, <2>2, IdealNext
    <3>2. snapPhase # "saved" => Restore(snapshot, log') = Restored(Ideal', 0)
      BY <2>1, <3>1, CommandRestores
    <3> QED
      BY <3>2 DEF RestoresTo, Restored
  <2> QED
    BY <1>0, <2>2, <2>3, PrefixesAppend
<1>2. CASE FlushLine
  <2>1. /\ log' = Append(log, LineToFlush) /\ durable' = durable /\ snapshot' = snapshot
        /\ snapPhase' = snapPhase /\ NothingNew /\ txPhase = "commit"
    BY <1>2, FlushSteps DEF FlushLine, saving
  <2>2. PICK after : BufferMakes(after) /\ FlushedMakes(after)
    BY <2>1 DEF Exact, BufferIsOwed, Collecting
  <2>3. snapPhase # "saved" => RestoresTo(snapshot, log', Ideal')
    <3>1. Ideal' = Ideal
      BY <1>0, <2>1, IdealNext
    <3>2. snapPhase # "saved" => Restore(snapshot, log') = Restored(Ideal', txs)
      BY <1>2, <2>2, <3>1, FlushLineMakes
    <3> QED
      BY <3>2 DEF RestoresTo, Restored
  <2> QED
    BY <1>0, <2>1, <2>3, PrefixesAppend
<1>3. CASE FlushCommit
  <2>1. /\ log' = Append(log, LineToFlush) /\ durable' = durable /\ snapshot' = snapshot
        /\ snapPhase' = snapPhase /\ Acknowledge /\ Db' = Db
    BY <1>3, FlushSteps DEF FlushCommit, saving, memory, Db
  <2>2. snapPhase # "saved" => RestoresTo(snapshot, log', Ideal')
    <3>1. Ideal' = Db
      BY <1>0, <2>1, IdealNext
    <3>2. snapPhase # "saved" => Restore(snapshot, log') = Restored(Ideal', 0)
      BY <1>3, <3>1, FlushCommitRestores
    <3> QED
      BY <3>2 DEF RestoresTo, Restored
  <2> QED
    BY <1>0, <2>1, <2>2, PrefixesAppend
<1>4. CASE SnapshotTruncate
  <2>1. log' = << >> /\ durable' = 0 /\ Settle /\ snapshot = Ideal /\ snapshot' = snapshot /\ Len(<< >>) = 0
    BY <1>4, CleanTruncate DEF SnapshotTruncate
  <2>2. owed'[0] = Ideal
    BY <1>0, <2>1 DEF Settle
  <2>3. RestoresTo(snapshot, << >>, Ideal)
    BY <1>0, <2>1, RestoreNothing DEF RestoresTo, Restore, Start
  <2>4. \A n \in durable' .. Len(log') : n = 0 /\ SubSeq(log', 1, n) = << >>
    BY <2>1
  <2> QED
    BY <2>1, <2>2, <2>3, <2>4 DEF PrefixesRestore
<1>5. CASE Flush
  <2>1. log' = log /\ durable' = Len(log) /\ Settle /\ snapshot' = snapshot /\ snapPhase' = snapPhase
    BY <1>5 DEF Flush, DL!Persist, saving
  <2>2. owed'[Len(log)] = Ideal
    BY <1>0, <2>1 DEF Settle
  <2>3. \A n \in durable' .. Len(log') : n = Len(log)
    BY <1>0, <2>1
  <2>4. Len(log) \in durable .. Len(log)
    BY <1>0
  <2>5. snapPhase # "saved" => RestoresTo(snapshot, SubSeq(log, 1, Len(log)), Ideal)
    BY <2>4 DEF PrefixesRestore, Ideal
  <2> QED
    BY <2>1, <2>2, <2>3, <2>5 DEF PrefixesRestore
<1>6. CASE SnapshotRename
  BY <1>6 DEF SnapshotRename, PrefixesRestore
<1>7. CASE Crash
  <2>1. PICK n, r : IsCrash(n, r)
    BY <1>7, CrashSteps
  <2>2. /\ log' = SubSeq(log, 1, n) /\ durable' = durable /\ snapshot' = snapshot /\ r = Restore(snapshot, log')
        /\ owed' = [m \in 0 .. Len(log') |-> owed[m]]
    BY <2>1 DEF IsCrash
  <2>3. CrashRestores(n, r) /\ owed'[n] = owed[n] /\ Len(log') = n /\ (snapPhase = "saved" => n = 0)
    BY <1>7, <2>1, CleanCrash
  <2>4. n \in durable .. Len(log) /\ n \in Nat /\ n \in 0 .. Len(log)
    BY <1>0, <2>1 DEF IsCrash
  <2> SUFFICES ASSUME NEW m \in durable' .. Len(log')
               PROVE  RestoresTo(snapshot, SubSeq(log', 1, m), owed'[m])
    BY <2>2 DEF PrefixesRestore
  <2>5. m \in durable .. Len(log) /\ m \in 0 .. n /\ m \in 0 .. Len(log) /\ owed'[m] = owed[m]
    BY <1>0, <2>2, <2>3, <2>4
  <2>6. CASE snapPhase # "saved"
    <3>1. SubSeq(log', 1, m) = SubSeq(log, 1, m)
      <4>1. \A k \in 1 .. m : log'[k] = log[k]
        <5>1. \A k \in 1 .. n : log'[k] = log[k]
          BY <1>0, <2>2, <2>4, PrefixType
        <5> QED
          BY <2>4, <2>5, <5>1
      <4> QED
        BY <1>0, <2>3, <2>5, <4>1, PrefixIs
    <3> QED
      BY <2>5, <2>6, <3>1 DEF PrefixesRestore
  <2>7. CASE snapPhase = "saved"
    <3>1. m = n /\ n = 0
      BY <2>3, <2>5, <2>7
    <3>2. SubSeq(log', 1, m) = log'
      BY <1>0, <2>3, <3>1
    <3> QED
      BY <2>2, <2>3, <3>1, <3>2 DEF CrashRestores, RestoresTo
  <2> QED
    BY <2>6, <2>7
<1>8. CASE TxCommands
  <2>1. PICK i \in live, list \in Seq(Value), e \in LinesOf(created) : IsTxCommand(i, list, e)
    BY <1>8, TxCommandSteps
  <2>2. active /\ Log(e) /\ owed' = owed /\ snapPhase' = snapPhase /\ snapshot' = snapshot
    BY <2>1 DEF IsTxCommand, TxCommand, LockInvariant, saving
  <2>3. log' = log /\ durable' = durable
    BY <2>2 DEF Log, wal
  <2> QED
    BY <2>2, <2>3 DEF PrefixesRestore
<1>9. CASE Looking \/ BeginTx \/ TxFails \/ TxUndo \/ RollbackTx \/ CommitTx \/ SnapshotBegin \/ SnapshotFails
           \/ \E i \in Instance : SnapshotCopy(i)
  <2>1. /\ log' = log /\ durable' = durable /\ owed' = owed /\ snapshot' = snapshot
        /\ snapPhase' # "saved" => snapPhase # "saved"
    BY <1>9 DEF Looking, LookUp, LeftPopEmpty, BeginTx, TxFails, TxUndo, RollbackTx, CommitTx, SnapshotBegin,
                SnapshotFails, SnapshotCopy, wal, saving, ghosts
  <2> QED
    BY <2>1 DEF PrefixesRestore
<1> QED
  BY <1>1, <1>2, <1>3, <1>4, <1>5, <1>6, <1>7, <1>8, <1>9, Steps DEF Saving

-----------------------------------------------------------------------------
(* The buffer keeps leading from what is owed to what is in memory. *)
LEMMA BufferKept ==
  ASSUME BufferIsOwed, created' = created, txBuffer' = txBuffer, Ideal' = Ideal, Db' = Db,
         Collecting' => Collecting,
         \A after : BufferMakes(after) /\ FlushedMakes(after) => FlushedMakes(after)'
  PROVE  BufferIsOwed'
<1> SUFFICES ASSUME Collecting'
             PROVE  \E after : BufferMakes(after)' /\ FlushedMakes(after)'
  BY DEF BufferIsOwed
<1>1. PICK after : BufferMakes(after) /\ FlushedMakes(after)
  BY DEF BufferIsOwed
<1>2. BufferMakes(after)'
  BY <1>1 DEF BufferMakes
<1> QED
  BY <1>1, <1>2

(* The line of a command of an EXEC makes its state of the one before. *)
LEMMA TxCommandMakes ==
  ASSUME MemoryTypes, NEW i \in live, NEW list \in Seq(Value), NEW e, IsTxCommand(i, list, e)
  PROVE  Makes(Db, e, Db') /\ Db' \in DbsOf(created)
<1>1. Db \in DbsOf(created) /\ DOMAIN Db = live /\ \A j \in live : Db[j] = data[j]
  BY DbType
<1>2. /\ data' = [data EXCEPT ![i] = list] /\ live' = live
      /\ \/ \E v \in Value : e = Command("RPUSH", i, v) /\ list = Append(data[i], v)
         \/ e = Command("LPOP", i, NoInstance) /\ data[i] # << >> /\ list = Tail(data[i])
  BY DEF IsTxCommand, TxCommand
<1>3. i \in created /\ data'[i] = list /\ \A j \in live : j # i => data'[j] = data[j]
  BY <1>2 DEF MemoryTypes
<1> DEFINE d == With(Db, i, list)
<1>4. d \in DbsOf(created) /\ Sets(d, Db, i, list)
  BY <1>1, <1>3, WithType
<1>5. Makes(Db, e, d)
  <2>1. i \in DOMAIN Db /\ Db[i] = data[i]
    BY <1>1
  <2> QED
    BY <1>2, <2>1, ReplayMakes
<1> HIDE DEF d
<1>6. Db' = [j \in live |-> data'[j]]
  BY <1>2 DEF Db
<1>7. d = Db'
  <2>1. d \in [live -> Seq(Value)]
    <3>1. DOMAIN d = live
      BY <1>1, <1>4 DEF Sets
    <3> QED
      BY <1>4, <3>1, DbsOfIs
  <2>2. \A j \in live : d[j] = data'[j]
    BY <1>1, <1>3, <1>4 DEF Sets
  <2> QED
    BY <1>6, <2>1, <2>2
<1> QED
  BY <1>4, <1>5, <1>7

(* One line more in the buffer, one state more. *)
LEMMA BufferGrows ==
  ASSUME NEW X, NEW T, NEW b \in Seq(T), NEW e \in T, NEW after, NEW from, NEW to, NEW d \in X,
         Leads(after, b, X, from, to), Makes(to, e, d)
  PROVE  \E next : Leads(next, Append(b, e), X, from, d)
<1> DEFINE q == Append(b, e)
           n == Len(b)
           next == [k \in 0 .. n + 1 |-> IF k = n + 1 THEN d ELSE after[k]]
<1>1. n \in Nat /\ Len(q) = n + 1 /\ q[n + 1] = e /\ \A k \in 1 .. n : q[k] = b[k]
  OBVIOUS
<1> USE DEF Leads
<1> HIDE DEF q, n
<1>2. next \in [0 .. n + 1 -> X]
  BY <1>1 DEF n
<1>3. next[0] = from /\ next[n + 1] = d
  BY <1>1
<1>4. \A k \in 0 .. n : next[k] = after[k]
  BY <1>1
<1> HIDE DEF next
<1>5. ASSUME NEW k \in 1 .. n + 1
      PROVE  Makes(next[k - 1], q[k], next[k])
  <2>1. k - 1 \in 0 .. n /\ next[k - 1] = after[k - 1]
    BY <1>1, <1>4
  <2>2. CASE k = n + 1
    <3>1. k - 1 = n
      BY <1>1, <2>2
    <3> QED
      BY <1>1, <1>3, <2>1, <2>2, <3>1 DEF n
  <2>3. CASE k # n + 1
    <3>1. k \in 1 .. n /\ k \in 0 .. n
      BY <1>1, <2>3
    <3> QED
      BY <1>1, <1>4, <2>1, <3>1 DEF n
  <2> QED
    BY <2>2, <2>3
<1> QED
  BY <1>1, <1>2, <1>3, <1>5 DEF q

(* Every step keeps the transaction's buffer leading to the state in       *)
(* memory.                                                                 *)
LEMMA BufferNext ==
  ASSUME LockInvariant, Typed, RestOfBlock, OnlyCommands, MarkersAreOld, Exact, Next, causes' = {}
  PROVE  BufferIsOwed'
<1> MemoryTypes /\ LogTypes /\ LogTypes' /\ BufferIsOwed /\ UndoneIsOwed
  BY LogNextTypes DEF Typed, Exact
<1>0. Len(log') \in Nat
  BY DEF LogTypes
<1>1. CASE TxCommands
  <2>1. PICK i \in live, list \in Seq(Value), e \in LinesOf(created) : IsTxCommand(i, list, e)
    BY <1>1, TxCommandSteps
  <2>2. /\ active /\ Log(e) /\ txPhase' = txPhase /\ txPhase = "exec" /\ created' = created /\ owed' = owed
    BY <2>1 DEF IsTxCommand, TxCommand, LockInvariant
  <2>3. txBuffer' = Append(txBuffer, e) /\ txBuffer \in Seq(LinesOf(created)) /\ log' = log
    BY <2>2 DEF Log, wal, Typed, ExecTypes
  <2>4. Ideal' = Ideal
    BY <1>0, <2>2, <2>3, IdealNext
  <2>5. Makes(Db, e, Db') /\ Db' \in DbsOf(created)
    BY <2>1, TxCommandMakes
  <2>6. PICK after : BufferMakes(after)
    BY <2>2 DEF BufferIsOwed, Collecting
  <2>7. PICK d : d = Db'
    OBVIOUS
  <2>8. PICK next : Leads(next, Append(txBuffer, e), DbsOf(created), Ideal, d)
    <3>1. Makes(Db, e, d) /\ d \in DbsOf(created)
      BY <2>5, <2>7
    <3> QED
      BY <2>3, <2>6, <3>1, BufferGrows DEF BufferMakes
  <2>9. BufferMakes(next)'
    BY <2>2, <2>3, <2>4, <2>7, <2>8 DEF BufferMakes
  <2>10. FlushedMakes(next)'
    BY <2>2 DEF FlushedMakes, Flushing
  <2> QED
    BY <2>9, <2>10 DEF BufferIsOwed
<1>2. CASE BeginTx
  <2>1. /\ txBuffer' = << >> /\ txPhase' = "exec" /\ txPhase = "idle" /\ Len(<< >>) = 0
        /\ created' = created /\ live' = live /\ data' = data /\ log' = log /\ owed' = owed
    BY <1>2 DEF BeginTx, memory, wal, ghosts
  <2>2. Ideal' = Ideal /\ Db' = Db /\ Db = Ideal /\ Ideal \in DbsOf(created)
    BY <1>0, <2>1, IdealNext, IdleIsOwed, IdealType DEF Db
  <2> DEFINE after == [k \in 0 .. 0 |-> Ideal]
  <2>3. BufferMakes(after)'
    <3>1. after \in [0 .. 0 -> DbsOf(created)] /\ after[0] = Ideal
      BY <2>2
    <3> HIDE DEF after
    <3> QED
      BY <2>1, <2>2, <3>1 DEF BufferMakes, Leads
  <2>4. FlushedMakes(after)'
    BY <2>1 DEF FlushedMakes, Flushing
  <2> HIDE DEF after
  <2> QED
    BY <2>3, <2>4 DEF BufferIsOwed
<1>3. CASE FlushLine
  <2>1. /\ txBuffer' = txBuffer /\ txPhase' = txPhase /\ created' = created /\ live' = live /\ data' = data
        /\ snapPhase' = snapPhase /\ snapshot' = snapshot /\ txs' = txs /\ NothingNew
    BY <1>3 DEF FlushLine, memory, exec, saving, bounds
  <2>2. Ideal' = Ideal /\ Db' = Db
    BY <1>0, <2>1, IdealNext DEF Db
  <2>3. Flushed' = Flushed + 1 /\ Flushed \in Nat
    BY <1>3, FlushSteps
  <2>4. ASSUME NEW after, BufferMakes(after), FlushedMakes(after)
        PROVE  FlushedMakes(after)'
    <3>1. snapPhase # "saved" => /\ Kept(snapshot, log', txs) = Restored(after[Flushed], txs)
                                 /\ Restore(snapshot, log') = Restored(Ideal, txs)
      BY <1>3, <2>4, FlushLineMakes
    <3>2. Flushed' - 1 = Flushed
      BY <2>3
    <3>3. snapPhase # "saved" => Restore(snapshot, log').currentTx = txs
      BY <3>1 DEF Restored
    <3> QED
      BY <2>1, <3>1, <3>2, <3>3 DEF FlushedMakes
  <2> QED
    BY <2>1, <2>2, <2>4, BufferKept DEF Collecting
<1>4. CASE SnapshotTruncate
  <2>1. ~Flushing /\ Settle
    BY <1>4, CleanTruncate
  <2>2. /\ txBuffer' = txBuffer /\ txPhase' = txPhase /\ toFlush' = toFlush /\ created' = created /\ live' = live
        /\ data' = data
    BY <1>4 DEF SnapshotTruncate, memory, logger, exec
  <2>3. Ideal' = Ideal /\ Db' = Db /\ ~Flushing'
    BY <1>0, <2>1, <2>2, IdealNext DEF Db, Flushing, Flushed
  <2>4. \A after : FlushedMakes(after)'
    BY <2>3 DEF FlushedMakes
  <2> QED
    BY <2>2, <2>3, <2>4, BufferKept DEF Collecting
<1>5. CASE SnapshotRename
  <2>1. /\ txBuffer' = txBuffer /\ txPhase' = txPhase /\ created' = created /\ live' = live
        /\ data' = data /\ snapPhase' = "saved" /\ Settle
    BY <1>5 DEF SnapshotRename, memory, logger, exec
  <2>2. Ideal' = Ideal /\ Db' = Db
    BY <1>0, <2>1, IdealNext DEF Db
  <2>3. \A after : FlushedMakes(after)'
    BY <2>1 DEF FlushedMakes
  <2> QED
    BY <2>1, <2>2, <2>3, BufferKept DEF Collecting
<1>6. CASE CommitTx
  <2>1. /\ txBuffer' = txBuffer /\ txPhase' = "commit" /\ txPhase = "exec" /\ created' = created /\ live' = live
        /\ data' = data /\ log' = log /\ owed' = owed /\ toFlush' = Block
    BY <1>6 DEF CommitTx, memory, wal, ghosts, Block
  <2>2. txBuffer \in Seq(LinesOf(created)) /\ txs \in 1 .. MaxTxs
    BY <2>1 DEF Typed, ExecTypes, CountTypes
  <2>3. Len(Block) = Len(txBuffer) + 2 /\ Len(txBuffer) \in Nat
    BY <2>2, BlockType, MarkersType DEF Block
  <2>4. Flushed' = 0
    BY <2>1, <2>3 DEF Flushed
  <2>5. Ideal' = Ideal /\ Db' = Db
    BY <1>0, <2>1, IdealNext DEF Db
  <2>6. \A after : FlushedMakes(after)'
    BY <2>4 DEF FlushedMakes, Flushing
  <2> QED
    BY <2>1, <2>5, <2>6, BufferKept DEF Collecting
<1>7. CASE Looking \/ SnapshotBegin \/ SnapshotFails \/ (\E i \in Instance : SnapshotCopy(i)) \/ Flush
  <2>1. /\ UNCHANGED <<txBuffer, txPhase, toFlush, created, live, data, log, txs, snapshot>>
        /\ snapPhase' # "saved" => snapPhase # "saved"
        /\ owed' = owed \/ Settle
    BY <1>7 DEF Looking, LookUp, LeftPopEmpty, SnapshotBegin, SnapshotFails, SnapshotCopy, Flush, DL!Persist,
                memory, wal, logger, exec, saving, bounds, ghosts
  <2>2. Ideal' = Ideal /\ Db' = Db /\ Flushed' = Flushed
    BY <1>0, <2>1, IdealNext DEF Db, Flushed
  <2>3. \A after : FlushedMakes(after) => FlushedMakes(after)'
    BY <2>1, <2>2 DEF FlushedMakes, Flushing
  <2> QED
    BY <2>1, <2>2, <2>3, BufferKept DEF Collecting
<1>8. CASE Commands
  <2>1. PICK i \in Instance, list \in Seq(Value), e \in LinesOf(created') : IsLogged(i, list, e)
    BY <1>8, CleanCommand
  <2> QED
    BY <2>1 DEF IsLogged, IsCommand, exec, BufferIsOwed, Collecting
<1>9. CASE TxFails \/ TxUndo \/ RollbackTx \/ FlushCommit \/ Crash
  BY <1>9 DEF TxFails, TxUndo, RollbackTx, FlushCommit, Crash, BufferIsOwed, Collecting
<1> QED
  BY <1>1, <1>2, <1>3, <1>4, <1>5, <1>6, <1>7, <1>8, <1>9, Steps DEF Saving

-----------------------------------------------------------------------------
(* The snapshot under way keeps holding what is owed. *)
LEMMA CopiesKept ==
  ASSUME CopiesAreOwed, snapPhase' # "idle" => snapPhase # "idle", partial' = partial, toCopy' = toCopy,
         live' = live, Ideal' = Ideal, missed' = missed, dirty' = dirty,
         Flushing' => Flushing /\ txBuffer' = txBuffer /\ Flushed' = Flushed
  PROVE  CopiesAreOwed'
BY DEF CopiesAreOwed

(* A command of an engine that is still to be copied is no change missed. *)
LEMMA CopiesCommand ==
  ASSUME Typed, Exact, Next, causes' = {}, Commands,
         NEW i \in Instance, NEW list \in Seq(Value), NEW e, IsLogged(i, list, e)
  PROVE  CopiesAreOwed'
<1> MemoryTypes /\ LogTypes /\ LogTypes'
  BY LogNextTypes DEF Typed
<1> SUFFICES ASSUME snapPhase' # "idle", ~missed', ~dirty'
             PROVE  /\ DOMAIN partial' \cap toCopy' = {} /\ DOMAIN partial' \cup toCopy' = live'
                    /\ (\A j \in DOMAIN partial' : partial'[j] = Ideal'[j])
                    /\ ~Flushing'
  BY DEF CopiesAreOwed
<1>1. /\ snapPhase' = snapPhase /\ partial' = partial /\ toCopy' = toCopy /\ dirty' = dirty
      /\ NoteLogged(e) /\ ~IsMarker(e) /\ e.inst = i /\ txPhase' = "idle" /\ Acknowledge /\ txPhase = "idle"
  BY DEF IsLogged, IsCommand, saving, exec
<1>2. ~missed /\ i \in toCopy
  BY <1>1 DEF NoteLogged
<1>3. /\ DOMAIN partial \cap toCopy = {} /\ DOMAIN partial \cup toCopy = live
      /\ \A j \in DOMAIN partial : partial[j] = Ideal[j]
  BY <1>1, <1>2 DEF Exact, CopiesAreOwed
<1>4. i \in created /\ snapPhase = "copy" /\ toCopy # {}
  BY <1>1, <1>2 DEF Typed, SavingTypes, Exact, SavedIsOwed
<1>5. data' = [data EXCEPT ![i] = list] /\ live' = live
  BY <1>4 DEF IsLogged, IsCommand
<1>6. Ideal = Db
  BY <1>1, IdleIsOwed DEF Exact
<1>7. Ideal' = [j \in live' |-> data'[j]]
  <2>1. Len(log') \in Nat
    BY DEF LogTypes
  <2> QED
    BY <1>1, <2>1, IdealNext DEF Db
<1>8. ASSUME NEW j \in DOMAIN partial
      PROVE  partial[j] = Ideal'[j]
  <2>1. j # i /\ j \in live /\ j \in Instance
    BY <1>2, <1>3 DEF MemoryTypes
  <2>2. partial[j] = data[j]
    BY <1>3, <1>6, <2>1 DEF Db
  <2>3. data'[j] = data[j]
    BY <1>5, <2>1 DEF MemoryTypes
  <2> QED
    BY <1>5, <1>7, <2>1, <2>2, <2>3
<1> QED
  BY <1>1, <1>3, <1>5, <1>8 DEF Flushing

(* The copies of the snapshot while a line of a block is flushed, *)
LEMMA CopiesFlush ==
  ASSUME LockInvariant, Typed, RestOfBlock, OnlyCommands, Exact, Next, FlushLine
  PROVE  CopiesAreOwed'
<1> LogTypes /\ LogTypes' /\ CopiesAreOwed
  BY LogNextTypes DEF Typed, Exact
<1>1. /\ snapPhase' = snapPhase /\ partial' = partial /\ toCopy' = toCopy /\ dirty' = dirty /\ live' = live
      /\ txBuffer' = txBuffer /\ NoteLogged(LineToFlush) /\ NothingNew
      /\ Flushed' = Flushed + 1 /\ Flushed \in Nat /\ Len(txBuffer) \in Nat /\ Flushed <= Len(txBuffer)
  BY FlushSteps DEF FlushLine, saving, memory
<1>2. txPhase = "commit" /\ txPhase' = "commit"
  BY DEF FlushLine, exec
<1>3. Ideal' = Ideal
  <2>1. Len(log') \in Nat
    BY DEF LogTypes
  <2> QED
    BY <1>1, <2>1, IdealNext
<1> SUFFICES ASSUME snapPhase # "idle", ~missed', ~dirty
             PROVE  /\ DOMAIN partial \cap toCopy = {} /\ DOMAIN partial \cup toCopy = live
                    /\ (\A j \in DOMAIN partial : partial[j] = Ideal[j])
                    /\ \A k \in 1 .. Flushed : txBuffer[k].inst \notin DOMAIN partial
  <2>1. Flushed' - 1 = Flushed
    BY <1>1
  <2> QED
    BY <1>1, <1>3, <2>1 DEF CopiesAreOwed
<1>4. ~missed /\ (~IsMarker(LineToFlush) => LineToFlush.inst \in toCopy)
  BY <1>1 DEF NoteLogged
<1>5. /\ DOMAIN partial \cap toCopy = {} /\ DOMAIN partial \cup toCopy = live
      /\ (\A j \in DOMAIN partial : partial[j] = Ideal[j])
      /\ Flushing => \A k \in 1 .. Flushed - 1 : txBuffer[k].inst \notin DOMAIN partial
  BY <1>4 DEF CopiesAreOwed
<1>6. ASSUME NEW k \in 1 .. Flushed
      PROVE  txBuffer[k].inst \notin DOMAIN partial
  <2>1. Flushed # 0 /\ Flushed # Len(txBuffer) + 1 /\ Flushed \in 1 .. Len(txBuffer) /\ Flushing
    BY <1>1, <1>2 DEF Flushing
  <2>2. CASE k = Flushed
    <3>1. LineToFlush = txBuffer[k] /\ ~IsMarker(txBuffer[k])
      BY <2>1, <2>2 DEF LineToFlush, OnlyCommands
    <3> QED
      BY <1>4, <1>5, <3>1
  <2>3. CASE k # Flushed
    <3>1. k \in 1 .. Flushed - 1
      BY <1>1, <2>3
    <3> QED
      BY <1>5, <2>1, <3>1
  <2> QED
    BY <2>2, <2>3
<1> QED
  BY <1>5, <1>6

(* when the block is complete, *)
LEMMA CopiesCommit ==
  ASSUME LockInvariant, Typed, RestOfBlock, Exact, Next, FlushCommit
  PROVE  CopiesAreOwed'
<1> LogTypes /\ LogTypes' /\ CopiesAreOwed /\ UndoneIsOwed /\ BufferUndone
  BY LogNextTypes DEF Typed, Exact
<1>1. /\ UNCHANGED <<snapPhase, partial, toCopy, dirty, missed, live, data>> /\ Acknowledge
      /\ txPhase = "commit" /\ txPhase' = "idle"
      /\ Flushed = Len(txBuffer) + 1 /\ Len(txBuffer) \in Nat
  BY FlushSteps DEF FlushCommit, saving, memory
<1>2. Ideal' = [j \in live |-> data[j]]
  <2>1. Len(log') \in Nat
    BY DEF LogTypes
  <2> QED
    BY <1>1, <2>1, IdealNext DEF Db
<1> SUFFICES ASSUME snapPhase # "idle", ~missed, ~dirty
             PROVE  /\ DOMAIN partial \cap toCopy = {} /\ DOMAIN partial \cup toCopy = live
                    /\ \A j \in DOMAIN partial : partial[j] = Ideal'[j]
  BY <1>1 DEF CopiesAreOwed, Flushing
<1>3. Flushing /\ Flushed - 1 = Len(txBuffer)
  BY <1>1 DEF Flushing
<1>4. /\ DOMAIN partial \cap toCopy = {} /\ DOMAIN partial \cup toCopy = live
      /\ (\A j \in DOMAIN partial : partial[j] = Ideal[j])
      /\ \A k \in 1 .. Len(txBuffer) : txBuffer[k].inst \notin DOMAIN partial
  BY <1>3 DEF CopiesAreOwed
<1>5. ASSUME NEW j \in DOMAIN partial
      PROVE  partial[j] = Ideal'[j]
  <2>1. j \in live
    BY <1>4
  <2>2. NoUndo(undos, j)
    BY <1>1, <1>4, <2>1 DEF BufferUndone, Collecting
  <2>3. data[j] = Ideal[j]
    BY <2>1, <2>2 DEF UndoneIsOwed, FirstUndo, NoUndo
  <2> QED
    BY <1>2, <1>4, <2>1, <2>3
<1> QED
  BY <1>4, <1>5

(* and when one more instance is copied. *)
LEMMA CopiesCopy ==
  ASSUME LockInvariant, Typed, RestOfBlock, Exact, NEW i \in Instance, SnapshotCopy(i)
  PROVE  CopiesAreOwed'
<1> CopiesAreOwed /\ UndoneIsOwed /\ BufferUndone
  BY DEF Exact
<1>1. /\ UNCHANGED <<live, data, log, owed, txPhase, txBuffer, toFlush, undos, missed, snapPhase>>
      /\ snapPhase = "copy" /\ i \in toCopy /\ toCopy' = toCopy \ {i} /\ partial' = With(partial, i, data[i])
      /\ dirty' = (dirty \/ \E k \in DOMAIN undos : undos[k].inst = i)
  BY DEF SnapshotCopy, memory, wal, logger, exec
<1>2. Ideal' = Ideal /\ Flushing' = Flushing /\ Flushed' = Flushed
  BY <1>1 DEF Ideal, Flushing, Flushed
<1>3. i \in created /\ partial \in DbsOf(created) /\ data[i] \in Seq(Value)
      /\ undos \in Seq(Undo(created))
  BY <1>1 DEF Typed, SavingTypes, MemoryTypes, ExecTypes
<1>4. Sets(partial', partial, i, data[i])
  BY <1>1, <1>3, WithType
<1> SUFFICES ASSUME ~missed, ~dirty'
             PROVE  /\ DOMAIN partial' \cap toCopy' = {} /\ DOMAIN partial' \cup toCopy' = live
                    /\ (\A j \in DOMAIN partial' : partial'[j] = Ideal[j])
                    /\ Flushing => \A k \in 1 .. Flushed - 1 : txBuffer[k].inst \notin DOMAIN partial'
  BY <1>1, <1>2 DEF CopiesAreOwed
<1>5. ~dirty /\ NoUndo(undos, i)
  <2>1. DOMAIN undos = 1 .. Len(undos)
    BY <1>3
  <2> QED
    BY <1>1, <2>1 DEF NoUndo
<1>6. /\ DOMAIN partial \cap toCopy = {} /\ DOMAIN partial \cup toCopy = live
      /\ (\A j \in DOMAIN partial : partial[j] = Ideal[j])
      /\ Flushing => \A k \in 1 .. Flushed - 1 : txBuffer[k].inst \notin DOMAIN partial
  BY <1>1, <1>5 DEF CopiesAreOwed
<1>7. data[i] = Ideal[i]
  BY <1>1, <1>5, <1>6 DEF UndoneIsOwed, FirstUndo, NoUndo
<1>8. DOMAIN partial' = DOMAIN partial \cup {i}
  BY <1>4 DEF Sets
<1>9. \A j \in DOMAIN partial' : partial'[j] = Ideal[j]
  BY <1>4, <1>6, <1>7, <1>8 DEF Sets
<1>10. ASSUME Flushing, NEW k \in 1 .. Flushed - 1
       PROVE  txBuffer[k].inst \notin DOMAIN partial'
  <2>1. k \in 1 .. Len(txBuffer) /\ txPhase = "commit"
    BY <1>10 DEF Flushing, RestOfBlock, Typed, ExecTypes
  <2>2. ~NoUndo(undos, txBuffer[k].inst)
    BY <2>1 DEF BufferUndone, Collecting
  <2> QED
    BY <1>5, <1>6, <1>8, <1>10, <2>2
<1> QED
  BY <1>1, <1>6, <1>8, <1>9, <1>10

(* Every step keeps what the snapshot has copied. *)
LEMMA CopiesNext ==
  ASSUME LockInvariant, Typed, RestOfBlock, OnlyCommands, Exact, Next, causes' = {}
  PROVE  CopiesAreOwed'
<1> MemoryTypes /\ LogTypes /\ LogTypes' /\ CopiesAreOwed /\ UndoneIsOwed
  BY LogNextTypes DEF Typed, Exact
<1>0. Len(log') \in Nat
  BY DEF LogTypes
<1>1. CASE Commands
  BY <1>1, CleanCommand, CopiesCommand
<1>2. CASE FlushLine
  BY <1>2, CopiesFlush
<1>3. CASE FlushCommit
  BY <1>3, CopiesCommit
<1>4. CASE \E i \in Instance : SnapshotCopy(i)
  BY <1>4, CopiesCopy
<1>5. CASE SnapshotBegin
  <2>1. /\ toCopy' = live /\ partial' = EmptyDb /\ UNCHANGED <<live, txPhase, txBuffer, toFlush>>
    BY <1>5 DEF SnapshotBegin, memory, logger, exec
  <2>2. DOMAIN EmptyDb = {}
    BY EmptyDbType
  <2> QED
    BY <2>1, <2>2 DEF CopiesAreOwed
<1>6. CASE SnapshotFails \/ SnapshotTruncate \/ Crash
  BY <1>6 DEF SnapshotFails, SnapshotTruncate, Crash, CopiesAreOwed
<1>7. CASE SnapshotRename \/ Flush
  <2>1. /\ UNCHANGED <<partial, toCopy, live, missed, dirty, txPhase, txBuffer, toFlush>> /\ Settle
        /\ snapPhase' # "idle" => snapPhase # "idle"
    BY <1>7 DEF SnapshotRename, Flush, memory, logger, exec, saving
  <2>2. Ideal' = Ideal /\ Flushing' = Flushing /\ Flushed' = Flushed
    BY <1>0, <2>1, IdealNext DEF Flushing, Flushed
  <2> QED
    BY <2>1, <2>2, CopiesKept
<1>8. CASE TxCommands
  <2>1. PICK i \in live, list \in Seq(Value), e \in LinesOf(created) : IsTxCommand(i, list, e)
    BY <1>8, TxCommandSteps
  <2>2. /\ active /\ Log(e) /\ txPhase' = txPhase /\ txPhase = "exec" /\ live' = live
        /\ UNCHANGED <<snapPhase, partial, toCopy, owed, dirty>>
    BY <2>1 DEF IsTxCommand, TxCommand, LockInvariant, saving
  <2>3. log' = log /\ missed' = missed
    BY <2>2 DEF Log, wal
  <2>4. Ideal' = Ideal /\ ~Flushing'
    BY <1>0, <2>2, <2>3, IdealNext DEF Flushing
  <2> QED
    BY <2>2, <2>3, <2>4, CopiesKept
<1>9. CASE Looking \/ BeginTx \/ TxFails \/ TxUndo \/ RollbackTx \/ CommitTx
  <2>1. /\ UNCHANGED <<snapPhase, partial, toCopy, live, log, owed, missed, dirty>>
    BY <1>9 DEF Looking, LookUp, LeftPopEmpty, BeginTx, TxFails, TxUndo, RollbackTx, CommitTx, memory, wal,
                saving, ghosts
  <2>2. Flushing' => Flushing /\ txBuffer' = txBuffer /\ Flushed' = Flushed
    <3>1. CASE Looking
      BY <3>1 DEF Looking, LookUp, LeftPopEmpty, logger, exec, Flushing, Flushed
    <3>2. CASE CommitTx
      <4>1. toFlush' = Block /\ txBuffer' = txBuffer /\ txPhase = "exec"
        BY <3>2 DEF CommitTx, Block
      <4>2. txBuffer \in Seq(LinesOf(created)) /\ txs \in 1 .. MaxTxs
        BY <4>1 DEF Typed, ExecTypes, CountTypes
      <4>3. Len(Block) = Len(txBuffer) + 2 /\ Len(txBuffer) \in Nat
        BY <4>2, BlockType, MarkersType DEF Block
      <4>4. Flushed' = 0
        BY <4>1, <4>3 DEF Flushed
      <4> QED
        BY <4>4 DEF Flushing
    <3>3. CASE BeginTx \/ TxFails \/ TxUndo \/ RollbackTx
      BY <3>3 DEF BeginTx, TxFails, TxUndo, RollbackTx, Flushing
    <3> QED
      BY <1>9, <3>1, <3>2, <3>3
  <2>3. Ideal' = Ideal
    BY <1>0, <2>1, IdealNext
  <2> QED
    BY <2>1, <2>2, <2>3, CopiesKept
<1> QED
  BY <1>1, <1>2, <1>3, <1>4, <1>5, <1>6, <1>7, <1>8, <1>9, Steps DEF Saving

(* Every step keeps what it has saved. *)
LEMMA SavedNext ==
  ASSUME LockInvariant, Typed, RestOfBlock, Exact, Next, causes' = {}
  PROVE  SavedIsOwed'
<1> MemoryTypes /\ LogTypes /\ LogTypes' /\ SavedIsOwed
  BY LogNextTypes DEF Typed, Exact
<1>0. Len(log') \in Nat /\ 0 \in 0 .. Len(log') /\ 0 \in 0 .. Len(log)
  BY DEF LogTypes
<1>1. CASE Commands
  <2>1. PICK i \in Instance, list \in Seq(Value), e \in LinesOf(created') : IsLogged(i, list, e)
    BY <1>1, CleanCommand
  <2>2. /\ UNCHANGED <<snapPhase, partial, toCopy, snapshot, dirty>>
        /\ NoteLogged(e) /\ ~IsMarker(e)
    BY <2>1 DEF IsLogged, IsCommand, saving
  <2> QED
    BY <2>2 DEF SavedIsOwed, NoteLogged
<1>2. CASE FlushLine \/ FlushCommit
  <2>1. UNCHANGED <<snapPhase, partial, toCopy, snapshot, dirty>> /\ (Acknowledge \/ NothingNew)
    BY <1>2 DEF FlushLine, FlushCommit, saving
  <2>0. missed => missed'
    BY <1>2 DEF FlushLine, FlushCommit, NoteLogged
  <2>2. log' = Append(log, LineToFlush) /\ LineToFlush \in LinesOf(created)
    BY <1>2, FlushSteps
  <2>3. Len(log') = Len(log) + 1
    BY <2>2 DEF LogTypes
  <2>4. owed'[0] = owed[0]
    BY <1>0, <2>1, <2>3, IdealNext
  <2> QED
    BY <2>0, <2>1, <2>4 DEF SavedIsOwed
<1>3. CASE SnapshotRename
  <2>1. /\ toCopy = {} /\ toCopy' = toCopy /\ partial' = partial /\ snapshot' = partial /\ snapPhase = "copy"
        /\ missed' = missed /\ dirty' = dirty /\ Settle /\ ~dirty
    BY <1>3 DEF SnapshotRename, Cause
  <2>2. owed'[0] = Ideal
    BY <1>0, <2>1 DEF Settle
  <2>3. ~missed => partial = Ideal
    BY <2>1, SnapshotIsOwed
  <2> QED
    BY <2>1, <2>2, <2>3 DEF SavedIsOwed
<1>4. CASE Flush
  <2>1. UNCHANGED <<snapPhase, partial, toCopy, snapshot, dirty, missed>> /\ Settle
    BY <1>4 DEF Flush, saving
  <2>2. owed'[0] = Ideal
    BY <1>0, <2>1 DEF Settle
  <2>3. snapPhase = "saved" /\ ~missed => partial = Ideal
    BY SnapshotIsOwed DEF SavedIsOwed
  <2> QED
    BY <2>1, <2>2, <2>3 DEF SavedIsOwed
<1>5. CASE SnapshotBegin \/ SnapshotFails \/ SnapshotTruncate \/ Crash \/ \E i \in Instance : SnapshotCopy(i)
  <2>1. snapPhase' # "saved"
    BY <1>5 DEF SnapshotBegin, SnapshotFails, SnapshotTruncate, Crash, SnapshotCopy
  <2> QED
    BY <2>1 DEF SavedIsOwed
<1>6. CASE TxCommands
  <2>1. PICK i \in live, list \in Seq(Value), e \in LinesOf(created) : IsTxCommand(i, list, e)
    BY <1>6, TxCommandSteps
  <2>2. active /\ Log(e) /\ UNCHANGED <<snapPhase, partial, toCopy, snapshot, owed, dirty>>
    BY <2>1 DEF IsTxCommand, TxCommand, LockInvariant, saving
  <2> QED
    BY <2>2 DEF Log, SavedIsOwed
<1>7. CASE Looking \/ BeginTx \/ TxFails \/ TxUndo \/ RollbackTx \/ CommitTx
  BY <1>7 DEF Looking, LookUp, LeftPopEmpty, BeginTx, TxFails, TxUndo, RollbackTx, CommitTx, saving, ghosts,
              SavedIsOwed
<1> QED
  BY <1>1, <1>2, <1>3, <1>4, <1>5, <1>6, <1>7, Steps DEF Saving

-----------------------------------------------------------------------------
(* The invariant holds at the start. *)
LEMMA ExactInit == Init => ExactInvariant
<1> SUFFICES ASSUME Init
             PROVE  ExactInvariant
  OBVIOUS
<1>1. LockInvariant /\ Typed
  BY LockInit, InitTyped
<1>2. /\ live = {} /\ log = << >> /\ durable = 0 /\ txPhase = "idle" /\ undos = << >> /\ txBuffer = << >>
      /\ snapPhase = "idle" /\ snapshot = EmptyDb /\ owed = [n \in {0} |-> EmptyDb] /\ ~failed
  BY DEF Init, DL!LogInit
<1>3. Len(<< >>) = 0 /\ DOMAIN << >> = {}
  OBVIOUS
<1>4. RestOfBlock /\ OnlyCommands /\ MarkersAreOld
  BY <1>2, <1>3 DEF RestOfBlock, OnlyCommands, MarkersAreOld
<1>5. Ideal = EmptyDb /\ DOMAIN EmptyDb = {} /\ EmptyDb \in DbsOf(created)
  BY <1>2, <1>3, EmptyDbType DEF Ideal
<1>6. UndoneIsOwed
  BY <1>2, <1>3, <1>5 DEF UndoneIsOwed
<1>7. BufferUndone /\ BufferIsOwed /\ BlockIsOpen /\ CopiesAreOwed /\ SavedIsOwed /\ MissedIsLogged
  BY <1>2 DEF BufferUndone, BufferIsOwed, BlockIsOpen, CopiesAreOwed, SavedIsOwed, MissedIsLogged, Collecting,
              Flushing
<1>8. PrefixesRestore
  <2>1. \A n \in durable .. Len(log) : n = 0 /\ SubSeq(log, 1, n) = << >>
    BY <1>2, <1>3
  <2>2. owed[0] = EmptyDb
    BY <1>2
  <2>3. RestoresTo(EmptyDb, << >>, EmptyDb)
    BY <1>5, RestoreNothing DEF RestoresTo, Restore, Start
  <2> QED
    BY <1>2, <2>1, <2>2, <2>3 DEF PrefixesRestore
<1>9. Exact
  BY <1>2, <1>6, <1>7, <1>8 DEF Exact
<1> QED
  BY <1>1, <1>4, <1>9 DEF ExactInvariant

(* A cause that has occurred is not forgotten. *)
LEMMA CausesStay ==
  ASSUME Typed, Next
  PROVE  causes \subseteq causes'
<1>1. CASE Commands
  <2>1. PICK i \in Instance, list \in Seq(Value), e \in LinesOf(created') : IsCommand(i, list, e)
    BY <1>1, CommandSteps DEF Typed
  <2> QED
    BY <2>1 DEF IsCommand
<1>2. CASE Saving \/ Crash
  BY <1>2 DEF Saving, SnapshotBegin, SnapshotRename, SnapshotFails, SnapshotTruncate, SnapshotCopy, Crash, ghosts
<1>3. CASE TxCommands \/ Looking \/ BeginTx \/ TxFails \/ TxUndo \/ RollbackTx \/ CommitTx \/ FlushLine
           \/ FlushCommit \/ Flush
  BY <1>3 DEF TxCommands, TxRightPush, TxLeftPop, TxCommand, Looking, LookUp, LeftPopEmpty, BeginTx, TxFails,
              TxUndo, RollbackTx, CommitTx, FlushLine, FlushCommit, Flush, ghosts
<1> QED
  BY <1>1, <1>2, <1>3, Steps

(* Every step keeps the invariant. *)
LEMMA ExactNext == ExactInvariant /\ [Next]_vars => ExactInvariant'
<1>1. ASSUME ExactInvariant, Next
      PROVE  ExactInvariant'
  <2>1. LockInvariant /\ Typed /\ RestOfBlock /\ OnlyCommands /\ MarkersAreOld
    BY <1>1 DEF ExactInvariant
  <2>2. LockInvariant' /\ Typed' /\ RestOfBlock' /\ OnlyCommands' /\ MarkersAreOld'
    BY <1>1, <2>1, LockStep, TypedNext, RestOfBlockNext, OnlyCommandsNext, MarkersNext
  <2>3. ASSUME causes' = {}
        PROVE  Exact'
    <3>1. causes = {} /\ Exact
      BY <1>1, <2>1, <2>3, CausesStay DEF ExactInvariant
    <3>2. ~failed' /\ UndoneIsOwed' /\ BufferUndone' /\ BufferIsOwed' /\ BlockIsOpen'
      BY <1>1, <2>1, <2>3, <3>1, NotFailedNext, UndoneNext, BufferUndoneNext, BufferNext, BlockIsOpenNext
    <3>3. PrefixesRestore' /\ CopiesAreOwed' /\ SavedIsOwed' /\ MissedIsLogged'
      BY <1>1, <2>1, <2>3, <3>1, PrefixesNext, CopiesNext, SavedNext, MissedIsLoggedNext
    <3> QED
      BY <3>2, <3>3 DEF Exact
  <2> QED
    BY <2>2, <2>3 DEF ExactInvariant
<1>2. ASSUME ExactInvariant, UNCHANGED vars
      PROVE  ExactInvariant'
  <2>1. LockInvariant' /\ Typed'
    BY <1>2, LockStep, TypedNext DEF ExactInvariant
  <2>2. /\ UNCHANGED <<live, data, held, created, log, durable, active, txBuffer, toFlush, txPhase, undos>>
        /\ UNCHANGED <<snapPhase, toCopy, partial, snapshot, failed, txs, owed, missed, dirty, causes>>
    BY <1>2 DEF vars, memory, wal, logger, exec, saving, bounds, ghosts
  <2>3. Ideal' = Ideal /\ Db' = Db /\ Flushed' = Flushed /\ Flushing' = Flushing /\ Block' = Block
        /\ Collecting' = Collecting
    BY <2>2 DEF Ideal, Db, Flushed, Flushing, Block, Collecting
  <2>4. RestOfBlock' /\ OnlyCommands' /\ MarkersAreOld'
    BY <1>2, <2>2, <2>3 DEF ExactInvariant, RestOfBlock, OnlyCommands, MarkersAreOld
  <2>5. ASSUME Exact
        PROVE  Exact'
    <3>1. UndoneIsOwed' /\ BufferUndone' /\ BlockIsOpen'
      BY <2>2, <2>3, <2>5 DEF Exact, UndoneIsOwed, BufferUndone, BlockIsOpen
    <3>2. BufferIsOwed'
      <4>1. \A after : (BufferMakes(after) => BufferMakes(after)') /\ (FlushedMakes(after) => FlushedMakes(after)')
        BY <2>2, <2>3 DEF BufferMakes, FlushedMakes
      <4> QED
        BY <2>3, <2>5, <4>1 DEF Exact, BufferIsOwed
    <3>3. PrefixesRestore' /\ CopiesAreOwed' /\ SavedIsOwed' /\ MissedIsLogged' /\ ~failed'
      BY <2>2, <2>3, <2>5 DEF Exact, PrefixesRestore, CopiesAreOwed, SavedIsOwed, MissedIsLogged
    <3> QED
      BY <3>1, <3>2, <3>3 DEF Exact
  <2> QED
    BY <1>2, <2>1, <2>2, <2>4, <2>5 DEF ExactInvariant
<1> QED
  BY <1>1, <1>2

(* As long as none of the causes noted in the model has occurred, a crash  *)
(* at any moment restores exactly what was acknowledged: every prefix of   *)
(* the log that the crash may leave behind replays, from the snapshot, to  *)
(* the state owed for it, commits of EXECs whole or not at all (Restore of *)
(* persistence.go, CommitTx of tx_wal_logger.go, SaveSnapshot).            *)
THEOREM RecoveriesExact == Spec => []RecoveryIsExact
<1>1. Spec => []ExactInvariant
  BY ExactInit, ExactNext, PTL DEF Spec
<1> QED
  BY <1>1, ExactMeans, PTL
==============================================================================
