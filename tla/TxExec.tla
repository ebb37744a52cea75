------------------------------- MODULE TxExec -------------------------------
(***************************************************************************)
(* EXEC as TxBuilder builds it: one operation per queued command, which    *)
(* captures what its undo closure will need, runs the command and returns  *)
(* the closure; when a command fails, the closures run in reverse order.   *)
(* What a closure captures is written by hand for each engine, apart from  *)
(* the commands, so that it may cover less than the command changes.       *)
(*                                                                         *)
(* A place is a key of one engine.  What a command makes of a place is     *)
(* left open; which places it changes, and of which of them its closure    *)
(* knows the state before, is not.  The expiry ticker runs at any time.    *)
(* Other commands run between EXECs only (Persistence!ExecIsAlone).        *)
(***************************************************************************)
EXTENDS Integers, Sequences, FiniteSets, SequencesExt, Functions

CONSTANTS Collection,    \* engines of lists, sets and sorted sets
          Key, Value,
          Absent,        \* the key is not there
          Never,         \* the expiry of a value without one (nil)
          TTL,           \* times to live a client may ask for, in ticks
          Second,        \* ticks per second
          MaxTime,       \* bound: the clock
          MaxCommands,   \* bound: commands, in EXECs and outside
          MaxTxs         \* bound: EXECs

ASSUME ConstantsAssumption ==
    /\ {MaxTime, Second} \subseteq Nat \ {0} /\ {MaxCommands, MaxTxs} \subseteq Nat
    /\ TTL \subseteq Int /\ Never \notin Int /\ "kv" \notin Collection
    /\ IsFiniteSet(Key)

Place == ({"kv"} \cup Collection) \X Key
Time  == Int \cup {Never}
Entry == [value : Value, created : Nat, expires : Time]
Word  == [value : Value, expires : Time]   \* what a line says of a place

ASSUME AbsentAssumption == Absent \notin Entry \cup Word

VARIABLES db,        \* what the engines hold
          log,       \* the lines in the log
          now,
          txPhase,   \* "idle", or how far the EXEC under way has come
          undos,     \* its undo closures, the latest first
          txBuffer,  \* the lines TxWalLogger has collected
          commands, txs,     \* what the bounds count
          (* history, for the properties only *)
          before,    \* db at the start of the EXEC
          unsaved,   \* places it changed before a closure had captured them
          lost,      \* such places of EXECs that were rolled back
          prolonged  \* places where a closure has started a time to live anew

bounds == <<commands, txs>>
ghosts == <<before, unsaved, lost, prolonged>>
vars == <<db, log, now, txPhase, undos, txBuffer, bounds, ghosts>>

-----------------------------------------------------------------------------
IsExpired(x) == x.expires # Never /\ x.expires < now

(* An entry is there and has not expired. *)
IsLive(x) == x # Absent /\ ~IsExpired(x)

(* A value with or without a time to live, set now. *)
Fresh(v, ttl) == [value |-> v, created |-> now,
                  expires |-> IF ttl = Never THEN Never ELSE now + ttl]

(* A line keeps the value and, in whole seconds, the expiry.               *)
InSeconds(t) == IF t = Never THEN Never ELSE t - (t % Second)
Logged(x) == IF x = Absent THEN Absent ELSE [value |-> x.value, expires |-> InSeconds(x.expires)]
Line(p, x) == [place |-> p, entry |-> Logged(x)]

Lines(writes) == SetToSeq({Line(p, writes[p]) : p \in DOMAIN writes})

(* Of the lines at some positions, the last says what is there.            *)
Latest(lines, positions) == IF positions = {} THEN Absent ELSE lines[Max(positions)].entry

LastWord(lines, p) == Latest(lines, {i \in DOMAIN lines : lines[i].place = p})

(* What a restart at this moment makes of a place: a SET whose expiry has  *)
(* passed is not replayed, so that the lines before it count.              *)
Replayed(lines, p) ==
    Latest(lines, {i \in DOMAIN lines : /\ lines[i].place = p
                                        /\ lines[i].entry = Absent \/ ~IsExpired(lines[i].entry)})

Written(writes) == [p \in Place |-> IF p \in DOMAIN writes THEN writes[p] ELSE db[p]]

Init == /\ db = [p \in Place |-> Absent] /\ log = << >>
        /\ now = 1
        /\ txPhase = "idle" /\ undos = << >> /\ txBuffer = << >>
        /\ commands = 0 /\ txs = 0
        /\ before = db /\ unsaved = {} /\ lost = {} /\ prolonged = {}

-----------------------------------------------------------------------------
(* SnapshotKey, SnapshotList, SnapshotMembers, SnapshotZSetAll: what is    *)
(* there and has not expired.                                              *)
Captured(p) == IF IsLive(db[p]) THEN db[p] ELSE Absent

(* A command of the EXEC under way: `saved` is the place its closure       *)
(* captures, if it captures one, and `writes` what the command does.       *)
TxCommand(saved, writes) ==
    /\ txPhase = "exec"
    /\ commands < MaxCommands /\ commands' = commands + 1
    /\ undos' = SetToSeq({[place |-> p, entry |-> Captured(p)] : p \in saved}) \o undos
    /\ db' = Written(writes)
    /\ txBuffer' = txBuffer \o Lines(writes)
    /\ unsaved' = unsaved \cup
          {p \in DOMAIN writes \ saved : /\ writes[p] # Captured(p)
                                        /\ \A i \in DOMAIN undos : undos[i].place # p}
    /\ UNCHANGED <<log, now, txPhase, txs, before, lost, prolonged>>

One(p, x) == [q \in {p} |-> x]

(* SET, SET_TTL and DEL of the key-value engine. *)
TxSet(k, v, ttl) == TxCommand({<<"kv", k>>}, One(<<"kv", k>>, Fresh(v, ttl)))
TxDel(k)         == TxCommand({<<"kv", k>>}, One(<<"kv", k>>, Absent))

(* INCR and DECR: the value changes and keeps its expiry. *)
TxIncr(k, v) ==
    LET p == <<"kv", k>>
    IN  /\ IsLive(db[p])
        /\ TxCommand({p}, One(p, [db[p] EXCEPT !.value = v]))

(* INCRBY and DECRBY do the same, but buildKVOp looks for INCR_BY and      *)
(* DECR_BY: their closure does nothing.                                    *)
TxIncrBy(k, v) ==
    LET p == <<"kv", k>>
    IN  /\ IsLive(db[p])
        /\ TxCommand({}, One(p, [db[p] EXCEPT !.value = v]))

(* Nor do those of MSET and MSET_TTL ... *)
TxMset(K, v, ttl) == TxCommand({}, [p \in {"kv"} \X K |-> Fresh(v, ttl)])

(* ... and of DEL_PREFIX, DEL_SUFFIX and DEL_REGEX do anything; these also *)
(* delete what has expired.                                                *)
TxDelMatching(K) ==
    LET gone == {p \in {"kv"} \X Key : db[p] # Absent /\ (p[2] \in K \/ ~IsLive(db[p]))}
    IN  TxCommand({}, [p \in gone |-> Absent])

(* The reading commands delete those of the keys they meet that have       *)
(* expired: GET, EXISTS and MGET their arguments, the others all.          *)
TxRead(K) ==
    LET gone == {p \in {"kv"} \X K : db[p] # Absent /\ ~IsLive(db[p])}
    IN  /\ gone # {}
        /\ TxCommand({}, [p \in gone |-> Absent])

(* A command of a list, set or sorted set that changes its first argument: *)
(* pushes, pops, insertions, additions, removals, DEL, and the STORE       *)
(* commands, whose first argument is the destination.  Commands that only  *)
(* read have a closure too, and leave the place as it is.                  *)
TxCollection(e, k, x) == TxCommand({<<e, k>>}, One(<<e, k>>, x))

(* RPOPLPUSH and SMOVE: the closure knows the source only. *)
TxMove(e, k, l, x, y) ==
    /\ k # l
    /\ db[<<e, k>>] # Absent
    /\ TxCommand({<<e, k>>}, [p \in {e} \X {k, l} |-> IF p[2] = k THEN x ELSE y])

(* DEL_PREFIX and the like: the closure takes the pattern for a key. *)
TxCollectionDelMatching(e, pattern, K) ==
    TxCommand({<<e, pattern>>}, [p \in {q \in {e} \X K : db[q] # Absent} |-> Absent])

-----------------------------------------------------------------------------
(* Exec: under the transaction lock. *)
BeginTx ==
    /\ txPhase = "idle"
    /\ txs < MaxTxs /\ txs' = txs + 1
    /\ txPhase' = "exec" /\ undos' = << >> /\ txBuffer' = << >>
    /\ before' = db /\ unsaved' = {}
    /\ UNCHANGED <<db, log, now, commands, lost, prolonged>>

(* A command fails before it changes anything: an unknown instance, an     *)
(* absent key, a value that is not an integer, a malformed argument.  Its  *)
(* own closure is not among those that run.                                *)
TxFails ==
    /\ txPhase = "exec"
    /\ txPhase' = "rollback"
    /\ UNCHANGED <<db, log, now, undos, txBuffer, bounds, ghosts>>

(* GET, INCR and the like fail on an expired key, and delete it. *)
TxFailsExpired(k) ==
    LET p == <<"kv", k>>
    IN  /\ txPhase = "exec"
        /\ db[p] # Absent /\ ~IsLive(db[p])
        /\ txPhase' = "rollback"
        /\ db' = [db EXCEPT ![p] = Absent]
        /\ txBuffer' = Append(txBuffer, Line(p, Absent))
        /\ UNCHANGED <<log, now, undos, bounds, ghosts>>

(* What a closure puts back.  A value with a time to live starts it anew:  *)
(* SetWithTTL with the difference of the old times.                        *)
Restored(x) == IF x = Absent \/ x.expires = Never THEN x
               ELSE Fresh(x.value, x.expires - x.created)

RunUndo(u) ==
    /\ db' = [db EXCEPT ![u.place] = Restored(u.entry)]
    /\ txBuffer' = Append(txBuffer, Line(u.place, Restored(u.entry)))
    /\ prolonged' = IF u.entry = Absent \/ u.entry.expires = Never THEN prolonged
                    ELSE prolonged \cup {u.place}
    /\ UNCHANGED <<log, now, txPhase, bounds, before, unsaved, lost>>

(* A slip: the closures run in the order of the commands. *)
TxUndoForwards ==
    /\ txPhase = "rollback" /\ undos # << >>
    /\ undos' = Front(undos)
    /\ RunUndo(Last(undos))

(* One undo closure; its lines are collected as well. *)
TxUndo ==
    /\ txPhase = "rollback" /\ undos # << >>
    /\ undos' = Tail(undos)
    /\ RunUndo(Head(undos))

(* A slip: the collected lines stay in the buffer. *)
RollbackTxKeepsBuffer ==
    /\ txPhase = "rollback" /\ undos = << >>
    /\ txPhase' = "idle"
    /\ unsaved' = {} /\ lost' = lost \cup unsaved
    /\ UNCHANGED <<db, log, now, undos, txBuffer, bounds, before, prolonged>>

(* RollbackTx throws the collected lines away. *)
RollbackTx ==
    /\ txPhase = "rollback" /\ undos = << >>
    /\ txPhase' = "idle" /\ txBuffer' = << >>
    /\ unsaved' = {} /\ lost' = lost \cup unsaved
    /\ UNCHANGED <<db, log, now, undos, bounds, before, prolonged>>

(* A slip: the buffer is cleared before it is logged. *)
CommitTxClears ==
    /\ txPhase = "exec"
    /\ txPhase' = "idle" /\ undos' = << >> /\ txBuffer' = << >>
    /\ log' = log \o txBuffer'
    /\ unsaved' = {}
    /\ UNCHANGED <<db, now, bounds, before, lost, prolonged>>

(* CommitTx; the lines one by one are the subject of Persistence. *)
CommitTx ==
    /\ txPhase = "exec"
    /\ txPhase' = "idle" /\ undos' = << >> /\ txBuffer' = << >>
    /\ log' = log \o txBuffer
    /\ unsaved' = {}
    /\ UNCHANGED <<db, now, bounds, before, lost, prolonged>>

-----------------------------------------------------------------------------
(* A command outside of any EXEC, logged as it is done. *)
SingleCommand(p, x) ==
    /\ txPhase = "idle"
    /\ commands < MaxCommands /\ commands' = commands + 1
    /\ db' = [db EXCEPT ![p] = x] /\ log' = Append(log, Line(p, x))
    /\ UNCHANGED <<now, txPhase, undos, txBuffer, txs, ghosts>>

(* CleanupAllExpired does not take the transaction lock, nor does the      *)
(* key-value engine log what it removes.                                   *)
CleanupAllExpired ==
    LET due == {p \in Place : db[p] # Absent /\ db[p].expires # Never /\ db[p].expires <= now}
    IN  /\ due # {}
        /\ db' = [p \in Place |-> IF p \in due THEN Absent ELSE db[p]]
        /\ UNCHANGED <<log, now, txPhase, undos, txBuffer, bounds, ghosts>>

Tick == /\ now < MaxTime /\ now' = now + 1
        /\ UNCHANGED <<db, log, txPhase, undos, txBuffer, bounds, ghosts>>

Simple == {Absent} \cup {Fresh(v, Never) : v \in Value}

Next == \/ \E k \in Key, v \in Value, ttl \in TTL \cup {Never} : TxSet(k, v, ttl)
        \/ \E k \in Key : TxDel(k)
        \/ \E k \in Key, v \in Value : TxIncr(k, v) \/ TxIncrBy(k, v)
        \/ \E K \in (SUBSET Key) \ {{}}, v \in Value, ttl \in TTL \cup {Never} : TxMset(K, v, ttl)
        \/ \E K \in SUBSET Key : TxDelMatching(K) \/ TxRead(K)
        \/ \E k \in Key : TxFailsExpired(k)
        \/ \E e \in Collection, k \in Key, x \in Simple : TxCollection(e, k, x)
        \/ \E e \in Collection, k, l \in Key, x \in Simple, y \in Simple \ {Absent} :
              TxMove(e, k, l, x, y)
        \/ \E e \in Collection, k \in Key, K \in SUBSET Key : TxCollectionDelMatching(e, k, K)
        \/ BeginTx \/ TxFails \/ TxUndo \/ RollbackTx \/ CommitTx
        \/ \E p \in Place, x \in Simple : SingleCommand(p, x)
        \/ \E k \in Key, v \in Value, ttl \in TTL : SingleCommand(<<"kv", k>>, Fresh(v, ttl))
        \/ CleanupAllExpired
        \/ Tick

Spec == Init /\ [][Next]_vars

-----------------------------------------------------------------------------
Closure == [place : Place, entry : Entry \cup {Absent}]
Lined == [place : Place, entry : Word \cup {Absent}]

(* The state is well formed; nothing is collected, and no closure is left, *)
(* between EXECs.                                                          *)
TypeOK == /\ db \in [Place -> Entry \cup {Absent}] /\ log \in Seq(Lined)
          /\ now \in 1 .. MaxTime
          /\ txPhase \in {"idle", "exec", "rollback"}
          /\ undos \in Seq(Closure) /\ txBuffer \in Seq(Lined)
          /\ txPhase = "idle" => undos = << >> /\ txBuffer = << >>
          /\ commands \in 0 .. MaxCommands /\ txs \in 0 .. MaxTxs
          /\ {unsaved, lost, prolonged} \subseteq SUBSET Place

(* A value that a client is served for certain: at the very tick of its    *)
(* expiry the ticker may have removed it.                                  *)
Served(x) == x # Absent /\ (x.expires # Never => x.expires > now)

(* A place holds the value it had, if that has not expired meanwhile, and  *)
(* nothing if it was empty; its expiry may have moved to later.            *)
IsRestored(p) ==
    IF before[p] = Absent THEN db[p] = Absent
    ELSE Served(before[p]) => /\ IsLive(db[p]) /\ db[p].value = before[p].value
                              /\ before[p].expires = Never => db[p] = before[p]

(* Once the closures have run, every place is restored, except those that  *)
(* were changed by a command whose closure does not know them, when no     *)
(* earlier closure did: the later arguments of moves, what INCRBY, DECRBY, *)
(* MSET and MSET_TTL change, and what the pattern deletions delete.        *)
RollbackRestores ==
    txPhase = "rollback" /\ undos = << >> => \A p \in Place \ unsaved : IsRestored(p)

(* The last line of a place is a SET that the replay would skip. *)
LastSetHasExpired(p) ==
    LET word == LastWord(log, p) IN word # Absent /\ IsExpired(word)

(* Between EXECs a restart would give back what is served: every value     *)
(* with its expiry in seconds, and no other value; only what expires       *)
(* within the second may be missing.  The exceptions: places a rollback    *)
(* has left changed; one that lives on because a closure has started its   *)
(* time to live anew, which keeps its old expiry in the log; and one whose *)
(* last SET has expired, which falls back to an older value.               *)
MemoryMatchesLog ==
    txPhase = "idle" =>
        \A p \in Place \ lost :
            LET old == db[p]
                new == Replayed(log, p)
            IN  /\ Served(old) =>
                       \/ new = Logged(old)
                       \/ old.expires # Never /\ InSeconds(old.expires) <= now
                       \/ /\ p \in prolonged
                          /\ LastSetHasExpired(p) \/ (new # Absent /\ new.value = old.value)
                /\ Served(new) /\ ~LastSetHasExpired(p) => IsLive(old) /\ old.value = new.value

(* transaction.go:20: "3. Return an undo closure that restores pre-state". *)
(* When all closures have run, no value without an expiry has changed.     *)
UndoRestoresPreState ==
    txPhase = "rollback" /\ undos = << >> =>
        \A p \in Place : before[p] # Absent /\ before[p].expires = Never => db[p] = before[p]
=============================================================================
