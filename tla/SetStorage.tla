----------------------------- MODULE SetStorage -----------------------------
(***************************************************************************)
(* One instance of the set engine, as ListStorage: `disk` is what the      *)
(* replay of the log makes of an empty engine.  SINTERSTORE, SUNIONSTORE   *)
(* and SDIFFSTORE work in two steps: under the read lock they compute what *)
(* their reply counts, and later, under the lock, what they store.  Other  *)
(* commands may come in between.                                           *)
(***************************************************************************)
EXTENDS Naturals, Sequences, FiniteSets, SequencesExt, FiniteSetsExt

CONSTANTS Key, Member,
          Absent,        \* the key is not there
          None           \* no STORE command is between its steps

VARIABLES data,          \* SetStorage.data
          disk,          \* what replaying the log makes of it
          reading,       \* a STORE command that has computed its reply
          reply          \* history: whether the last one stored what it replied

vars == <<data, disk, reading, reply>>

-----------------------------------------------------------------------------
(* A set that runs empty is deleted with its key. *)
Stored(d, k, S) == [d EXCEPT ![k] = IF S = {} THEN Absent ELSE S]

Members(d, k) == IF d[k] = Absent THEN {} ELSE d[k]

SAddNoLockAndNoWal(d, k, M) == [d EXCEPT ![k] = Members(d, k) \cup M]
SRemNoLockAndNoWal(d, k, M) == Stored(d, k, Members(d, k) \ M)

SMoveNoLockAndNoWal(d, src, dst, m) ==
    SAddNoLockAndNoWal(SRemNoLockAndNoWal(d, src, {m}), dst, {m})

SUnion(d, keys) == UNION {Members(d, keys[i]) : i \in DOMAIN keys}
SInter(d, keys) == {m \in SUnion(d, keys) : \A i \in DOMAIN keys : m \in Members(d, keys[i])}
SDiff(d, keys)  == Members(d, keys[1]) \ UNION {Members(d, keys[i]) : i \in DOMAIN keys \ {1}}

Result(op, d, keys) == CASE op = "SINTERSTORE" -> SInter(d, keys)
                         [] op = "SUNIONSTORE" -> SUnion(d, keys)
                         [] op = "SDIFFSTORE"  -> SDiff(d, keys)

(* A slip: the destination stays when the result is empty. *)
StoreKeepsDst(d, op, dst, keys) ==
    LET S == Result(op, [d EXCEPT ![dst] = Absent], keys)
    IN  IF S = {} THEN d ELSE [d EXCEPT ![dst] = S]

(* The destination is deleted before its old members are read. *)
StoreNoLockAndNoWal(d, op, dst, keys) ==
    LET emptied == [d EXCEPT ![dst] = Absent]
    IN  Stored(emptied, dst, Result(op, emptied, keys))

(* The replay of a line. *)
ProcessWalEntry(d, l) ==
    CASE l.op = "SADD"             -> SAddNoLockAndNoWal(d, l.key, l.members)
      [] l.op \in {"SREM", "SPOP"} -> SRemNoLockAndNoWal(d, l.key, l.members)
      [] l.op = "SMOVE"            -> SMoveNoLockAndNoWal(d, l.key, l.dst, l.member)
      [] l.op = "DELETE"           -> [k \in Key |-> IF k \in l.keys THEN Absent ELSE d[k]]
      [] OTHER                     -> StoreNoLockAndNoWal(d, l.op, l.dst, l.keys)

Log(line) == disk' = ProcessWalEntry(disk, line)

(* A snapshot: the keys that are there, each with its members. *)
SerializeState(d) == [k \in {j \in Key : d[j] # Absent} |-> d[k]]

DeserializeState(snapshot) ==
    [k \in Key |-> IF k \in DOMAIN snapshot THEN snapshot[k] ELSE Absent]

-----------------------------------------------------------------------------
Idle == /\ reading = None
        /\ reply = [exact |-> TRUE, ownSource |-> FALSE, disturbed |-> FALSE]

Init == /\ data = [k \in Key |-> Absent]
        /\ disk = data
        /\ Idle

(* A command that makes d of the sets and logs the line. *)
Command(d, line) ==
    /\ data' = d
    /\ Log(line)
    /\ reading' = IF reading = None THEN None
                  ELSE [reading EXCEPT !.disturbed = @ \/ d # data]
    /\ UNCHANGED reply

SAdd(k, M) ==
    Command(SAddNoLockAndNoWal(data, k, M), [op |-> "SADD", key |-> k, members |-> M])

(* Logged when something was removed. *)
SRem(k, M) ==
    /\ Members(data, k) \cap M # {}
    /\ Command(SRemNoLockAndNoWal(data, k, M), [op |-> "SREM", key |-> k, members |-> M])

(* A slip: the line holds how many members, and the replay takes its own. *)
SPopLogsCount(k, M) ==
    /\ data[k] # Absent /\ M \subseteq data[k]
    /\ \E N \in kSubset(Cardinality(M), data[k]) :
          Command(Stored(data, k, data[k] \ M), [op |-> "SPOP", key |-> k, members |-> N])

(* Removes any members, as many as were asked for, and logs which ones. *)
SPop(k, M) ==
    /\ data[k] # Absent /\ M \subseteq data[k]
    /\ Command(Stored(data, k, data[k] \ M), [op |-> "SPOP", key |-> k, members |-> M])

SMove(src, dst, m) ==
    /\ m \in Members(data, src)
    /\ Command(SMoveNoLockAndNoWal(data, src, dst, m),
               [op |-> "SMOVE", key |-> src, dst |-> dst, member |-> m])

(* DEL, and DEL_PREFIX and the like with a line per key. *)
Delete(K) ==
    Command([k \in Key |-> IF k \in K THEN Absent ELSE data[k]],
            [op |-> "DELETE", keys |-> K])

(* SInterStore, SUnionStore, SDiffStore: the first step, ... *)
StoreRead(op, dst, keys) ==
    /\ reading = None
    /\ reading' = [op |-> op, dst |-> dst, keys |-> keys,
                   result |-> Result(op, data, keys), disturbed |-> FALSE]
    /\ UNCHANGED <<data, disk, reply>>

(* ... and the second, which computes anew what it stores; the reply is    *)
(* the size of the first result.                                           *)
StoreWrite ==
    LET r == reading
    IN  /\ r # None
        /\ reading' = None
        /\ data' = StoreNoLockAndNoWal(data, r.op, r.dst, r.keys)
        /\ Log([op |-> r.op, dst |-> r.dst, keys |-> r.keys])
        /\ reply' = [exact |-> Members(data', r.dst) = r.result,
                     ownSource |-> r.dst \in ToSet(r.keys), disturbed |-> r.disturbed]

(* A stop right after a snapshot, and the next start, which should find    *)
(* what all the lines so far would have given; a STORE command that is     *)
(* between its steps is lost.                                              *)
Restart ==
    /\ data' = DeserializeState(SerializeState(data))
    /\ reading' = None
    /\ UNCHANGED <<disk, reply>>

Next == \/ \E k \in Key, M \in (SUBSET Member) \ {{}} : SAdd(k, M) \/ SRem(k, M) \/ SPop(k, M)
        \/ \E src, dst \in Key, m \in Member : SMove(src, dst, m)
        \/ \E K \in SUBSET Key : Delete(K)
        \/ \E op \in {"SINTERSTORE", "SUNIONSTORE", "SDIFFSTORE"}, dst \in Key,
              keys \in BoundedSeq(Key, 2) \ {<< >>} : StoreRead(op, dst, keys)
        \/ StoreWrite
        \/ Restart

Spec == Init /\ [][Next]_vars

-----------------------------------------------------------------------------
(* Every key that is there has a set with a member. *)
TypeOK ==
    /\ {data, disk} \subseteq [Key -> ((SUBSET Member) \ {{}}) \cup {Absent}]
    /\ reading = None \/ reading.result \subseteq Member
    /\ reply \in [{"exact", "ownSource", "disturbed"} -> BOOLEAN]

(* Replaying the log gives back the sets of the engine: what is random     *)
(* (SPOP) or depends on other keys (SMOVE, STORE) replays the same.        *)
ReplayMatchesLive == disk = data

(* A STORE command stores the result that it replies the size of, unless   *)
(* the destination is a source or another command has changed something    *)
(* between its steps.                                                      *)
StoreReplyIsExact == reply.exact \/ reply.ownSource \/ reply.disturbed
=============================================================================
