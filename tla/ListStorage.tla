---------------------------- MODULE ListStorage ----------------------------
(***************************************************************************)
(* One instance of the list engine.  Commands run under the mutex of the   *)
(* engine and log a line; replaying a line runs the same ...NoLockAndNoWal *)
(* function on what the line says, without the checks the command made.    *)
(* Instead of the log, `disk` keeps what its replay makes of an empty      *)
(* engine.  The server gives no list an expiry, so there is none here.     *)
(***************************************************************************)
EXTENDS Integers, Sequences, FiniteSets, SequencesExt

CONSTANTS Key, Value,
          Absent,        \* the key is not there
          Panic,         \* the replay has panicked, the server does not start
          MaxLen         \* bound: length of a list

VARIABLES data,          \* ListStorage.data
          disk,          \* what replaying the log makes of it
          misled         \* history: an LSET whose line says something else

vars == <<data, disk, misled>>

-----------------------------------------------------------------------------
(* A slip: a list that runs empty stays. *)
StoredEmpty(d, k, s) == [d EXCEPT ![k] = s]

(* A list that runs empty is deleted with its key. *)
Stored(d, k, s) == [d EXCEPT ![k] = IF s = << >> THEN Absent ELSE s]

Pushed(s, vals, toLeft) == IF toLeft THEN Reverse(vals) \o s ELSE s \o vals

Push(d, k, vals, toLeft) ==
    [d EXCEPT ![k] = Pushed(IF d[k] = Absent THEN << >> ELSE d[k], vals, toLeft)]

Pop(d, k, fromLeft) == Stored(d, k, IF fromLeft THEN Tail(d[k]) ELSE Front(d[k]))

MoveElement(d, from, to, srcLeft, dstLeft) ==
    Push(Pop(d, from, srcLeft), to,
         <<IF srcLeft THEN Head(d[from]) ELSE Last(d[from])>>, dstLeft)

(* Positions count from 0; one that no element has replaces nothing. *)
Replaced(s, index, v) == [i \in DOMAIN s |-> IF i = index + 1 THEN v ELSE s[i]]

(* Next to the first occurrence of the pivot, if there is one. *)
Inserted(s, pivot, v, before) ==
    LET i == SelectInSeq(s, LAMBDA x : x = pivot)
    IN  IF i = 0 THEN s ELSE InsertAt(s, IF before THEN i ELSE i + 1, v)

(* The loop from the left, which removes up to n occurrences of v. *)
RemovedLeft(s, n, v) ==
    LET after[i \in 0 .. Len(s)] ==
            IF i = 0 THEN [kept |-> << >>, left |-> n]
            ELSE LET r == after[i - 1]
                 IN  IF s[i] = v /\ r.left > 0 THEN [kept |-> r.kept, left |-> r.left - 1]
                     ELSE [kept |-> Append(r.kept, s[i]), left |-> r.left]
    IN  after[Len(s)].kept

(* A slip: a negative count removes from the left as well. *)
RemovedOneWay(s, count, v) ==
    RemovedLeft(s, IF count = 0 THEN Len(s) ELSE IF count < 0 THEN -count ELSE count, v)

Removed(s, count, v) ==
    IF count > 0 THEN RemovedLeft(s, count, v)
    ELSE IF count < 0 THEN Reverse(RemovedLeft(Reverse(s), -count, v))
    ELSE RemovedLeft(s, Len(s), v)

(* The replay of a line.  All functions but push and delete follow a nil   *)
(* pointer when the key is absent.                                         *)
ProcessWalEntry(d, l) ==
    IF d = Panic \/ (l.op \notin {"PUSH", "DELETE"} /\ d[l.key] = Absent) THEN Panic
    ELSE CASE l.op = "PUSH"    -> Push(d, l.key, l.vals, l.left)
           [] l.op = "POP"     -> Pop(d, l.key, l.left)
           [] l.op = "MOVE"    -> MoveElement(d, l.key, l.to, l.left, l.dstLeft)
           [] l.op = "REPLACE" -> [d EXCEPT ![l.key] = Replaced(@, l.index, l.value)]
           [] l.op = "INSERT"  -> [d EXCEPT ![l.key] = Inserted(@, l.pivot, l.value, l.left)]
           [] l.op = "REMOVE"  -> Stored(d, l.key, Removed(d[l.key], l.count, l.value))
           [] l.op = "DELETE"  -> [k \in Key |-> IF k \in l.keys THEN Absent ELSE d[k]]

Log(line) == disk' = ProcessWalEntry(disk, line)

(* A snapshot: the keys that are there, each with its elements.  Reading   *)
(* it pushes them one by one into new lists.                               *)
SerializeState(d) == [k \in {j \in Key : d[j] # Absent} |-> d[k]]

Reloaded(s) ==
    LET read[i \in 0 .. Len(s)] == IF i = 0 THEN << >> ELSE Append(read[i - 1], s[i])
    IN  read[Len(s)]

DeserializeState(snapshot) ==
    [k \in Key |-> IF k \in DOMAIN snapshot THEN Reloaded(snapshot[k]) ELSE Absent]

(* Reading: an index below 0 counts from the end. *)
Resolve(s, index) == IF index < 0 THEN Len(s) + index ELSE index

(* LINDEX, where an index that no element has is an error. *)
Index(s, index) ==
    LET i == Resolve(s, index)
    IN  IF i < 0 \/ i >= Len(s) THEN Absent ELSE s[i + 1]

(* LPOS: the first occurrence, or -1. *)
Pos(s, v) == SelectInSeq(s, LAMBDA x : x = v) - 1

ReadRange(s, startIndex, stopIndex) ==
    LET start == IF Resolve(s, startIndex) < 0 THEN 0 ELSE Resolve(s, startIndex)
        stop  == IF Resolve(s, stopIndex) >= Len(s) THEN Len(s) - 1 ELSE Resolve(s, stopIndex)
    IN  IF start > stop THEN << >> ELSE SubSeq(s, start + 1, stop + 1)

-----------------------------------------------------------------------------
Init == /\ data = [k \in Key |-> Absent]
        /\ disk = data
        /\ misled = FALSE

(* LPUSH and RPUSH. *)
PushNoLock(k, vals, toLeft) ==
    /\ data[k] # Absent => Len(data[k]) + Len(vals) <= MaxLen
    /\ data' = Push(data, k, vals, toLeft)
    /\ Log([op |-> "PUSH", key |-> k, vals |-> vals, left |-> toLeft])
    /\ UNCHANGED misled

(* LPOP and RPOP; an absent key is an error. *)
PopNoLock(k, fromLeft) ==
    /\ data[k] # Absent
    /\ data' = Pop(data, k, fromLeft)
    /\ Log([op |-> "POP", key |-> k, left |-> fromLeft])
    /\ UNCHANGED misled

(* RPOPLPUSH; the two keys may be the same. *)
Move(from, to) ==
    /\ data[from] # Absent
    /\ from # to /\ data[to] # Absent => Len(data[to]) < MaxLen
    /\ data' = MoveElement(data, from, to, FALSE, TRUE)
    /\ Log([op |-> "MOVE", key |-> from, to |-> to, left |-> FALSE, dstLeft |-> TRUE])
    /\ UNCHANGED misled

(* LSET: replaces at the resolved index, and logs the index as it was      *)
(* given, which the replay does not resolve.                               *)
ReplaceAtIndex(k, index, v) ==
    /\ data[k] # Absent
    /\ Resolve(data[k], index) \in 0 .. Len(data[k]) - 1
    /\ data' = [data EXCEPT ![k] = Replaced(@, Resolve(@, index), v)]
    /\ Log([op |-> "REPLACE", key |-> k, index |-> index, value |-> v])
    /\ misled' = (misled \/ (index < 0 /\ data' # data))

(* LINSERT; without the pivot nothing is done or logged. *)
Insert(k, pivot, v, before) ==
    /\ data[k] # Absent /\ Len(data[k]) < MaxLen
    /\ Contains(data[k], pivot)
    /\ data' = [data EXCEPT ![k] = Inserted(@, pivot, v, before)]
    /\ Log([op |-> "INSERT", key |-> k, pivot |-> pivot, value |-> v, left |-> before])
    /\ UNCHANGED misled

(* A slip: the line holds how many were removed instead of the count. *)
RemoveValueLogsResult(k, count, v) ==
    /\ data[k] # Absent /\ Contains(data[k], v)
    /\ data' = Stored(data, k, Removed(data[k], count, v))
    /\ Log([op |-> "REMOVE", key |-> k, value |-> v,
            count |-> Len(data[k]) - Len(Removed(data[k], count, v))])
    /\ UNCHANGED misled

(* LREM; logged when something was removed. *)
RemoveValue(k, count, v) ==
    /\ data[k] # Absent /\ Contains(data[k], v)
    /\ data' = Stored(data, k, Removed(data[k], count, v))
    /\ Log([op |-> "REMOVE", key |-> k, value |-> v, count |-> count])
    /\ UNCHANGED misled

(* DEL, and DEL_PREFIX and the like with a line per key. *)
Delete(K) ==
    /\ data' = [k \in Key |-> IF k \in K THEN Absent ELSE data[k]]
    /\ Log([op |-> "DELETE", keys |-> K])
    /\ UNCHANGED misled

(* A stop right after a snapshot, and the next start: `disk`, what all the *)
(* lines so far would have given, is what the snapshot should hold.        *)
Restart ==
    /\ data' = DeserializeState(SerializeState(data))
    /\ UNCHANGED <<disk, misled>>

Next == \/ \E k \in Key, vals \in BoundedSeq(Value, 2) \ {<< >>}, toLeft \in BOOLEAN :
              PushNoLock(k, vals, toLeft)
        \/ \E k \in Key, fromLeft \in BOOLEAN : PopNoLock(k, fromLeft)
        \/ \E from, to \in Key : Move(from, to)
        \/ \E k \in Key, index \in -MaxLen .. MaxLen, v \in Value : ReplaceAtIndex(k, index, v)
        \/ \E k \in Key, pivot, v \in Value, before \in BOOLEAN : Insert(k, pivot, v, before)
        \/ \E k \in Key, count \in -MaxLen .. MaxLen, v \in Value : RemoveValue(k, count, v)
        \/ \E K \in SUBSET Key : Delete(K)
        \/ Restart

Spec == Init /\ [][Next]_vars

-----------------------------------------------------------------------------
(* Every key that is there has a list with an element. *)
TypeOK ==
    /\ data \in [Key -> (Seq(Value) \ {<< >>}) \cup {Absent}]
    /\ disk \in [Key -> (Seq(Value) \ {<< >>}) \cup {Absent}] \cup {Panic}
    /\ misled \in BOOLEAN

(* Replaying the log gives back the lists of the engine, unless an LSET    *)
(* with an index below 0 has changed one.                                  *)
ReplayMatchesLive == ~misled => disk = data

(* The 0-based positions of those occurrences of v that LREM is to remove: *)
(* the first `count`, the last `-count`, or all.                           *)
RemovedPositions(s, count, v) ==
    LET occurrences == {i \in DOMAIN s : s[i] = v}
    IN  {i \in occurrences :
            \/ count = 0
            \/ Cardinality({j \in occurrences : j <= i}) <= count
            \/ Cardinality({j \in occurrences : j >= i}) <= -count}

(* LREM removes these elements and keeps the others in their order, for    *)
(* every list that occurs, every count and every value.                    *)
RemoveMeetsReference ==
    \A k \in Key, count \in -MaxLen .. MaxLen, v \in Value : data[k] # Absent =>
        LET s    == data[k]
            gone == RemovedPositions(s, count, v)
            r    == Removed(s, count, v)
        IN  /\ Len(r) = Len(s) - Cardinality(gone)
            /\ \A i \in DOMAIN s \ gone : r[i - Cardinality({j \in gone : j < i})] = s[i]

(* LRANGE reads the elements whose positions are between the two indices,  *)
(* wherever these point, LINDEX the only one of them when both are the     *)
(* same, and at the position that LPOS gives for a value is the first.     *)
RangeMeetsReference ==
    \A k \in Key, start, stop \in -(MaxLen + 1) .. MaxLen + 1 : data[k] # Absent =>
        LET s == data[k]
            within == {i \in DOMAIN s : i - 1 \in Resolve(s, start) .. Resolve(s, stop)}
            r == ReadRange(s, start, stop)
        IN  /\ Len(r) = Cardinality(within)
            /\ \A i \in within : r[Cardinality({j \in within : j <= i})] = s[i]
            /\ start = stop =>
                  Index(s, start) = IF within = {} THEN Absent ELSE s[CHOOSE i \in within : TRUE]
            /\ \A v \in Value : Pos(s, v) = start =>
                  IF start = -1 THEN v \notin ToSet(s)
                  ELSE Index(s, start) = v /\ v \notin ToSet(SubSeq(s, 1, start))
=============================================================================
