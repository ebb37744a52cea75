---------------------------- MODULE ZSetStorage ----------------------------
(***************************************************************************)
(* One instance of the sorted set engine, as ListStorage.  A sorted set is *)
(* a map from members to scores together with a skip list, which every     *)
(* command must change alike.  The levels of nodes are random, and differ  *)
(* after a replay: `disk` keeps the maps only.                             *)
(*                                                                         *)
(* A list that holds a NaN has no order, and a member with that score is   *)
(* not deleted from it again: what the engine does from then on is not     *)
(* followed.                                                               *)
(***************************************************************************)
EXTENDS SkipList, SequencesExt, Functions

CONSTANTS Key, Member,   \* members are positive numbers
          Score,         \* the float64s that may occur, other than NaN, ...
          FloatSum,      \* ... and what two of them add up to, or NaN
          MaxBatch,      \* bound: members of one ZADD
          MaxBatchLevel, \* bound: levels its nodes draw, if it has several
          Absent         \* the key is not there

VARIABLES data,          \* ZSetStorage.data
          disk,          \* the maps that replaying the log gives
          unordered      \* a NaN has been stored

vars == <<data, disk, unordered>>

-----------------------------------------------------------------------------
EmptyDict == [m \in {} |-> 0]
EmptySet == [dict |-> EmptyDict, zsl |-> NewSkipList]

ValueAt(k) == IF data[k] = Absent THEN EmptySet ELSE data[k]
Stored(k, v) == [data EXCEPT ![k] = IF v.dict = EmptyDict THEN Absent ELSE v]

WithScore(dict, m, score) ==
    [x \in DOMAIN dict \cup {m} |-> IF x = m THEN score ELSE dict[x]]
Without(dict, M) == Restrict(dict, DOMAIN dict \ M)

Plus(a, b) == IF NaN \in {a, b} THEN NaN ELSE FloatSum[<<a, b>>]

(* One member of a ZADD: a new score moves the node. *)
Added(v, m, score, level) ==
    LET found == m \in DOMAIN v.dict
        rest  == IF found THEN DeleteElement(v.zsl, v.dict[m], m) ELSE v.zsl
    IN  IF found /\ Equal(v.dict[m], score) THEN v
        ELSE [dict |-> WithScore(v.dict, m, score), zsl |-> InsertNode(rest, level, score, m)]

(* The members of a ZADD one after the other, ... *)
AllAdded(v, members) ==
    LET after[i \in 0 .. Len(members)] ==
            IF i = 0 THEN v
            ELSE Added(after[i - 1], members[i].member, members[i].score, members[i].level)
    IN  after[Len(members)]

(* ... and what the map makes of them alone. *)
AllScored(dict, members) ==
    LET after[i \in 0 .. Len(members)] ==
            IF i = 0 THEN dict ELSE WithScore(after[i - 1], members[i].member, members[i].score)
    IN  after[Len(members)]

(* A slip: the map forgets the member, the skip list does not. *)
TakenFromDict(v, M) == [v EXCEPT !.dict = Without(v.dict, M)]

Taken(v, M) ==
    LET s == SetToSeq(M \cap DOMAIN v.dict)
        after[i \in 0 .. Len(s)] ==
            IF i = 0 THEN v.zsl ELSE DeleteElement(after[i - 1], v.dict[s[i]], s[i])
    IN  [dict |-> Without(v.dict, M), zsl |-> after[Len(s)]]

(* The replay of a line. *)
ProcessWalEntry(d, l) ==
    CASE l.op = "ZADD" ->
             [d EXCEPT ![l.key] = AllScored(@, l.members)]
      [] l.op \in {"ZREM", "ZPOPMAX", "ZPOPMIN"} ->
             [d EXCEPT ![l.key] = Without(@, l.members)]
      [] l.op = "ZINCRBY" ->
             [d EXCEPT ![l.key] =
                 WithScore(@, l.member, IF l.member \in DOMAIN @ THEN Plus(@[l.member], l.increment)
                                        ELSE l.increment)]
      [] l.op = "DELETE" ->
             [k \in Key |-> IF k \in l.keys THEN EmptyDict ELSE d[k]]

Log(line) == disk' = ProcessWalEntry(disk, line)

(* A snapshot: for a key its number of members, and what the walk along    *)
(* the lowest level of the skip list meets.  Reading takes as many members *)
(* as that number says, and each new node draws a level.                   *)
SerializeState(d) ==
    [k \in {j \in Key : d[j] # Absent} |->
        LET z == d[k].zsl
            s == Following(z, z.node[Header].forward[1], Cardinality(Elements(z)), Elements(z))
        IN  [size |-> z.length, nodes |-> [i \in DOMAIN s |-> <<s[i], z.node[s[i]].score>>]]]

ReadSet(entry, level) ==
    LET read[i \in 0 .. entry.size] ==
            IF i = 0 THEN EmptySet
            ELSE LET x == entry.nodes[i]
                 IN  [dict |-> WithScore(read[i - 1].dict, x[1], x[2]),
                      zsl  |-> InsertNode(read[i - 1].zsl, level[x[1]], x[2], x[1])]
    IN  read[entry.size]

DeserializeState(snapshot, level) ==
    [k \in Key |-> IF k \in DOMAIN snapshot THEN ReadSet(snapshot[k], level[k]) ELSE Absent]

-----------------------------------------------------------------------------
Init == /\ data = [k \in Key |-> Absent]
        /\ disk = [k \in Key |-> EmptyDict]
        /\ unordered = FALSE

(* Members with scores, and the level each new node draws. *)
ZAdd(k, members) ==
    /\ data' = Stored(k, AllAdded(ValueAt(k), members))
    /\ Log([op |-> "ZADD", key |-> k, members |-> members])
    /\ unordered' = \E i \in DOMAIN members : members[i].score = NaN

(* Logged when something was removed. *)
ZRem(k, M) ==
    /\ M \cap DOMAIN ValueAt(k).dict # {}
    /\ data' = Stored(k, Taken(data[k], M))
    /\ Log([op |-> "ZREM", key |-> k, members |-> M])
    /\ UNCHANGED unordered

(* A slip: the line holds the new score, which the replay adds. *)
ZIncrByLogsScore(k, increment, m, level) ==
    LET v == ValueAt(k)
        found == m \in DOMAIN v.dict
        new   == IF found THEN Plus(v.dict[m], increment) ELSE increment
        rest  == IF found THEN DeleteElement(v.zsl, v.dict[m], m) ELSE v.zsl
    IN  /\ data' = Stored(k, [dict |-> WithScore(v.dict, m, new),
                              zsl  |-> InsertNode(rest, level, new, m)])
        /\ Log([op |-> "ZINCRBY", key |-> k, increment |-> new, member |-> m])
        /\ unordered' = (new = NaN)

(* The node is deleted and inserted again, even if the score is the same. *)
ZIncrBy(k, increment, m, level) ==
    LET v == ValueAt(k)
        found == m \in DOMAIN v.dict
        new   == IF found THEN Plus(v.dict[m], increment) ELSE increment
        rest  == IF found THEN DeleteElement(v.zsl, v.dict[m], m) ELSE v.zsl
    IN  /\ data' = Stored(k, [dict |-> WithScore(v.dict, m, new),
                              zsl  |-> InsertNode(rest, level, new, m)])
        /\ Log([op |-> "ZINCRBY", key |-> k, increment |-> increment, member |-> m])
        /\ unordered' = (new = NaN)

(* From the tail backwards, or from the front; the line names the members. *)
ZPop(k, count, op) ==
    /\ data[k] # Absent
    /\ LET z == data[k].zsl
           popped == IF op = "ZPOPMAX" THEN Preceding(z, z.tail, count, Elements(z))
                     ELSE Following(z, z.node[Header].forward[1], count, Elements(z))
       IN  /\ data' = Stored(k, Taken(data[k], ToSet(popped)))
           /\ Log([op |-> op, key |-> k, members |-> ToSet(popped)])
           /\ UNCHANGED unordered

(* DEL, and DEL_PREFIX and the like with a line per key. *)
Delete(K) ==
    /\ data' = [k \in Key |-> IF k \in K THEN Absent ELSE data[k]]
    /\ Log([op |-> "DELETE", keys |-> K])
    /\ UNCHANGED unordered

(* A stop right after a snapshot, and the next start: `disk`, what all the *)
(* lines so far would have given, is what the snapshot should hold.        *)
Restart(level) ==
    /\ data' = DeserializeState(SerializeState(data), level)
    /\ UNCHANGED <<disk, unordered>>

Scored == [member : Member, score : Score \cup {NaN}, level : 1 .. MaxLevel]

(* The arguments of a ZADD; after a NaN the rest is not followed either. *)
Batch == {members \in BoundedSeq(Scored, MaxBatch) \ {<< >>} :
             /\ \A i \in 1 .. Len(members) - 1 : members[i].score # NaN
             /\ Len(members) > 1 => \A i \in DOMAIN members : members[i].level <= MaxBatchLevel}

Next == /\ ~unordered
        /\ \/ \E k \in Key, members \in Batch : ZAdd(k, members)
           \/ \E k \in Key, M \in SUBSET Member : ZRem(k, M)
           \/ \E k \in Key, increment \in Score \cup {NaN}, m \in Member, level \in 1 .. MaxLevel :
                 ZIncrBy(k, increment, m, level)
           \/ \E k \in Key, count \in 1 .. Cardinality(Member), op \in {"ZPOPMAX", "ZPOPMIN"} :
                 ZPop(k, count, op)
           \/ \E K \in SUBSET Key : Delete(K)
           \/ \E level \in [Key -> [Member -> 1 .. MaxLevel]] : Restart(level)

Spec == Init /\ [][Next]_vars

-----------------------------------------------------------------------------
(* The reads. *)
Resolve(z, index) == IF index < 0 THEN z.length + index ELSE index
Clamped(z, start, stop) ==
    [start |-> IF Resolve(z, start) < 0 THEN 0 ELSE Resolve(z, start),
     stop  |-> IF Resolve(z, stop) >= z.length THEN z.length - 1 ELSE Resolve(z, stop)]

ZRange(z, start, stop) ==
    LET c == Clamped(z, start, stop)
    IN  IF c.start > c.stop THEN << >>
        ELSE Following(z, GetElementByRank(z, c.start + 1), c.stop - c.start + 1, Elements(z))

ZRevRange(z, start, stop) ==
    LET c == Clamped(z, start, stop)
    IN  IF c.start > c.stop THEN << >>
        ELSE Preceding(z, GetElementByRank(z, z.length - c.start), c.stop - c.start + 1, Elements(z))

(* Both count from 0. *)
ZRank(v, m) == GetRank(v.zsl, v.dict[m], m) - 1
ZRevRank(v, m) == v.zsl.length - GetRank(v.zsl, v.dict[m], m)

ZCount(z, min, max) ==
    LET first == FirstInRangeRank(z, min)
        last  == LastInRangeRank(z, max)
    IN  IF first = 0 \/ last = 0 \/ first > last THEN 0 ELSE last - first + 1

(* A count that is not positive means all. *)
ZRangeByScore(z, min, max, offset, count) ==
    LET end   == Path(z, ScoredBelow(z, min))[1].at
        first == z.node[end].forward[1]
    IN  IF first = Nil \/ Less(max, z.node[first].score) THEN << >>
        ELSE Following(z, Skip(z, first, offset), IF count > 0 THEN count ELSE z.length,
                       ScoredUpTo(z, max))

ZRevRangeByScore(z, max, min, offset, count) ==
    LET last == Path(z, ScoredUpTo(z, max))[1].at
    IN  IF last = Header \/ Less(z.node[last].score, min) THEN << >>
        ELSE Preceding(z, SkipBack(z, last, offset), IF count > 0 THEN count ELSE z.length,
                       ScoredFrom(z, min))

-----------------------------------------------------------------------------
(* Every key that is there has a member; the skip list holds the members   *)
(* of the map, until one of them has NaN.                                  *)
TypeOK ==
    /\ unordered \in BOOLEAN
    /\ ~unordered => DOMAIN data = Key /\ DOMAIN disk = Key
    /\ \A k \in Key : ~unordered /\ data[k] # Absent =>
          /\ data[k].dict # EmptyDict
          /\ DOMAIN data[k].dict \subseteq Member
          /\ Elements(data[k].zsl) = DOMAIN data[k].dict

(* Replaying the log gives back the members and their scores.              *)
ReplayMatchesLive == unordered \/ \A k \in Key : disk[k] = ValueAt(k).dict

(* The members in the order of the reference. *)
Sorted(dict) ==
    CHOOSE s \in [1 .. Cardinality(DOMAIN dict) -> DOMAIN dict] :
        \A i, j \in DOMAIN s : i < j => \/ dict[s[i]] < dict[s[j]]
                                        \/ dict[s[i]] = dict[s[j]] /\ s[i] < s[j]

(* The links of every level lead to the next node that has the level, in   *)
(* the order of scores and members, with the distance as span (to the end  *)
(* of the list for the last); the way back mirrors the lowest level.       *)
SpansAreExact ==
    \A k \in Key : data[k] # Absent =>
        LET z == data[k].zsl
            s == Sorted(data[k].dict)
            pos(x) == IF x = Header THEN 0 ELSE CHOOSE i \in DOMAIN s : s[i] = x
            height(x) == Len(z.node[x].forward)
            after(x, i) == {j \in DOMAIN s : j > pos(x) /\ height(s[j]) >= i}
        IN  /\ Elements(z) = ToSet(s) /\ z.length = Len(s) /\ z.tail = Last(s)
            /\ z.level = Max({height(s[j]) : j \in DOMAIN s})
            /\ \A j \in DOMAIN s : z.node[s[j]].score = data[k].dict[s[j]]
                                   /\ z.node[s[j]].backward = IF j = 1 THEN Nil ELSE s[j - 1]
            /\ \A x \in DOMAIN z.node : \A i \in 1 .. height(x) :
                  IF after(x, i) = {}
                  THEN z.node[x].forward[i] = Nil
                       /\ (i <= z.level => z.node[x].span[i] = Len(s) - pos(x))
                  ELSE z.node[x].forward[i] = s[Min(after(x, i))]
                       /\ z.node[x].span[i] = Min(after(x, i)) - pos(x)

(* The elements of a sorted sequence at the given positions. *)
At(s, P) == [n \in 1 .. Cardinality(P) |->
                s[CHOOSE i \in P : Cardinality({j \in P : j <= i}) = n]]

(* Ranks, rank ranges, counts and score ranges read from the skip list     *)
(* what they would read from the sorted members, for all arguments.        *)
ReadsMeetReference ==
    \A k \in Key : data[k] # Absent =>
        LET z == data[k].zsl
            dict == data[k].dict
            s == Sorted(dict)
            Indices == -(Len(s) + 1) .. Len(s) + 1
            scored(min, max) == {i \in DOMAIN s : dict[s[i]] \in min .. max}
            cut(P, offset, count) ==
                {i \in P : LET n == Cardinality({j \in P : j <= i})
                           IN  n > offset /\ (count > 0 => n <= offset + count)}
        IN  /\ \A i \in DOMAIN s : /\ ZRank(data[k], s[i]) = i - 1
                                   /\ ZRevRank(data[k], s[i]) = Len(s) - i
            /\ \A start, stop \in Indices :
                  LET P == {i \in DOMAIN s : i - 1 \in Resolve(z, start) .. Resolve(z, stop)}
                  IN  /\ ZRange(z, start, stop) = At(s, P)
                      /\ ZRevRange(z, start, stop) = At(Reverse(s), P)
            /\ \A min, max \in Score :
                  /\ ZCount(z, min, max) = Cardinality(scored(min, max))
                  /\ \A offset, count \in 0 .. Len(s) :
                        LET back == {Len(s) + 1 - i : i \in scored(min, max)}
                        IN  /\ ZRangeByScore(z, min, max, offset, count)
                                   = At(s, cut(scored(min, max), offset, count))
                            /\ ZRevRangeByScore(z, max, min, offset, count)
                                   = At(Reverse(s), cut(back, offset, count))
=============================================================================
