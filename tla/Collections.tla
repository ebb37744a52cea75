---------------------------- MODULE Collections ----------------------------
(***************************************************************************)
(* One instance that keeps collections under keys.  CREATE makes it an     *)
(* engine of lists, of sets or of sorted sets; the three keep a map and a  *)
(* log in the same way and differ in their commands.                       *)
(***************************************************************************)
EXTENDS Integers, Sequences, FiniteSets

CONSTANTS Key, Value, Absent, None, Panic,
          MaxLen,                   \* bound: length of lists
          ZKey, Member, Score, FloatSum, NaN,
          MaxLevel, MaxBatch, MaxBatchLevel   \* those of sorted sets

(* Skip lists with the elements M, as far as their types go. *)
SkipListsOf(M) ==
    [node   : [M \cup {0} -> [score : Int, backward : Int, forward : Seq(Int), span : Seq(Int)]],
     tail   : Int,
     length : Nat,
     level  : Nat]

ASSUME ConstantsAssumption ==
    /\ {MaxLen, MaxLevel, MaxBatch, MaxBatchLevel} \subseteq Nat \ {0}
    /\ Member \subseteq Nat \ {0}
    /\ Score \subseteq Int /\ NaN \notin Int /\ FloatSum \in [Score \X Score -> Score \cup {NaN}]
    /\ \A V \in SUBSET Value : V # Absent
    /\ Absent \notin Seq(Value)
    /\ \A M \in SUBSET Member : Absent \notin [dict : [M -> Int], zsl : SkipListsOf(M)]
    /\ Panic \notin [Key -> Seq(Value) \cup {Absent}]

VARIABLES kind,          \* the kind of the instance
          data, disk,    \* what its engine holds; what replaying its log gives
          misled,        \* of lists and of sorted sets: it is not followed further
          reading, reply \* of sets

L == INSTANCE ListStorage
S == INSTANCE SetStorage WITH Member <- Value
Z == INSTANCE ZSetStorage WITH Key <- ZKey, unordered <- misled

vars == <<kind, data, disk, misled, reading, reply>>

-----------------------------------------------------------------------------
(* CREATE *)
Init == \/ kind = "list" /\ L!Init /\ S!Idle
        \/ kind = "set"  /\ S!Init /\ misled = FALSE
        \/ kind = "zset" /\ Z!Init /\ S!Idle

Next == \/ kind = "list" /\ L!Next /\ UNCHANGED <<kind, reading, reply>>
        \/ kind = "set"  /\ S!Next /\ UNCHANGED <<kind, misled>>
        \/ kind = "zset" /\ Z!Next /\ UNCHANGED <<kind, reading, reply>>

Spec == Init /\ [][Next]_vars

-----------------------------------------------------------------------------
(* The state of the instance is well formed, and no key is there with an   *)
(* empty collection.                                                       *)
TypeOK == /\ kind \in {"list", "set", "zset"}
          /\ kind = "list" => L!TypeOK
          /\ kind = "set"  => S!TypeOK
          /\ kind = "zset" => Z!TypeOK

(* What a restart would make of the log is what the engine holds, although *)
(* the lines do not say what commands found, but what was asked of them.   *)
(* The exceptions are LSET with an index below 0 and a score that is NaN.  *)
ReplayMatchesLive == /\ kind = "list" => L!ReplayMatchesLive
                     /\ kind = "set"  => S!ReplayMatchesLive
                     /\ kind = "zset" => Z!ReplayMatchesLive

(* LREM and LRANGE, with their counts and indices of either sign.          *)
ListsMeetReference == kind = "list" => L!RemoveMeetsReference /\ L!RangeMeetsReference

(* What the STORE commands of sets reply is what they have stored, unless  *)
(* the destination is a source or another command came in between.         *)
StoreReplyIsExact == kind = "set" => S!StoreReplyIsExact

(* The spans of skip lists, on every level, as long as no score is NaN.    *)
SpansAreExact == kind = "zset" => misled \/ Z!SpansAreExact

(* What is read by rank or by score from a skip list, as long as no score  *)
(* is NaN.                                                                 *)
ReadsMeetReference == kind = "zset" => misled \/ Z!ReadsMeetReference
=============================================================================
