-------------------------- MODULE CollectionsProofs --------------------------
(***************************************************************************)
(* Proofs about the engines of Collections.  Sets: the replay of the log,  *)
(* and the STORE commands, which compute their result twice.  Lists: the   *)
(* replay of the log, and what LREM and the reads come to.  Sorted sets:   *)
(* that their skip lists stay skip lists, with exact spans, the replay of  *)
(* the log, and what the reads find.  At the end, an instance of any kind. *)
(***************************************************************************)
EXTENDS Collections, SequenceLemmas, TLAPS

SetOrAbsent == ((SUBSET Value) \ {{}}) \cup {Absent}

StoreOp == {"SINTERSTORE", "SUNIONSTORE", "SDIFFSTORE"}

(* A STORE command that is between its steps, and undisturbed, would read  *)
(* the same result again.                                                  *)
ReadingIsValid ==
    reading # None =>
        /\ reading \in [op : StoreOp, dst : Key, keys : Seq(Key) \ {<< >>},
                        result : SUBSET Value, disturbed : BOOLEAN]
        /\ ~reading.disturbed => reading.result = S!Result(reading.op, data, reading.keys)

SetInvariant ==
    kind = "set" => /\ data \in [Key -> SetOrAbsent]
                    /\ disk = data
                    /\ ReadingIsValid
                    /\ S!StoreReplyIsExact

(* Reading a key yields a set of members. *)
LEMMA MembersType ==
  ASSUME NEW d \in [Key -> SetOrAbsent], NEW k \in Key
  PROVE  S!Members(d, k) \in SUBSET Value
BY DEF SetOrAbsent, S!Members

(* What Stored puts under a key is what is read there, and other keys keep *)
(* what they have.                                                         *)
LEMMA StoredProperties ==
  ASSUME NEW d \in [Key -> SetOrAbsent], NEW k \in Key, NEW M \in SUBSET Value
  PROVE  /\ S!Stored(d, k, M) \in [Key -> SetOrAbsent]
         /\ S!Members(S!Stored(d, k, M), k) = M
         /\ \A j \in Key \ {k} : S!Stored(d, k, M)[j] = d[j]
<1>1. M # Absent
  BY ConstantsAssumption
<1> QED
  BY <1>1 DEF SetOrAbsent, S!Stored, S!Members

(* SADD, SREM and SMOVE make sets of sets. *)
LEMMA AddRemType ==
  ASSUME NEW d \in [Key -> SetOrAbsent], NEW k \in Key, NEW M \in SUBSET Value
  PROVE  /\ M # {} => S!SAddNoLockAndNoWal(d, k, M) \in [Key -> SetOrAbsent]
         /\ S!SRemNoLockAndNoWal(d, k, M) \in [Key -> SetOrAbsent]
<1>1. S!Members(d, k) \in SUBSET Value
  BY MembersType
<1>2. S!Members(d, k) \ M \in SUBSET Value
  BY <1>1
<1>3. S!SRemNoLockAndNoWal(d, k, M) \in [Key -> SetOrAbsent]
  BY <1>2, StoredProperties DEF S!SRemNoLockAndNoWal
<1>4. M # {} => S!Members(d, k) \cup M \in SetOrAbsent
  BY <1>1 DEF SetOrAbsent
<1>5. M # {} => S!SAddNoLockAndNoWal(d, k, M) \in [Key -> SetOrAbsent]
  BY <1>4 DEF S!SAddNoLockAndNoWal
<1> QED
  BY <1>3, <1>5

(* The result of a STORE command depends on its sources only. *)
LEMMA ResultOfSources ==
  ASSUME NEW op \in StoreOp, NEW keys \in Seq(Key) \ {<< >>},
         NEW d \in [Key -> SetOrAbsent], NEW e \in [Key -> SetOrAbsent],
         \A i \in DOMAIN keys : d[keys[i]] = e[keys[i]]
  PROVE  /\ S!Result(op, d, keys) = S!Result(op, e, keys)
         /\ S!Result(op, d, keys) \in SUBSET Value
<1>1. 1 \in DOMAIN keys /\ \A i \in DOMAIN keys : keys[i] \in Key
  OBVIOUS
<1>2. \A i \in DOMAIN keys : /\ S!Members(d, keys[i]) = S!Members(e, keys[i])
                             /\ S!Members(d, keys[i]) \in SUBSET Value
  BY <1>1, MembersType DEF S!Members
<1>3. /\ S!SUnion(d, keys) = S!SUnion(e, keys)
      /\ S!SUnion(d, keys) \in SUBSET Value
  BY <1>2 DEF S!SUnion
<1>4. /\ S!SInter(d, keys) = S!SInter(e, keys)
      /\ S!SInter(d, keys) \in SUBSET Value
  BY <1>2, <1>3 DEF S!SInter
<1>5. /\ S!SDiff(d, keys) = S!SDiff(e, keys)
      /\ S!SDiff(d, keys) \in SUBSET Value
  BY <1>1, <1>2 DEF S!SDiff
<1> QED
  BY <1>3, <1>4, <1>5 DEF S!Result, StoreOp

(* A command whose line replays to what the command has made keeps the     *)
(* invariant: a STORE command between its steps is disturbed if anything   *)
(* has changed.                                                            *)
LEMMA CommandKeepsInvariant ==
  ASSUME kind = "set", SetInvariant, NEW d \in [Key -> SetOrAbsent], NEW line,
         S!ProcessWalEntry(data, line) = d, S!Command(d, line)
  PROVE  /\ data' \in [Key -> SetOrAbsent]
         /\ disk' = data'
         /\ ReadingIsValid'
         /\ S!StoreReplyIsExact'
<1> USE DEF SetInvariant
<1>1. data' \in [Key -> SetOrAbsent] /\ disk' = data'
  BY DEF S!Command, S!Log
<1>2. ReadingIsValid'
  <2>1. CASE reading = None
    BY <2>1 DEF ReadingIsValid, S!Command
  <2>2. CASE reading # None
    <3>1. reading' = [reading EXCEPT !.disturbed = @ \/ d # data] /\ data' = d
      BY <2>2 DEF S!Command
    <3>2. /\ reading \in [op : StoreOp, dst : Key, keys : Seq(Key) \ {<< >>},
                          result : SUBSET Value, disturbed : BOOLEAN]
          /\ ~reading.disturbed => reading.result = S!Result(reading.op, data, reading.keys)
      BY <2>2 DEF ReadingIsValid
    <3>3. /\ reading' \in [op : StoreOp, dst : Key, keys : Seq(Key) \ {<< >>},
                           result : SUBSET Value, disturbed : BOOLEAN]
          /\ reading'.op = reading.op /\ reading'.keys = reading.keys
          /\ reading'.result = reading.result
      BY <3>1, <3>2
    <3>4. ~reading'.disturbed => ~reading.disturbed /\ data' = data
      BY <3>1, <3>2
    <3> QED
      BY <3>2, <3>3, <3>4 DEF ReadingIsValid
  <2> QED
    BY <2>1, <2>2
<1>3. S!StoreReplyIsExact'
  BY DEF S!StoreReplyIsExact, S!Command
<1> QED
  BY <1>1, <1>2, <1>3

(* The replay of the line of SADD, SREM or SPOP makes what the command has *)
(* made, ...                                                               *)
LEMMA AddRemPopKeepInvariant ==
  ASSUME kind = "set", SetInvariant, NEW k \in Key, NEW M \in (SUBSET Value) \ {{}},
         S!SAdd(k, M) \/ S!SRem(k, M) \/ S!SPop(k, M)
  PROVE  /\ data' \in [Key -> SetOrAbsent]
         /\ disk' = data'
         /\ ReadingIsValid'
         /\ S!StoreReplyIsExact'
<1>1. data \in [Key -> SetOrAbsent]
  BY DEF SetInvariant
<1>2. CASE S!SAdd(k, M)
  <2> DEFINE line == [op |-> "SADD", key |-> k, members |-> M]
             d    == S!SAddNoLockAndNoWal(data, k, M)
  <2>1. S!ProcessWalEntry(data, line) = d
    BY DEF S!ProcessWalEntry
  <2>2. d \in [Key -> SetOrAbsent]
    BY <1>1, <1>2, AddRemType
  <2>3. S!Command(d, line)
    BY <1>2 DEF S!SAdd
  <2> HIDE DEF line, d
  <2> QED
    BY <2>1, <2>2, <2>3, CommandKeepsInvariant
<1>3. CASE S!SRem(k, M)
  <2> DEFINE line == [op |-> "SREM", key |-> k, members |-> M]
             d    == S!SRemNoLockAndNoWal(data, k, M)
  <2>1. S!ProcessWalEntry(data, line) = d
    BY DEF S!ProcessWalEntry
  <2>2. d \in [Key -> SetOrAbsent]
    BY <1>1, AddRemType
  <2>3. S!Command(d, line)
    BY <1>3 DEF S!SRem
  <2> HIDE DEF line, d
  <2> QED
    BY <2>1, <2>2, <2>3, CommandKeepsInvariant
<1>4. CASE S!SPop(k, M)
  <2> DEFINE line == [op |-> "SPOP", key |-> k, members |-> M]
             d    == S!Stored(data, k, data[k] \ M)
  <2>1. data[k] = S!Members(data, k)
    BY <1>4 DEF S!SPop, S!Members
  <2>2. S!ProcessWalEntry(data, line) = d
    BY <2>1 DEF S!ProcessWalEntry, S!SRemNoLockAndNoWal
  <2>3. d = S!SRemNoLockAndNoWal(data, k, M)
    BY <2>1 DEF S!SRemNoLockAndNoWal
  <2>4. S!Command(d, line)
    BY <1>4 DEF S!SPop
  <2> HIDE DEF line, d
  <2>5. d \in [Key -> SetOrAbsent]
    BY <1>1, <2>3, AddRemType
  <2> QED
    BY <2>2, <2>4, <2>5, CommandKeepsInvariant
<1> QED
  BY <1>2, <1>3, <1>4

(* ... and so do that of SMOVE ...                                         *)
LEMMA MoveKeepsInvariant ==
  ASSUME kind = "set", SetInvariant, NEW k \in Key, NEW dst \in Key, NEW m \in Value,
         S!SMove(k, dst, m)
  PROVE  /\ data' \in [Key -> SetOrAbsent]
         /\ disk' = data'
         /\ ReadingIsValid'
         /\ S!StoreReplyIsExact'
<1>1. data \in [Key -> SetOrAbsent]
  BY DEF SetInvariant
<1> DEFINE line    == [op |-> "SMOVE", key |-> k, dst |-> dst, member |-> m]
           removed == S!SRemNoLockAndNoWal(data, k, {m})
           d       == S!SMoveNoLockAndNoWal(data, k, dst, m)
<1>2. S!ProcessWalEntry(data, line) = d
  BY DEF S!ProcessWalEntry
<1>3. {m} \in SUBSET Value /\ {m} # {}
  OBVIOUS
<1>4. removed \in [Key -> SetOrAbsent]
  BY <1>1, <1>3, AddRemType
<1>5. d = S!SAddNoLockAndNoWal(removed, dst, {m})
  BY DEF S!SMoveNoLockAndNoWal
<1>6. S!Command(d, line)
  BY DEF S!SMove
<1> HIDE DEF line, d, removed
<1>7. d \in [Key -> SetOrAbsent]
  BY <1>3, <1>4, <1>5, AddRemType
<1> QED
  BY <1>2, <1>6, <1>7, CommandKeepsInvariant

(* ... and that of DELETE.                                                 *)
LEMMA DeleteKeepsInvariant ==
  ASSUME kind = "set", SetInvariant, NEW K \in SUBSET Key, S!Delete(K)
  PROVE  /\ data' \in [Key -> SetOrAbsent]
         /\ disk' = data'
         /\ ReadingIsValid'
         /\ S!StoreReplyIsExact'
<1>1. data \in [Key -> SetOrAbsent]
  BY DEF SetInvariant
<1> DEFINE line == [op |-> "DELETE", keys |-> K]
           d    == [j \in Key |-> IF j \in K THEN Absent ELSE data[j]]
<1>2. S!ProcessWalEntry(data, line) = d
  BY DEF S!ProcessWalEntry
<1>3. d \in [Key -> SetOrAbsent]
  <2>1. \A j \in Key : data[j] \in SetOrAbsent /\ Absent \in SetOrAbsent
    BY <1>1 DEF SetOrAbsent
  <2> QED
    BY <2>1
<1>4. S!Command(d, line)
  BY DEF S!Delete
<1> HIDE DEF line, d
<1> QED
  BY <1>2, <1>3, <1>4, CommandKeepsInvariant

(* The first step of a STORE command changes no set. *)
LEMMA StoreReadKeepsInvariant ==
  ASSUME kind = "set", SetInvariant, NEW op \in StoreOp, NEW dst \in Key,
         NEW keys \in Seq(Key) \ {<< >>}, S!StoreRead(op, dst, keys)
  PROVE  /\ data' \in [Key -> SetOrAbsent]
         /\ disk' = data'
         /\ ReadingIsValid'
         /\ S!StoreReplyIsExact'
<1>1. data' = data /\ disk' = disk /\ reply' = reply
  BY DEF S!StoreRead
<1>2. S!Result(op, data, keys) \in SUBSET Value
  BY ResultOfSources DEF SetInvariant
<1>3. reading' = [op |-> op, dst |-> dst, keys |-> keys,
                  result |-> S!Result(op, data, keys), disturbed |-> FALSE]
  BY DEF S!StoreRead
<1>4. /\ reading' \in [op : StoreOp, dst : Key, keys : Seq(Key) \ {<< >>},
                       result : SUBSET Value, disturbed : BOOLEAN]
      /\ reading'.result = S!Result(reading'.op, data, reading'.keys)
  BY <1>2, <1>3
<1>5. ReadingIsValid'
  BY <1>1, <1>4 DEF ReadingIsValid
<1> QED
  BY <1>1, <1>5 DEF SetInvariant, S!StoreReplyIsExact

(* The second step stores what the first has read, as its sources hold     *)
(* what they held then, and deleting the destination changes none of them. *)
LEMMA StoreWriteKeepsInvariant ==
  ASSUME kind = "set", SetInvariant, S!StoreWrite
  PROVE  /\ data' \in [Key -> SetOrAbsent]
         /\ disk' = data'
         /\ ReadingIsValid'
         /\ S!StoreReplyIsExact'
<1> DEFINE r       == reading
           line    == [op |-> r.op, dst |-> r.dst, keys |-> r.keys]
           emptied == [data EXCEPT ![r.dst] = Absent]
           result  == S!Result(r.op, emptied, r.keys)
<1>1. /\ r \in [op : StoreOp, dst : Key, keys : Seq(Key) \ {<< >>},
                result : SUBSET Value, disturbed : BOOLEAN]
      /\ ~r.disturbed => r.result = S!Result(r.op, data, r.keys)
  BY DEF S!StoreWrite, SetInvariant, ReadingIsValid
<1>2. data \in [Key -> SetOrAbsent] /\ disk = data
  BY DEF SetInvariant
<1>3. /\ r.op \in StoreOp /\ r.dst \in Key /\ r.keys \in Seq(Key) \ {<< >>}
      /\ emptied \in [Key -> SetOrAbsent]
  BY <1>1, <1>2 DEF SetOrAbsent
<1>4. result \in SUBSET Value
  BY <1>3, ResultOfSources
<1>5. data' = S!Stored(emptied, r.dst, result)
  BY DEF S!StoreWrite, S!StoreNoLockAndNoWal
<1>6. disk' = data'
  <2>1. S!ProcessWalEntry(data, line) = S!StoreNoLockAndNoWal(data, r.op, r.dst, r.keys)
    BY <1>3 DEF S!ProcessWalEntry, StoreOp
  <2> QED
    BY <1>2, <2>1 DEF S!StoreWrite, S!Log
<1>7. data' \in [Key -> SetOrAbsent] /\ S!Members(data', r.dst) = result
  <2> HIDE DEF r, emptied, result
  <2> QED
    BY <1>3, <1>4, <1>5, StoredProperties
<1>8. ReadingIsValid'
  BY DEF ReadingIsValid, S!StoreWrite
<1>9. ~r.disturbed /\ r.dst \notin S!ToSet(r.keys) => result = r.result
  <2>1. SUFFICES ASSUME ~r.disturbed, r.dst \notin S!ToSet(r.keys)
                 PROVE  result = r.result
    OBVIOUS
  <2>2. \A i \in DOMAIN r.keys : emptied[r.keys[i]] = data[r.keys[i]]
    BY <1>2, <1>3, <2>1 DEF S!ToSet
  <2>3. result = S!Result(r.op, data, r.keys)
    BY <1>2, <1>3, <2>2, ResultOfSources
  <2> QED
    BY <1>1, <2>1, <2>3
<1>10. reply' = [exact |-> S!Members(data', r.dst) = r.result,
                 ownSource |-> r.dst \in S!ToSet(r.keys), disturbed |-> r.disturbed]
  BY DEF S!StoreWrite
<1>11. S!StoreReplyIsExact'
  <2> HIDE DEF r, result
  <2>1. CASE r.disturbed
    BY <1>10, <2>1 DEF S!StoreReplyIsExact
  <2>2. CASE r.dst \in S!ToSet(r.keys)
    BY <1>10, <2>2 DEF S!StoreReplyIsExact
  <2>3. CASE ~r.disturbed /\ r.dst \notin S!ToSet(r.keys)
    <3>1. S!Members(data', r.dst) = r.result
      BY <1>7, <1>9, <2>3
    <3> QED
      BY <1>10, <3>1 DEF S!StoreReplyIsExact
  <2> QED
    BY <2>1, <2>2, <2>3
<1> QED
  BY <1>6, <1>7, <1>8, <1>11

(* A snapshot gives back the sets it was made of. *)
LEMMA RestartKeepsInvariant ==
  ASSUME kind = "set", SetInvariant, S!Restart
  PROVE  /\ data' \in [Key -> SetOrAbsent]
         /\ disk' = data'
         /\ ReadingIsValid'
         /\ S!StoreReplyIsExact'
<1>1. data \in [Key -> SetOrAbsent] /\ disk = data /\ S!StoreReplyIsExact
  BY DEF SetInvariant
<1>2. S!DeserializeState(S!SerializeState(data)) = data
  BY <1>1 DEF S!DeserializeState, S!SerializeState
<1>3. data' = data /\ disk' = disk /\ reading' = None /\ reply' = reply
  BY <1>2 DEF S!Restart
<1> QED
  BY <1>1, <1>3 DEF ReadingIsValid, S!StoreReplyIsExact

(* Every step of an instance of sets keeps the invariant. *)
LEMMA StepKeepsInvariant ==
  ASSUME SetInvariant, [Next]_vars
  PROVE  SetInvariant'
<1> SUFFICES ASSUME kind' = "set"
             PROVE  /\ data' \in [Key -> SetOrAbsent]
                    /\ disk' = data'
                    /\ ReadingIsValid'
                    /\ S!StoreReplyIsExact'
  BY DEF SetInvariant
<1>1. kind = "set"
  BY DEF Next, vars
<1>2. CASE UNCHANGED vars
  BY <1>1, <1>2 DEF SetInvariant, ReadingIsValid, S!StoreReplyIsExact, vars
<1>3. CASE S!Next
  <2>1. CASE \E k \in Key, M \in (SUBSET Value) \ {{}} : S!SAdd(k, M) \/ S!SRem(k, M) \/ S!SPop(k, M)
    <3>1. PICK k \in Key, M \in (SUBSET Value) \ {{}} :
             S!SAdd(k, M) \/ S!SRem(k, M) \/ S!SPop(k, M)
      BY <2>1
    <3> QED
      BY <1>1, <3>1, AddRemPopKeepInvariant
  <2>2. CASE \E src, dst \in Key, m \in Value : S!SMove(src, dst, m)
    <3>1. PICK src \in Key, dst \in Key, m \in Value : S!SMove(src, dst, m)
      BY <2>2
    <3> QED
      BY <1>1, <3>1, MoveKeepsInvariant
  <2>3. CASE \E K \in SUBSET Key : S!Delete(K)
    BY <1>1, <2>3, DeleteKeepsInvariant
  <2>4. CASE \E op \in StoreOp, dst \in Key, keys \in S!BoundedSeq(Key, 2) \ {<< >>} :
               S!StoreRead(op, dst, keys)
    <3>1. PICK op \in StoreOp, dst \in Key, keys \in S!BoundedSeq(Key, 2) \ {<< >>} :
             S!StoreRead(op, dst, keys)
      BY <2>4
    <3>2. S!BoundedSeq(Key, 2) = UNION {[1 .. n -> Key] : n \in 0 .. 2}
      BY DEF S!BoundedSeq, S!SeqOf
    <3>3. PICK n \in 0 .. 2 : keys \in [1 .. n -> Key]
      BY <3>1, <3>2
    <3>4. keys \in Seq(Key) \ {<< >>}
      BY <3>1, <3>3
    <3> QED
      BY <1>1, <3>1, <3>4, StoreReadKeepsInvariant
  <2>5. CASE S!StoreWrite
    BY <1>1, <2>5, StoreWriteKeepsInvariant
  <2>6. CASE S!Restart
    BY <1>1, <2>6, RestartKeepsInvariant
  <2> QED
    BY <1>3, <2>1, <2>2, <2>3, <2>4, <2>5, <2>6 DEF S!Next, StoreOp
<1> QED
  BY <1>1, <1>2, <1>3 DEF Next

(* SetInvariant holds in every state. *)
THEOREM SetsSafe == Spec => []SetInvariant
<1>1. Init => SetInvariant
  BY DEF Init, SetInvariant, S!Init, S!Idle, ReadingIsValid, S!StoreReplyIsExact, SetOrAbsent
<1>2. SetInvariant /\ [Next]_vars => SetInvariant'
  BY StepKeepsInvariant
<1> QED
  BY <1>1, <1>2, PTL DEF Spec

(* SINTERSTORE, SUNIONSTORE and SDIFFSTORE, which compute their reply      *)
(* under the read lock (set_storage.go) and their result anew under the    *)
(* lock, reply the size of what they store whenever the destination is not *)
(* a source and no set changed in between: for any number of keys, members *)
(* and sources.                                                            *)
THEOREM StoreRepliesExact == Spec => []StoreReplyIsExact
<1>1. SetInvariant => StoreReplyIsExact
  BY DEF SetInvariant, StoreReplyIsExact
<1> QED
  BY <1>1, SetsSafe, PTL

(* Replaying the log of a set engine (ProcessWalEntry) gives back its      *)
(* sets, although a line of SPOP follows a random choice and lines of      *)
(* SMOVE and the STORE commands name keys instead of members.              *)
THEOREM SetsReplay == Spec => [](kind = "set" => S!ReplayMatchesLive)
<1>1. SetInvariant => (kind = "set" => S!ReplayMatchesLive)
  BY DEF SetInvariant, S!ReplayMatchesLive
<1> QED
  BY <1>1, SetsSafe, PTL


-----------------------------------------------------------------------------
(* Reading a snapshot pushes the elements of a list one by one, and so     *)
(* builds the list they came from.                                         *)
LEMMA ReloadedIs ==
  ASSUME NEW T, NEW s \in Seq(T)
  PROVE  L!Reloaded(s) = s
<1> DEFINE R(a) == a = [i \in 0 .. Len(s) |-> IF i = 0 THEN << >> ELSE Append(a[i - 1], s[i])]
           first == [i \in 0 .. Len(s) |-> SubSeq(s, 1, i)]
           read == CHOOSE a : R(a)
<1>1. Len(s) \in Nat /\ \A i \in 1 .. Len(s) : s[i] \in T
  OBVIOUS
<1>2. R(first)
  <2>1. ASSUME NEW i \in 0 .. Len(s)
        PROVE  first[i] = IF i = 0 THEN << >> ELSE Append(first[i - 1], s[i])
    <3>1. CASE i = 0
      BY <3>1
    <3>2. CASE i # 0
      <4>1. i - 1 \in 0 .. Len(s) /\ i \in 1 .. Len(s)
        BY <1>1, <3>2
      <4>2. SubSeq(s, 1, i) = Append(SubSeq(s, 1, i - 1), s[i])
        BY <4>1
      <4> QED
        BY <3>2, <4>1, <4>2
    <3> QED
      BY <3>1, <3>2
  <2>2. first = [i \in 0 .. Len(s) |-> first[i]]
    OBVIOUS
  <2> HIDE DEF first
  <2> QED
    BY <2>1, <2>2
<1>3. R(read)
  <2> HIDE DEF R, first
  <2> QED
    BY <1>2
<1>4. L!Reloaded(s) = read[Len(s)]
  BY DEF L!Reloaded
<1> DEFINE Done == {i \in 0 .. Len(s) : read[i] = SubSeq(s, 1, i)}
<1> HIDE DEF read
<1>5. 0 \in Done
  BY <1>1, <1>3
<1>6. ASSUME NEW i \in 0 .. Len(s) - 1, i \in Done
      PROVE  i + 1 \in Done
  <2>1. i + 1 \in 0 .. Len(s) /\ i + 1 # 0 /\ i + 1 \in 1 .. Len(s) /\ (i + 1) - 1 = i
    BY <1>1
  <2>2. read[i + 1] = Append(read[i], s[i + 1])
    BY <1>3, <2>1
  <2>3. SubSeq(s, 1, i + 1) = Append(SubSeq(s, 1, i), s[i + 1])
    BY <2>1
  <2> QED
    BY <1>6, <2>1, <2>2, <2>3
<1>7. 0 .. Len(s) \subseteq Done
  <2> HIDE DEF Done
  <2> QED
    BY <1>1, <1>5, <1>6, CountingUp
<1>8. read[Len(s)] = SubSeq(s, 1, Len(s))
  BY <1>1, <1>7
<1> QED
  BY <1>1, <1>4, <1>8

-----------------------------------------------------------------------------
(* The loop of LREM, element by element. *)
TakeOne(r, x, v) == IF x = v /\ r.left > 0 THEN [kept |-> r.kept, left |-> r.left - 1]
                    ELSE [kept |-> Append(r.kept, x), left |-> r.left]
Removes(after, s, n, v, X) ==
    /\ after \in [0 .. Len(s) -> X] /\ after[0] = [kept |-> << >>, left |-> n]
    /\ \A i \in 1 .. Len(s) : after[i] = TakeOne(after[i - 1], s[i], v)
    /\ L!RemovedLeft(s, n, v) = after[Len(s)].kept


(* The loop takes its steps one after the other. *)
LEMMA RemovalSteps ==
  ASSUME NEW T, NEW s \in Seq(T), NEW n \in Nat, NEW v
  PROVE  \E after : Removes(after, s, n, v, [kept : Seq(T), left : Nat])
<1> DEFINE X == [kept : Seq(T), left : Nat]
           F == [p \in X \X T |-> TakeOne(p[1], p[2], v)]
           s0 == [kept |-> << >>, left |-> n]
           R(a) == a = [i \in 0 .. Len(s) |-> IF i = 0 THEN s0 ELSE TakeOne(a[i - 1], s[i], v)]
           after == CHOOSE a : R(a)
<1>1. Len(s) \in Nat /\ \A i \in 1 .. Len(s) : s[i] \in T
  OBVIOUS
<1>2. F \in [X \X T -> X]
  <2>1. ASSUME NEW r \in X, NEW x \in T
        PROVE  TakeOne(r, x, v) \in X
    <3>1. r.kept \in Seq(T) /\ r.left \in Nat /\ Append(r.kept, x) \in Seq(T)
      OBVIOUS
    <3> QED
      BY <3>1 DEF TakeOne
  <2> HIDE DEF X
  <2> QED
    BY <2>1
<1>3. s0 \in X
  OBVIOUS
<1>4. PICK a \in [0 .. Len(s) -> X] :
         a[0] = s0 /\ \A i \in 1 .. Len(s) : a[i] = F[<<a[i - 1], s[i]>>]
  <2> HIDE DEF F, X, s0
  <2>1. \E a : IsRun(a, X, F, s0, s)
    BY <1>2, <1>3, StepsExist
  <2> QED
    BY <2>1 DEF IsRun
<1>5. R(a)
  <2> HIDE DEF X, s0
  <2>1. ASSUME NEW i \in 1 .. Len(s)
        PROVE  F[<<a[i - 1], s[i]>>] = TakeOne(a[i - 1], s[i], v)
    <3>1. i - 1 \in 0 .. Len(s)
      BY <1>1
    <3>2. a[i - 1] \in X /\ s[i] \in T
      BY <1>1, <3>1
    <3> QED
      BY <3>2
  <2> HIDE DEF F
  <2>2. ASSUME NEW i \in 0 .. Len(s)
        PROVE  a[i] = IF i = 0 THEN s0 ELSE TakeOne(a[i - 1], s[i], v)
    <3>1. CASE i = 0
      BY <1>4, <3>1
    <3>2. CASE i # 0
      <4>1. i \in 1 .. Len(s)
        BY <1>1, <3>2
      <4> QED
        BY <1>4, <2>1, <3>2, <4>1
    <3> QED
      BY <3>1, <3>2
  <2> QED
    BY <2>2
<1>6. R(after)
  <2> HIDE DEF R
  <2> QED
    BY <1>5
<1>7. /\ after[0] = s0
      /\ \A i \in 1 .. Len(s) : after[i] = TakeOne(after[i - 1], s[i], v)
  <2> HIDE DEF after, s0
  <2>1. \A i \in 1 .. Len(s) : i # 0 /\ i \in 0 .. Len(s)
    BY <1>1
  <2>2. \A i \in 0 .. Len(s) : after[i] = IF i = 0 THEN s0 ELSE TakeOne(after[i - 1], s[i], v)
    BY <1>6
  <2>3. 0 \in 0 .. Len(s)
    BY <1>1
  <2> QED
    BY <2>1, <2>2, <2>3
<1>8. L!RemovedLeft(s, n, v) = after[Len(s)].kept
  BY DEF L!RemovedLeft, TakeOne
<1> DEFINE Done == {i \in 0 .. Len(s) : after[i] = a[i]}
<1> HIDE DEF after, R, s0
<1>9. 0 .. Len(s) \subseteq Done
  <2>1. 0 \in Done
    BY <1>1, <1>4, <1>7
  <2>2. ASSUME NEW i \in 0 .. Len(s) - 1, i \in Done
        PROVE  i + 1 \in Done
    <3>1. i + 1 \in 0 .. Len(s) /\ i + 1 # 0 /\ i + 1 \in 1 .. Len(s) /\ (i + 1) - 1 = i
      BY <1>1
    <3>2. after[i + 1] = TakeOne(after[i], s[i + 1], v)
      BY <1>7, <3>1
    <3>3. a[i + 1] = TakeOne(a[i], s[i + 1], v)
      BY <1>5, <3>1 DEF R
    <3> QED
      BY <2>2, <3>1, <3>2, <3>3
  <2> HIDE DEF Done
  <2> QED
    BY <1>1, <2>1, <2>2, CountingUp
<1>10. after = a
  <2>1. after = [i \in 0 .. Len(s) |-> IF i = 0 THEN s0 ELSE TakeOne(after[i - 1], s[i], v)]
    BY <1>6 DEF R
  <2>2. a = [i \in 0 .. Len(s) |-> a[i]] /\ after = [i \in 0 .. Len(s) |-> after[i]]
    <3>1. after = [i \in 0 .. Len(s) |-> after[i]]
      BY <2>1
    <3> QED
      BY <1>4, <3>1
  <2> QED
    BY <1>9, <2>2
<1>11. after \in [0 .. Len(s) -> X]
  BY <1>4, <1>10
<1> QED
  BY <1>7, <1>8, <1>11 DEF Removes, s0

-----------------------------------------------------------------------------
(* The maps from keys to lists; an absent key is told from a list. *)
ListOrAbsent == (Seq(Value) \ {<< >>}) \cup {Absent}
Lists == [Key -> ListOrAbsent]

(* The same list backwards, for which L has a name of its own. *)
LEMMA ReverseType ==
  ASSUME NEW T, NEW s \in Seq(T)
  PROVE  /\ L!Reverse(s) \in Seq(T) /\ Len(L!Reverse(s)) = Len(s)
         /\ \A i \in 1 .. Len(s) : L!Reverse(s)[i] = s[Len(s) + 1 - i]
<1>1. Len(s) \in Nat /\ \A i \in 1 .. Len(s) : s[i] \in T
  OBVIOUS
<1>2. \A i \in 1 .. Len(s) : Len(s) + 1 - i \in 1 .. Len(s) /\ (Len(s) - i) + 1 = Len(s) + 1 - i
  BY <1>1
<1>3. L!Reverse(s) = [i \in 1 .. Len(s) |-> s[Len(s) + 1 - i]]
  BY <1>1, <1>2 DEF L!Reverse
<1>4. \A i \in 1 .. Len(s) : s[Len(s) + 1 - i] \in T
  BY <1>1, <1>2
<1> DEFINE r == [i \in 1 .. Len(s) |-> s[Len(s) + 1 - i]]
<1>5. r \in [1 .. Len(s) -> T]
  BY <1>4
<1>6. r \in Seq(T) /\ Len(r) = Len(s)
  BY <1>1, <1>5
<1> QED
  BY <1>3, <1>6

(* LREM leaves a list of some of the elements. *)
LEMMA RemovedLeftType ==
  ASSUME NEW T, NEW s \in Seq(T), NEW n \in Nat, NEW v
  PROVE  L!RemovedLeft(s, n, v) \in Seq(T)
<1>1. PICK after : Removes(after, s, n, v, [kept : Seq(T), left : Nat])
  BY RemovalSteps
<1>2. after[Len(s)] \in [kept : Seq(T), left : Nat]
  BY <1>1 DEF Removes
<1> QED
  BY <1>1, <1>2 DEF Removes

(* LREM leaves a list, whatever the count. *)
LEMMA RemovedType ==
  ASSUME NEW T, NEW s \in Seq(T), NEW count \in Int, NEW v
  PROVE  L!Removed(s, count, v) \in Seq(T)
<1>1. Len(s) \in Nat
  OBVIOUS
<1>2. CASE count > 0
  BY <1>2, RemovedLeftType DEF L!Removed
<1>3. CASE count < 0
  <2>1. L!Reverse(s) \in Seq(T) /\ -count \in Nat
    BY <1>3, ReverseType
  <2>2. L!RemovedLeft(L!Reverse(s), -count, v) \in Seq(T)
    BY <2>1, RemovedLeftType
  <2>3. L!Reverse(L!RemovedLeft(L!Reverse(s), -count, v)) \in Seq(T)
    BY <2>2, ReverseType
  <2> QED
    BY <1>3, <2>3 DEF L!Removed
<1>4. CASE count = 0
  BY <1>1, <1>4, RemovedLeftType DEF L!Removed
<1> QED
  BY <1>2, <1>3, <1>4

(* The first position of a value, 0 if there is none. *)
First(s, v) == L!SelectInSeq(s, LAMBDA x : x = v)
IsFirst(i, s, v) ==
    /\ i \in 0 .. Len(s)
    /\ i = 0 => \A j \in 1 .. Len(s) : s[j] # v
    /\ i # 0 => s[i] = v /\ \A j \in 1 .. i - 1 : s[j] # v

(* SelectInSeq gives the first occurrence, or 0. *)
LEMMA FirstPosition ==
  ASSUME NEW T, NEW s \in Seq(T), NEW v
  PROVE  IsFirst(First(s, v), s, v)
<1> DEFINE P == {j \in 1 .. Len(s) : s[j] = v}
           i == First(s, v)
<1>1. i = IF P # {} THEN L!Min(P) ELSE 0
  BY DEF First, L!SelectInSeq
<1>2. Len(s) \in Nat /\ P \in SUBSET Nat
  OBVIOUS
<1>3. CASE P = {}
  BY <1>1, <1>2, <1>3 DEF IsFirst
<1>4. CASE P # {}
  <2>1. PICK x \in P : \A y \in P : x <= y
    <3> HIDE DEF P
    <3> QED
      BY <1>2, <1>4, LeastElement
  <2>2. i \in P /\ \A y \in P : i <= y
    <3>1. i = CHOOSE m \in P : \A y \in P : m <= y
      BY <1>1, <1>4 DEF L!Min
    <3> HIDE DEF P
    <3> QED
      BY <2>1, <3>1
  <2>3. i \in 1 .. Len(s) /\ s[i] = v /\ i # 0
    BY <1>2, <2>2
  <2>4. ASSUME NEW j \in 1 .. i - 1
        PROVE  s[j] # v
    <3>1. j \in 1 .. Len(s) /\ ~(i <= j)
      BY <1>2, <2>3
    <3> QED
      BY <2>2, <3>1
  <2> QED
    BY <1>2, <2>3, <2>4 DEF IsFirst
<1> QED
  BY <1>3, <1>4

(* LINSERT and LSET leave a list with an element, ... *)
LEMMA InsertedType ==
  ASSUME NEW T, NEW s \in Seq(T), s # << >>, NEW pivot, NEW v \in T, NEW before
  PROVE  L!Inserted(s, pivot, v, before) \in Seq(T) \ {<< >>}
<1> DEFINE i == First(s, pivot)
           j == IF before THEN i ELSE i + 1
<1>1. i \in 0 .. Len(s)
  BY FirstPosition DEF IsFirst
<1>2. L!Inserted(s, pivot, v, before) = IF i = 0 THEN s ELSE L!InsertAt(s, j, v)
  BY DEF L!Inserted, First
<1> HIDE DEF i
<1>3. CASE i = 0
  BY <1>2, <1>3
<1>4. CASE i # 0
  <2>1. j \in 1 .. Len(s) + 1 /\ Len(s) \in Nat
    BY <1>1, <1>4
  <2> HIDE DEF j
  <2>2. SubSeq(s, 1, j - 1) \in Seq(T) /\ SubSeq(s, j, Len(s)) \in Seq(T) /\ << v >> \in Seq(T)
    BY <2>1
  <2>3. L!InsertAt(s, j, v) = SubSeq(s, 1, j - 1) \o << v >> \o SubSeq(s, j, Len(s))
    BY DEF L!InsertAt
  <2>4. ASSUME NEW a \in Seq(T), NEW b \in Seq(T), NEW c \in Seq(T), c = << v >>
        PROVE  a \o c \o b \in Seq(T) \ {<< >>}
    <3>1. Len(a \o c \o b) = Len(a) + 1 + Len(b) /\ Len(a) \in Nat /\ Len(b) \in Nat /\ a \o c \o b \in Seq(T)
      BY <2>4
    <3>2. a \o c \o b # << >>
      BY <3>1
    <3> QED
      BY <3>1, <3>2
  <2> QED
    BY <1>2, <1>4, <2>2, <2>3, <2>4
<1> QED
  BY <1>3, <1>4

(* ... and LSET the same list when no element has the index. *)
LEMMA ReplacedType ==
  ASSUME NEW T, NEW s \in Seq(T), s # << >>, NEW index \in Int, NEW v \in T
  PROVE  /\ L!Replaced(s, index, v) \in Seq(T) \ {<< >>}
         /\ index < 0 => L!Replaced(s, index, v) = s
<1>1. Len(s) \in Nat /\ DOMAIN s = 1 .. Len(s) /\ Len(s) # 0 /\ s = [i \in 1 .. Len(s) |-> s[i]]
  OBVIOUS
<1>2. L!Replaced(s, index, v) = [i \in 1 .. Len(s) |-> IF i = index + 1 THEN v ELSE s[i]]
  BY <1>1 DEF L!Replaced
<1> DEFINE r == [i \in 1 .. Len(s) |-> IF i = index + 1 THEN v ELSE s[i]]
<1>3. r \in [1 .. Len(s) -> T]
  OBVIOUS
<1>4. r \in Seq(T) /\ Len(r) = Len(s) /\ r # << >>
  <2>1. r \in Seq(T) /\ Len(r) = Len(s)
    BY <1>1, <1>3
  <2> QED
    BY <1>1, <2>1
<1>5. index < 0 => r = s
  <2> SUFFICES ASSUME index < 0
               PROVE  r = s
    OBVIOUS
  <2>1. \A i \in 1 .. Len(s) : i # index + 1
    BY <1>1
  <2> QED
    BY <1>1, <2>1
<1> QED
  BY <1>2, <1>4, <1>5

-----------------------------------------------------------------------------
(* What is not under a key, and what a replay ends with that has panicked, *)
(* are told from lists and from maps of them.                              *)
LEMMA NoLists == Absent \notin Seq(Value) /\ Panic \notin Lists
<1>1. Lists \subseteq [Key -> Seq(Value) \cup {Absent}]
  BY DEF Lists, ListOrAbsent
<1> QED
  BY <1>1, ConstantsAssumption

(* A key is absent or has a list with an element, ... *)
LEMMA ListThere ==
  ASSUME NEW d \in Lists, NEW k \in Key
  PROVE  /\ d[k] # Absent => d[k] \in Seq(Value) /\ d[k] # << >>
         /\ d[k] \in ListOrAbsent
BY DEF Lists, ListOrAbsent

(* ... and so it is when one of these is put there. *)
LEMMA ListSet ==
  ASSUME NEW d \in Lists, NEW k \in Key, NEW s \in ListOrAbsent
  PROVE  [d EXCEPT ![k] = s] \in Lists
BY DEF Lists

(* popNoLock and the like delete a key that runs empty. *)
LEMMA StoredListType ==
  ASSUME NEW d \in Lists, NEW k \in Key, NEW s \in Seq(Value)
  PROVE  L!Stored(d, k, s) \in Lists
<1> DEFINE new == IF s = << >> THEN Absent ELSE s
<1>1. new \in ListOrAbsent
  BY DEF ListOrAbsent
<1> HIDE DEF new
<1>2. [d EXCEPT ![k] = new] \in Lists
  BY <1>1, ListSet
<1> QED
  BY <1>2 DEF L!Stored, new

(* Pushing, popping and moving elements makes lists. *)
LEMMA PushType ==
  ASSUME NEW d \in Lists, NEW k \in Key, NEW vals \in Seq(Value), vals # << >>, NEW toLeft
  PROVE  L!Push(d, k, vals, toLeft) \in Lists
<1> DEFINE old == IF d[k] = Absent THEN << >> ELSE d[k]
           new == L!Pushed(old, vals, toLeft)
<1>1. old \in Seq(Value)
  BY ListThere
<1>2. L!Reverse(vals) \in Seq(Value) /\ Len(L!Reverse(vals)) = Len(vals)
  BY ReverseType
<1> HIDE DEF old
<1>3. ASSUME NEW a \in Seq(Value), NEW b \in Seq(Value), Len(a) # 0 \/ Len(b) # 0
      PROVE  a \o b \in Seq(Value) \ {<< >>}
  <2>1. a \o b \in Seq(Value) /\ Len(a \o b) = Len(a) + Len(b) /\ Len(a) \in Nat /\ Len(b) \in Nat
    OBVIOUS
  <2>2. a \o b # << >>
    BY <1>3, <2>1
  <2> QED
    BY <2>1, <2>2
<1>4. Len(vals) # 0
  OBVIOUS
<1>5. new \in ListOrAbsent
  <2>1. L!Reverse(vals) \o old \in ListOrAbsent
    BY <1>1, <1>2, <1>3, <1>4 DEF ListOrAbsent
  <2>2. old \o vals \in ListOrAbsent
    BY <1>1, <1>3, <1>4 DEF ListOrAbsent
  <2> QED
    BY <2>1, <2>2 DEF L!Pushed
<1>6. L!Push(d, k, vals, toLeft) = [d EXCEPT ![k] = new]
  BY DEF L!Push, old
<1> HIDE DEF new
<1> QED
  BY <1>5, <1>6, ListSet

(* A pop takes an element from either end. *)
LEMMA PopType ==
  ASSUME NEW d \in Lists, NEW k \in Key, d[k] # Absent, NEW fromLeft
  PROVE  /\ L!Pop(d, k, fromLeft) \in Lists
         /\ Head(d[k]) \in Value /\ L!Last(d[k]) \in Value
<1>1. d[k] \in Seq(Value) /\ d[k] # << >>
  BY ListThere
<1>2. ASSUME NEW s \in Seq(Value), s # << >>
      PROVE  Tail(s) \in Seq(Value) /\ L!Front(s) \in Seq(Value) /\ Head(s) \in Value /\ L!Last(s) \in Value
  <2>1. Len(s) \in Nat /\ Len(s) # 0
    BY <1>2
  <2>2. L!Front(s) = SubSeq(s, 1, Len(s) - 1) /\ L!Last(s) = s[Len(s)]
    BY DEF L!Front, L!Last
  <2>3. Len(s) - 1 \in 0 .. Len(s) /\ Len(s) \in 1 .. Len(s)
    BY <2>1
  <2> QED
    BY <1>2, <2>2, <2>3
<1> DEFINE new == IF fromLeft THEN Tail(d[k]) ELSE L!Front(d[k])
<1>3. new \in Seq(Value)
  BY <1>1, <1>2
<1>4. L!Pop(d, k, fromLeft) = L!Stored(d, k, new)
  BY DEF L!Pop
<1> HIDE DEF new
<1>5. L!Pop(d, k, fromLeft) \in Lists
  BY <1>3, <1>4, StoredListType
<1> QED
  BY <1>1, <1>2, <1>5

(* RPOPLPUSH: a pop and a push, of one key or of two. *)
LEMMA MoveType ==
  ASSUME NEW d \in Lists, NEW from \in Key, NEW to \in Key, d[from] # Absent, NEW srcLeft, NEW dstLeft
  PROVE  L!MoveElement(d, from, to, srcLeft, dstLeft) \in Lists
<1> DEFINE x == IF srcLeft THEN Head(d[from]) ELSE L!Last(d[from])
           popped == L!Pop(d, from, srcLeft)
<1>1. popped \in Lists /\ x \in Value
  BY PopType
<1>2. L!MoveElement(d, from, to, srcLeft, dstLeft) = L!Push(popped, to, << x >>, dstLeft)
  BY DEF L!MoveElement
<1> HIDE DEF popped, x
<1>3. << x >> \in Seq(Value) /\ << x >> # << >>
  BY <1>1
<1> QED
  BY <1>1, <1>2, <1>3, PushType

-----------------------------------------------------------------------------
(* The lines that a list engine logs. *)
IsListLine(l) ==
    \/ l.op = "PUSH" /\ l.key \in Key /\ l.vals \in Seq(Value) \ {<< >>}
    \/ l.op = "POP" /\ l.key \in Key
    \/ l.op = "MOVE" /\ l.key \in Key /\ l.to \in Key
    \/ l.op = "REPLACE" /\ l.key \in Key /\ l.index \in Int /\ l.value \in Value
    \/ l.op = "INSERT" /\ l.key \in Key /\ l.value \in Value
    \/ l.op = "REMOVE" /\ l.key \in Key /\ l.count \in Int
    \/ l.op = "DELETE"

(* A line makes lists of lists, where its key is there if it needs to be.  *)
Follows(d, l) == l.op \in {"PUSH", "DELETE"} \/ d[l.key] # Absent

(* The lines that need a key panic without it. *)
LEMMA ReplayListType ==
  ASSUME NEW d \in Lists, NEW l, IsListLine(l)
  PROVE  /\ Follows(d, l) => L!ProcessWalEntry(d, l) \in Lists
         /\ ~Follows(d, l) => L!ProcessWalEntry(d, l) = Panic
<1>1. d # Panic
  BY NoLists
<1>2. ~Follows(d, l) => L!ProcessWalEntry(d, l) = Panic
  BY DEF Follows, L!ProcessWalEntry
<1> SUFFICES ASSUME Follows(d, l)
             PROVE  L!ProcessWalEntry(d, l) \in Lists
  BY <1>2
<1>3. ~(d = Panic \/ (l.op \notin {"PUSH", "DELETE"} /\ d[l.key] = Absent))
  BY <1>1 DEF Follows
<1>4. CASE l.op = "PUSH" /\ l.key \in Key /\ l.vals \in Seq(Value) \ {<< >>}
  <2>1. L!ProcessWalEntry(d, l) = L!Push(d, l.key, l.vals, l.left)
    BY <1>3, <1>4 DEF L!ProcessWalEntry
  <2> QED
    BY <1>4, <2>1, PushType
<1>5. CASE l.op = "POP" /\ l.key \in Key
  <2>1. L!ProcessWalEntry(d, l) = L!Pop(d, l.key, l.left)
    BY <1>3, <1>5 DEF L!ProcessWalEntry
  <2> QED
    BY <1>3, <1>5, <2>1, PopType
<1>6. CASE l.op = "MOVE" /\ l.key \in Key /\ l.to \in Key
  <2>1. L!ProcessWalEntry(d, l) = L!MoveElement(d, l.key, l.to, l.left, l.dstLeft)
    BY <1>3, <1>6 DEF L!ProcessWalEntry
  <2>2. d[l.key] # Absent
    BY <1>3, <1>6
  <2> QED
    BY <1>6, <2>1, <2>2, MoveType
<1>7. CASE l.op = "REPLACE" /\ l.key \in Key /\ l.index \in Int /\ l.value \in Value
  <2>1. L!ProcessWalEntry(d, l) = [d EXCEPT ![l.key] = L!Replaced(d[l.key], l.index, l.value)]
    BY <1>3, <1>7 DEF L!ProcessWalEntry
  <2>2. d[l.key] \in Seq(Value) /\ d[l.key] # << >>
    BY <1>3, <1>7, ListThere
  <2>3. L!Replaced(d[l.key], l.index, l.value) \in ListOrAbsent
    BY <1>7, <2>2, ReplacedType DEF ListOrAbsent
  <2> QED
    BY <1>7, <2>1, <2>3, ListSet, ZenonT(30)
<1>8. CASE l.op = "INSERT" /\ l.key \in Key /\ l.value \in Value
  <2>1. L!ProcessWalEntry(d, l) = [d EXCEPT ![l.key] = L!Inserted(d[l.key], l.pivot, l.value, l.left)]
    BY <1>3, <1>8 DEF L!ProcessWalEntry
  <2>2. d[l.key] \in Seq(Value) /\ d[l.key] # << >>
    BY <1>3, <1>8, ListThere
  <2>3. L!Inserted(d[l.key], l.pivot, l.value, l.left) \in ListOrAbsent
    BY <1>8, <2>2, InsertedType DEF ListOrAbsent
  <2> QED
    BY <1>8, <2>1, <2>3, ListSet, ZenonT(30)
<1>9. CASE l.op = "REMOVE" /\ l.key \in Key /\ l.count \in Int
  <2>1. L!ProcessWalEntry(d, l) = L!Stored(d, l.key, L!Removed(d[l.key], l.count, l.value))
    BY <1>3, <1>9 DEF L!ProcessWalEntry
  <2>2. d[l.key] \in Seq(Value)
    BY <1>3, <1>9, ListThere
  <2>3. L!Removed(d[l.key], l.count, l.value) \in Seq(Value)
    BY <1>9, <2>2, RemovedType
  <2> QED
    BY <1>9, <2>1, <2>3, StoredListType
<1>10. CASE l.op = "DELETE"
  <2>1. L!ProcessWalEntry(d, l) = [k \in Key |-> IF k \in l.keys THEN Absent ELSE d[k]]
    BY <1>3, <1>10 DEF L!ProcessWalEntry
  <2>2. [k \in Key |-> IF k \in l.keys THEN Absent ELSE d[k]] \in Lists
    BY DEF Lists, ListOrAbsent
  <2> QED
    BY <2>1, <2>2
<1> QED
  BY <1>4, <1>5, <1>6, <1>7, <1>8, <1>9, <1>10 DEF IsListLine

-----------------------------------------------------------------------------
(* The lists have their types, and so has what the replay gives, which are *)
(* the same lists as long as no LSET has been misled.                      *)
ListState ==
    /\ data \in Lists
    /\ disk \in Lists \cup {Panic}
    /\ misled \in BOOLEAN
    /\ ~misled => disk = data
ListInvariant == kind = "list" => ListState

(* What the replay of any line makes of the replay so far. *)
LEMMA ReplayedType ==
  ASSUME NEW d \in Lists \cup {Panic}, NEW l, IsListLine(l)
  PROVE  L!ProcessWalEntry(d, l) \in Lists \cup {Panic}
<1>1. CASE d = Panic
  BY <1>1 DEF L!ProcessWalEntry
<1>2. CASE d # Panic
  BY <1>2, ReplayListType
<1> QED
  BY <1>1, <1>2

(* A command that makes what the replay of its line would make. *)
LEMMA ReplayableCommand ==
  ASSUME ListState, NEW line, IsListLine(line), Follows(data, line),
         data' = L!ProcessWalEntry(data, line), L!Log(line), UNCHANGED misled
  PROVE  ListState'
<1>1. data' \in Lists
  BY ReplayListType DEF ListState
<1>2. disk' = L!ProcessWalEntry(disk, line)
  BY DEF L!Log
<1>3. disk' \in Lists \cup {Panic}
  BY <1>2, ReplayedType DEF ListState
<1>4. ~misled => disk' = data'
  BY <1>2 DEF ListState
<1> QED
  BY <1>1, <1>3, <1>4 DEF ListState

(* LPUSH and RPUSH, ... *)
LEMMA PushKeepsLists ==
  ASSUME ListState, NEW k \in Key, NEW vals \in Seq(Value) \ {<< >>}, NEW toLeft,
         L!PushNoLock(k, vals, toLeft)
  PROVE  ListState'
<1> DEFINE line == [op |-> "PUSH", key |-> k, vals |-> vals, left |-> toLeft]
<1>1. IsListLine(line) /\ Follows(data, line)
  BY DEF IsListLine, Follows
<1>2. data # Panic
  BY NoLists DEF ListState
<1>3. L!ProcessWalEntry(data, line) = L!Push(data, k, vals, toLeft)
  BY <1>2 DEF L!ProcessWalEntry
<1>4. data' = L!ProcessWalEntry(data, line) /\ L!Log(line) /\ UNCHANGED misled
  BY <1>3 DEF L!PushNoLock
<1> HIDE DEF line
<1> QED
  BY <1>1, <1>4, ReplayableCommand

(* ... LPOP and RPOP, ... *)
LEMMA PopKeepsLists ==
  ASSUME ListState, NEW k \in Key, NEW fromLeft, L!PopNoLock(k, fromLeft)
  PROVE  ListState'
<1> DEFINE line == [op |-> "POP", key |-> k, left |-> fromLeft]
<1>1. data[k] # Absent
  BY DEF L!PopNoLock
<1>2. IsListLine(line) /\ Follows(data, line)
  BY <1>1 DEF IsListLine, Follows
<1>3. data # Panic
  BY NoLists DEF ListState
<1>4. L!ProcessWalEntry(data, line) = L!Pop(data, k, fromLeft)
  BY <1>1, <1>3 DEF L!ProcessWalEntry
<1>5. data' = L!ProcessWalEntry(data, line) /\ L!Log(line) /\ UNCHANGED misled
  BY <1>4 DEF L!PopNoLock
<1> HIDE DEF line
<1> QED
  BY <1>2, <1>5, ReplayableCommand

(* ... RPOPLPUSH, ... *)
LEMMA MoveKeepsLists ==
  ASSUME ListState, NEW from \in Key, NEW to \in Key, L!Move(from, to)
  PROVE  ListState'
<1> DEFINE line == [op |-> "MOVE", key |-> from, to |-> to, left |-> FALSE, dstLeft |-> TRUE]
<1>1. data[from] # Absent
  BY DEF L!Move
<1>2. IsListLine(line) /\ Follows(data, line)
  BY <1>1 DEF IsListLine, Follows
<1>3. data # Panic
  BY NoLists DEF ListState
<1>4. L!ProcessWalEntry(data, line) = L!MoveElement(data, from, to, FALSE, TRUE)
  BY <1>1, <1>3 DEF L!ProcessWalEntry
<1>5. data' = L!ProcessWalEntry(data, line) /\ L!Log(line) /\ UNCHANGED misled
  BY <1>4 DEF L!Move
<1> HIDE DEF line
<1> QED
  BY <1>2, <1>5, ReplayableCommand

(* ... LINSERT, ... *)
LEMMA InsertKeepsLists ==
  ASSUME ListState, NEW k \in Key, NEW pivot, NEW v \in Value, NEW before, L!Insert(k, pivot, v, before)
  PROVE  ListState'
<1> DEFINE line == [op |-> "INSERT", key |-> k, pivot |-> pivot, value |-> v, left |-> before]
<1>1. data[k] # Absent
  BY DEF L!Insert
<1>2. IsListLine(line) /\ Follows(data, line)
  BY <1>1 DEF IsListLine, Follows
<1>3. data # Panic
  BY NoLists DEF ListState
<1>4. L!ProcessWalEntry(data, line) = [data EXCEPT ![k] = L!Inserted(data[k], pivot, v, before)]
  BY <1>1, <1>3 DEF L!ProcessWalEntry
<1>5. data' = L!ProcessWalEntry(data, line) /\ L!Log(line) /\ UNCHANGED misled
  BY <1>4 DEF L!Insert
<1> HIDE DEF line
<1> QED
  BY <1>2, <1>5, ReplayableCommand

(* ... LREM ... *)
LEMMA RemoveKeepsLists ==
  ASSUME ListState, NEW k \in Key, NEW count \in Int, NEW v \in Value, L!RemoveValue(k, count, v)
  PROVE  ListState'
<1> DEFINE line == [op |-> "REMOVE", key |-> k, value |-> v, count |-> count]
<1>1. data[k] # Absent
  BY DEF L!RemoveValue
<1>2. IsListLine(line) /\ Follows(data, line)
  BY <1>1 DEF IsListLine, Follows
<1>3. data # Panic
  BY NoLists DEF ListState
<1>4. L!ProcessWalEntry(data, line) = L!Stored(data, k, L!Removed(data[k], count, v))
  BY <1>1, <1>3 DEF L!ProcessWalEntry
<1>5. data' = L!ProcessWalEntry(data, line) /\ L!Log(line) /\ UNCHANGED misled
  BY <1>4 DEF L!RemoveValue
<1> HIDE DEF line
<1> QED
  BY <1>2, <1>5, ReplayableCommand

(* ... and DEL are such commands. *)
LEMMA DeleteKeepsLists ==
  ASSUME ListState, NEW K \in SUBSET Key, L!Delete(K)
  PROVE  ListState'
<1> DEFINE line == [op |-> "DELETE", keys |-> K]
<1>1. IsListLine(line) /\ Follows(data, line)
  BY DEF IsListLine, Follows
<1>2. data # Panic
  BY NoLists DEF ListState
<1>3. L!ProcessWalEntry(data, line) = [j \in Key |-> IF j \in K THEN Absent ELSE data[j]]
  BY <1>2 DEF L!ProcessWalEntry
<1>4. data' = L!ProcessWalEntry(data, line) /\ L!Log(line) /\ UNCHANGED misled
  BY <1>3 DEF L!Delete
<1> HIDE DEF line
<1> QED
  BY <1>1, <1>4, ReplayableCommand

(* LSET is one when its index is not below 0 or it changes nothing, as a   *)
(* replay with an index below 0 changes nothing either.                    *)
LEMMA ReplaceKeepsLists ==
  ASSUME ListState, NEW k \in Key, NEW index \in Int, NEW v \in Value, L!ReplaceAtIndex(k, index, v)
  PROVE  ListState'
<1> DEFINE line == [op |-> "REPLACE", key |-> k, index |-> index, value |-> v]
           at == L!Resolve(data[k], index)
<1>1. data[k] # Absent /\ data[k] \in Seq(Value) /\ data[k] # << >> /\ data \in Lists /\ data # Panic
  BY ListThere, NoLists DEF L!ReplaceAtIndex, ListState
<1>2. IsListLine(line) /\ Follows(data, line)
  BY <1>1 DEF IsListLine, Follows
<1>3. /\ data' = [data EXCEPT ![k] = L!Replaced(data[k], at, v)] /\ L!Log(line)
      /\ misled' = (misled \/ (index < 0 /\ data' # data)) /\ at \in 0 .. Len(data[k]) - 1
  BY DEF L!ReplaceAtIndex
<1>4. L!ProcessWalEntry(data, line) = [data EXCEPT ![k] = L!Replaced(data[k], index, v)]
  BY <1>1 DEF L!ProcessWalEntry
<1>5. data' \in Lists
  <2>1. Len(data[k]) \in Nat /\ at \in Int
    BY <1>1, <1>3
  <2>2. L!Replaced(data[k], at, v) \in ListOrAbsent
    BY <1>1, <2>1, ReplacedType DEF ListOrAbsent
  <2> HIDE DEF at
  <2> QED
    BY <1>1, <1>3, <2>2, ListSet
<1>6. disk' = L!ProcessWalEntry(disk, line) /\ disk' \in Lists \cup {Panic}
  <2> HIDE DEF line
  <2> QED
    BY <1>2, <1>3, ReplayedType DEF ListState, L!Log
<1>7. misled' \in BOOLEAN
  BY <1>3
<1>8. ASSUME ~misled'
      PROVE  disk' = data'
  <2>1. ~misled /\ disk = data /\ (index >= 0 \/ data' = data)
    <3> DEFINE unresolved == index < 0 /\ data' # data
    <3>1. ~misled /\ ~unresolved
      <4>1. misled' = (misled \/ unresolved)
        BY <1>3
      <4> HIDE DEF unresolved
      <4> QED
        BY <1>8, <4>1
    <3>2. index >= 0 \/ data' = data
      BY <3>1
    <3> QED
      BY <3>1, <3>2 DEF ListState
  <2>2. disk' = [data EXCEPT ![k] = L!Replaced(data[k], index, v)]
    BY <1>4, <1>6, <2>1
  <2>3. CASE index >= 0
    <3>1. at = index
      BY <2>3 DEF L!Resolve
    <3> QED
      BY <1>3, <2>2, <3>1
  <2>4. CASE index < 0
    <3>1. data' = data
      BY <2>1, <2>4
    <3>2. L!Replaced(data[k], index, v) = data[k]
      BY <1>1, <2>4, ReplacedType
    <3>3. disk' = data
      BY <1>1, <2>2, <3>2 DEF Lists
    <3> QED
      BY <3>1, <3>3
  <2> QED
    BY <2>1, <2>3, <2>4
<1> QED
  BY <1>5, <1>6, <1>7, <1>8 DEF ListState

(* A snapshot gives back the lists it was made of. *)
LEMMA RestartKeepsLists ==
  ASSUME ListState, L!Restart
  PROVE  ListState'
<1>1. data \in Lists
  BY DEF ListState
<1>2. ASSUME NEW k \in Key
      PROVE  L!DeserializeState(L!SerializeState(data))[k] = data[k]
  <2> DEFINE there == {j \in Key : data[j] # Absent}
             snapshot == L!SerializeState(data)
  <2>1. snapshot = [j \in there |-> data[j]]
    BY DEF L!SerializeState
  <2>2. L!DeserializeState(snapshot)[k] = IF k \in DOMAIN snapshot THEN L!Reloaded(snapshot[k]) ELSE Absent
    BY DEF L!DeserializeState
  <2> HIDE DEF snapshot
  <2>3. CASE data[k] # Absent
    <3>1. snapshot[k] = data[k] /\ k \in DOMAIN snapshot
      BY <2>1, <2>3
    <3>2. L!Reloaded(data[k]) = data[k]
      BY <1>1, <2>3, ListThere, ReloadedIs
    <3> QED
      BY <2>2, <3>1, <3>2 DEF snapshot
  <2>4. CASE data[k] = Absent
    <3>1. k \notin DOMAIN snapshot
      BY <2>1, <2>4
    <3> QED
      BY <2>2, <2>4, <3>1 DEF snapshot
  <2> QED
    BY <2>3, <2>4
<1>3. data' = data
  <2>1. data' = L!DeserializeState(L!SerializeState(data))
    BY DEF L!Restart
  <2>2. data' = [k \in Key |-> data'[k]]
    BY <2>1 DEF L!DeserializeState
  <2>3. data = [k \in Key |-> data[k]]
    BY <1>1 DEF Lists
  <2> QED
    BY <1>2, <2>1, <2>2, <2>3
<1> QED
  BY <1>3 DEF ListState, L!Restart

(* Every step of an instance of lists keeps them. *)
LEMMA ListStep ==
  ASSUME ListState, L!Next
  PROVE  ListState'
<1>1. CASE \E k \in Key, vals \in L!BoundedSeq(Value, 2) \ {<< >>}, toLeft \in BOOLEAN :
             L!PushNoLock(k, vals, toLeft)
  <2>1. PICK k \in Key, vals \in L!BoundedSeq(Value, 2) \ {<< >>}, toLeft \in BOOLEAN :
           L!PushNoLock(k, vals, toLeft)
    BY <1>1
  <2>2. L!BoundedSeq(Value, 2) = UNION {[1 .. n -> Value] : n \in 0 .. 2}
    BY DEF L!BoundedSeq, L!SeqOf
  <2>3. PICK n \in 0 .. 2 : vals \in [1 .. n -> Value]
    BY <2>1, <2>2
  <2>4. vals \in Seq(Value) \ {<< >>}
    BY <2>1, <2>3
  <2> QED
    BY <2>1, <2>4, PushKeepsLists
<1>2. CASE \E k \in Key, fromLeft \in BOOLEAN : L!PopNoLock(k, fromLeft)
  BY <1>2, PopKeepsLists
<1>3. CASE \E from, to \in Key : L!Move(from, to)
  BY <1>3, MoveKeepsLists
<1>4. \A i \in -MaxLen .. MaxLen : i \in Int
  OBVIOUS
<1>5. CASE \E k \in Key, index \in -MaxLen .. MaxLen, v \in Value : L!ReplaceAtIndex(k, index, v)
  BY <1>4, <1>5, ReplaceKeepsLists
<1>6. CASE \E k \in Key, pivot, v \in Value, before \in BOOLEAN : L!Insert(k, pivot, v, before)
  BY <1>6, InsertKeepsLists
<1>7. CASE \E k \in Key, count \in -MaxLen .. MaxLen, v \in Value : L!RemoveValue(k, count, v)
  BY <1>4, <1>7, RemoveKeepsLists
<1>8. CASE \E K \in SUBSET Key : L!Delete(K)
  BY <1>8, DeleteKeepsLists
<1>9. CASE L!Restart
  BY <1>9, RestartKeepsLists
<1> QED
  BY <1>1, <1>2, <1>3, <1>5, <1>6, <1>7, <1>8, <1>9 DEF L!Next

(* ListInvariant holds in every state. *)
THEOREM ListsSafe == Spec => []ListInvariant
<1>1. Init => ListInvariant
  BY DEF Init, ListInvariant, ListState, L!Init, Lists, ListOrAbsent
<1>2. ListInvariant /\ [Next]_vars => ListInvariant'
  <2> SUFFICES ASSUME ListInvariant, [Next]_vars, kind' = "list"
               PROVE  ListState'
    BY DEF ListInvariant
  <2>1. kind = "list" /\ ListState
    BY DEF Next, vars, ListInvariant
  <2>2. CASE UNCHANGED vars
    BY <2>1, <2>2 DEF ListState, vars
  <2>3. CASE L!Next
    BY <2>1, <2>3, ListStep
  <2> QED
    BY <2>1, <2>2, <2>3 DEF Next
<1> QED
  BY <1>1, <1>2, PTL DEF Spec

(* Every key that is there has a list with an element, also in what a      *)
(* replay of the log gives (popNoLock and the like delete what runs        *)
(* empty), and replaying the log of a list engine (ProcessWalEntry) gives  *)
(* back its lists, although its lines say what was asked for and not what  *)
(* was found, unless an LSET with an index below 0 has changed one.        *)
THEOREM ListsReplay == Spec => [](kind = "list" => L!TypeOK /\ L!ReplayMatchesLive)
<1>1. ListInvariant => (kind = "list" => L!TypeOK /\ L!ReplayMatchesLive)
  BY DEF ListInvariant, ListState, Lists, ListOrAbsent, L!TypeOK, L!ReplayMatchesLive
<1> QED
  BY <1>1, ListsSafe, PTL

-----------------------------------------------------------------------------
(* The reads and LREM, against their references.  The modules of the       *)
(* engine count as this one does.                                          *)
LEMMA SameCardinality == \A P : L!Cardinality(P) = Cardinality(P)
BY DEF L!Cardinality, Cardinality

(* LRANGE, whose indices make an interval of positions, ... *)
RangeMeets(s, start, stop) ==
    LET within == {i \in DOMAIN s : i - 1 \in L!Resolve(s, start) .. L!Resolve(s, stop)}
        r == L!ReadRange(s, start, stop)
    IN  /\ Len(r) = Cardinality(within)
        /\ \A i \in within : r[Cardinality({j \in within : j <= i})] = s[i]

(* ... reads that interval. *)
LEMMA RangeMeetsIt ==
  ASSUME NEW T, NEW s \in Seq(T), NEW start \in Int, NEW stop \in Int
  PROVE  RangeMeets(s, start, stop)
<1> DEFINE n == Len(s)
           a == L!Resolve(s, start)
           b == L!Resolve(s, stop)
           lo == IF a < 0 THEN 0 ELSE a
           hi == IF b >= n THEN n - 1 ELSE b
           within == {i \in DOMAIN s : i - 1 \in a .. b}
           r == L!ReadRange(s, start, stop)
<1>1. n \in Nat /\ DOMAIN s = 1 .. n /\ a \in Int /\ b \in Int
  BY DEF L!Resolve
<1>2. r = IF lo > hi THEN << >> ELSE SubSeq(s, lo + 1, hi + 1)
  BY DEF L!ReadRange
<1> HIDE DEF a, b, r
<1>3. lo \in Nat /\ hi \in Int /\ hi <= n - 1
  BY <1>1
<1>4. within = lo + 1 .. hi + 1
  <2> HIDE DEF n
  <2>1. ASSUME NEW i \in 1 .. n
        PROVE  i - 1 \in a .. b <=> i \in lo + 1 .. hi + 1
    BY <1>1
  <2>2. lo + 1 .. hi + 1 \subseteq 1 .. n
    BY <1>1, <1>3
  <2> QED
    BY <1>1, <2>1, <2>2
<1> HIDE DEF lo, hi, within, n
<1>5. Cardinality(within) = IF lo > hi THEN 0 ELSE hi - lo + 1
  <2>1. Cardinality(lo + 1 .. hi + 1) = IF lo + 1 > hi + 1 THEN 0 ELSE (hi + 1) - (lo + 1) + 1
    <3>1. lo + 1 \in Int /\ hi + 1 \in Int
      BY <1>3
    <3> QED
      BY <3>1, FS_Interval
  <2> QED
    BY <1>3, <1>4, <2>1
<1>6. CASE lo > hi
  <2>1. within = {} /\ r = << >> /\ Cardinality(within) = 0
    BY <1>2, <1>3, <1>4, <1>5, <1>6
  <2> QED
    BY <2>1 DEF RangeMeets, within, r, a, b
<1>7. CASE ~(lo > hi)
  <2>1. lo + 1 \in 1 .. n + 1 /\ hi + 1 \in lo .. n /\ r = SubSeq(s, lo + 1, hi + 1) /\ hi >= lo
    BY <1>1, <1>2, <1>3, <1>7
  <2>2. Len(r) = hi - lo + 1 /\ \A m \in 1 .. hi - lo + 1 : r[m] = s[lo + m]
    BY <1>1, <1>3, <2>1 DEF n
  <2>3. ASSUME NEW i \in within
        PROVE  r[Cardinality({j \in within : j <= i})] = s[i]
    <3>1. i \in lo + 1 .. hi + 1 /\ i \in Int
      BY <1>3, <1>4
    <3>2. {j \in within : j <= i} = lo + 1 .. i
      BY <1>3, <1>4, <3>1
    <3>3. Cardinality(lo + 1 .. i) = i - lo
      <4>1. Cardinality(lo + 1 .. i) = IF lo + 1 > i THEN 0 ELSE i - (lo + 1) + 1
        <5>1. lo + 1 \in Int
          BY <1>3
        <5> QED
          BY <3>1, <5>1, FS_Interval
      <4> QED
        BY <1>3, <3>1, <4>1
    <3>4. i - lo \in 1 .. hi - lo + 1 /\ lo + (i - lo) = i
      BY <1>3, <3>1
    <3> QED
      BY <2>2, <3>2, <3>3, <3>4
  <2>4. Len(r) = Cardinality(within)
    BY <1>5, <1>7, <2>2
  <2> QED
    BY <2>3, <2>4 DEF RangeMeets, within, r, a, b
<1> QED
  BY <1>6, <1>7

(* ... LINDEX ... *)
LEMMA IndexMeets ==
  ASSUME NEW T, NEW s \in Seq(T), NEW index \in Int
  PROVE  LET within == {i \in DOMAIN s : i - 1 \in L!Resolve(s, index) .. L!Resolve(s, index)}
         IN  L!Index(s, index) = IF within = {} THEN Absent ELSE s[CHOOSE i \in within : TRUE]
<1> DEFINE a == L!Resolve(s, index)
           within == {i \in DOMAIN s : i - 1 \in a .. a}
<1>1. Len(s) \in Nat /\ DOMAIN s = 1 .. Len(s) /\ a \in Int
  BY DEF L!Resolve
<1>2. L!Index(s, index) = IF a < 0 \/ a >= Len(s) THEN Absent ELSE s[a + 1]
  BY DEF L!Index
<1> HIDE DEF a
<1>3. CASE a < 0 \/ a >= Len(s)
  <2>1. within = {}
    BY <1>1, <1>3
  <2> QED
    BY <1>2, <1>3, <2>1 DEF a
<1>4. CASE ~(a < 0 \/ a >= Len(s))
  <2>1. within = {a + 1}
    <3>1. a + 1 \in 1 .. Len(s) /\ \A i \in 1 .. Len(s) : i - 1 \in a .. a <=> i = a + 1
      BY <1>1, <1>4
    <3> QED
      BY <1>1, <3>1
  <2>2. within # {} /\ (CHOOSE i \in within : TRUE) = a + 1
    <3>1. \E i : i \in {a + 1}
      OBVIOUS
    <3> HIDE DEF within
    <3> QED
      BY <2>1, <3>1
  <2> QED
    BY <1>2, <1>4, <2>2 DEF a
<1> QED
  BY <1>3, <1>4

(* ... and LPOS. *)
LEMMA PosMeets ==
  ASSUME NEW T, NEW s \in Seq(T), NEW v, NEW start \in Int, L!Pos(s, v) = start
  PROVE  IF start = -1 THEN v \notin L!ToSet(s)
         ELSE L!Index(s, start) = v /\ v \notin L!ToSet(SubSeq(s, 1, start))
<1>1. IsFirst(First(s, v), s, v) /\ First(s, v) - 1 = start /\ Len(s) \in Nat /\ DOMAIN s = 1 .. Len(s)
  <2>1. IsFirst(First(s, v), s, v)
    BY FirstPosition
  <2>2. First(s, v) - 1 = start
    BY DEF L!Pos, First
  <2>3. Len(s) \in Nat /\ DOMAIN s = 1 .. Len(s)
    OBVIOUS
  <2> QED
    BY <2>1, <2>2, <2>3
<1> DEFINE i == First(s, v)
<1>2. /\ i \in 0 .. Len(s)
      /\ i = 0 => \A j \in 1 .. Len(s) : s[j] # v
      /\ i # 0 => s[i] = v /\ \A j \in 1 .. i - 1 : s[j] # v
  BY <1>1 DEF IsFirst
<1> HIDE DEF i
<1>3. i - 1 = start
  BY <1>1 DEF i
<1>4. CASE start = -1
  <2>1. i = 0
    BY <1>2, <1>3, <1>4
  <2> QED
    BY <1>1, <1>2, <1>4, <2>1 DEF L!ToSet
<1>5. CASE start # -1
  <2>1. i # 0 /\ i = start + 1 /\ start \in 0 .. Len(s) - 1
    BY <1>1, <1>2, <1>3, <1>5
  <2>2. L!Index(s, start) = v
    <3>1. L!Resolve(s, start) = start
      BY <1>1, <2>1 DEF L!Resolve
    <3>2. ~(start < 0 \/ start >= Len(s))
      BY <1>1, <2>1
    <3>3. L!Index(s, start) = s[start + 1]
      BY <3>1, <3>2 DEF L!Index
    <3> QED
      BY <1>2, <2>1, <3>3
  <2>3. v \notin L!ToSet(SubSeq(s, 1, start))
    <3>1. DOMAIN SubSeq(s, 1, start) = 1 .. start /\ \A j \in 1 .. start : SubSeq(s, 1, start)[j] = s[j]
      BY <1>1, <2>1
    <3>2. \A j \in 1 .. start : s[j] # v
      BY <1>2, <2>1, <1>3
    <3> QED
      BY <3>1, <3>2 DEF L!ToSet
  <2> QED
    BY <1>5, <2>2, <2>3
<1> QED
  BY <1>4, <1>5

(* All reads together. *)
LEMMA RangesMeet ==
  ASSUME ListState, MaxLen \in Nat
  PROVE  L!RangeMeetsReference
<1> SUFFICES ASSUME NEW k \in Key, NEW start \in -(MaxLen + 1) .. MaxLen + 1,
                    NEW stop \in -(MaxLen + 1) .. MaxLen + 1, data[k] # Absent
             PROVE  LET s == data[k]
                        within == {i \in DOMAIN s : i - 1 \in L!Resolve(s, start) .. L!Resolve(s, stop)}
                        r == L!ReadRange(s, start, stop)
                    IN  /\ Len(r) = L!Cardinality(within)
                        /\ \A i \in within : r[L!Cardinality({j \in within : j <= i})] = s[i]
                        /\ start = stop =>
                              L!Index(s, start) = IF within = {} THEN Absent ELSE s[CHOOSE i \in within : TRUE]
                        /\ \A v \in Value : L!Pos(s, v) = start =>
                              IF start = -1 THEN v \notin L!ToSet(s)
                              ELSE L!Index(s, start) = v /\ v \notin L!ToSet(SubSeq(s, 1, start))
  BY DEF L!RangeMeetsReference
<1>1. data[k] \in Seq(Value) /\ start \in Int /\ stop \in Int
  BY ListThere DEF ListState
<1> DEFINE s == data[k]
           within == {i \in DOMAIN s : i - 1 \in L!Resolve(s, start) .. L!Resolve(s, stop)}
           r == L!ReadRange(s, start, stop)
<1>2. /\ Len(r) = Cardinality(within)
      /\ \A i \in within : r[Cardinality({j \in within : j <= i})] = s[i]
  BY <1>1, RangeMeetsIt DEF RangeMeets
<1>3. start = stop => L!Index(s, start) = IF within = {} THEN Absent ELSE s[CHOOSE i \in within : TRUE]
  BY <1>1, IndexMeets
<1>4. \A v \in Value : L!Pos(s, v) = start =>
         IF start = -1 THEN v \notin L!ToSet(s)
         ELSE L!Index(s, start) = v /\ v \notin L!ToSet(SubSeq(s, 1, start))
  BY <1>1, PosMeets
<1>5. Len(r) = L!Cardinality(within)
  BY <1>2, SameCardinality
<1>6. ASSUME NEW i \in within
      PROVE  r[L!Cardinality({j \in within : j <= i})] = s[i]
  BY <1>2, SameCardinality
<1> QED
  BY <1>3, <1>4, <1>5, <1>6

-----------------------------------------------------------------------------
(* LREM, against its reference: the first n occurrences of v. *)
Occurrences(s, v) == {i \in 1 .. Len(s) : s[i] = v}
FirstOnes(s, n, v) == {i \in Occurrences(s, v) : UpTo(Occurrences(s, v), i) <= n}

(* What is left of a list when the elements at these positions are gone: *)
(* the others in their order.                                            *)
Leaves(s, gone, r) ==
    /\ Len(r) = Len(s) - Cardinality(gone)
    /\ \A j \in 1 .. Len(s) \ gone :
          j - UpTo(gone, j - 1) \in 1 .. Len(r) /\ r[j - UpTo(gone, j - 1)] = s[j]

(* The loop of LREM after i elements. *)
RemovedSoFar(r, i, s, n, v) ==
    LET gone == FirstOnes(s, n, v)
        seen == UpTo(Occurrences(s, v), i)
    IN  /\ r.left = IF seen <= n THEN n - seen ELSE 0
        /\ Len(r.kept) = i - UpTo(gone, i)
        /\ \A j \in 1 .. i \ gone :
              j - UpTo(gone, j - 1) \in 1 .. Len(r.kept) /\ r.kept[j - UpTo(gone, j - 1)] = s[j]

(* One element more. *)
LEMMA RemovalStep ==
  ASSUME NEW T, NEW s \in Seq(T), NEW n \in Nat, NEW v, NEW i \in 1 .. Len(s),
         NEW r \in [kept : Seq(T), left : Nat], RemovedSoFar(r, i - 1, s, n, v)
  PROVE  RemovedSoFar(TakeOne(r, s[i], v), i, s, n, v)
<1> DEFINE occ == Occurrences(s, v)
           gone == FirstOnes(s, n, v)
           q == TakeOne(r, s[i], v)
<1>1. /\ Len(s) \in Nat /\ s[i] \in T /\ i \in 0 .. Len(s) /\ i - 1 \in 0 .. Len(s)
      /\ occ \in SUBSET (1 .. Len(s)) /\ gone \in SUBSET (1 .. Len(s))
      /\ i \in gone <=> i \in occ /\ UpTo(occ, i) <= n
      /\ i \in occ <=> s[i] = v
  BY DEF Occurrences, FirstOnes
<1>2. Counts(occ, Len(s)) /\ Counts(gone, Len(s))
  BY <1>1, Counting
<1>3. /\ r.left = IF UpTo(occ, i - 1) <= n THEN n - UpTo(occ, i - 1) ELSE 0
      /\ Len(r.kept) = i - 1 - UpTo(gone, i - 1)
      /\ \A j \in 1 .. i - 1 \ gone :
            j - UpTo(gone, j - 1) \in 1 .. Len(r.kept) /\ r.kept[j - UpTo(gone, j - 1)] = s[j]
  BY DEF RemovedSoFar
<1>4. r.kept \in Seq(T) /\ r.left \in Nat /\ Len(r.kept) \in Nat
  OBVIOUS
<1> HIDE DEF occ, gone
<1>5. /\ UpTo(occ, i) = IF i \in occ THEN UpTo(occ, i - 1) + 1 ELSE UpTo(occ, i - 1)
      /\ UpTo(gone, i) = IF i \in gone THEN UpTo(gone, i - 1) + 1 ELSE UpTo(gone, i - 1)
      /\ UpTo(occ, i - 1) \in Nat /\ UpTo(gone, i - 1) \in Nat /\ UpTo(gone, i - 1) <= i - 1
  BY <1>1, <1>2 DEF Counts
<1>6. CASE s[i] = v /\ r.left > 0
  <2>1. q.kept = r.kept /\ q.left = r.left - 1
    BY <1>6 DEF TakeOne
  <2>2. i \in occ /\ UpTo(occ, i) = UpTo(occ, i - 1) + 1
    BY <1>1, <1>5, <1>6
  <2>3. UpTo(occ, i - 1) < n /\ UpTo(occ, i) <= n
    BY <1>3, <1>5, <1>6, <2>2
  <2>4. i \in gone /\ UpTo(gone, i) = UpTo(gone, i - 1) + 1
    BY <1>1, <1>5, <2>2, <2>3
  <2>5. q.left = n - UpTo(occ, i)
    BY <1>3, <1>5, <2>1, <2>2, <2>3
  <2>6. Len(q.kept) = i - UpTo(gone, i)
    BY <1>3, <1>5, <2>1, <2>4
  <2>7. \A j \in 1 .. i \ gone : j \in 1 .. i - 1 \ gone
    BY <1>1, <2>4
  <2> HIDE DEF q
  <2>8. \A j \in 1 .. i \ gone :
           j - UpTo(gone, j - 1) \in 1 .. Len(q.kept) /\ q.kept[j - UpTo(gone, j - 1)] = s[j]
    BY <1>3, <2>1, <2>7
  <2> QED
    BY <2>3, <2>5, <2>6, <2>8 DEF RemovedSoFar, q, occ, gone
<1>7. CASE ~(s[i] = v /\ r.left > 0)
  <2>1. q.kept = Append(r.kept, s[i]) /\ q.left = r.left
    BY <1>7 DEF TakeOne
  <2>2. i \notin gone /\ q.left = IF UpTo(occ, i) <= n THEN n - UpTo(occ, i) ELSE 0
    <3>1. CASE s[i] = v
      <4>1. r.left = 0
        BY <1>4, <1>7, <3>1
      <4>2. UpTo(occ, i) = UpTo(occ, i - 1) + 1 /\ UpTo(occ, i - 1) >= n
        BY <1>1, <1>3, <1>5, <3>1, <4>1
      <4>3. ~(UpTo(occ, i) <= n)
        BY <1>5, <4>2
      <4> QED
        BY <1>1, <2>1, <4>1, <4>3
    <3>2. CASE s[i] # v
      BY <1>1, <1>3, <1>5, <2>1, <3>2
    <3> QED
      BY <3>1, <3>2
  <2>3. UpTo(gone, i) = UpTo(gone, i - 1)
    BY <1>5, <2>2
  <2>4. Len(q.kept) = Len(r.kept) + 1 /\ q.kept[Len(r.kept) + 1] = s[i]
        /\ \A m \in 1 .. Len(r.kept) : q.kept[m] = r.kept[m]
    BY <1>1, <1>4, <2>1
  <2>5. Len(q.kept) = i - UpTo(gone, i)
    BY <1>3, <1>5, <2>3, <2>4
  <2> HIDE DEF q
  <2>6. ASSUME NEW j \in 1 .. i \ gone
        PROVE  j - UpTo(gone, j - 1) \in 1 .. Len(q.kept) /\ q.kept[j - UpTo(gone, j - 1)] = s[j]
    <3>1. CASE j = i
      <4>1. j - UpTo(gone, j - 1) = Len(r.kept) + 1
        BY <1>3, <1>5, <3>1
      <4> QED
        BY <1>4, <2>4, <3>1, <4>1
    <3>2. CASE j # i
      <4>1. j \in 1 .. i - 1 \ gone
        BY <1>1, <3>2
      <4>2. j - UpTo(gone, j - 1) \in 1 .. Len(r.kept) /\ r.kept[j - UpTo(gone, j - 1)] = s[j]
        BY <1>3, <4>1
      <4> DEFINE m == j - UpTo(gone, j - 1)
      <4> HIDE DEF m
      <4>3. m \in 1 .. Len(r.kept) /\ r.kept[m] = s[j]
        BY <4>2 DEF m
      <4>4. m \in 1 .. Len(q.kept) /\ q.kept[m] = s[j]
        BY <1>4, <2>4, <4>3
      <4> QED
        BY <4>4 DEF m
    <3> QED
      BY <3>1, <3>2
  <2> QED
    BY <2>2, <2>5, <2>6 DEF RemovedSoFar, q, occ, gone
<1> QED
  BY <1>6, <1>7

(* The loop leaves the list without the first n occurrences of v. *)
LEMMA RemovedLeftLeaves ==
  ASSUME NEW T, NEW s \in Seq(T), NEW n \in Nat, NEW v
  PROVE  Leaves(s, FirstOnes(s, n, v), L!RemovedLeft(s, n, v))
<1> DEFINE X == [kept : Seq(T), left : Nat]
<1>1. PICK after : Removes(after, s, n, v, X)
  BY RemovalSteps
<1> DEFINE gone == FirstOnes(s, n, v)
           Done == {i \in 0 .. Len(s) : RemovedSoFar(after[i], i, s, n, v)}
<1>2. /\ Len(s) \in Nat /\ Len(s) \in 0 .. Len(s)
      /\ Occurrences(s, v) \in SUBSET (1 .. Len(s)) /\ gone \in SUBSET (1 .. Len(s))
  BY DEF Occurrences, FirstOnes
<1>3. /\ after \in [0 .. Len(s) -> X] /\ after[0] = [kept |-> << >>, left |-> n]
      /\ \A i \in 1 .. Len(s) : after[i] = TakeOne(after[i - 1], s[i], v)
      /\ L!RemovedLeft(s, n, v) = after[Len(s)].kept
  BY <1>1 DEF Removes
<1>4. 0 \in Done
  <2>1. UpTo(Occurrences(s, v), 0) = 0 /\ UpTo(gone, 0) = 0
    BY <1>2, Counting DEF Counts
  <2>2. after[0].kept = << >> /\ after[0].left = n /\ Len(after[0].kept) = 0
    BY <1>3
  <2>3. \A j : j \notin 1 .. 0 \ gone
    OBVIOUS
  <2>4. RemovedSoFar(after[0], 0, s, n, v)
    BY <2>1, <2>2, <2>3 DEF RemovedSoFar
  <2> QED
    BY <1>2, <2>4
<1>5. ASSUME NEW i \in 0 .. Len(s) - 1, i \in Done
      PROVE  i + 1 \in Done
  <2>1. i + 1 \in 1 .. Len(s) /\ (i + 1) - 1 = i /\ i + 1 \in 0 .. Len(s) /\ i \in 0 .. Len(s)
    BY <1>2
  <2>2. after[i] \in X /\ RemovedSoFar(after[i], i, s, n, v)
    BY <1>3, <1>5, <2>1
  <2>3. RemovedSoFar(TakeOne(after[i], s[i + 1], v), i + 1, s, n, v)
    BY <2>1, <2>2, RemovalStep
  <2>4. after[i + 1] = TakeOne(after[i], s[i + 1], v)
    BY <1>3, <2>1
  <2> QED
    BY <2>1, <2>3, <2>4
<1>6. Len(s) \in Done
  <2> HIDE DEF Done
  <2> QED
    BY <1>2, <1>4, <1>5, CountingUp
<1>7. RemovedSoFar(after[Len(s)], Len(s), s, n, v) /\ UpTo(gone, Len(s)) = Cardinality(gone)
  BY <1>2, <1>6, Counting DEF Counts
<1> QED
  BY <1>3, <1>7 DEF RemovedSoFar, Leaves

(* Those that LREM is to remove: the first ones, ... *)
LEMMA FirstAreRemoved ==
  ASSUME NEW T, NEW s \in Seq(T), NEW count \in Int, NEW v, count >= 0
  PROVE  L!RemovedPositions(s, count, v) = FirstOnes(s, IF count = 0 THEN Len(s) ELSE count, v)
<1> DEFINE occ == Occurrences(s, v)
           n == IF count = 0 THEN Len(s) ELSE count
<1>1. /\ Len(s) \in Nat /\ DOMAIN s = 1 .. Len(s) /\ occ \in SUBSET (1 .. Len(s))
      /\ occ = {i \in DOMAIN s : s[i] = v}
  BY DEF Occurrences
<1>2. L!RemovedPositions(s, count, v) =
        {i \in occ : \/ count = 0
                     \/ UpTo(occ, i) <= count
                     \/ Cardinality({j \in occ : j >= i}) <= -count}
  BY <1>1, SameCardinality DEF L!RemovedPositions, UpTo
<1>3. FirstOnes(s, n, v) = {i \in occ : UpTo(occ, i) <= n}
  BY DEF FirstOnes
<1> HIDE DEF occ
<1>4. ASSUME NEW i \in occ
      PROVE  /\ UpTo(occ, i) \in Nat /\ UpTo(occ, i) <= Len(s)
             /\ Cardinality({j \in occ : j >= i}) \in Nat \ {0}
  <2>1. i \in 0 .. Len(s) /\ i \in 1 .. Len(s)
    BY <1>1
  <2>2. UpTo(occ, i) \in Nat /\ UpTo(occ, i) <= i
    BY <1>1, <2>1, Counting DEF Counts
  <2> DEFINE Q == {j \in occ : j >= i}
  <2>3. i \in Q /\ Q \in SUBSET occ
    BY <2>1
  <2> HIDE DEF Q
  <2>4. IsFiniteSet(Q)
    BY <1>1, <2>3, Counting, FS_Subset
  <2>5. Cardinality(Q) \in Nat /\ Cardinality(Q) # 0
    BY <2>3, <2>4, FS_CardinalityType, FS_EmptySet
  <2> QED
    BY <1>1, <2>1, <2>2, <2>5 DEF Q
<1>5. ASSUME NEW i \in occ
      PROVE  (\/ count = 0
              \/ UpTo(occ, i) <= count
              \/ Cardinality({j \in occ : j >= i}) <= -count) <=> UpTo(occ, i) <= n
  <2> DEFINE c == UpTo(occ, i)
             d == Cardinality({j \in occ : j >= i})
  <2>1. c \in Nat /\ c <= Len(s) /\ d \in Nat \ {0}
    BY <1>4
  <2> HIDE DEF c, d
  <2>2. (count = 0 \/ c <= count \/ d <= -count) <=> c <= n
    BY <1>1, <2>1
  <2> QED
    BY <2>2 DEF c, d
<1> QED
  BY <1>2, <1>3, <1>5

(* ... or those that are the first when the list is read backwards. *)
LEMMA LastAreRemoved ==
  ASSUME NEW T, NEW s \in Seq(T), NEW count \in Int, NEW v, count < 0
  PROVE  /\ L!RemovedPositions(s, count, v) \in SUBSET (1 .. Len(s))
         /\ FirstOnes(L!Reverse(s), -count, v) = Mirror(L!RemovedPositions(s, count, v), Len(s))
<1> DEFINE n == Len(s)
           t == L!Reverse(s)
           occ == Occurrences(s, v)
           back == Occurrences(t, v)
<1>1. /\ n \in Nat /\ DOMAIN s = 1 .. n /\ occ \in SUBSET (1 .. n)
      /\ occ = {i \in DOMAIN s : s[i] = v}
  BY DEF Occurrences
<1>2. Len(t) = n /\ \A i \in 1 .. n : t[i] = s[n + 1 - i]
  BY ReverseType
<1>3. L!RemovedPositions(s, count, v) =
        {i \in occ : \/ count = 0
                     \/ UpTo(occ, i) <= count
                     \/ Cardinality({j \in occ : j >= i}) <= -count}
  BY <1>1, SameCardinality DEF L!RemovedPositions, UpTo
<1>4. FirstOnes(t, -count, v) = {i \in back : UpTo(back, i) <= -count}
  BY DEF FirstOnes
<1>5. back = {i \in 1 .. n : t[i] = v} /\ occ = {i \in 1 .. n : s[i] = v}
  BY <1>2 DEF Occurrences
<1> HIDE DEF occ, back, t, n
<1>6. \A i \in 1 .. n : n + 1 - i \in 1 .. n /\ n + 1 - (n + 1 - i) = i
  BY <1>1
<1>7. \A i \in 1 .. n : i \in back <=> n + 1 - i \in occ
  BY <1>2, <1>5, <1>6
<1>8. ASSUME NEW i \in occ
      PROVE  UpTo(back, n + 1 - i) = Cardinality({j \in occ : j >= i})
  <2> DEFINE Q == {j \in occ : j >= i}
             B == {j \in back : j <= n + 1 - i}
  <2>1. Q \in SUBSET (1 .. n) /\ i \in 1 .. n
    BY <1>1
  <2>2. ASSUME NEW b \in B
        PROVE  b \in Mirror(Q, n)
    <3>1. b \in 1 .. n /\ b <= n + 1 - i
      BY <1>5
    <3>2. n + 1 - b \in occ /\ b = n + 1 - (n + 1 - b)
      BY <1>6, <1>7, <3>1
    <3>3. n + 1 - b >= i
      BY <1>1, <2>1, <3>1
    <3> QED
      BY <3>2, <3>3 DEF Mirror
  <2>3. ASSUME NEW j \in Q
        PROVE  n + 1 - j \in B
    <3>1. j \in 1 .. n /\ j \in occ /\ j >= i
      BY <1>1
    <3>2. n + 1 - j \in back
      BY <1>6, <1>7, <3>1
    <3>3. n + 1 - j <= n + 1 - i
      BY <1>1, <2>1, <3>1
    <3> QED
      BY <3>2, <3>3
  <2> HIDE DEF Q, B
  <2>4. B = Mirror(Q, n)
    BY <2>2, <2>3 DEF Mirror
  <2>5. Cardinality(B) = Cardinality(Q)
    BY <1>1, <2>1, <2>4, MirrorCounts
  <2> QED
    BY <2>5 DEF UpTo, B, Q
<1>9. L!RemovedPositions(s, count, v) = {i \in occ : Cardinality({j \in occ : j >= i}) <= -count}
  <2>1. ASSUME NEW i \in occ
        PROVE  count # 0 /\ ~(UpTo(occ, i) <= count)
    <3>1. i \in 0 .. n
      BY <1>1
    <3>2. UpTo(occ, i) \in Nat
      BY <1>1, <3>1, Counting DEF Counts
    <3> QED
      BY <3>2
  <2> QED
    BY <1>3, <2>1
<1> DEFINE gone == {i \in occ : Cardinality({j \in occ : j >= i}) <= -count}
           first == {i \in back : UpTo(back, i) <= -count}
<1>10. ASSUME NEW b \in first
       PROVE  b \in Mirror(gone, n)
  <2>1. b \in 1 .. n /\ n + 1 - b \in occ /\ n + 1 - (n + 1 - b) = b
    BY <1>5, <1>6, <1>7
  <2>2. UpTo(back, b) = Cardinality({j \in occ : j >= n + 1 - b})
    BY <1>8, <2>1
  <2>3. n + 1 - b \in gone
    BY <2>1, <2>2
  <2> HIDE DEF gone
  <2> QED
    BY <2>1, <2>3 DEF Mirror
<1>11. ASSUME NEW i \in gone
       PROVE  n + 1 - i \in first
  <2>1. i \in occ /\ i \in 1 .. n
    BY <1>1
  <2>2. n + 1 - i \in back
    BY <1>6, <1>7, <2>1
  <2>3. UpTo(back, n + 1 - i) = Cardinality({j \in occ : j >= i})
    BY <1>8, <2>1
  <2> QED
    BY <2>2, <2>3
<1>12. gone \in SUBSET (1 .. n)
  BY <1>1
<1> HIDE DEF gone, first
<1>13. first = Mirror(gone, n)
  BY <1>10, <1>11 DEF Mirror
<1> QED
  BY <1>4, <1>9, <1>12, <1>13 DEF gone, first, n, t

(* So it leaves the others, whatever the count. *)
LEMMA RemovedLeaves ==
  ASSUME NEW T, NEW s \in Seq(T), NEW count \in Int, NEW v
  PROVE  Leaves(s, L!RemovedPositions(s, count, v), L!Removed(s, count, v))
<1>1. CASE count >= 0
  <2> DEFINE n == IF count = 0 THEN Len(s) ELSE count
  <2>1. n \in Nat
    BY <1>1
  <2>2. L!Removed(s, count, v) = L!RemovedLeft(s, n, v)
    BY <1>1 DEF L!Removed
  <2>3. L!RemovedPositions(s, count, v) = FirstOnes(s, n, v)
    BY <1>1, FirstAreRemoved
  <2> QED
    BY <2>1, <2>2, <2>3, RemovedLeftLeaves
<1>2. CASE count < 0
  <2> DEFINE n == Len(s)
             t == L!Reverse(s)
             q == L!RemovedLeft(t, -count, v)
             r == L!Reverse(q)
             gone == L!RemovedPositions(s, count, v)
             first == FirstOnes(t, -count, v)
  <2>1. t \in Seq(T) /\ Len(t) = n /\ n \in Nat /\ \A i \in 1 .. n : t[i] = s[n + 1 - i]
    BY ReverseType
  <2>2. Leaves(t, first, q) /\ q \in Seq(T)
    <3>1. -count \in Nat
      BY <1>2
    <3> QED
      BY <2>1, <3>1, RemovedLeftLeaves, RemovedLeftType
  <2>3. gone \in SUBSET (1 .. n) /\ first = Mirror(gone, n)
    BY <1>2, LastAreRemoved
  <2>4. L!Removed(s, count, v) = r
    BY <1>2 DEF L!Removed
  <2>5. Len(r) = Len(q) /\ Len(q) \in Nat /\ \A x \in 1 .. Len(q) : r[x] = q[Len(q) + 1 - x]
    BY <2>2, ReverseType
  <2> HIDE DEF n, t, q, r, gone, first
  <2>6. /\ first \in SUBSET (1 .. n) /\ Cardinality(first) = Cardinality(gone)
        /\ Counts(gone, n) /\ Counts(first, n)
    BY <2>1, <2>3, MirrorCounts, Counting
  <2>7. /\ Len(q) = n - Cardinality(gone)
        /\ \A j \in 1 .. n \ first :
              j - UpTo(first, j - 1) \in 1 .. Len(q) /\ q[j - UpTo(first, j - 1)] = t[j]
    BY <2>1, <2>2, <2>6 DEF Leaves
  <2>8. ASSUME NEW i \in 1 .. n \ gone
        PROVE  i - UpTo(gone, i - 1) \in 1 .. Len(r) /\ r[i - UpTo(gone, i - 1)] = s[i]
    <3> DEFINE m == n + 1 - i
    <3>1. m \in 1 .. n /\ m - 1 \in 0 .. n /\ i \in 1 .. n /\ i - 1 \in 0 .. n /\ n + 1 - m = i
      BY <2>1
    <3>2. m \notin first
      <4>1. \A j \in gone : n + 1 - j = m => j = i
        BY <2>1, <2>3, <3>1
      <4> QED
        BY <2>3, <4>1 DEF Mirror
    <3>3. UpTo(first, m - 1) = Cardinality(gone) - UpTo(gone, i - 1)
      <4>1. m - 1 = n - i
        BY <2>1, <3>1
      <4> QED
        BY <2>1, <2>3, <3>1, <4>1, MirrorUpTo
    <3>4. m - UpTo(first, m - 1) \in 1 .. Len(q) /\ q[m - UpTo(first, m - 1)] = s[i]
      BY <2>1, <2>7, <3>1, <3>2
    <3>5. UpTo(gone, i - 1) \in Nat /\ Cardinality(gone) \in Nat
      <4>1. n \in 0 .. n
        BY <2>1
      <4> QED
        BY <2>6, <3>1, <4>1 DEF Counts
    <3> DEFINE x == i - UpTo(gone, i - 1)
    <3>6. Len(q) + 1 - x = m - UpTo(first, m - 1)
      BY <2>1, <2>7, <3>1, <3>3, <3>5
    <3>7. x \in 1 .. Len(q)
      <4> DEFINE y == m - UpTo(first, m - 1)
      <4>1. x \in Int
        BY <3>1, <3>5
      <4> HIDE DEF x, y
      <4>2. y \in 1 .. Len(q) /\ Len(q) + 1 - x = y
        BY <3>4, <3>6 DEF y
      <4> QED
        BY <2>5, <4>1, <4>2
    <3> HIDE DEF x, m
    <3>8. x \in 1 .. Len(r) /\ r[x] = s[i]
      BY <2>5, <3>4, <3>6, <3>7
    <3> QED
      BY <3>8 DEF x
  <2>9. Leaves(s, gone, r)
    BY <2>5, <2>7, <2>8 DEF Leaves, n
  <2> QED
    BY <2>4, <2>9 DEF gone
<1> QED
  BY <1>1, <1>2

(* LREM, for every count. *)
LEMMA RemovalsMeet ==
  ASSUME ListState, MaxLen \in Nat
  PROVE  L!RemoveMeetsReference
<1> SUFFICES ASSUME NEW k \in Key, NEW count \in -MaxLen .. MaxLen, NEW v \in Value,
                    data[k] # Absent
             PROVE  LET s    == data[k]
                        gone == L!RemovedPositions(s, count, v)
                        r    == L!Removed(s, count, v)
                    IN  /\ Len(r) = Len(s) - L!Cardinality(gone)
                        /\ \A i \in DOMAIN s \ gone :
                              r[i - L!Cardinality({j \in gone : j < i})] = s[i]
  BY DEF L!RemoveMeetsReference
<1> DEFINE s == data[k]
           gone == L!RemovedPositions(s, count, v)
           r == L!Removed(s, count, v)
<1>1. s \in Seq(Value) /\ count \in Int /\ DOMAIN s = 1 .. Len(s)
  <2>1. data[k] \in Seq(Value)
    BY ListThere DEF ListState
  <2> QED
    BY <2>1
<1>2. Leaves(s, gone, r)
  BY <1>1, RemovedLeaves
<1>3. gone \in SUBSET (1 .. Len(s))
  BY <1>1 DEF L!RemovedPositions
<1> HIDE DEF s, gone, r
<1>4. Len(r) = Len(s) - L!Cardinality(gone)
  BY <1>2, SameCardinality DEF Leaves
<1>5. ASSUME NEW i \in DOMAIN s \ gone
      PROVE  r[i - L!Cardinality({j \in gone : j < i})] = s[i]
  <2>1. i \in 1 .. Len(s) \ gone
    BY <1>1
  <2>2. {j \in gone : j < i} = {j \in gone : j <= i - 1}
    <3>1. \A j \in gone : j < i <=> j <= i - 1
      BY <1>1, <1>3, <2>1
    <3> QED
      BY <3>1
  <2>3. r[i - UpTo(gone, i - 1)] = s[i]
    BY <1>2, <2>1 DEF Leaves
  <2> QED
    BY <2>2, <2>3, SameCardinality DEF UpTo
<1> QED
  BY <1>4, <1>5 DEF s, gone, r

(* LREM removes the occurrences its count stands for, LRANGE, LINDEX and   *)
(* LPOS read what their indices stand for, in every list the engine can    *)
(* hold (RemoveValue, Range, Index, Pos).                        *)
THEOREM ListsMeetTheirReference == Spec => []ListsMeetReference
<1>1. ListInvariant => ListsMeetReference
  <2>1. MaxLen \in Nat
    BY ConstantsAssumption
  <2> QED
    BY <2>1, RemovalsMeet, RangesMeet DEF ListInvariant, ListsMeetReference
<1> QED
  BY <1>1, ListsSafe, PTL


-----------------------------------------------------------------------------
(* A skip list, seen from the ranks R of its nodes, the header's being 0,  *)
(* and from their heights H, the numbers of levels they have.              *)
Nodes(z) == DOMAIN z.node
Below(z, x, y) == \/ z.node[x].score < z.node[y].score
                  \/ z.node[x].score = z.node[y].score /\ x < y

Ranked(z, R) ==
    /\ z.length \in Nat /\ Z!Header \in Nodes(z)
    /\ z.node = [x \in Nodes(z) |-> z.node[x]]
    /\ Z!Elements(z) \subseteq Nat \ {0}
    /\ R \in [Nodes(z) -> 0 .. z.length] /\ R[Z!Header] = 0
    /\ \A x, y \in Nodes(z) : R[x] = R[y] => x = y
    /\ \A r \in 0 .. z.length : \E x \in Nodes(z) : R[x] = r
    /\ \A x, y \in Z!Elements(z) : R[x] < R[y] => Below(z, x, y)

Layered(z, H) ==
    /\ z.level \in 1 .. MaxLevel
    /\ H \in [Nodes(z) -> 1 .. MaxLevel] /\ H[Z!Header] = MaxLevel
    /\ \A x \in Z!Elements(z) : H[x] <= z.level
    /\ z.level = 1 \/ \E x \in Z!Elements(z) : H[x] = z.level
    /\ \A x \in Nodes(z) :
          z.node[x] \in [score : Int, backward : Int,
                         forward : [1 .. H[x] -> Int], span : [1 .. H[x] -> Int]]

(* The link of x on level i leads to the next node that has this level. *)
Linked(z, R, H, x, i) ==
    LET y == z.node[x].forward[i]
        s == z.node[x].span[i]
    IN  \/ /\ y = Z!Nil
           /\ \A w \in Z!Elements(z) : H[w] >= i => R[w] <= R[x]
           /\ i <= z.level => s = z.length - R[x]
        \/ /\ y \in Z!Elements(z) /\ H[y] >= i /\ R[y] > R[x]
           /\ \A w \in Z!Elements(z) : H[w] >= i /\ R[w] > R[x] => R[w] >= R[y]
           /\ s = R[y] - R[x]

LinkedBack(z, R, x) ==
    LET y == z.node[x].backward
    IN  \/ R[x] = 1 /\ y = Z!Nil
        \/ y \in Z!Elements(z) /\ R[y] = R[x] - 1

SkipListOf(z, R, H) ==
    /\ Ranked(z, R) /\ Layered(z, H)
    /\ \A x \in Nodes(z) : \A i \in 1 .. H[x] : Linked(z, R, H, x, i)
    /\ \A x \in Z!Elements(z) : LinkedBack(z, R, x)
    /\ \/ z.length = 0 /\ z.tail = Z!Nil
       \/ z.tail \in Z!Elements(z) /\ R[z.tail] = z.length

IsSkipList(z) == \E R, H : SkipListOf(z, R, H)

-----------------------------------------------------------------------------
(* A step taken again and again. *)
IsIteration(a, n, step, s) == a = [m \in 0 .. n |-> IF m = 0 THEN s ELSE step[a[m - 1]]]

(* Such a run exists. *)
LEMMA Iterated ==
  ASSUME NEW n \in Nat, NEW X, NEW step \in [X -> X], NEW s \in X
  PROVE  \E a \in [0 .. n -> X] : IsIteration(a, n, step, s)
<1> DEFINE F == [p \in X \X {0} |-> step[p[1]]]
           lines == [m \in 1 .. n |-> 0]
<1>1. F \in [X \X {0} -> X] /\ \A x \in X : F[<<x, 0>>] = step[x]
  OBVIOUS
<1>2. lines \in Seq({0}) /\ Len(lines) = n /\ \A m \in 1 .. n : lines[m] = 0
  OBVIOUS
<1> HIDE DEF F, lines
<1>3. PICK a : IsRun(a, X, F, s, lines)
  BY <1>1, <1>2, StepsExist
<1>4. /\ a \in [0 .. n -> X] /\ a[0] = s
      /\ \A m \in 1 .. n : a[m] = F[<<a[m - 1], 0>>]
  BY <1>2, <1>3 DEF IsRun
<1>5. \A m \in 1 .. n : m - 1 \in 0 .. n /\ a[m - 1] \in X
  BY <1>4
<1>6. \A m \in 1 .. n : a[m] = step[a[m - 1]]
  BY <1>1, <1>4, <1>5
<1>7. \A m \in 0 .. n : a[m] = IF m = 0 THEN s ELSE step[a[m - 1]]
  <2>1. \A m \in 0 .. n : m # 0 => m \in 1 .. n
    OBVIOUS
  <2> QED
    BY <1>4, <1>6, <2>1
<1>8. a = [m \in 0 .. n |-> a[m]]
  BY <1>4
<1> QED
  BY <1>4, <1>7, <1>8 DEF IsIteration

(* The same from n down to 1, each step told where it is. *)
IsDescent(a, n, step, s) == a = [i \in 1 .. n |-> step[<<i, IF i = n THEN s ELSE a[i + 1]>>]]

(* Such a descent exists. *)
LEMMA Descended ==
  ASSUME NEW n \in Nat, NEW X, NEW step \in [(1 .. n) \X X -> X], NEW s \in X
  PROVE  \E a \in [1 .. n -> X] : IsDescent(a, n, step, s)
<1> DEFINE F == [p \in X \X (1 .. n) |-> step[<<p[2], p[1]>>]]
           lines == [m \in 1 .. n |-> n + 1 - m]
<1>1. F \in [X \X (1 .. n) -> X] /\ \A x \in X, i \in 1 .. n : F[<<x, i>>] = step[<<i, x>>]
  OBVIOUS
<1>2. lines \in Seq(1 .. n) /\ Len(lines) = n /\ \A m \in 1 .. n : lines[m] = n + 1 - m
  <2>1. \A m \in 1 .. n : n + 1 - m \in 1 .. n
    OBVIOUS
  <2> QED
    BY <2>1
<1> HIDE DEF F, lines
<1>3. PICK f : IsRun(f, X, F, s, lines)
  BY <1>1, <1>2, StepsExist
<1>4. /\ f \in [0 .. n -> X] /\ f[0] = s
      /\ \A m \in 1 .. n : f[m] = F[<<f[m - 1], n + 1 - m>>]
  BY <1>2, <1>3 DEF IsRun
<1> DEFINE a == [i \in 1 .. n |-> f[n + 1 - i]]
<1>5. \A i \in 1 .. n : n + 1 - i \in 1 .. n /\ n + 1 - i \in 0 .. n /\ n - i \in 0 .. n
                        /\ n + 1 - (n + 1 - i) = i /\ (n + 1 - i) - 1 = n - i
  OBVIOUS
<1>6. a \in [1 .. n -> X]
  BY <1>4, <1>5
<1>7. ASSUME NEW i \in 1 .. n
      PROVE  a[i] = step[<<i, IF i = n THEN s ELSE a[i + 1]>>]
  <2>1. f[n + 1 - i] = F[<<f[n - i], i>>]
    BY <1>4, <1>5
  <2>2. f[n - i] \in X
    BY <1>4, <1>5
  <2>3. a[i] = step[<<i, f[n - i]>>]
    BY <1>1, <2>1, <2>2
  <2>4. CASE i = n
    <3>1. n - i = 0
      BY <2>4
    <3> QED
      BY <1>4, <2>3, <2>4, <3>1
  <2>5. CASE i # n
    <3>1. i + 1 \in 1 .. n /\ n + 1 - (i + 1) = n - i
      BY <2>5
    <3>2. a[i + 1] = f[n - i]
      BY <3>1
    <3> QED
      BY <2>3, <2>5, <3>2
  <2> QED
    BY <2>4, <2>5
<1>8. a = [i \in 1 .. n |-> a[i]]
  OBVIOUS
<1> HIDE DEF a
<1>9. IsDescent(a, n, step, s)
  BY <1>7, <1>8 DEF IsDescent
<1> QED
  BY <1>6, <1>9

-----------------------------------------------------------------------------
(* The nodes up to a rank. *)
UpToRank(z, R, r) == {x \in Z!Elements(z) : R[x] <= r}

(* Where a walk along level i can be when it may go up to rank r. *)
Places(z, R, H, i, r) ==
    {p \in [at : Nodes(z), rank : Int] : H[p.at] >= i /\ R[p.at] <= r /\ p.rank = R[p.at]}

(* Where it ends: at the last node with this level. *)
IsLast(z, R, H, i, r, x) ==
    /\ x \in Nodes(z) /\ H[x] >= i /\ R[x] <= r
    /\ \A w \in Nodes(z) : H[w] >= i /\ R[w] <= r => R[w] <= R[x]

(* What is used of the shape of a skip list again and again. *)
LEMMA RankedFacts ==
  ASSUME NEW z, NEW R, NEW H, SkipListOf(z, R, H)
  PROVE  /\ z.length \in Nat /\ Nodes(z) = Z!Elements(z) \cup {Z!Header}
         /\ R \in [Nodes(z) -> 0 .. z.length] /\ R[Z!Header] = 0
         /\ H \in [Nodes(z) -> 1 .. MaxLevel] /\ Z!Elements(z) \subseteq Nat \ {0}
<1>1. Z!Header \in Nodes(z)
  BY DEF SkipListOf, Ranked
<1>2. Nodes(z) = Z!Elements(z) \cup {Z!Header}
  BY <1>1 DEF Nodes, Z!Elements
<1> QED
  BY <1>2 DEF SkipListOf, Ranked, Layered

WalkStep(z, i, passing, p) ==
    LET next == z.node[p.at].forward[i]
    IN  IF next \notin passing THEN p
        ELSE [at |-> next, rank |-> p.rank + z.node[p.at].span[i]]

(* A step of the walk along a level stays among the places of the level    *)
(* and goes up in rank, or is at the last of them and stays.               *)
LEMMA WalkStepIs ==
  ASSUME NEW z, NEW R, NEW H, SkipListOf(z, R, H), NEW i \in 1 .. MaxLevel, NEW r \in 0 .. z.length,
         NEW p \in Places(z, R, H, i, r)
  PROVE  LET q == WalkStep(z, i, UpToRank(z, R, r), p)
         IN  /\ q \in Places(z, R, H, i, r)
             /\ \/ q = p /\ IsLast(z, R, H, i, r, p.at)
                \/ R[q.at] > R[p.at] 
<1> DEFINE x == p.at
           y == z.node[x].forward[i]
           q == WalkStep(z, i, UpToRank(z, R, r), p)
<1>1. /\ z.length \in Nat /\ Nodes(z) = Z!Elements(z) \cup {Z!Header}
      /\ R \in [Nodes(z) -> 0 .. z.length] /\ R[Z!Header] = 0
      /\ H \in [Nodes(z) -> 1 .. MaxLevel] /\ Z!Elements(z) \subseteq Nat \ {0}
  BY RankedFacts
<1>2. x \in Nodes(z) /\ H[x] >= i /\ R[x] <= r /\ p.rank = R[x] /\ i \in 1 .. H[x]
      /\ p = [at |-> x, rank |-> R[x]]
  BY <1>1 DEF Places
<1>3. Linked(z, R, H, x, i)
  BY <1>2 DEF SkipListOf
<1> HIDE DEF x
<1>4. CASE y \notin UpToRank(z, R, r)
  <2>1. q = p
    BY <1>4 DEF WalkStep, x
  <2>2. ASSUME NEW w \in Nodes(z), H[w] >= i, R[w] <= r
        PROVE  R[w] <= R[x]
    <3>1. CASE w = Z!Header
      BY <1>1, <1>2, <3>1
    <3>2. CASE w \in Z!Elements(z)
      <4>1. CASE y = Z!Nil
        <5>1. Z!Nil \notin Z!Elements(z)
          BY <1>1 DEF Z!Nil
        <5> QED
          BY <1>3, <2>2, <3>2, <4>1, <5>1 DEF Linked
      <4>2. CASE y \in Z!Elements(z)
        <5>1. R[y] > r
          BY <1>1, <1>4, <4>2 DEF UpToRank
        <5>2. y # Z!Nil
          BY <1>1, <4>2 DEF Z!Nil
        <5>3. R[w] > R[x] => R[w] >= R[y]
          BY <1>3, <2>2, <3>2, <5>2 DEF Linked
        <5> QED
          BY <1>1, <1>2, <2>2, <4>2, <5>1, <5>3
      <4> QED
        BY <1>3, <4>1, <4>2 DEF Linked
    <3> QED
      BY <1>1, <3>1, <3>2
  <2>3. IsLast(z, R, H, i, r, x)
    BY <1>2, <2>2 DEF IsLast
  <2> QED
    BY <2>1, <2>3 DEF x
<1>5. CASE y \in UpToRank(z, R, r)
  <2>1. y \in Z!Elements(z) /\ R[y] <= r /\ y # Z!Nil
    BY <1>1, <1>5 DEF UpToRank, Z!Nil
  <2>2. H[y] >= i /\ R[y] > R[x] /\ z.node[x].span[i] = R[y] - R[x]
    BY <1>3, <2>1 DEF Linked
  <2>3. R[x] + (R[y] - R[x]) = R[y] /\ R[y] \in Int
    BY <1>1, <1>2, <2>1
  <2>4. q = [at |-> y, rank |-> R[y]]
    BY <1>2, <1>5, <2>2, <2>3 DEF WalkStep, x
  <2> HIDE DEF q, y
  <2>5. q \in Places(z, R, H, i, r)
    BY <1>1, <2>1, <2>2, <2>3, <2>4 DEF Places
  <2> QED
    BY <2>2, <2>4, <2>5 DEF q, x
<1> QED
  BY <1>4, <1>5

(* The places of a walk. *)
IsWalk(walk, z, i, from, P) ==
    walk = [m \in 0 .. z.length |-> IF m = 0 THEN from ELSE WalkStep(z, i, P, walk[m - 1])]

(* The places of the walk along a level. *)
LEMMA WalkIs ==
  ASSUME NEW z, NEW R, NEW H, SkipListOf(z, R, H), NEW i \in 1 .. MaxLevel, NEW r \in 0 .. z.length,
         NEW from \in Places(z, R, H, i, r)
  PROVE  \E walk : /\ IsWalk(walk, z, i, from, UpToRank(z, R, r))
                   /\ Z!Walk(z, i, from, UpToRank(z, R, r)) = walk[z.length]
<1> DEFINE X == Places(z, R, H, i, r)
           P == UpToRank(z, R, r)
           n == z.length
           step == [p \in X |-> WalkStep(z, i, P, p)]
           Walks(a) == a = [m \in 0 .. n |->
               IF m = 0 THEN from
               ELSE LET p    == a[m - 1]
                        next == z.node[p.at].forward[i]
                    IN  IF next \notin P THEN p
                        ELSE [at |-> next, rank |-> p.rank + z.node[p.at].span[i]]]
           walk == CHOOSE a : Walks(a)
<1>1. n \in Nat
  BY DEF SkipListOf, Ranked
<1>2. step \in [X -> X]
  BY WalkStepIs
<1> HIDE DEF X, P, n
<1>3. PICK a \in [0 .. n -> X] : IsIteration(a, n, step, from)
  BY <1>1, <1>2, Iterated, Zenon DEF X
<1>4. Walks(a)
  <2>1. ASSUME NEW m \in 0 .. n, m # 0
        PROVE  step[a[m - 1]] = WalkStep(z, i, P, a[m - 1])
    <3>1. m - 1 \in 0 .. n
      BY <1>1, <2>1
    <3> QED
      BY <1>3, <3>1
  <2> HIDE DEF step
  <2>2. a = [m \in 0 .. n |-> IF m = 0 THEN from ELSE WalkStep(z, i, P, a[m - 1])]
    BY <1>3, <2>1 DEF IsIteration
  <2> QED
    BY <2>2, Zenon DEF WalkStep
<1>5. Walks(walk)
  <2> HIDE DEF Walks
  <2> QED
    BY <1>4
<1>6. Z!Walk(z, i, from, P) = walk[n]
  BY DEF Z!Walk, n
<1> HIDE DEF walk
<1>7. IsWalk(walk, z, i, from, P)
  BY <1>5, Zenon DEF IsWalk, WalkStep, n
<1> QED
  BY <1>6, <1>7 DEF P, n

(* Such a walk stays at or below the rank, and ends at the last place. *)
LEMMA WalkArrives ==
  ASSUME NEW z, NEW R, NEW H, SkipListOf(z, R, H), NEW i \in 1 .. MaxLevel, NEW r \in 0 .. z.length,
         NEW from \in Places(z, R, H, i, r), NEW walk, IsWalk(walk, z, i, from, UpToRank(z, R, r))
  PROVE  /\ \A m \in 0 .. z.length : walk[m] \in Places(z, R, H, i, r)
         /\ IsLast(z, R, H, i, r, walk[z.length].at)
<1> DEFINE X == Places(z, R, H, i, r)
           P == UpToRank(z, R, r)
           n == z.length
<1>1. n \in Nat /\ R \in [Nodes(z) -> 0 .. n]
  BY DEF SkipListOf, Ranked
<1> HIDE DEF X, P, n
<1>2. walk[0] = from
  BY <1>1 DEF IsWalk, n
<1>3. ASSUME NEW m \in 0 .. n - 1
      PROVE  walk[m + 1] = WalkStep(z, i, P, walk[m])
  <2>1. m + 1 \in 0 .. n /\ m + 1 # 0 /\ (m + 1) - 1 = m
    BY <1>1
  <2> QED
    BY <2>1 DEF IsWalk, n, P
<1> DEFINE Done == {m \in 0 .. n : walk[m] \in X /\ (IsLast(z, R, H, i, r, walk[m].at) \/ R[walk[m].at] >= m)}
<1>4. 0 \in Done
  <2>1. from \in X /\ R[from.at] >= 0
    BY <1>1 DEF X, Places
  <2> QED
    BY <1>1, <1>2, <2>1
<1>5. ASSUME NEW m \in 0 .. n - 1, m \in Done
       PROVE  m + 1 \in Done
  <2>1. m + 1 \in 0 .. n /\ walk[m] \in X /\ walk[m + 1] = WalkStep(z, i, P, walk[m])
    BY <1>1, <1>3, <1>5
  <2>2. /\ walk[m + 1] \in X
        /\ \/ walk[m + 1] = walk[m] /\ IsLast(z, R, H, i, r, walk[m].at)
           \/ R[walk[m + 1].at] > R[walk[m].at]
    BY <2>1, WalkStepIs DEF X, P
  <2>3. walk[m].at \in Nodes(z) /\ walk[m + 1].at \in Nodes(z)
    BY <2>1, <2>2 DEF X, Places
  <2>4. R[walk[m].at] \in 0 .. n /\ R[walk[m + 1].at] \in 0 .. n
    BY <1>1, <2>3
  <2>5. IsLast(z, R, H, i, r, walk[m + 1].at) \/ R[walk[m + 1].at] >= m + 1
    <3>1. CASE walk[m + 1] = walk[m] /\ IsLast(z, R, H, i, r, walk[m].at)
      BY <3>1
    <3>2. CASE R[walk[m + 1].at] > R[walk[m].at]
      <4>1. CASE IsLast(z, R, H, i, r, walk[m].at)
        <5>1. H[walk[m + 1].at] >= i /\ R[walk[m + 1].at] <= r
          BY <2>2 DEF X, Places
        <5>2. R[walk[m + 1].at] <= R[walk[m].at]
          BY <2>3, <4>1, <5>1 DEF IsLast
        <5> QED
          BY <2>4, <3>2, <5>2
      <4>2. CASE R[walk[m].at] >= m
        BY <2>4, <3>2, <4>2
      <4> QED
        BY <1>5, <4>1, <4>2
    <3> QED
      BY <2>2, <3>1, <3>2
  <2> QED
    BY <2>1, <2>2, <2>5
<1>6. 0 .. n \subseteq Done
  <2> HIDE DEF Done
  <2> QED
    BY <1>1, <1>4, <1>5, CountingUp
<1>7. /\ \A m \in 0 .. n : walk[m] \in X
      /\ IsLast(z, R, H, i, r, walk[n].at) \/ R[walk[n].at] >= n
  <2>1. n \in 0 .. n
    BY <1>1
  <2> QED
    BY <1>6, <2>1
<1>8. IsLast(z, R, H, i, r, walk[n].at)
  <2>1. CASE R[walk[n].at] >= n
    <3>1. walk[n].at \in Nodes(z) /\ H[walk[n].at] >= i /\ R[walk[n].at] <= r
      <4>1. walk[n] \in X
        BY <1>1, <1>7
      <4> QED
        BY <4>1 DEF X, Places
    <3>2. \A w \in Nodes(z) : R[w] <= R[walk[n].at]
      BY <1>1, <2>1, <3>1
    <3> QED
      BY <3>1, <3>2 DEF IsLast
  <2>2. CASE ~(R[walk[n].at] >= n)
    BY <1>7, <2>2
  <2> QED
    BY <2>1, <2>2
<1>9. \A m \in 0 .. n : walk[m] \in X
  BY <1>7
<1> QED
  BY <1>8, <1>9 DEF X, n

(* The walk along a level ends at its last node up to the rank r. *)
LEMMA WalkEnds ==
  ASSUME NEW z, NEW R, NEW H, SkipListOf(z, R, H), NEW i \in 1 .. MaxLevel, NEW r \in 0 .. z.length,
         NEW from \in Places(z, R, H, i, r)
  PROVE  LET end == Z!Walk(z, i, from, UpToRank(z, R, r))
         IN  end \in Places(z, R, H, i, r) /\ IsLast(z, R, H, i, r, end.at)
<1>1. z.length \in 0 .. z.length
  BY RankedFacts
<1> QED
  BY <1>1, WalkIs, WalkArrives

(* Down the levels, each from where the one above has ended. *)
Start == [at |-> Z!Header, rank |-> 0]
GoesDown(z, R, H, r, f) ==
    \A i \in 1 .. z.level :
        (IF i = z.level THEN Start ELSE f[i + 1]) \in Places(z, R, H, i, r)
            => f[i] \in Places(z, R, H, i, r)

(* So every level is entered, and left, at one of its places. *)
LEMMA DownThePath ==
  ASSUME NEW z, NEW R, NEW H, SkipListOf(z, R, H), NEW r \in 0 .. z.length,
         NEW f, GoesDown(z, R, H, r, f)
  PROVE  \A i \in 1 .. z.level :
            /\ (IF i = z.level THEN Start ELSE f[i + 1]) \in Places(z, R, H, i, r)
            /\ f[i] \in Places(z, R, H, i, r)
<1> DEFINE n == z.level
           From(i) == IF i = n THEN Start ELSE f[i + 1]
           Done == {m \in 0 .. n : \A i \in 1 .. n : i > n - m =>
                       From(i) \in Places(z, R, H, i, r) /\ f[i] \in Places(z, R, H, i, r)}
<1>1. n \in Nat /\ n \in 1 .. MaxLevel
  BY ConstantsAssumption DEF SkipListOf, Layered
<1>2. 0 \in Done
  BY <1>1
<1>3. ASSUME NEW m \in 0 .. n - 1, m \in Done
      PROVE  m + 1 \in Done
  <2> DEFINE j == n - m
  <2>1. m + 1 \in 0 .. n /\ j \in 1 .. n
    BY <1>1
  <2>2. From(j) \in Places(z, R, H, j, r)
    <3>1. CASE j = n
      <4>1. Z!Header \in Nodes(z) /\ H[Z!Header] = MaxLevel /\ R[Z!Header] = 0
        BY DEF SkipListOf, Ranked, Layered
      <4>2. H[Z!Header] >= j /\ R[Z!Header] <= r
        BY <1>1, <2>1, <4>1, ConstantsAssumption
      <4> QED
        BY <3>1, <4>1, <4>2 DEF Start, Places
    <3>2. CASE j # n
      <4>1. j + 1 \in 1 .. n /\ j + 1 > n - m
        BY <1>1, <2>1, <3>2
      <4>2. f[j + 1] \in Places(z, R, H, j + 1, r)
        BY <1>3, <4>1
      <4>3. f[j + 1] \in Places(z, R, H, j, r)
        <5>1. H \in [Nodes(z) -> 1 .. MaxLevel]
          BY DEF SkipListOf, Layered
        <5>2. \A h \in 1 .. MaxLevel : h >= j + 1 => h >= j
          BY <2>1, ConstantsAssumption
        <5> QED
          BY <4>2, <5>1, <5>2 DEF Places
      <4> QED
        BY <3>2, <4>3
    <3> QED
      BY <3>1, <3>2
  <2>3. f[j] \in Places(z, R, H, j, r)
    BY <2>1, <2>2 DEF GoesDown
  <2>4. \A i \in 1 .. n : i > n - (m + 1) => i = j \/ i > n - m
    BY <1>1
  <2> HIDE DEF From, j
  <2>5. \A i \in 1 .. n : i > n - (m + 1) => From(i) \in Places(z, R, H, i, r) /\ f[i] \in Places(z, R, H, i, r)
    BY <1>3, <2>2, <2>3, <2>4
  <2> QED
    BY <2>1, <2>5
<1>4. n \in Done
  <2> HIDE DEF Done
  <2>1. 0 .. n \subseteq Done
    BY <1>1, <1>2, <1>3, CountingUp
  <2> QED
    BY <1>1, <2>1
<1>5. \A i \in 1 .. n : i > n - n
  BY <1>1
<1> QED
  BY <1>4, <1>5

(* The search goes down the levels, a walk on each. *)
LEMMA PathIs ==
  ASSUME NEW z, NEW R, NEW H, SkipListOf(z, R, H), NEW r \in 0 .. z.length
  PROVE  LET path == Z!Path(z, UpToRank(z, R, r))
         IN  path = [m \in 1 .. z.level |->
                       Z!Walk(z, m, IF m = z.level THEN Start ELSE path[m + 1], UpToRank(z, R, r))]
<1> DEFINE n == z.level
           P == UpToRank(z, R, r)
           X == Places(z, R, H, 1, r)
           step == [q \in (1 .. n) \X X |->
                      IF q[2] \in Places(z, R, H, q[1], r) THEN Z!Walk(z, q[1], q[2], P) ELSE Start]
           IsPath(a) == a = [m \in 1 .. n |-> Z!Walk(z, m, IF m = n THEN Start ELSE a[m + 1], P)]
           path == CHOOSE a : IsPath(a)
<1>1. n \in Nat /\ n \in 1 .. MaxLevel /\ \A m \in 1 .. n : m \in 1 .. MaxLevel
  BY ConstantsAssumption DEF SkipListOf, Layered
<1>2. ASSUME NEW m \in 1 .. n, NEW p \in Places(z, R, H, m, r)
      PROVE  Z!Walk(z, m, p, P) \in Places(z, R, H, m, r) /\ IsLast(z, R, H, m, r, Z!Walk(z, m, p, P).at)
  BY <1>1, WalkEnds
<1>3. \A m \in 1 .. n : Places(z, R, H, m, r) \subseteq X
  <2>1. H \in [Nodes(z) -> 1 .. MaxLevel]
    BY DEF SkipListOf, Layered
  <2>2. \A h \in 1 .. MaxLevel : h >= 1
    BY ConstantsAssumption
  <2> QED
    BY <2>1, <2>2 DEF Places
<1>4. Start \in X
  <2>1. Z!Header \in Nodes(z) /\ H[Z!Header] = MaxLevel /\ R[Z!Header] = 0
    BY DEF SkipListOf, Ranked, Layered
  <2>2. H[Z!Header] >= 1 /\ R[Z!Header] <= r
    BY <1>1, <2>1, ConstantsAssumption
  <2> QED
    BY <2>1, <2>2 DEF Start, Places
<1> HIDE DEF X, n, P
<1>5. step \in [(1 .. n) \X X -> X]
  <2>1. ASSUME NEW m \in 1 .. n, NEW p \in X
        PROVE  (IF p \in Places(z, R, H, m, r) THEN Z!Walk(z, m, p, P) ELSE Start) \in X
    BY <1>2, <1>3, <1>4
  <2> QED
    BY <2>1
<1>6. PICK a \in [1 .. n -> X] : IsDescent(a, n, step, Start)
  BY <1>1, <1>4, <1>5, Descended
<1> DEFINE From(m) == IF m = n THEN Start ELSE a[m + 1]
<1>7. ASSUME NEW m \in 1 .. n
      PROVE  a[m] = IF From(m) \in Places(z, R, H, m, r) THEN Z!Walk(z, m, From(m), P) ELSE Start
  <2>1. From(m) \in X
    <3>1. m # n => m + 1 \in 1 .. n
      BY <1>1
    <3> QED
      BY <1>4, <1>6, <3>1
  <2>2. a[m] = step[<<m, From(m)>>]
    BY <1>6 DEF IsDescent
  <2> HIDE DEF From
  <2> QED
    BY <2>1, <2>2
<1>8. GoesDown(z, R, H, r, a)
  BY <1>2, <1>7 DEF GoesDown, n
<1>9. \A m \in 1 .. n : From(m) \in Places(z, R, H, m, r)
  BY <1>8, DownThePath DEF n
<1>10. IsPath(a)
  <2>1. \A m \in 1 .. n : a[m] = Z!Walk(z, m, From(m), P)
    BY <1>7, <1>9
  <2>2. a = [m \in 1 .. n |-> a[m]]
    BY <1>6
  <2> QED
    BY <2>1, <2>2
<1>11. IsPath(path)
  <2> HIDE DEF IsPath
  <2> QED
    BY <1>10
<1>12. Z!Path(z, P) = path
  BY DEF Z!Path, n, Start
<1> QED
  BY <1>11, <1>12 DEF P, n

(* The search leaves every level at its last node up to the rank r. *)
LEMMA PathEnds ==
  ASSUME NEW z, NEW R, NEW H, SkipListOf(z, R, H), NEW r \in 0 .. z.length, NEW i \in 1 .. z.level
  PROVE  LET end == Z!Path(z, UpToRank(z, R, r))[i]
         IN  end \in Places(z, R, H, i, r) /\ IsLast(z, R, H, i, r, end.at)
<1> DEFINE n == z.level
           P == UpToRank(z, R, r)
           path == Z!Path(z, P)
<1>1. \A m \in 1 .. n : m \in 1 .. MaxLevel
  BY ConstantsAssumption DEF SkipListOf, Layered
<1>2. ASSUME NEW m \in 1 .. n, NEW p \in Places(z, R, H, m, r)
      PROVE  Z!Walk(z, m, p, P) \in Places(z, R, H, m, r) /\ IsLast(z, R, H, m, r, Z!Walk(z, m, p, P).at)
  BY <1>1, WalkEnds
<1>3. path = [m \in 1 .. n |-> Z!Walk(z, m, IF m = n THEN Start ELSE path[m + 1], P)]
  BY PathIs
<1> HIDE DEF P, path, n
<1>4. \A m \in 1 .. n : path[m] = Z!Walk(z, m, IF m = n THEN Start ELSE path[m + 1], P)
  BY <1>3
<1>5. GoesDown(z, R, H, r, path)
  BY <1>2, <1>4 DEF GoesDown, n
<1>6. (IF i = n THEN Start ELSE path[i + 1]) \in Places(z, R, H, i, r)
  BY <1>5, DownThePath DEF n
<1>7. i \in 1 .. n
  BY DEF n
<1>8. path[i] \in Places(z, R, H, i, r) /\ IsLast(z, R, H, i, r, path[i].at)
  <2> DEFINE p == IF i = n THEN Start ELSE path[i + 1]
  <2>1. path[i] = Z!Walk(z, i, p, P)
    BY <1>4, <1>7
  <2>2. p \in Places(z, R, H, i, r)
    BY <1>6
  <2> HIDE DEF p
  <2> QED
    BY <1>2, <1>7, <2>1, <2>2
<1> QED
  BY <1>8 DEF P, path

-----------------------------------------------------------------------------
(* What is closed downwards is what is up to a rank: ... *)
LEMMA DownSet ==
  ASSUME NEW z, NEW R, NEW H, SkipListOf(z, R, H), NEW P \in SUBSET Z!Elements(z),
         \A x, y \in Z!Elements(z) : y \in P /\ R[x] < R[y] => x \in P
  PROVE  \E r \in 0 .. z.length : P = UpToRank(z, R, r)
<1> DEFINE E == Z!Elements(z)
           Q == {R[x] : x \in P}
<1>1. /\ z.length \in Nat /\ R[Z!Header] = 0 /\ Z!Header \in Nodes(z)
      /\ \A x \in E : x \in Nodes(z) /\ R[x] \in 0 .. z.length /\ x # Z!Header
      /\ \A x, y \in Nodes(z) : R[x] = R[y] => x = y
  BY DEF SkipListOf, Ranked, Nodes, Z!Elements
<1>2. \A x \in E : R[x] \in 1 .. z.length
  <2>1. \A x \in E : R[x] # 0
    BY <1>1
  <2> QED
    BY <1>1, <2>1
<1> HIDE DEF E
<1>3. CASE P = {}
  <2>1. UpToRank(z, R, 0) = {}
    BY <1>2 DEF UpToRank, E
  <2>2. 0 \in 0 .. z.length
    BY <1>1
  <2> QED
    BY <1>3, <2>1, <2>2
<1>4. CASE P # {}
  <2>1. Q \in SUBSET (1 .. z.length) /\ Q # {}
    BY <1>2, <1>4 DEF E
  <2> HIDE DEF Q
  <2>2. Max(Q) \in Q /\ \A q \in Q : q <= Max(Q)
    BY <1>1, <2>1, MaxPosition
  <2>3. PICK m \in P : R[m] = Max(Q)
    BY <2>2 DEF Q
  <2>4. \A x \in P : R[x] <= R[m]
    BY <2>2, <2>3 DEF Q
  <2>5. m \in E /\ R[m] \in 0 .. z.length
    BY <1>2, <2>3 DEF E
  <2>6. \A x \in E : R[x] <= R[m] => x \in P
    <3>1. \A x \in E : R[x] <= R[m] => R[x] < R[m] \/ R[x] = R[m]
      BY <1>2, <2>5
    <3>2. \A x \in E : R[x] = R[m] => x = m
      BY <1>1, <2>5
    <3> QED
      BY <2>3, <2>5, <3>1, <3>2 DEF E
  <2>7. P = UpToRank(z, R, R[m])
    BY <2>4, <2>6 DEF UpToRank, E
  <2> QED
    BY <2>5, <2>7
<1> QED
  BY <1>3, <1>4

(* Numbers compare as numbers, ... *)
LEMMA FloatOrder ==
  ASSUME NEW a \in Int, NEW b \in Int
  PROVE  /\ Z!Less(a, b) <=> a < b
         /\ Z!Equal(a, b) <=> a = b
         /\ Z!AtMost(a, b) <=> a <= b
BY ConstantsAssumption DEF Z!Less, Z!Equal, Z!AtMost

(* ... and so do the scores a search for an element compares, ... *)
LEMMA BeforeIs ==
  ASSUME NEW z, \A x \in Z!Elements(z) : z.node[x].score \in Int, NEW score \in Int, NEW ele
  PROVE  \A x : x \in Z!Before(z, score, ele) <=>
                   /\ x \in Z!Elements(z)
                   /\ z.node[x].score < score \/ (z.node[x].score = score /\ x < ele)
<1> DEFINE E == Z!Elements(z)
<1>1. \A x \in E : /\ Z!Less(z.node[x].score, score) <=> z.node[x].score < score
                   /\ Z!Equal(z.node[x].score, score) <=> z.node[x].score = score
  BY FloatOrder
<1> QED
  BY <1>1 DEF Z!Before

(* ... or a search for a score. *)
LEMMA ScoredSets ==
  ASSUME NEW z, \A x \in Z!Elements(z) : z.node[x].score \in Int, NEW score \in Int
  PROVE  /\ Z!ScoredBelow(z, score) = {x \in Z!Elements(z) : z.node[x].score < score}
         /\ Z!ScoredUpTo(z, score) = {x \in Z!Elements(z) : z.node[x].score <= score}
         /\ Z!ScoredFrom(z, score) = Z!Elements(z) \ Z!ScoredBelow(z, score)
<1> DEFINE E == Z!Elements(z)
<1>1. \A x \in E : /\ z.node[x].score \in Int
                   /\ Z!Less(z.node[x].score, score) <=> z.node[x].score < score
                   /\ Z!AtMost(z.node[x].score, score) <=> z.node[x].score <= score
                   /\ Z!AtMost(score, z.node[x].score) <=> score <= z.node[x].score
  BY FloatOrder
<1> HIDE DEF E
<1>2. Z!ScoredBelow(z, score) = {x \in E : z.node[x].score < score}
  BY <1>1 DEF Z!ScoredBelow, E
<1>3. Z!ScoredUpTo(z, score) = {x \in E : z.node[x].score <= score}
  BY <1>1 DEF Z!ScoredUpTo, E
<1>4. Z!ScoredFrom(z, score) = {x \in E : score <= z.node[x].score}
  BY <1>1 DEF Z!ScoredFrom, E
<1>5. \A x \in E : score <= z.node[x].score <=> ~(z.node[x].score < score)
  BY <1>1
<1> QED
  BY <1>2, <1>3, <1>4, <1>5 DEF E

(* Scores are numbers. *)
LEMMA ScoresAreNumbers ==
  ASSUME NEW z, NEW R, NEW H, SkipListOf(z, R, H)
  PROVE  \A x \in Z!Elements(z) : z.node[x].score \in Int
<1>1. \A x \in Z!Elements(z) : x \in Nodes(z)
  BY RankedFacts
<1>2. \A x \in Nodes(z) : z.node[x] \in [score : Int, backward : Int,
                     forward : [1 .. H[x] -> Int], span : [1 .. H[x] -> Int]]
  BY DEF SkipListOf, Layered
<1> QED
  BY <1>1, <1>2

(* Where the searches go: up to a rank. *)
LEMMA SearchedIsUpToRank ==
  ASSUME NEW z, NEW R, NEW H, SkipListOf(z, R, H), NEW score \in Int, NEW ele \in Int
  PROVE  /\ \E r \in 0 .. z.length : Z!Before(z, score, ele) = UpToRank(z, R, r)
         /\ \E r \in 0 .. z.length : Z!ScoredBelow(z, score) = UpToRank(z, R, r)
         /\ \E r \in 0 .. z.length : Z!ScoredUpTo(z, score) = UpToRank(z, R, r)
<1> DEFINE E == Z!Elements(z)
<1>1. /\ \A x \in E : x \in Int /\ z.node[x].score \in Int
      /\ \A x, y \in E : R[x] < R[y] => Below(z, x, y)
  BY DEF SkipListOf, Ranked, Layered, Nodes, Z!Elements
<1>1a. \A x : x \in Z!Before(z, score, ele) <=>
                 /\ x \in E
                 /\ z.node[x].score < score \/ (z.node[x].score = score /\ x < ele)
  BY <1>1, BeforeIs
<1>1b. /\ Z!ScoredBelow(z, score) = {x \in E : z.node[x].score < score}
       /\ Z!ScoredUpTo(z, score) = {x \in E : z.node[x].score <= score}
  BY <1>1, ScoredSets
<1>2. \A x, y \in E : y \in Z!Before(z, score, ele) /\ R[x] < R[y] => x \in Z!Before(z, score, ele)
  BY <1>1, <1>1a DEF Below
<1>3. \A x, y \in E : y \in Z!ScoredBelow(z, score) /\ R[x] < R[y] => x \in Z!ScoredBelow(z, score)
  BY <1>1, <1>1b DEF Below
<1>4. \A x, y \in E : y \in Z!ScoredUpTo(z, score) /\ R[x] < R[y] => x \in Z!ScoredUpTo(z, score)
  BY <1>1, <1>1b DEF Below
<1>5. /\ Z!Before(z, score, ele) \in SUBSET E /\ Z!ScoredBelow(z, score) \in SUBSET E
      /\ Z!ScoredUpTo(z, score) \in SUBSET E
  BY <1>1a, <1>1b
<1> HIDE DEF E
<1>6. \E r \in 0 .. z.length : Z!Before(z, score, ele) = UpToRank(z, R, r)
  BY <1>2, <1>5, DownSet DEF E
<1>7. \E r \in 0 .. z.length : Z!ScoredBelow(z, score) = UpToRank(z, R, r)
  BY <1>3, <1>5, DownSet DEF E
<1>8. \E r \in 0 .. z.length : Z!ScoredUpTo(z, score) = UpToRank(z, R, r)
  BY <1>4, <1>5, DownSet DEF E
<1> QED
  BY <1>6, <1>7, <1>8

-----------------------------------------------------------------------------
(* Three fields of a node change, its score stays. *)
Changed(n, b, f, s) == [n EXCEPT !.backward = b, !.forward = f, !.span = s]

(* The change as a record. *)
LEMMA NodeChanged ==
  ASSUME NEW A, NEW B, NEW n \in [score : A, backward : A, forward : B, span : B],
         NEW b, NEW f, NEW s
  PROVE  Changed(n, b, f, s) = [score |-> n.score, backward |-> b, forward |-> f, span |-> s]
<1> DEFINE F == {"score", "backward", "forward", "span"}
           changed == [x \in F |-> IF x = "backward" THEN b
                                   ELSE IF x = "forward" THEN f
                                   ELSE IF x = "span" THEN s ELSE n[x]]
<1>1. DOMAIN n = F
  OBVIOUS
<1>2. [score |-> n.score, backward |-> b, forward |-> f, span |-> s] = changed
  OBVIOUS
<1>3. Changed(n, b, f, s) = changed
  BY <1>1 DEF Changed
<1> QED
  BY <1>2, <1>3

(* Insertion: u is `update`, the last node of each level up to rank r. *)
Updates(z, R, H, r, u) == u \in [1 .. MaxLevel -> Nodes(z)] /\ \A i \in 1 .. MaxLevel : IsLast(z, R, H, i, r, u[i])

NodeIs(node, score, backward, forward, span) ==
    node = [score |-> score, backward |-> backward, forward |-> forward, span |-> span]

IsInserted(z, R, H, r, u, lev, score, ele, z2) ==
    LET next == z.node[u[1]].forward[1]
    IN  /\ z2.length = z.length + 1
        /\ z2.level = IF lev > z.level THEN lev ELSE z.level
        /\ z2.tail = IF next = Z!Nil THEN ele ELSE z.tail
        /\ Nodes(z2) = Nodes(z) \cup {ele} /\ z2.node = [x \in Nodes(z2) |-> z2.node[x]]
        /\ NodeIs(z2.node[ele], score,
                  IF u[1] = Z!Header THEN Z!Nil ELSE u[1],
                  [i \in 1 .. lev |-> z.node[u[i]].forward[i]],
                  [i \in 1 .. lev |->
                      (IF i > z.level THEN z.length ELSE z.node[u[i]].span[i]) - (r - R[u[i]])])
        /\ \A x \in Nodes(z) :
              NodeIs(z2.node[x], z.node[x].score,
                     IF x = next THEN ele ELSE z.node[x].backward,
                     [i \in 1 .. H[x] |->
                         IF i <= lev /\ u[i] = x THEN ele ELSE z.node[x].forward[i]],
                     [i \in 1 .. H[x] |->
                         IF i <= lev /\ u[i] = x THEN r - R[x] + 1
                         ELSE IF i <= z.level /\ u[i] = x THEN z.node[x].span[i] + 1
                         ELSE z.node[x].span[i]])

(* insert makes of the list what IsInserted says, whatever the place. *)
LEMMA InsertNodeIs ==
  ASSUME NEW z, NEW R, NEW H, SkipListOf(z, R, H), NEW score \in Int, NEW ele \in Nat \ {0},
         ele \notin Nodes(z), NEW lev \in 1 .. MaxLevel,
         NEW r \in 0 .. z.length, Z!Before(z, score, ele) = UpToRank(z, R, r)
  PROVE  \E u : /\ Updates(z, R, H, r, u)
                /\ IsInserted(z, R, H, r, u, lev, score, ele, Z!InsertNode(z, lev, score, ele))
<1> DEFINE path == Z!PathTo(z, score, ele)
           u == [i \in 1 .. MaxLevel |-> IF i > z.level THEN Z!Header ELSE path[i].at]
           z2 == Z!InsertNode(z, lev, score, ele)
<1>1. /\ z.length \in Nat /\ z.level \in 1 .. MaxLevel /\ MaxLevel \in Nat \ {0}
      /\ Nodes(z) = Z!Elements(z) \cup {Z!Header}
      /\ R \in [Nodes(z) -> 0 .. z.length] /\ R[Z!Header] = 0
      /\ H \in [Nodes(z) -> 1 .. MaxLevel] /\ H[Z!Header] = MaxLevel
      /\ \A x \in Z!Elements(z) : H[x] <= z.level
      /\ \A x \in Nodes(z) :
           z.node[x] \in [score : Int, backward : Int,
                          forward : [1 .. H[x] -> Int], span : [1 .. H[x] -> Int]]
  BY RankedFacts, ConstantsAssumption DEF SkipListOf, Layered
<1>2. \A i \in 1 .. z.level : /\ path[i] \in Places(z, R, H, i, r)
                              /\ IsLast(z, R, H, i, r, path[i].at)
  BY PathEnds DEF Z!PathTo
<1>3. \A i \in 1 .. z.level : path[i].at \in Nodes(z) /\ path[i].rank = R[path[i].at]
  BY <1>2 DEF Places
<1> HIDE DEF path
<1>4. Updates(z, R, H, r, u)
  <2>1. u \in [1 .. MaxLevel -> Nodes(z)]
    <3>1. \A i \in 1 .. MaxLevel : ~(i > z.level) => i \in 1 .. z.level
      BY <1>1
    <3> QED
      BY <1>1, <1>3, <3>1
  <2>2. ASSUME NEW i \in 1 .. MaxLevel
        PROVE  IsLast(z, R, H, i, r, u[i])
    <3>1. CASE i > z.level
      <4>1. \A w \in Nodes(z) : H[w] >= i => w = Z!Header
        BY <1>1, <3>1
      <4>2. u[i] = Z!Header /\ Z!Header \in Nodes(z) /\ H[Z!Header] >= i /\ R[Z!Header] <= r
        BY <1>1, <3>1
      <4> HIDE DEF u
      <4>3. \A w \in Nodes(z) : H[w] >= i => R[w] <= R[u[i]]
        BY <1>1, <4>1, <4>2
      <4> QED
        BY <4>2, <4>3 DEF IsLast
    <3>2. CASE ~(i > z.level)
      <4>1. i \in 1 .. z.level /\ u[i] = path[i].at
        BY <1>1, <3>2
      <4> QED
        BY <1>2, <4>1
    <3> QED
      BY <3>1, <3>2
  <2> QED
    BY <2>1, <2>2 DEF Updates
<1> DEFINE update(i) == IF i > z.level THEN Z!Header ELSE path[i].at
           passed(i) == path[1].rank - (IF i > z.level THEN 0 ELSE path[i].rank)
           next == z.node[update(1)].forward[1]
           inserted ==
               [score    |-> score,
                backward |-> IF update(1) = Z!Header THEN Z!Nil ELSE update(1),
                forward  |-> [i \in 1 .. lev |-> z.node[update(i)].forward[i]],
                span     |-> [i \in 1 .. lev |-> Z!SpanBefore(z, update(i), i) - passed(i)]]
           relinked(x) ==
               [z.node[x] EXCEPT
                   !.backward = IF x = next THEN ele ELSE @,
                   !.forward = [i \in DOMAIN @ |-> IF i <= lev /\ update(i) = x THEN ele ELSE @[i]],
                   !.span = [i \in DOMAIN @ |->
                                IF i <= lev /\ update(i) = x THEN passed(i) + 1
                                ELSE IF i <= z.level /\ update(i) = x THEN @[i] + 1
                                ELSE @[i]]]
<1>5. z2 = [node   |-> [x \in DOMAIN z.node \cup {ele} |-> IF x = ele THEN inserted ELSE relinked(x)],
            tail   |-> IF next = Z!Nil THEN ele ELSE z.tail,
            length |-> z.length + 1,
            level  |-> IF lev > z.level THEN lev ELSE z.level]
  BY DEF Z!InsertNode, path
<1>6. path[1].rank = r
  <2>1. 1 \in 1 .. z.level
    BY <1>1
  <2>2. PICK x \in Nodes(z) : R[x] = r
    BY DEF SkipListOf, Ranked
  <2>3. H[x] >= 1
    BY <1>1
  <2>4. R[path[1].at] <= r /\ R[x] <= R[path[1].at]
    BY <1>2, <2>1, <2>2, <2>3 DEF IsLast
  <2> QED
    BY <1>1, <1>3, <2>1, <2>2, <2>4
<1>7. \A i \in 1 .. MaxLevel : update(i) = u[i] /\ passed(i) = r - R[u[i]]
  <2>1. ASSUME NEW i \in 1 .. MaxLevel
        PROVE  update(i) = u[i] /\ passed(i) = r - R[u[i]]
    <3>1. CASE i > z.level
      BY <1>1, <1>6, <3>1
    <3>2. CASE ~(i > z.level)
      <4>1. i \in 1 .. z.level
        BY <1>1, <3>2
      <4> QED
        BY <1>3, <1>6, <3>2, <4>1
    <3> QED
      BY <3>1, <3>2
  <2> QED
    BY <2>1
<1>8. 1 \in 1 .. MaxLevel /\ \A i \in 1 .. lev : i \in 1 .. MaxLevel
  BY <1>1
<1>9. next = z.node[u[1]].forward[1] /\ update(1) = u[1]
  BY <1>7, <1>8
<1> HIDE DEF u, update, passed
<1>10. inserted = [score    |-> score,
                   backward |-> IF u[1] = Z!Header THEN Z!Nil ELSE u[1],
                   forward  |-> [i \in 1 .. lev |-> z.node[u[i]].forward[i]],
                   span     |-> [i \in 1 .. lev |->
                                (IF i > z.level THEN z.length ELSE z.node[u[i]].span[i]) - (r - R[u[i]])]]
  <2>1. [i \in 1 .. lev |-> z.node[update(i)].forward[i]] = [i \in 1 .. lev |-> z.node[u[i]].forward[i]]
    BY <1>7, <1>8
  <2>2. \A i \in 1 .. lev : Z!SpanBefore(z, update(i), i) - passed(i)
           = (IF i > z.level THEN z.length ELSE z.node[u[i]].span[i]) - (r - R[u[i]])
    BY <1>7, <1>8 DEF Z!SpanBefore
  <2>3. [i \in 1 .. lev |-> Z!SpanBefore(z, update(i), i) - passed(i)]
        = [i \in 1 .. lev |-> (IF i > z.level THEN z.length ELSE z.node[u[i]].span[i]) - (r - R[u[i]])]
    BY <2>2
  <2> QED
    BY <1>9, <2>1, <2>3
<1>11. ASSUME NEW x \in Nodes(z)
       PROVE  relinked(x) =
                [score    |-> z.node[x].score,
                 backward |-> IF x = next THEN ele ELSE z.node[x].backward,
                 forward  |-> [i \in 1 .. H[x] |->
                                  IF i <= lev /\ u[i] = x THEN ele ELSE z.node[x].forward[i]],
                 span     |-> [i \in 1 .. H[x] |->
                                  IF i <= lev /\ u[i] = x THEN r - R[x] + 1
                                  ELSE IF i <= z.level /\ u[i] = x THEN z.node[x].span[i] + 1
                                  ELSE z.node[x].span[i]]]
  <2> DEFINE b == IF x = next THEN ele ELSE z.node[x].backward
             f == [i \in DOMAIN z.node[x].forward |->
                      IF i <= lev /\ update(i) = x THEN ele ELSE z.node[x].forward[i]]
             s == [i \in DOMAIN z.node[x].span |->
                      IF i <= lev /\ update(i) = x THEN passed(i) + 1
                      ELSE IF i <= z.level /\ update(i) = x THEN z.node[x].span[i] + 1
                      ELSE z.node[x].span[i]]
  <2>1. relinked(x) = [z.node[x] EXCEPT !.backward = b, !.forward = f, !.span = s]
    OBVIOUS
  <2>2. /\ DOMAIN z.node[x].forward = 1 .. H[x] /\ DOMAIN z.node[x].span = 1 .. H[x]
        /\ \A i \in 1 .. H[x] : i \in 1 .. MaxLevel
    BY <1>1
  <2>3. f = [i \in 1 .. H[x] |-> IF i <= lev /\ u[i] = x THEN ele ELSE z.node[x].forward[i]]
    BY <1>7, <2>2
  <2>4. s = [i \in 1 .. H[x] |->
                IF i <= lev /\ u[i] = x THEN r - R[x] + 1
                ELSE IF i <= z.level /\ u[i] = x THEN z.node[x].span[i] + 1
                ELSE z.node[x].span[i]]
    <3>1. \A i \in 1 .. H[x] : (update(i) = x <=> u[i] = x) /\ (u[i] = x => passed(i) = r - R[x])
      BY <1>7, <2>2
    <3> QED
      BY <2>2, <3>1
  <2> HIDE DEF b, f, s, next
  <2>5. [z.node[x] EXCEPT !.backward = b, !.forward = f, !.span = s]
        = [score |-> z.node[x].score, backward |-> b, forward |-> f, span |-> s]
    <3> DEFINE n == z.node[x]
               B == [1 .. H[x] -> Int]
    <3>1. n \in [score : Int, backward : Int, forward : B, span : B]
      BY <1>1
    <3> HIDE DEF n, B
    <3>2. [n EXCEPT !.backward = b, !.forward = f, !.span = s]
          = [score |-> n.score, backward |-> b, forward |-> f, span |-> s]
      <4>1. Changed(n, b, f, s) = [score |-> n.score, backward |-> b, forward |-> f, span |-> s]
        BY <3>1, NodeChanged
      <4> QED
        BY <4>1 DEF Changed
    <3> QED
      BY <3>2 DEF n
  <2> QED
    BY <2>1, <2>3, <2>4, <2>5 DEF b
<1> HIDE DEF inserted, relinked, next
<1>12. /\ Nodes(z2) = Nodes(z) \cup {ele} /\ z2.node = [x \in Nodes(z2) |-> z2.node[x]]
       /\ z2.node[ele] = inserted
       /\ \A x \in Nodes(z) : z2.node[x] = relinked(x)
       /\ z2.tail = IF next = Z!Nil THEN ele ELSE z.tail
       /\ z2.length = z.length + 1
       /\ z2.level = IF lev > z.level THEN lev ELSE z.level
  <2> HIDE DEF z2
  <2> QED
    BY <1>5 DEF Nodes
<1> HIDE DEF z2
<1>13. IsInserted(z, R, H, r, u, lev, score, ele, z2)
  BY <1>9, <1>10, <1>11, <1>12 DEF IsInserted, NodeIs
<1> QED
  BY <1>4, <1>13 DEF z2

(* Who follows the place of an insertion on a level. *)
LEMMA NextAfterLast ==
  ASSUME NEW z, NEW R, NEW H, SkipListOf(z, R, H), NEW r \in 0 .. z.length,
         NEW i \in 1 .. MaxLevel, NEW x, IsLast(z, R, H, i, r, x)
  PROVE  LET y == z.node[x].forward[i]
             s == z.node[x].span[i]
         IN  \/ /\ y = Z!Nil /\ (i <= z.level => s = z.length - R[x])
                /\ \A w \in Z!Elements(z) : H[w] >= i => R[w] <= r
                /\ i > z.level => R[x] = 0
             \/ /\ y \in Z!Elements(z) /\ H[y] >= i /\ R[y] > r /\ s = R[y] - R[x] /\ i <= z.level
                /\ \A w \in Z!Elements(z) : H[w] >= i /\ R[w] > r => R[w] >= R[y]
<1> DEFINE y == z.node[x].forward[i]
           s == z.node[x].span[i]
           E == Z!Elements(z)
<1>1. /\ z.length \in Nat /\ z.level \in 1 .. MaxLevel /\ MaxLevel \in Nat \ {0}
      /\ Nodes(z) = E \cup {Z!Header}
      /\ R \in [Nodes(z) -> 0 .. z.length] /\ R[Z!Header] = 0
      /\ H \in [Nodes(z) -> 1 .. MaxLevel]
      /\ \A w \in E : H[w] <= z.level
  BY RankedFacts, ConstantsAssumption DEF SkipListOf, Layered
<1>2. /\ x \in Nodes(z) /\ H[x] >= i /\ R[x] <= r /\ i \in 1 .. H[x]
      /\ \A w \in Nodes(z) : H[w] >= i /\ R[w] <= r => R[w] <= R[x]
  BY <1>1 DEF IsLast
<1>3. Linked(z, R, H, x, i)
  BY <1>2 DEF SkipListOf
<1> HIDE DEF E, y, s
<1>4. CASE /\ y = Z!Nil
           /\ \A w \in E : H[w] >= i => R[w] <= R[x]
           /\ i <= z.level => s = z.length - R[x]
  <2>1. \A w \in E : H[w] >= i => R[w] <= r
    BY <1>1, <1>2, <1>4
  <2>2. i > z.level => R[x] = 0
    BY <1>1, <1>2
  <2> QED
    BY <1>4, <2>1, <2>2 DEF E, y, s
<1>5. CASE /\ y \in E /\ H[y] >= i /\ R[y] > R[x]
           /\ \A w \in E : H[w] >= i /\ R[w] > R[x] => R[w] >= R[y]
           /\ s = R[y] - R[x]
  <2>1. y \in Nodes(z) /\ R[y] \in Nat /\ R[x] \in Nat
    BY <1>1, <1>2, <1>5
  <2>2. R[y] > r
    BY <1>1, <1>2, <1>5, <2>1
  <2>3. i <= z.level
    BY <1>1, <1>5, <2>1
  <2>4. ASSUME NEW w \in E, H[w] >= i, R[w] > r
        PROVE  R[w] >= R[y]
    <3>1. w \in Nodes(z) /\ R[w] \in Nat
      BY <1>1
    <3>2. R[w] > R[x]
      BY <1>2, <2>1, <2>4, <3>1
    <3> QED
      BY <1>5, <2>4, <3>2
  <2> QED
    BY <1>5, <2>2, <2>3, <2>4 DEF E, y, s
<1>6. \/ /\ y = Z!Nil
         /\ \A w \in E : H[w] >= i => R[w] <= R[x]
         /\ i <= z.level => s = z.length - R[x]
      \/ /\ y \in E /\ H[y] >= i /\ R[y] > R[x]
         /\ \A w \in E : H[w] >= i /\ R[w] > R[x] => R[w] >= R[y]
         /\ s = R[y] - R[x]
  BY <1>3 DEF Linked, E, y, s
<1> QED
  BY <1>4, <1>5, <1>6

(* Ranks and heights when ele has been inserted behind rank r. *)
Raised(z2, R, r, ele) ==
    [x \in Nodes(z2) |-> IF x = ele THEN r + 1 ELSE IF R[x] <= r THEN R[x] ELSE R[x] + 1]
Heightened(z2, H, lev, ele) == [x \in Nodes(z2) |-> IF x = ele THEN lev ELSE H[x]]

InsertionPlace(z, R, H, r, u, lev, score, ele, z2) ==
    /\ SkipListOf(z, R, H) /\ score \in Int /\ ele \in Nat \ {0} /\ ele \notin Nodes(z)
    /\ lev \in 1 .. MaxLevel /\ r \in 0 .. z.length /\ Z!Before(z, score, ele) = UpToRank(z, R, r)
    /\ Updates(z, R, H, r, u) /\ IsInserted(z, R, H, r, u, lev, score, ele, z2)

(* The new element is there with its score, the others keep theirs. *)
LEMMA InsertedElements ==
  ASSUME NEW z, NEW R, NEW H, NEW r, NEW u, NEW lev, NEW score, NEW ele, NEW z2,
         InsertionPlace(z, R, H, r, u, lev, score, ele, z2)
  PROVE  /\ Z!Elements(z2) = Z!Elements(z) \cup {ele} /\ ele # Z!Header
         /\ z2.node[ele].score = score
         /\ \A x \in Nodes(z) : z2.node[x].score = z.node[x].score
<1>1. ele # Z!Header /\ Nodes(z2) = Nodes(z) \cup {ele}
  BY DEF InsertionPlace, IsInserted, Z!Header
<1>2. Z!Elements(z2) = Z!Elements(z) \cup {ele}
  BY <1>1 DEF Z!Elements, Nodes
<1>3. z2.node[ele].score = score
  <2>1. \E b, f, s : NodeIs(z2.node[ele], score, b, f, s)
    BY DEF InsertionPlace, IsInserted
  <2> QED
    BY <2>1 DEF NodeIs
<1>4. ASSUME NEW x \in Nodes(z)
      PROVE  z2.node[x].score = z.node[x].score
  <2>1. \E b, f, s : NodeIs(z2.node[x], z.node[x].score, b, f, s)
    BY DEF InsertionPlace, IsInserted
  <2> QED
    BY <2>1 DEF NodeIs
<1> QED
  BY <1>1, <1>2, <1>3, <1>4

(* Ranks are compared as before. *)
LEMMA RaisedRanks ==
  ASSUME NEW z, NEW R, NEW H, NEW r, NEW u, NEW lev, NEW score, NEW ele, NEW z2,
         InsertionPlace(z, R, H, r, u, lev, score, ele, z2)
  PROVE  LET Q == Raised(z2, R, r, ele)
         IN  /\ r \in Nat /\ z.length \in Nat /\ r <= z.length /\ Nodes(z2) = Nodes(z) \cup {ele}
             /\ Q[ele] = r + 1 /\ Q[Z!Header] = 0 /\ Q \in [Nodes(z2) -> 0 .. z.length + 1]
             /\ \A x \in Nodes(z) : /\ R[x] \in Nat /\ R[x] <= z.length
                                    /\ R[x] <= r => Q[x] = R[x]
                                    /\ R[x] > r => Q[x] = R[x] + 1
<1> DEFINE Q == Raised(z2, R, r, ele)
<1>1. /\ z.length \in Nat /\ r \in 0 .. z.length
      /\ R \in [Nodes(z) -> 0 .. z.length] /\ R[Z!Header] = 0 /\ Z!Header \in Nodes(z)
      /\ Nodes(z2) = Nodes(z) \cup {ele} /\ ele \notin Nodes(z)
  BY DEF InsertionPlace, SkipListOf, Ranked, IsInserted
<1>2. Q[ele] = r + 1
  BY <1>1 DEF Raised
<1>3. \A x \in Nodes(z) : Q[x] = IF R[x] <= r THEN R[x] ELSE R[x] + 1
  BY <1>1 DEF Raised
<1>4. \A x \in Nodes(z) : /\ R[x] \in Nat /\ R[x] <= z.length
                          /\ R[x] <= r => Q[x] = R[x]
                          /\ R[x] > r => Q[x] = R[x] + 1
  BY <1>1, <1>3
<1>5. \A x \in Nodes(z2) : Q[x] \in 0 .. z.length + 1
  <2>1. \A x \in Nodes(z) : Q[x] \in 0 .. z.length + 1
    <3> HIDE DEF Q
    <3> QED
      BY <1>1, <1>3, <1>4
  <2> HIDE DEF Q
  <2>2. Q[ele] \in 0 .. z.length + 1
    BY <1>1, <1>2
  <2> QED
    BY <1>1, <2>1, <2>2
<1>6. Q = [x \in Nodes(z2) |-> Q[x]]
  BY DEF Raised
<1> HIDE DEF Q
<1>7. Q \in [Nodes(z2) -> 0 .. z.length + 1]
  BY <1>5, <1>6
<1>8. Q[Z!Header] = 0
  BY <1>1, <1>4
<1> QED
  BY <1>1, <1>2, <1>4, <1>7, <1>8 DEF Q

(* The elements behind the new one have moved up by one rank. *)
LEMMA InsertedRanked ==
  ASSUME NEW z, NEW R, NEW H, NEW r, NEW u, NEW lev, NEW score, NEW ele, NEW z2,
         InsertionPlace(z, R, H, r, u, lev, score, ele, z2)
  PROVE  Ranked(z2, Raised(z2, R, r, ele))
<1> DEFINE Q == Raised(z2, R, r, ele)
           N == Nodes(z)
           E == Z!Elements(z)
<1>1. /\ r \in Nat /\ z.length \in Nat /\ r <= z.length /\ Nodes(z2) = N \cup {ele}
      /\ Q[ele] = r + 1 /\ Q[Z!Header] = 0 /\ Q \in [Nodes(z2) -> 0 .. z.length + 1]
      /\ \A x \in N : /\ R[x] \in Nat /\ R[x] <= z.length
                      /\ R[x] <= r => Q[x] = R[x]
                      /\ R[x] > r => Q[x] = R[x] + 1
  BY RaisedRanks
<1>2. /\ Z!Header \in N /\ E \subseteq Nat \ {0} /\ E \subseteq N
      /\ \A x, y \in N : R[x] = R[y] => x = y
      /\ \A q \in 0 .. z.length : \E x \in N : R[x] = q
      /\ \A x, y \in E : R[x] < R[y] => Below(z, x, y)
  BY DEF InsertionPlace, SkipListOf, Ranked, Nodes, Z!Elements
<1>3. /\ z2.length = z.length + 1 /\ z2.node = [x \in Nodes(z2) |-> z2.node[x]]
      /\ ele \in Nat \ {0} /\ ele \notin N /\ score \in Int
      /\ Z!Before(z, score, ele) = UpToRank(z, R, r)
  BY DEF InsertionPlace, IsInserted
<1>4. /\ Z!Elements(z2) = E \cup {ele} /\ z2.node[ele].score = score
      /\ \A x \in N : z2.node[x].score = z.node[x].score
  BY InsertedElements
<1>5. \A x \in E : z.node[x].score \in Int
  BY <1>2 DEF InsertionPlace, SkipListOf, Layered
<1>5a. \A x : x \in Z!Before(z, score, ele) <=>
                 /\ x \in E
                 /\ z.node[x].score < score \/ (z.node[x].score = score /\ x < ele)
  BY <1>3, <1>5, BeforeIs
<1> HIDE DEF Q, N, E
<1>6. \A x, y \in Nodes(z2) : Q[x] = Q[y] => x = y
  <2>1. ASSUME NEW x \in N, NEW y \in N, Q[x] = Q[y]
        PROVE  x = y
    <3>1. R[x] = R[y]
      BY <1>1, <2>1
    <3> QED
      BY <1>2, <3>1
  <2>2. \A x \in N : Q[x] # r + 1
    BY <1>1
  <2> QED
    BY <1>1, <2>1, <2>2
<1>7. ASSUME NEW q \in 0 .. z.length + 1
      PROVE  \E x \in Nodes(z2) : Q[x] = q
  <2>1. CASE q <= r
    <3>1. q \in 0 .. z.length
      BY <1>1, <2>1
    <3>2. PICK x \in N : R[x] = q
      BY <1>2, <3>1
    <3> QED
      BY <1>1, <2>1, <3>2
  <2>2. CASE q = r + 1
    BY <1>1, <2>2
  <2>3. CASE q > r + 1
    <3>1. q - 1 \in 0 .. z.length
      BY <1>1, <2>3
    <3>2. PICK x \in N : R[x] = q - 1
      BY <1>2, <3>1
    <3>3. R[x] > r /\ Q[x] = q
      BY <1>1, <2>3, <3>2
    <3> QED
      BY <1>1, <3>3
  <2> QED
    BY <1>1, <2>1, <2>2, <2>3
<1>8. ASSUME NEW x \in Z!Elements(z2), NEW y \in Z!Elements(z2), Q[x] < Q[y]
      PROVE  Below(z2, x, y)
  <2>1. CASE x \in E /\ y \in E
    <3>1. x \in N /\ y \in N
      BY <1>2, <2>1
    <3>2. R[x] < R[y]
      BY <1>1, <1>8, <3>1
    <3> QED
      BY <1>2, <1>4, <2>1, <3>1, <3>2 DEF Below
  <2>2. CASE x \in E /\ y = ele
    <3>1. x \in N /\ R[x] <= r
      BY <1>1, <1>2, <1>8, <2>2
    <3>2. x \in Z!Before(z, score, ele)
      BY <1>3, <2>2, <3>1 DEF UpToRank, E
    <3> QED
      <4>1. \/ z.node[x].score < score
            \/ z.node[x].score = score /\ x < ele
        BY <1>5a, <3>2
      <4> QED
        BY <1>4, <2>2, <3>1, <4>1 DEF Below
  <2>3. CASE x = ele /\ y \in E
    <3>1. y \in N /\ R[y] > r
      BY <1>1, <1>2, <1>8, <2>3
    <3>2. y \notin Z!Before(z, score, ele)
      BY <1>1, <1>3, <3>1 DEF UpToRank
    <3>3. ~(z.node[y].score < score \/ (z.node[y].score = score /\ y < ele))
      BY <1>5a, <2>3, <3>2
    <3>4. y # ele /\ y \in Int /\ ele \in Int /\ z.node[y].score \in Int /\ score \in Int
      <4>1. y # ele
        BY <1>3, <3>1
      <4>2. y \in Int
        BY <1>2, <2>3
      <4> QED
        BY <1>3, <1>5, <2>3, <4>1, <4>2
    <3>5. score < z.node[y].score \/ (score = z.node[y].score /\ ele < y)
      BY <3>3, <3>4
    <3> QED
      BY <1>4, <2>3, <3>1, <3>5 DEF Below
  <2>4. CASE x = ele /\ y = ele
    BY <1>1, <1>8, <2>4
  <2> QED
    BY <1>4, <2>1, <2>2, <2>3, <2>4
<1>9. Z!Elements(z2) \subseteq Nat \ {0} /\ Z!Header \in Nodes(z2)
  BY <1>1, <1>2, <1>3, <1>4
<1> QED
  BY <1>1, <1>3, <1>6, <1>7, <1>8, <1>9 DEF Ranked, Q

(* The links, spans and ways back after the insertion, field by field. *)
LEMMA InsertedFields ==
  ASSUME NEW z, NEW R, NEW H, NEW r, NEW u, NEW lev, NEW score, NEW ele, NEW z2,
         InsertionPlace(z, R, H, r, u, lev, score, ele, z2)
  PROVE  /\ z2.node[ele].backward = IF u[1] = Z!Header THEN Z!Nil ELSE u[1]
         /\ \A i \in 1 .. lev :
               /\ z2.node[ele].forward[i] = z.node[u[i]].forward[i]
               /\ z2.node[ele].span[i] =
                     (IF i > z.level THEN z.length ELSE z.node[u[i]].span[i]) - (r - R[u[i]])
         /\ \A x \in Nodes(z) :
               /\ z2.node[x].backward =
                     IF x = z.node[u[1]].forward[1] THEN ele ELSE z.node[x].backward
               /\ \A i \in 1 .. H[x] :
                     /\ z2.node[x].forward[i] =
                           IF i <= lev /\ u[i] = x THEN ele ELSE z.node[x].forward[i]
                     /\ z2.node[x].span[i] =
                           IF i <= lev /\ u[i] = x THEN r - R[x] + 1
                           ELSE IF i <= z.level /\ u[i] = x THEN z.node[x].span[i] + 1
                           ELSE z.node[x].span[i]
<1>1. z2.node[ele].backward = IF u[1] = Z!Header THEN Z!Nil ELSE u[1]
  <2> DEFINE b == IF u[1] = Z!Header THEN Z!Nil ELSE u[1]
  <2>1. \E f, s : NodeIs(z2.node[ele], score, b, f, s)
    BY DEF InsertionPlace, IsInserted
  <2> HIDE DEF b
  <2>2. z2.node[ele].backward = b
    BY <2>1 DEF NodeIs
  <2> QED
    BY <2>2 DEF b
<1>2. ASSUME NEW i \in 1 .. lev
      PROVE  /\ z2.node[ele].forward[i] = z.node[u[i]].forward[i]
             /\ z2.node[ele].span[i] =
                   (IF i > z.level THEN z.length ELSE z.node[u[i]].span[i]) - (r - R[u[i]])
  <2> DEFINE f == [m \in 1 .. lev |-> z.node[u[m]].forward[m]]
             s == [m \in 1 .. lev |->
                      (IF m > z.level THEN z.length ELSE z.node[u[m]].span[m]) - (r - R[u[m]])]
  <2>1. \E b : NodeIs(z2.node[ele], score, b, f, s)
    BY DEF InsertionPlace, IsInserted
  <2> HIDE DEF f, s
  <2>2. z2.node[ele].forward = f /\ z2.node[ele].span = s
    BY <2>1 DEF NodeIs
  <2> QED
    BY <2>2 DEF f, s
<1>3. ASSUME NEW x \in Nodes(z)
      PROVE  /\ z2.node[x].backward =
                   IF x = z.node[u[1]].forward[1] THEN ele ELSE z.node[x].backward
             /\ \A i \in 1 .. H[x] :
                   /\ z2.node[x].forward[i] =
                         IF i <= lev /\ u[i] = x THEN ele ELSE z.node[x].forward[i]
                   /\ z2.node[x].span[i] =
                         IF i <= lev /\ u[i] = x THEN r - R[x] + 1
                         ELSE IF i <= z.level /\ u[i] = x THEN z.node[x].span[i] + 1
                         ELSE z.node[x].span[i]
  <2> DEFINE b == IF x = z.node[u[1]].forward[1] THEN ele ELSE z.node[x].backward
             f == [i \in 1 .. H[x] |-> IF i <= lev /\ u[i] = x THEN ele ELSE z.node[x].forward[i]]
             s == [i \in 1 .. H[x] |->
                      IF i <= lev /\ u[i] = x THEN r - R[x] + 1
                      ELSE IF i <= z.level /\ u[i] = x THEN z.node[x].span[i] + 1
                      ELSE z.node[x].span[i]]
  <2>1. NodeIs(z2.node[x], z.node[x].score, b, f, s)
    BY DEF InsertionPlace, IsInserted
  <2> HIDE DEF b, f, s
  <2>2. z2.node[x].backward = b /\ z2.node[x].forward = f /\ z2.node[x].span = s
    BY <2>1 DEF NodeIs
  <2> QED
    BY <2>2 DEF b, f, s
<1> QED
  BY <1>1, <1>2, <1>3

(* The new node has the levels that were drawn for it. *)
LEMMA InsertedLayered ==
  ASSUME NEW z, NEW R, NEW H, NEW r, NEW u, NEW lev, NEW score, NEW ele, NEW z2,
         InsertionPlace(z, R, H, r, u, lev, score, ele, z2)
  PROVE  Layered(z2, Heightened(z2, H, lev, ele))
<1> DEFINE G == Heightened(z2, H, lev, ele)
           E == Z!Elements(z)
           N == Nodes(z)
           Type(h) == [score : Int, backward : Int, forward : [1 .. h -> Int], span : [1 .. h -> Int]]
<1>1. /\ z.length \in Nat /\ z.level \in 1 .. MaxLevel /\ MaxLevel \in Nat \ {0}
      /\ N = E \cup {Z!Header} /\ E \subseteq Nat \ {0}
      /\ R \in [N -> 0 .. z.length]
      /\ H \in [N -> 1 .. MaxLevel] /\ H[Z!Header] = MaxLevel
      /\ \A x \in E : H[x] <= z.level
      /\ z.level = 1 \/ \E x \in E : H[x] = z.level
      /\ \A x \in N : z.node[x] \in Type(H[x])
  <2>1. SkipListOf(z, R, H)
    BY DEF InsertionPlace
  <2>2. MaxLevel \in Nat \ {0}
    BY ConstantsAssumption
  <2>3. \A x \in N : z.node[x] \in Type(H[x])
    BY <2>1 DEF SkipListOf, Layered
  <2>4. Layered(z, H)
    BY <2>1 DEF SkipListOf
  <2> HIDE DEF Type
  <2> QED
    BY <2>1, <2>2, <2>3, <2>4, RankedFacts DEF Layered
<1>2. /\ Z!Elements(z2) = E \cup {ele} /\ ele # Z!Header /\ Nodes(z2) = N \cup {ele}
      /\ ele \notin N /\ ele \in Nat \ {0} /\ lev \in 1 .. MaxLevel /\ score \in Int /\ r \in Nat
      /\ z2.level = IF lev > z.level THEN lev ELSE z.level
      /\ u \in [1 .. MaxLevel -> N]
  <2>1. /\ Z!Elements(z2) = E \cup {ele} /\ ele # Z!Header
    BY InsertedElements
  <2>2. Nodes(z2) = N \cup {ele} /\ r \in Nat
    BY RaisedRanks
  <2>3. /\ ele \notin N /\ ele \in Nat \ {0} /\ lev \in 1 .. MaxLevel /\ score \in Int
        /\ z2.level = IF lev > z.level THEN lev ELSE z.level
        /\ u \in [1 .. MaxLevel -> N]
    BY DEF InsertionPlace, IsInserted, Updates
  <2> QED
    BY <2>1, <2>2, <2>3
<1> HIDE DEF E, N
<1>3. /\ G \in [Nodes(z2) -> 1 .. MaxLevel] /\ G[ele] = lev
      /\ \A x \in N : G[x] = H[x]
  BY <1>1, <1>2 DEF Heightened
<1> HIDE DEF G
<1>4. G[Z!Header] = MaxLevel
  BY <1>1, <1>3
<1>5. \A x \in Z!Elements(z2) : G[x] <= z2.level
  <2>1. z.level <= z2.level /\ lev <= z2.level /\ z2.level \in Int
    BY <1>1, <1>2
  <2>2. \A x \in E : G[x] <= z2.level
    <3>1. \A x \in E : x \in N /\ H[x] \in Int
      BY <1>1
    <3> QED
      BY <1>1, <1>3, <2>1, <3>1
  <2> QED
    BY <1>2, <1>3, <2>1, <2>2
<1>6. z2.level = 1 \/ \E x \in Z!Elements(z2) : G[x] = z2.level
  <2>1. CASE lev > z.level
    BY <1>2, <1>3, <2>1
  <2>2. CASE ~(lev > z.level)
    <3>1. \A x \in E : G[x] = H[x]
      BY <1>1, <1>3
    <3> QED
      BY <1>1, <1>2, <2>2, <3>1
  <2> QED
    BY <2>1, <2>2
<1>7. z2.level \in 1 .. MaxLevel
  BY <1>1, <1>2
<1>8. ASSUME NEW x \in Nodes(z2)
      PROVE  z2.node[x] \in Type(G[x])
  <2>1. CASE x = ele
    <3> DEFINE b == IF u[1] = Z!Header THEN Z!Nil ELSE u[1]
               f == [i \in 1 .. lev |-> z.node[u[i]].forward[i]]
               s == [i \in 1 .. lev |->
                        (IF i > z.level THEN z.length ELSE z.node[u[i]].span[i]) - (r - R[u[i]])]
    <3>1. NodeIs(z2.node[x], score, b, f, s)
      BY <2>1 DEF InsertionPlace, IsInserted
    <3>2. b \in Int
      <4>1. 1 \in 1 .. MaxLevel
        BY <1>1
      <4>2. u[1] \in N
        BY <1>2, <4>1
      <4>3. u[1] \in Int
        <5>1. u[1] \in E => u[1] \in Nat
          BY <1>1
        <5>2. u[1] \in E \/ u[1] = 0
          BY <1>1, <4>2 DEF Z!Header
        <5>3. u[1] = 0 => u[1] \in Int
          OBVIOUS
        <5> QED
          BY <5>1, <5>2, <5>3
      <4> QED
        BY <4>3 DEF Z!Nil
    <3>3. ASSUME NEW i \in 1 .. lev
          PROVE  /\ z.node[u[i]].forward[i] \in Int
                 /\ (IF i > z.level THEN z.length ELSE z.node[u[i]].span[i]) - (r - R[u[i]]) \in Int
      <4>1. i \in 1 .. MaxLevel /\ u[i] \in N
        BY <1>1, <1>2
      <4>2. i \in 1 .. H[u[i]]
        BY <4>1 DEF InsertionPlace, Updates, IsLast
      <4>3. z.node[u[i]].forward[i] \in Int /\ z.node[u[i]].span[i] \in Int
        BY <1>1, <4>1, <4>2
      <4>4. R[u[i]] \in Int
        BY <1>1, <4>1
      <4>5. z.length \in Int /\ r \in Int
        BY <1>1, <1>2
      <4> QED
        BY <4>3, <4>4, <4>5
    <3>4. f \in [1 .. lev -> Int] /\ s \in [1 .. lev -> Int]
      BY <3>3
    <3> HIDE DEF b, f, s
    <3> QED
      BY <1>2, <1>3, <2>1, <3>1, <3>2, <3>4 DEF NodeIs
  <2>2. CASE x # ele
    <3> DEFINE b == IF x = z.node[u[1]].forward[1] THEN ele ELSE z.node[x].backward
               f == [i \in 1 .. H[x] |-> IF i <= lev /\ u[i] = x THEN ele ELSE z.node[x].forward[i]]
               s == [i \in 1 .. H[x] |->
                        IF i <= lev /\ u[i] = x THEN r - R[x] + 1
                        ELSE IF i <= z.level /\ u[i] = x THEN z.node[x].span[i] + 1
                        ELSE z.node[x].span[i]]
    <3>0. x \in N
      BY <1>2, <2>2
    <3>1. NodeIs(z2.node[x], z.node[x].score, b, f, s)
      BY <3>0 DEF InsertionPlace, IsInserted, N
    <3>2. z.node[x].score \in Int /\ z.node[x].backward \in Int
          /\ \A i \in 1 .. H[x] : z.node[x].forward[i] \in Int /\ z.node[x].span[i] \in Int
      BY <1>1, <3>0
    <3>3. R[x] \in Int
      BY <1>1, <3>0
    <3>4. b \in Int
      BY <1>2, <3>2
    <3>5. ele \in Int /\ r \in Int
      BY <1>2
    <3>6. f \in [1 .. H[x] -> Int]
      BY <3>2, <3>5
    <3>7. s \in [1 .. H[x] -> Int]
      <4>1. \A i \in 1 .. H[x] : s[i] \in Int
        BY <3>2, <3>3, <3>5
      <4> HIDE DEF b, f
      <4> QED
        BY <4>1
    <3> HIDE DEF b, f, s
    <3> QED
      BY <1>3, <3>0, <3>1, <3>2, <3>4, <3>6, <3>7 DEF NodeIs
  <2> QED
    BY <2>1, <2>2
<1> QED
  BY <1>3, <1>4, <1>5, <1>6, <1>7, <1>8 DEF Layered, G

(* The links of the new list, by whose they are. *)
LEMMA InsertedSetting ==
  ASSUME NEW z, NEW R, NEW H, NEW r, NEW u, NEW lev, NEW score, NEW ele, NEW z2,
         InsertionPlace(z, R, H, r, u, lev, score, ele, z2)
  PROVE  LET Q == Raised(z2, R, r, ele)
             G == Heightened(z2, H, lev, ele)
         IN  /\ SkipListOf(z, R, H) /\ MaxLevel \in Nat /\ r \in 0 .. z.length
             /\ z.length \in Nat /\ z.level \in Nat /\ z.level <= MaxLevel
             /\ z2.length = z.length + 1 /\ z2.level = IF lev > z.level THEN lev ELSE z.level
             /\ Nodes(z) = Z!Elements(z) \cup {Z!Header} /\ Nodes(z2) = Nodes(z) \cup {ele}
             /\ Z!Elements(z2) = Z!Elements(z) \cup {ele} /\ ele \notin Nodes(z)
             /\ lev \in 1 .. MaxLevel /\ Q[ele] = r + 1 /\ G[ele] = lev
             /\ \A x \in Nodes(z) : /\ R[x] \in Nat /\ H[x] \in Nat /\ G[x] = H[x]
                                    /\ H[x] \in 1 .. MaxLevel
                                    /\ R[x] <= r => Q[x] = R[x]
                                    /\ R[x] > r => Q[x] = R[x] + 1
             /\ \A i \in 1 .. MaxLevel : IsLast(z, R, H, i, r, u[i])
<1> DEFINE Q == Raised(z2, R, r, ele)
           G == Heightened(z2, H, lev, ele)
<1>1. /\ SkipListOf(z, R, H) /\ lev \in 1 .. MaxLevel /\ r \in 0 .. z.length
      /\ \A i \in 1 .. MaxLevel : IsLast(z, R, H, i, r, u[i])
      /\ z2.length = z.length + 1 /\ z2.level = IF lev > z.level THEN lev ELSE z.level
      /\ ele \notin Nodes(z) /\ Nodes(z2) = Nodes(z) \cup {ele}
  BY DEF InsertionPlace, IsInserted, Updates
<1>2. MaxLevel \in Nat
  BY ConstantsAssumption
<1>3. z.level \in 1 .. MaxLevel
  BY <1>1 DEF SkipListOf, Layered
<1>4. Z!Elements(z2) = Z!Elements(z) \cup {ele}
  BY InsertedElements
<1>5. /\ Q[ele] = r + 1
      /\ \A x \in Nodes(z) : /\ R[x] \in Nat
                             /\ R[x] <= r => Q[x] = R[x]
                             /\ R[x] > r => Q[x] = R[x] + 1
  BY RaisedRanks
<1>6. /\ z.length \in Nat /\ Nodes(z) = Z!Elements(z) \cup {Z!Header}
      /\ H \in [Nodes(z) -> 1 .. MaxLevel]
  BY <1>1, RankedFacts
<1>7. G[ele] = lev /\ \A x \in Nodes(z) : G[x] = H[x]
  BY <1>1 DEF Heightened
<1> HIDE DEF Q, G
<1>8. \A x \in Nodes(z) : H[x] \in 1 .. MaxLevel /\ H[x] \in Nat
  BY <1>2, <1>6
<1>9. z.level \in Nat /\ z.level <= MaxLevel
  BY <1>2, <1>3
<1> QED
  BY <1>1, <1>2, <1>4, <1>5, <1>6, <1>7, <1>8, <1>9 DEF Q, G

(* those of the new node, ... *)
LEMMA LinkedFromNew ==
  ASSUME NEW z, NEW R, NEW H, NEW r, NEW u, NEW lev, NEW score, NEW ele, NEW z2,
         InsertionPlace(z, R, H, r, u, lev, score, ele, z2), NEW i \in 1 .. lev
  PROVE  Linked(z2, Raised(z2, R, r, ele), Heightened(z2, H, lev, ele), ele, i)
<1> DEFINE Q == Raised(z2, R, r, ele)
           G == Heightened(z2, H, lev, ele)
           E == Z!Elements(z)
           y == z.node[u[i]].forward[i]
           s == z.node[u[i]].span[i]
<1>1. /\ SkipListOf(z, R, H) /\ MaxLevel \in Nat /\ r \in 0 .. z.length
      /\ z.length \in Nat /\ z.level \in Nat
      /\ z2.length = z.length + 1
      /\ Z!Elements(z2) = E \cup {ele}
      /\ lev \in 1 .. MaxLevel /\ Q[ele] = r + 1 /\ G[ele] = lev
  BY InsertedSetting
<1>2. /\ \A x \in E : /\ R[x] \in Nat /\ G[x] = H[x]
                      /\ R[x] <= r => Q[x] = R[x]
                      /\ R[x] > r => Q[x] = R[x] + 1
  BY InsertedSetting
<1>3. i \in 1 .. MaxLevel /\ IsLast(z, R, H, i, r, u[i]) /\ R[u[i]] \in Nat
  <2>1. i \in 1 .. MaxLevel
    BY <1>1
  <2>2. IsLast(z, R, H, i, r, u[i])
    BY <2>1, InsertedSetting
  <2>3. u[i] \in Nodes(z)
    BY <2>2 DEF IsLast
  <2> QED
    BY <2>1, <2>2, <2>3, InsertedSetting
<1>4. \/ /\ y = Z!Nil /\ (i <= z.level => s = z.length - R[u[i]])
         /\ \A w \in E : H[w] >= i => R[w] <= r
         /\ i > z.level => R[u[i]] = 0
      \/ /\ y \in E /\ H[y] >= i /\ R[y] > r /\ s = R[y] - R[u[i]] /\ i <= z.level
         /\ \A w \in E : H[w] >= i /\ R[w] > r => R[w] >= R[y]
  BY <1>1, <1>3, NextAfterLast
<1>5. /\ z2.node[ele].forward[i] = y
      /\ z2.node[ele].span[i] = (IF i > z.level THEN z.length ELSE s) - (r - R[u[i]])
  BY InsertedFields
<1> HIDE DEF Q, G, E, y, s
<1>6. CASE /\ y = Z!Nil /\ (i <= z.level => s = z.length - R[u[i]])
           /\ \A w \in E : H[w] >= i => R[w] <= r
           /\ i > z.level => R[u[i]] = 0
  <2>1. \A w \in Z!Elements(z2) : G[w] >= i => Q[w] <= Q[ele]
    BY <1>1, <1>2, <1>6
  <2>2. z2.node[ele].span[i] = z2.length - Q[ele]
    BY <1>1, <1>3, <1>5, <1>6
  <2> QED
    BY <1>5, <1>6, <2>1, <2>2 DEF Linked, Q, G
<1>7. CASE /\ y \in E /\ H[y] >= i /\ R[y] > r /\ s = R[y] - R[u[i]] /\ i <= z.level
           /\ \A w \in E : H[w] >= i /\ R[w] > r => R[w] >= R[y]
  <2>1. y \in Z!Elements(z2) /\ G[y] >= i /\ Q[y] > Q[ele]
    BY <1>1, <1>2, <1>7
  <2>2. z2.node[ele].span[i] = Q[y] - Q[ele]
    BY <1>1, <1>2, <1>3, <1>5, <1>7
  <2>3. ASSUME NEW w \in Z!Elements(z2), G[w] >= i, Q[w] > Q[ele]
        PROVE  Q[w] >= Q[y]
    <3>1. w \in E /\ H[w] >= i
      BY <1>1, <1>2, <2>3
    <3>2. R[w] > r
      BY <1>1, <1>2, <2>3, <3>1
    <3> QED
      BY <1>2, <1>7, <3>1, <3>2
  <2> QED
    BY <1>5, <2>1, <2>2, <2>3 DEF Linked, Q, G
<1> QED
  BY <1>4, <1>6, <1>7

(* ... those of the nodes before it, ... *)
LEMMA LinkedOverNew ==
  ASSUME NEW z, NEW R, NEW H, NEW r, NEW u, NEW lev, NEW score, NEW ele, NEW z2,
         InsertionPlace(z, R, H, r, u, lev, score, ele, z2),
         NEW x \in Nodes(z), NEW i \in 1 .. H[x], u[i] = x
  PROVE  Linked(z2, Raised(z2, R, r, ele), Heightened(z2, H, lev, ele), x, i)
<1> DEFINE Q == Raised(z2, R, r, ele)
           G == Heightened(z2, H, lev, ele)
           E == Z!Elements(z)
           y == z.node[x].forward[i]
           s == z.node[x].span[i]
<1>1. /\ SkipListOf(z, R, H) /\ MaxLevel \in Nat /\ r \in 0 .. z.length
      /\ z.length \in Nat /\ z.level \in Nat
      /\ z2.length = z.length + 1 /\ z2.level = IF lev > z.level THEN lev ELSE z.level
      /\ Z!Elements(z2) = E \cup {ele}
      /\ lev \in 1 .. MaxLevel /\ Q[ele] = r + 1 /\ G[ele] = lev
  BY InsertedSetting
<1>2. /\ \A w \in E : /\ R[w] \in Nat /\ G[w] = H[w]
                      /\ R[w] <= r => Q[w] = R[w]
                      /\ R[w] > r => Q[w] = R[w] + 1
  BY InsertedSetting
<1>3. i \in 1 .. MaxLevel /\ IsLast(z, R, H, i, r, x)
  <2>1. H[x] \in 1 .. MaxLevel
    BY InsertedSetting
  <2>2. i \in 1 .. MaxLevel
    BY <1>1, <2>1
  <2> QED
    BY <2>2, InsertedSetting
<1>4. \/ /\ y = Z!Nil /\ (i <= z.level => s = z.length - R[x])
         /\ \A w \in E : H[w] >= i => R[w] <= r
         /\ i > z.level => R[x] = 0
      \/ /\ y \in E /\ H[y] >= i /\ R[y] > r /\ s = R[y] - R[x] /\ i <= z.level
         /\ \A w \in E : H[w] >= i /\ R[w] > r => R[w] >= R[y]
  BY <1>1, <1>3, NextAfterLast
<1>5. /\ z2.node[x].forward[i] = IF i <= lev THEN ele ELSE y
      /\ z2.node[x].span[i] = IF i <= lev THEN r - R[x] + 1
                              ELSE IF i <= z.level THEN s + 1 ELSE s
  BY InsertedFields
<1>6. /\ R[x] \in Nat /\ R[x] <= r /\ Q[x] = R[x] /\ H[x] \in Nat
      /\ \A w \in E : H[w] >= i /\ R[w] <= r => R[w] <= R[x]
  <2>1. R[x] <= r /\ \A w \in Nodes(z) : H[w] >= i /\ R[w] <= r => R[w] <= R[x]
    BY <1>3 DEF IsLast
  <2> QED
    BY <2>1, InsertedSetting
<1> HIDE DEF Q, G, E, y, s
<1>7. CASE i <= lev
  <2>1. ele \in Z!Elements(z2) /\ G[ele] >= i /\ Q[ele] > Q[x]
    BY <1>1, <1>6, <1>7
  <2>2. z2.node[x].span[i] = Q[ele] - Q[x]
    BY <1>1, <1>5, <1>6, <1>7
  <2>3. ASSUME NEW w \in Z!Elements(z2), G[w] >= i, Q[w] > Q[x]
        PROVE  Q[w] >= Q[ele]
    <3>1. CASE w = ele
      BY <1>1, <3>1
    <3>2. CASE w \in E
      <4>1. R[w] > r
        BY <1>1, <1>2, <1>6, <2>3, <3>2
      <4> QED
        BY <1>1, <1>2, <3>2, <4>1
    <3> QED
      BY <1>1, <3>1, <3>2
  <2> QED
    BY <1>5, <1>7, <2>1, <2>2, <2>3 DEF Linked, Q, G
<1>8. CASE /\ ~(i <= lev)
           /\ y = Z!Nil /\ (i <= z.level => s = z.length - R[x])
           /\ \A w \in E : H[w] >= i => R[w] <= r
           /\ i > z.level => R[x] = 0
  <2>1. \A w \in Z!Elements(z2) : G[w] >= i => Q[w] <= Q[x]
    <3>1. ~(G[ele] >= i)
      BY <1>1, <1>8
    <3> QED
      BY <1>1, <1>2, <1>6, <1>8, <3>1
  <2>2. i <= z2.level => z2.node[x].span[i] = z2.length - Q[x]
    <3>1. i <= z2.level => i <= z.level
      BY <1>1, <1>8
    <3>2. i <= z.level => z2.node[x].span[i] = (z.length - R[x]) + 1
      BY <1>5, <1>8
    <3> QED
      BY <1>1, <1>6, <3>1, <3>2
  <2> QED
    BY <1>5, <1>8, <2>1, <2>2 DEF Linked, Q, G
<1>9. CASE /\ ~(i <= lev)
           /\ y \in E /\ H[y] >= i /\ R[y] > r /\ s = R[y] - R[x] /\ i <= z.level
           /\ \A w \in E : H[w] >= i /\ R[w] > r => R[w] >= R[y]
  <2>1. y \in Z!Elements(z2) /\ G[y] >= i /\ Q[y] > Q[x]
    BY <1>1, <1>2, <1>6, <1>9
  <2>2. z2.node[x].span[i] = Q[y] - Q[x]
    BY <1>1, <1>2, <1>5, <1>6, <1>9
  <2>3. ASSUME NEW w \in Z!Elements(z2), G[w] >= i, Q[w] > Q[x]
        PROVE  Q[w] >= Q[y]
    <3>1. ~(G[ele] >= i)
      BY <1>1, <1>9
    <3>2. w \in E
      BY <1>1, <2>3, <3>1
    <3>3. R[w] > r
      BY <1>1, <1>2, <1>6, <2>3, <3>2
    <3> QED
      BY <1>2, <1>9, <2>3, <3>2, <3>3
  <2> QED
    BY <1>5, <1>9, <2>1, <2>2, <2>3 DEF Linked, Q, G
<1> QED
  BY <1>4, <1>7, <1>8, <1>9

(* ... and the others. *)
LEMMA LinkedElsewhere ==
  ASSUME NEW z, NEW R, NEW H, NEW r, NEW u, NEW lev, NEW score, NEW ele, NEW z2,
         InsertionPlace(z, R, H, r, u, lev, score, ele, z2),
         NEW x \in Nodes(z), NEW i \in 1 .. H[x], u[i] # x
  PROVE  Linked(z2, Raised(z2, R, r, ele), Heightened(z2, H, lev, ele), x, i)
<1> DEFINE Q == Raised(z2, R, r, ele)
           G == Heightened(z2, H, lev, ele)
           E == Z!Elements(z)
           y == z.node[x].forward[i]
           s == z.node[x].span[i]
<1>1. /\ SkipListOf(z, R, H) /\ MaxLevel \in Nat /\ r \in 0 .. z.length
      /\ z.length \in Nat /\ z.level \in Nat
      /\ z2.length = z.length + 1 /\ z2.level = IF lev > z.level THEN lev ELSE z.level
      /\ Z!Elements(z2) = E \cup {ele} /\ Nodes(z) = E \cup {Z!Header}
      /\ lev \in 1 .. MaxLevel /\ Q[ele] = r + 1 /\ G[ele] = lev
  BY InsertedSetting
<1>2. /\ \A w \in E : /\ R[w] \in Nat /\ G[w] = H[w] /\ H[w] \in Nat
                      /\ R[w] <= r => Q[w] = R[w]
                      /\ R[w] > r => Q[w] = R[w] + 1
  BY InsertedSetting
<1>3. i \in 1 .. MaxLevel /\ IsLast(z, R, H, i, r, u[i])
  <2>1. H[x] \in 1 .. MaxLevel
    BY InsertedSetting
  <2>2. i \in 1 .. MaxLevel
    BY <1>1, <2>1
  <2> QED
    BY <2>2, InsertedSetting
<1>4. \/ /\ y = Z!Nil /\ (i <= z.level => s = z.length - R[x])
         /\ \A w \in E : H[w] >= i => R[w] <= R[x]
      \/ /\ y \in E /\ H[y] >= i /\ R[y] > R[x] /\ s = R[y] - R[x]
         /\ \A w \in E : H[w] >= i /\ R[w] > R[x] => R[w] >= R[y]
  BY <1>1 DEF SkipListOf, Linked
<1>5. z2.node[x].forward[i] = y /\ z2.node[x].span[i] = s
  BY InsertedFields
<1>6. /\ R[x] \in Nat /\ H[x] \in Nat /\ H[x] >= i
      /\ R[x] <= r => Q[x] = R[x]
      /\ R[x] > r => Q[x] = R[x] + 1
  BY InsertedSetting
<1>7. R[x] <= r => u[i] \in E /\ H[u[i]] >= i /\ R[u[i]] > R[x] /\ R[u[i]] <= r
  <2>1. u[i] \in Nodes(z) /\ H[u[i]] >= i /\ R[u[i]] <= r
    BY <1>3 DEF IsLast
  <2>2. R[x] <= r => R[x] <= R[u[i]]
    BY <1>3, <1>6 DEF IsLast
  <2>3. R[x] # R[u[i]]
    BY <1>1, <2>1 DEF SkipListOf, Ranked
  <2>4. R[u[i]] \in Nat /\ R[Z!Header] = 0
    BY <1>1, <2>1, InsertedSetting DEF SkipListOf, Ranked
  <2> QED
    BY <1>1, <1>6, <2>1, <2>2, <2>3, <2>4
<1>8. R[x] > r => i <= z.level
  <2>1. R[Z!Header] = 0 /\ \A w \in E : H[w] <= z.level
    BY <1>1 DEF SkipListOf, Ranked, Layered
  <2>2. R[x] > r => x \in E
    BY <1>1, <2>1
  <2> QED
    BY <1>1, <1>2, <1>6, <2>1, <2>2
<1> HIDE DEF Q, G, E, y, s
<1>9. CASE /\ y = Z!Nil /\ (i <= z.level => s = z.length - R[x])
           /\ \A w \in E : H[w] >= i => R[w] <= R[x]
  <2>1. R[x] > r
    BY <1>1, <1>2, <1>6, <1>7, <1>9
  <2>2. \A w \in Z!Elements(z2) : G[w] >= i => Q[w] <= Q[x]
    BY <1>1, <1>2, <1>6, <1>9, <2>1
  <2>3. z2.node[x].span[i] = z2.length - Q[x]
    BY <1>1, <1>5, <1>6, <1>8, <1>9, <2>1
  <2> QED
    BY <1>5, <1>9, <2>2, <2>3 DEF Linked, Q, G
<1>10. CASE /\ y \in E /\ H[y] >= i /\ R[y] > R[x] /\ s = R[y] - R[x]
            /\ \A w \in E : H[w] >= i /\ R[w] > R[x] => R[w] >= R[y]
  <2>1. R[x] <= r => R[y] <= r
    BY <1>1, <1>2, <1>7, <1>10
  <2>2. /\ R[x] <= r => Q[x] = R[x] /\ Q[y] = R[y]
        /\ R[x] > r => Q[x] = R[x] + 1 /\ Q[y] = R[y] + 1
        /\ R[x] \in Nat /\ R[y] \in Nat
    BY <1>1, <1>2, <1>6, <1>10, <2>1
  <2>3. y \in Z!Elements(z2) /\ G[y] >= i /\ Q[y] > Q[x]
    BY <1>1, <1>2, <1>10, <2>2
  <2>4. z2.node[x].span[i] = Q[y] - Q[x]
    BY <1>1, <1>5, <1>10, <2>2
  <2>5. ASSUME NEW w \in Z!Elements(z2), G[w] >= i, Q[w] > Q[x]
        PROVE  Q[w] >= Q[y]
    <3>1. CASE w = ele
      BY <1>1, <2>1, <2>2, <2>5, <3>1
    <3>2. CASE w \in E
      <4>1. R[w] > R[x]
        BY <1>1, <1>2, <2>2, <2>5, <3>2
      <4>2. R[w] >= R[y]
        BY <1>2, <1>10, <2>5, <3>2, <4>1
      <4> QED
        BY <1>1, <1>2, <2>2, <3>2, <4>1, <4>2
    <3> QED
      BY <1>1, <3>1, <3>2
  <2> QED
    BY <1>5, <1>10, <2>3, <2>4, <2>5 DEF Linked, Q, G
<1> QED
  BY <1>4, <1>9, <1>10

(* On the lowest level there is every node. *)
LEMMA NextByRank ==
  ASSUME NEW z, NEW R, NEW H, SkipListOf(z, R, H), NEW r \in 0 .. z.length,
         NEW x, IsLast(z, R, H, 1, r, x)
  PROVE  LET y == z.node[x].forward[1]
         IN  /\ R[x] = r
             /\ \/ y = Z!Nil /\ r = z.length
                \/ y \in Z!Elements(z) /\ R[y] = r + 1 /\ r < z.length
<1> DEFINE y == z.node[x].forward[1]
           E == Z!Elements(z)
<1>1. /\ z.length \in Nat /\ MaxLevel \in Nat \ {0} /\ z.level \in 1 .. MaxLevel
      /\ Nodes(z) = E \cup {Z!Header} /\ R[Z!Header] = 0
      /\ \A w \in Nodes(z) : R[w] \in 0 .. z.length /\ H[w] \in 1 .. MaxLevel
      /\ \A q \in 0 .. z.length : \E w \in Nodes(z) : R[w] = q
  BY RankedFacts, ConstantsAssumption DEF SkipListOf, Ranked, Layered
<1>2. \A w \in Nodes(z) : H[w] >= 1
  BY <1>1
<1>3. x \in Nodes(z) /\ R[x] <= r /\ \A w \in Nodes(z) : R[w] <= r => R[w] <= R[x]
  BY <1>2 DEF IsLast
<1>4. R[x] = r
  <2>1. PICK w \in Nodes(z) : R[w] = r
    BY <1>1
  <2> QED
    BY <1>1, <1>3, <2>1
<1>5. \/ y = Z!Nil /\ \A w \in E : H[w] >= 1 => R[w] <= r
      \/ /\ y \in E /\ R[y] > r
         /\ \A w \in E : H[w] >= 1 /\ R[w] > r => R[w] >= R[y]
  <2>1. 1 \in 1 .. MaxLevel
    BY <1>1
  <2> QED
    BY <2>1, NextAfterLast
<1> HIDE DEF E, y
<1>6. CASE y = Z!Nil /\ \A w \in E : H[w] >= 1 => R[w] <= r
  <2>1. PICK w \in Nodes(z) : R[w] = z.length
    BY <1>1
  <2>2. R[w] <= r
    BY <1>1, <1>2, <1>6, <2>1
  <2> QED
    BY <1>1, <1>4, <1>6, <2>1, <2>2 DEF y
<1>7. CASE /\ y \in E /\ R[y] > r
           /\ \A w \in E : H[w] >= 1 /\ R[w] > r => R[w] >= R[y]
  <2>1. R[y] \in 0 .. z.length
    BY <1>1, <1>7
  <2>2. r + 1 \in 0 .. z.length
    BY <1>1, <1>7, <2>1
  <2>3. PICK w \in Nodes(z) : R[w] = r + 1
    BY <1>1, <2>2
  <2>4. R[w] >= R[y]
    BY <1>1, <1>2, <1>7, <2>3
  <2> QED
    BY <1>1, <1>4, <1>7, <2>1, <2>3, <2>4 DEF y, E
<1> QED
  BY <1>5, <1>6, <1>7

(* The ways back, and the tail, after the insertion. *)
LEMMA InsertedLinkedBack ==
  ASSUME NEW z, NEW R, NEW H, NEW r, NEW u, NEW lev, NEW score, NEW ele, NEW z2,
         InsertionPlace(z, R, H, r, u, lev, score, ele, z2)
  PROVE  LET Q == Raised(z2, R, r, ele)
         IN  /\ \A x \in Z!Elements(z2) : LinkedBack(z2, Q, x)
             /\ z2.tail \in Z!Elements(z2) /\ Q[z2.tail] = z2.length
<1> DEFINE Q == Raised(z2, R, r, ele)
           E == Z!Elements(z)
           next == z.node[u[1]].forward[1]
<1>1. /\ SkipListOf(z, R, H) /\ MaxLevel \in Nat /\ r \in 0 .. z.length
      /\ z.length \in Nat
      /\ z2.length = z.length + 1
      /\ Z!Elements(z2) = E \cup {ele} /\ Nodes(z) = E \cup {Z!Header}
      /\ Q[ele] = r + 1
  BY InsertedSetting
<1>2. \A w \in E : /\ R[w] \in Nat
                   /\ R[w] <= r => Q[w] = R[w]
                   /\ R[w] > r => Q[w] = R[w] + 1
  BY InsertedSetting
<1>3. IsLast(z, R, H, 1, r, u[1]) /\ u[1] \in Nodes(z)
  <2>1. 1 \in 1 .. MaxLevel
    BY ConstantsAssumption
  <2> QED
    BY <2>1, InsertedSetting DEF IsLast
<1>4. /\ R[u[1]] = r
      /\ \/ next = Z!Nil /\ r = z.length
         \/ next \in E /\ R[next] = r + 1 /\ r < z.length
  BY <1>1, <1>3, NextByRank
<1>5. z2.node[ele].backward = IF u[1] = Z!Header THEN Z!Nil ELSE u[1]
  BY InsertedFields
<1>6. \A x \in E : z2.node[x].backward = IF x = next THEN ele ELSE z.node[x].backward
  <2>1. \A x \in E : x \in Nodes(z)
    BY <1>1
  <2> QED
    BY <2>1, InsertedFields
<1>7. /\ R[Z!Header] = 0
      /\ \A x, y \in Nodes(z) : R[x] = R[y] => x = y
      /\ \A x \in E : R[x] <= z.length
      /\ \A x \in E : LinkedBack(z, R, x)
      /\ z.length = 0 \/ (z.tail \in E /\ R[z.tail] = z.length)
  <2>1. \A x \in Nodes(z) : R[x] \in 0 .. z.length
    BY <1>1, RankedFacts
  <2> QED
    BY <1>1, <2>1 DEF SkipListOf, Ranked
<1>8. z2.tail = IF next = Z!Nil THEN ele ELSE z.tail
  BY DEF InsertionPlace, IsInserted
<1> HIDE DEF Q, E, next
<1>0. Z!Nil \notin E
  BY <1>1, RankedFacts DEF Z!Nil, E
<1>9. LinkedBack(z2, Q, ele)
  <2>1. CASE u[1] = Z!Header
    BY <1>1, <1>4, <1>5, <1>7, <2>1 DEF LinkedBack
  <2>2. CASE u[1] # Z!Header
    <3>1. u[1] \in E /\ Q[u[1]] = r
      BY <1>1, <1>2, <1>3, <1>4, <2>2
    <3> QED
      BY <1>1, <1>5, <2>2, <3>1 DEF LinkedBack
  <2> QED
    BY <2>1, <2>2
<1>10. ASSUME NEW x \in E
       PROVE  LinkedBack(z2, Q, x)
  <2>1. CASE x = next
    <3>1. ele \in Z!Elements(z2) /\ Q[ele] = Q[x] - 1
      BY <1>0, <1>1, <1>2, <1>4, <1>10, <2>1
    <3> QED
      BY <1>6, <2>1, <3>1 DEF LinkedBack
  <2>2. CASE x # next
    <3> DEFINE b == z.node[x].backward
    <3>1. R[x] # r + 1 /\ R[x] \in Nat /\ R[x] <= z.length
      <4>1. R[x] # r + 1
        BY <1>1, <1>4, <1>7, <2>2
      <4> QED
        BY <1>2, <1>7, <4>1
    <3>2. z2.node[x].backward = b
      BY <1>6, <2>2
    <3>3. \/ R[x] = 1 /\ b = Z!Nil
          \/ b \in E /\ R[b] = R[x] - 1
      BY <1>7 DEF LinkedBack, E
    <3> HIDE DEF b
    <3>4. CASE R[x] = 1 /\ b = Z!Nil
      <4>1. Q[x] = 1
        BY <1>1, <1>2, <3>1, <3>4
      <4> QED
        BY <3>2, <3>4, <4>1 DEF LinkedBack
    <3>5. CASE b \in E /\ R[b] = R[x] - 1
      <4>1. Q[b] = Q[x] - 1
        BY <1>1, <1>2, <3>1, <3>5
      <4> QED
        BY <1>1, <3>2, <3>5, <4>1 DEF LinkedBack
    <3> QED
      BY <3>3, <3>4, <3>5
  <2> QED
    BY <2>1, <2>2
<1>11. z2.tail \in Z!Elements(z2) /\ Q[z2.tail] = z2.length
  <2>1. CASE next = Z!Nil
    <3>1. r = z.length
      BY <1>0, <1>4, <2>1
    <3> QED
      BY <1>1, <1>8, <2>1, <3>1
  <2>2. CASE next # Z!Nil
    <3>1. r < z.length /\ z.tail \in E /\ R[z.tail] = z.length
      BY <1>1, <1>4, <1>7, <2>2
    <3> QED
      BY <1>1, <1>2, <1>8, <2>2, <3>1
  <2> QED
    BY <2>1, <2>2
<1> QED
  BY <1>1, <1>9, <1>10, <1>11 DEF Q

(* insert keeps the skip list one, with one node more. *)
LEMMA InsertNodeKeeps ==
  ASSUME NEW z, IsSkipList(z), NEW score \in Int, NEW ele \in Nat \ {0},
         ele \notin Nodes(z), NEW lev \in 1 .. MaxLevel
  PROVE  LET z2 == Z!InsertNode(z, lev, score, ele)
         IN  /\ IsSkipList(z2) /\ Nodes(z2) = Nodes(z) \cup {ele}
             /\ Z!Elements(z2) = Z!Elements(z) \cup {ele}
             /\ z2.node[ele].score = score
             /\ \A x \in Nodes(z) : z2.node[x].score = z.node[x].score
<1> DEFINE z2 == Z!InsertNode(z, lev, score, ele)
<1>1. PICK R, H : SkipListOf(z, R, H)
  BY DEF IsSkipList
<1>2. PICK r \in 0 .. z.length : Z!Before(z, score, ele) = UpToRank(z, R, r)
  BY <1>1, SearchedIsUpToRank
<1>3. PICK u : Updates(z, R, H, r, u) /\ IsInserted(z, R, H, r, u, lev, score, ele, z2)
  BY <1>1, <1>2, InsertNodeIs
<1> HIDE DEF z2
<1>4. InsertionPlace(z, R, H, r, u, lev, score, ele, z2)
  BY <1>1, <1>2, <1>3 DEF InsertionPlace
<1> DEFINE Q == Raised(z2, R, r, ele)
           G == Heightened(z2, H, lev, ele)
<1>5. Ranked(z2, Q) /\ Layered(z2, G)
  BY <1>4, InsertedRanked, InsertedLayered
<1>6. ASSUME NEW x \in Nodes(z2), NEW i \in 1 .. G[x]
      PROVE  Linked(z2, Q, G, x, i)
  <2>1. /\ Nodes(z2) = Nodes(z) \cup {ele} /\ G[ele] = lev
        /\ \A w \in Nodes(z) : G[w] = H[w]
    BY <1>4, InsertedSetting
  <2> HIDE DEF Q, G
  <2>2. CASE x = ele
    <3>1. i \in 1 .. lev
      BY <1>6, <2>1, <2>2
    <3> QED
      BY <1>4, <2>2, <3>1, LinkedFromNew DEF Q, G
  <2>3. CASE x \in Nodes(z)
    <3>1. i \in 1 .. H[x]
      BY <1>6, <2>1, <2>3
    <3> QED
      BY <1>4, <2>3, <3>1, LinkedOverNew, LinkedElsewhere DEF Q, G
  <2> QED
    BY <2>1, <2>2, <2>3
<1>7. /\ \A x \in Z!Elements(z2) : LinkedBack(z2, Q, x)
      /\ z2.tail \in Z!Elements(z2) /\ Q[z2.tail] = z2.length
  BY <1>4, InsertedLinkedBack
<1> HIDE DEF Q, G
<1>8. SkipListOf(z2, Q, G)
  BY <1>5, <1>6, <1>7 DEF SkipListOf
<1>9. /\ Nodes(z2) = Nodes(z) \cup {ele} /\ Z!Elements(z2) = Z!Elements(z) \cup {ele}
      /\ z2.node[ele].score = score
      /\ \A x \in Nodes(z) : z2.node[x].score = z.node[x].score
  BY <1>4, InsertedSetting, InsertedElements
<1> QED
  BY <1>8, <1>9 DEF IsSkipList, z2

-----------------------------------------------------------------------------
(* Deletion: u is the last node of each level before ele. *)
IsDeleted(z, H, u, ele, z2) ==
    LET gone == z.node[ele]
    IN  /\ z2.length = z.length - 1
        /\ z2.level = Z!Max({1} \cup {i \in 1 .. z.level : z2.node[Z!Header].forward[i] # Z!Nil})
        /\ z2.tail = IF gone.forward[1] = Z!Nil THEN gone.backward ELSE z.tail
        /\ Nodes(z2) = Nodes(z) \ {ele} /\ z2.node = [x \in Nodes(z2) |-> z2.node[x]]
        /\ \A x \in Nodes(z2) :
              NodeIs(z2.node[x], z.node[x].score,
                     IF x = gone.forward[1] THEN gone.backward ELSE z.node[x].backward,
                     [i \in 1 .. H[x] |->
                         IF i <= z.level /\ u[i] = x /\ z.node[x].forward[i] = ele
                         THEN gone.forward[i] ELSE z.node[x].forward[i]],
                     [i \in 1 .. H[x] |->
                         IF ~(i <= z.level /\ u[i] = x) THEN z.node[x].span[i]
                         ELSE IF z.node[x].forward[i] = ele
                              THEN z.node[x].span[i] + gone.span[i] - 1
                         ELSE z.node[x].span[i] - 1])

DeletionPlace(z, R, H, u, ele, z2) ==
    /\ SkipListOf(z, R, H) /\ ele \in Z!Elements(z)
    /\ \A i \in 1 .. z.level : IsLast(z, R, H, i, R[ele] - 1, u[i])
    /\ IsDeleted(z, H, u, ele, z2)

(* The search for an element ends before it. *)
LEMMA SearchedFor ==
  ASSUME NEW z, NEW R, NEW H, SkipListOf(z, R, H), NEW ele \in Z!Elements(z)
  PROVE  /\ R[ele] - 1 \in 0 .. z.length
         /\ Z!Before(z, z.node[ele].score, ele) = UpToRank(z, R, R[ele] - 1)
<1> DEFINE E == Z!Elements(z)
           k == R[ele]
           score == z.node[ele].score
<1>1. /\ z.length \in Nat /\ Nodes(z) = E \cup {Z!Header} /\ R[Z!Header] = 0
      /\ \A w \in Nodes(z) : R[w] \in 0 .. z.length
      /\ E \subseteq Nat \ {0}
      /\ \A x, y \in Nodes(z) : R[x] = R[y] => x = y
      /\ \A x, y \in E : R[x] < R[y] => Below(z, x, y)
  BY RankedFacts DEF SkipListOf, Ranked
<1>2. \A x \in E : x \in Int /\ z.node[x].score \in Int
  <2>1. \A x \in E : z.node[x].score \in Int
    BY <1>1 DEF SkipListOf, Layered
  <2> QED
    BY <1>1, <2>1
<1>3. ele # Z!Header
  BY <1>1 DEF Z!Header
<1> HIDE DEF E, k, score
<1>4. ele \in E /\ k \in 1 .. z.length
  <2>1. ele \in E
    BY DEF E
  <2>2. k # 0 /\ k \in 0 .. z.length
    BY <1>1, <1>3, <2>1 DEF k
  <2> QED
    BY <1>1, <2>1, <2>2
<1>5. ASSUME NEW x \in E
      PROVE  x \in Z!Before(z, score, ele) <=> R[x] <= k - 1
  <2>1. x \in Z!Before(z, score, ele) <=> Below(z, x, ele)
    BY <1>2, <1>4, <1>5, BeforeIs DEF Below, E, score
  <2>2. R[x] \in Nat /\ k \in Nat
    BY <1>1, <1>4
  <2>3. CASE R[x] < k
    <3>1. Below(z, x, ele)
      BY <1>1, <1>4, <2>3 DEF k
    <3> QED
      BY <2>1, <2>2, <2>3, <3>1
  <2>4. CASE R[x] = k
    <3>1. x = ele
      BY <1>1, <1>4, <2>4 DEF k
    <3>2. ~Below(z, x, ele)
      BY <1>2, <1>4, <3>1 DEF Below
    <3> QED
      BY <2>1, <2>2, <2>4, <3>2
  <2>5. CASE R[x] > k
    <3>1. Below(z, ele, x)
      BY <1>1, <1>4, <2>2, <2>5 DEF k
    <3>2. ~Below(z, x, ele)
      BY <1>2, <1>4, <3>1 DEF Below
    <3> QED
      BY <2>1, <2>2, <2>5, <3>2
  <2> QED
    BY <2>2, <2>3, <2>4, <2>5
<1>6. Z!Before(z, score, ele) \subseteq E
  BY DEF Z!Before, E
<1>7. Z!Before(z, score, ele) = UpToRank(z, R, k - 1)
  BY <1>5, <1>6 DEF UpToRank, E
<1> QED
  BY <1>1, <1>4, <1>7 DEF k, score

(* delete finds the element by its score and makes of the list what        *)
(* IsDeleted says.                                                         *)
LEMMA DeleteElementIs ==
  ASSUME NEW z, NEW R, NEW H, SkipListOf(z, R, H), NEW ele \in Z!Elements(z),
         NEW score, score = z.node[ele].score
  PROVE  \E u : DeletionPlace(z, R, H, u, ele, Z!DeleteElement(z, score, ele))
<1> DEFINE path == Z!PathTo(z, score, ele)
           u == [i \in 1 .. z.level |-> path[i].at]
           k == R[ele]
           z2 == Z!DeleteNode(z, ele, path)
<1>1. /\ z.length \in Nat /\ z.level \in 1 .. MaxLevel /\ MaxLevel \in Nat \ {0}
      /\ Nodes(z) = Z!Elements(z) \cup {Z!Header}
      /\ R \in [Nodes(z) -> 0 .. z.length] /\ R[Z!Header] = 0
      /\ H \in [Nodes(z) -> 1 .. MaxLevel] /\ H[Z!Header] = MaxLevel
      /\ Z!Elements(z) \subseteq Nat \ {0}
      /\ \A x \in Nodes(z) :
           z.node[x] \in [score : Int, backward : Int,
                          forward : [1 .. H[x] -> Int], span : [1 .. H[x] -> Int]]
  BY RankedFacts, ConstantsAssumption DEF SkipListOf, Layered
<1>2. k - 1 \in 0 .. z.length /\ Z!Before(z, score, ele) = UpToRank(z, R, k - 1)
  BY SearchedFor
<1>3. \A i \in 1 .. z.level : IsLast(z, R, H, i, k - 1, path[i].at)
  BY <1>2, PathEnds DEF Z!PathTo
<1> HIDE DEF path
<1>4. \A i \in 1 .. z.level : u[i] = path[i].at /\ IsLast(z, R, H, i, k - 1, u[i])
  BY <1>3
<1>5. z.node[path[1].at].forward[1] = ele
  <2> DEFINE x == path[1].at
             y == z.node[x].forward[1]
  <2>1. 1 \in 1 .. z.level
    BY <1>1
  <2>2. IsLast(z, R, H, 1, k - 1, x)
    BY <1>3, <2>1
  <2> HIDE DEF x, k
  <2>3. \/ y = Z!Nil /\ k - 1 = z.length
        \/ y \in Z!Elements(z) /\ R[y] = k - 1 + 1 /\ k - 1 < z.length
    BY <1>2, <2>2, NextByRank
  <2> HIDE DEF y
  <2>4. k \in 0 .. z.length
    BY <1>1 DEF k
  <2>5. y \in Z!Elements(z) /\ R[y] = R[ele]
    BY <1>1, <1>2, <2>3, <2>4 DEF k
  <2>6. y = ele
    BY <1>1, <2>5 DEF SkipListOf, Ranked
  <2> QED
    BY <2>6 DEF x, y
<1>6. Z!DeleteElement(z, score, ele) = z2
  <2>1. z.node[ele].score \in Int
    BY <1>1
  <2>2. Z!Equal(z.node[ele].score, score)
    BY <2>1, FloatOrder
  <2> QED
    BY <1>5, <2>2 DEF Z!DeleteElement, path
<1> DEFINE gone == z.node[ele]
           before(x, i) == i <= z.level /\ path[i].at = x
           relinked(y) ==
               [z.node[y] EXCEPT
                    !.backward = IF y = gone.forward[1] THEN gone.backward ELSE @,
                    !.forward = [i \in DOMAIN @ |->
                                    IF before(y, i) /\ @[i] = ele THEN gone.forward[i] ELSE @[i]],
                    !.span = [i \in DOMAIN @ |->
                                 IF ~before(y, i) THEN @[i]
                                 ELSE IF z.node[y].forward[i] = ele THEN @[i] + gone.span[i] - 1
                                 ELSE @[i] - 1]]
           node == [y \in DOMAIN z.node \ {ele} |-> relinked(y)]
<1>7. z2 = [node   |-> node,
            tail   |-> IF gone.forward[1] = Z!Nil THEN gone.backward ELSE z.tail,
            length |-> z.length - 1,
            level  |-> Z!Max({1} \cup {i \in 1 .. z.level : node[Z!Header].forward[i] # Z!Nil})]
  BY Zenon DEF Z!DeleteNode
<1>8. ASSUME NEW x \in Nodes(z)
      PROVE  NodeIs(relinked(x), z.node[x].score,
                     IF x = gone.forward[1] THEN gone.backward ELSE z.node[x].backward,
                     [i \in 1 .. H[x] |->
                         IF i <= z.level /\ u[i] = x /\ z.node[x].forward[i] = ele
                         THEN gone.forward[i] ELSE z.node[x].forward[i]],
                     [i \in 1 .. H[x] |->
                         IF ~(i <= z.level /\ u[i] = x) THEN z.node[x].span[i]
                         ELSE IF z.node[x].forward[i] = ele
                              THEN z.node[x].span[i] + gone.span[i] - 1
                         ELSE z.node[x].span[i] - 1])
  <2> DEFINE b == IF x = gone.forward[1] THEN gone.backward ELSE z.node[x].backward
             f == [i \in DOMAIN z.node[x].forward |->
                      IF before(x, i) /\ z.node[x].forward[i] = ele
                      THEN gone.forward[i] ELSE z.node[x].forward[i]]
             s == [i \in DOMAIN z.node[x].span |->
                      IF ~before(x, i) THEN z.node[x].span[i]
                      ELSE IF z.node[x].forward[i] = ele THEN z.node[x].span[i] + gone.span[i] - 1
                      ELSE z.node[x].span[i] - 1]
  <2>1. relinked(x) = [z.node[x] EXCEPT !.backward = b, !.forward = f, !.span = s]
    OBVIOUS
  <2>2. /\ DOMAIN z.node[x].forward = 1 .. H[x] /\ DOMAIN z.node[x].span = 1 .. H[x]
        /\ H[x] \in 1 .. MaxLevel
    BY <1>1
  <2>3. \A i \in 1 .. H[x] : before(x, i) <=> i <= z.level /\ u[i] = x
    <3>1. \A i \in 1 .. H[x] : i <= z.level => i \in 1 .. z.level
      BY <1>1, <2>2
    <3> HIDE DEF u
    <3> QED
      BY <1>4, <3>1
  <2> HIDE DEF before, u, gone
  <2>4. f = [i \in 1 .. H[x] |-> IF i <= z.level /\ u[i] = x /\ z.node[x].forward[i] = ele
                                 THEN gone.forward[i] ELSE z.node[x].forward[i]]
    BY <2>2, <2>3
  <2>5. s = [i \in 1 .. H[x] |->
                         IF ~(i <= z.level /\ u[i] = x) THEN z.node[x].span[i]
                         ELSE IF z.node[x].forward[i] = ele
                              THEN z.node[x].span[i] + gone.span[i] - 1
                         ELSE z.node[x].span[i] - 1]
    BY <2>2, <2>3
  <2> HIDE DEF b, f, s
  <2>6. [z.node[x] EXCEPT !.backward = b, !.forward = f, !.span = s]
        = [score |-> z.node[x].score, backward |-> b, forward |-> f, span |-> s]
    <3> DEFINE n == z.node[x]
               B == [1 .. H[x] -> Int]
    <3>1. n \in [score : Int, backward : Int, forward : B, span : B]
      BY <1>1
    <3> HIDE DEF n, B
    <3>2. [n EXCEPT !.backward = b, !.forward = f, !.span = s]
          = [score |-> n.score, backward |-> b, forward |-> f, span |-> s]
      <4>1. Changed(n, b, f, s) = [score |-> n.score, backward |-> b, forward |-> f, span |-> s]
        BY <3>1, NodeChanged
      <4> QED
        BY <4>1 DEF Changed
    <3> QED
      BY <3>2 DEF n
  <2> QED
    BY <2>1, <2>4, <2>5, <2>6, Zenon DEF b, NodeIs
<1> HIDE DEF relinked, gone, u
<1>9. /\ Nodes(z2) = Nodes(z) \ {ele} /\ z2.node = [x \in Nodes(z2) |-> z2.node[x]]
      /\ \A x \in Nodes(z2) : z2.node[x] = relinked(x)
      /\ z2.tail = IF gone.forward[1] = Z!Nil THEN gone.backward ELSE z.tail
      /\ z2.length = z.length - 1
      /\ z2.level = Z!Max({1} \cup {i \in 1 .. z.level : z2.node[Z!Header].forward[i] # Z!Nil})
  <2>1. node = [y \in Nodes(z) \ {ele} |-> relinked(y)]
    BY DEF Nodes
  <2> HIDE DEF z2, node
  <2>2. z2.node = node
    BY <1>7
  <2> QED
    BY <1>7, <2>1, <2>2 DEF Nodes
<1> HIDE DEF z2
<1>10. IsDeleted(z, H, u, ele, z2)
  BY <1>8, <1>9 DEF IsDeleted, gone
<1>11. DeletionPlace(z, R, H, u, ele, z2)
  BY <1>4, <1>10 DEF DeletionPlace
<1> QED
  BY <1>6, <1>11

(* Ranks and heights when ele has been deleted. *)
Lowered(z2, R, ele) == [x \in Nodes(z2) |-> IF R[x] < R[ele] THEN R[x] ELSE R[x] - 1]
Kept(z2, H) == [x \in Nodes(z2) |-> H[x]]

(* What is used of the list before and after a deletion. *)
LEMMA DeletedSetting ==
  ASSUME NEW z, NEW R, NEW H, NEW u, NEW ele, NEW z2, DeletionPlace(z, R, H, u, ele, z2)
  PROVE  LET Q == Lowered(z2, R, ele)
             G == Kept(z2, H)
         IN  /\ SkipListOf(z, R, H) /\ MaxLevel \in Nat /\ R[ele] \in 1 .. z.length
             /\ z.length \in Nat /\ z.level \in 1 .. MaxLevel /\ z2.length = z.length - 1
             /\ Nodes(z2) = Z!Elements(z2) \cup {Z!Header} /\ Nodes(z2) = Nodes(z) \ {ele}
             /\ Z!Elements(z2) = Z!Elements(z) \ {ele} /\ ele \in Z!Elements(z)
             /\ Z!Elements(z) \subseteq Nat \ {0} /\ R[Z!Header] = 0
             /\ \A x \in Nodes(z2) : /\ R[x] \in Nat /\ R[x] <= z.length /\ R[x] # R[ele]
                                     /\ G[x] = H[x] /\ H[x] \in Nat /\ H[x] \in 1 .. MaxLevel
                                     /\ R[x] < R[ele] => Q[x] = R[x]
                                     /\ R[x] > R[ele] => Q[x] = R[x] - 1
<1> DEFINE Q == Lowered(z2, R, ele)
           G == Kept(z2, H)
<1>1. SkipListOf(z, R, H) /\ ele \in Z!Elements(z)
  BY DEF DeletionPlace
<1>2. /\ z.length \in Nat /\ Nodes(z) = Z!Elements(z) \cup {Z!Header} /\ R[Z!Header] = 0
      /\ \A x \in Nodes(z) : R[x] \in 0 .. z.length /\ H[x] \in 1 .. MaxLevel
      /\ Z!Elements(z) \subseteq Nat \ {0}
  BY <1>1, RankedFacts
<1>3. /\ \A x, y \in Nodes(z) : R[x] = R[y] => x = y
      /\ z.level \in 1 .. MaxLevel
  BY <1>1 DEF SkipListOf, Ranked, Layered
<1>4. MaxLevel \in Nat
  BY ConstantsAssumption
<1>5. z2.length = z.length - 1 /\ Nodes(z2) = Nodes(z) \ {ele}
  BY DEF DeletionPlace, IsDeleted
<1>6. ele # Z!Header
  BY <1>1, <1>2 DEF Z!Header
<1>7. /\ Z!Elements(z2) = Z!Elements(z) \ {ele}
      /\ Nodes(z2) = Z!Elements(z2) \cup {Z!Header}
  <2>1. Z!Elements(z2) = Z!Elements(z) \ {ele}
    BY <1>5 DEF Z!Elements, Nodes
  <2> QED
    BY <1>2, <1>5, <1>6, <2>1
<1>8. R[ele] \in 1 .. z.length
  <2>1. R[ele] # 0
    BY <1>1, <1>2, <1>3, <1>6
  <2> QED
    BY <1>1, <1>2, <2>1
<1>9. \A x \in Nodes(z2) : /\ R[x] \in Nat /\ R[x] <= z.length /\ R[x] # R[ele]
                           /\ H[x] \in Nat /\ H[x] \in 1 .. MaxLevel
  BY <1>1, <1>2, <1>3, <1>4, <1>5
<1>10. \A x \in Nodes(z2) : /\ G[x] = H[x]
                            /\ Q[x] = IF R[x] < R[ele] THEN R[x] ELSE R[x] - 1
  BY DEF Lowered, Kept
<1> HIDE DEF Q, G
<1>11. \A x \in Nodes(z2) : /\ R[x] < R[ele] => Q[x] = R[x]
                            /\ R[x] > R[ele] => Q[x] = R[x] - 1
  BY <1>8, <1>9, <1>10
<1> QED
  BY <1>1, <1>2, <1>3, <1>4, <1>5, <1>7, <1>8, <1>9, <1>10, <1>11 DEF Q, G

(* The links, spans and ways back after the deletion, field by field. *)
LEMMA DeletedFields ==
  ASSUME NEW z, NEW R, NEW H, NEW u, NEW ele, NEW z2, DeletionPlace(z, R, H, u, ele, z2)
  PROVE  \A x \in Nodes(z2) :
            /\ z2.node[x].score = z.node[x].score
            /\ z2.node[x].backward =
                  IF x = z.node[ele].forward[1] THEN z.node[ele].backward ELSE z.node[x].backward
            /\ \A i \in 1 .. H[x] :
                  /\ z2.node[x].forward[i] =
                        IF i <= z.level /\ u[i] = x /\ z.node[x].forward[i] = ele
                        THEN z.node[ele].forward[i] ELSE z.node[x].forward[i]
                  /\ z2.node[x].span[i] =
                        IF ~(i <= z.level /\ u[i] = x) THEN z.node[x].span[i]
                        ELSE IF z.node[x].forward[i] = ele
                             THEN z.node[x].span[i] + z.node[ele].span[i] - 1
                        ELSE z.node[x].span[i] - 1
<1> TAKE x \in Nodes(z2)
<1> DEFINE gone == z.node[ele]
           b == IF x = gone.forward[1] THEN gone.backward ELSE z.node[x].backward
           f == [i \in 1 .. H[x] |->
                    IF i <= z.level /\ u[i] = x /\ z.node[x].forward[i] = ele
                    THEN gone.forward[i] ELSE z.node[x].forward[i]]
           s == [i \in 1 .. H[x] |->
                    IF ~(i <= z.level /\ u[i] = x) THEN z.node[x].span[i]
                    ELSE IF z.node[x].forward[i] = ele THEN z.node[x].span[i] + gone.span[i] - 1
                    ELSE z.node[x].span[i] - 1]
<1>1. NodeIs(z2.node[x], z.node[x].score, b, f, s)
  BY DEF DeletionPlace, IsDeleted
<1> HIDE DEF b, f, s
<1>2. /\ z2.node[x].score = z.node[x].score /\ z2.node[x].backward = b
      /\ z2.node[x].forward = f /\ z2.node[x].span = s
  BY <1>1 DEF NodeIs
<1> QED
  BY <1>2 DEF b, f, s

(* The elements behind the one that left have moved down by one rank. *)
LEMMA DeletedRanked ==
  ASSUME NEW z, NEW R, NEW H, NEW u, NEW ele, NEW z2, DeletionPlace(z, R, H, u, ele, z2)
  PROVE  Ranked(z2, Lowered(z2, R, ele))
<1> DEFINE Q == Lowered(z2, R, ele)
           k == R[ele]
           N == Nodes(z2)
<1>1. /\ SkipListOf(z, R, H) /\ k \in 1 .. z.length
      /\ z.length \in Nat /\ z2.length = z.length - 1
      /\ N = Z!Elements(z2) \cup {Z!Header} /\ N = Nodes(z) \ {ele}
      /\ Z!Elements(z2) = Z!Elements(z) \ {ele}
      /\ Z!Elements(z) \subseteq Nat \ {0} /\ R[Z!Header] = 0
  BY DeletedSetting
<1>2. \A x \in N : /\ R[x] \in Nat /\ R[x] <= z.length /\ R[x] # k
                   /\ R[x] < k => Q[x] = R[x]
                   /\ R[x] > k => Q[x] = R[x] - 1
  BY DeletedSetting
<1>3. z2.node = [x \in N |-> z2.node[x]] /\ Q = [x \in N |-> Q[x]]
  BY DEF DeletionPlace, IsDeleted, Lowered
<1>4. \A x \in N : z2.node[x].score = z.node[x].score
  BY DeletedFields
<1>5. /\ \A x, y \in Nodes(z) : R[x] = R[y] => x = y
      /\ \A q \in 0 .. z.length : \E x \in Nodes(z) : R[x] = q
      /\ \A x, y \in Z!Elements(z) : R[x] < R[y] => Below(z, x, y)
  BY <1>1 DEF SkipListOf, Ranked
<1> HIDE DEF Q, k, N
<1>6. \A x \in N : Q[x] \in 0 .. z2.length
  BY <1>1, <1>2
<1>7. Q \in [N -> 0 .. z2.length]
  BY <1>3, <1>6
<1>8. Q[Z!Header] = 0
  BY <1>1, <1>2
<1>9. ASSUME NEW x \in N, NEW y \in N, Q[x] = Q[y]
      PROVE  x = y
  <2>1. R[x] = R[y]
    BY <1>1, <1>2, <1>9
  <2> QED
    BY <1>1, <1>5, <2>1
<1>10. ASSUME NEW q \in 0 .. z2.length
       PROVE  \E x \in N : Q[x] = q
  <2>1. CASE q < k
    <3>1. PICK x \in Nodes(z) : R[x] = q
      BY <1>1, <1>5
    <3>2. x \in N
      BY <1>1, <2>1, <3>1 DEF k
    <3> QED
      BY <1>2, <2>1, <3>1, <3>2
  <2>2. CASE ~(q < k)
    <3>1. q + 1 \in 0 .. z.length /\ q + 1 > k
      BY <1>1, <2>2
    <3>2. PICK x \in Nodes(z) : R[x] = q + 1
      BY <1>5, <3>1
    <3>3. x \in N
      BY <1>1, <3>1, <3>2 DEF k
    <3>4. Q[x] = q
      BY <1>2, <3>1, <3>2, <3>3
    <3> QED
      BY <3>3, <3>4
  <2> QED
    BY <2>1, <2>2
<1>11. ASSUME NEW x \in Z!Elements(z2), NEW y \in Z!Elements(z2), Q[x] < Q[y]
       PROVE  Below(z2, x, y)
  <2>1. x \in N /\ y \in N /\ x \in Z!Elements(z) /\ y \in Z!Elements(z)
    BY <1>1
  <2>2. R[x] < R[y]
    BY <1>1, <1>2, <1>11, <2>1
  <2>3. Below(z, x, y)
    BY <1>5, <2>1, <2>2
  <2> QED
    BY <1>4, <2>1, <2>3 DEF Below
<1>12. z2.length \in Nat /\ Z!Header \in N /\ Z!Elements(z2) \subseteq Nat \ {0}
  BY <1>1
<1> QED
  BY <1>3, <1>7, <1>8, <1>9, <1>10, <1>11, <1>12 DEF Ranked, Q, N

(* The links of the list that is left: the ones that have been changed ... *)
LEMMA LinkedOverGone ==
  ASSUME NEW z, NEW R, NEW H, NEW u, NEW ele, NEW z2, DeletionPlace(z, R, H, u, ele, z2),
         z2.level <= z.level,
         NEW x \in Nodes(z2), NEW i \in 1 .. H[x], i <= z.level, u[i] = x
  PROVE  Linked(z2, Lowered(z2, R, ele), Kept(z2, H), x, i)
<1> DEFINE Q == Lowered(z2, R, ele)
           G == Kept(z2, H)
           E == Z!Elements(z)
           k == R[ele]
           y == z.node[x].forward[i]
           s == z.node[x].span[i]
           y1 == z.node[ele].forward[i]
           s1 == z.node[ele].span[i]
<1>1. /\ SkipListOf(z, R, H) /\ MaxLevel \in Nat /\ k \in 1 .. z.length
      /\ z.length \in Nat /\ z.level \in 1 .. MaxLevel /\ z2.length = z.length - 1
      /\ Z!Elements(z2) = E \ {ele} /\ ele \in E
  BY DeletedSetting
<1>2. \A w \in Z!Elements(z2) : /\ R[w] \in Nat /\ R[w] # k /\ G[w] = H[w]
                                /\ R[w] < k => Q[w] = R[w]
                                /\ R[w] > k => Q[w] = R[w] - 1
  <2>1. Nodes(z2) = Z!Elements(z2) \cup {Z!Header}
    BY DeletedSetting
  <2> QED
    BY <2>1, DeletedSetting
<1>3. i \in 1 .. z.level /\ i \in 1 .. MaxLevel /\ k - 1 \in 0 .. z.length
      /\ IsLast(z, R, H, i, k - 1, x)
  <2>1. H[x] \in 1 .. MaxLevel
    BY DeletedSetting
  <2>2. i \in 1 .. z.level /\ i \in 1 .. MaxLevel
    BY <1>1, <2>1
  <2>3. IsLast(z, R, H, i, k - 1, x)
    BY <2>2 DEF DeletionPlace
  <2> QED
    BY <1>1, <2>2, <2>3
<1>4. \/ /\ y = Z!Nil /\ (i <= z.level => s = z.length - R[x])
         /\ \A w \in E : H[w] >= i => R[w] <= k - 1
         /\ i > z.level => R[x] = 0
      \/ /\ y \in E /\ H[y] >= i /\ R[y] > k - 1 /\ s = R[y] - R[x] /\ i <= z.level
         /\ \A w \in E : H[w] >= i /\ R[w] > k - 1 => R[w] >= R[y]
  <2> HIDE DEF k
  <2> QED
    BY <1>1, <1>3, NextAfterLast
<1>5. /\ z2.node[x].forward[i] = IF y = ele THEN y1 ELSE y
      /\ z2.node[x].span[i] = IF y = ele THEN s + s1 - 1 ELSE s - 1
  BY DeletedFields
<1>6. /\ R[x] \in Nat /\ R[x] < k /\ Q[x] = R[x]
      /\ \A w \in E : H[w] >= i /\ R[w] <= k - 1 => R[w] <= R[x]
  <2>1. R[x] <= k - 1 /\ \A w \in Nodes(z) : H[w] >= i /\ R[w] <= k - 1 => R[w] <= R[x]
    BY <1>3 DEF IsLast
  <2>2. E \subseteq Nodes(z)
    BY DEF Z!Elements, Nodes
  <2>3. R[x] \in Nat /\ k \in Nat /\ (R[x] < k => Q[x] = R[x])
    BY <1>1, DeletedSetting
  <2> HIDE DEF Q, k, E
  <2> QED
    BY <2>1, <2>2, <2>3
<1>7. H[ele] \in Nat /\ (i <= H[ele] => i \in 1 .. H[ele]) /\ \A w \in E : R[w] \in Nat
  <2>1. H[ele] \in 1 .. MaxLevel /\ \A w \in E : R[w] \in 0 .. z.length
    BY <1>1, RankedFacts
  <2> QED
    BY <1>1, <1>3, <2>1
<1> HIDE DEF Q, G, E, k, y, s, y1, s1
<1>8. CASE /\ y = Z!Nil /\ s = z.length - R[x]
           /\ \A w \in E : H[w] >= i => R[w] <= k - 1
  <2>1. y # ele
    BY <1>1, <1>8, RankedFacts DEF Z!Nil, E
  <2>2. \A w \in Z!Elements(z2) : G[w] >= i => Q[w] <= Q[x]
    BY <1>1, <1>2, <1>6, <1>8
  <2>3. z2.node[x].span[i] = z2.length - Q[x]
    BY <1>1, <1>5, <1>6, <1>8, <2>1
  <2> QED
    BY <1>5, <1>8, <2>1, <2>2, <2>3 DEF Linked, Q, G
<1>9. CASE /\ y \in E /\ H[y] >= i /\ R[y] > k - 1 /\ s = R[y] - R[x]
           /\ \A w \in E : H[w] >= i /\ R[w] > k - 1 => R[w] >= R[y]
  <2>1. CASE y # ele
    <3>1. y \in Z!Elements(z2) /\ R[y] > k
      BY <1>1, <1>2, <1>9, <2>1
    <3>2. G[y] >= i /\ Q[y] = R[y] - 1 /\ Q[y] > Q[x] /\ R[y] \in Nat
      BY <1>1, <1>2, <1>6, <1>9, <3>1
    <3>3. z2.node[x].span[i] = Q[y] - Q[x]
      BY <1>5, <1>6, <1>9, <2>1, <3>2
    <3>4. ASSUME NEW w \in Z!Elements(z2), G[w] >= i, Q[w] > Q[x]
          PROVE  Q[w] >= Q[y]
      <4>1. R[w] > k
        BY <1>1, <1>2, <1>6, <3>4
      <4>2. R[w] >= R[y]
        BY <1>1, <1>2, <1>9, <3>4, <4>1
      <4> QED
        BY <1>2, <3>2, <4>1, <4>2
    <3> QED
      BY <1>5, <2>1, <3>1, <3>2, <3>3, <3>4 DEF Linked, Q, G
  <2>2. CASE y = ele
    <3>1. i \in 1 .. H[ele]
      BY <1>7, <1>9, <2>2
    <3>2. \/ /\ y1 = Z!Nil /\ (i <= z.level => s1 = z.length - k)
             /\ \A w \in E : H[w] >= i => R[w] <= k
          \/ /\ y1 \in E /\ H[y1] >= i /\ R[y1] > k /\ s1 = R[y1] - k
             /\ \A w \in E : H[w] >= i /\ R[w] > k => R[w] >= R[y1]
      <4>1. ele \in Nodes(z)
        BY <1>1 DEF E, Nodes, Z!Elements
      <4>2. Linked(z, R, H, ele, i)
        BY <1>1, <3>1, <4>1 DEF SkipListOf
      <4> QED
        BY <4>2 DEF Linked, y1, s1, k, E
    <3>3. s = k - R[x]
      BY <1>9, <2>2 DEF k
    <3>4. CASE /\ y1 = Z!Nil /\ s1 = z.length - k
               /\ \A w \in E : H[w] >= i => R[w] <= k
      <4>1. \A w \in Z!Elements(z2) : G[w] >= i => Q[w] <= Q[x]
        BY <1>1, <1>2, <1>6, <3>4
      <4>2. z2.node[x].span[i] = z2.length - Q[x]
        BY <1>1, <1>5, <1>6, <2>2, <3>3, <3>4
      <4> QED
        BY <1>5, <2>2, <3>4, <4>1, <4>2 DEF Linked, Q, G
    <3>5. CASE /\ y1 \in E /\ H[y1] >= i /\ R[y1] > k /\ s1 = R[y1] - k
               /\ \A w \in E : H[w] >= i /\ R[w] > k => R[w] >= R[y1]
      <4>1. y1 \in Z!Elements(z2)
        BY <1>1, <3>5 DEF k
      <4>2. G[y1] >= i /\ Q[y1] = R[y1] - 1 /\ Q[y1] > Q[x] /\ R[y1] \in Nat
        BY <1>1, <1>2, <1>6, <3>5, <4>1
      <4>3. z2.node[x].span[i] = Q[y1] - Q[x]
        BY <1>1, <1>5, <1>6, <2>2, <3>3, <3>5, <4>2
      <4>4. ASSUME NEW w \in Z!Elements(z2), G[w] >= i, Q[w] > Q[x]
            PROVE  Q[w] >= Q[y1]
        <5>1. R[w] > k
          BY <1>1, <1>2, <1>6, <4>4
        <5>2. R[w] >= R[y1]
          BY <1>1, <1>2, <3>5, <4>4, <5>1
        <5> QED
          BY <1>2, <4>2, <5>1, <5>2
      <4> QED
        BY <1>5, <2>2, <4>1, <4>2, <4>3, <4>4 DEF Linked, Q, G
    <3> QED
      BY <3>2, <3>4, <3>5
  <2> QED
    BY <2>1, <2>2
<1> QED
  BY <1>4, <1>8, <1>9

(* ... and the others. *)
LEMMA LinkedAside ==
  ASSUME NEW z, NEW R, NEW H, NEW u, NEW ele, NEW z2, DeletionPlace(z, R, H, u, ele, z2),
         z2.level <= z.level, z2.level \in Nat,
         NEW x \in Nodes(z2), NEW i \in 1 .. H[x], ~(i <= z.level /\ u[i] = x)
  PROVE  Linked(z2, Lowered(z2, R, ele), Kept(z2, H), x, i)
<1> DEFINE Q == Lowered(z2, R, ele)
           G == Kept(z2, H)
           E == Z!Elements(z)
           k == R[ele]
           y == z.node[x].forward[i]
           s == z.node[x].span[i]
<1>1. /\ SkipListOf(z, R, H) /\ MaxLevel \in Nat /\ k \in 1 .. z.length
      /\ z.length \in Nat /\ z.level \in 1 .. MaxLevel /\ z2.length = z.length - 1
      /\ Z!Elements(z2) = E \ {ele} /\ ele \in E /\ Nodes(z) = E \cup {Z!Header}
      /\ R[Z!Header] = 0 /\ x \in Nodes(z)
  BY DeletedSetting, RankedFacts
<1>2. \A w \in Z!Elements(z2) : /\ R[w] \in Nat /\ R[w] # k /\ G[w] = H[w]
                                /\ R[w] < k => Q[w] = R[w]
                                /\ R[w] > k => Q[w] = R[w] - 1
  <2>1. Nodes(z2) = Z!Elements(z2) \cup {Z!Header}
    BY DeletedSetting
  <2> QED
    BY <2>1, DeletedSetting
<1>3. /\ R[x] \in Nat /\ R[x] # k /\ H[x] \in Nat /\ i \in Nat /\ H[x] >= i /\ i >= 1
      /\ R[x] < k => Q[x] = R[x]
      /\ R[x] > k => Q[x] = R[x] - 1
  <2>1. /\ R[x] \in Nat /\ R[x] # k /\ H[x] \in Nat
        /\ R[x] < k => Q[x] = R[x]
        /\ R[x] > k => Q[x] = R[x] - 1
    BY DeletedSetting
  <2> HIDE DEF Q, k
  <2> QED
    BY <2>1
<1>4. \/ /\ y = Z!Nil /\ (i <= z.level => s = z.length - R[x])
         /\ \A w \in E : H[w] >= i => R[w] <= R[x]
      \/ /\ y \in E /\ H[y] >= i /\ R[y] > R[x] /\ s = R[y] - R[x]
         /\ \A w \in E : H[w] >= i /\ R[w] > R[x] => R[w] >= R[y]
  BY <1>1 DEF SkipListOf, Linked
<1>5. z2.node[x].forward[i] = y /\ z2.node[x].span[i] = s
  BY DeletedFields
<1>6. \A w \in E : R[w] \in Nat /\ H[w] \in Nat /\ H[w] <= z.level
  <2>1. \A w \in E : R[w] \in 0 .. z.length /\ H[w] \in 1 .. MaxLevel
    BY <1>1, RankedFacts
  <2>2. \A w \in E : H[w] <= z.level
    BY <1>1 DEF SkipListOf, Layered
  <2> QED
    BY <1>1, <2>1, <2>2
<1>7. i <= z.level /\ R[x] < k => u[i] \in E /\ H[u[i]] >= i /\ R[u[i]] > R[x] /\ R[u[i]] < k
  <2> SUFFICES ASSUME i <= z.level, R[x] < k
               PROVE  u[i] \in E /\ H[u[i]] >= i /\ R[u[i]] > R[x] /\ R[u[i]] < k
    OBVIOUS
  <2>1. i \in 1 .. z.level
    BY <1>1, <1>3
  <2>2. IsLast(z, R, H, i, k - 1, u[i])
    BY <2>1 DEF DeletionPlace
  <2>3. u[i] \in Nodes(z) /\ H[u[i]] >= i /\ R[u[i]] <= k - 1 /\ R[u[i]] \in Nat
    <3>1. R[u[i]] \in 0 .. z.length
      BY <1>1, <2>2, RankedFacts DEF IsLast
    <3> QED
      BY <1>1, <2>2, <3>1 DEF IsLast
  <2>4. R[x] <= R[u[i]]
    <3>1. R[x] <= k - 1
      BY <1>1, <1>3
    <3> QED
      BY <1>1, <1>3, <2>2, <3>1 DEF IsLast
  <2>5. R[x] # R[u[i]]
    BY <1>1, <2>1, <2>3 DEF SkipListOf, Ranked
  <2> HIDE DEF k
  <2> QED
    BY <1>1, <1>3, <2>3, <2>4, <2>5
<1>8. i <= z.level \/ R[x] < k
  <2>1. CASE x = Z!Header
    BY <1>1, <2>1
  <2>2. CASE x # Z!Header
    BY <1>1, <1>3, <1>6, <2>2
  <2> QED
    BY <2>1, <2>2
<1> HIDE DEF Q, G, E, k, y, s
<1>9. CASE /\ y = Z!Nil /\ (i <= z.level => s = z.length - R[x])
           /\ \A w \in E : H[w] >= i => R[w] <= R[x]
  <2>1. ~(i <= z.level /\ R[x] < k)
    BY <1>3, <1>6, <1>7, <1>9
  <2>2. CASE R[x] < k
    <3>1. ~(i <= z2.level)
      BY <1>1, <1>3, <2>1, <2>2
    <3>2. \A w \in Z!Elements(z2) : ~(G[w] >= i)
      BY <1>1, <1>2, <1>3, <1>6, <2>1, <2>2
    <3> QED
      BY <1>5, <1>9, <3>1, <3>2 DEF Linked, Q, G
  <2>3. CASE R[x] > k
    <3>1. \A w \in Z!Elements(z2) : G[w] >= i => Q[w] <= Q[x]
      BY <1>1, <1>2, <1>3, <1>9, <2>3
    <3>2. i <= z2.level => z2.node[x].span[i] = z2.length - Q[x]
      BY <1>1, <1>3, <1>5, <1>8, <1>9, <2>3
    <3> QED
      BY <1>5, <1>9, <3>1, <3>2 DEF Linked, Q, G
  <2> QED
    BY <1>1, <1>3, <2>2, <2>3
<1>10. CASE /\ y \in E /\ H[y] >= i /\ R[y] > R[x] /\ s = R[y] - R[x]
            /\ \A w \in E : H[w] >= i /\ R[w] > R[x] => R[w] >= R[y]
  <2>1. i <= z.level
    BY <1>1, <1>3, <1>6, <1>10
  <2>2. CASE R[x] < k
    <3>1. R[y] < k
      BY <1>1, <1>6, <1>7, <1>10, <2>1, <2>2
    <3>2. y \in Z!Elements(z2) /\ Q[y] = R[y] /\ G[y] >= i /\ Q[x] = R[x]
      <4>1. y # ele
        BY <1>1, <3>1 DEF k
      <4> QED
        BY <1>1, <1>2, <1>3, <1>10, <2>2, <3>1, <4>1
    <3>3. ASSUME NEW w \in Z!Elements(z2), G[w] >= i, Q[w] > Q[x]
          PROVE  Q[w] >= Q[y]
      <4>1. R[w] > R[x]
        BY <1>1, <1>2, <1>3, <2>2, <3>2, <3>3
      <4>2. R[w] >= R[y]
        BY <1>1, <1>2, <1>10, <3>3, <4>1
      <4> QED
        BY <1>1, <1>2, <1>6, <1>10, <3>1, <3>2, <4>2
    <3> QED
      BY <1>5, <1>10, <3>2, <3>3 DEF Linked, Q, G
  <2>3. CASE R[x] > k
    <3>1. R[y] > k /\ R[y] \in Nat
      BY <1>1, <1>3, <1>6, <1>10, <2>3
    <3>2. y \in Z!Elements(z2) /\ Q[y] = R[y] - 1 /\ G[y] >= i /\ Q[x] = R[x] - 1
      <4>1. y # ele
        BY <1>1, <3>1 DEF k
      <4> QED
        BY <1>1, <1>2, <1>3, <1>10, <2>3, <3>1, <4>1
    <3>3. ASSUME NEW w \in Z!Elements(z2), G[w] >= i, Q[w] > Q[x]
          PROVE  Q[w] >= Q[y]
      <4>1. R[w] > R[x]
        BY <1>1, <1>2, <1>3, <2>3, <3>2, <3>3
      <4>2. R[w] >= R[y]
        BY <1>1, <1>2, <1>10, <3>3, <4>1
      <4> QED
        BY <1>1, <1>2, <1>6, <1>10, <3>1, <3>2, <4>2
    <3>4. Q[y] > Q[x] /\ z2.node[x].span[i] = Q[y] - Q[x]
      BY <1>3, <1>5, <1>10, <3>1, <3>2
    <3> QED
      BY <1>5, <1>10, <3>2, <3>3, <3>4 DEF Linked, Q, G
  <2> QED
    BY <1>1, <1>3, <2>2, <2>3
<1> QED
  BY <1>4, <1>9, <1>10

(* The links of the nodes that stay, and the levels that are left. *)
LEMMA DeletedLinked ==
  ASSUME NEW z, NEW R, NEW H, NEW u, NEW ele, NEW z2, DeletionPlace(z, R, H, u, ele, z2)
  PROVE  LET Q == Lowered(z2, R, ele)
             G == Kept(z2, H)
         IN  /\ z2.level \in 1 .. z.level
             /\ \A x \in Nodes(z2) : \A i \in 1 .. H[x] : Linked(z2, Q, G, x, i)
             /\ \A x \in Z!Elements(z2) : H[x] <= z2.level
             /\ z2.level = 1 \/ \E x \in Z!Elements(z2) : H[x] = z2.level
<1> DEFINE Q == Lowered(z2, R, ele)
           G == Kept(z2, H)
           E == Z!Elements(z)
           hd == Z!Header
           M == {1} \cup {i \in 1 .. z.level : z2.node[hd].forward[i] # Z!Nil}
<1>1. /\ SkipListOf(z, R, H) /\ MaxLevel \in Nat
      /\ z.level \in 1 .. MaxLevel
      /\ Nodes(z2) = Z!Elements(z2) \cup {hd}
      /\ Z!Elements(z2) = E \ {ele}
  BY DeletedSetting
<1>2. \A w \in Nodes(z2) : /\ R[w] \in Nat /\ G[w] = H[w] /\ H[w] \in 1 .. MaxLevel
                           /\ R[w] < R[ele] => Q[w] = R[w]
                           /\ R[w] > R[ele] => Q[w] = R[w] - 1
                           /\ R[w] # R[ele]
  BY DeletedSetting
<1>3. z2.level = Z!Max(M)
  BY DEF DeletionPlace, IsDeleted
<1>4. M \in SUBSET (1 .. z.level) /\ M # {}
  BY <1>1
<1> HIDE DEF M
<1>5. Z!Max(M) \in M /\ \A i \in M : i <= Z!Max(M)
  <2>1. z.level \in Nat
    BY <1>1
  <2>2. Max(M) \in M /\ \A i \in M : i <= Max(M)
    BY <1>4, <2>1, MaxPosition
  <2> QED
    BY <2>2 DEF Max, Z!Max
<1>6. z2.level \in 1 .. z.level /\ z2.level \in Nat /\ z2.level <= z.level
  <2>1. z2.level \in 1 .. z.level
    BY <1>3, <1>4, <1>5
  <2> QED
    BY <1>1, <2>1
<1>7. ASSUME NEW x \in Nodes(z2), NEW i \in 1 .. H[x]
      PROVE  Linked(z2, Q, G, x, i)
  <2>1. CASE i <= z.level /\ u[i] = x
    BY <1>6, <2>1, LinkedOverGone
  <2>2. CASE ~(i <= z.level /\ u[i] = x)
    BY <1>6, <2>2, LinkedAside
  <2> QED
    BY <2>1, <2>2
<1>8. H[hd] = MaxLevel /\ \A x \in E : H[x] <= z.level
  BY <1>1 DEF SkipListOf, Layered
<1>9. Q[hd] = 0 /\ \A x \in Z!Elements(z2) : Q[x] > 0 /\ Q[x] \in Nat
  <2>1. Q \in [Nodes(z2) -> 0 .. z2.length] /\ Q[hd] = 0 /\ z2.length \in Nat
        /\ \A x, y \in Nodes(z2) : Q[x] = Q[y] => x = y
    <3>1. Ranked(z2, Q)
      BY DeletedRanked
    <3> HIDE DEF Q
    <3> QED
      BY <3>1 DEF Ranked
  <2> HIDE DEF Q
  <2>2. \A x \in Z!Elements(z2) : x # hd
    BY DEF Z!Elements
  <2>3. \A x \in Z!Elements(z2) : Q[x] # 0 /\ Q[x] \in 0 .. z2.length
    BY <1>1, <2>1, <2>2
  <2> QED
    BY <2>1, <2>3
<1>10. \A i \in 1 .. z.level : i \in 1 .. MaxLevel /\ i \in 1 .. H[hd]
  BY <1>1, <1>8
<1> HIDE DEF Q, G, E, hd
<1>11. ASSUME NEW x \in Z!Elements(z2)
       PROVE  H[x] <= z2.level
  <2>1. H[x] \in 1 .. z.level
    BY <1>1, <1>2, <1>8
  <2>2. Linked(z2, Q, G, hd, H[x])
    BY <1>1, <1>7, <1>10, <2>1
  <2>3. z2.node[hd].forward[H[x]] # Z!Nil
    <3>1. SUFFICES ASSUME z2.node[hd].forward[H[x]] = Z!Nil
                   PROVE  FALSE
      OBVIOUS
    <3>2. z2.node[hd].forward[H[x]] \notin Z!Elements(z2)
      <4>1. Z!Elements(z2) \subseteq Nat \ {0}
        BY DeletedRanked DEF Ranked
      <4> QED
        BY <3>1, <4>1 DEF Z!Nil
    <3>3. \A w \in Z!Elements(z2) : G[w] >= H[x] => Q[w] <= Q[hd]
      BY <2>2, <3>2 DEF Linked
    <3>4. G[x] = H[x] /\ H[x] \in Nat
      BY <1>1, <1>2, <2>1
    <3> QED
      BY <1>9, <3>3, <3>4
  <2>4. H[x] \in M
    BY <2>1, <2>3 DEF M
  <2> QED
    BY <1>3, <1>5, <2>4
<1>12. z2.level = 1 \/ \E x \in Z!Elements(z2) : H[x] = z2.level
  <2> SUFFICES ASSUME z2.level # 1
               PROVE  \E x \in Z!Elements(z2) : H[x] = z2.level
    OBVIOUS
  <2>1. z2.node[hd].forward[z2.level] # Z!Nil
    BY <1>3, <1>5 DEF M
  <2>2. Linked(z2, Q, G, hd, z2.level)
    BY <1>1, <1>6, <1>7, <1>10
  <2> DEFINE y == z2.node[hd].forward[z2.level]
  <2>3. y \in Z!Elements(z2) /\ G[y] >= z2.level
    BY <2>1, <2>2 DEF Linked
  <2> HIDE DEF y
  <2>4. H[y] >= z2.level /\ H[y] <= z2.level /\ H[y] \in Nat
    BY <1>1, <1>2, <1>11, <2>3
  <2>5. H[y] = z2.level
    BY <1>6, <2>4
  <2> QED
    BY <2>3, <2>5
<1> QED
  BY <1>6, <1>7, <1>11, <1>12 DEF Q, G

(* The nodes that stay keep their levels. *)
LEMMA DeletedLayered ==
  ASSUME NEW z, NEW R, NEW H, NEW u, NEW ele, NEW z2, DeletionPlace(z, R, H, u, ele, z2)
  PROVE  Layered(z2, Kept(z2, H))
<1> DEFINE G == Kept(z2, H)
           E == Z!Elements(z)
           N == Nodes(z)
           Type(h) == [score : Int, backward : Int, forward : [1 .. h -> Int], span : [1 .. h -> Int]]
<1>1. /\ SkipListOf(z, R, H) /\ MaxLevel \in Nat
      /\ z.level \in 1 .. MaxLevel
      /\ Nodes(z2) = Z!Elements(z2) \cup {Z!Header} /\ Nodes(z2) = N \ {ele}
      /\ Z!Elements(z2) = E \ {ele} /\ ele \in E
  BY DeletedSetting
<1>2. \A x \in Nodes(z2) : G[x] = H[x] /\ H[x] \in 1 .. MaxLevel /\ x \in N
  BY DeletedSetting
<1>3. /\ H[Z!Header] = MaxLevel
      /\ \A x \in N : z.node[x] \in Type(H[x])
      /\ \A x \in E : H[x] <= z.level
  BY <1>1 DEF SkipListOf, Layered
<1>4. /\ z2.level \in 1 .. z.level
      /\ \A x \in Z!Elements(z2) : H[x] <= z2.level
      /\ z2.level = 1 \/ \E x \in Z!Elements(z2) : H[x] = z2.level
  BY DeletedLinked
<1>5. ele \in N
  BY <1>1 DEF E, N, Nodes, Z!Elements
<1>6. G = [x \in Nodes(z2) |-> G[x]]
  BY DEF Kept
<1> HIDE DEF G, E, N
<1>7. G \in [Nodes(z2) -> 1 .. MaxLevel]
  BY <1>2, <1>6
<1>8. ASSUME NEW x \in Nodes(z2)
      PROVE  z2.node[x] \in Type(G[x])
  <2> DEFINE gone == z.node[ele]
             b == IF x = gone.forward[1] THEN gone.backward ELSE z.node[x].backward
             f == [i \in 1 .. H[x] |->
                      IF i <= z.level /\ u[i] = x /\ z.node[x].forward[i] = ele
                      THEN gone.forward[i] ELSE z.node[x].forward[i]]
             s == [i \in 1 .. H[x] |->
                      IF ~(i <= z.level /\ u[i] = x) THEN z.node[x].span[i]
                      ELSE IF z.node[x].forward[i] = ele THEN z.node[x].span[i] + gone.span[i] - 1
                      ELSE z.node[x].span[i] - 1]
  <2>1. NodeIs(z2.node[x], z.node[x].score, b, f, s)
    BY DEF DeletionPlace, IsDeleted
  <2>2. z.node[x].score \in Int /\ z.node[x].backward \in Int
        /\ \A i \in 1 .. H[x] : z.node[x].forward[i] \in Int /\ z.node[x].span[i] \in Int
    BY <1>2, <1>3
  <2>3. gone.backward \in Int
        /\ \A i \in 1 .. H[ele] : gone.forward[i] \in Int /\ gone.span[i] \in Int
    BY <1>3, <1>5
  <2>4. \A i \in 1 .. H[x] : z.node[x].forward[i] = ele => i \in 1 .. H[ele]
    <3> SUFFICES ASSUME NEW i \in 1 .. H[x], z.node[x].forward[i] = ele
                 PROVE  i \in 1 .. H[ele]
      OBVIOUS
    <3>1. Linked(z, R, H, x, i)
      BY <1>1, <1>2 DEF SkipListOf, N
    <3>2. ele # Z!Nil
      <4>1. E \subseteq Nat \ {0}
        BY <1>1, RankedFacts DEF E
      <4> QED
        BY <1>1, <4>1 DEF Z!Nil
    <3>3. H[ele] >= i
      BY <3>1, <3>2 DEF Linked
    <3>4. H[ele] \in 1 .. MaxLevel
      BY <1>1, <1>5, RankedFacts DEF N
    <3>5. i \in Nat /\ i >= 1
      BY <1>2
    <3> QED
      BY <1>1, <3>3, <3>4, <3>5
  <2> HIDE DEF gone
  <2>5. b \in Int
    BY <2>2, <2>3
  <2>6. f \in [1 .. H[x] -> Int]
    <3>1. \A i \in 1 .. H[x] : f[i] \in Int
      BY <2>2, <2>3, <2>4
    <3> QED
      BY <3>1
  <2>7. s \in [1 .. H[x] -> Int]
    <3>1. \A i \in 1 .. H[x] : s[i] \in Int
      BY <2>2, <2>3, <2>4
    <3> QED
      BY <3>1
  <2> HIDE DEF b, f, s
  <2>8. z2.node[x] \in Type(H[x])
    BY <2>1, <2>2, <2>5, <2>6, <2>7 DEF NodeIs
  <2> QED
    BY <1>2, <2>8
<1>9. z2.level \in 1 .. MaxLevel
  BY <1>1, <1>4
<1>10. G[Z!Header] = MaxLevel
  BY <1>1, <1>2, <1>3
<1>11. /\ \A x \in Z!Elements(z2) : G[x] <= z2.level
       /\ z2.level = 1 \/ \E x \in Z!Elements(z2) : G[x] = z2.level
  BY <1>1, <1>2, <1>4
<1> QED
  BY <1>7, <1>8, <1>9, <1>10, <1>11 DEF Layered, G

(* The ways back, and the tail, after the deletion. *)
LEMMA DeletedLinkedBack ==
  ASSUME NEW z, NEW R, NEW H, NEW u, NEW ele, NEW z2, DeletionPlace(z, R, H, u, ele, z2)
  PROVE  LET Q == Lowered(z2, R, ele)
         IN  /\ \A x \in Z!Elements(z2) : LinkedBack(z2, Q, x)
             /\ \/ z2.length = 0 /\ z2.tail = Z!Nil
                \/ z2.tail \in Z!Elements(z2) /\ Q[z2.tail] = z2.length
<1> DEFINE Q == Lowered(z2, R, ele)
           E == Z!Elements(z)
           k == R[ele]
           next == z.node[ele].forward[1]
           prev == z.node[ele].backward
<1>1. /\ SkipListOf(z, R, H) /\ MaxLevel \in Nat /\ k \in 1 .. z.length
      /\ z.length \in Nat /\ z2.length = z.length - 1
      /\ Z!Elements(z2) = E \ {ele} /\ ele \in E /\ E \subseteq Nat \ {0}
  BY DeletedSetting
<1>2. \A w \in Z!Elements(z2) : /\ w \in Nodes(z2)
                                /\ R[w] \in Nat /\ R[w] # k /\ R[w] <= z.length
                                /\ R[w] < k => Q[w] = R[w]
                                /\ R[w] > k => Q[w] = R[w] - 1
  <2>1. Nodes(z2) = Z!Elements(z2) \cup {Z!Header}
    BY DeletedSetting
  <2> QED
    BY <2>1, DeletedSetting
<1>3. /\ \A x, y \in E : R[x] = R[y] => x = y
      /\ \A x \in E : R[x] \in Nat
      /\ \A x \in E : LinkedBack(z, R, x)
      /\ z.length = 0 \/ (z.tail \in E /\ R[z.tail] = z.length)
  <2>1. E \subseteq Nodes(z) /\ \A x \in Nodes(z) : R[x] \in 0 .. z.length
    BY <1>1, RankedFacts
  <2> QED
    BY <1>1, <2>1 DEF SkipListOf, Ranked
<1>4. \/ next = Z!Nil /\ k = z.length
      \/ next \in E /\ R[next] = k + 1 /\ k < z.length
  <2>1. ele \in Nodes(z) /\ H[ele] \in 1 .. MaxLevel /\ \A w \in Nodes(z) : R[w] \in 0 .. z.length
    BY <1>1, RankedFacts
  <2>2. IsLast(z, R, H, 1, k, ele)
    BY <1>1, <2>1 DEF IsLast
  <2>3. k \in 0 .. z.length
    BY <1>1
  <2> HIDE DEF k
  <2> QED
    BY <1>1, <2>2, <2>3, NextByRank
<1>5. /\ \A x \in Z!Elements(z2) : z2.node[x].backward = IF x = next THEN prev ELSE z.node[x].backward
      /\ z2.tail = IF next = Z!Nil THEN prev ELSE z.tail
  <2>1. \A x \in Z!Elements(z2) : z2.node[x].backward = IF x = next THEN prev ELSE z.node[x].backward
    BY <1>2, DeletedFields
  <2>2. z2.tail = IF next = Z!Nil THEN prev ELSE z.tail
    BY DEF DeletionPlace, IsDeleted
  <2> QED
    BY <2>1, <2>2
<1>6. \/ k = 1 /\ prev = Z!Nil
      \/ prev \in E /\ R[prev] = k - 1
  BY <1>1, <1>3 DEF LinkedBack
<1>7. Z!Nil \notin E
  BY <1>1 DEF Z!Nil
<1> HIDE DEF Q, E, next, prev, k
<1>8. prev \in E /\ R[prev] = k - 1 => prev \in Z!Elements(z2) /\ Q[prev] = k - 1
  <2> SUFFICES ASSUME prev \in E, R[prev] = k - 1
               PROVE  prev \in Z!Elements(z2) /\ Q[prev] = k - 1
    OBVIOUS
  <2>1. prev # ele
    BY <1>1 DEF k
  <2>2. prev \in Z!Elements(z2)
    BY <1>1, <2>1
  <2> QED
    BY <1>1, <1>2, <2>2
<1>9. ASSUME NEW x \in Z!Elements(z2)
      PROVE  LinkedBack(z2, Q, x)
  <2>1. CASE x = next
    <3>1. Q[x] = k
      BY <1>1, <1>2, <1>4, <1>7, <2>1
    <3> QED
      BY <1>5, <1>6, <1>8, <2>1, <3>1 DEF LinkedBack
  <2>2. CASE x # next
    <3> DEFINE b == z.node[x].backward
    <3>1. z2.node[x].backward = b
      BY <1>5, <2>2
    <3>2. \/ R[x] = 1 /\ b = Z!Nil
          \/ b \in E /\ R[b] = R[x] - 1
      BY <1>1, <1>3 DEF LinkedBack, E
    <3> HIDE DEF b
    <3>3. CASE R[x] = 1 /\ b = Z!Nil
      <4>1. Q[x] = 1
        BY <1>1, <1>2, <3>3
      <4> QED
        BY <3>1, <3>3, <4>1 DEF LinkedBack
    <3>4. CASE b \in E /\ R[b] = R[x] - 1
      <4>1. R[x] # k + 1
        <5>1. R[x] = k + 1 => next \in E /\ R[next] = R[x]
          BY <1>1, <1>2, <1>4
        <5> QED
          BY <1>1, <1>3, <2>2, <5>1
      <4>2. b # ele
        BY <1>1, <1>2, <3>4, <4>1 DEF k
      <4>3. b \in Z!Elements(z2)
        BY <1>1, <3>4, <4>2
      <4>4. Q[b] = Q[x] - 1
        BY <1>1, <1>2, <3>4, <4>1, <4>3
      <4> QED
        BY <3>1, <4>3, <4>4 DEF LinkedBack
    <3> QED
      BY <3>2, <3>3, <3>4
  <2> QED
    BY <2>1, <2>2
<1>10. \/ z2.length = 0 /\ z2.tail = Z!Nil
       \/ z2.tail \in Z!Elements(z2) /\ Q[z2.tail] = z2.length
  <2>1. CASE next = Z!Nil
    <3>1. k = z.length /\ z2.tail = prev
      BY <1>4, <1>5, <1>7, <2>1
    <3> QED
      BY <1>1, <1>6, <1>8, <3>1
  <2>2. CASE next # Z!Nil
    <3>1. k < z.length /\ z2.tail = z.tail
      BY <1>4, <1>5, <2>2
    <3>2. z.tail \in E /\ R[z.tail] = z.length
      BY <1>1, <1>3
    <3>3. z.tail \in Z!Elements(z2)
      BY <1>1, <3>1, <3>2 DEF k
    <3> QED
      BY <1>1, <1>2, <3>1, <3>2, <3>3
  <2> QED
    BY <2>1, <2>2
<1> QED
  BY <1>9, <1>10 DEF Q

(* delete keeps the skip list one, with one node less. *)
LEMMA DeleteElementKeeps ==
  ASSUME NEW z, IsSkipList(z), NEW ele \in Z!Elements(z), NEW score, score = z.node[ele].score
  PROVE  LET z2 == Z!DeleteElement(z, score, ele)
         IN  /\ IsSkipList(z2)
             /\ Z!Elements(z2) = Z!Elements(z) \ {ele}
             /\ \A x \in Z!Elements(z2) : z2.node[x].score = z.node[x].score
<1> DEFINE z2 == Z!DeleteElement(z, score, ele)
<1>1. PICK R, H : SkipListOf(z, R, H)
  BY DEF IsSkipList
<1>2. PICK u : DeletionPlace(z, R, H, u, ele, z2)
  BY <1>1, DeleteElementIs
<1> DEFINE Q == Lowered(z2, R, ele)
           G == Kept(z2, H)
<1> HIDE DEF z2
<1>3. Ranked(z2, Q) /\ Layered(z2, G)
  BY <1>2, DeletedRanked, DeletedLayered
<1>4. ASSUME NEW x \in Nodes(z2), NEW i \in 1 .. G[x]
      PROVE  Linked(z2, Q, G, x, i)
  <2>1. G[x] = H[x]
    BY DEF Kept
  <2>2. i \in 1 .. H[x]
    BY <1>4, <2>1
  <2> QED
    BY <1>2, <2>2, DeletedLinked
<1>5. /\ \A x \in Z!Elements(z2) : LinkedBack(z2, Q, x)
      /\ \/ z2.length = 0 /\ z2.tail = Z!Nil
         \/ z2.tail \in Z!Elements(z2) /\ Q[z2.tail] = z2.length
  BY <1>2, DeletedLinkedBack
<1>6. /\ Z!Elements(z2) = Z!Elements(z) \ {ele}
      /\ \A x \in Z!Elements(z2) : z2.node[x].score = z.node[x].score
  <2>1. Nodes(z2) = Z!Elements(z2) \cup {Z!Header} /\ Z!Elements(z2) = Z!Elements(z) \ {ele}
    BY <1>2, DeletedSetting
  <2> QED
    BY <1>2, <2>1, DeletedFields
<1> HIDE DEF Q, G
<1>7. SkipListOf(z2, Q, G)
  BY <1>3, <1>4, <1>5 DEF SkipListOf
<1> QED
  BY <1>6, <1>7 DEF IsSkipList, z2

(* newSkipList *)
LEMMA NewSkipListIs == IsSkipList(Z!NewSkipList) /\ Z!Elements(Z!NewSkipList) = {}
<1> DEFINE z == Z!NewSkipList
           R == [x \in {0} |-> 0]
           H == [x \in {0} |-> MaxLevel]
<1>1. MaxLevel \in Nat \ {0}
  BY ConstantsAssumption
<1>2. /\ z.length = 0 /\ z.level = 1 /\ z.tail = Z!Nil /\ Nodes(z) = {0}
      /\ z.node = [x \in {0} |-> z.node[0]]
      /\ z.node[0] = [score |-> 0, backward |-> Z!Nil, forward |-> [i \in 1 .. MaxLevel |-> Z!Nil],
                      span |-> [i \in 1 .. MaxLevel |-> 0]]
  BY DEF Z!NewSkipList, Nodes, Z!Header
<1>3. Z!Elements(z) = {}
  BY <1>2 DEF Z!Elements, Nodes, Z!Header
<1> HIDE DEF z
<1>4. Ranked(z, R)
  <2>1. R \in [{0} -> 0 .. 0] /\ R[0] = 0
    OBVIOUS
  <2>2. z.node = [x \in {0} |-> z.node[x]]
    BY <1>2
  <2>3. \A r \in 0 .. 0 : r = 0
    OBVIOUS
  <2> HIDE DEF R
  <2> QED
    BY <1>2, <1>3, <2>1, <2>2, <2>3 DEF Ranked, Z!Header
<1>5. Layered(z, H)
  <2>1. H \in [{0} -> 1 .. MaxLevel] /\ H[0] = MaxLevel
    BY <1>1
  <2>2. z.node[0] \in [score : Int, backward : Int, forward : [1 .. MaxLevel -> Int],
                       span : [1 .. MaxLevel -> Int]]
    BY <1>2 DEF Z!Nil
  <2> HIDE DEF H
  <2>3. z.level \in 1 .. MaxLevel /\ \A x \in Nodes(z) : x = 0
    BY <1>1, <1>2
  <2> QED
    BY <1>2, <1>3, <2>1, <2>2, <2>3 DEF Layered, Z!Header
<1>6. ASSUME NEW x \in Nodes(z), NEW i \in 1 .. H[x]
      PROVE  Linked(z, R, H, x, i)
  <2>1. x = 0 /\ i \in 1 .. MaxLevel
    BY <1>2
  <2>2. z.node[x].forward[i] = Z!Nil /\ z.node[x].span[i] = 0
    <3> DEFINE f == [m \in 1 .. MaxLevel |-> Z!Nil]
               s == [m \in 1 .. MaxLevel |-> 0]
    <3>1. z.node[0] = [score |-> 0, backward |-> Z!Nil, forward |-> f, span |-> s]
      BY <1>2
    <3>2. f[i] = Z!Nil /\ s[i] = 0
      BY <2>1
    <3> HIDE DEF R, H, f, s
    <3>3. z.node[0].forward = f /\ z.node[0].span = s
      BY <3>1
    <3> QED
      BY <2>1, <3>2, <3>3
  <2>3. z.length - R[x] = 0
    BY <1>2, <2>1
  <2> HIDE DEF R, H
  <2> QED
    BY <1>3, <2>2, <2>3 DEF Linked
<1>7. SkipListOf(z, R, H)
  BY <1>2, <1>3, <1>4, <1>5, <1>6 DEF SkipListOf
<1> QED
  BY <1>3, <1>7 DEF IsSkipList, z

-----------------------------------------------------------------------------
(* The values of keys: skip lists of members, and with them the map.       *)
IsRecord(z) == z = [node |-> z.node, tail |-> z.tail, length |-> z.length, level |-> z.level]
SkipLists == {z \in UNION {SkipListsOf(M) : M \in SUBSET Member} : IsSkipList(z)}

Dicts == UNION {[M -> Score] : M \in SUBSET Member}
Scores(z) == [m \in Z!Elements(z) |-> z.node[m].score]
SortedSets == {v \in [dict : Dicts, zsl : SkipLists] : v.dict = Scores(v.zsl)}

(* A skip list of members has its type. *)
LEMMA InSkipLists ==
  ASSUME NEW z, IsSkipList(z), IsRecord(z), Z!Elements(z) \subseteq Member
  PROVE  z \in SkipLists
<1> DEFINE M == Z!Elements(z)
<1>1. PICK R, H : SkipListOf(z, R, H)
  BY DEF IsSkipList
<1>2. /\ z.length \in Nat /\ Nodes(z) = M \cup {0} /\ z.node = [x \in Nodes(z) |-> z.node[x]]
      /\ M \subseteq Nat \ {0}
  BY <1>1, RankedFacts DEF SkipListOf, Ranked, Z!Header
<1>3. MaxLevel \in Nat
  BY ConstantsAssumption
<1>4. z.level \in 1 .. MaxLevel /\ H \in [Nodes(z) -> 1 .. MaxLevel]
  BY <1>1 DEF SkipListOf, Layered
<1> HIDE DEF M
<1>5. ASSUME NEW x \in Nodes(z)
      PROVE  z.node[x] \in [score : Int, backward : Int, forward : Seq(Int), span : Seq(Int)]
  <2>1. z.node[x] \in [score : Int, backward : Int, forward : [1 .. H[x] -> Int],
                       span : [1 .. H[x] -> Int]]
    BY <1>1 DEF SkipListOf, Layered
  <2>2. H[x] \in Nat
    BY <1>3, <1>4
  <2>3. [1 .. H[x] -> Int] \subseteq Seq(Int)
    BY <2>2
  <2> QED
    BY <2>1, <2>3
<1>6. z.tail \in Int
  BY <1>1, <1>2 DEF SkipListOf, Z!Nil, M
<1>7. z.node \in [M \cup {0} -> [score : Int, backward : Int, forward : Seq(Int), span : Seq(Int)]]
  BY <1>2, <1>5
<1>8. z.level \in Nat
  BY <1>3, <1>4
<1>9. z \in SkipListsOf(M)
  BY <1>2, <1>6, <1>7, <1>8 DEF IsRecord, SkipListsOf
<1> QED
  BY <1>9 DEF SkipLists, M

(* What is used of a skip list of members. *)
LEMMA OutOfSkipLists ==
  ASSUME NEW z \in SkipLists
  PROVE  /\ IsSkipList(z) /\ IsRecord(z) /\ Z!Elements(z) \subseteq Member
         /\ Nodes(z) = Z!Elements(z) \cup {0}
         /\ \A x \in Z!Elements(z) : z.node[x].score \in Int
<1>1. PICK M \in SUBSET Member : z \in SkipListsOf(M)
  BY DEF SkipLists
<1>2. IsSkipList(z)
  BY DEF SkipLists
<1>3. DOMAIN z.node = M \cup {0}
  BY <1>1 DEF SkipListsOf
<1>4. 0 \notin Member
  BY ConstantsAssumption
<1>5. Z!Elements(z) = M
  BY <1>3, <1>4 DEF Z!Elements, Z!Header
<1>6. IsRecord(z)
  BY <1>1 DEF IsRecord, SkipListsOf
<1>7. \A x \in M : z.node[x].score \in Int
  <2>1. z.node \in [M \cup {0} -> [score : Int, backward : Int, forward : Seq(Int), span : Seq(Int)]]
    BY <1>1 DEF SkipListsOf
  <2> QED
    BY <2>1
<1> QED
  BY <1>2, <1>3, <1>5, <1>6, <1>7 DEF Nodes

(* Inserting a new member. *)
LEMMA Inserts ==
  ASSUME NEW z \in SkipLists, NEW score \in Int, NEW m \in Member, m \notin Z!Elements(z),
         NEW lev \in 1 .. MaxLevel
  PROVE  LET z2 == Z!InsertNode(z, lev, score, m)
         IN  /\ z2 \in SkipLists /\ Z!Elements(z2) = Z!Elements(z) \cup {m}
             /\ z2.node[m].score = score
             /\ \A x \in Z!Elements(z) : z2.node[x].score = z.node[x].score
<1> DEFINE z2 == Z!InsertNode(z, lev, score, m)
<1>1. IsSkipList(z) /\ Nodes(z) = Z!Elements(z) \cup {0} /\ Z!Elements(z) \subseteq Member
  BY OutOfSkipLists
<1>2. m \in Nat \ {0} /\ m \notin Nodes(z)
  BY <1>1, ConstantsAssumption
<1>3. IsRecord(z2)
  BY DEF Z!InsertNode, IsRecord
<1> HIDE DEF z2
<1>4. /\ IsSkipList(z2)
      /\ Z!Elements(z2) = Z!Elements(z) \cup {m}
      /\ z2.node[m].score = score
      /\ \A x \in Nodes(z) : z2.node[x].score = z.node[x].score
  BY <1>1, <1>2, InsertNodeKeeps DEF z2
<1>5. z2 \in SkipLists
  BY <1>1, <1>3, <1>4, InSkipLists
<1> QED
  BY <1>1, <1>4, <1>5 DEF z2

(* Deleting a member by its score. *)
LEMMA Deletes ==
  ASSUME NEW z \in SkipLists, NEW m \in Z!Elements(z), NEW score, score = z.node[m].score
  PROVE  LET z2 == Z!DeleteElement(z, score, m)
         IN  /\ z2 \in SkipLists /\ Z!Elements(z2) = Z!Elements(z) \ {m}
             /\ \A x \in Z!Elements(z2) : z2.node[x].score = z.node[x].score
<1> DEFINE z2 == Z!DeleteElement(z, score, m)
<1>1. IsSkipList(z) /\ IsRecord(z) /\ Z!Elements(z) \subseteq Member
  BY OutOfSkipLists, Zenon
<1>2. IsRecord(z2)
  <2>0. \A a, b, c, d : IsRecord([node |-> a, tail |-> b, length |-> c, level |-> d])
    BY DEF IsRecord
  <2>1. \A x, path : IsRecord(Z!DeleteNode(z, x, path))
    BY <2>0, Zenon DEF Z!DeleteNode
  <2> QED
    BY <1>1, <2>1, Zenon DEF Z!DeleteElement
<1> HIDE DEF z2
<1>3. /\ IsSkipList(z2)
      /\ Z!Elements(z2) = Z!Elements(z) \ {m}
      /\ \A x \in Z!Elements(z2) : z2.node[x].score = z.node[x].score
  BY <1>1, DeleteElementKeeps DEF z2
<1>4. z2 \in SkipLists
  BY <1>1, <1>2, <1>3, InSkipLists
<1> QED
  BY <1>3, <1>4 DEF z2

(* The list without elements. *)
LEMMA EmptyList == Z!NewSkipList \in SkipLists /\ Z!Elements(Z!NewSkipList) = {}
<1>1. IsRecord(Z!NewSkipList)
  BY DEF Z!NewSkipList, IsRecord
<1> QED
  BY <1>1, NewSkipListIs, InSkipLists

(* The map and the skip list together. *)
LEMMA SortedSetFacts ==
  ASSUME NEW v \in SortedSets
  PROVE  /\ v = [dict |-> v.dict, zsl |-> v.zsl] /\ v.zsl \in SkipLists
         /\ v.dict = Scores(v.zsl) /\ DOMAIN v.dict = Z!Elements(v.zsl)
         /\ v.dict \in Dicts /\ DOMAIN v.dict \subseteq Member
         /\ \A m \in DOMAIN v.dict : v.dict[m] \in Score
         /\ v.dict = Z!EmptyDict <=> DOMAIN v.dict = {}
<1>1. /\ v = [dict |-> v.dict, zsl |-> v.zsl] /\ v.zsl \in SkipLists
      /\ v.dict = Scores(v.zsl) /\ v.dict \in Dicts
  BY DEF SortedSets
<1>2. DOMAIN v.dict = Z!Elements(v.zsl)
  BY <1>1 DEF Scores
<1>3. DOMAIN v.dict \subseteq Member
  BY <1>1, <1>2, OutOfSkipLists
<1>4. v.dict = Z!EmptyDict <=> DOMAIN v.dict = {}
  <2>1. DOMAIN Z!EmptyDict = {}
    BY DEF Z!EmptyDict
  <2>2. DOMAIN v.dict = {} => v.dict = Z!EmptyDict
    BY <1>1, <1>2 DEF Scores, Z!EmptyDict
  <2> QED
    BY <2>1, <2>2
<1>5. \A m \in DOMAIN v.dict : v.dict[m] \in Score
  BY <1>1 DEF Dicts
<1> QED
  BY <1>1, <1>2, <1>3, <1>4, <1>5

(* A skip list with its scores is a sorted set. *)
LEMMA InSortedSets ==
  ASSUME NEW z \in SkipLists, NEW d \in Dicts, d = Scores(z)
  PROVE  [dict |-> d, zsl |-> z] \in SortedSets
BY DEF SortedSets

(* The set without members. *)
LEMMA EmptySetIs == Z!EmptySet \in SortedSets /\ Z!EmptySet.dict = Z!EmptyDict
<1>1. Scores(Z!NewSkipList) = Z!EmptyDict
  BY EmptyList DEF Scores, Z!EmptyDict
<1>2. Z!EmptyDict \in Dicts
  <2>1. Z!EmptyDict \in [{} -> Score]
    BY DEF Z!EmptyDict
  <2> QED
    BY <2>1 DEF Dicts
<1> QED
  BY <1>1, <1>2, EmptyList, InSortedSets DEF Z!EmptySet

(* Setting a score. *)
LEMMA WithScoreType ==
  ASSUME NEW d \in Dicts, NEW m \in Member, NEW score \in Score
  PROVE  Z!WithScore(d, m, score) \in Dicts
<1>1. PICK M \in SUBSET Member : d \in [M -> Score]
  BY DEF Dicts
<1>2. M \cup {m} \in SUBSET Member /\ Z!WithScore(d, m, score) \in [M \cup {m} -> Score]
  BY <1>1 DEF Z!WithScore
<1> QED
  BY <1>2 DEF Dicts

(* A member with a score, new or moved. *)
LEMMA Placed ==
  ASSUME NEW v \in SortedSets, NEW m \in Member, NEW score \in Score, NEW lev \in 1 .. MaxLevel
  PROVE  LET rest == IF m \in DOMAIN v.dict THEN Z!DeleteElement(v.zsl, v.dict[m], m) ELSE v.zsl
         IN  [dict |-> Z!WithScore(v.dict, m, score), zsl |-> Z!InsertNode(rest, lev, score, m)]
               \in SortedSets
<1> DEFINE z == v.zsl
           found == m \in DOMAIN v.dict
           rest == IF m \in DOMAIN v.dict THEN Z!DeleteElement(v.zsl, v.dict[m], m) ELSE v.zsl
           z2 == Z!InsertNode(rest, lev, score, m)
<1>1. z \in SkipLists /\ v.dict = Scores(z) /\ DOMAIN v.dict = Z!Elements(z)
  BY SortedSetFacts
<1> HIDE DEF z
<1>2. /\ rest \in SkipLists /\ Z!Elements(rest) = Z!Elements(z) \ {m}
      /\ \A x \in Z!Elements(rest) : rest.node[x].score = z.node[x].score
  <2>1. CASE m \in DOMAIN v.dict
    <3>1. m \in Z!Elements(z) /\ v.dict[m] = z.node[m].score
      BY <1>1, <2>1 DEF Scores
    <3>2. rest = Z!DeleteElement(z, v.dict[m], m)
      BY <2>1 DEF z
    <3> HIDE DEF rest
    <3> QED
      BY <1>1, <3>1, <3>2, Deletes
  <2>2. CASE m \notin DOMAIN v.dict
    BY <1>1, <2>2 DEF z
  <2> QED
    BY <2>1, <2>2
<1> HIDE DEF rest
<1>3. /\ z2 \in SkipLists /\ Z!Elements(z2) = Z!Elements(rest) \cup {m}
      /\ z2.node[m].score = score
      /\ \A x \in Z!Elements(rest) : z2.node[x].score = rest.node[x].score
  <2>1. score \in Int
    BY ConstantsAssumption
  <2> QED
    BY <1>2, <2>1, Inserts
<1> HIDE DEF z2
<1>4. Z!WithScore(v.dict, m, score) = Scores(z2)
  <2>1. Z!Elements(z2) = DOMAIN v.dict \cup {m}
    BY <1>1, <1>2, <1>3
  <2>2. \A x \in Z!Elements(z2) : z2.node[x].score = IF x = m THEN score ELSE v.dict[x]
    <3>1. \A x \in Z!Elements(z2) : x # m => x \in Z!Elements(rest) /\ x \in Z!Elements(z)
      BY <1>2, <1>3
    <3>2. \A x \in Z!Elements(z) : v.dict[x] = z.node[x].score
      BY <1>1 DEF Scores
    <3> QED
      BY <1>2, <1>3, <3>1, <3>2
  <2> QED
    BY <2>1, <2>2 DEF Scores, Z!WithScore
<1>5. Z!WithScore(v.dict, m, score) \in Dicts
  BY SortedSetFacts, WithScoreType
<1> QED
  BY <1>3, <1>4, <1>5, InSortedSets DEF z2, rest, z

(* One member of a ZADD. *)
LEMMA AddedIs ==
  ASSUME NEW v \in SortedSets, NEW m \in Member, NEW score \in Score, NEW lev \in 1 .. MaxLevel
  PROVE  /\ Z!Added(v, m, score, lev) \in SortedSets
         /\ Z!Added(v, m, score, lev).dict = Z!WithScore(v.dict, m, score)
<1>0. m \in DOMAIN v.dict => (Z!Equal(v.dict[m], score) <=> v.dict[m] = score)
  <2>1. Score \subseteq Int /\ \A x \in DOMAIN v.dict : v.dict[x] \in Score
    BY ConstantsAssumption, SortedSetFacts
  <2> QED
    BY <2>1, FloatOrder
<1>1. CASE m \in DOMAIN v.dict /\ v.dict[m] = score
  <2>1. Z!Added(v, m, score, lev) = v
    BY <1>1, <1>0 DEF Z!Added
  <2>2. v.dict = [x \in DOMAIN v.dict |-> v.dict[x]]
    BY SortedSetFacts DEF Scores
  <2>3. Z!WithScore(v.dict, m, score) = v.dict
    <3>1. DOMAIN v.dict \cup {m} = DOMAIN v.dict
      BY <1>1
    <3> QED
      BY <1>1, <2>2, <3>1 DEF Z!WithScore
  <2> QED
    BY <2>1, <2>3
<1>2. CASE ~(m \in DOMAIN v.dict /\ v.dict[m] = score)
  <2> DEFINE rest == IF m \in DOMAIN v.dict THEN Z!DeleteElement(v.zsl, v.dict[m], m) ELSE v.zsl
  <2>1. Z!Added(v, m, score, lev) = [dict |-> Z!WithScore(v.dict, m, score),
                                     zsl  |-> Z!InsertNode(rest, lev, score, m)]
    BY <1>2, <1>0 DEF Z!Added
  <2> HIDE DEF rest
  <2>2. Z!Added(v, m, score, lev).dict = Z!WithScore(v.dict, m, score)
    BY <2>1
  <2> QED
    BY <2>1, <2>2, Placed DEF rest
<1> QED
  BY <1>1, <1>2

-----------------------------------------------------------------------------
(* A loop over 1 .. n: what each turn makes of the state before. *)
IsLoop(a, n, s, step) == a = [i \in 0 .. n |-> IF i = 0 THEN s ELSE step[<<a[i - 1], i>>]]

(* Such a loop exists. *)
LEMMA LoopExists ==
  ASSUME NEW n \in Nat, NEW X, NEW step \in [X \X (1 .. n) -> X], NEW s \in X
  PROVE  \E a \in [0 .. n -> X] : IsLoop(a, n, s, step)
<1> DEFINE lines == [m \in 1 .. n |-> m]
<1>1. lines \in Seq(1 .. n) /\ Len(lines) = n /\ \A m \in 1 .. n : lines[m] = m
  OBVIOUS
<1> HIDE DEF lines
<1>2. PICK a : IsRun(a, X, step, s, lines)
  BY <1>1, StepsExist
<1>3. /\ a \in [0 .. n -> X] /\ a[0] = s
      /\ \A i \in 1 .. n : a[i] = step[<<a[i - 1], i>>]
  BY <1>1, <1>2 DEF IsRun
<1>4. \A i \in 0 .. n : i # 0 => i \in 1 .. n
  OBVIOUS
<1>5. IsLoop(a, n, s, step)
  BY <1>3, <1>4 DEF IsLoop
<1> QED
  BY <1>3, <1>5

(* Members for a ZADD, none with NaN. *)
Numbered == [member : Member, score : Score, level : 1 .. MaxLevel]

(* ZADD: the map and the skip list, and the replay of its line. *)
LEMMA AllScoredSteps ==
  ASSUME NEW d \in Dicts, NEW members \in Seq(Numbered)
  PROVE  \E b : /\ b[0] = d /\ Z!AllScored(d, members) = b[Len(members)]
                /\ \A i \in 1 .. Len(members) :
                      b[i] = Z!WithScore(b[i - 1], members[i].member, members[i].score)
<1> DEFINE n == Len(members)
           F == [p \in Dicts \X (1 .. n) |->
                    Z!WithScore(p[1], members[p[2]].member, members[p[2]].score)]
           R(b) == b = [i \in 0 .. n |->
                           IF i = 0 THEN d
                           ELSE Z!WithScore(b[i - 1], members[i].member, members[i].score)]
           b == CHOOSE b : R(b)
<1>1. n \in Nat
  OBVIOUS
<1>2. \A i \in 1 .. n : members[i].member \in Member /\ members[i].score \in Score
  <2>1. \A i \in 1 .. n : members[i] \in Numbered
    OBVIOUS
  <2> QED
    BY <2>1 DEF Numbered
<1>3. F \in [Dicts \X (1 .. n) -> Dicts]
  <2> HIDE DEF n
  <2> QED
    BY <1>2, WithScoreType
<1>4. PICK a \in [0 .. n -> Dicts] : IsLoop(a, n, d, F)
  <2> HIDE DEF F, n
  <2> QED
    BY <1>1, <1>3, LoopExists
<1>5. R(a)
  <2> HIDE DEF n
  <2>1. \A i \in 0 .. n : a[i] = IF i = 0 THEN d ELSE F[<<a[i - 1], i>>]
    BY <1>4, Zenon DEF IsLoop
  <2>2. \A i \in 0 .. n : i # 0 => i - 1 \in 0 .. n /\ i \in 1 .. n
    BY <1>1
  <2>3. \A i \in 0 .. n : i # 0 =>
           F[<<a[i - 1], i>>] = Z!WithScore(a[i - 1], members[i].member, members[i].score)
    BY <2>2
  <2> HIDE DEF F
  <2>4. \A i \in 0 .. n : a[i] = IF i = 0 THEN d
                                 ELSE Z!WithScore(a[i - 1], members[i].member, members[i].score)
    BY <2>1, <2>3
  <2> QED
    BY <2>4
<1>6. R(b)
  <2> HIDE DEF R
  <2> QED
    BY <1>5
<1>7. Z!AllScored(d, members) = b[n]
  BY DEF Z!AllScored
<1> HIDE DEF b, n
<1>8. b[0] = d /\ \A i \in 1 .. n : b[i] = Z!WithScore(b[i - 1], members[i].member, members[i].score)
  <2>1. 0 \in 0 .. n /\ \A i \in 1 .. n : i \in 0 .. n /\ i # 0
    BY <1>1
  <2> QED
    BY <1>6, <2>1
<1> QED
  BY <1>7, <1>8 DEF n

(* A ZADD sets the scores that the replay of its line sets. *)
LEMMA AllAddedIs ==
  ASSUME NEW v \in SortedSets, NEW members \in Seq(Numbered)
  PROVE  /\ Z!AllAdded(v, members) \in SortedSets
         /\ Z!AllAdded(v, members).dict = Z!AllScored(v.dict, members)
<1> DEFINE n == Len(members)
           Add(w, i) == Z!Added(w, members[i].member, members[i].score, members[i].level)
           F == [p \in SortedSets \X (1 .. n) |-> Add(p[1], p[2])]
           R(c) == c = [i \in 0 .. n |-> IF i = 0 THEN v ELSE Add(c[i - 1], i)]
           c == CHOOSE c : R(c)
<1>1. n \in Nat
  OBVIOUS
<1>2. \A i \in 1 .. n : /\ members[i].member \in Member /\ members[i].score \in Score
                        /\ members[i].level \in 1 .. MaxLevel
  <2>1. \A i \in 1 .. n : members[i] \in Numbered
    OBVIOUS
  <2> QED
    BY <2>1 DEF Numbered
<1>3. \A w \in SortedSets, i \in 1 .. n :
         /\ Add(w, i) \in SortedSets
         /\ Add(w, i).dict = Z!WithScore(w.dict, members[i].member, members[i].score)
  <2> HIDE DEF n
  <2> QED
    BY <1>2, AddedIs
<1>4. PICK a \in [0 .. n -> SortedSets] : IsLoop(a, n, v, F)
  <2> HIDE DEF n, Add
  <2>1. F \in [SortedSets \X (1 .. n) -> SortedSets]
    BY <1>3
  <2> HIDE DEF F
  <2> QED
    BY <1>1, <2>1, LoopExists
<1>5. R(a)
  <2> HIDE DEF n, Add
  <2>1. \A i \in 0 .. n : a[i] = IF i = 0 THEN v ELSE F[<<a[i - 1], i>>]
    BY <1>4 DEF IsLoop
  <2>2. \A i \in 0 .. n : i # 0 => i - 1 \in 0 .. n /\ i \in 1 .. n
    BY <1>1
  <2>3. \A i \in 0 .. n : i # 0 => F[<<a[i - 1], i>>] = Add(a[i - 1], i)
    BY <2>2
  <2> HIDE DEF F
  <2>4. \A i \in 0 .. n : a[i] = IF i = 0 THEN v ELSE Add(a[i - 1], i)
    BY <2>1, <2>3
  <2> QED
    BY <2>4
<1>6. R(c)
  <2> HIDE DEF R
  <2> QED
    BY <1>5
<1>7. Z!AllAdded(v, members) = c[n]
  BY DEF Z!AllAdded
<1> HIDE DEF c, n, Add
<1>8. c[0] = v /\ \A i \in 1 .. n : c[i] = Add(c[i - 1], i)
  <2>1. 0 \in 0 .. n /\ \A i \in 1 .. n : i \in 0 .. n /\ i # 0
    BY <1>1
  <2> QED
    BY <1>6, <2>1
<1>9. v.dict \in Dicts
  BY SortedSetFacts
<1>10. PICK b : /\ b[0] = v.dict /\ Z!AllScored(v.dict, members) = b[n]
                /\ \A i \in 1 .. n :
                      b[i] = Z!WithScore(b[i - 1], members[i].member, members[i].score)
  BY <1>9, AllScoredSteps DEF n
<1> DEFINE Done == {i \in 0 .. n : c[i] \in SortedSets /\ c[i].dict = b[i]}
<1>11. 0 \in Done
  BY <1>1, <1>8, <1>10
<1>12. ASSUME NEW i \in 0 .. n - 1, i \in Done
       PROVE  i + 1 \in Done
  <2>1. i + 1 \in 0 .. n /\ i + 1 \in 1 .. n /\ (i + 1) - 1 = i
    BY <1>1
  <2>2. c[i + 1] = Add(c[i], i + 1)
    BY <1>8, <2>1
  <2>3. b[i + 1] = Z!WithScore(b[i], members[i + 1].member, members[i + 1].score)
    BY <1>10, <2>1
  <2> QED
    BY <1>3, <1>12, <2>1, <2>2, <2>3
<1> HIDE DEF Done
<1>13. 0 .. n \subseteq Done
  BY <1>1, <1>11, <1>12, CountingUp
<1>14. n \in Done
  BY <1>1, <1>13
<1> QED
  BY <1>7, <1>10, <1>14 DEF Done

-----------------------------------------------------------------------------
(* A skip list has as many elements as it says. *)
LEMMA ElementsCounted ==
  ASSUME NEW z, NEW R, NEW H, SkipListOf(z, R, H)
  PROVE  IsFiniteSet(Z!Elements(z)) /\ Cardinality(Z!Elements(z)) = z.length
<1> DEFINE E == Z!Elements(z)
           f == [x \in E |-> R[x]]
           n == z.length
<1>1. /\ n \in Nat /\ Nodes(z) = E \cup {Z!Header} /\ R[Z!Header] = 0
      /\ \A x \in Nodes(z) : R[x] \in 0 .. n
      /\ \A x, y \in Nodes(z) : R[x] = R[y] => x = y
      /\ \A q \in 0 .. n : \E x \in Nodes(z) : R[x] = q
  BY RankedFacts DEF SkipListOf, Ranked
<1>2. Z!Header \notin E
  BY DEF Z!Elements
<1> HIDE DEF E, n
<1>3. \A x \in E : R[x] \in 1 .. n
  <2>1. \A x \in E : R[x] # 0
    BY <1>1, <1>2
  <2> QED
    BY <1>1, <2>1
<1>4. f \in Injection(E, 1 .. n)
  BY <1>1, <1>3 DEF Injection, IsInjective
<1>5. f \in Surjection(E, 1 .. n)
  <2>1. f \in [E -> 1 .. n]
    BY <1>3
  <2>2. \A q \in 1 .. n : \E x \in E : f[x] = q
    <3> TAKE q \in 1 .. n
    <3>1. q \in 0 .. n /\ q # 0
      BY <1>1
    <3>2. PICK x \in Nodes(z) : R[x] = q
      BY <1>1, <3>1
    <3> QED
      BY <1>1, <3>1, <3>2
  <2> QED
    BY <2>1, <2>2 DEF Surjection
<1>6. IsFiniteSet(1 .. n) /\ Cardinality(1 .. n) = n
  BY <1>1, FS_Interval
<1> HIDE DEF f
<1>7. IsFiniteSet(E) /\ Cardinality(E) = Cardinality(1 .. n)
  BY <1>4, <1>5, <1>6, FS_Injection
<1> QED
  BY <1>6, <1>7 DEF E, n

(* The modules of the engine make sequences of sets as this one does. *)
LEMMA SameSetToSeq == \A T : Z!SetToSeq(T) = SetToSeq(T)
<1>1. \A P : Z!Cardinality(P) = Cardinality(P)
  BY DEF Z!Cardinality, Cardinality
<1>2. \A f : Z!IsInjective(f) <=> IsInjective(f)
  BY DEF Z!IsInjective, IsInjective
<1> QED
  BY <1>1, <1>2 DEF Z!SetToSeq, SetToSeq

(* ZREM and the pops: one member after the other leaves. *)
LEMMA TakenIs ==
  ASSUME NEW v \in SortedSets, NEW M
  PROVE  /\ Z!Taken(v, M) \in SortedSets
         /\ Z!Taken(v, M).dict = Z!Without(v.dict, M)
<1> DEFINE D == DOMAIN v.dict
           s == Z!SetToSeq(M \cap D)
           n == Len(s)
           Del(w, i) == Z!DeleteElement(w, v.dict[s[i]], s[i])
           Left(w, i) == /\ Z!Elements(w) = D \ {s[j] : j \in 1 .. i}
                         /\ \A x \in Z!Elements(w) : w.node[x].score = v.dict[x]
           F == [p \in SkipLists \X (1 .. n) |->
                    IF Left(p[1], p[2] - 1) THEN Del(p[1], p[2]) ELSE p[1]]
           R(c) == c = [i \in 0 .. n |-> IF i = 0 THEN v.zsl ELSE Del(c[i - 1], i)]
           c == CHOOSE c : R(c)
<1>1. v.zsl \in SkipLists /\ v.dict = Scores(v.zsl) /\ D = Z!Elements(v.zsl)
  BY SortedSetFacts
<1>2. IsFiniteSet(M \cap D)
  <2>1. PICK R1, H1 : SkipListOf(v.zsl, R1, H1)
    BY <1>1, OutOfSkipLists DEF IsSkipList
  <2>2. IsFiniteSet(D)
    BY <1>1, <2>1, ElementsCounted
  <2> QED
    BY <2>2, FS_Subset
<1>3. /\ s \in Seq(M \cap D)
      /\ \A x \in M \cap D : \E i \in DOMAIN s : s[i] = x
      /\ \A i, j \in DOMAIN s : s[i] = s[j] => i = j
  BY <1>2, SetToSeqProperties, SameSetToSeq
<1> HIDE DEF s, D
<1>4. /\ n \in Nat
      /\ \A i \in 1 .. n : s[i] \in D /\ s[i] \in M
      /\ \A x \in M \cap D : \E i \in 1 .. n : s[i] = x
      /\ \A i, j \in 1 .. n : s[i] = s[j] => i = j
  BY <1>3
<1> HIDE DEF n
<1>5. Left(v.zsl, 0)
  <2>1. \A x \in D : v.zsl.node[x].score = v.dict[x]
    BY <1>1 DEF Scores
  <2> QED
    BY <1>1, <2>1
<1>6. ASSUME NEW w \in SkipLists, NEW i \in 1 .. n, Left(w, i - 1)
      PROVE  Del(w, i) \in SkipLists /\ Left(Del(w, i), i)
  <2>1. s[i] \in Z!Elements(w)
    <3>1. \A j \in 1 .. i - 1 : j \in 1 .. n /\ j # i
      BY <1>4
    <3>2. \A j \in 1 .. i - 1 : s[j] # s[i]
      BY <1>4, <3>1
    <3> QED
      BY <1>4, <1>6, <3>2
  <2>2. v.dict[s[i]] = w.node[s[i]].score
    BY <1>6, <2>1
  <2> DEFINE w2 == Del(w, i)
  <2>3. /\ w2 \in SkipLists /\ Z!Elements(w2) = Z!Elements(w) \ {s[i]}
        /\ \A x \in Z!Elements(w2) : w2.node[x].score = w.node[x].score
    BY <2>1, <2>2, Deletes
  <2> HIDE DEF w2
  <2>4. Z!Elements(w2) = D \ {s[j] : j \in 1 .. i}
    <3>1. {s[j] : j \in 1 .. i} = {s[j] : j \in 1 .. i - 1} \cup {s[i]}
      <4>1. 1 .. i = (1 .. i - 1) \cup {i}
        BY <1>4
      <4> QED
        BY <4>1
    <3> QED
      BY <1>6, <2>3, <3>1
  <2>5. \A x \in Z!Elements(w2) : w2.node[x].score = v.dict[x]
    BY <1>6, <2>3
  <2>6. Left(w2, i)
    BY <2>4, <2>5
  <2> QED
    BY <2>3, <2>6 DEF w2
<1> HIDE DEF Left, Del
<1>7. PICK a \in [0 .. n -> SkipLists] : IsLoop(a, n, v.zsl, F)
  <2>1. F \in [SkipLists \X (1 .. n) -> SkipLists]
    BY <1>6
  <2> HIDE DEF F
  <2> QED
    BY <1>1, <1>4, <2>1, LoopExists
<1>8. a[0] = v.zsl /\ \A i \in 1 .. n : a[i] = F[<<a[i - 1], i>>] /\ a[i - 1] \in SkipLists
  <2> HIDE DEF F
  <2>1. \A i \in 0 .. n : a[i] = IF i = 0 THEN v.zsl ELSE F[<<a[i - 1], i>>]
    BY <1>7 DEF IsLoop
  <2>2. 0 \in 0 .. n /\ \A i \in 1 .. n : i \in 0 .. n /\ i # 0 /\ i - 1 \in 0 .. n
    BY <1>4
  <2> QED
    BY <2>1, <2>2
<1>9. \A i \in 0 .. n : Left(a[i], i)
  <2> DEFINE Done == {i \in 0 .. n : Left(a[i], i)}
  <2>1. 0 \in Done
    BY <1>4, <1>5, <1>8
  <2>2. ASSUME NEW i \in 0 .. n - 1, i \in Done
        PROVE  i + 1 \in Done
    <3>1. i + 1 \in 0 .. n /\ i + 1 \in 1 .. n /\ (i + 1) - 1 = i
      BY <1>4
    <3>2. a[i + 1] = F[<<a[i], i + 1>>] /\ a[i] \in SkipLists
      BY <1>8, <3>1
    <3>3. Left(a[i], (i + 1) - 1)
      BY <2>2, <3>1
    <3>4. a[i + 1] = Del(a[i], i + 1)
      BY <3>1, <3>2, <3>3
    <3> HIDE DEF F
    <3>5. Left(a[i + 1], i + 1)
      BY <1>6, <3>1, <3>2, <3>3, <3>4
    <3> QED
      BY <3>1, <3>5
  <2> HIDE DEF Done
  <2>3. 0 .. n \subseteq Done
    BY <1>4, <2>1, <2>2, CountingUp
  <2> QED
    BY <2>3 DEF Done
<1>10. R(a)
  <2>1. \A i \in 1 .. n : a[i] = Del(a[i - 1], i)
    <3>1. \A i \in 1 .. n : i - 1 \in 0 .. n
      BY <1>4
    <3> QED
      BY <1>8, <1>9, <3>1
  <2>2. \A i \in 0 .. n : i # 0 => i \in 1 .. n
    BY <1>4
  <2>3. \A i \in 0 .. n : a[i] = IF i = 0 THEN v.zsl ELSE Del(a[i - 1], i)
    BY <1>8, <2>1, <2>2
  <2> QED
    BY <2>3
<1>11. R(c)
  <2> HIDE DEF R
  <2> QED
    BY <1>10
<1>12. Z!Taken(v, M) = [dict |-> Z!Without(v.dict, M), zsl |-> c[n]]
  BY DEF Z!Taken, s, D, n, Del
<1> HIDE DEF c, F
<1>13. c[0] = v.zsl /\ \A i \in 1 .. n : c[i] = Del(c[i - 1], i)
  <2>1. 0 \in 0 .. n /\ \A i \in 1 .. n : i \in 0 .. n /\ i # 0
    BY <1>4
  <2> QED
    BY <1>11, <2>1
<1> HIDE DEF R
<1>14. c[n] \in SkipLists /\ Left(c[n], n)
  <2> DEFINE Done == {i \in 0 .. n : c[i] \in SkipLists /\ Left(c[i], i)}
  <2>1. 0 \in Done
    BY <1>1, <1>4, <1>5, <1>13
  <2>2. ASSUME NEW i \in 0 .. n - 1, i \in Done
        PROVE  i + 1 \in Done
    <3>1. i + 1 \in 0 .. n /\ i + 1 \in 1 .. n /\ (i + 1) - 1 = i
      BY <1>4
    <3>2. c[i + 1] = Del(c[i], i + 1)
      BY <1>13, <3>1
    <3>3. c[i] \in SkipLists /\ Left(c[i], (i + 1) - 1)
      BY <2>2, <3>1
    <3>4. c[i + 1] \in SkipLists /\ Left(c[i + 1], i + 1)
      BY <1>6, <3>1, <3>2, <3>3
    <3> QED
      BY <3>1, <3>4
  <2> HIDE DEF Done
  <2>3. 0 .. n \subseteq Done
    BY <1>4, <2>1, <2>2, CountingUp
  <2>4. n \in 0 .. n
    BY <1>4
  <2> QED
    BY <2>3, <2>4 DEF Done
<1>15. Z!Without(v.dict, M) = Scores(c[n])
  <2> DEFINE w == c[n]
  <2>1. Z!Elements(w) = D \ {s[j] : j \in 1 .. n} /\ \A x \in Z!Elements(w) : w.node[x].score = v.dict[x]
    BY <1>14 DEF Left
  <2> HIDE DEF w
  <2>2. Z!Elements(w) = D \ M
    BY <1>4, <2>1
  <2>3. Z!Without(v.dict, M) = [x \in D \ M |-> v.dict[x]]
    BY DEF Z!Without, Z!Restrict, D
  <2>4. Z!Without(v.dict, M) = Scores(w)
    BY <2>1, <2>2, <2>3 DEF Scores
  <2> QED
    BY <2>4 DEF w
<1>16. Z!Without(v.dict, M) \in Dicts
  <2>1. v.dict \in Dicts /\ D \subseteq Member /\ \A x \in D : v.dict[x] \in Score
    BY SortedSetFacts DEF D
  <2>2. Z!Without(v.dict, M) = [x \in D \ M |-> v.dict[x]]
    BY DEF Z!Without, Z!Restrict, D
  <2>3. Z!Without(v.dict, M) \in [D \ M -> Score] /\ D \ M \in SUBSET Member
    BY <2>1, <2>2
  <2> QED
    BY <2>3 DEF Dicts
<1> QED
  BY <1>12, <1>14, <1>15, <1>16, InSortedSets

-----------------------------------------------------------------------------
(* The elements by their ranks. *)
ByRank(z, R, g) ==
    /\ g \in [1 .. z.length -> Z!Elements(z)]
    /\ \A q \in 1 .. z.length : R[g[q]] = q
    /\ \A x \in Z!Elements(z) : R[x] \in 1 .. z.length /\ g[R[x]] = x

(* Every rank has its element. *)
LEMMA ElementsByRank ==
  ASSUME NEW z, NEW R, NEW H, SkipListOf(z, R, H)
  PROVE  \E g : ByRank(z, R, g)
<1> DEFINE E == Z!Elements(z)
           n == z.length
           g == [q \in 1 .. n |-> CHOOSE x \in E : R[x] = q]
<1>1. /\ n \in Nat /\ Nodes(z) = E \cup {Z!Header} /\ R[Z!Header] = 0
      /\ \A x \in Nodes(z) : R[x] \in 0 .. n
      /\ \A x, y \in Nodes(z) : R[x] = R[y] => x = y
      /\ \A q \in 0 .. n : \E x \in Nodes(z) : R[x] = q
  BY RankedFacts DEF SkipListOf, Ranked
<1>2. Z!Header \notin E
  BY DEF Z!Elements
<1> HIDE DEF E, n
<1>3. \A x \in E : R[x] \in 1 .. n
  <2>1. \A x \in E : R[x] # 0
    BY <1>1, <1>2
  <2> QED
    BY <1>1, <2>1
<1>4. \A q \in 1 .. n : \E x \in E : R[x] = q
  <2> TAKE q \in 1 .. n
  <2>1. q \in 0 .. n /\ q # 0
    BY <1>1
  <2>2. PICK x \in Nodes(z) : R[x] = q
    BY <1>1, <2>1
  <2> QED
    BY <1>1, <2>1, <2>2
<1>5. \A q \in 1 .. n : g[q] \in E /\ R[g[q]] = q
  BY <1>4
<1>6. g \in [1 .. n -> E]
  BY <1>5
<1> HIDE DEF g
<1>7. \A x \in E : g[R[x]] = x
  BY <1>1, <1>3, <1>5
<1>8. ByRank(z, R, g)
  BY <1>3, <1>5, <1>6, <1>7 DEF ByRank, E, n
<1> QED
  BY <1>8

(* The node of a rank, and the one whose link on the lowest level it is. *)
At(z, g, q) == IF q \in 1 .. z.length THEN g[q] ELSE Z!Nil

(* The links of the lowest level go through the ranks. *)
LEMMA NextAt ==
  ASSUME NEW z, NEW R, NEW H, SkipListOf(z, R, H), NEW g, ByRank(z, R, g)
  PROVE  /\ z.node[Z!Header].forward[1] = At(z, g, 1)
         /\ \A q \in 1 .. z.length : z.node[g[q]].forward[1] = At(z, g, q + 1)
<1> DEFINE E == Z!Elements(z)
           n == z.length
<1>1. /\ n \in Nat /\ Nodes(z) = E \cup {Z!Header} /\ R[Z!Header] = 0
      /\ \A x \in Nodes(z) : R[x] \in 0 .. n /\ H[x] \in 1 .. MaxLevel
  BY RankedFacts
<1>2. ASSUME NEW x \in Nodes(z)
      PROVE  z.node[x].forward[1] = At(z, g, R[x] + 1)
  <2> DEFINE y == z.node[x].forward[1]
             r == R[x]
  <2>1. r \in 0 .. n /\ MaxLevel \in Nat
    BY <1>1, ConstantsAssumption
  <2>2. IsLast(z, R, H, 1, r, x)
    BY <1>1, <2>1 DEF IsLast
  <2> HIDE DEF r
  <2>3. \/ y = Z!Nil /\ r = n
        \/ y \in E /\ R[y] = r + 1 /\ r < n
    BY <2>1, <2>2, NextByRank
  <2> HIDE DEF y
  <2>4. CASE y = Z!Nil /\ r = n
    <3>1. r + 1 \notin 1 .. n
      BY <1>1, <2>4
    <3> QED
      BY <2>4, <3>1 DEF At, y, r, n
  <2>5. CASE y \in E /\ R[y] = r + 1 /\ r < n
    <3>1. r + 1 \in 1 .. n /\ g[r + 1] = y
      BY <2>1, <2>5 DEF ByRank, E, n
    <3> QED
      BY <3>1 DEF At, y, r, n
  <2> QED
    BY <2>3, <2>4, <2>5
<1>3. \A q \in 1 .. n : g[q] \in Nodes(z) /\ R[g[q]] = q
  BY <1>1 DEF ByRank
<1> HIDE DEF E, n
<1>4. z.node[Z!Header].forward[1] = At(z, g, 1)
  <2>1. Z!Header \in Nodes(z) /\ R[Z!Header] + 1 = 1
    BY <1>1
  <2> QED
    BY <1>2, <2>1
<1>5. \A q \in 1 .. n : z.node[g[q]].forward[1] = At(z, g, q + 1)
  BY <1>2, <1>3
<1> QED
  BY <1>4, <1>5 DEF n

(* Going on from a node meets the following ones in the order of their     *)
(* ranks, no more than asked for and none behind the rank r.               *)
Room(j, n, r) == IF j > r THEN 0 ELSE IF n <= r + 1 - j THEN n ELSE r + 1 - j

(* What is met from the rank j on. *)
LEMMA FollowingIs ==
  ASSUME NEW z, NEW R, NEW H, SkipListOf(z, R, H), NEW g, ByRank(z, R, g),
         NEW j \in Nat \ {0}, NEW r \in 0 .. z.length, NEW n \in Nat
  PROVE  Z!Following(z, At(z, g, j), n, UpToRank(z, R, r)) = [q \in 1 .. Room(j, n, r) |-> g[j + q - 1]]
<1> DEFINE P == UpToRank(z, R, r)
           c(m) == Room(j, m, r)
           a == [m \in 0 .. n |-> [met |-> [q \in 1 .. c(m) |-> g[j + q - 1]], at |-> At(z, g, j + c(m))]]
           step(p) == IF p.at \notin P THEN p
                      ELSE [met |-> Append(p.met, p.at), at |-> z.node[p.at].forward[1]]
           Is(f) == f = [m \in 0 .. n |->
                           IF m = 0 THEN [met |-> << >>, at |-> At(z, g, j)]
                           ELSE step(f[m - 1])]
           from == CHOOSE f : Is(f)
           E == Z!Elements(z)
<1>1. z.length \in Nat
  BY RankedFacts
<1>2. \A m \in 0 .. n : c(m) \in Nat
  BY <1>1 DEF Room
<1>3. a[0] = [met |-> << >>, at |-> At(z, g, j)]
  <2>1. c(0) = 0
    BY <1>1 DEF Room
  <2> HIDE DEF c
  <2>2. [q \in 1 .. 0 |-> g[j + q - 1]] = << >>
    OBVIOUS
  <2> QED
    BY <2>1, <2>2
<1>4. ASSUME NEW m \in 1 .. n
      PROVE  a[m] = step(a[m - 1])
  <2> DEFINE k == j + c(m - 1)
             p == a[m - 1]
  <2>1. m - 1 \in 0 .. n /\ k \in Nat \ {0}
    BY <1>2
  <2>2. p = [met |-> [q \in 1 .. c(m - 1) |-> g[j + q - 1]], at |-> At(z, g, k)]
    BY <2>1
  <2>3. At(z, g, k) \in P <=> k <= r
    <3> HIDE DEF k
    <3>1. CASE k \in 1 .. z.length
      <4>1. At(z, g, k) = g[k] /\ g[k] \in E /\ R[g[k]] = k
        BY <3>1 DEF At, ByRank
      <4> QED
        BY <4>1 DEF UpToRank
    <3>2. CASE k \notin 1 .. z.length
      <4>1. At(z, g, k) = Z!Nil /\ ~(k <= r)
        BY <1>1, <2>1, <3>2 DEF At
      <4>2. Z!Nil \notin E
        BY RankedFacts DEF Z!Nil
      <4> QED
        BY <4>1, <4>2 DEF UpToRank
    <3> QED
      BY <3>1, <3>2
  <2> HIDE DEF P, a
  <2>4. CASE k <= r
    <3>1. c(m) = c(m - 1) + 1 /\ k \in 1 .. z.length
      BY <1>1, <2>1, <2>4 DEF Room
    <3>2. At(z, g, k) = g[k] /\ z.node[g[k]].forward[1] = At(z, g, k + 1)
      BY <3>1, NextAt DEF At
    <3>3. step(p) = [met |-> Append(p.met, g[k]), at |-> At(z, g, k + 1)]
      <4>1. p.at = g[k] /\ p.at \in P
        BY <2>2, <2>3, <2>4, <3>2
      <4> HIDE DEF p, k
      <4>2. step(p) = [met |-> Append(p.met, p.at), at |-> z.node[p.at].forward[1]]
        BY <4>1
      <4>3. z.node[p.at].forward[1] = At(z, g, k + 1)
        BY <3>2, <4>1
      <4> HIDE DEF step
      <4> QED
        BY <4>1, <4>2, <4>3
    <3>4. p.met = [q \in 1 .. c(m - 1) |-> g[j + q - 1]]
      BY <2>2
    <3>5. Append(p.met, g[k]) = [q \in 1 .. c(m) |-> g[j + q - 1]]
      <4> DEFINE t == c(m - 1)
                 h(q) == g[j + q - 1]
      <4>1. t \in Nat /\ c(m) = t + 1 /\ g[k] = h(t + 1)
        BY <1>2, <2>1, <3>1
      <4> HIDE DEF t, h
      <4>2. Append([q \in 1 .. t |-> h(q)], h(t + 1)) = [q \in 1 .. t + 1 |-> h(q)]
        BY <4>1
      <4> HIDE DEF c
      <4> QED
        BY <3>4, <4>1, <4>2 DEF t, h
    <3>6. j + c(m) = k + 1
      BY <1>2, <2>1, <3>1
    <3>7. a[m] = [met |-> [q \in 1 .. c(m) |-> g[j + q - 1]], at |-> At(z, g, j + c(m))]
      BY DEF a
    <3> HIDE DEF step, c, k, p
    <3> QED
      BY <3>3, <3>5, <3>6, <3>7 DEF p
  <2>5. CASE ~(k <= r)
    <3>1. c(m) = c(m - 1)
      BY <1>1, <2>1, <2>5 DEF Room
    <3>2. step(p) = p
      BY <2>2, <2>3, <2>5
    <3>3. a[m] = [met |-> [q \in 1 .. c(m) |-> g[j + q - 1]], at |-> At(z, g, j + c(m))]
      BY DEF a
    <3> HIDE DEF step, c
    <3> QED
      BY <2>2, <3>1, <3>2, <3>3
  <2> QED
    BY <2>4, <2>5
<1> HIDE DEF step
<1>5. Is(a)
  <2>1. a = [m \in 0 .. n |-> a[m]]
    OBVIOUS
  <2> HIDE DEF a
  <2>2. \A m \in 0 .. n : m # 0 => m \in 1 .. n
    OBVIOUS
  <2>3. \A m \in 0 .. n : a[m] = IF m = 0 THEN [met |-> << >>, at |-> At(z, g, j)]
                                 ELSE step(a[m - 1])
    BY <1>3, <1>4, <2>2
  <2> QED
    BY <2>1, <2>3
<1>6. Is(from)
  <2> HIDE DEF Is
  <2> QED
    BY <1>5
<1>7. Z!Following(z, At(z, g, j), n, P) = from[n].met
  <2> HIDE DEF P
  <2> QED
    BY DEF Z!Following, step
<1> HIDE DEF from, a
<1>8. 0 .. n \subseteq {m \in 0 .. n : from[m] = a[m]}
  <2> DEFINE Done == {m \in 0 .. n : from[m] = a[m]}
  <2>1. 0 \in Done
    <3>1. from[0] = [met |-> << >>, at |-> At(z, g, j)]
      BY <1>6
    <3> QED
      BY <1>3, <3>1
  <2>2. ASSUME NEW m \in 0 .. n - 1, m \in Done
        PROVE  m + 1 \in Done
    <3>1. m + 1 \in 0 .. n /\ m + 1 # 0 /\ m + 1 \in 1 .. n /\ (m + 1) - 1 = m
      OBVIOUS
    <3>2. from[m + 1] = step(from[m])
      BY <1>6, <3>1
    <3>3. a[m + 1] = step(a[m])
      BY <1>4, <3>1
    <3> QED
      BY <2>2, <3>1, <3>2, <3>3
  <2> HIDE DEF Done
  <2>3. 0 .. n \subseteq Done
    BY <2>1, <2>2, CountingUp
  <2> QED
    BY <2>3 DEF Done
<1>9. n \in 0 .. n
  OBVIOUS
<1>10. from[n].met = [q \in 1 .. c(n) |-> g[j + q - 1]]
  <2>1. from[n] = a[n]
    BY <1>8, <1>9
  <2>2. a[n].met = [q \in 1 .. c(n) |-> g[j + q - 1]]
    <3> HIDE DEF c
    <3> QED
      BY <1>9 DEF a
  <2> QED
    BY <2>1, <2>2
<1> QED
  BY <1>7, <1>10

-----------------------------------------------------------------------------
(* What a snapshot says of a sorted set: its members in their order. *)
Entry(z) == LET s == Z!Following(z, z.node[Z!Header].forward[1], Z!Cardinality(Z!Elements(z)),
                                 Z!Elements(z))
            IN  [size |-> z.length, nodes |-> [i \in DOMAIN s |-> <<s[i], z.node[s[i]].score>>]]

(* The entry holds all the members, by rank. *)
LEMMA EntryIs ==
  ASSUME NEW z, NEW R, NEW H, SkipListOf(z, R, H), NEW g, ByRank(z, R, g)
  PROVE  Entry(z) = [size |-> z.length, nodes |-> [i \in 1 .. z.length |-> <<g[i], z.node[g[i]].score>>]]
<1> DEFINE E == Z!Elements(z)
           n == z.length
           s == Z!Following(z, z.node[Z!Header].forward[1], Z!Cardinality(E), E)
<1>1. n \in Nat
  BY RankedFacts
<1>2. Z!Cardinality(E) = n
  <2>1. Z!Cardinality(E) = Cardinality(E)
    BY DEF Z!Cardinality, Cardinality
  <2> QED
    BY <2>1, ElementsCounted
<1>3. UpToRank(z, R, n) = E
  <2>1. \A x \in E : R[x] \in 1 .. n
    BY DEF ByRank
  <2> HIDE DEF n, E
  <2>2. \A x \in E : R[x] <= n
    BY <1>1, <2>1
  <2> QED
    BY <2>2 DEF UpToRank, E
<1>4. z.node[Z!Header].forward[1] = At(z, g, 1)
  BY NextAt
<1>5. Room(1, n, n) = n
  BY <1>1 DEF Room
<1>6. s = [q \in 1 .. n |-> g[q]]
  <2>1. 1 \in Nat \ {0} /\ n \in 0 .. n
    BY <1>1
  <2>2. Z!Following(z, At(z, g, 1), n, UpToRank(z, R, n)) = [q \in 1 .. Room(1, n, n) |-> g[1 + q - 1]]
    <3> HIDE DEF n
    <3>1. n \in 0 .. z.length
      BY <2>1 DEF n
    <3> QED
      BY <1>1, <2>1, <3>1, FollowingIs
  <2> HIDE DEF n, E
  <2>3. \A q \in 1 .. n : 1 + q - 1 = q
    BY <1>1
  <2>4. [q \in 1 .. n |-> g[1 + q - 1]] = [q \in 1 .. n |-> g[q]]
    BY <2>3
  <2> QED
    BY <1>2, <1>3, <1>4, <1>5, <2>2, <2>4
<1> HIDE DEF s
<1>7. DOMAIN s = 1 .. n /\ \A q \in 1 .. n : s[q] = g[q]
  BY <1>6
<1>8. Entry(z) = [size |-> n, nodes |-> [i \in DOMAIN s |-> <<s[i], z.node[s[i]].score>>]]
  BY DEF Entry, s
<1>9. [i \in DOMAIN s |-> <<s[i], z.node[s[i]].score>>] = [i \in 1 .. n |-> <<g[i], z.node[g[i]].score>>]
  BY <1>7
<1> QED
  BY <1>8, <1>9

(* Reading it inserts them one after the other, on levels of their own. *)
LEMMA ReadSetIs ==
  ASSUME NEW v \in SortedSets, NEW level \in [Member -> 1 .. MaxLevel]
  PROVE  /\ Z!ReadSet(Entry(v.zsl), level) \in SortedSets
         /\ Z!ReadSet(Entry(v.zsl), level).dict = v.dict
<1> DEFINE z == v.zsl
           D == DOMAIN v.dict
           n == z.length
           e == Entry(z)
           Put(w, i) == [dict |-> Z!WithScore(w.dict, e.nodes[i][1], e.nodes[i][2]),
                         zsl  |-> Z!InsertNode(w.zsl, level[e.nodes[i][1]], e.nodes[i][2], e.nodes[i][1])]
<1>1. z \in SkipLists /\ v.dict = Scores(z) /\ D = Z!Elements(z) /\ D \subseteq Member
  BY SortedSetFacts
<1>2. PICK R, H : SkipListOf(z, R, H)
  BY <1>1, OutOfSkipLists DEF IsSkipList
<1>3. PICK g : ByRank(z, R, g)
  BY <1>2, ElementsByRank
<1>4. n \in Nat
  BY <1>2, RankedFacts
<1>5. /\ \A i \in 1 .. n : g[i] \in D
      /\ \A i, j \in 1 .. n : g[i] = g[j] => i = j
      /\ \A x \in D : \E i \in 1 .. n : g[i] = x
  BY <1>1, <1>3 DEF ByRank
<1>6. \A x \in D : z.node[x].score = v.dict[x] /\ v.dict[x] \in Score
  BY <1>1, SortedSetFacts DEF Scores
<1>7. e.size = n /\ \A i \in 1 .. n : e.nodes[i][1] = g[i] /\ e.nodes[i][2] = v.dict[g[i]]
  <2>1. e = [size |-> n, nodes |-> [i \in 1 .. n |-> <<g[i], z.node[g[i]].score>>]]
    BY <1>2, <1>3, EntryIs
  <2> HIDE DEF e, n, z, D
  <2>2. \A i \in 1 .. n : e.nodes[i] = <<g[i], z.node[g[i]].score>>
    BY <2>1
  <2> QED
    BY <1>5, <1>6, <2>1, <2>2
<1> HIDE DEF e, n, z, D
<1> DEFINE Has(w, i) == /\ DOMAIN w.dict = {g[j] : j \in 1 .. i}
                        /\ \A x \in DOMAIN w.dict : w.dict[x] = v.dict[x]
           F == [p \in SortedSets \X (1 .. n) |->
                    IF Has(p[1], p[2] - 1) THEN Put(p[1], p[2]) ELSE p[1]]
           Q(c) == c = [i \in 0 .. n |-> IF i = 0 THEN Z!EmptySet ELSE Put(c[i - 1], i)]
           c == CHOOSE c : Q(c)
<1>8. Z!EmptySet \in SortedSets /\ Has(Z!EmptySet, 0)
  <2>1. DOMAIN Z!EmptyDict = {}
    BY DEF Z!EmptyDict
  <2>2. {g[j] : j \in 1 .. 0} = {}
    OBVIOUS
  <2> QED
    BY <2>1, <2>2, EmptySetIs
<1>9. ASSUME NEW w \in SortedSets, NEW i \in 1 .. n, Has(w, i - 1)
      PROVE  Put(w, i) \in SortedSets /\ Has(Put(w, i), i)
  <2>1. g[i] \notin DOMAIN w.dict
    <3>1. \A j \in 1 .. i - 1 : j \in 1 .. n /\ j # i
      BY <1>4
    <3>2. \A j \in 1 .. i - 1 : g[j] # g[i]
      BY <1>5, <3>1
    <3> QED
      BY <1>9, <3>2
  <2>2. g[i] \in Member /\ v.dict[g[i]] \in Score /\ level[g[i]] \in 1 .. MaxLevel
    BY <1>1, <1>5, <1>6
  <2> DEFINE d2 == Z!WithScore(w.dict, g[i], v.dict[g[i]])
             z2 == Z!InsertNode(w.zsl, level[g[i]], v.dict[g[i]], g[i])
  <2>3. Put(w, i) = [dict |-> d2, zsl |-> z2]
    BY <1>7
  <2>4. [dict |-> d2, zsl |-> z2] \in SortedSets
    <3> DEFINE rest == IF g[i] \in DOMAIN w.dict THEN Z!DeleteElement(w.zsl, w.dict[g[i]], g[i])
                       ELSE w.zsl
    <3>1. rest = w.zsl
      BY <2>1
    <3>2. [dict |-> d2, zsl |-> Z!InsertNode(rest, level[g[i]], v.dict[g[i]], g[i])] \in SortedSets
      BY <2>2, Placed
    <3> HIDE DEF rest
    <3> QED
      BY <3>1, <3>2
  <2>5. DOMAIN d2 = {g[j] : j \in 1 .. i}
    <3>1. 1 .. i = (1 .. i - 1) \cup {i}
      BY <1>4
    <3>2. {g[j] : j \in 1 .. i} = {g[j] : j \in 1 .. i - 1} \cup {g[i]}
      BY <3>1
    <3> QED
      BY <1>9, <3>2 DEF Z!WithScore
  <2>6. \A x \in DOMAIN d2 : d2[x] = v.dict[x]
    BY <1>9 DEF Z!WithScore
  <2> HIDE DEF d2, z2
  <2> QED
    BY <2>3, <2>4, <2>5, <2>6
<1> HIDE DEF Has, Put
<1>10. PICK a \in [0 .. n -> SortedSets] : IsLoop(a, n, Z!EmptySet, F)
  <2>1. F \in [SortedSets \X (1 .. n) -> SortedSets]
    BY <1>9
  <2> HIDE DEF F
  <2> QED
    BY <1>4, <1>8, <2>1, LoopExists
<1>11. a[0] = Z!EmptySet /\ \A i \in 1 .. n : a[i] = F[<<a[i - 1], i>>] /\ a[i - 1] \in SortedSets
  <2> HIDE DEF F
  <2>1. \A i \in 0 .. n : a[i] = IF i = 0 THEN Z!EmptySet ELSE F[<<a[i - 1], i>>]
    BY <1>10 DEF IsLoop
  <2>2. 0 \in 0 .. n /\ \A i \in 1 .. n : i \in 0 .. n /\ i # 0 /\ i - 1 \in 0 .. n
    BY <1>4
  <2> QED
    BY <1>10, <2>1, <2>2
<1>12. \A i \in 0 .. n : Has(a[i], i)
  <2> DEFINE Done == {i \in 0 .. n : Has(a[i], i)}
  <2>1. 0 \in Done
    BY <1>4, <1>8, <1>11
  <2>2. ASSUME NEW i \in 0 .. n - 1, i \in Done
        PROVE  i + 1 \in Done
    <3>1. i + 1 \in 0 .. n /\ i + 1 \in 1 .. n /\ (i + 1) - 1 = i
      BY <1>4
    <3>2. a[i + 1] = F[<<a[i], i + 1>>] /\ a[i] \in SortedSets
      BY <1>11, <3>1
    <3>3. Has(a[i], (i + 1) - 1)
      BY <2>2, <3>1
    <3>4. a[i + 1] = Put(a[i], i + 1)
      BY <3>1, <3>2, <3>3
    <3> HIDE DEF F
    <3>5. Has(a[i + 1], i + 1)
      BY <1>9, <3>1, <3>2, <3>3, <3>4
    <3> QED
      BY <3>1, <3>5
  <2> HIDE DEF Done
  <2>3. 0 .. n \subseteq Done
    BY <1>4, <2>1, <2>2, CountingUp
  <2> QED
    BY <2>3 DEF Done
<1>13. Q(a)
  <2>1. \A i \in 1 .. n : a[i] = Put(a[i - 1], i)
    <3>1. \A i \in 1 .. n : i - 1 \in 0 .. n
      BY <1>4
    <3> QED
      BY <1>11, <1>12, <3>1
  <2>2. \A i \in 0 .. n : i # 0 => i \in 1 .. n
    BY <1>4
  <2> HIDE DEF F
  <2>3. \A i \in 0 .. n : a[i] = IF i = 0 THEN Z!EmptySet ELSE Put(a[i - 1], i)
    BY <1>11, <2>1, <2>2
  <2>4. a = [i \in 0 .. n |-> a[i]]
    BY <1>10
  <2> QED
    BY <2>3, <2>4
<1>14. Q(c)
  <2> HIDE DEF Q
  <2> QED
    BY <1>13
<1>15. Z!ReadSet(e, level) = c[n]
  BY <1>7 DEF Z!ReadSet, Put
<1> HIDE DEF c, F
<1>16. c[0] = Z!EmptySet /\ \A i \in 1 .. n : c[i] = Put(c[i - 1], i)
  <2>1. 0 \in 0 .. n /\ \A i \in 1 .. n : i \in 0 .. n /\ i # 0
    BY <1>4
  <2> QED
    BY <1>14, <2>1
<1> HIDE DEF Q
<1>17. c[n] \in SortedSets /\ Has(c[n], n)
  <2> DEFINE Done == {i \in 0 .. n : c[i] \in SortedSets /\ Has(c[i], i)}
  <2>1. 0 \in Done
    BY <1>4, <1>8, <1>16
  <2>2. ASSUME NEW i \in 0 .. n - 1, i \in Done
        PROVE  i + 1 \in Done
    <3>1. i + 1 \in 0 .. n /\ i + 1 \in 1 .. n /\ (i + 1) - 1 = i
      BY <1>4
    <3>2. c[i + 1] = Put(c[i], i + 1)
      BY <1>16, <3>1
    <3>3. c[i] \in SortedSets /\ Has(c[i], (i + 1) - 1)
      BY <2>2, <3>1
    <3>4. c[i + 1] \in SortedSets /\ Has(c[i + 1], i + 1)
      BY <1>9, <3>1, <3>2, <3>3
    <3> QED
      BY <3>1, <3>4
  <2> HIDE DEF Done
  <2>3. 0 .. n \subseteq Done
    BY <1>4, <2>1, <2>2, CountingUp
  <2>4. n \in 0 .. n
    BY <1>4
  <2> QED
    BY <2>3, <2>4 DEF Done
<1>18. c[n].dict = v.dict
  <2>1. DOMAIN c[n].dict = D /\ \A x \in D : c[n].dict[x] = v.dict[x]
    BY <1>5, <1>17 DEF Has
  <2>2. c[n].dict = [x \in DOMAIN c[n].dict |-> c[n].dict[x]] /\ v.dict = [x \in D |-> v.dict[x]]
    <3>1. \A w \in SortedSets : w.dict = [x \in DOMAIN w.dict |-> w.dict[x]]
      BY SortedSetFacts DEF Scores
    <3> QED
      BY <1>17, <3>1 DEF D
  <2> QED
    BY <2>1, <2>2
<1> QED
  BY <1>15, <1>17, <1>18 DEF e, z

-----------------------------------------------------------------------------
(* The sorted sets of an instance, none of them empty, and their scores,   *)
(* which are what the replay of the log gives, until a score is NaN.       *)
SortedSetOrAbsent == {v \in SortedSets : v.dict # Z!EmptyDict} \cup {Absent}
HeldIn(d, k) == IF d[k] = Absent THEN Z!EmptySet ELSE d[k]
SortedSetState ==
    /\ data \in [ZKey -> SortedSetOrAbsent]
    /\ disk = [k \in ZKey |-> HeldIn(data, k).dict]
SortedSetInvariant == kind = "zset" => misled \in BOOLEAN /\ (misled \/ SortedSetState)

(* A key that is not there has no sorted set. *)
LEMMA NoSortedSet == Absent \notin SortedSets
<1> SUFFICES ASSUME NEW v \in SortedSets
             PROVE  v # Absent
  OBVIOUS
<1>1. v = [dict |-> v.dict, zsl |-> v.zsl] /\ v.zsl \in SkipLists /\ v.dict = Scores(v.zsl)
  BY SortedSetFacts
<1>2. PICK M \in SUBSET Member : v.zsl \in SkipListsOf(M)
  BY <1>1 DEF SkipLists
<1>3. 0 \notin Member /\ DOMAIN v.zsl.node = M \cup {0}
  BY <1>2, ConstantsAssumption DEF SkipListsOf
<1>4. Z!Elements(v.zsl) = M
  BY <1>3 DEF Z!Elements, Z!Header
<1>5. v.dict \in [M -> Int]
  BY <1>1, <1>4, OutOfSkipLists DEF Scores
<1>6. v \in [dict : [M -> Int], zsl : SkipListsOf(M)]
  BY <1>1, <1>2, <1>5
<1> QED
  BY <1>6, ConstantsAssumption

(* What a key holds, and what the replay gives for it. *)
LEMMA HeldType ==
  ASSUME SortedSetState, NEW k \in ZKey
  PROVE  /\ HeldIn(data, k) \in SortedSets /\ disk[k] = HeldIn(data, k).dict
         /\ Z!ValueAt(k) = HeldIn(data, k)
         /\ data[k] # Absent => data[k] \in SortedSets /\ HeldIn(data, k) = data[k]
<1>1. data[k] \in SortedSets \/ data[k] = Absent
  BY DEF SortedSetState, SortedSetOrAbsent
<1>2. Z!ValueAt(k) = HeldIn(data, k)
  BY DEF Z!ValueAt, HeldIn
<1>3. HeldIn(data, k) \in SortedSets
  BY <1>1, EmptySetIs DEF HeldIn
<1>4. disk[k] = HeldIn(data, k).dict
  BY DEF SortedSetState
<1> QED
  BY <1>1, <1>2, <1>3, <1>4 DEF HeldIn

(* Storing under a key what the replay of the line gives for it. *)
LEMMA StoringKeepsSortedSets ==
  ASSUME SortedSetState, NEW k \in ZKey, NEW v \in SortedSets,
         data' = Z!Stored(k, v), disk' = [disk EXCEPT ![k] = v.dict]
  PROVE  SortedSetState'
<1> DEFINE stored == IF v.dict = Z!EmptyDict THEN Absent ELSE v
<1>1. data' = [data EXCEPT ![k] = stored]
  BY DEF Z!Stored
<1>2. stored \in SortedSetOrAbsent
  BY DEF SortedSetOrAbsent
<1>3. HeldIn(data', k).dict = v.dict
  <2>1. data'[k] = stored
    BY <1>1 DEF SortedSetState
  <2>2. CASE v.dict = Z!EmptyDict
    BY <2>1, <2>2, EmptySetIs DEF HeldIn
  <2>3. CASE v.dict # Z!EmptyDict
    BY <2>1, <2>3, NoSortedSet DEF HeldIn
  <2> QED
    BY <2>2, <2>3
<1> HIDE DEF stored
<1>4. data' \in [ZKey -> SortedSetOrAbsent]
  BY <1>1, <1>2 DEF SortedSetState
<1>5. \A j \in ZKey : j # k => HeldIn(data', j) = HeldIn(data, j)
  BY <1>1 DEF HeldIn, SortedSetState
<1>6. disk' = [j \in ZKey |-> IF j = k THEN v.dict ELSE HeldIn(data, j).dict]
  BY DEF SortedSetState
<1>7. \A j \in ZKey : HeldIn(data', j).dict = IF j = k THEN v.dict ELSE HeldIn(data, j).dict
  BY <1>3, <1>5
<1>8. disk' = [j \in ZKey |-> HeldIn(data', j).dict]
  BY <1>6, <1>7
<1> QED
  BY <1>4, <1>8 DEF SortedSetState, HeldIn

(* ZADD, ... *)
LEMMA AddingKeepsSortedSets ==
  ASSUME SortedSetState, NEW k \in ZKey, NEW members \in Seq(Numbered), Z!ZAdd(k, members)
  PROVE  SortedSetState'
<1> DEFINE v == Z!AllAdded(HeldIn(data, k), members)
<1>1. HeldIn(data, k) \in SortedSets /\ disk[k] = HeldIn(data, k).dict /\ Z!ValueAt(k) = HeldIn(data, k)
  BY HeldType
<1>2. v \in SortedSets /\ v.dict = Z!AllScored(HeldIn(data, k).dict, members)
  BY <1>1, AllAddedIs
<1>3. data' = Z!Stored(k, v)
  BY <1>1 DEF Z!ZAdd
<1>4. disk' = [disk EXCEPT ![k] = Z!AllScored(disk[k], members)]
  BY DEF Z!ZAdd, Z!Log, Z!ProcessWalEntry
<1> HIDE DEF v
<1> QED
  BY <1>1, <1>2, <1>3, <1>4, StoringKeepsSortedSets

(* ... ZREM, ... *)
LEMMA RemovingKeepsSortedSets ==
  ASSUME SortedSetState, NEW k \in ZKey, NEW M, data[k] # Absent,
         data' = Z!Stored(k, Z!Taken(data[k], M)), disk' = [disk EXCEPT ![k] = Z!Without(disk[k], M)]
  PROVE  SortedSetState'
<1> DEFINE v == Z!Taken(data[k], M)
<1>1. data[k] \in SortedSets /\ disk[k] = data[k].dict
  BY HeldType
<1>2. v \in SortedSets /\ v.dict = Z!Without(data[k].dict, M)
  BY <1>1, TakenIs
<1> HIDE DEF v
<1> QED
  BY <1>1, <1>2, StoringKeepsSortedSets DEF v

(* ZREM removes from a key that is there. *)
LEMMA RemKeepsSortedSets ==
  ASSUME SortedSetState, NEW k \in ZKey, NEW M \in SUBSET Member, Z!ZRem(k, M)
  PROVE  SortedSetState'
<1>1. data[k] # Absent
  <2>1. DOMAIN Z!EmptySet.dict = {}
    BY EmptySetIs DEF Z!EmptyDict
  <2> QED
    BY <2>1 DEF Z!ZRem, Z!ValueAt
<1>2. data' = Z!Stored(k, Z!Taken(data[k], M))
  BY DEF Z!ZRem
<1>3. disk' = [disk EXCEPT ![k] = Z!Without(disk[k], M)]
  BY DEF Z!ZRem, Z!Log, Z!ProcessWalEntry
<1> QED
  BY <1>1, <1>2, <1>3, RemovingKeepsSortedSets

(* ... ZPOPMIN and ZPOPMAX, ... *)
LEMMA PopKeepsSortedSets ==
  ASSUME SortedSetState, NEW k \in ZKey, NEW count, NEW op \in {"ZPOPMAX", "ZPOPMIN"},
         Z!ZPop(k, count, op)
  PROVE  SortedSetState'
<1> DEFINE z == data[k].zsl
           popped == IF op = "ZPOPMAX" THEN Z!Preceding(z, z.tail, count, Z!Elements(z))
                     ELSE Z!Following(z, z.node[Z!Header].forward[1], count, Z!Elements(z))
           M == Z!ToSet(popped)
<1>1. data[k] # Absent /\ data' = Z!Stored(k, Z!Taken(data[k], M))
  BY DEF Z!ZPop
<1>2. Z!Log([op |-> op, key |-> k, members |-> M])
  BY DEF Z!ZPop
<1> HIDE DEF M
<1>3. disk' = [disk EXCEPT ![k] = Z!Without(disk[k], M)]
  BY <1>2 DEF Z!Log, Z!ProcessWalEntry
<1> QED
  BY <1>1, <1>3, RemovingKeepsSortedSets

(* ... ZINCRBY, ... *)
LEMMA IncrKeepsSortedSets ==
  ASSUME SortedSetState, NEW k \in ZKey, NEW increment \in Score \cup {NaN}, NEW m \in Member,
         NEW level \in 1 .. MaxLevel, Z!ZIncrBy(k, increment, m, level), ~misled'
  PROVE  SortedSetState'
<1> DEFINE h == HeldIn(data, k)
           new == IF m \in DOMAIN h.dict THEN Z!Plus(h.dict[m], increment) ELSE increment
           rest == IF m \in DOMAIN h.dict THEN Z!DeleteElement(h.zsl, h.dict[m], m) ELSE h.zsl
           v == [dict |-> Z!WithScore(h.dict, m, new), zsl |-> Z!InsertNode(rest, level, new, m)]
<1>1. h \in SortedSets /\ disk[k] = h.dict /\ Z!ValueAt(k) = h
  BY HeldType
<1> HIDE DEF h
<1>2. new # NaN /\ data' = Z!Stored(k, v)
  BY <1>1 DEF Z!ZIncrBy
<1>3. disk' = [disk EXCEPT ![k] = Z!WithScore(disk[k], m,
                                      IF m \in DOMAIN disk[k] THEN Z!Plus(disk[k][m], increment)
                                      ELSE increment)]
  BY DEF Z!ZIncrBy, Z!Log, Z!ProcessWalEntry
<1>4. disk' = [disk EXCEPT ![k] = v.dict]
  BY <1>1, <1>3
<1>5. v \in SortedSets
  <2>1. new \in Score
    <3>1. CASE m \in DOMAIN h.dict
      <4>1. h.dict[m] \in Score
        BY <1>1, <3>1, SortedSetFacts
      <4>2. increment \in Score /\ new = FloatSum[<<h.dict[m], increment>>]
        BY <1>2, <3>1 DEF Z!Plus
      <4>3. FloatSum[<<h.dict[m], increment>>] \in Score \cup {NaN}
        BY <4>1, <4>2, ConstantsAssumption
      <4> QED
        BY <1>2, <4>2, <4>3
    <3>2. CASE m \notin DOMAIN h.dict
      BY <1>2, <3>2
    <3> QED
      BY <3>1, <3>2
  <2> HIDE DEF new
  <2> QED
    BY <1>1, <2>1, Placed
<1> HIDE DEF v, new
<1> QED
  BY <1>2, <1>4, <1>5, StoringKeepsSortedSets

(* ... DEL, ... *)
LEMMA DeleteKeepsSortedSets ==
  ASSUME SortedSetState, NEW K \in SUBSET ZKey, Z!Delete(K)
  PROVE  SortedSetState'
<1>1. data' = [k \in ZKey |-> IF k \in K THEN Absent ELSE data[k]]
  BY DEF Z!Delete
<1>2. disk' = [k \in ZKey |-> IF k \in K THEN Z!EmptyDict ELSE disk[k]]
  BY DEF Z!Delete, Z!Log, Z!ProcessWalEntry
<1>3. data' \in [ZKey -> SortedSetOrAbsent]
  BY <1>1 DEF SortedSetState, SortedSetOrAbsent
<1>4. \A k \in ZKey : HeldIn(data', k).dict = IF k \in K THEN Z!EmptyDict ELSE disk[k]
  <2> TAKE k \in ZKey
  <2>1. CASE k \in K
    BY <1>1, <2>1, EmptySetIs DEF HeldIn
  <2>2. CASE k \notin K
    <3>1. HeldIn(data', k) = HeldIn(data, k)
      BY <1>1, <2>2 DEF HeldIn
    <3> QED
      BY <2>2, <3>1, HeldType
  <2> QED
    BY <2>1, <2>2
<1>5. disk' = [k \in ZKey |-> HeldIn(data', k).dict]
  BY <1>2, <1>4
<1> QED
  BY <1>3, <1>5 DEF SortedSetState, HeldIn

(* ... and a restart from a snapshot. *)
LEMMA RestartKeepsSortedSets ==
  ASSUME SortedSetState, NEW level \in [ZKey -> [Member -> 1 .. MaxLevel]], Z!Restart(level)
  PROVE  SortedSetState'
<1> DEFINE there == {j \in ZKey : data[j] # Absent}
           snapshot == Z!SerializeState(data)
<1>1. snapshot = [j \in there |-> Entry(data[j].zsl)]
  BY DEF Z!SerializeState, Entry
<1>2. data' = [k \in ZKey |-> IF k \in DOMAIN snapshot THEN Z!ReadSet(snapshot[k], level[k]) ELSE Absent]
  BY DEF Z!Restart, Z!DeserializeState
<1> HIDE DEF snapshot
<1>3. ASSUME NEW k \in ZKey
      PROVE  data'[k] \in SortedSetOrAbsent /\ HeldIn(data', k).dict = disk[k]
  <2>1. CASE data[k] # Absent
    <3>1. data[k] \in SortedSets /\ disk[k] = data[k].dict /\ data[k].dict # Z!EmptyDict
      BY <2>1, HeldType DEF SortedSetState, SortedSetOrAbsent
    <3>2. data'[k] = Z!ReadSet(Entry(data[k].zsl), level[k])
      BY <1>1, <1>2, <2>1
    <3>3. level[k] \in [Member -> 1 .. MaxLevel]
      OBVIOUS
    <3>4. data'[k] \in SortedSets /\ data'[k].dict = data[k].dict
      BY <3>1, <3>2, <3>3, ReadSetIs
    <3>5. data'[k] # Absent
      BY <3>4, NoSortedSet
    <3> QED
      BY <3>1, <3>4, <3>5 DEF SortedSetOrAbsent, HeldIn
  <2>2. CASE data[k] = Absent
    <3>1. data'[k] = Absent
      BY <1>1, <1>2, <2>2
    <3>2. disk[k] = Z!EmptySet.dict
      BY <2>2 DEF SortedSetState, HeldIn
    <3> QED
      BY <3>1, <3>2 DEF SortedSetOrAbsent, HeldIn
  <2> QED
    BY <2>1, <2>2
<1>4. data' \in [ZKey -> SortedSetOrAbsent]
  BY <1>2, <1>3
<1>5. disk' = [k \in ZKey |-> disk[k]]
  BY DEF Z!Restart, SortedSetState
<1>6. disk' = [k \in ZKey |-> HeldIn(data', k).dict]
  BY <1>3, <1>5
<1> QED
  BY <1>4, <1>6 DEF SortedSetState, HeldIn

(* Every step of an instance of sorted sets keeps them, unless it stores   *)
(* a NaN.                                                                  *)
LEMMA SortedSetStep ==
  ASSUME SortedSetState, Z!Next, ~misled'
  PROVE  SortedSetState'
<1>1. CASE \E k \in ZKey, members \in Z!Batch : Z!ZAdd(k, members)
  <2>1. PICK k \in ZKey, members \in Z!BoundedSeq(Z!Scored, MaxBatch) : Z!ZAdd(k, members)
    BY <1>1 DEF Z!Batch
  <2>2. Z!BoundedSeq(Z!Scored, MaxBatch) = UNION {[1 .. n -> Z!Scored] : n \in 0 .. MaxBatch}
    BY DEF Z!BoundedSeq, Z!SeqOf
  <2>3. PICK n \in 0 .. MaxBatch : members \in [1 .. n -> Z!Scored]
    BY <2>1, <2>2
  <2>4. \A i \in 1 .. n : members[i].score # NaN
    BY <2>1, <2>3 DEF Z!ZAdd
  <2>5. \A x \in Z!Scored : x.score # NaN => x \in Numbered
    BY DEF Z!Scored, Numbered
  <2>6. members \in [1 .. n -> Numbered]
    BY <2>3, <2>4, <2>5
  <2>7. members \in Seq(Numbered)
    BY <2>6
  <2> QED
    BY <2>1, <2>7, AddingKeepsSortedSets
<1>2. CASE \E k \in ZKey, M \in SUBSET Member : Z!ZRem(k, M)
  BY <1>2, RemKeepsSortedSets
<1>3. CASE \E k \in ZKey, increment \in Score \cup {NaN}, m \in Member, level \in 1 .. MaxLevel :
             Z!ZIncrBy(k, increment, m, level)
  BY <1>3, IncrKeepsSortedSets
<1>4. CASE \E k \in ZKey, count \in 1 .. Z!Cardinality(Member), op \in {"ZPOPMAX", "ZPOPMIN"} :
             Z!ZPop(k, count, op)
  BY <1>4, PopKeepsSortedSets
<1>5. CASE \E K \in SUBSET ZKey : Z!Delete(K)
  BY <1>5, DeleteKeepsSortedSets
<1>6. CASE \E level \in [ZKey -> [Member -> 1 .. MaxLevel]] : Z!Restart(level)
  BY <1>6, RestartKeepsSortedSets
<1> QED
  BY <1>1, <1>2, <1>3, <1>4, <1>5, <1>6 DEF Z!Next

(* A step says whether it stores a NaN. *)
LEMMA SortedSetMisled ==
  ASSUME misled \in BOOLEAN, Z!Next
  PROVE  ~misled /\ misled' \in BOOLEAN
<1>1. ~misled
  BY DEF Z!Next
<1>2. (misled' = misled) \/ (misled' \in BOOLEAN)
  BY DEF Z!Next, Z!ZAdd, Z!ZRem, Z!ZIncrBy, Z!ZPop, Z!Delete, Z!Restart
<1> QED
  BY <1>1, <1>2

(* SortedSetInvariant holds in every state. *)
THEOREM SortedSetsSafe == Spec => []SortedSetInvariant
<1>1. Init => SortedSetInvariant
  <2> SUFFICES ASSUME Z!Init
               PROVE  misled \in BOOLEAN /\ SortedSetState
    BY DEF Init, SortedSetInvariant
  <2>3. misled \in BOOLEAN
    BY DEF Z!Init
  <2>1. data = [k \in ZKey |-> Absent] /\ disk = [k \in ZKey |-> Z!EmptyDict]
    BY DEF Z!Init
  <2>2. \A k \in ZKey : HeldIn(data, k).dict = Z!EmptyDict
    BY <2>1, EmptySetIs DEF HeldIn
  <2> QED
    BY <2>1, <2>2, <2>3 DEF SortedSetState, SortedSetOrAbsent
<1>2. SortedSetInvariant /\ [Next]_vars => SortedSetInvariant'
  <2> SUFFICES ASSUME SortedSetInvariant, [Next]_vars, kind' = "zset"
               PROVE  misled' \in BOOLEAN /\ (misled' \/ SortedSetState')
    BY DEF SortedSetInvariant
  <2>1. kind = "zset" /\ misled \in BOOLEAN /\ (misled \/ SortedSetState)
    BY DEF Next, vars, SortedSetInvariant
  <2>2. CASE UNCHANGED vars
    BY <2>1, <2>2 DEF SortedSetState, HeldIn, vars
  <2>3. CASE Z!Next
    <3>1. ~misled /\ misled' \in BOOLEAN
      BY <2>1, <2>3, SortedSetMisled
    <3>2. ~misled' => SortedSetState'
      BY <2>1, <2>3, <3>1, SortedSetStep
    <3> QED
      BY <3>1, <3>2
  <2> QED
    BY <2>1, <2>2, <2>3 DEF Next
<1> QED
  BY <1>1, <1>2, PTL DEF Spec

(* The map and the skip list of a sorted set hold the same members, no key *)
(* is there with an empty one, and replaying the log of the engine         *)
(* (ProcessWalEntry) gives back the members and their scores, whatever     *)
(* levels the nodes have drawn and whatever the scores add up to, until a  *)
(* score is NaN.                                                           *)
THEOREM SortedSetsReplay == Spec => [](kind = "zset" => Z!TypeOK /\ Z!ReplayMatchesLive)
<1>1. SortedSetInvariant => (kind = "zset" => Z!TypeOK /\ Z!ReplayMatchesLive)
  <2> SUFFICES ASSUME misled \in BOOLEAN, misled \/ SortedSetState
               PROVE  Z!TypeOK /\ Z!ReplayMatchesLive
    BY DEF SortedSetInvariant
  <2>4. CASE misled
    BY <2>4 DEF Z!TypeOK, Z!ReplayMatchesLive
  <2> SUFFICES ASSUME SortedSetState
               PROVE  Z!TypeOK /\ Z!ReplayMatchesLive
    BY <2>4
  <2>1. \A k \in ZKey : data[k] # Absent =>
           /\ data[k].dict # Z!EmptyDict /\ DOMAIN data[k].dict \subseteq Member
           /\ Z!Elements(data[k].zsl) = DOMAIN data[k].dict
    <3> SUFFICES ASSUME NEW k \in ZKey, data[k] # Absent
                 PROVE  /\ data[k].dict # Z!EmptyDict /\ DOMAIN data[k].dict \subseteq Member
                        /\ Z!Elements(data[k].zsl) = DOMAIN data[k].dict
      OBVIOUS
    <3>1. data[k] \in SortedSets /\ data[k].dict # Z!EmptyDict
      BY DEF SortedSetState, SortedSetOrAbsent
    <3> QED
      BY <3>1, SortedSetFacts
  <2>2. DOMAIN data = ZKey /\ DOMAIN disk = ZKey
    BY DEF SortedSetState
  <2>3. \A k \in ZKey : disk[k] = Z!ValueAt(k).dict
    BY HeldType
  <2> QED
    BY <2>1, <2>2, <2>3 DEF Z!TypeOK, Z!ReplayMatchesLive
<1> QED
  BY <1>1, SortedSetsSafe, PTL

-----------------------------------------------------------------------------
(* The elements by their ranks are the members in the order of the         *)
(* reference, and no other sequence is.                                    *)

(* Numbers from 1 to n that increase are 1, 2, ..., n. *)
LEMMA IncreasingIs ==
  ASSUME NEW n \in Nat, NEW f \in [1 .. n -> 1 .. n],
         \A i, j \in 1 .. n : i < j => f[i] < f[j]
  PROVE  \A i \in 1 .. n : f[i] = i
<1> DEFINE Up == {i \in 0 .. n : i # 0 => f[i] >= i}
           Down == {i \in 0 .. n : i # n => f[n - i] <= n - i}
<1>1. 0 .. n \subseteq Up
  <2>1. 0 \in Up
    OBVIOUS
  <2>2. ASSUME NEW i \in 0 .. n - 1, i \in Up
        PROVE  i + 1 \in Up
    <3>1. i + 1 \in 1 .. n /\ i + 1 \in 0 .. n
      OBVIOUS
    <3>2. CASE i = 0
      BY <3>1, <3>2
    <3>3. CASE i # 0
      <4>1. i \in 1 .. n /\ f[i] >= i /\ f[i] < f[i + 1]
        BY <2>2, <3>1, <3>3
      <4> QED
        BY <3>1, <4>1
    <3> QED
      BY <3>2, <3>3
  <2> HIDE DEF Up
  <2> QED
    BY <2>1, <2>2, CountingUp
<1>2. 0 .. n \subseteq Down
  <2>1. 0 \in Down
    <3>1. n # 0 => n \in 1 .. n /\ f[n] <= n
      OBVIOUS
    <3> QED
      BY <3>1
  <2>2. ASSUME NEW i \in 0 .. n - 1, i \in Down
        PROVE  i + 1 \in Down
    <3>1. i + 1 \in 0 .. n
      OBVIOUS
    <3>2. CASE i + 1 = n
      BY <3>1, <3>2
    <3>3. CASE i + 1 # n
      <4>1. n - (i + 1) \in 1 .. n /\ n - i \in 1 .. n /\ f[n - i] <= n - i
        BY <2>2, <3>3
      <4>2. f[n - (i + 1)] < f[n - i]
        BY <4>1
      <4> QED
        BY <3>1, <4>1, <4>2
    <3> QED
      BY <3>2, <3>3
  <2> HIDE DEF Down
  <2> QED
    BY <2>1, <2>2, CountingUp
<1> TAKE i \in 1 .. n
<1>3. i \in Up /\ n - i \in Down /\ n - (n - i) = i /\ n - i # n /\ i # 0
  BY <1>1, <1>2
<1>4. f[i] >= i
  BY <1>3
<1>5. f[i] <= i
  BY <1>3
<1> QED
  BY <1>4, <1>5

(* Ranks follow scores and elements. *)
LEMMA RanksInOrder ==
  ASSUME NEW z, NEW R, NEW H, SkipListOf(z, R, H)
  PROVE  \A x, y \in Z!Elements(z) :
            (R[x] < R[y]) <=> (\/ Scores(z)[x] < Scores(z)[y]
                               \/ Scores(z)[x] = Scores(z)[y] /\ x < y)
<1> DEFINE E == Z!Elements(z)
<1>1. /\ z.length \in Nat /\ R \in [Nodes(z) -> 0 .. z.length] /\ E \subseteq Nat
      /\ Nodes(z) = E \cup {Z!Header}
  BY RankedFacts
<1>2. /\ \A x, y \in Nodes(z) : R[x] = R[y] => x = y
      /\ \A x, y \in E : R[x] < R[y] => Below(z, x, y)
  BY DEF SkipListOf, Ranked
<1>3. \A x \in E : z.node[x].score \in Int
  <2>1. \A x \in E : z.node[x] \in [score : Int, backward : Int, forward : [1 .. H[x] -> Int],
                                     span : [1 .. H[x] -> Int]]
    BY <1>1 DEF SkipListOf, Layered
  <2> QED
    BY <2>1
<1>4. \A x \in E : Scores(z)[x] = z.node[x].score
  BY DEF Scores
<1> HIDE DEF E
<1> SUFFICES ASSUME NEW x \in E, NEW y \in E
             PROVE  (R[x] < R[y]) <=> (\/ Scores(z)[x] < Scores(z)[y]
                                       \/ Scores(z)[x] = Scores(z)[y] /\ x < y)
  BY DEF E
<1>5. R[x] \in Int /\ R[y] \in Int /\ x \in Int /\ y \in Int
  BY <1>1
<1>6. Below(z, x, y) <=> (\/ Scores(z)[x] < Scores(z)[y]
                          \/ Scores(z)[x] = Scores(z)[y] /\ x < y)
  BY <1>4 DEF Below
<1>7. ~(Below(z, x, y) /\ Below(z, y, x)) /\ ~Below(z, x, x)
  BY <1>3, <1>5 DEF Below
<1>8. ASSUME Below(z, x, y)
      PROVE  R[x] < R[y]
  <2>1. x # y
    BY <1>7, <1>8
  <2>2. R[x] # R[y]
    BY <1>1, <1>2, <2>1
  <2>3. ~(R[y] < R[x])
    BY <1>2, <1>7, <1>8
  <2> QED
    BY <1>5, <2>2, <2>3
<1> QED
  BY <1>2, <1>6, <1>8

(* The sequence that the reference chooses. *)
LEMMA SortedIs ==
  ASSUME NEW z, NEW R, NEW H, SkipListOf(z, R, H), NEW g, ByRank(z, R, g)
  PROVE  Z!Sorted(Scores(z)) = g
<1> DEFINE E == Z!Elements(z)
           n == z.length
           dict == Scores(z)
           InOrder(s) == \A i, j \in DOMAIN s : i < j => \/ dict[s[i]] < dict[s[j]]
                                                         \/ dict[s[i]] = dict[s[j]] /\ s[i] < s[j]
<1>1. n \in Nat
  BY RankedFacts
<1>2. DOMAIN dict = E /\ Z!Cardinality(DOMAIN dict) = n
  <2>1. Z!Cardinality(E) = Cardinality(E)
    BY DEF Z!Cardinality, Cardinality
  <2> QED
    BY <2>1, ElementsCounted DEF Scores
<1>3. \A x, y \in E : (R[x] < R[y]) <=> (\/ dict[x] < dict[y]
                                         \/ dict[x] = dict[y] /\ x < y)
  BY RanksInOrder
<1>4. /\ g \in [1 .. n -> E] /\ \A q \in 1 .. n : R[g[q]] = q
      /\ \A x \in E : R[x] \in 1 .. n /\ g[R[x]] = x
  BY DEF ByRank
<1>5. Z!Sorted(dict) = CHOOSE s \in [1 .. n -> E] : InOrder(s)
  BY <1>2 DEF Z!Sorted
<1> HIDE DEF E, n, dict
<1>6. InOrder(g)
  <2> SUFFICES ASSUME NEW i \in 1 .. n, NEW j \in 1 .. n, i < j
               PROVE  \/ dict[g[i]] < dict[g[j]]
                      \/ dict[g[i]] = dict[g[j]] /\ g[i] < g[j]
    BY <1>4
  <2>1. g[i] \in E /\ g[j] \in E /\ R[g[i]] = i /\ R[g[j]] = j
    BY <1>4
  <2> QED
    BY <1>3, <2>1
<1>7. ASSUME NEW s \in [1 .. n -> E], InOrder(s)
      PROVE  s = g
  <2> DEFINE f == [i \in 1 .. n |-> R[s[i]]]
  <2>1. f \in [1 .. n -> 1 .. n]
    BY <1>4
  <2>2. \A i, j \in 1 .. n : i < j => f[i] < f[j]
    <3> SUFFICES ASSUME NEW i \in 1 .. n, NEW j \in 1 .. n, i < j
                 PROVE  R[s[i]] < R[s[j]]
      OBVIOUS
    <3>1. s[i] \in E /\ s[j] \in E
      OBVIOUS
    <3>2. \/ dict[s[i]] < dict[s[j]]
          \/ dict[s[i]] = dict[s[j]] /\ s[i] < s[j]
      BY <1>7
    <3> QED
      BY <1>3, <3>1, <3>2
  <2>3. \A i \in 1 .. n : f[i] = i
    <3> HIDE DEF f
    <3> QED
      BY <1>1, <2>1, <2>2, IncreasingIs
  <2>4. \A i \in 1 .. n : s[i] = g[i]
    <3> TAKE i \in 1 .. n
    <3>1. s[i] \in E /\ R[s[i]] = i
      BY <2>3
    <3> QED
      BY <1>4, <3>1
  <2>5. s = [i \in 1 .. n |-> s[i]] /\ g = [i \in 1 .. n |-> g[i]]
    BY <1>4
  <2> HIDE DEF f, InOrder
  <2> QED
    BY <2>4, <2>5
<1> HIDE DEF InOrder
<1> QED
  BY <1>4, <1>5, <1>6, <1>7 DEF dict

-----------------------------------------------------------------------------
(* What SpansAreExact says of one sorted set. *)
ExactSpans(v) ==
    LET z == v.zsl
        s == Z!Sorted(v.dict)
        pos(x) == IF x = Z!Header THEN 0 ELSE CHOOSE i \in DOMAIN s : s[i] = x
        height(x) == Len(z.node[x].forward)
        after(x, i) == {j \in DOMAIN s : j > pos(x) /\ height(s[j]) >= i}
    IN  /\ Z!Elements(z) = Z!ToSet(s) /\ z.length = Len(s) /\ z.tail = Z!Last(s)
        /\ z.level = Z!Max({height(s[j]) : j \in DOMAIN s})
        /\ \A j \in DOMAIN s : z.node[s[j]].score = v.dict[s[j]]
                               /\ z.node[s[j]].backward = IF j = 1 THEN Z!Nil ELSE s[j - 1]
        /\ \A x \in DOMAIN z.node : \A i \in 1 .. height(x) :
              IF after(x, i) = {}
              THEN z.node[x].forward[i] = Z!Nil
                   /\ (i <= z.level => z.node[x].span[i] = Len(s) - pos(x))
              ELSE z.node[x].forward[i] = s[Z!Min(after(x, i))]
                   /\ z.node[x].span[i] = Z!Min(after(x, i)) - pos(x)

(* The least of a set of numbers. *)
LEMMA LeastIs ==
  ASSUME NEW T \in SUBSET Int, NEW m \in T, \A x \in T : m <= x
  PROVE  Z!Min(T) = m
<1>1. \A x \in T : (\A y \in T : x <= y) <=> x = m
  OBVIOUS
<1>2. Z!Min(T) = CHOOSE x \in T : \A y \in T : x <= y
  BY DEF Z!Min
<1>3. (CHOOSE x \in T : \A y \in T : x <= y) = CHOOSE x \in T : x = m
  BY <1>1
<1> QED
  BY <1>2, <1>3

(* The greatest of a set of numbers. *)
LEMMA GreatestIs ==
  ASSUME NEW T \in SUBSET Int, NEW m \in T, \A x \in T : m >= x
  PROVE  Z!Max(T) = m
<1>1. \A x \in T : (\A y \in T : x >= y) <=> x = m
  OBVIOUS
<1>2. Z!Max(T) = CHOOSE x \in T : \A y \in T : x >= y
  BY DEF Z!Max
<1>3. (CHOOSE x \in T : \A y \in T : x >= y) = CHOOSE x \in T : x = m
  BY <1>1
<1> QED
  BY <1>2, <1>3

(* A link leads to the least rank that has the level. *)
LEMMA LinkIsExact ==
  ASSUME NEW z, NEW R, NEW H, SkipListOf(z, R, H), NEW g, ByRank(z, R, g),
         NEW x \in Nodes(z), NEW i \in 1 .. H[x],
         NEW A, A = {j \in 1 .. z.length : j > R[x] /\ H[g[j]] >= i}
  PROVE  IF A = {}
         THEN z.node[x].forward[i] = Z!Nil
              /\ (i <= z.level => z.node[x].span[i] = z.length - R[x])
         ELSE z.node[x].forward[i] = g[Z!Min(A)] /\ z.node[x].span[i] = Z!Min(A) - R[x]
<1> DEFINE E == Z!Elements(z)
           n == z.length
           y == z.node[x].forward[i]
           s == z.node[x].span[i]
<1>1. n \in Nat /\ R \in [Nodes(z) -> 0 .. n] /\ Nodes(z) = E \cup {Z!Header} /\ Z!Nil \notin E
  BY RankedFacts DEF Z!Nil
<1>2. /\ g \in [1 .. n -> E] /\ \A q \in 1 .. n : R[g[q]] = q
      /\ \A w \in E : R[w] \in 1 .. n /\ g[R[w]] = w
  BY DEF ByRank
<1>3. \/ /\ y = Z!Nil
         /\ \A w \in E : H[w] >= i => R[w] <= R[x]
         /\ i <= z.level => s = n - R[x]
      \/ /\ y \in E /\ H[y] >= i /\ R[y] > R[x]
         /\ \A w \in E : H[w] >= i /\ R[w] > R[x] => R[w] >= R[y]
         /\ s = R[y] - R[x]
  BY DEF SkipListOf, Linked
<1> HIDE DEF E, n, y, s
<1>4. CASE /\ y = Z!Nil
           /\ \A w \in E : H[w] >= i => R[w] <= R[x]
           /\ i <= z.level => s = n - R[x]
  <2>1. ASSUME NEW j \in A
        PROVE  FALSE
    <3>1. j \in 1 .. n /\ j > R[x] /\ H[g[j]] >= i
      BY DEF n
    <3>2. g[j] \in E /\ R[g[j]] = j
      BY <1>2, <3>1
    <3>3. j <= R[x]
      BY <1>4, <3>1, <3>2
    <3> QED
      BY <1>1, <3>1, <3>3
  <2>2. A = {}
    BY <2>1
  <2> QED
    BY <1>4, <2>2 DEF y, s, n
<1>5. CASE /\ y \in E /\ H[y] >= i /\ R[y] > R[x]
           /\ \A w \in E : H[w] >= i /\ R[w] > R[x] => R[w] >= R[y]
           /\ s = R[y] - R[x]
  <2> DEFINE m == R[y]
  <2>1. m \in 1 .. n /\ g[m] = y
    BY <1>2, <1>5
  <2>2. m \in A
    BY <1>5, <2>1 DEF n
  <2>3. ASSUME NEW j \in A
        PROVE  m <= j
    <3>1. j \in 1 .. n /\ j > R[x] /\ H[g[j]] >= i
      BY DEF n
    <3>2. g[j] \in E /\ R[g[j]] = j
      BY <1>2, <3>1
    <3>3. j >= m
      BY <1>5, <3>1, <3>2
    <3> QED
      BY <2>1, <3>1, <3>3
  <2> HIDE DEF m
  <2>4. A \subseteq Int
    BY <1>1 DEF n
  <2>5. Z!Min(A) = m
    BY <2>2, <2>3, <2>4, LeastIs
  <2>6. A # {} /\ y = g[Z!Min(A)] /\ s = Z!Min(A) - R[x]
    BY <1>5, <2>1, <2>2, <2>5 DEF m
  <2> QED
    BY <2>6 DEF y, s
<1> QED
  BY <1>3, <1>4, <1>5

(* A sorted set with a member has exact spans. *)
LEMMA SpansExact ==
  ASSUME NEW v \in SortedSets, v.dict # Z!EmptyDict
  PROVE  ExactSpans(v)
<1> DEFINE z == v.zsl
           E == Z!Elements(z)
           n == z.length
           s == Z!Sorted(v.dict)
           pos(x) == IF x = Z!Header THEN 0 ELSE CHOOSE i \in DOMAIN s : s[i] = x
           height(x) == Len(z.node[x].forward)
           after(x, i) == {j \in DOMAIN s : j > pos(x) /\ height(s[j]) >= i}
           Exact(x, i, A, R) ==
               IF A = {}
               THEN z.node[x].forward[i] = Z!Nil /\ (i <= z.level => z.node[x].span[i] = n - R[x])
               ELSE z.node[x].forward[i] = Z!Sorted(v.dict)[Z!Min(A)] /\ z.node[x].span[i] = Z!Min(A) - R[x]
<1>1. z \in SkipLists /\ v.dict = Scores(z) /\ DOMAIN v.dict = E /\ E # {}
  BY SortedSetFacts
<1>2. PICK R, H : SkipListOf(z, R, H)
  BY <1>1, OutOfSkipLists DEF IsSkipList
<1>3. PICK g : ByRank(z, R, g)
  BY <1>2, ElementsByRank
<1>4. s = g
  BY <1>1, <1>2, <1>3, SortedIs
<1>5. /\ g \in [1 .. n -> E] /\ \A q \in 1 .. n : R[g[q]] = q
      /\ \A w \in E : R[w] \in 1 .. n /\ g[R[w]] = w
  BY <1>3 DEF ByRank
<1>6. /\ n \in Nat /\ R \in [Nodes(z) -> 0 .. n] /\ Nodes(z) = E \cup {Z!Header} /\ R[Z!Header] = 0
      /\ H \in [Nodes(z) -> 1 .. MaxLevel]
  BY <1>2, RankedFacts
<1>7. Z!Header \notin E
  BY DEF Z!Elements
<1>8. \A x \in E : z.node[x].score = v.dict[x]
  BY <1>1 DEF Scores
<1>9. \A x \in Nodes(z) : height(x) = H[x]
  <2> TAKE x \in Nodes(z)
  <2>1. z.node[x] \in [score : Int, backward : Int, forward : [1 .. H[x] -> Int], span : [1 .. H[x] -> Int]]
    BY <1>2 DEF SkipListOf, Layered
  <2>2. z.node[x].forward \in [1 .. H[x] -> Int]
    BY <2>1
  <2>3. H[x] \in Nat
    BY <1>6, ConstantsAssumption
  <2> QED
    BY <2>2, <2>3
<1>10. /\ z.level \in 1 .. MaxLevel /\ \A x \in E : H[x] <= z.level
       /\ z.level = 1 \/ \E x \in E : H[x] = z.level
  BY <1>2 DEF SkipListOf, Layered
<1>11. \A x \in E : LinkedBack(z, R, x)
  BY <1>2 DEF SkipListOf
<1>12. z.tail \in E /\ R[z.tail] = n
  <2>1. n # 0
    <3>1. PICK x \in E : TRUE
      BY <1>1
    <3>2. R[x] \in 1 .. n
      BY <1>5
    <3> QED
      BY <1>6, <3>2
  <2> QED
    BY <1>2, <2>1 DEF SkipListOf
<1>13. ASSUME NEW x \in Nodes(z), NEW i \in 1 .. H[x],
              NEW A, A = {j \in 1 .. n : j > R[x] /\ H[g[j]] >= i}
       PROVE  Exact(x, i, A, R)
  BY <1>2, <1>3, <1>4, <1>13, LinkIsExact
<1>14. ExactSpans(v) <=>
         /\ E = Z!ToSet(s) /\ n = Len(s) /\ z.tail = Z!Last(s)
         /\ z.level = Z!Max({height(s[j]) : j \in DOMAIN s})
         /\ \A j \in DOMAIN s : z.node[s[j]].score = v.dict[s[j]]
                                /\ z.node[s[j]].backward = IF j = 1 THEN Z!Nil ELSE s[j - 1]
         /\ \A x \in Nodes(z) : \A i \in 1 .. height(x) :
               IF after(x, i) = {}
               THEN z.node[x].forward[i] = Z!Nil
                    /\ (i <= z.level => z.node[x].span[i] = Len(s) - pos(x))
               ELSE z.node[x].forward[i] = s[Z!Min(after(x, i))]
                    /\ z.node[x].span[i] = Z!Min(after(x, i)) - pos(x)
  BY Zenon DEF ExactSpans, Nodes
<1> HIDE DEF E, n, z, s, height, Exact
<1>15. DOMAIN s = 1 .. n /\ Len(s) = n
  BY <1>4, <1>5, <1>6
<1>16. E = Z!ToSet(s)
  <2>1. Z!ToSet(s) = {s[j] : j \in 1 .. n}
    BY <1>15 DEF Z!ToSet
  <2>2. \A x \in E : \E j \in 1 .. n : s[j] = x
    BY <1>4, <1>5
  <2>3. \A j \in 1 .. n : s[j] \in E
    BY <1>4, <1>5
  <2> QED
    BY <2>1, <2>2, <2>3
<1>17. z.tail = Z!Last(s)
  BY <1>4, <1>5, <1>12, <1>15 DEF Z!Last
<1>18. z.level = Z!Max({height(s[j]) : j \in DOMAIN s})
  <2> DEFINE T == {height(s[j]) : j \in DOMAIN s}
  <2>0. MaxLevel \in Nat
    BY ConstantsAssumption
  <2>1. \A x \in E : H[x] \in 1 .. MaxLevel /\ height(x) = H[x]
    BY <1>6, <1>9
  <2>2. \A j \in 1 .. n : s[j] \in E
    BY <1>4, <1>5
  <2>3. \A x \in E : \E j \in 1 .. n : s[j] = x
    BY <1>4, <1>5
  <2>4. \A t \in T : t \in Int /\ z.level >= t
    <3> SUFFICES ASSUME NEW j \in 1 .. n
                 PROVE  height(s[j]) \in Int /\ z.level >= height(s[j])
      BY <1>15
    <3>1. s[j] \in E
      BY <2>2
    <3>2. H[s[j]] \in 1 .. MaxLevel /\ height(s[j]) = H[s[j]] /\ H[s[j]] <= z.level
      BY <1>10, <2>1, <3>1
    <3> QED
      BY <1>10, <2>0, <3>2
  <2>5. PICK x \in E : H[x] = z.level
    <3>1. PICK x \in E : TRUE
      BY <1>1
    <3>2. z.level = 1 => H[x] = 1
      BY <1>10, <2>0, <2>1
    <3> QED
      BY <1>10, <3>2
  <2>6. z.level \in T
    BY <1>15, <2>1, <2>3, <2>5
  <2> HIDE DEF T
  <2>7. T \in SUBSET Int
    BY <2>4
  <2>8. Z!Max(T) = z.level
    BY <2>4, <2>6, <2>7, GreatestIs
  <2> QED
    BY <2>8 DEF T
<1>19. ASSUME NEW j \in DOMAIN s
       PROVE  z.node[s[j]].score = v.dict[s[j]]
              /\ z.node[s[j]].backward = IF j = 1 THEN Z!Nil ELSE s[j - 1]
  <2>1. s[j] \in E /\ R[s[j]] = j /\ j \in 1 .. n
    BY <1>4, <1>5, <1>15
  <2> DEFINE b == z.node[s[j]].backward
  <2>2. \/ j = 1 /\ b = Z!Nil
        \/ b \in E /\ R[b] = j - 1
    BY <1>11, <2>1 DEF LinkedBack, E
  <2> HIDE DEF b
  <2>3. b = IF j = 1 THEN Z!Nil ELSE s[j - 1]
    <3>1. b \in E => R[b] \in 1 .. n /\ g[R[b]] = b
      BY <1>5
    <3> QED
      BY <1>4, <1>6, <2>1, <2>2, <3>1
  <2> QED
    BY <1>8, <2>1, <2>3 DEF b
<1>20. \A x \in Nodes(z) : pos(x) = R[x]
  <2> TAKE x \in Nodes(z)
  <2>1. CASE x = Z!Header
    BY <1>6, <2>1
  <2>2. CASE x # Z!Header
    <3>1. x \in E /\ R[x] \in 1 .. n /\ s[R[x]] = x
      BY <1>4, <1>5, <1>6, <2>2
    <3>2. \A i \in DOMAIN s : s[i] = x <=> i = R[x]
      BY <1>4, <1>5, <1>15, <3>1
    <3>3. (CHOOSE i \in DOMAIN s : s[i] = x) = R[x]
      BY <1>15, <3>1, <3>2
    <3> QED
      BY <2>2, <3>3
  <2> QED
    BY <2>1, <2>2
<1> HIDE DEF pos
<1>21. \A x \in Nodes(z), i \in Int : after(x, i) = {j \in 1 .. n : j > R[x] /\ H[g[j]] >= i}
  <2> TAKE x \in Nodes(z), i \in Int
  <2>1. \A j \in 1 .. n : height(s[j]) = H[g[j]]
    BY <1>4, <1>5, <1>6, <1>9
  <2> QED
    BY <1>15, <1>20, <2>1
<1> HIDE DEF after
<1>22. ASSUME NEW x \in Nodes(z), NEW i \in 1 .. height(x)
       PROVE  IF after(x, i) = {}
              THEN z.node[x].forward[i] = Z!Nil
                   /\ (i <= z.level => z.node[x].span[i] = Len(s) - pos(x))
              ELSE z.node[x].forward[i] = s[Z!Min(after(x, i))]
                   /\ z.node[x].span[i] = Z!Min(after(x, i)) - pos(x)
  <2>1. i \in 1 .. H[x] /\ i \in Int /\ pos(x) = R[x] /\ Len(s) = n /\ s = g
    BY <1>4, <1>9, <1>15, <1>20
  <2>2. PICK A : A = after(x, i)
    OBVIOUS
  <2>3. A = {j \in 1 .. n : j > R[x] /\ H[g[j]] >= i}
    BY <1>21, <2>1, <2>2
  <2>4. Exact(x, i, A, R)
    BY <1>13, <2>1, <2>3
  <2> QED
    BY <1>4, <2>1, <2>2, <2>4 DEF Exact, s
<1> QED
  BY <1>14, <1>15, <1>16, <1>17, <1>18, <1>19, <1>22

(* insert and deleteNode (zset_storage) leave every link, on every level,  *)
(* at the next node that has the level, with the number of elements it     *)
(* passes as its span, which the ranks are summed up from: for any number  *)
(* of members, any float64s as scores and increments, and any levels that  *)
(* randomLevel draws, also after a restart, until the first NaN, which     *)
(* has no place in the order.                                              *)
THEOREM SpansStayExact == Spec => []SpansAreExact
<1>1. SortedSetInvariant => SpansAreExact
  <2> SUFFICES ASSUME SortedSetState
               PROVE  Z!SpansAreExact
    BY DEF SortedSetInvariant, SpansAreExact
  <2>1. Z!SpansAreExact <=> \A k \in ZKey : data[k] # Absent => ExactSpans(data[k])
    BY Zenon DEF Z!SpansAreExact, ExactSpans
  <2>2. \A k \in ZKey : data[k] # Absent => data[k] \in SortedSets /\ data[k].dict # Z!EmptyDict
    BY DEF SortedSetState, SortedSetOrAbsent
  <2> QED
    BY <2>1, <2>2, SpansExact
<1> QED
  BY <1>1, SortedSetsSafe, PTL

-----------------------------------------------------------------------------
(* The reads of a sorted set.  A link leads up to a rank if and only if    *)
(* the sum of the spans says so: getElementByRank goes where a search for  *)
(* the elements up to the rank would go.                                   *)
LEMMA SameStep ==
  ASSUME NEW z, NEW R, NEW H, SkipListOf(z, R, H), NEW i \in 1 .. MaxLevel, NEW r \in 0 .. z.length,
         NEW p \in Places(z, R, H, i, r)
  PROVE  WalkStep(z, i, UpToRank(z, R, r), p)
           = LET x == z.node[p.at]
             IN  IF x.forward[i] = Z!Nil \/ p.rank + x.span[i] > r THEN p
                 ELSE [at |-> x.forward[i], rank |-> p.rank + x.span[i]]
<1> DEFINE y == z.node[p.at].forward[i]
           s == z.node[p.at].span[i]
           P == UpToRank(z, R, r)
<1>1. /\ z.length \in Nat /\ R \in [Nodes(z) -> 0 .. z.length]
      /\ H \in [Nodes(z) -> 1 .. MaxLevel] /\ Nodes(z) = Z!Elements(z) \cup {Z!Header}
      /\ Z!Nil \notin Z!Elements(z)
  BY RankedFacts DEF Z!Nil
<1>2. p.at \in Nodes(z) /\ H[p.at] >= i /\ p.rank = R[p.at] /\ i \in 1 .. H[p.at]
  BY <1>1, ConstantsAssumption DEF Places
<1>3. Linked(z, R, H, p.at, i)
  BY <1>2 DEF SkipListOf
<1>4. \/ y = Z!Nil
      \/ y \in Z!Elements(z) /\ s = R[y] - R[p.at]
  BY <1>3 DEF Linked
<1>5. y \in P <=> ~(y = Z!Nil \/ p.rank + s > r)
  <2>1. CASE y = Z!Nil
    BY <1>1, <2>1 DEF UpToRank
  <2>2. CASE y # Z!Nil
    <3>1. y \in Z!Elements(z) /\ s = R[y] - R[p.at] /\ y \in Nodes(z)
      BY <1>1, <1>4, <2>2
    <3>2. R[y] \in 0 .. z.length /\ R[p.at] \in 0 .. z.length
      BY <1>1, <1>2, <3>1
    <3> HIDE DEF y, s
    <3>3. p.rank + s = R[y]
      BY <1>1, <1>2, <3>1, <3>2
    <3>4. R[y] <= r <=> ~(R[y] > r)
      BY <1>1, <3>2
    <3> QED
      BY <2>2, <3>1, <3>3, <3>4 DEF UpToRank
  <2> QED
    BY <2>1, <2>2
<1> HIDE DEF P
<1>6. WalkStep(z, i, P, p) = IF y \notin P THEN p ELSE [at |-> y, rank |-> p.rank + s]
  BY DEF WalkStep
<1> HIDE DEF y, s
<1>7. WalkStep(z, i, P, p) = IF y = Z!Nil \/ p.rank + s > r THEN p ELSE [at |-> y, rank |-> p.rank + s]
  BY <1>5, <1>6
<1> QED
  BY <1>7 DEF y, s, P

(* So both walks along a level are the same. *)
LEMMA WalkToRankIs ==
  ASSUME NEW z, NEW R, NEW H, SkipListOf(z, R, H), NEW i \in 1 .. MaxLevel, NEW r \in 0 .. z.length,
         NEW from \in Places(z, R, H, i, r)
  PROVE  Z!WalkToRank(z, i, from, r) = Z!Walk(z, i, from, UpToRank(z, R, r))
<1> DEFINE n == z.length
           P == UpToRank(z, R, r)
           X == Places(z, R, H, i, r)
           step(p) == LET x == z.node[p.at]
                      IN  IF x.forward[i] = Z!Nil \/ p.rank + x.span[i] > r THEN p
                          ELSE [at |-> x.forward[i], rank |-> p.rank + x.span[i]]
           Walks(a) == a = [m \in 0 .. n |-> IF m = 0 THEN from ELSE step(a[m - 1])]
           walk == CHOOSE a : Walks(a)
<1>1. n \in Nat
  BY RankedFacts
<1>2. PICK a : IsWalk(a, z, i, from, P) /\ Z!Walk(z, i, from, P) = a[n]
  BY WalkIs
<1>3. \A m \in 0 .. n : a[m] \in X
  BY <1>2, WalkArrives
<1>4. \A p \in X : WalkStep(z, i, P, p) = step(p)
  BY SameStep
<1>5. Z!WalkToRank(z, i, from, r) = walk[n]
  BY DEF Z!WalkToRank
<1> HIDE DEF step, X, P, n
<1>6. a = [m \in 0 .. n |-> IF m = 0 THEN from ELSE WalkStep(z, i, P, a[m - 1])]
  BY <1>2 DEF IsWalk, n
<1>7. ASSUME NEW m \in 0 .. n, m # 0
      PROVE  a[m] = step(a[m - 1]) /\ m - 1 \in 0 .. n
  <2>1. m - 1 \in 0 .. n
    BY <1>1, <1>7
  <2> QED
    BY <1>3, <1>4, <1>6, <1>7, <2>1
<1>8. Walks(a)
  <2>1. \A m \in 0 .. n : a[m] = IF m = 0 THEN from ELSE step(a[m - 1])
    BY <1>6, <1>7
  <2>2. a = [m \in 0 .. n |-> a[m]]
    BY <1>6
  <2> QED
    BY <2>1, <2>2
<1>9. Walks(walk)
  <2> HIDE DEF Walks
  <2> QED
    BY <1>8
<1> HIDE DEF walk
<1> DEFINE Done == {m \in 0 .. n : walk[m] = a[m]}
<1>10. 0 \in Done
  BY <1>1, <1>8, <1>9
<1>11. ASSUME NEW m \in 0 .. n - 1, m \in Done
       PROVE  m + 1 \in Done
  <2>1. m + 1 \in 0 .. n /\ m + 1 # 0 /\ (m + 1) - 1 = m
    BY <1>1
  <2>2. walk[m + 1] = step(walk[m]) /\ a[m + 1] = step(a[m])
    BY <1>8, <1>9, <2>1
  <2> QED
    BY <1>11, <2>1, <2>2
<1>12. 0 .. n \subseteq Done
  <2> HIDE DEF Done
  <2> QED
    BY <1>1, <1>10, <1>11, CountingUp
<1>13. walk[n] = a[n]
  BY <1>1, <1>12
<1> QED
  BY <1>2, <1>5, <1>13 DEF P

(* getElementByRank finds the element, at whatever level the rank is met.  *)
LEMMA ElementFound ==
  ASSUME NEW z, NEW R, NEW H, SkipListOf(z, R, H), NEW g, ByRank(z, R, g),
         NEW r \in 1 .. z.length
  PROVE  Z!GetElementByRank(z, r) = At(z, g, r)
<1> DEFINE n == z.level
           P == UpToRank(z, R, r)
           IsPath(a) == a = [m \in 1 .. n |-> Z!WalkToRank(z, m, IF m = n THEN Start ELSE a[m + 1], r)]
           path == CHOOSE a : IsPath(a)
           search == Z!Path(z, P)
           found == {m \in 1 .. n : path[m].rank = r}
<1>1. /\ z.length \in Nat /\ r \in 0 .. z.length /\ n \in 1 .. MaxLevel /\ n \in Nat
      /\ \A m \in 1 .. n : m \in 1 .. MaxLevel
  <2>1. z.length \in Nat /\ n \in 1 .. MaxLevel
    BY RankedFacts DEF SkipListOf, Layered
  <2> HIDE DEF n
  <2>2. n \in Nat /\ \A m \in 1 .. n : m \in 1 .. MaxLevel
    BY <2>1, ConstantsAssumption
  <2> QED
    BY <2>1, <2>2
<1>2. search = [m \in 1 .. n |-> Z!Walk(z, m, IF m = n THEN Start ELSE search[m + 1], P)]
  BY <1>1, PathIs
<1>3. \A m \in 1 .. n : search[m] \in Places(z, R, H, m, r)
  BY <1>1, PathEnds
<1>4. \A m \in 1 .. n : \A p \in Places(z, R, H, m, r) : Z!WalkToRank(z, m, p, r) = Z!Walk(z, m, p, P)
  BY <1>1, WalkToRankIs
<1>5. GoesDown(z, R, H, r, search)
  BY <1>3 DEF GoesDown
<1> DEFINE From(m) == IF m = n THEN Start ELSE search[m + 1]
<1>6. \A m \in 1 .. n : From(m) \in Places(z, R, H, m, r)
  BY <1>1, <1>5, DownThePath
<1> HIDE DEF search, P
<1>7. IsPath(search)
  <2>1. \A m \in 1 .. n : search[m] = Z!Walk(z, m, From(m), P)
    BY <1>2
  <2>2. \A m \in 1 .. n : search[m] = Z!WalkToRank(z, m, From(m), r)
    <3> HIDE DEF From, n
    <3> QED
      BY <1>4, <1>6, <2>1
  <2>3. search = [m \in 1 .. n |-> search[m]]
    BY <1>2
  <2> QED
    BY <2>2, <2>3
<1>8. IsPath(path)
  <2> HIDE DEF IsPath
  <2> QED
    BY <1>7
<1>9. Z!GetElementByRank(z, r) = IF r = 0 \/ r > z.length \/ found = {} THEN Z!Nil ELSE path[Z!Max(found)].at
  BY DEF Z!GetElementByRank, Start
<1> HIDE DEF path
<1>10. \A m \in 1 .. n : path[m] = Z!WalkToRank(z, m, IF m = n THEN Start ELSE path[m + 1], r)
  BY <1>8
<1>11. ASSUME NEW m \in 1 .. n, NEW p \in Places(z, R, H, m, r)
       PROVE  Z!WalkToRank(z, m, p, r) \in Places(z, R, H, m, r) /\ IsLast(z, R, H, m, r, Z!WalkToRank(z, m, p, r).at)
  BY <1>1, <1>4, WalkEnds DEF P
<1>12. GoesDown(z, R, H, r, path)
  BY <1>10, <1>11 DEF GoesDown
<1> DEFINE To(m) == IF m = n THEN Start ELSE path[m + 1]
<1>13. \A m \in 1 .. n : To(m) \in Places(z, R, H, m, r)
  BY <1>1, <1>12, DownThePath
<1>14. ASSUME NEW m \in 1 .. n
       PROVE  path[m] \in Places(z, R, H, m, r) /\ IsLast(z, R, H, m, r, path[m].at)
  <2>1. path[m] = Z!WalkToRank(z, m, To(m), r)
    BY <1>10
  <2> HIDE DEF To, n
  <2> QED
    BY <1>11, <1>13, <2>1
<1>15. g[r] \in Z!Elements(z) /\ R[g[r]] = r /\ At(z, g, r) = g[r] /\ \A x \in Nodes(z) : R[x] = r => x = g[r]
  BY DEF ByRank, At, SkipListOf, Ranked, Z!Elements, Nodes
<1>16. 1 \in found
  <2>1. 1 \in 1 .. n
    BY <1>1, ConstantsAssumption
  <2>2. IsLast(z, R, H, 1, r, path[1].at) /\ path[1].rank = R[path[1].at]
    BY <1>14, <2>1 DEF Places
  <2>3. R[path[1].at] = r
    BY <1>1, <2>2, NextByRank
  <2> QED
    BY <2>1, <2>2, <2>3
<1>17. PICK top \in found : \A m \in found : top >= m
  <2>1. found \in SUBSET (1 .. n) /\ found # {}
    BY <1>16
  <2> HIDE DEF found
  <2> QED
    BY <1>1, <2>1, MaxPosition
<1>18. Z!Max(found) = top
  <2>1. found \in SUBSET Int
    BY <1>1
  <2> HIDE DEF found
  <2> QED
    BY <1>17, <2>1, GreatestIs
<1>19. path[top].at \in Nodes(z) /\ R[path[top].at] = r
  BY <1>14, <1>17 DEF Places
<1>20. Z!GetElementByRank(z, r) = path[top].at
  BY <1>1, <1>9, <1>16, <1>18
<1> QED
  BY <1>15, <1>19, <1>20

(* getRank finds the rank of an element that is there.                     *)
LEMMA RankFound ==
  ASSUME NEW z, NEW R, NEW H, SkipListOf(z, R, H), NEW ele \in Z!Elements(z)
  PROVE  Z!GetRank(z, z.node[ele].score, ele) = R[ele]
<1> DEFINE n == z.level
           r == R[ele]
           score == z.node[ele].score
           P == UpToRank(z, R, r)
           path == Z!Path(z, P)
           found == {i \in 1 .. n : path[i].at = ele}
<1>1. /\ z.length \in Nat /\ R \in [Nodes(z) -> 0 .. z.length] /\ ele \in Nodes(z)
      /\ n \in 1 .. MaxLevel /\ r \in 0 .. z.length
      /\ \A x, y \in Nodes(z) : R[x] = R[y] => x = y
  <2>1. /\ z.length \in Nat /\ R \in [Nodes(z) -> 0 .. z.length] /\ ele \in Nodes(z)
        /\ n \in 1 .. MaxLevel
    BY RankedFacts DEF SkipListOf, Layered
  <2>2. \A x, y \in Nodes(z) : R[x] = R[y] => x = y
    BY DEF SkipListOf, Ranked
  <2> QED
    BY <2>1, <2>2
<1>2. n \in Nat /\ 1 \in 1 .. n
  BY <1>1, ConstantsAssumption
<1>3. Z!Before(z, score, ele) \cup {x \in {ele} : Z!Equal(z.node[x].score, score)} = P
  <2>1. Z!Before(z, score, ele) = UpToRank(z, R, R[ele] - 1)
    BY SearchedFor
  <2>2. \A x \in Z!Elements(z) : R[x] <= r <=> R[x] <= r - 1 \/ R[x] = r
    <3>1. \A x \in Z!Elements(z) : R[x] \in Nat
      BY <1>1, RankedFacts
    <3> QED
      BY <1>1, <3>1
  <2>3. \A x \in Z!Elements(z) : R[x] = r <=> x = ele
    BY <1>1, RankedFacts
  <2>4. {x \in {ele} : Z!Equal(z.node[x].score, score)} = {ele}
    <3>1. score \in Int
      BY ScoresAreNumbers
    <3>2. Z!Equal(score, score)
      BY <3>1, FloatOrder
    <3> QED
      BY <3>2
  <2> HIDE DEF r, score
  <2> QED
    BY <2>1, <2>2, <2>3, <2>4 DEF UpToRank, r
<1>4. Z!GetRank(z, score, ele) = IF found = {} THEN 0 ELSE path[Z!Max(found)].rank
  <2> HIDE DEF P
  <2> QED
    BY <1>3 DEF Z!GetRank
<1>5. ASSUME NEW i \in 1 .. n
      PROVE  path[i] \in Places(z, R, H, i, r) /\ IsLast(z, R, H, i, r, path[i].at)
  BY <1>1, PathEnds
<1> HIDE DEF path, P
<1>6. 1 \in found
  <2>1. R[path[1].at] = r /\ path[1].at \in Nodes(z)
    BY <1>1, <1>2, <1>5, NextByRank DEF Places
  <2> QED
    BY <1>1, <1>2, <2>1
<1>7. PICK top \in found : \A m \in found : top >= m
  <2>1. found \in SUBSET (1 .. n) /\ found # {}
    BY <1>6
  <2> HIDE DEF found
  <2> QED
    BY <1>2, <2>1, MaxPosition
<1>8. Z!Max(found) = top
  <2>1. found \in SUBSET Int
    BY <1>2
  <2> HIDE DEF found
  <2> QED
    BY <1>7, <2>1, GreatestIs
<1>9. path[top].rank = r
  BY <1>5, <1>7 DEF Places
<1> HIDE DEF score
<1>10. Z!GetRank(z, score, ele) = path[top].rank
  BY <1>4, <1>6, <1>8
<1> QED
  BY <1>9, <1>10 DEF score, r

(* What is met from the rank j back, while the rank is above r, ... *)
Back(j, n, r) == IF j <= r THEN 0 ELSE IF n <= j - r THEN n ELSE j - r
AboveRank(z, R, r) == {x \in Z!Elements(z) : R[x] > r}

(* The tail, and the ways back through the ranks. *)
LEMMA PreviousAt ==
  ASSUME NEW z, NEW R, NEW H, SkipListOf(z, R, H), NEW g, ByRank(z, R, g)
  PROVE  /\ z.tail = At(z, g, z.length)
         /\ \A q \in 1 .. z.length : z.node[g[q]].backward = At(z, g, q - 1)
<1>1. z.length \in Nat /\ \A x \in Z!Elements(z) : R[x] \in 1 .. z.length /\ g[R[x]] = x
  BY RankedFacts DEF ByRank
<1>2. z.tail = At(z, g, z.length)
  <2>1. CASE z.length = 0 /\ z.tail = Z!Nil
    BY <2>1 DEF At
  <2>2. CASE z.tail \in Z!Elements(z) /\ R[z.tail] = z.length
    BY <1>1, <2>2 DEF At
  <2> QED
    BY <2>1, <2>2 DEF SkipListOf
<1>3. ASSUME NEW q \in 1 .. z.length
      PROVE  z.node[g[q]].backward = At(z, g, q - 1)
  <2> DEFINE y == z.node[g[q]].backward
  <2>1. g[q] \in Z!Elements(z) /\ R[g[q]] = q
    BY DEF ByRank
  <2>2. \/ q = 1 /\ y = Z!Nil
        \/ y \in Z!Elements(z) /\ R[y] = q - 1
    <3>1. LinkedBack(z, R, g[q])
      BY <2>1 DEF SkipListOf
    <3>2. \/ R[g[q]] = 1 /\ y = Z!Nil
          \/ y \in Z!Elements(z) /\ R[y] = R[g[q]] - 1
      BY <3>1 DEF LinkedBack
    <3> HIDE DEF y
    <3> QED
      BY <2>1, <3>2
  <2>3. CASE q = 1 /\ y = Z!Nil
    BY <2>3 DEF At
  <2>4. CASE y \in Z!Elements(z) /\ R[y] = q - 1
    BY <1>1, <2>4 DEF At
  <2> QED
    BY <2>2, <2>3, <2>4
<1> QED
  BY <1>2, <1>3

(* ... is up to n elements, the greatest rank first.                      *)
LEMMA PrecedingIs ==
  ASSUME NEW z, NEW R, NEW H, SkipListOf(z, R, H), NEW g, ByRank(z, R, g),
         NEW j \in Int, j <= z.length, NEW r \in 0 .. z.length, NEW n \in Nat
  PROVE  Z!Preceding(z, At(z, g, j), n, AboveRank(z, R, r)) = [q \in 1 .. Back(j, n, r) |-> g[j - q + 1]]
<1> DEFINE P == AboveRank(z, R, r)
           c(m) == Back(j, m, r)
           a == [m \in 0 .. n |-> [met |-> [q \in 1 .. c(m) |-> g[j - q + 1]], at |-> At(z, g, j - c(m))]]
           step(p) == IF p.at \notin P THEN p
                      ELSE [met |-> Append(p.met, p.at), at |-> z.node[p.at].backward]
           Is(f) == f = [m \in 0 .. n |->
                           IF m = 0 THEN [met |-> << >>, at |-> At(z, g, j)]
                           ELSE step(f[m - 1])]
           from == CHOOSE f : Is(f)
           E == Z!Elements(z)
<1>1. z.length \in Nat
  BY RankedFacts
<1>2. \A m \in 0 .. n : c(m) \in Nat
  BY <1>1 DEF Back
<1>3. a[0] = [met |-> << >>, at |-> At(z, g, j)]
  <2>1. c(0) = 0
    BY <1>1 DEF Back
  <2> HIDE DEF c
  <2>2. [q \in 1 .. 0 |-> g[j - q + 1]] = << >>
    OBVIOUS
  <2> QED
    BY <2>1, <2>2
<1>4. ASSUME NEW m \in 1 .. n
      PROVE  a[m] = step(a[m - 1])
  <2> DEFINE k == j - c(m - 1)
             p == a[m - 1]
  <2>1. m - 1 \in 0 .. n /\ k \in Int /\ k <= z.length
    <3> HIDE DEF c
    <3> QED
      BY <1>1, <1>2
  <2>2. p = [met |-> [q \in 1 .. c(m - 1) |-> g[j - q + 1]], at |-> At(z, g, k)]
    BY <2>1
  <2>3. At(z, g, k) \in P <=> k > r
    <3> HIDE DEF k
    <3>1. CASE k \in 1 .. z.length
      <4>1. At(z, g, k) = g[k] /\ g[k] \in E /\ R[g[k]] = k
        BY <3>1 DEF At, ByRank
      <4> QED
        BY <4>1 DEF AboveRank
    <3>2. CASE k \notin 1 .. z.length
      <4>1. At(z, g, k) = Z!Nil /\ ~(k > r)
        BY <1>1, <2>1, <3>2 DEF At
      <4>2. Z!Nil \notin E
        BY RankedFacts DEF Z!Nil
      <4> QED
        BY <4>1, <4>2 DEF AboveRank
    <3> QED
      BY <3>1, <3>2
  <2> HIDE DEF P, a
  <2>4. CASE k > r
    <3>1. c(m) = c(m - 1) + 1 /\ k \in 1 .. z.length
      BY <1>1, <2>1, <2>4 DEF Back
    <3>2. At(z, g, k) = g[k] /\ z.node[g[k]].backward = At(z, g, k - 1)
      BY <3>1, PreviousAt DEF At
    <3>3. step(p) = [met |-> Append(p.met, g[k]), at |-> At(z, g, k - 1)]
      <4>1. p.at = g[k] /\ p.at \in P
        BY <2>2, <2>3, <2>4, <3>2
      <4> HIDE DEF p, k
      <4>2. step(p) = [met |-> Append(p.met, p.at), at |-> z.node[p.at].backward]
        BY <4>1
      <4>3. z.node[p.at].backward = At(z, g, k - 1)
        BY <3>2, <4>1
      <4> HIDE DEF step
      <4> QED
        BY <4>1, <4>2, <4>3
    <3>4. p.met = [q \in 1 .. c(m - 1) |-> g[j - q + 1]]
      BY <2>2
    <3>5. Append(p.met, g[k]) = [q \in 1 .. c(m) |-> g[j - q + 1]]
      <4> DEFINE t == c(m - 1)
                 h(q) == g[j - q + 1]
      <4>1. t \in Nat /\ c(m) = t + 1 /\ g[k] = h(t + 1)
        BY <1>2, <2>1, <3>1
      <4> HIDE DEF t, h
      <4>2. Append([q \in 1 .. t |-> h(q)], h(t + 1)) = [q \in 1 .. t + 1 |-> h(q)]
        BY <4>1
      <4> HIDE DEF c
      <4> QED
        BY <3>4, <4>1, <4>2 DEF t, h
    <3>6. j - c(m) = k - 1
      BY <1>2, <2>1, <3>1
    <3>7. a[m] = [met |-> [q \in 1 .. c(m) |-> g[j - q + 1]], at |-> At(z, g, j - c(m))]
      BY DEF a
    <3> HIDE DEF step, c, k, p
    <3> QED
      BY <3>3, <3>5, <3>6, <3>7 DEF p
  <2>5. CASE ~(k > r)
    <3>1. c(m) = c(m - 1)
      BY <1>1, <2>1, <2>5 DEF Back
    <3>2. step(p) = p
      BY <2>2, <2>3, <2>5
    <3>3. a[m] = [met |-> [q \in 1 .. c(m) |-> g[j - q + 1]], at |-> At(z, g, j - c(m))]
      BY DEF a
    <3> HIDE DEF step, c
    <3> QED
      BY <2>2, <3>1, <3>2, <3>3
  <2> QED
    BY <2>4, <2>5
<1> HIDE DEF step
<1>5. Is(a)
  <2>1. a = [m \in 0 .. n |-> a[m]]
    OBVIOUS
  <2> HIDE DEF a
  <2>2. \A m \in 0 .. n : m # 0 => m \in 1 .. n
    OBVIOUS
  <2>3. \A m \in 0 .. n : a[m] = IF m = 0 THEN [met |-> << >>, at |-> At(z, g, j)]
                                 ELSE step(a[m - 1])
    BY <1>3, <1>4, <2>2
  <2> QED
    BY <2>1, <2>3
<1>6. Is(from)
  <2> HIDE DEF Is
  <2> QED
    BY <1>5
<1>7. Z!Preceding(z, At(z, g, j), n, P) = from[n].met
  <2> HIDE DEF P
  <2> QED
    BY DEF Z!Preceding, step
<1> HIDE DEF from, a
<1>8. 0 .. n \subseteq {m \in 0 .. n : from[m] = a[m]}
  <2> DEFINE Done == {m \in 0 .. n : from[m] = a[m]}
  <2>1. 0 \in Done
    <3>1. from[0] = [met |-> << >>, at |-> At(z, g, j)]
      BY <1>6
    <3> QED
      BY <1>3, <3>1
  <2>2. ASSUME NEW m \in 0 .. n - 1, m \in Done
        PROVE  m + 1 \in Done
    <3>1. m + 1 \in 0 .. n /\ m + 1 # 0 /\ m + 1 \in 1 .. n /\ (m + 1) - 1 = m
      OBVIOUS
    <3>2. from[m + 1] = step(from[m])
      BY <1>6, <3>1
    <3>3. a[m + 1] = step(a[m])
      BY <1>4, <3>1
    <3> QED
      BY <2>2, <3>1, <3>2, <3>3
  <2> HIDE DEF Done
  <2>3. 0 .. n \subseteq Done
    BY <2>1, <2>2, CountingUp
  <2> QED
    BY <2>3 DEF Done
<1>9. n \in 0 .. n
  OBVIOUS
<1>10. from[n].met = [q \in 1 .. c(n) |-> g[j - q + 1]]
  <2>1. from[n] = a[n]
    BY <1>8, <1>9
  <2>2. a[n].met = [q \in 1 .. c(n) |-> g[j - q + 1]]
    <3> HIDE DEF c
    <3> QED
      BY <1>9 DEF a
  <2> QED
    BY <2>1, <2>2
<1> QED
  BY <1>7, <1>10

-----------------------------------------------------------------------------
(* The positions from a to b of a sequence of length n, and the pieces of  *)
(* c elements upwards, or downwards, from a position.                      *)
Between(n, a, b) == {i \in 1 .. n : a <= i /\ i <= b}
Extent(a, b) == IF a <= b THEN b - a + 1 ELSE 0
Upwards(s, j, c) == [q \in 1 .. c |-> s[j + q - 1]]
Downwards(s, j, c) == [q \in 1 .. c |-> s[j - q + 1]]

(* The elements at an interval of positions are a piece of the sequence.   *)
LEMMA PieceIs ==
  ASSUME NEW n \in Nat, NEW s, NEW a \in 1 .. n + 1, NEW b \in 0 .. n
  PROVE  /\ Cardinality(Between(n, a, b)) = Extent(a, b)
         /\ Z!At(s, Between(n, a, b)) = Upwards(s, a, Extent(a, b))
<1> DEFINE P == {i \in 1 .. n : a <= i /\ i <= b}
           c == IF a <= b THEN b - a + 1 ELSE 0
<1>1. P = a .. b
  OBVIOUS
<1>2. Cardinality(P) = c
  <2>1. a > b => a .. b = {}
    OBVIOUS
  <2>2. a \in Int /\ b \in Int
    OBVIOUS
  <2>3. Cardinality(a .. b) = IF a > b THEN 0 ELSE b - a + 1
    BY <2>2, FS_Interval
  <2>4. Cardinality(P) = Cardinality(a .. b)
    <3> HIDE DEF P
    <3> QED
      BY <1>1
  <2> QED
    BY <2>3, <2>4
<1>3. ASSUME NEW i \in P
      PROVE  Cardinality({j \in P : j <= i}) = i - a + 1
  <2>1. {j \in P : j <= i} = a .. i
    OBVIOUS
  <2>2. i \in Int /\ a \in Int /\ ~(a > i)
    OBVIOUS
  <2>3. Cardinality(a .. i) = IF a > i THEN 0 ELSE i - a + 1
    BY <2>2, FS_Interval
  <2> QED
    BY <2>1, <2>2, <2>3
<1>4. ASSUME NEW q \in 1 .. c
      PROVE  (CHOOSE i \in P : Cardinality({j \in P : j <= i}) = q) = a + q - 1
  <2> DEFINE count(i) == Cardinality({j \in P : j <= i})
  <2>1. a + q - 1 \in P
    OBVIOUS
  <2>2. \A i \in P : count(i) = i - a + 1
    BY <1>3
  <2>3. \A i \in P : i \in Int
    OBVIOUS
  <2> HIDE DEF P, count, c
  <2>4. count(a + q - 1) = q
    <3>1. count(a + q - 1) = (a + q - 1) - a + 1
      BY <2>1, <2>2
    <3>2. (a + q - 1) - a + 1 = q
      BY DEF c
    <3> QED
      BY <3>1, <3>2
  <2>5. \A i \in P : count(i) = q => i = a + q - 1
    BY <2>2, <2>3
  <2>6. (CHOOSE i \in P : count(i) = q) = a + q - 1
    BY <2>1, <2>4, <2>5
  <2> QED
    BY <2>6 DEF count
<1>5. Z!At(s, P) = [q \in 1 .. c |-> s[CHOOSE i \in P : Cardinality({j \in P : j <= i}) = q]]
  <2> HIDE DEF P, c
  <2>1. Z!At(s, P) = [q \in 1 .. Cardinality(P) |-> s[CHOOSE i \in P : Cardinality({j \in P : j <= i}) = q]]
    BY DEF Z!At, Z!Cardinality, Cardinality
  <2> QED
    BY <1>2, <2>1
<1>6. Z!At(s, P) = [q \in 1 .. c |-> s[a + q - 1]]
  <2> HIDE DEF P, c
  <2> QED
    BY <1>4, <1>5
<1> QED
  BY <1>2, <1>6 DEF P, c, Between, Extent, Upwards

(* Leaving out some of the first of an interval, and keeping so many.      *)
Cut(P, offset, count) ==
    {i \in P : LET n == Z!Cardinality({j \in P : j <= i})
               IN  n > offset /\ (count > 0 => n <= offset + count)}

(* Such a cut of an interval is one of its parts. *)
LEMMA CutIs ==
  ASSUME NEW n \in Nat, NEW a \in 1 .. n + 1, NEW b \in 0 .. n, NEW offset \in Nat, NEW count \in Nat
  PROVE  Cut(Between(n, a, b), offset, count)
           = {i \in 1 .. n : a + offset <= i /\ i <= b /\ (count > 0 => i <= a + offset + count - 1)}
<1> DEFINE P == {i \in 1 .. n : a <= i /\ i <= b}
<1>1. ASSUME NEW i \in P
      PROVE  Z!Cardinality({j \in P : j <= i}) = i - a + 1
  <2>1. {j \in P : j <= i} = a .. i
    OBVIOUS
  <2>2. i \in Int /\ a \in Int /\ ~(a > i)
    OBVIOUS
  <2>3. Cardinality(a .. i) = IF a > i THEN 0 ELSE i - a + 1
    BY <2>2, FS_Interval
  <2>4. Z!Cardinality(a .. i) = Cardinality(a .. i)
    BY DEF Z!Cardinality, Cardinality
  <2> QED
    BY <2>1, <2>2, <2>3, <2>4
<1>2. Cut(P, offset, count)
        = {i \in P : i - a + 1 > offset /\ (count > 0 => i - a + 1 <= offset + count)}
  <2> HIDE DEF P
  <2> QED
    BY <1>1 DEF Cut
<1>3. {i \in P : i - a + 1 > offset /\ (count > 0 => i - a + 1 <= offset + count)}
        = {i \in 1 .. n : a + offset <= i /\ i <= b /\ (count > 0 => i <= a + offset + count - 1)}
  OBVIOUS
<1> QED
  BY <1>2, <1>3 DEF Between

(* What is met on the way up from a rank, and down from it, ... *)
LEMMA MetUpwards ==
  ASSUME NEW z, NEW R, NEW H, SkipListOf(z, R, H), NEW g, ByRank(z, R, g),
         NEW j \in Nat \ {0}, NEW r \in 0 .. z.length, NEW n \in Nat
  PROVE  Z!Following(z, At(z, g, j), n, UpToRank(z, R, r)) = Upwards(g, j, Room(j, n, r))
BY FollowingIs DEF Upwards

(* The same downwards. *)
LEMMA MetDownwards ==
  ASSUME NEW z, NEW R, NEW H, SkipListOf(z, R, H), NEW g, ByRank(z, R, g),
         NEW j \in Int, j <= z.length, NEW r \in 0 .. z.length, NEW n \in Nat
  PROVE  Z!Preceding(z, At(z, g, j), n, AboveRank(z, R, r)) = Downwards(g, j, Back(j, n, r))
BY PrecedingIs DEF Downwards

(* ... and the pieces of the sorted elements these are. *)
LEMMA Pieces ==
  ASSUME NEW z, NEW R, NEW H, SkipListOf(z, R, H), NEW g, ByRank(z, R, g),
         NEW a \in 1 .. z.length + 1, NEW b \in 0 .. z.length
  PROVE  /\ Z!At(g, Between(z.length, a, b)) = Upwards(g, a, Extent(a, b))
         /\ Z!At(Z!Reverse(g), Between(z.length, a, b))
              = Downwards(g, z.length + 1 - a, Extent(a, b))
<1> DEFINE n == z.length
           c == Extent(a, b)
           back == Z!Reverse(g)
<1>1. n \in Nat /\ g \in [1 .. n -> Z!Elements(z)]
  BY RankedFacts DEF ByRank
<1>2. \A s : Z!At(s, Between(n, a, b)) = Upwards(s, a, c)
  BY <1>1, PieceIs
<1>3. \A i \in 1 .. n : back[i] = g[(n - i) + 1]
  <2>1. Len(g) = n
    <3> HIDE DEF n
    <3> QED
      BY <1>1
  <2> QED
    BY <2>1 DEF Z!Reverse
<1>4. ASSUME NEW q \in 1 .. c
      PROVE  back[a + q - 1] = g[(n + 1 - a) - q + 1]
  <2>1. c \in Nat /\ c <= n - a + 1
    BY <1>1 DEF Extent
  <2> HIDE DEF back, n, c
  <2>2. a + q - 1 \in 1 .. n /\ (n - (a + q - 1)) + 1 = (n + 1 - a) - q + 1
    BY <1>1, <2>1 DEF n
  <2> QED
    BY <1>3, <2>2
<1> HIDE DEF back, n, c
<1>5. Upwards(back, a, c) = Downwards(g, n + 1 - a, c)
  BY <1>4 DEF Upwards, Downwards
<1> QED
  BY <1>2, <1>5 DEF back, n, c

(* Ranges of ranks, with indices that may count from the end, or lie       *)
(* outside.                                                                *)
Asked(z, start, stop) ==
    {i \in 1 .. z.length : i - 1 \in Z!Resolve(z, start) .. Z!Resolve(z, stop)}

(* ZRANGE and ZREVRANGE read the ranks that were asked for. *)
LEMMA RangesFound ==
  ASSUME NEW z, NEW R, NEW H, SkipListOf(z, R, H), NEW g, ByRank(z, R, g),
         NEW start \in Int, NEW stop \in Int
  PROVE  /\ Z!ZRange(z, start, stop) = Z!At(g, Asked(z, start, stop))
         /\ Z!ZRevRange(z, start, stop) = Z!At(Z!Reverse(g), Asked(z, start, stop))
<1> DEFINE n == z.length
           E == Z!Elements(z)
           c == Z!Clamped(z, start, stop)
           lo == c.start
           hi == c.stop
           first == Z!Resolve(z, start)
           last == Z!Resolve(z, stop)
           P(a, b) == Between(n, a, b)
<1>1. n \in Nat /\ \A x \in E : R[x] \in 1 .. n
  BY RankedFacts DEF ByRank
<1>2. first \in Int /\ last \in Int
  BY <1>1 DEF Z!Resolve
<1>3. /\ lo = IF first < 0 THEN 0 ELSE first
      /\ hi = IF last >= n THEN n - 1 ELSE last
  BY DEF Z!Clamped
<1>4. E = UpToRank(z, R, n) /\ E = AboveRank(z, R, 0)
  BY <1>1 DEF UpToRank, AboveRank
<1>5. /\ Z!ZRange(z, start, stop) =
            IF lo > hi THEN << >>
            ELSE Z!Following(z, Z!GetElementByRank(z, lo + 1), hi - lo + 1, E)
      /\ Z!ZRevRange(z, start, stop) =
            IF lo > hi THEN << >>
            ELSE Z!Preceding(z, Z!GetElementByRank(z, n - lo), hi - lo + 1, E)
  BY DEF Z!ZRange, Z!ZRevRange
<1> HIDE DEF c, first, last
<1>6. Asked(z, start, stop) = {i \in 1 .. n : first <= i - 1 /\ i - 1 <= last}
  <2>1. Asked(z, start, stop) = {i \in 1 .. n : i - 1 \in first .. last}
    BY DEF Asked, first, last
  <2> HIDE DEF n
  <2>2. \A i \in 1 .. n : i - 1 \in first .. last <=> first <= i - 1 /\ i - 1 <= last
    BY <1>1, <1>2
  <2> QED
    BY <2>1, <2>2
<1>7. CASE lo > hi
  <2>1. Asked(z, start, stop) = P(1, 0)
    <3>1. Asked(z, start, stop) = {}
      BY <1>1, <1>2, <1>3, <1>6, <1>7
    <3>2. P(1, 0) = {}
      BY <1>1 DEF Between
    <3> QED
      BY <3>1, <3>2
  <2>2. 1 \in 1 .. n + 1 /\ 0 \in 0 .. n
    BY <1>1
  <2> HIDE DEF P
  <2>3. Z!At(g, P(1, 0)) = Upwards(g, 1, 0) /\ Z!At(Z!Reverse(g), P(1, 0)) = Downwards(g, n, 0)
    <3>1. Extent(1, 0) = 0 /\ n + 1 - 1 = n
      BY <1>1 DEF Extent
    <3> HIDE DEF n
    <3>2. 1 \in 1 .. z.length + 1 /\ 0 \in 0 .. z.length
      BY <2>2 DEF n
    <3>3. /\ Z!At(g, Between(n, 1, 0)) = Upwards(g, 1, Extent(1, 0))
          /\ Z!At(Z!Reverse(g), Between(n, 1, 0)) = Downwards(g, n + 1 - 1, Extent(1, 0))
      BY <3>2, Pieces DEF n
    <3> QED
      BY <3>1, <3>3 DEF P
  <2>4. Upwards(g, 1, 0) = << >> /\ Downwards(g, n, 0) = << >>
    BY DEF Upwards, Downwards
  <2> QED
    BY <1>5, <1>7, <2>1, <2>3, <2>4
<1>8. CASE ~(lo > hi)
  <2> DEFINE a == lo + 1
             b == hi + 1
             m == hi - lo + 1
  <2>1. /\ a \in 1 .. n /\ b \in 1 .. n /\ a <= b /\ m \in Nat /\ m = b - a + 1
        /\ n - lo = n + 1 - a /\ n - lo \in 1 .. n
    BY <1>1, <1>2, <1>3, <1>8
  <2>2. Asked(z, start, stop) = P(a, b)
    <3>1. \A i \in 1 .. n : (first <= i - 1 /\ i - 1 <= last) <=> (a <= i /\ i <= b)
      BY <1>1, <1>2, <1>3, <1>8
    <3> HIDE DEF a, b, n
    <3> QED
      BY <1>6, <3>1 DEF Between
  <2>3. Z!GetElementByRank(z, a) = At(z, g, a) /\ Z!GetElementByRank(z, n - lo) = At(z, g, n + 1 - a)
    BY <2>1, ElementFound
  <2> HIDE DEF a, b, m, lo, hi, n, E
  <2>4. Z!Following(z, At(z, g, a), m, E) = Upwards(g, a, m)
    <3>1. a \in Nat \ {0} /\ n \in 0 .. z.length /\ Room(a, m, n) = m
      BY <1>1, <2>1 DEF Room, n
    <3>2. Z!Following(z, At(z, g, a), m, UpToRank(z, R, n)) = Upwards(g, a, Room(a, m, n))
      BY <2>1, <3>1, MetUpwards
    <3> QED
      BY <1>4, <3>1, <3>2
  <2>5. Z!Preceding(z, At(z, g, n + 1 - a), m, E) = Downwards(g, n + 1 - a, m)
    <3>1. n + 1 - a \in Int /\ n + 1 - a <= z.length /\ 0 \in 0 .. z.length /\ Back(n + 1 - a, m, 0) = m
      BY <1>1, <2>1 DEF Back, n
    <3> QED
      BY <1>4, <2>1, <3>1, MetDownwards
  <2>6. /\ Z!At(g, P(a, b)) = Upwards(g, a, m)
        /\ Z!At(Z!Reverse(g), P(a, b)) = Downwards(g, n + 1 - a, m)
    <3>1. a \in 1 .. z.length + 1 /\ b \in 0 .. z.length
      BY <1>1, <2>1 DEF n
    <3>2. Extent(a, b) = m
      BY <2>1 DEF Extent
    <3> QED
      BY <3>1, <3>2, Pieces DEF n
  <2>7. Z!ZRange(z, start, stop) = Z!Following(z, At(z, g, a), m, E)
        /\ Z!ZRevRange(z, start, stop) = Z!Preceding(z, At(z, g, n + 1 - a), m, E)
    BY <1>5, <1>8, <2>3 DEF a, m
  <2> HIDE DEF P
  <2> QED
    BY <2>2, <2>4, <2>5, <2>6, <2>7
<1> QED
  BY <1>7, <1>8

-----------------------------------------------------------------------------
(* The scores of a range are those of an interval of ranks: lo elements    *)
(* lie below it, and hi below it or in it.                                 *)
ScoreRange(z, R, min, max, lo, hi) ==
    /\ lo \in 0 .. z.length /\ hi \in 0 .. z.length
    /\ Z!ScoredBelow(z, min) = UpToRank(z, R, lo)
    /\ Z!ScoredUpTo(z, max) = UpToRank(z, R, hi)
InScores(z, g, min, max) == {i \in 1 .. z.length : z.node[g[i]].score \in min .. max}

(* Such lo and hi exist, and the members in the range lie between them. *)
LEMMA ScoresFound ==
  ASSUME NEW z, NEW R, NEW H, SkipListOf(z, R, H), NEW g, ByRank(z, R, g),
         NEW min \in Int, NEW max \in Int
  PROVE  \E lo, hi : /\ ScoreRange(z, R, min, max, lo, hi)
                     /\ InScores(z, g, min, max) = Between(z.length, lo + 1, hi)
                     /\ \A i \in 1 .. z.length :
                           /\ z.node[g[i]].score < min <=> i <= lo
                           /\ z.node[g[i]].score <= max <=> i <= hi
<1>1. PICK lo \in 0 .. z.length : Z!ScoredBelow(z, min) = UpToRank(z, R, lo)
  BY SearchedIsUpToRank
<1>2. PICK hi \in 0 .. z.length : Z!ScoredUpTo(z, max) = UpToRank(z, R, hi)
  BY SearchedIsUpToRank
<1>3. /\ z.length \in Nat
      /\ \A i \in 1 .. z.length : g[i] \in Z!Elements(z) /\ R[g[i]] = i
  BY RankedFacts DEF ByRank
<1>4. \A x \in Z!Elements(z) : z.node[x].score \in Int
  BY ScoresAreNumbers
<1>5. ASSUME NEW i \in 1 .. z.length
      PROVE  /\ z.node[g[i]].score < min <=> i <= lo
             /\ z.node[g[i]].score <= max <=> i <= hi
             /\ z.node[g[i]].score \in Int
  <2>1. g[i] \in Z!ScoredBelow(z, min) <=> z.node[g[i]].score < min
    <3>1. Z!ScoredBelow(z, min) = {x \in Z!Elements(z) : z.node[x].score < min}
      BY <1>4, ScoredSets
    <3> QED
      BY <1>3, <3>1
  <2>2. g[i] \in Z!ScoredUpTo(z, max) <=> z.node[g[i]].score <= max
    <3>1. Z!ScoredUpTo(z, max) = {x \in Z!Elements(z) : z.node[x].score <= max}
      BY <1>4, ScoredSets
    <3> QED
      BY <1>3, <3>1
  <2>3. g[i] \in UpToRank(z, R, lo) <=> i <= lo
    BY <1>3 DEF UpToRank
  <2>4. g[i] \in UpToRank(z, R, hi) <=> i <= hi
    BY <1>3 DEF UpToRank
  <2> QED
    BY <1>1, <1>2, <1>3, <1>4, <2>1, <2>2, <2>3, <2>4
<1>6. \A i \in 1 .. z.length : z.node[g[i]].score \in min .. max <=> lo + 1 <= i /\ i <= hi
  <2> SUFFICES ASSUME NEW i \in 1 .. z.length
               PROVE  z.node[g[i]].score \in min .. max <=> lo + 1 <= i /\ i <= hi
    OBVIOUS
  <2> DEFINE score == z.node[g[i]].score
  <2>1. score \in Int /\ (score < min <=> i <= lo) /\ (score <= max <=> i <= hi)
    BY <1>5
  <2> HIDE DEF score
  <2>2. score \in min .. max <=> lo + 1 <= i /\ i <= hi
    BY <1>3, <2>1
  <2> QED
    BY <2>2 DEF score
<1>7. InScores(z, g, min, max) = Between(z.length, lo + 1, hi)
  BY <1>6 DEF InScores, Between
<1>8. ScoreRange(z, R, min, max, lo, hi)
  BY <1>1, <1>2 DEF ScoreRange
<1> QED
  BY <1>5, <1>7, <1>8

(* The node where the search for the elements up to the rank r ends on the *)
(* lowest level, and the next one.                                         *)
LEMMA SearchEnds ==
  ASSUME NEW z, NEW R, NEW H, SkipListOf(z, R, H), NEW g, ByRank(z, R, g), NEW r \in 0 .. z.length
  PROVE  LET end == Z!Path(z, UpToRank(z, R, r))[1]
         IN  /\ end.rank = r /\ end.at = IF r = 0 THEN Z!Header ELSE g[r]
             /\ z.node[end.at].forward[1] = At(z, g, r + 1)
             /\ end.at = Z!Header <=> r = 0
<1> DEFINE end == Z!Path(z, UpToRank(z, R, r))[1]
<1>1. 1 \in 1 .. z.level /\ z.length \in Nat
  <2>1. z.level \in 1 .. MaxLevel /\ z.length \in Nat
    BY RankedFacts DEF SkipListOf, Layered
  <2> QED
    BY <2>1, ConstantsAssumption
<1>2. end \in Places(z, R, H, 1, r) /\ IsLast(z, R, H, 1, r, end.at)
  BY <1>1, PathEnds
<1> HIDE DEF end
<1>3. end.at \in Nodes(z) /\ R[end.at] = r /\ end.rank = r
  BY <1>2, NextByRank DEF Places
<1>4. /\ \A x, y \in Nodes(z) : R[x] = R[y] => x = y
      /\ Z!Header \in Nodes(z) /\ R[Z!Header] = 0 /\ Z!Header \notin Z!Elements(z)
      /\ Z!Elements(z) \subseteq Nodes(z)
  <2>1. Z!Elements(z) \subseteq Nodes(z) /\ Z!Header \notin Z!Elements(z)
    BY DEF Z!Elements, Nodes
  <2> QED
    BY <2>1 DEF SkipListOf, Ranked
<1>5. CASE r = 0
  <2>1. end.at = Z!Header
    BY <1>3, <1>4, <1>5
  <2>2. z.node[Z!Header].forward[1] = At(z, g, 1)
    BY NextAt
  <2> QED
    BY <1>3, <1>5, <2>1, <2>2 DEF end
<1>6. CASE r # 0
  <2>1. r \in 1 .. z.length
    BY <1>1, <1>6
  <2>2. g[r] \in Z!Elements(z) /\ R[g[r]] = r
    BY <2>1 DEF ByRank
  <2>3. end.at = g[r]
    BY <1>3, <1>4, <2>2
  <2>4. z.node[g[r]].forward[1] = At(z, g, r + 1)
    BY <2>1, NextAt
  <2> QED
    BY <1>3, <1>4, <1>6, <2>2, <2>3, <2>4 DEF end
<1> QED
  BY <1>5, <1>6

(* ZCOUNT counts the interval by the ranks of its ends.                    *)
LEMMA CountFound ==
  ASSUME NEW z, NEW R, NEW H, SkipListOf(z, R, H), NEW g, ByRank(z, R, g),
         NEW min \in Int, NEW max \in Int
  PROVE  Z!ZCount(z, min, max) = Cardinality(InScores(z, g, min, max))
<1> DEFINE n == z.length
           first == Z!FirstInRangeRank(z, min)
           last == Z!LastInRangeRank(z, max)
<1>1. PICK lo, hi : /\ ScoreRange(z, R, min, max, lo, hi)
                    /\ InScores(z, g, min, max) = Between(n, lo + 1, hi)
                    /\ \A i \in 1 .. n : /\ z.node[g[i]].score < min <=> i <= lo
                                         /\ z.node[g[i]].score <= max <=> i <= hi
  BY ScoresFound
<1>2. /\ n \in Nat /\ lo \in 0 .. n /\ hi \in 0 .. n
      /\ Z!ScoredBelow(z, min) = UpToRank(z, R, lo) /\ Z!ScoredUpTo(z, max) = UpToRank(z, R, hi)
  BY <1>1, RankedFacts DEF ScoreRange
<1>3. first = IF lo < n THEN lo + 1 ELSE 0
  <2> DEFINE end == Z!Path(z, UpToRank(z, R, lo))[1]
             x == z.node[end.at].forward[1]
  <2>1. end.rank = lo /\ x = At(z, g, lo + 1)
    BY <1>2, SearchEnds
  <2>2. first = IF x # Z!Nil /\ Z!AtMost(min, z.node[x].score) THEN end.rank + 1 ELSE 0
    BY <1>2 DEF Z!FirstInRangeRank
  <2> HIDE DEF end, x, first
  <2>3. CASE lo < n
    <3>1. lo + 1 \in 1 .. n
      BY <1>2, <2>3
    <3>2. x = g[lo + 1] /\ g[lo + 1] \in Z!Elements(z)
      BY <2>1, <3>1 DEF At, ByRank
    <3>3. x # Z!Nil
      BY <3>2, RankedFacts DEF Z!Nil
    <3>4. Z!AtMost(min, z.node[x].score)
      <4>1. ~(z.node[x].score < min)
        BY <1>1, <1>2, <3>1, <3>2
      <4>2. z.node[x].score \in Int
        BY <3>2, ScoresAreNumbers
      <4>3. min <= z.node[x].score
        BY <4>1, <4>2
      <4> QED
        BY <4>2, <4>3, FloatOrder
    <3> QED
      BY <2>1, <2>2, <2>3, <3>3, <3>4
  <2>4. CASE ~(lo < n)
    <3>1. x = Z!Nil
      BY <1>2, <2>1, <2>4 DEF At
    <3> QED
      BY <2>2, <2>4, <3>1
  <2> QED
    BY <2>3, <2>4
<1>4. last = hi
  <2> DEFINE end == Z!Path(z, UpToRank(z, R, hi))[1]
  <2>1. end.rank = hi /\ (end.at = Z!Header <=> hi = 0)
    BY <1>2, SearchEnds
  <2>2. last = IF end.at = Z!Header THEN 0 ELSE end.rank
    BY <1>2 DEF Z!LastInRangeRank
  <2> HIDE DEF end
  <2> QED
    BY <2>1, <2>2
<1>5. Z!ZCount(z, min, max) = IF first = 0 \/ last = 0 \/ first > last THEN 0 ELSE last - first + 1
  BY DEF Z!ZCount
<1> HIDE DEF first, last
<1>6. Z!ZCount(z, min, max) = Extent(lo + 1, hi)
  BY <1>2, <1>3, <1>4, <1>5 DEF Extent
<1>7. Cardinality(Between(n, lo + 1, hi)) = Extent(lo + 1, hi)
  <2>1. lo + 1 \in 1 .. n + 1
    BY <1>2
  <2> HIDE DEF n
  <2> QED
    BY <1>2, <2>1, PieceIs
<1> QED
  BY <1>1, <1>6, <1>7

(* The elements an offset further on, or back.                             *)
LEMMA Skipped ==
  ASSUME NEW z, NEW R, NEW H, SkipListOf(z, R, H), NEW g, ByRank(z, R, g), NEW offset \in Nat
  PROVE  /\ \A j \in 1 .. z.length + 1 : Z!Skip(z, At(z, g, j), offset) = At(z, g, j + offset)
         /\ \A j \in 0 .. z.length : Z!SkipBack(z, At(z, g, j), offset) = At(z, g, j - offset)
<1> DEFINE n == z.length
           E == Z!Elements(z)
<1>1. n \in Nat /\ n \in 0 .. z.length /\ 0 \in 0 .. z.length /\ n = z.length
  BY RankedFacts
<1>2. E = UpToRank(z, R, n) /\ E = AboveRank(z, R, 0)
  <2>1. \A x \in E : R[x] \in 1 .. n
    BY DEF ByRank
  <2> QED
    BY <1>1, <2>1 DEF UpToRank, AboveRank
<1> HIDE DEF n, E
<1>3. ASSUME NEW j \in 1 .. n + 1
      PROVE  Z!Skip(z, At(z, g, j), offset) = At(z, g, j + offset)
  <2> DEFINE s == Z!Following(z, At(z, g, j), n, E)
  <2>1. j \in Nat \ {0} /\ Room(j, n, n) = n + 1 - j
    BY <1>1 DEF Room
  <2>2. s = Upwards(g, j, n + 1 - j)
    <3>1. Z!Following(z, At(z, g, j), n, UpToRank(z, R, n)) = Upwards(g, j, Room(j, n, n))
      BY <1>1, <2>1, MetUpwards
    <3> QED
      BY <1>2, <2>1, <3>1
  <2>3. Z!Skip(z, At(z, g, j), offset) = IF offset < Len(s) THEN s[offset + 1] ELSE Z!Nil
    BY <1>1 DEF Z!Skip, E
  <2> HIDE DEF s
  <2>4. Len(s) = n + 1 - j /\ \A q \in 1 .. n + 1 - j : s[q] = g[j + q - 1]
    BY <1>1, <2>2 DEF Upwards
  <2>5. CASE offset < n + 1 - j
    <3>1. offset + 1 \in 1 .. n + 1 - j /\ j + (offset + 1) - 1 = j + offset /\ j + offset \in 1 .. n
      BY <1>1, <2>5
    <3>2. At(z, g, j + offset) = g[j + offset]
      BY <1>1, <3>1 DEF At
    <3>3. s[offset + 1] = g[j + (offset + 1) - 1]
      BY <2>4, <3>1
    <3> QED
      BY <2>3, <2>4, <2>5, <3>1, <3>2, <3>3
  <2>6. CASE ~(offset < n + 1 - j)
    <3>1. At(z, g, j + offset) = Z!Nil
      BY <1>1, <2>6 DEF At
    <3> QED
      BY <2>3, <2>4, <2>6, <3>1
  <2> QED
    BY <2>5, <2>6
<1>4. ASSUME NEW j \in 0 .. n
      PROVE  Z!SkipBack(z, At(z, g, j), offset) = At(z, g, j - offset)
  <2> DEFINE s == Z!Preceding(z, At(z, g, j), n, E)
  <2>1. j \in Int /\ j <= z.length /\ Back(j, n, 0) = j
    BY <1>1 DEF Back
  <2>2. s = Downwards(g, j, j)
    <3>1. Z!Preceding(z, At(z, g, j), n, AboveRank(z, R, 0)) = Downwards(g, j, Back(j, n, 0))
      BY <1>1, <2>1, MetDownwards
    <3> QED
      BY <1>2, <2>1, <3>1
  <2>3. Z!SkipBack(z, At(z, g, j), offset) = IF offset < Len(s) THEN s[offset + 1] ELSE Z!Nil
    BY <1>1 DEF Z!SkipBack, E
  <2> HIDE DEF s
  <2>4. Len(s) = j /\ \A q \in 1 .. j : s[q] = g[j - q + 1]
    BY <1>1, <2>2 DEF Downwards
  <2>5. CASE offset < j
    <3>1. offset + 1 \in 1 .. j /\ j - (offset + 1) + 1 = j - offset /\ j - offset \in 1 .. n
      BY <1>1, <2>5
    <3>2. At(z, g, j - offset) = g[j - offset]
      BY <1>1, <3>1 DEF At
    <3>3. s[offset + 1] = g[j - (offset + 1) + 1]
      BY <2>4, <3>1
    <3> QED
      BY <2>3, <2>4, <2>5, <3>1, <3>2, <3>3
  <2>6. CASE ~(offset < j)
    <3>1. At(z, g, j - offset) = Z!Nil
      BY <1>1, <2>6 DEF At
    <3> QED
      BY <2>3, <2>4, <2>6, <3>1
  <2> QED
    BY <2>5, <2>6
<1> QED
  BY <1>3, <1>4 DEF n

(* A cut of an interval as a piece of the sorted elements, both ways.      *)
Left(a, b, offset, count) ==
    Extent(a + offset, IF count > 0 /\ a + offset + count - 1 < b THEN a + offset + count - 1 ELSE b)

(* Both reads of a cut. *)
LEMMA CutPieces ==
  ASSUME NEW z, NEW R, NEW H, SkipListOf(z, R, H), NEW g, ByRank(z, R, g),
         NEW a \in 1 .. z.length + 1, NEW b \in 0 .. z.length, NEW offset \in Nat, NEW count \in Nat
  PROVE  LET P == Cut(Between(z.length, a, b), offset, count)
             c == Left(a, b, offset, count)
         IN  /\ Z!At(g, P) = Upwards(g, a + offset, c)
             /\ Z!At(Z!Reverse(g), P) = Downwards(g, z.length + 1 - a - offset, c)
<1> DEFINE n == z.length
           P == Cut(Between(n, a, b), offset, count)
           c == Left(a, b, offset, count)
           j == a + offset
           e == IF count > 0 /\ a + offset + count - 1 < b THEN a + offset + count - 1 ELSE b
<1>1. n \in Nat /\ a \in 1 .. n + 1 /\ b \in 0 .. n
  BY RankedFacts
<1>2. P = {i \in 1 .. n : a + offset <= i /\ i <= b /\ (count > 0 => i <= a + offset + count - 1)}
  <2> HIDE DEF n
  <2> QED
    BY <1>1, CutIs
<1>3. j \in Nat \ {0} /\ e \in 0 .. n
  BY <1>1
<1>4. P = {i \in 1 .. n : j <= i /\ i <= e}
  <2>1. \A i \in 1 .. n : (a + offset <= i /\ i <= b /\ (count > 0 => i <= a + offset + count - 1))
                            <=> (j <= i /\ i <= e)
    BY <1>1
  <2> HIDE DEF P, n, j, e
  <2> QED
    BY <1>2, <2>1
<1>5. c = Extent(j, e)
  BY DEF Left
<1> HIDE DEF j, e, c, P
<1>6. CASE j <= n + 1
  <2>1. j \in 1 .. n + 1
    BY <1>1, <1>3, <1>6
  <2>2. P = Between(n, j, e)
    BY <1>4 DEF Between
  <2>3. Z!At(g, P) = Upwards(g, j, c) /\ Z!At(Z!Reverse(g), P) = Downwards(g, n + 1 - j, c)
    BY <1>3, <1>5, <2>1, <2>2, Pieces
  <2>4. n + 1 - j = n + 1 - a - offset
    BY <1>1 DEF j
  <2> QED
    BY <2>3, <2>4 DEF c, P, j
<1>7. CASE ~(j <= n + 1)
  <2>1. c = 0 /\ P = {} /\ Between(n, 1, 0) = {} /\ Extent(1, 0) = 0
    BY <1>1, <1>3, <1>4, <1>5, <1>7 DEF Extent, Between
  <2>2. 1 \in 1 .. n + 1 /\ 0 \in 0 .. n
    BY <1>1
  <2>3. Z!At(g, {}) = Upwards(g, 1, 0) /\ Z!At(Z!Reverse(g), {}) = Downwards(g, n + 1 - 1, 0)
    BY <2>1, <2>2, Pieces
  <2>4. \A x : Upwards(g, x, 0) = << >> /\ Downwards(g, x, 0) = << >>
    BY DEF Upwards, Downwards
  <2> QED
    BY <2>1, <2>3, <2>4 DEF c, P
<1> QED
  BY <1>6, <1>7

(* The members in a range of scores, from both ends.                       *)
LEMMA ScoreRangeFound ==
  ASSUME NEW z, NEW R, NEW H, SkipListOf(z, R, H), NEW g, ByRank(z, R, g),
         NEW min \in Int, NEW max \in Int, NEW offset \in Nat, NEW count \in Nat
  PROVE  Z!ZRangeByScore(z, min, max, offset, count)
           = Z!At(g, Cut(InScores(z, g, min, max), offset, count))
<1> DEFINE n == z.length
           m == IF count > 0 THEN count ELSE n
<1>1. PICK lo, hi : /\ ScoreRange(z, R, min, max, lo, hi)
                    /\ InScores(z, g, min, max) = Between(n, lo + 1, hi)
                    /\ \A i \in 1 .. n : /\ z.node[g[i]].score < min <=> i <= lo
                                         /\ z.node[g[i]].score <= max <=> i <= hi
  BY ScoresFound
<1>2. /\ n \in Nat /\ lo \in 0 .. n /\ hi \in 0 .. n /\ lo + 1 \in 1 .. n + 1
      /\ Z!ScoredBelow(z, min) = UpToRank(z, R, lo) /\ Z!ScoredUpTo(z, max) = UpToRank(z, R, hi)
  BY <1>1, RankedFacts DEF ScoreRange
<1> DEFINE end == Z!Path(z, UpToRank(z, R, lo))[1].at
           first == z.node[end].forward[1]
           c == Left(lo + 1, hi, offset, count)
<1>3. first = At(z, g, lo + 1)
  BY <1>2, SearchEnds
<1>4. Z!ZRangeByScore(z, min, max, offset, count) =
         IF first = Z!Nil \/ Z!Less(max, z.node[first].score) THEN << >>
         ELSE Z!Following(z, Z!Skip(z, first, offset), m, UpToRank(z, R, hi))
  BY <1>2 DEF Z!ZRangeByScore
<1>5. Z!At(g, Cut(InScores(z, g, min, max), offset, count)) = Upwards(g, lo + 1 + offset, c)
  <2> HIDE DEF c
  <2> QED
    BY <1>1, <1>2, CutPieces DEF c
<1> HIDE DEF end, first
<1>6. first = Z!Nil \/ Z!Less(max, z.node[first].score) <=> lo + 1 > hi
  <2>1. CASE lo = n
    BY <1>2, <1>3, <2>1 DEF At
  <2>2. CASE lo # n
    <3>1. lo + 1 \in 1 .. n
      BY <1>2, <2>2
    <3>2. first = g[lo + 1] /\ g[lo + 1] \in Z!Elements(z)
      BY <1>3, <3>1 DEF At, ByRank
    <3>3. first # Z!Nil /\ z.node[first].score \in Int
      BY <3>2, RankedFacts, ScoresAreNumbers DEF Z!Nil
    <3>4. z.node[first].score <= max <=> lo + 1 <= hi
      BY <1>1, <3>1, <3>2
    <3>5. Z!Less(max, z.node[first].score) <=> max < z.node[first].score
      BY <3>3, FloatOrder
    <3> QED
      BY <1>2, <3>3, <3>4, <3>5
  <2> QED
    BY <2>1, <2>2
<1>7. CASE lo + 1 > hi
  <2>1. c = 0
    BY <1>2, <1>7 DEF Left, Extent
  <2> HIDE DEF c
  <2>2. Upwards(g, lo + 1 + offset, 0) = << >>
    BY DEF Upwards
  <2> QED
    BY <1>4, <1>5, <1>6, <1>7, <2>1, <2>2
<1>8. CASE ~(lo + 1 > hi)
  <2>1. Z!Skip(z, first, offset) = At(z, g, lo + 1 + offset)
    <3>1. \A j \in 1 .. n + 1 : Z!Skip(z, At(z, g, j), offset) = At(z, g, j + offset)
      BY Skipped
    <3> HIDE DEF n
    <3> QED
      BY <1>2, <1>3, <3>1
  <2>2. lo + 1 + offset \in Nat \ {0} /\ m \in Nat /\ hi \in 0 .. z.length
    BY <1>2
  <2>3. Room(lo + 1 + offset, m, hi) = c
    BY <1>2, <1>8 DEF Room, Left, Extent
  <2> HIDE DEF c, m
  <2>4. Z!Following(z, At(z, g, lo + 1 + offset), m, UpToRank(z, R, hi)) = Upwards(g, lo + 1 + offset, c)
    BY <2>2, <2>3, MetUpwards
  <2> QED
    BY <1>4, <1>5, <1>6, <1>8, <2>1, <2>4
<1> QED
  BY <1>7, <1>8

(* Positions counted from the end.                                         *)
Mirrored(n, P) == {n + 1 - i : i \in P}

(* The same from the greatest score down. *)
LEMMA RevScoreRangeFound ==
  ASSUME NEW z, NEW R, NEW H, SkipListOf(z, R, H), NEW g, ByRank(z, R, g),
         NEW min \in Int, NEW max \in Int, NEW offset \in Nat, NEW count \in Nat
  PROVE  Z!ZRevRangeByScore(z, max, min, offset, count)
           = Z!At(Z!Reverse(g), Cut(Mirrored(z.length, InScores(z, g, min, max)), offset, count))
<1> DEFINE n == z.length
           m == IF count > 0 THEN count ELSE n
<1>1. PICK lo, hi : /\ ScoreRange(z, R, min, max, lo, hi)
                    /\ InScores(z, g, min, max) = Between(n, lo + 1, hi)
                    /\ \A i \in 1 .. n : /\ z.node[g[i]].score < min <=> i <= lo
                                         /\ z.node[g[i]].score <= max <=> i <= hi
  BY ScoresFound
<1>2. /\ n \in Nat /\ lo \in 0 .. n /\ hi \in 0 .. n
      /\ Z!ScoredBelow(z, min) = UpToRank(z, R, lo) /\ Z!ScoredUpTo(z, max) = UpToRank(z, R, hi)
  BY <1>1, RankedFacts DEF ScoreRange
<1> DEFINE last == Z!Path(z, UpToRank(z, R, hi))[1].at
           a == n + 1 - hi
           b == n - lo
           c == Left(a, b, offset, count)
<1>3. last = (IF hi = 0 THEN Z!Header ELSE g[hi]) /\ (last = Z!Header <=> hi = 0)
  BY <1>2, SearchEnds
<1>4. Z!ZRevRangeByScore(z, max, min, offset, count) =
         IF last = Z!Header \/ Z!Less(z.node[last].score, min) THEN << >>
         ELSE Z!Preceding(z, Z!SkipBack(z, last, offset), m, AboveRank(z, R, lo))
  <2>1. Z!Elements(z) \ UpToRank(z, R, lo) = AboveRank(z, R, lo)
    <3>1. \A x \in Z!Elements(z) : R[x] \in Nat
      BY <1>2 DEF ByRank
    <3>2. \A x \in Z!Elements(z) : ~(R[x] <= lo) <=> R[x] > lo
      BY <1>2, <3>1
    <3> QED
      BY <3>2 DEF UpToRank, AboveRank
  <2>2. Z!ScoredFrom(z, min) = Z!Elements(z) \ Z!ScoredBelow(z, min)
    BY ScoresAreNumbers, ScoredSets
  <2> QED
    BY <1>2, <2>1, <2>2 DEF Z!ZRevRangeByScore
<1>5. a \in 1 .. n + 1 /\ b \in 0 .. n /\ n + 1 - a - offset = hi - offset
  BY <1>2
<1>6. Mirrored(n, Between(n, lo + 1, hi)) = Between(n, a, b)
  <2>1. ASSUME NEW i \in Between(n, lo + 1, hi)
        PROVE  n + 1 - i \in Between(n, a, b)
    BY <1>2, <2>1 DEF Between
  <2>2. ASSUME NEW i \in Between(n, a, b)
        PROVE  n + 1 - i \in Between(n, lo + 1, hi) /\ n + 1 - (n + 1 - i) = i
    BY <1>2, <2>2 DEF Between
  <2> HIDE DEF n, a, b
  <2> QED
    BY <2>1, <2>2 DEF Mirrored
<1>7. Z!At(Z!Reverse(g), Cut(Mirrored(n, InScores(z, g, min, max)), offset, count))
        = Downwards(g, hi - offset, c)
  <2>1. Mirrored(n, InScores(z, g, min, max)) = Between(n, a, b)
    BY <1>1, <1>6
  <2> HIDE DEF a, b, c
  <2>2. Z!At(Z!Reverse(g), Cut(Between(n, a, b), offset, count)) = Downwards(g, n + 1 - a - offset, c)
    BY <1>5, CutPieces DEF c
  <2> QED
    BY <1>5, <2>1, <2>2
<1> HIDE DEF last
<1>8. last = Z!Header \/ Z!Less(z.node[last].score, min) <=> hi <= lo
  <2>1. CASE hi = 0
    BY <1>2, <1>3, <2>1
  <2>2. CASE hi # 0
    <3>1. hi \in 1 .. n
      BY <1>2, <2>2
    <3>2. last = g[hi] /\ last # Z!Header
      BY <1>3, <2>2
    <3>3. z.node[last].score < min <=> hi <= lo
      BY <1>1, <3>1, <3>2
    <3>4. z.node[last].score \in Int
      BY <3>1, <3>2, ScoresAreNumbers DEF ByRank
    <3>5. Z!Less(z.node[last].score, min) <=> z.node[last].score < min
      BY <3>4, FloatOrder
    <3> QED
      BY <3>2, <3>3, <3>5
  <2> QED
    BY <2>1, <2>2
<1>9. CASE hi <= lo
  <2>1. c = 0
    BY <1>2, <1>9 DEF Left, Extent
  <2> HIDE DEF c
  <2>2. Downwards(g, hi - offset, 0) = << >>
    BY DEF Downwards
  <2> QED
    BY <1>4, <1>7, <1>8, <1>9, <2>1, <2>2
<1>10. CASE ~(hi <= lo)
  <2>1. last = At(z, g, hi) /\ hi \in 1 .. n
    <3>1. hi \in 1 .. n
      BY <1>2, <1>10
    <3> QED
      BY <1>3, <3>1 DEF At
  <2>2. Z!SkipBack(z, last, offset) = At(z, g, hi - offset)
    BY <1>2, <2>1, Skipped
  <2>3. hi - offset \in Int /\ hi - offset <= z.length /\ m \in Nat /\ lo \in 0 .. z.length
    BY <1>2
  <2>4. Back(hi - offset, m, lo) = c
    BY <1>2, <1>10 DEF Back, Left, Extent
  <2> HIDE DEF c, m
  <2>5. Z!Preceding(z, At(z, g, hi - offset), m, AboveRank(z, R, lo)) = Downwards(g, hi - offset, c)
    BY <2>3, <2>4, MetDownwards
  <2> QED
    BY <1>4, <1>7, <1>8, <1>10, <2>2, <2>5
<1> QED
  BY <1>9, <1>10

-----------------------------------------------------------------------------
(* What the engine's reads must give for one sorted set.                   *)
ExactReads(v) ==
    LET z == v.zsl
        dict == v.dict
        s == Z!Sorted(dict)
        Indices == -(Len(s) + 1) .. Len(s) + 1
        scored(min, max) == {i \in DOMAIN s : dict[s[i]] \in min .. max}
        cut(P, offset, count) ==
            {i \in P : LET n == Z!Cardinality({j \in P : j <= i})
                       IN  n > offset /\ (count > 0 => n <= offset + count)}
    IN  /\ \A i \in DOMAIN s : /\ Z!ZRank(v, s[i]) = i - 1
                               /\ Z!ZRevRank(v, s[i]) = Len(s) - i
        /\ \A start, stop \in Indices :
              LET P == {i \in DOMAIN s : i - 1 \in Z!Resolve(z, start) .. Z!Resolve(z, stop)}
              IN  /\ Z!ZRange(z, start, stop) = Z!At(s, P)
                  /\ Z!ZRevRange(z, start, stop) = Z!At(Z!Reverse(s), P)
        /\ \A min, max \in Score :
              /\ Z!ZCount(z, min, max) = Z!Cardinality(scored(min, max))
              /\ \A offset, count \in 0 .. Len(s) :
                    LET back == {Len(s) + 1 - i : i \in scored(min, max)}
                    IN  /\ Z!ZRangeByScore(z, min, max, offset, count)
                               = Z!At(s, cut(scored(min, max), offset, count))
                        /\ Z!ZRevRangeByScore(z, max, min, offset, count)
                               = Z!At(Z!Reverse(s), cut(back, offset, count))

(* A sorted set is read exactly.                                           *)
LEMMA ReadsExact ==
  ASSUME NEW v \in SortedSets
  PROVE  ExactReads(v)
<1> DEFINE z == v.zsl
           n == z.length
           s == Z!Sorted(v.dict)
           scored(min, max) == {i \in DOMAIN s : v.dict[s[i]] \in min .. max}
           asked(start, stop) ==
               {i \in DOMAIN s : i - 1 \in Z!Resolve(z, start) .. Z!Resolve(z, stop)}
           mirrored(min, max) == {Len(s) + 1 - i : i \in scored(min, max)}
<1>1. z \in SkipLists /\ v.dict = Scores(z)
  BY SortedSetFacts
<1>2. IsSkipList(z)
  BY <1>1, OutOfSkipLists
<1>3. PICK R, H : SkipListOf(z, R, H)
  BY <1>2 DEF IsSkipList
<1>4. PICK g : ByRank(z, R, g)
  BY <1>3, ElementsByRank
<1>5. s = g
  BY <1>1, <1>3, <1>4, SortedIs
<1>6. /\ n \in Nat /\ g \in [1 .. n -> Z!Elements(z)] /\ DOMAIN s = 1 .. n
      /\ \A i \in 1 .. n : g[i] \in Z!Elements(z) /\ R[g[i]] = i
  BY <1>3, <1>4, <1>5, RankedFacts DEF ByRank
<1>7. Len(s) = n
  <2> HIDE DEF n, s
  <2> QED
    BY <1>5, <1>6
<1>8. \A x \in Z!Elements(z) : v.dict[x] = z.node[x].score
  BY <1>1 DEF Scores
<1> HIDE DEF s, n, z
<1>9. ASSUME NEW i \in 1 .. n
      PROVE  Z!ZRank(v, s[i]) = i - 1 /\ Z!ZRevRank(v, s[i]) = n - i
  <2>1. s[i] \in Z!Elements(z) /\ R[s[i]] = i
    BY <1>5, <1>6
  <2>2. Z!GetRank(z, z.node[s[i]].score, s[i]) = i
    BY <1>3, <2>1, RankFound
  <2>3. Z!GetRank(v.zsl, v.dict[s[i]], s[i]) = i
    BY <1>8, <2>1, <2>2 DEF z
  <2> QED
    BY <2>3 DEF Z!ZRank, Z!ZRevRank, n, z
<1>10. ASSUME NEW start \in Int, NEW stop \in Int
       PROVE  /\ Z!ZRange(z, start, stop) = Z!At(s, asked(start, stop))
              /\ Z!ZRevRange(z, start, stop) = Z!At(Z!Reverse(s), asked(start, stop))
  <2>1. asked(start, stop) = Asked(z, start, stop)
    BY <1>6 DEF Asked, n
  <2> HIDE DEF asked
  <2> QED
    BY <1>3, <1>4, <1>5, <2>1, RangesFound
<1>11. ASSUME NEW min \in Int, NEW max \in Int
       PROVE  scored(min, max) = InScores(z, g, min, max)
  <2>1. \A i \in 1 .. n : v.dict[s[i]] = z.node[g[i]].score
    BY <1>5, <1>6, <1>8
  <2>2. scored(min, max) = {i \in 1 .. n : v.dict[s[i]] \in min .. max}
    BY <1>6
  <2> HIDE DEF scored
  <2> QED
    BY <2>1, <2>2 DEF InScores, n
<1> HIDE DEF scored
<1>12. ASSUME NEW min \in Int, NEW max \in Int
       PROVE  Z!ZCount(z, min, max) = Z!Cardinality(scored(min, max))
  <2>1. Z!ZCount(z, min, max) = Cardinality(InScores(z, g, min, max))
    BY <1>3, <1>4, CountFound
  <2>2. Cardinality(scored(min, max)) = Z!Cardinality(scored(min, max))
    BY DEF Z!Cardinality, Cardinality
  <2> QED
    BY <1>11, <2>1, <2>2
<1>13. ASSUME NEW min \in Int, NEW max \in Int, NEW offset \in Nat, NEW count \in Nat
       PROVE  /\ Z!ZRangeByScore(z, min, max, offset, count)
                    = Z!At(s, Cut(scored(min, max), offset, count))
              /\ Z!ZRevRangeByScore(z, max, min, offset, count)
                    = Z!At(Z!Reverse(s), Cut(mirrored(min, max), offset, count))
  <2>1. Z!ZRangeByScore(z, min, max, offset, count)
          = Z!At(g, Cut(InScores(z, g, min, max), offset, count))
    BY <1>3, <1>4, ScoreRangeFound
  <2>2. Z!ZRevRangeByScore(z, max, min, offset, count)
          = Z!At(Z!Reverse(g), Cut(Mirrored(z.length, InScores(z, g, min, max)), offset, count))
    BY <1>3, <1>4, RevScoreRangeFound
  <2>3. mirrored(min, max) = Mirrored(z.length, InScores(z, g, min, max))
    BY <1>7, <1>11 DEF Mirrored, n
  <2> HIDE DEF mirrored
  <2> QED
    BY <1>5, <1>11, <2>1, <2>2, <2>3
<1>14. \A i \in DOMAIN s : Z!ZRank(v, s[i]) = i - 1 /\ Z!ZRevRank(v, s[i]) = Len(s) - i
  BY <1>6, <1>7, <1>9
<1>15. \A start, stop \in -(Len(s) + 1) .. Len(s) + 1 :
          /\ Z!ZRange(z, start, stop) = Z!At(s, asked(start, stop))
          /\ Z!ZRevRange(z, start, stop) = Z!At(Z!Reverse(s), asked(start, stop))
  <2>1. \A i \in -(Len(s) + 1) .. Len(s) + 1 : i \in Int
    OBVIOUS
  <2> HIDE DEF asked
  <2> QED
    BY <1>10, <2>1
<1>16. \A min, max \in Score :
          /\ Z!ZCount(z, min, max) = Z!Cardinality(scored(min, max))
          /\ \A offset, count \in 0 .. Len(s) :
                /\ Z!ZRangeByScore(z, min, max, offset, count)
                      = Z!At(s, Cut(scored(min, max), offset, count))
                /\ Z!ZRevRangeByScore(z, max, min, offset, count)
                      = Z!At(Z!Reverse(s), Cut(mirrored(min, max), offset, count))
  <2>1. Score \subseteq Int
    BY ConstantsAssumption
  <2>2. \A i \in 0 .. Len(s) : i \in Nat
    OBVIOUS
  <2> HIDE DEF mirrored
  <2> QED
    BY <1>12, <1>13, <2>1, <2>2
<1> QED
  BY <1>14, <1>15, <1>16, Zenon DEF ExactReads, Cut, scored, s, z

(* ZRANK, ZRANGE, ZCOUNT, ZRANGEBYSCORE and their reverses (zset_storage)  *)
(* read from the links and spans what a sorted list of the members would   *)
(* give: for any number of members, any levels, any float64s as scores but *)
(* NaN, and all indices, bounds, offsets and counts the property asks for. *)
THEOREM ReadsAreExact == Spec => []ReadsMeetReference
<1>1. SortedSetInvariant => ReadsMeetReference
  <2> SUFFICES ASSUME SortedSetState
               PROVE  Z!ReadsMeetReference
    BY DEF SortedSetInvariant, ReadsMeetReference
  <2>1. Z!ReadsMeetReference <=> \A k \in ZKey : data[k] # Absent => ExactReads(data[k])
    BY Zenon DEF Z!ReadsMeetReference, ExactReads
  <2>2. \A k \in ZKey : data[k] # Absent => data[k] \in SortedSets
    BY DEF SortedSetState, SortedSetOrAbsent
  <2> QED
    BY <2>1, <2>2, ReadsExact
<1> QED
  BY <1>1, SortedSetsSafe, PTL

-----------------------------------------------------------------------------
(* The engines together. *)
ReplyType == kind = "set" => reply \in [{"exact", "ownSource", "disturbed"} -> BOOLEAN]

(* ReplyType holds in every state. *)
LEMMA RepliesTyped == Spec => []ReplyType
<1>1. Init => ReplyType
  <2>1. Init /\ kind = "set" => reply = [exact |-> TRUE, ownSource |-> FALSE, disturbed |-> FALSE]
    BY DEF Init, S!Init, S!Idle
  <2>2. [exact |-> TRUE, ownSource |-> FALSE, disturbed |-> FALSE]
          \in [{"exact", "ownSource", "disturbed"} -> BOOLEAN]
    <3>1. \A a, b, c \in BOOLEAN : [exact |-> a, ownSource |-> b, disturbed |-> c]
                                    \in [{"exact", "ownSource", "disturbed"} -> BOOLEAN]
      OBVIOUS
    <3> QED
      BY <3>1, Zenon
  <2> QED
    BY <2>1, <2>2 DEF ReplyType
<1>2. SetInvariant /\ ReplyType /\ [Next]_vars => ReplyType'
  <2> SUFFICES ASSUME SetInvariant, ReplyType, [Next]_vars, kind' = "set"
               PROVE  reply' \in [{"exact", "ownSource", "disturbed"} -> BOOLEAN]
    BY DEF ReplyType
  <2>1. kind = "set" /\ reply \in [{"exact", "ownSource", "disturbed"} -> BOOLEAN]
    BY DEF Next, vars, ReplyType
  <2>2. CASE UNCHANGED reply
    BY <2>1, <2>2
  <2>3. CASE S!StoreWrite
    <3>1. reading # None /\ reading.disturbed \in BOOLEAN
      BY <2>1, <2>3 DEF S!StoreWrite, SetInvariant, ReadingIsValid
    <3> DEFINE exact == S!Members(data', reading.dst) = reading.result
               own == reading.dst \in S!ToSet(reading.keys)
    <3>2. reply' = [exact |-> exact, ownSource |-> own, disturbed |-> reading.disturbed]
      BY <2>3 DEF S!StoreWrite
    <3>3. exact \in BOOLEAN /\ own \in BOOLEAN
      OBVIOUS
    <3> HIDE DEF exact, own
    <3> QED
      BY <3>1, <3>2, <3>3
  <2>4. UNCHANGED vars => UNCHANGED reply
    BY DEF vars
  <2>5. S!Next => UNCHANGED reply \/ S!StoreWrite
    BY DEF S!Next, S!SAdd, S!SRem, S!SPop, S!SMove, S!Delete, S!StoreRead, S!Restart, S!Command
  <2> QED
    BY <2>1, <2>2, <2>3, <2>4, <2>5 DEF Next
<1> QED
  BY <1>1, <1>2, SetsSafe, PTL DEF Spec

(* Whatever kind CREATE has made the instance of, its state is well        *)
(* formed, and no key is there with an empty collection: popNoLock and     *)
(* the like of the three engines delete the key with the last element.     *)
THEOREM Typing == Spec => []TypeOK
<1>1. Spec => [](kind \in {"list", "set", "zset"})
  <2>1. Init => kind \in {"list", "set", "zset"}
    BY DEF Init
  <2>2. kind \in {"list", "set", "zset"} /\ [Next]_vars => (kind \in {"list", "set", "zset"})'
    BY DEF Next, vars
  <2> QED
    BY <2>1, <2>2, PTL DEF Spec
<1>2. SetInvariant /\ ReplyType => (kind = "set" => S!TypeOK)
  <2> SUFFICES ASSUME SetInvariant, ReplyType, kind = "set"
               PROVE  S!TypeOK
    OBVIOUS
  <2>1. {data, disk} \subseteq [Key -> ((SUBSET Value) \ {{}}) \cup {Absent}]
    BY DEF SetInvariant, SetOrAbsent
  <2>2. reading = None \/ reading.result \subseteq Value
    BY DEF SetInvariant, ReadingIsValid
  <2>3. reply \in [{"exact", "ownSource", "disturbed"} -> BOOLEAN]
    BY DEF ReplyType
  <2> QED
    BY <2>1, <2>2, <2>3 DEF S!TypeOK
<1>3. /\ kind \in {"list", "set", "zset"}
      /\ kind = "list" => L!TypeOK /\ L!ReplayMatchesLive
      /\ kind = "set" => S!TypeOK
      /\ kind = "zset" => Z!TypeOK /\ Z!ReplayMatchesLive
      => TypeOK
  BY DEF TypeOK
<1> QED
  BY <1>1, <1>2, <1>3, SetsSafe, RepliesTyped, ListsReplay, SortedSetsReplay, PTL

(* For an instance of any kind, what a restart makes of the log is what    *)
(* its engine holds, although the lines say what was asked for, not what   *)
(* was found; the exceptions are LSET with an index below 0 and scores     *)
(* that are NaN.                                                           *)
THEOREM ReplayGivesLive == Spec => []ReplayMatchesLive
<1>1. /\ kind = "list" => L!TypeOK /\ L!ReplayMatchesLive
      /\ kind = "set" => S!ReplayMatchesLive
      /\ kind = "zset" => Z!TypeOK /\ Z!ReplayMatchesLive
      => ReplayMatchesLive
  BY DEF ReplayMatchesLive
<1> QED
  BY <1>1, SetsReplay, ListsReplay, SortedSetsReplay, PTL
=============================================================================
