--------------------------- MODULE KVStorageProofs ---------------------------
(***************************************************************************)
(* Proofs about the key-value engine, its expiry heap, its log and the     *)
(* replay, for any keys, readers and times to live, any number of commands *)
(* and restarts, and integers of any width.                                *)
(***************************************************************************)
EXTENDS KVStorage, SequenceLemmas

Payload == [value : Value, expires : Time]
Data    == UNION {[K -> Payload] : K \in SUBSET Key}
Times   == UNION {[K -> Time] : K \in SUBSET Key}

(* A store whose heap holds the keys with an expiry, at that expiry. *)
State == {s \in [data : Data, heap : Times] : s.heap = FromSnapshot(s.data).heap}

Typed ==
    /\ store \in State /\ snapshot \in Data /\ log \in Seq(Line)
    /\ seen \in [Reader -> [keys : SUBSET Key, recheck : BOOLEAN]]
    /\ now \in 1 .. MaxTime
    /\ commands \in 0 .. MaxCommands
    /\ snapshots \in 0 .. MaxSnapshots /\ restarts \in 0 .. MaxRestarts

HasLine(lines, k) == \E i \in DOMAIN lines : lines[i].key = k

(* Two stores hold the same for a key. *)
Same(d, e, k) == /\ k \in DOMAIN d <=> k \in DOMAIN e
                 /\ k \in DOMAIN d => d[k] = e[k]

(* The line of a key after which there is no other about it. *)
IsLast(lines, i, k) == /\ i \in DOMAIN lines /\ lines[i].key = k
                       /\ \A j \in DOMAIN lines : j > i => lines[j].key # k

(* The log has x for the key: what the data are, with or without the       *)
(* fraction of the second, or, if they are not there, what may have        *)
(* expired.                                                                *)
Tells(x, d, k, t) ==
    IF k \in DOMAIN d
    THEN x.value = d[k].value /\ x.expires \in {d[k].expires, InSeconds(d[k].expires)}
    ELSE x.expires # Never /\ x.expires <= t

LineTells(l, d, t) == IF l.op = "DELETE" THEN l.key \notin DOMAIN d ELSE Tells(l, d, l.key, t)

(* The last line of a key is about what the store holds, unless the replay *)
(* would skip it; of a key without a line the snapshot is.                 *)
LogTells(k) ==
    /\ ~HasLine(log, k) => /\ k \in DOMAIN store.data => k \in DOMAIN snapshot
                           /\ k \in DOMAIN snapshot => Tells(snapshot[k], store.data, k, now)
    /\ \A i \in DOMAIN log : IsLast(log, i, k) =>
          \/ log[i].op = "SET" /\ IsExpired(log[i])
          \/ LineTells(log[i], store.data, now)

IInv == Typed /\ \A k \in Key : LogTells(k)

-----------------------------------------------------------------------------
(* The data and the heap.                                                  *)
LEMMA TimesInSeconds ==
  ASSUME NEW t \in Time
  PROVE  /\ InSeconds(t) \in Time
         /\ InSeconds(t) = Never <=> t = Never
         /\ t # Never => InSeconds(t) <= t
<1>1. CASE t = Never
  BY <1>1 DEF InSeconds, Time
<1>2. CASE t # Never
  <2>1. t \in Int /\ InSeconds(t) = t - (t % Second)
    BY <1>2 DEF InSeconds, Time
  <2>2. t - (t % Second) \in Int /\ t - (t % Second) <= t
    BY <2>1, ConstantsAssumption
  <2> QED
    BY <1>2, <2>1, <2>2, ConstantsAssumption DEF Time
<1> QED
  BY <1>1, <1>2

LEMMA WordsWrap == \A n \in Int : Wrap(n) \in Word
<1>1. Half \in Nat \ {0}
  BY ConstantsAssumption
<1>2. \A n \in Int : ((n + Half) % (2 * Half)) - Half \in -Half .. Half - 1
  BY <1>1
<1> QED
  BY <1>2 DEF Wrap, Word

LEMMA StateFacts ==
  ASSUME NEW s \in State
  PROVE  /\ s = [data |-> s.data, heap |-> s.heap]
         /\ DOMAIN s.data \subseteq Key /\ s.data \in Data
         /\ \A k \in DOMAIN s.data : s.data[k] \in Payload
         /\ DOMAIN s.heap = {k \in DOMAIN s.data : s.data[k].expires # Never}
         /\ \A k \in DOMAIN s.heap : s.heap[k] = s.data[k].expires
BY DEF State, Data, FromSnapshot

LEMMA DataFacts ==
  ASSUME NEW d \in Data
  PROVE  DOMAIN d \subseteq Key /\ \A k \in DOMAIN d : d[k] \in Payload
BY DEF Data

(* A store with these data and this heap. *)
LEMMA IsState ==
  ASSUME NEW K \in SUBSET Key, NEW d \in [K -> Payload], NEW h,
         h = [k \in {j \in K : d[j].expires # Never} |-> d[k].expires]
  PROVE  [data |-> d, heap |-> h] \in State
<1>1. d \in Data /\ DOMAIN d = K
  BY DEF Data
<1>2. h \in [{j \in K : d[j].expires # Never} -> Time]
  BY DEF Payload
<1>3. h \in Times
  BY <1>2 DEF Times
<1>4. h = FromSnapshot(d).heap
  BY <1>1 DEF FromSnapshot
<1> QED
  BY <1>1, <1>3, <1>4 DEF State

LEMMA FromSnapshotState ==
  ASSUME NEW d \in Data
  PROVE  FromSnapshot(d) \in State /\ FromSnapshot(d).data = d
<1>1. PICK K \in SUBSET Key : d \in [K -> Payload]
  BY DEF Data
<1> QED
  BY <1>1, IsState DEF FromSnapshot

LEMMA DeleteEntriesState ==
  ASSUME NEW s \in State, NEW K
  PROVE  /\ DeleteEntries(s, K) \in State
         /\ \A k \in K : k \notin DOMAIN DeleteEntries(s, K).data
         /\ \A k \in Key \ K : Same(s.data, DeleteEntries(s, K).data, k)
<1> DEFINE d == Drop(s.data, K)
           h == Drop(s.heap, K)
           D == DOMAIN s.data \ K
<1>1. DeleteEntries(s, K) = [data |-> d, heap |-> h]
  BY DEF DeleteEntries
<1>2. D \in SUBSET Key /\ d \in [D -> Payload] /\ DOMAIN d = D /\ \A k \in D : d[k] = s.data[k]
  BY StateFacts DEF Drop, Restrict
<1>3. h = [k \in {j \in D : d[j].expires # Never} |-> d[k].expires]
  <2>1. DOMAIN s.heap \ K = {j \in D : d[j].expires # Never}
    BY <1>2, StateFacts
  <2>2. h = [k \in DOMAIN s.heap \ K |-> s.heap[k]]
    BY DEF Drop, Restrict
  <2>3. \A k \in DOMAIN s.heap \ K : s.heap[k] = d[k].expires
    BY <1>2, StateFacts
  <2> HIDE DEF d, h, D
  <2> QED
    BY <2>1, <2>2, <2>3
<1> HIDE DEF d, h
<1>4. [data |-> d, heap |-> h] \in State
  <2> HIDE DEF D
  <2> QED
    BY <1>2, <1>3, IsState
<1> QED
  BY <1>1, <1>2, <1>4 DEF Same

LEMMA SetEntriesState ==
  ASSUME NEW s \in State, NEW K \in SUBSET Key, NEW p \in Payload
  PROVE  /\ SetEntries(s, K, p) \in State
         /\ \A k \in K : /\ k \in DOMAIN SetEntries(s, K, p).data
                         /\ SetEntries(s, K, p).data[k] = p
         /\ \A k \in Key \ K : Same(s.data, SetEntries(s, K, p).data, k)
<1> DEFINE d == Put(s.data, K, p)
           h == IF p.expires = Never THEN Drop(s.heap, K) ELSE Put(s.heap, K, p.expires)
           D == DOMAIN s.data \cup K
<1>1. SetEntries(s, K, p) = [data |-> d, heap |-> h]
  BY DEF SetEntries
<1>2. /\ D \in SUBSET Key /\ d \in [D -> Payload] /\ DOMAIN d = D
      /\ \A k \in K : d[k] = p
      /\ \A k \in DOMAIN s.data \ K : d[k] = s.data[k]
  BY StateFacts DEF Put
<1>3. h = [k \in {j \in D : d[j].expires # Never} |-> d[k].expires]
  <2>1. CASE p.expires = Never
    <3>1. h = [k \in DOMAIN s.heap \ K |-> s.heap[k]]
      BY <2>1 DEF Drop, Restrict
    <3>2. DOMAIN s.heap \ K = {j \in D : d[j].expires # Never}
      BY <1>2, <2>1, StateFacts
    <3>3. \A k \in DOMAIN s.heap \ K : s.heap[k] = d[k].expires
      BY <1>2, StateFacts
    <3> HIDE DEF d, h, D
    <3> QED
      BY <3>1, <3>2, <3>3
  <2>2. CASE p.expires # Never
    <3>1. h = [k \in DOMAIN s.heap \cup K |-> IF k \in K THEN p.expires ELSE s.heap[k]]
      BY <2>2 DEF Put
    <3>2. DOMAIN s.heap \cup K = {j \in D : d[j].expires # Never}
      BY <1>2, <2>2, StateFacts
    <3>3. \A k \in DOMAIN s.heap \cup K :
             (IF k \in K THEN p.expires ELSE s.heap[k]) = d[k].expires
      BY <1>2, StateFacts
    <3> HIDE DEF d, h, D
    <3> QED
      BY <3>1, <3>2, <3>3
  <2> QED
    BY <2>1, <2>2
<1> HIDE DEF d, h
<1>4. [data |-> d, heap |-> h] \in State
  <2> HIDE DEF D
  <2> QED
    BY <1>2, <1>3, IsState
<1> QED
  BY <1>1, <1>2, <1>4 DEF Same

-----------------------------------------------------------------------------
(* The replay.                                                             *)
LEMMA LineFacts ==
  ASSUME NEW l \in Line
  PROVE  /\ l.key \in Key
         /\ l.op = "DELETE" \/ /\ l.op = "SET"
                               /\ [value |-> l.value, expires |-> l.expires] \in Payload
                               /\ l.value \in Value /\ l.expires \in Time
BY DEF Line, Payload

(* What a line makes of the data of its key. *)
Obeys(d, l) ==
    IF l.op = "DELETE" THEN l.key \notin DOMAIN d
    ELSE IsExpired(l) \/ (l.key \in DOMAIN d /\ d[l.key] = [value |-> l.value, expires |-> l.expires])

LEMMA ProcessLine ==
  ASSUME NEW s \in State, NEW l \in Line
  PROVE  /\ ProcessWalEntry(s, l) \in State
         /\ \A k \in Key \ {l.key} : Same(s.data, ProcessWalEntry(s, l).data, k)
         /\ Obeys(ProcessWalEntry(s, l).data, l)
<1> DEFINE p == [value |-> l.value, expires |-> l.expires]
<1>1. IsExpired(p) <=> IsExpired(l)
  BY DEF IsExpired
<1>2. CASE l.op = "DELETE"
  <2>1. ProcessWalEntry(s, l) = DeleteEntries(s, {l.key})
    BY <1>2 DEF ProcessWalEntry
  <2> QED
    BY <1>2, <2>1, DeleteEntriesState DEF Obeys
<1>3. CASE l.op # "DELETE" /\ IsExpired(l)
  <2>1. ProcessWalEntry(s, l) = s
    BY <1>1, <1>3 DEF ProcessWalEntry
  <2> QED
    BY <1>3, <2>1 DEF Same, Obeys
<1>4. CASE l.op # "DELETE" /\ ~IsExpired(l)
  <2>1. ProcessWalEntry(s, l) = SetEntries(s, {l.key}, p)
    BY <1>1, <1>4 DEF ProcessWalEntry
  <2> DEFINE K == {l.key}
  <2>2. p \in Payload /\ K \in SUBSET Key
    BY <1>4, LineFacts
  <2> HIDE DEF p, K
  <2>3. /\ SetEntries(s, K, p) \in State
        /\ \A k \in K : /\ k \in DOMAIN SetEntries(s, K, p).data
                        /\ SetEntries(s, K, p).data[k] = p
        /\ \A k \in Key \ K : Same(s.data, SetEntries(s, K, p).data, k)
    BY <2>2, SetEntriesState
  <2> QED
    BY <1>4, <2>1, <2>3 DEF Obeys, p, K
<1> QED
  BY <1>2, <1>3, <1>4

(* The stores the replay goes through. *)
LEMMA ReplaySteps ==
  ASSUME NEW s \in State, NEW lines \in Seq(Line)
  PROVE  \E after \in [0 .. Len(lines) -> State] :
            /\ after[0] = s
            /\ \A n \in 1 .. Len(lines) : after[n] = ProcessWalEntry(after[n - 1], lines[n])
            /\ Replayed(s, lines) = after[Len(lines)]
<1> DEFINE F == [x \in State \X Line |-> ProcessWalEntry(x[1], x[2])]
           R(a) == a = [n \in 0 .. Len(lines) |->
                           IF n = 0 THEN s ELSE ProcessWalEntry(a[n - 1], lines[n])]
           after == CHOOSE a : R(a)
<1>1. Len(lines) \in Nat /\ \A n \in 1 .. Len(lines) : lines[n] \in Line
  OBVIOUS
<1>2. F \in [State \X Line -> State]
  BY ProcessLine
<1>3. PICK a \in [0 .. Len(lines) -> State] :
         a[0] = s /\ \A n \in 1 .. Len(lines) : a[n] = F[<<a[n - 1], lines[n]>>]
  <2> HIDE DEF F
  <2>1. \E a : IsRun(a, State, F, s, lines)
    BY <1>2, StepsExist
  <2> QED
    BY <2>1 DEF IsRun
<1>4. R(a)
  <2>1. ASSUME NEW n \in 1 .. Len(lines)
        PROVE  F[<<a[n - 1], lines[n]>>] = ProcessWalEntry(a[n - 1], lines[n])
    <3>1. a[n - 1] \in State /\ lines[n] \in Line
      BY <1>1
    <3> QED
      BY <3>1
  <2> HIDE DEF F
  <2>2. ASSUME NEW n \in 0 .. Len(lines)
        PROVE  a[n] = IF n = 0 THEN s ELSE ProcessWalEntry(a[n - 1], lines[n])
    BY <1>1, <1>3, <2>1
  <2> QED
    BY <2>2
<1>5. R(after)
  <2> HIDE DEF R
  <2> QED
    BY <1>4
<1>6. /\ DOMAIN after = 0 .. Len(lines) /\ after = [n \in 0 .. Len(lines) |-> after[n]]
      /\ after[0] = s
      /\ \A n \in 1 .. Len(lines) : n # 0 /\ n \in 0 .. Len(lines)
      /\ \A n \in 1 .. Len(lines) : after[n] = ProcessWalEntry(after[n - 1], lines[n])
  <2> HIDE DEF after
  <2> QED
    BY <1>1, <1>5
<1>7. Replayed(s, lines) = after[Len(lines)]
  BY DEF Replayed
<1> HIDE DEF after
<1>8. after \in [0 .. Len(lines) -> State]
  <2> DEFINE S == {n \in 0 .. Len(lines) : after[n] \in State}
  <2>1. 0 \in S
    BY <1>1, <1>6
  <2>2. ASSUME NEW n \in 0 .. Len(lines) - 1, n \in S
        PROVE  n + 1 \in S
    <3>1. n + 1 \in 1 .. Len(lines) /\ (n + 1) - 1 = n
      BY <1>1
    <3>2. after[n + 1] = ProcessWalEntry(after[n], lines[n + 1])
      BY <1>6, <3>1
    <3>3. after[n] \in State /\ lines[n + 1] \in Line
      BY <1>1, <2>2, <3>1
    <3>4. ProcessWalEntry(after[n], lines[n + 1]) \in State
      BY <3>3, ProcessLine
    <3> QED
      BY <3>1, <3>2, <3>4
  <2>3. 0 .. Len(lines) \subseteq S
    <3> HIDE DEF S
    <3> QED
      BY <1>1, <2>1, <2>2, CountingUp
  <2> QED
    BY <1>6, <2>3
<1> QED
  BY <1>6, <1>7, <1>8

(* After the replay a key without lines is as it was, and its last line    *)
(* tells what else is there, unless it was skipped.                        *)
LEMMA ReplayKey ==
  ASSUME NEW s \in State, NEW lines \in Seq(Line)
  PROVE  /\ Replayed(s, lines) \in State
         /\ \A k \in Key : ~HasLine(lines, k) => Same(s.data, Replayed(s, lines).data, k)
         /\ \A k \in Key, i \in DOMAIN lines :
               IsLast(lines, i, k) => Obeys(Replayed(s, lines).data, lines[i])
<1>1. PICK after \in [0 .. Len(lines) -> State] :
            /\ after[0] = s
            /\ \A n \in 1 .. Len(lines) : after[n] = ProcessWalEntry(after[n - 1], lines[n])
            /\ Replayed(s, lines) = after[Len(lines)]
  BY ReplaySteps
<1>2. /\ Len(lines) \in Nat /\ \A n \in 1 .. Len(lines) : lines[n] \in Line
      /\ DOMAIN lines = 1 .. Len(lines) /\ Len(lines) \in 0 .. Len(lines)
  OBVIOUS
<1>3. ASSUME NEW n \in 0 .. Len(lines) - 1
      PROVE  /\ n \in 0 .. Len(lines) /\ n + 1 \in 1 .. Len(lines) /\ n + 1 \in 0 .. Len(lines)
             /\ after[n] \in State /\ lines[n + 1] \in Line
             /\ after[n + 1] = ProcessWalEntry(after[n], lines[n + 1])
             /\ \A k \in Key \ {lines[n + 1].key} : Same(after[n].data, after[n + 1].data, k)
             /\ Obeys(after[n + 1].data, lines[n + 1])
  <2>1. n \in 0 .. Len(lines) /\ n + 1 \in 1 .. Len(lines) /\ n + 1 \in 0 .. Len(lines) /\ (n + 1) - 1 = n
    BY <1>2
  <2>2. after[n + 1] = ProcessWalEntry(after[n], lines[n + 1])
    BY <1>1, <2>1
  <2> QED
    BY <1>1, <1>2, <2>1, <2>2, ProcessLine
<1>4. ASSUME NEW k \in Key, ~HasLine(lines, k)
      PROVE  Same(s.data, after[Len(lines)].data, k)
  <2> DEFINE S == {n \in 0 .. Len(lines) : Same(s.data, after[n].data, k)}
  <2>1. 0 \in S
    BY <1>1, <1>2 DEF Same
  <2>2. ASSUME NEW n \in 0 .. Len(lines) - 1, n \in S
        PROVE  n + 1 \in S
    <3>1. lines[n + 1].key # k
      BY <1>2, <1>3, <1>4 DEF HasLine
    <3> QED
      BY <1>3, <2>2, <3>1 DEF Same
  <2>3. 0 .. Len(lines) \subseteq S
    <3> HIDE DEF S
    <3> QED
      BY <1>2, <2>1, <2>2, CountingUp
  <2> QED
    BY <1>2, <2>3
<1>5. ASSUME NEW k \in Key, NEW i \in DOMAIN lines, IsLast(lines, i, k)
      PROVE  Obeys(after[Len(lines)].data, lines[i])
  <2> DEFINE S == {n \in 0 .. Len(lines) : n >= i => Obeys(after[n].data, lines[i])}
  <2>0. i \in 1 .. Len(lines) /\ lines[i].key = k
    BY <1>2, <1>5 DEF IsLast
  <2>1. 0 \in S
    BY <1>2, <2>0
  <2>2. ASSUME NEW n \in 0 .. Len(lines) - 1, n \in S
        PROVE  n + 1 \in S
    <3>1. CASE n + 1 < i
      BY <1>3, <2>0, <3>1
    <3>2. CASE n + 1 = i
      BY <1>3, <3>2
    <3>3. CASE n + 1 > i
      <4>1. lines[n + 1].key # k
        BY <1>2, <1>3, <1>5, <3>3 DEF IsLast
      <4>2. Same(after[n].data, after[n + 1].data, k)
        BY <1>3, <4>1
      <4>3. Obeys(after[n].data, lines[i])
        BY <2>0, <2>2, <3>3
      <4> QED
        BY <1>3, <2>0, <4>2, <4>3 DEF Same, Obeys
    <3> QED
      BY <2>0, <3>1, <3>2, <3>3
  <2>3. 0 .. Len(lines) \subseteq S
    <3> HIDE DEF S
    <3> QED
      BY <1>2, <2>1, <2>2, CountingUp
  <2> QED
    BY <1>2, <2>0, <2>3
<1> QED
  BY <1>1, <1>2, <1>4, <1>5

-----------------------------------------------------------------------------
(* What the log tells, as the data and the time change.                    *)
LEMMA TellsSame ==
  ASSUME NEW d, NEW e, NEW k, Same(d, e, k), NEW x, NEW t, Tells(x, d, k, t)
  PROVE  Tells(x, e, k, t)
BY DEF Same, Tells

LEMMA TellsGone ==
  ASSUME NEW d \in Data, NEW e, NEW k \in DOMAIN d, k \notin DOMAIN e, NEW t \in Nat,
         d[k].expires # Never, d[k].expires <= t,
         NEW x, Tells(x, d, k, t)
  PROVE  Tells(x, e, k, t)
<1>1. d[k].expires \in Int
  BY DataFacts DEF Payload, Time
<1>2. /\ InSeconds(d[k].expires) # Never /\ InSeconds(d[k].expires) \in Int
      /\ InSeconds(d[k].expires) <= d[k].expires
  BY <1>1, TimesInSeconds DEF Time
<1> QED
  BY <1>1, <1>2 DEF Tells

LEMMA TellsLater ==
  ASSUME NEW d, NEW k, NEW t \in Nat, NEW u \in Nat, t <= u,
         NEW x, x.expires \in Time, Tells(x, d, k, t)
  PROVE  Tells(x, d, k, u)
BY DEF Tells, Time

LEMMA TellsItself ==
  ASSUME NEW d, NEW k, NEW x, NEW t, k \in DOMAIN d,
         d[k] = [value |-> x.value, expires |-> x.expires] \/ d[k] = x
  PROVE  Tells(x, d, k, t)
BY DEF Tells

LEMMA LastExists ==
  ASSUME NEW lines \in Seq(Line), NEW k, HasLine(lines, k)
  PROVE  \E i \in DOMAIN lines : IsLast(lines, i, k)
<1> DEFINE I == {i \in DOMAIN lines : lines[i].key = k}
<1>1. Len(lines) \in Nat /\ I \in SUBSET (1 .. Len(lines)) /\ I # {}
  BY DEF HasLine
<1>2. Max(I) \in I /\ \A j \in I : j <= Max(I)
  BY <1>1, MaxPosition
<1>3. PICK m \in I : \A j \in I : j <= m
  BY <1>2
<1>4. IsLast(lines, m, k)
  BY <1>1, <1>3 DEF IsLast
<1> QED
  BY <1>4

(* The last line of two logs is that of the second, if it has one. *)
Continues(c, lines, more, k) ==
    /\ HasLine(c, k) <=> HasLine(lines, k) \/ HasLine(more, k)
    /\ \A i \in DOMAIN c : IsLast(c, i, k) =>
          \/ \E j \in DOMAIN more : more[j].key = k /\ c[i] = more[j]
          \/ ~HasLine(more, k) /\ IsLast(lines, i, k) /\ c[i] = lines[i]

LEMMA LastOfMore ==
  ASSUME NEW lines \in Seq(Line), NEW more \in Seq(Line), NEW c, c = lines \o more, NEW k
  PROVE  Continues(c, lines, more, k)
<1>1. /\ DOMAIN c = 1 .. Len(lines) + Len(more)
      /\ \A i \in DOMAIN lines : i \in DOMAIN c /\ c[i] = lines[i]
      /\ \A i \in DOMAIN more : Len(lines) + i \in DOMAIN c /\ c[Len(lines) + i] = more[i]
      /\ \A i \in DOMAIN c \ DOMAIN lines :
            i - Len(lines) \in DOMAIN more /\ c[i] = more[i - Len(lines)]
      /\ DOMAIN lines = 1 .. Len(lines) /\ DOMAIN more = 1 .. Len(more)
      /\ Len(lines) \in Nat /\ Len(more) \in Nat
  OBVIOUS
<1>2. HasLine(c, k) <=> HasLine(lines, k) \/ HasLine(more, k)
  BY <1>1 DEF HasLine
<1>3. ASSUME NEW i \in DOMAIN c, IsLast(c, i, k)
      PROVE  \/ \E j \in DOMAIN more : more[j].key = k /\ c[i] = more[j]
             \/ ~HasLine(more, k) /\ IsLast(lines, i, k) /\ c[i] = lines[i]
  <2>1. CASE i \in DOMAIN lines
    <3>1. ~HasLine(more, k)
      <4> SUFFICES ASSUME NEW j \in DOMAIN more
                   PROVE  more[j].key # k
        BY DEF HasLine
      <4>1. Len(lines) + j \in DOMAIN c /\ c[Len(lines) + j] = more[j] /\ Len(lines) + j > i
        BY <1>1, <2>1
      <4> QED
        BY <1>3, <4>1 DEF IsLast
    <3>2. IsLast(lines, i, k)
      BY <1>1, <1>3, <2>1 DEF IsLast
    <3> QED
      BY <1>1, <2>1, <3>1, <3>2
  <2>2. CASE i \notin DOMAIN lines
    <3>1. i - Len(lines) \in DOMAIN more /\ c[i] = more[i - Len(lines)]
      BY <1>1, <2>2
    <3> QED
      BY <1>3, <3>1 DEF IsLast
  <2> QED
    BY <2>1, <2>2
<1> QED
  BY <1>2, <1>3 DEF Continues

(* Some keys change, each with a line that tells how. *)
IsLogged(K, more, d, t) ==
    /\ more \in Seq(Line)
    /\ \A k \in K : HasLine(more, k)
    /\ \A i \in DOMAIN more : more[i].key \in K /\ LineTells(more[i], d, t)

LEMMA LoggedChange ==
  ASSUME IInv, NEW K \in SUBSET Key, NEW more, IsLogged(K, more, store'.data, now),
         \A k \in Key \ K : Same(store.data, store'.data, k),
         log' = log \o more, snapshot' = snapshot, now' = now
  PROVE  log' \in Seq(Line) /\ \A k \in Key : LogTells(k)'
<1>1. log \in Seq(Line) /\ more \in Seq(Line)
  BY DEF IInv, Typed, IsLogged
<1>2. ASSUME NEW k \in Key
      PROVE  LogTells(k)'
  <2>1. LogTells(k)
    BY DEF IInv
  <2>2. /\ HasLine(log', k) <=> HasLine(log, k) \/ HasLine(more, k)
        /\ \A i \in DOMAIN log' : IsLast(log', i, k) =>
              \/ \E j \in DOMAIN more : more[j].key = k /\ log'[i] = more[j]
              \/ ~HasLine(more, k) /\ IsLast(log, i, k) /\ log'[i] = log[i]
    <3>1. Continues(log', log, more, k)
      BY <1>1, LastOfMore
    <3> QED
      BY <3>1 DEF Continues
  <2>3. ASSUME ~HasLine(log', k)
        PROVE  /\ k \in DOMAIN store'.data => k \in DOMAIN snapshot
               /\ k \in DOMAIN snapshot => Tells(snapshot[k], store'.data, k, now)
    <3>1. ~HasLine(log, k) /\ k \notin K
      BY <2>2, <2>3 DEF IsLogged
    <3>2. Same(store.data, store'.data, k)
      BY <3>1
    <3> QED
      BY <2>1, <3>1, <3>2, TellsSame DEF LogTells, Same
  <2>4. ASSUME NEW i \in DOMAIN log', IsLast(log', i, k)
        PROVE  \/ log'[i].op = "SET" /\ IsExpired(log'[i])
               \/ LineTells(log'[i], store'.data, now)
    <3>1. CASE \E j \in DOMAIN more : more[j].key = k /\ log'[i] = more[j]
      BY <3>1 DEF IsLogged
    <3>2. CASE ~HasLine(more, k) /\ IsLast(log, i, k) /\ log'[i] = log[i]
      <4>1. Same(store.data, store'.data, k)
        BY <3>2 DEF IsLogged
      <4>2. i \in DOMAIN log /\ log[i].key = k
        BY <3>2 DEF IsLast
      <4>3. \/ log[i].op = "SET" /\ IsExpired(log[i])
            \/ LineTells(log[i], store.data, now)
        BY <2>1, <3>2, <4>2 DEF LogTells
      <4> QED
        BY <3>2, <4>1, <4>2, <4>3, TellsSame DEF LineTells, Same
    <3> QED
      BY <2>2, <2>4, <3>1, <3>2
  <2> QED
    BY <2>3, <2>4 DEF LogTells, IsExpired
<1> QED
  BY <1>1, <1>2

LEMMA SetLinesFacts ==
  ASSUME NEW K \in SUBSET Key, NEW p \in Payload, NEW d, NEW t,
         \A k \in K : k \in DOMAIN d /\ d[k] = p
  PROVE  IsLogged(K, SetLines(K, p), d, t)
<1> DEFINE S == {SetLine(k, p) : k \in K}
           more == SetToSeq(S)
<1>1. IsFiniteSet(S)
  <2> DEFINE f == [k \in K |-> SetLine(k, p)]
  <2>1. IsFiniteSet(K) /\ f \in Surjection(K, S)
    BY FS_Subset, ConstantsAssumption DEF Surjection
  <2> QED
    BY <2>1, FS_Surjection
<1>2. /\ more \in Seq(S)
      /\ \A x \in S : \E i \in DOMAIN more : more[i] = x
  <2> HIDE DEF S
  <2> QED
    BY <1>1, SetToSeqProperties
<1>3. ASSUME NEW k \in K
      PROVE  /\ SetLine(k, p) \in Line /\ SetLine(k, p).key = k
             /\ LineTells(SetLine(k, p), d, t)
  BY TimesInSeconds DEF SetLine, Line, Payload, LineTells, Tells
<1>4. \A i \in DOMAIN more : \E k \in K : more[i] = SetLine(k, p)
  <2>1. \A i \in DOMAIN more : more[i] \in S
    <3> HIDE DEF S, more
    <3> QED
      BY <1>2
  <2> HIDE DEF more
  <2> QED
    BY <2>1
<1>5. more \in Seq(Line)
  <2>1. S \subseteq Line
    BY <1>3
  <2> HIDE DEF S, more
  <2> QED
    BY <1>2, <2>1
<1>6. \A k \in K : HasLine(more, k)
  <2> TAKE k \in K
  <2>1. PICK i \in DOMAIN more : more[i] = SetLine(k, p)
    BY <1>2
  <2> HIDE DEF more
  <2> QED
    BY <1>3, <2>1 DEF HasLine
<1>7. SetLines(K, p) = more
  BY DEF SetLines
<1> HIDE DEF more, S
<1> QED
  BY <1>3, <1>4, <1>5, <1>6, <1>7 DEF IsLogged

LEMMA DeleteLinesFacts ==
  ASSUME NEW K \in SUBSET Key, NEW d, NEW t, \A k \in K : k \notin DOMAIN d
  PROVE  IsLogged(K, DeleteLines(K), d, t)
<1> DEFINE S == {DeleteLine(k) : k \in K}
           more == SetToSeq(S)
<1>1. IsFiniteSet(S)
  <2> DEFINE f == [k \in K |-> DeleteLine(k)]
  <2>1. IsFiniteSet(K) /\ f \in Surjection(K, S)
    BY FS_Subset, ConstantsAssumption DEF Surjection
  <2> QED
    BY <2>1, FS_Surjection
<1>2. /\ more \in Seq(S)
      /\ \A x \in S : \E i \in DOMAIN more : more[i] = x
  <2> HIDE DEF S
  <2> QED
    BY <1>1, SetToSeqProperties
<1>3. ASSUME NEW k \in K
      PROVE  /\ DeleteLine(k) \in Line /\ DeleteLine(k).key = k
             /\ LineTells(DeleteLine(k), d, t)
  BY DEF DeleteLine, Line, LineTells
<1>4. \A i \in DOMAIN more : \E k \in K : more[i] = DeleteLine(k)
  <2>1. \A i \in DOMAIN more : more[i] \in S
    <3> HIDE DEF S, more
    <3> QED
      BY <1>2
  <2> HIDE DEF more
  <2> QED
    BY <2>1
<1>5. more \in Seq(Line)
  <2>1. S \subseteq Line
    BY <1>3
  <2> HIDE DEF S, more
  <2> QED
    BY <1>2, <2>1
<1>6. \A k \in K : HasLine(more, k)
  <2> TAKE k \in K
  <2>1. PICK i \in DOMAIN more : more[i] = DeleteLine(k)
    BY <1>2
  <2> HIDE DEF more
  <2> QED
    BY <1>3, <2>1 DEF HasLine
<1>7. DeleteLines(K) = more
  BY DEF DeleteLines
<1> HIDE DEF more, S
<1> QED
  BY <1>3, <1>4, <1>5, <1>6, <1>7 DEF IsLogged

(* The same of a single line. *)
LEMMA OneLine ==
  ASSUME NEW l \in Line, NEW d, NEW t, LineTells(l, d, t)
  PROVE  /\ IsLogged({l.key}, << l >>, d, t)
         /\ \A lines \in Seq(Line) : Append(lines, l) = lines \o << l >>
<1>1. << l >> \in Seq(Line) /\ DOMAIN << l >> = {1} /\ << l >>[1] = l
  OBVIOUS
<1>2. IsLogged({l.key}, << l >>, d, t)
  BY <1>1 DEF IsLogged, HasLine
<1>3. \A lines \in Seq(Line) : Append(lines, l) = lines \o << l >>
  OBVIOUS
<1> QED
  BY <1>2, <1>3

-----------------------------------------------------------------------------
(* The invariant, step by step.                                            *)
LEMMA SetKeysStep ==
  ASSUME IInv, NEW K \in SUBSET Key, NEW v \in Value, NEW ttl \in TTL \cup {Never},
         SetKeys(K, v, ttl)
  PROVE  IInv'
<1> DEFINE p == [value |-> v, expires |-> IF ttl = Never THEN Never ELSE now + ttl]
<1>1. /\ store' = SetEntries(store, K, p) /\ log' = log \o SetLines(K, p)
      /\ commands < MaxCommands /\ commands' = commands + 1
      /\ seen' = seen /\ snapshot' = snapshot /\ now' = now
      /\ snapshots' = snapshots /\ restarts' = restarts
  BY DEF SetKeys, Command
<1>2. Typed /\ now \in Nat /\ p \in Payload
  BY ConstantsAssumption DEF IInv, Typed, Payload, Time
<1> HIDE DEF p
<1>3. /\ store' \in State
      /\ \A k \in K : k \in DOMAIN store'.data /\ store'.data[k] = p
      /\ \A k \in Key \ K : Same(store.data, store'.data, k)
  BY <1>1, <1>2, SetEntriesState DEF Typed
<1>4. IsLogged(K, SetLines(K, p), store'.data, now)
  BY <1>2, <1>3, SetLinesFacts
<1>5. log' \in Seq(Line) /\ \A k \in Key : LogTells(k)'
  BY <1>1, <1>3, <1>4, LoggedChange
<1>6. commands' \in 0 .. MaxCommands
  BY <1>1, <1>2, ConstantsAssumption DEF Typed
<1> QED
  BY <1>1, <1>2, <1>3, <1>5, <1>6 DEF IInv, Typed

(* Keys are deleted, and lines say so. *)
LEMMA DeletionLogged ==
  ASSUME IInv, NEW K \in SUBSET Key, store' = DeleteEntries(store, K),
         log' = log \o DeleteLines(K), snapshot' = snapshot, now' = now
  PROVE  store' \in State /\ log' \in Seq(Line) /\ \A k \in Key : LogTells(k)'
<1>1. /\ store' \in State
      /\ \A k \in K : k \notin DOMAIN store'.data
      /\ \A k \in Key \ K : Same(store.data, store'.data, k)
  BY DeleteEntriesState DEF IInv, Typed
<1>2. IsLogged(K, DeleteLines(K), store'.data, now)
  BY <1>1, DeleteLinesFacts
<1> QED
  BY <1>1, <1>2, LoggedChange

LEMMA DeleteKeyStep ==
  ASSUME IInv, NEW k \in Key, DeleteKey(k) \/ IncrementExpired(k)
  PROVE  IInv'
<1>1. /\ store' = DeleteEntries(store, {k}) /\ log' = Append(log, DeleteLine(k))
      /\ commands < MaxCommands /\ commands' = commands + 1
      /\ seen' = seen /\ snapshot' = snapshot /\ now' = now
      /\ snapshots' = snapshots /\ restarts' = restarts
  BY DEF DeleteKey, IncrementExpired, Command
<1>2. Typed
  BY DEF IInv
<1>3. /\ store' \in State /\ k \notin DOMAIN store'.data
      /\ \A j \in Key \ {k} : Same(store.data, store'.data, j)
  BY <1>1, <1>2, DeleteEntriesState DEF Typed
<1>4. /\ DeleteLine(k) \in Line /\ DeleteLine(k).key = k
      /\ LineTells(DeleteLine(k), store'.data, now)
  BY <1>3 DEF DeleteLine, Line, LineTells
<1>5. log' \in Seq(Line) /\ \A j \in Key : LogTells(j)'
  <2> DEFINE l == DeleteLine(k)
  <2> HIDE DEF l
  <2>1. IsLogged({k}, << l >>, store'.data, now) /\ log' = log \o << l >>
    BY <1>1, <1>2, <1>4, OneLine DEF l, Typed
  <2>2. {k} \in SUBSET Key
    OBVIOUS
  <2> QED
    BY <1>1, <1>3, <2>1, <2>2, LoggedChange
<1>6. commands' \in 0 .. MaxCommands
  BY <1>1, <1>2, ConstantsAssumption DEF Typed
<1> QED
  BY <1>1, <1>2, <1>3, <1>5, <1>6 DEF IInv, Typed

(* The value changes, and neither the expiry nor the heap. *)
LEMMA IncrementStep ==
  ASSUME IInv, NEW k \in Key, NEW amount \in Word, Increment(k, amount)
  PROVE  IInv'
<1> DEFINE p == [store.data[k] EXCEPT !.value = Wrap(@ + amount)]
           d == Put(store.data, {k}, p)
<1>1. /\ store' = [store EXCEPT !.data = d] /\ log' = Append(log, SetLine(k, p))
      /\ k \in DOMAIN store.data /\ store.data[k].value # Text
      /\ commands < MaxCommands /\ commands' = commands + 1
      /\ seen' = seen /\ snapshot' = snapshot /\ now' = now
      /\ snapshots' = snapshots /\ restarts' = restarts
  BY DEF Increment, Command
<1>2. Typed
  BY DEF IInv
<1>3. p \in Payload /\ p.expires = store.data[k].expires
  <2>1. store.data[k] \in Payload
    BY <1>1, <1>2, StateFacts DEF Typed
  <2>2. store.data[k].value + amount \in Int
    BY <1>1, <2>1 DEF Payload, Value, Word
  <2>3. Wrap(store.data[k].value + amount) \in Value
    BY <2>2, WordsWrap DEF Value
  <2> QED
    BY <2>1, <2>3 DEF Payload
<1> HIDE DEF p
<1>4. /\ DOMAIN d \in SUBSET Key /\ d \in [DOMAIN d -> Payload]
      /\ DOMAIN d = DOMAIN store.data
      /\ d[k] = p /\ \A j \in Key \ {k} : Same(store.data, d, j)
      /\ \A j \in DOMAIN d : d[j].expires = store.data[j].expires
  BY <1>1, <1>2, <1>3, StateFacts DEF Put, Typed, Same
<1> HIDE DEF d
<1>5. store' \in State /\ store'.data = d
  <2>1. store' = [data |-> d, heap |-> store.heap] /\ store \in State
    BY <1>1, <1>2, StateFacts DEF Typed
  <2>2. store.heap = [j \in {i \in DOMAIN d : d[i].expires # Never} |-> d[j].expires]
    BY <1>4, <2>1 DEF State, FromSnapshot
  <2> QED
    BY <1>4, <2>1, <2>2, IsState
<1>6. /\ SetLine(k, p) \in Line /\ SetLine(k, p).key = k
      /\ LineTells(SetLine(k, p), d, now)
  BY <1>1, <1>3, <1>4, TimesInSeconds DEF SetLine, Line, Payload, LineTells, Tells
<1>7. log' \in Seq(Line) /\ \A j \in Key : LogTells(j)'
  <2> DEFINE l == SetLine(k, p)
  <2> HIDE DEF l
  <2>1. IsLogged({k}, << l >>, d, now) /\ log' = log \o << l >>
    BY <1>1, <1>2, <1>6, OneLine DEF l, Typed
  <2>2. {k} \in SUBSET Key
    OBVIOUS
  <2> QED
    BY <1>1, <1>4, <1>5, <2>1, <2>2, LoggedChange
<1>8. commands' \in 0 .. MaxCommands
  BY <1>1, <1>2, ConstantsAssumption DEF Typed
<1> QED
  BY <1>1, <1>2, <1>5, <1>7, <1>8 DEF IInv, Typed

(* Deletions of several keys: by a pattern, or of those a read has seen. *)
LEMMA DeleteKeysStep ==
  ASSUME IInv,
         \/ \E matching \in SUBSET Key : DeleteMatching(matching)
         \/ \E r \in Reader : DeleteSeen(r) \/ DeleteExpiredKeys(r)
  PROVE  IInv'
<1>1. Typed /\ ExpiredKeys(store) \subseteq Key
  BY StateFacts DEF IInv, Typed, ExpiredKeys
<1>2. CASE \E matching \in SUBSET Key : DeleteMatching(matching)
  <2>1. PICK K \in SUBSET Key : store' = DeleteEntries(store, K) /\ log' = log \o DeleteLines(K)
    BY <1>1, <1>2 DEF DeleteMatching
  <2>2. /\ commands < MaxCommands /\ commands' = commands + 1
        /\ seen' = seen /\ snapshot' = snapshot /\ now' = now
        /\ snapshots' = snapshots /\ restarts' = restarts
    BY <1>2 DEF DeleteMatching, Command
  <2>3. store' \in State /\ log' \in Seq(Line) /\ \A k \in Key : LogTells(k)'
    BY <2>1, <2>2, DeletionLogged
  <2>4. commands' \in 0 .. MaxCommands
    BY <1>1, <2>2, ConstantsAssumption DEF Typed
  <2> QED
    BY <1>1, <2>2, <2>3, <2>4 DEF IInv, Typed
<1>3. CASE \E r \in Reader : DeleteSeen(r) \/ DeleteExpiredKeys(r)
  <2>1. PICK r \in Reader : DeleteSeen(r) \/ DeleteExpiredKeys(r)
    BY <1>3
  <2>2. PICK K \in SUBSET Key : SeenDone(r, K)
    BY <1>1, <2>1 DEF DeleteSeen, DeleteExpiredKeys, Typed
  <2>3. /\ store' = DeleteEntries(store, K) /\ log' = log \o DeleteLines(K)
        /\ seen' = [seen EXCEPT ![r] = [keys |-> {}, recheck |-> FALSE]]
        /\ snapshot' = snapshot /\ now' = now /\ commands' = commands
        /\ snapshots' = snapshots /\ restarts' = restarts
    BY <2>2 DEF SeenDone, bounds
  <2>4. store' \in State /\ log' \in Seq(Line) /\ \A k \in Key : LogTells(k)'
    BY <2>3, DeletionLogged
  <2>5. seen' \in [Reader -> [keys : SUBSET Key, recheck : BOOLEAN]]
    BY <1>1, <2>3 DEF Typed
  <2> QED
    BY <1>1, <2>3, <2>4, <2>5 DEF IInv, Typed
<1> QED
  BY <1>2, <1>3

LEMMA SeeStep ==
  ASSUME IInv, NEW r \in Reader, NEW K \in SUBSET Key, NEW b \in BOOLEAN, See(r, K, b)
  PROVE  IInv'
<1>1. /\ seen' = [seen EXCEPT ![r] = [keys |-> K \cap ExpiredKeys(store), recheck |-> b]]
      /\ store' = store /\ log' = log /\ snapshot' = snapshot /\ now' = now
      /\ commands' = commands /\ snapshots' = snapshots /\ restarts' = restarts
  BY DEF See, bounds
<1>2. seen' \in [Reader -> [keys : SUBSET Key, recheck : BOOLEAN]]
  BY <1>1 DEF IInv, Typed
<1> QED
  BY <1>1, <1>2 DEF IInv, Typed, LogTells, IsExpired

(* The ticker logs nothing: what it deletes may have expired, by the log   *)
(* as well as by the heap.                                                 *)
LEMMA CleanupStep ==
  ASSUME IInv, CleanupExpired
  PROVE  IInv'
<1> DEFINE due == {k \in DOMAIN store.heap : store.heap[k] <= now}
<1>1. /\ store' = DeleteEntries(store, due)
      /\ seen' = seen /\ log' = log /\ snapshot' = snapshot /\ now' = now
      /\ commands' = commands /\ snapshots' = snapshots /\ restarts' = restarts
  BY DEF CleanupExpired, bounds
<1>2. Typed /\ now \in Nat
  BY ConstantsAssumption DEF IInv, Typed
<1>3. \A k \in due : /\ k \in DOMAIN store.data /\ store.data[k].expires # Never
                     /\ store.data[k].expires <= now
  BY <1>2, StateFacts DEF Typed
<1> HIDE DEF due
<1>4. /\ store' \in State
      /\ \A k \in due : k \notin DOMAIN store'.data
      /\ \A k \in Key \ due : Same(store.data, store'.data, k)
  BY <1>1, <1>2, DeleteEntriesState DEF Typed
<1>5. store.data \in Data
  BY <1>2, StateFacts DEF Typed
<1>6. ASSUME NEW k \in Key, NEW x, Tells(x, store.data, k, now)
      PROVE  Tells(x, store'.data, k, now)
  <2>1. CASE k \in due
    BY <1>2, <1>3, <1>4, <1>5, <1>6, <2>1, TellsGone
  <2>2. CASE k \notin due
    BY <1>4, <1>6, <2>2, TellsSame
  <2> QED
    BY <2>1, <2>2
<1>7. \A k \in Key : k \in DOMAIN store'.data => k \in DOMAIN store.data
  BY <1>4 DEF Same
<1>8. ASSUME NEW k \in Key
      PROVE  LogTells(k)'
  <2>1. LogTells(k)
    BY DEF IInv
  <2>2. \A i \in DOMAIN log : log[i].key \in Key
    <3>1. \A i \in DOMAIN log : log[i] \in Line
      BY <1>2 DEF Typed
    <3> QED
      BY <3>1, LineFacts
  <2>3. \A i \in DOMAIN log :
           LineTells(log[i], store.data, now) => LineTells(log[i], store'.data, now)
    BY <1>6, <1>7, <2>2 DEF LineTells
  <2> QED
    BY <1>1, <1>6, <1>7, <2>1, <2>3 DEF LogTells, IsExpired
<1> QED
  BY <1>1, <1>2, <1>4, <1>8 DEF IInv, Typed

(* The snapshot is what the store holds, and there is no line. *)
LEMMA SaveSnapshotStep ==
  ASSUME IInv, SaveSnapshot
  PROVE  IInv'
<1>1. /\ snapshots < MaxSnapshots /\ snapshots' = snapshots + 1
      /\ snapshot' = store.data /\ log' = << >>
      /\ store' = store /\ seen' = seen /\ now' = now
      /\ commands' = commands /\ restarts' = restarts
  BY DEF SaveSnapshot
<1>2. Typed /\ store.data \in Data
  BY StateFacts DEF IInv, Typed
<1>3. ASSUME NEW k \in Key
      PROVE  LogTells(k)'
  <2>1. k \in DOMAIN store.data => Tells(store.data[k], store.data, k, now)
    BY TellsItself
  <2>2. \A i \in DOMAIN log' : FALSE
    BY <1>1
  <2> QED
    BY <1>1, <2>1, <2>2 DEF LogTells
<1>4. snapshots' \in 0 .. MaxSnapshots /\ log' \in Seq(Line)
  BY <1>1, <1>2, ConstantsAssumption DEF Typed
<1> QED
  BY <1>1, <1>2, <1>3, <1>4 DEF IInv, Typed

(* What a restart recovers is what the log and the snapshot tell. *)
LEMMA RecoveredFacts ==
  ASSUME IInv
  PROVE  /\ Recovered \in State
         /\ \A k \in Key : ~HasLine(log, k) => Same(snapshot, Recovered.data, k)
         /\ \A k \in Key, i \in DOMAIN log : IsLast(log, i, k) => Obeys(Recovered.data, log[i])
<1>1. /\ log \in Seq(Line)
      /\ FromSnapshot(snapshot) \in State /\ FromSnapshot(snapshot).data = snapshot
  BY FromSnapshotState DEF IInv, Typed
<1> DEFINE s == FromSnapshot(snapshot)
<1> HIDE DEF s
<1>2. s \in State /\ s.data = snapshot /\ Recovered = Replayed(s, log)
  BY <1>1 DEF s, Recovered
<1> QED
  BY <1>1, <1>2, ReplayKey

LEMMA RestartStep ==
  ASSUME IInv, Restart
  PROVE  IInv'
<1>1. /\ restarts < MaxRestarts /\ restarts' = restarts + 1
      /\ store' = Recovered
      /\ seen' = [r \in Reader |-> [keys |-> {}, recheck |-> FALSE]]
      /\ log' = log /\ snapshot' = snapshot /\ now' = now
      /\ commands' = commands /\ snapshots' = snapshots
  BY DEF Restart
<1>2. Typed
  BY DEF IInv
<1>3. /\ store' \in State
      /\ \A k \in Key : ~HasLine(log, k) => Same(snapshot, store'.data, k)
      /\ \A k \in Key, i \in DOMAIN log : IsLast(log, i, k) => Obeys(store'.data, log[i])
  BY <1>1, RecoveredFacts
<1>4. ASSUME NEW k \in Key
      PROVE  LogTells(k)'
  <2>1. ASSUME ~HasLine(log, k)
        PROVE  /\ k \in DOMAIN store'.data => k \in DOMAIN snapshot
               /\ k \in DOMAIN snapshot => Tells(snapshot[k], store'.data, k, now)
    BY <1>3, <2>1, TellsItself DEF Same
  <2>2. ASSUME NEW i \in DOMAIN log, IsLast(log, i, k)
        PROVE  \/ log[i].op = "SET" /\ IsExpired(log[i])
               \/ LineTells(log[i], store'.data, now)
    <3>1. Obeys(store'.data, log[i]) /\ log[i] \in Line
      BY <1>2, <1>3, <2>2 DEF Typed
    <3> QED
      BY <3>1, LineFacts, TellsItself DEF Obeys, LineTells
  <2> QED
    BY <1>1, <2>1, <2>2 DEF LogTells, IsExpired
<1>5. restarts' \in 0 .. MaxRestarts
  BY <1>1, <1>2, ConstantsAssumption DEF Typed
<1> QED
  BY <1>1, <1>2, <1>3, <1>4, <1>5 DEF IInv, Typed

LEMMA TickStep ==
  ASSUME IInv, Tick
  PROVE  IInv'
<1>1. /\ now < MaxTime /\ now' = now + 1
      /\ store' = store /\ seen' = seen /\ log' = log /\ snapshot' = snapshot
      /\ commands' = commands /\ snapshots' = snapshots /\ restarts' = restarts
  BY DEF Tick, bounds
<1>2. /\ Typed /\ now \in Nat /\ now' \in Nat /\ now <= now' /\ now' \in 1 .. MaxTime
  BY <1>1, ConstantsAssumption DEF IInv, Typed
<1>3. /\ \A k \in DOMAIN snapshot : snapshot[k].expires \in Time
      /\ \A i \in DOMAIN log : log[i].op # "DELETE" => log[i].expires \in Time
  <2>1. \A i \in DOMAIN log : log[i] \in Line
    BY <1>2 DEF Typed
  <2> QED
    BY <1>2, <2>1, DataFacts, LineFacts DEF Typed, Payload
<1>4. ASSUME NEW k \in Key
      PROVE  LogTells(k)'
  <2>1. LogTells(k)
    BY DEF IInv
  <2>2. k \in DOMAIN snapshot /\ Tells(snapshot[k], store.data, k, now)
           => Tells(snapshot[k], store.data, k, now')
    BY <1>2, <1>3, TellsLater
  <2>3. ASSUME NEW i \in DOMAIN log, log[i].op = "SET", IsExpired(log[i])
        PROVE  IsExpired(log[i])'
    BY <1>1, <1>2, <1>3, <2>3 DEF IsExpired, Time
  <2>4. \A i \in DOMAIN log :
           LineTells(log[i], store.data, now) => LineTells(log[i], store.data, now')
    BY <1>2, <1>3, TellsLater DEF LineTells
  <2> QED
    BY <1>1, <2>1, <2>2, <2>3, <2>4 DEF LogTells
<1> QED
  BY <1>1, <1>2, <1>4 DEF IInv, Typed

LEMMA InitInvariant ==
  ASSUME Init
  PROVE  IInv
<1>1. /\ store = [data |-> NoData, heap |-> NoData] /\ log = << >> /\ snapshot = NoData
      /\ seen = [r \in Reader |-> [keys |-> {}, recheck |-> FALSE]]
      /\ now = 1 /\ commands = 0 /\ snapshots = 0 /\ restarts = 0
  BY DEF Init
<1>2. NoData \in Data /\ DOMAIN NoData = {}
  <2>1. NoData \in [{} -> Payload]
    BY DEF NoData
  <2> QED
    BY <2>1 DEF Data
<1>3. store \in State
  <2>1. FromSnapshot(NoData) = [data |-> NoData, heap |-> [k \in {} |-> NoData[k].expires]]
    BY <1>2 DEF FromSnapshot
  <2>2. NoData = [k \in {} |-> NoData[k].expires]
    BY <1>2 DEF NoData
  <2> QED
    BY <1>1, <1>2, <2>1, <2>2, FromSnapshotState
<1>4. Typed
  BY <1>1, <1>2, <1>3, ConstantsAssumption DEF Typed
<1>5. ASSUME NEW k \in Key
      PROVE  LogTells(k)
  <2>1. k \notin DOMAIN store.data /\ k \notin DOMAIN snapshot
    BY <1>1, <1>2
  <2>2. \A i \in DOMAIN log : FALSE
    BY <1>1
  <2> QED
    BY <2>1, <2>2 DEF LogTells
<1> QED
  BY <1>4, <1>5 DEF IInv

LEMMA NextInvariant ==
  ASSUME IInv, [Next]_vars
  PROVE  IInv'
<1>1. CASE \E K \in (SUBSET Key) \ {{}}, v \in Value, ttl \in TTL \cup {Never} : SetKeys(K, v, ttl)
  BY <1>1, SetKeysStep
<1>2. CASE \E k \in Key : DeleteKey(k) \/ IncrementExpired(k)
  BY <1>2, DeleteKeyStep
<1>3. CASE \E k \in Key, amount \in Word : Increment(k, amount)
  BY <1>3, IncrementStep
<1>4. CASE \/ \E matching \in SUBSET Key : DeleteMatching(matching)
           \/ \E r \in Reader : DeleteSeen(r) \/ DeleteExpiredKeys(r)
  BY <1>4, DeleteKeysStep
<1>5. CASE \E r \in Reader, k \in Key : Get(r, k)
  <2>1. PICK r \in Reader, k \in Key : Get(r, k)
    BY <1>5
  <2>2. {k} \in SUBSET Key
    OBVIOUS
  <2> QED
    BY <2>1, <2>2, SeeStep DEF Get
<1>6. CASE \E r \in Reader, K \in SUBSET Key : Mget(r, K)
  BY <1>6, SeeStep DEF Mget
<1>7. CASE CleanupExpired \/ SaveSnapshot \/ Restart \/ Tick
  BY <1>7, CleanupStep, SaveSnapshotStep, RestartStep, TickStep
<1>8. CASE UNCHANGED vars
  BY <1>8 DEF vars, bounds, IInv, Typed, LogTells, IsExpired
<1> QED
  BY <1>1, <1>2, <1>3, <1>4, <1>5, <1>6, <1>7, <1>8 DEF Next

LEMMA Invariance == Spec => []IInv
<1>1. Init => IInv
  BY InitInvariant
<1>2. IInv /\ [Next]_vars => IInv'
  BY NextInvariant
<1> QED
  BY <1>1, <1>2, PTL DEF Spec

-----------------------------------------------------------------------------
(* What the engine holds and logs is well formed; an increment wraps into  *)
(* the machine's integers (incrementByNoLock).                             *)
THEOREM Typing == Spec => []TypeOK
<1>1. IInv => TypeOK
  <2> SUFFICES ASSUME Typed
               PROVE  TypeOK
    BY DEF IInv
  <2>1. IsData(store.data) /\ IsData(snapshot)
    BY StateFacts, DataFacts DEF Typed, IsData, Payload
  <2> QED
    BY <2>1 DEF Typed, TypeOK
<1> QED
  BY <1>1, Invariance, PTL

(* Setting, deleting, cleaning up and replaying leave in the expiry heap   *)
(* the keys with an expiry, at that expiry, and no other (setNoLock,       *)
(* deleteNoLock, cleanupExpiredNoLock, ProcessWalEntry, DeserializeState). *)
THEOREM HeapFollowsData == Spec => []HeapMatchesData
<1>1. IInv => HeapMatchesData
  BY DEF IInv, Typed, State, HeapMatchesData
<1> QED
  BY <1>1, Invariance, PTL

(* A restart at any moment gives every key the value it is served with, no *)
(* key that was deleted, and loses only what expires within the second;    *)
(* but for the keys whose last SET the replay skips (ProcessWalEntry).     *)
THEOREM ReplayGivesServed == Spec => []ReplayMatchesLive
<1>1. IInv => ReplayMatchesLive
  <2> SUFFICES ASSUME IInv, NEW k \in Key, ~LastSetHasExpired(k)
               PROVE  /\ k \in Served(Recovered.data) =>
                            /\ k \in Served(store.data)
                            /\ Recovered.data[k].value = store.data[k].value
                      /\ k \in Served(store.data) =>
                            \/ k \in Served(Recovered.data)
                            \/ InSeconds(store.data[k].expires) <= now
    BY DEF ReplayMatchesLive
  <2> DEFINE new == Recovered.data
             old == store.data
  <2>1. /\ Recovered \in State
        /\ ~HasLine(log, k) => Same(snapshot, new, k)
        /\ \A i \in DOMAIN log : IsLast(log, i, k) => Obeys(new, log[i])
    BY RecoveredFacts
  <2>2. /\ log \in Seq(Line) /\ DOMAIN log = 1 .. Len(log) /\ now \in Nat
        /\ store \in State /\ snapshot \in Data
    BY ConstantsAssumption DEF IInv, Typed
  <2>3. /\ new \in Data /\ old \in Data
        /\ \A j \in DOMAIN new : new[j].expires \in Time
        /\ \A j \in DOMAIN old : /\ old[j].expires \in Time
                                 /\ InSeconds(old[j].expires) \in Time
                                 /\ InSeconds(old[j].expires) = Never <=> old[j].expires = Never
                                 /\ old[j].expires # Never =>
                                       InSeconds(old[j].expires) <= old[j].expires
    BY <2>1, <2>2, StateFacts, TimesInSeconds DEF Payload
  <2> HIDE DEF new, old
  <2>4. LogTells(k)
    BY DEF IInv
  <2>5. \/ k \in DOMAIN new /\ Tells(new[k], old, k, now)
        \/ k \notin DOMAIN old /\ k \notin DOMAIN new
    <3>1. CASE ~HasLine(log, k)
      BY <2>1, <2>4, <3>1 DEF LogTells, Same, old
    <3>2. CASE HasLine(log, k)
      <4>1. PICK i \in DOMAIN log : IsLast(log, i, k)
        BY <2>2, <3>2, LastExists
      <4>2. log[i] \in Line /\ log[i].key = k /\ Obeys(new, log[i])
        BY <2>1, <2>2, <4>1 DEF IsLast
      <4>3. ~(log[i].op = "SET" /\ IsExpired(log[i]))
        <5>1. \A j \in i + 1 .. Len(log) : log[j].key # k
          BY <2>2, <4>1 DEF IsLast
        <5> QED
          BY <4>2, <5>1 DEF LastSetHasExpired
      <4>4. LineTells(log[i], old, now)
        BY <2>4, <4>1, <4>3 DEF LogTells, old
      <4>5. CASE log[i].op = "DELETE"
        BY <4>2, <4>4, <4>5 DEF LineTells, Obeys
      <4>6. CASE log[i].op # "DELETE"
        <5>1. k \in DOMAIN new /\ new[k] = [value |-> log[i].value, expires |-> log[i].expires]
          BY <4>2, <4>3, <4>6, LineFacts DEF Obeys
        <5> QED
          BY <4>2, <4>4, <4>6, <5>1 DEF LineTells, Tells
      <4> QED
        BY <4>5, <4>6
    <3> QED
      BY <3>1, <3>2
  <2> QED
    BY <2>2, <2>3, <2>5, ConstantsAssumption DEF Tells, Served, Time, new, old
<1> QED
  BY <1>1, Invariance, PTL

(* A value that is served is taken away by a command, a restart, or a Get  *)
(* or Exists that saw an older value of the key (Get unlocks before it     *)
(* deletes); not by the ticker, nor by a read that looks again             *)
(* (deleteExpiredKeys), nor by a snapshot.                                 *)
THEOREM ValuesStay == Spec => ServedValuesStay
<1> DEFINE Stays == \A k \in Served(store.data) :
          \/ k \in DOMAIN store'.data
          \/ commands' # commands \/ restarts' # restarts
          \/ \E r \in Reader : k \in seen[r].keys /\ ~seen[r].recheck /\ seen'[r].keys = {}
<1>1. IInv /\ [Next]_vars => [Stays]_vars
  <2> SUFFICES ASSUME IInv, [Next]_vars,
                      NEW k \in DOMAIN store.data, k \notin DOMAIN store'.data,
                      store.data[k].expires # Never => store.data[k].expires > now,
                      commands' = commands, restarts' = restarts
               PROVE  \E r \in Reader : /\ k \in seen[r].keys /\ ~seen[r].recheck
                                        /\ seen'[r].keys = {}
    BY DEF Served
  <2>1. /\ Typed /\ now \in Nat /\ commands \in Nat /\ restarts \in Nat /\ store \in State
        /\ k \in Key /\ store.data[k].expires \in Time
    BY StateFacts, ConstantsAssumption DEF IInv, Typed, Payload
  <2>0. ~Command /\ ~Restart
    <3>1. commands + 1 # commands /\ restarts + 1 # restarts
      BY <2>1
    <3> QED
      BY <3>1 DEF Command, Restart
  <2>2. ~\E K \in SUBSET Key, v \in Value, ttl \in TTL \cup {Never} : SetKeys(K, v, ttl)
    BY <2>0 DEF SetKeys
  <2>3. /\ ~\E j \in Key : DeleteKey(j) \/ IncrementExpired(j)
        /\ ~\E j \in Key, amount \in Word : Increment(j, amount)
        /\ ~\E matching \in SUBSET Key : DeleteMatching(matching)
    BY <2>0 DEF DeleteKey, IncrementExpired, Increment, DeleteMatching
  <2>4. store' # store
    OBVIOUS
  <2>5. /\ ~\E r \in Reader, j \in Key : Get(r, j)
        /\ ~\E r \in Reader, K \in SUBSET Key : Mget(r, K)
        /\ ~SaveSnapshot /\ ~Tick /\ ~UNCHANGED vars
    BY <2>4 DEF Get, Mget, See, SaveSnapshot, Tick, vars
  <2>6. \A K : store' = DeleteEntries(store, K) => k \in K
    BY <2>1, DeleteEntriesState DEF Same
  <2>7. ~CleanupExpired
    <3> SUFFICES ASSUME CleanupExpired
                 PROVE  FALSE
      OBVIOUS
    <3>1. k \in DOMAIN store.heap /\ store.heap[k] <= now
      BY <2>6 DEF CleanupExpired
    <3>2. store.data[k].expires # Never /\ store.heap[k] = store.data[k].expires
      BY <2>1, <3>1, StateFacts
    <3> QED
      BY <2>1, <3>1, <3>2 DEF Time
  <2>8. PICK r \in Reader : DeleteSeen(r) \/ DeleteExpiredKeys(r)
    BY <2>0, <2>2, <2>3, <2>5, <2>7 DEF Next
  <2>9. ~DeleteExpiredKeys(r)
    <3> SUFFICES ASSUME DeleteExpiredKeys(r)
                 PROVE  FALSE
      OBVIOUS
    <3>1. k \in ExpiredKeys(store)
      BY <2>6 DEF DeleteExpiredKeys, SeenDone
    <3> QED
      BY <2>1, <3>1 DEF ExpiredKeys, IsExpired, Time
  <2>10. /\ k \in seen[r].keys /\ ~seen[r].recheck
         /\ seen' = [seen EXCEPT ![r] = [keys |-> {}, recheck |-> FALSE]]
    BY <2>6, <2>8, <2>9 DEF DeleteSeen, SeenDone
  <2> QED
    BY <2>1, <2>10 DEF Typed
<1> HIDE DEF Stays
<1>2. Spec => [][Stays]_vars
  BY <1>1, Invariance, PTL DEF Spec
<1> QED
  BY <1>2 DEF ServedValuesStay, Stays
=============================================================================
