----------------------------- MODULE TxExecProofs -----------------------------
(***************************************************************************)
(* Proofs about EXEC and its rollback, for any keys, engines, values and   *)
(* times to live, and any number of commands and EXECs.                    *)
(***************************************************************************)
EXTENDS TxExec, SequenceLemmas, SequenceTheorems

(* Entries that exist at time t: set in the past. *)
Sound(t) == {x \in Entry : x.created <= t} \cup {Absent}

SoundClosure(t) == [place : Place, entry : Sound(t)]

Typed ==
    /\ db \in [Place -> Sound(now)] /\ before \in [Place -> Sound(now)]
    /\ now \in 1 .. MaxTime
    /\ txPhase \in {"idle", "exec", "rollback"}
    /\ undos \in Seq(SoundClosure(now))
    /\ log \in Seq(Lined) /\ txBuffer \in Seq(Lined)
    /\ txPhase = "idle" => undos = << >> /\ txBuffer = << >>
    /\ commands \in 0 .. MaxCommands /\ txs \in 0 .. MaxTxs
    /\ {unsaved, lost, prolonged} \subseteq SUBSET Place

(* What became, until t, of an entry x is y: the same or nothing, nothing  *)
(* only once x may have expired, and the same value with a later expiry    *)
(* only at one of the places P.                                            *)
Keeps(t, P, p, x, y) ==
    /\ y # Absent => /\ x # Absent /\ y.value = x.value
                     /\ (y.expires = Never) <=> (x.expires = Never)
                     /\ p \notin P \/ x.expires = Never => y = x
    /\ x # Absent /\ (x.expires # Never => x.expires > t) =>
           y # Absent /\ (x.expires # Never => x.expires <= y.expires)

(* The same of what the log says, w, and what is there, y. *)
Tells(t, P, p, w, y) ==
    /\ y # Absent => /\ w # Absent /\ y.value = w.value
                     /\ (y.expires = Never) <=> (w.expires = Never)
                     /\ p \notin P \/ w.expires = Never => w = Logged(y)
    /\ w # Absent /\ (w.expires # Never => w.expires > t) =>
           y # Absent /\ (w.expires # Never => w.expires <= y.expires)

HasLine(s, p) == \E i \in DOMAIN s : s[i].place = p

(* The line of a place after which there is no other about it. *)
IsLast(s, i, p) == /\ i \in DOMAIN s /\ s[i].place = p
                   /\ \A j \in DOMAIN s : j > i => s[j].place # p

(* What the closures will put back is what was there before the EXEC: of   *)
(* the closures about a place the last to run is the one that counts.  A   *)
(* place without a closure still has it.                                   *)
UndosKeepBefore ==
    txPhase # "idle" =>
        \A p \in Place \ unsaved :
            /\ ~HasLine(undos, p) => Keeps(now, prolonged, p, before[p], db[p])
            /\ \A i \in DOMAIN undos :
                  IsLast(undos, i, p) => Keeps(now, prolonged, p, before[p], undos[i].entry)

(* The log and the collected lines tell what is in memory. *)
LinesMatchMemory ==
    txPhase # "rollback" =>
        \A p \in Place \ lost : Tells(now, prolonged, p, LastWord(log \o txBuffer, p), db[p])

(* The log still tells what was there before the EXEC. *)
LogTellsBefore ==
    txPhase # "idle" =>
        \A p \in Place \ lost : Tells(now, prolonged, p, LastWord(log, p), before[p])

IInv == Typed /\ UndosKeepBefore /\ LinesMatchMemory /\ LogTellsBefore

-----------------------------------------------------------------------------
(* Entries and what becomes of them.                                       *)
LEMMA SoundEntry ==
  ASSUME NEW t \in Nat, NEW x \in Sound(t), x # Absent
  PROVE  /\ x \in Entry /\ x.value \in Value /\ x.created \in Nat /\ x.expires \in Int \cup {Never}
         /\ x.created <= t
BY DEF Sound, Entry, Time

LEMMA SoundLater ==
  ASSUME NEW t \in Nat, NEW u \in Nat, t <= u
  PROVE  Sound(t) \subseteq Sound(u) /\ SoundClosure(t) \subseteq SoundClosure(u)
BY DEF Sound, SoundClosure, Entry

LEMMA WordParts ==
  ASSUME NEW w \in Word \cup {Absent}, w # Absent
  PROVE  w.value \in Value /\ w.expires \in Int \cup {Never}
BY DEF Word, Time

(* A line is about the value, and keeps an expiry that is not later. *)
LEMMA LoggedWord ==
  ASSUME NEW t \in Nat, NEW x \in Sound(t)
  PROVE  /\ Logged(x) \in Word \cup {Absent}
         /\ Logged(x) = Absent <=> x = Absent
         /\ x # Absent => /\ Logged(x).value = x.value
                          /\ (Logged(x).expires = Never) <=> (x.expires = Never)
                          /\ Logged(x).expires = InSeconds(x.expires)
                          /\ x.expires # Never => Logged(x).expires <= x.expires
<1>1. CASE x = Absent
  BY <1>1 DEF Logged
<1>2. CASE x # Absent
  <2>1. x.value \in Value /\ x.expires \in Int \cup {Never}
    BY <1>2, SoundEntry
  <2>2. /\ InSeconds(x.expires) \in Int \cup {Never}
        /\ (InSeconds(x.expires) = Never) <=> (x.expires = Never)
        /\ x.expires # Never => InSeconds(x.expires) <= x.expires
    <3>1. CASE x.expires = Never
      BY <3>1 DEF InSeconds
    <3>2. CASE x.expires # Never
      <4>1. x.expires \in Int /\ InSeconds(x.expires) = x.expires - (x.expires % Second)
        BY <2>1, <3>2 DEF InSeconds
      <4>2. Second \in Nat \ {0} /\ Never \notin Int
        BY ConstantsAssumption
      <4>3. \A e \in Int : e - (e % Second) \in Int /\ e - (e % Second) <= e
        BY <4>2
      <4> QED
        BY <3>2, <4>1, <4>2, <4>3
    <3> QED
      BY <3>1, <3>2
  <2>3. Logged(x) = [value |-> x.value, expires |-> InSeconds(x.expires)]
    BY <1>2 DEF Logged
  <2>4. Logged(x) \in Word
    BY <2>1, <2>2, <2>3 DEF Word, Time
  <2>5. Logged(x) # Absent
    BY <2>4, AbsentAssumption
  <2> QED
    BY <1>2, <2>2, <2>3, <2>4, <2>5
<1> QED
  BY <1>1, <1>2

LEMMA KeepsReflexive ==
  ASSUME NEW t \in Nat, NEW P, NEW p, NEW x \in Sound(t)
  PROVE  Keeps(t, P, p, x, x)
BY SoundEntry DEF Keeps

LEMMA TellsWhatIsThere ==
  ASSUME NEW t \in Nat, NEW P, NEW p, NEW x \in Sound(t)
  PROVE  Tells(t, P, p, Logged(x), x)
BY SoundEntry, LoggedWord, ConstantsAssumption DEF Tells

LEMMA TellsTransitive ==
  ASSUME NEW t \in Nat, NEW P, NEW p, NEW w \in Word \cup {Absent},
         NEW x \in Sound(t), NEW y \in Sound(t),
         Tells(t, P, p, w, x), Keeps(t, P, p, x, y)
  PROVE  Tells(t, P, p, w, y)
<1>1. CASE y = Absent
  BY <1>1, SoundEntry, WordParts, ConstantsAssumption DEF Keeps, Tells
<1>2. CASE y # Absent
  <2>1. /\ x # Absent /\ w # Absent /\ y.value = x.value /\ x.value = w.value
        /\ (y.expires = Never) <=> (x.expires = Never)
        /\ (x.expires = Never) <=> (w.expires = Never)
    BY <1>2 DEF Keeps, Tells
  <2>2. p \notin P \/ w.expires = Never => w = Logged(y)
    BY <1>2, <2>1 DEF Keeps, Tells
  <2>3. ASSUME w.expires # Never, w.expires > t
        PROVE  w.expires <= y.expires
    <3>1. w.expires <= x.expires
      BY <2>1, <2>3 DEF Tells
    <3>2. w.expires \in Int /\ x.expires \in Int /\ y.expires \in Int
      BY <1>2, <2>1, <2>3, SoundEntry, WordParts
    <3>3. x.expires <= y.expires
      BY <2>1, <2>3, <3>1, <3>2 DEF Keeps
    <3> QED
      BY <3>1, <3>2, <3>3
  <2>4. w.expires # Never /\ ~(w.expires > t) => w.expires # Never
    OBVIOUS
  <2> QED
    BY <1>2, <2>1, <2>2, <2>3 DEF Tells
<1> QED
  BY <1>1, <1>2

LEMMA KeepsLater ==
  ASSUME NEW t \in Nat, NEW u \in Nat, t <= u, NEW P, NEW p, NEW x \in Sound(t), NEW y,
         Keeps(t, P, p, x, y)
  PROVE  Keeps(u, P, p, x, y)
BY SoundEntry DEF Keeps

LEMMA TellsLater ==
  ASSUME NEW t \in Nat, NEW u \in Nat, t <= u, NEW P, NEW p, NEW w \in Word \cup {Absent}, NEW y,
         Tells(t, P, p, w, y)
  PROVE  Tells(u, P, p, w, y)
BY WordParts DEF Tells

(* More places may be among those with a later expiry. *)
LEMMA KeepsElsewhere ==
  ASSUME NEW t, NEW P, NEW Q, P \subseteq Q, NEW p, NEW x, NEW y
  PROVE  /\ Keeps(t, P, p, x, y) => Keeps(t, Q, p, x, y)
         /\ Tells(t, P, p, x, y) => Tells(t, Q, p, x, y)
BY DEF Keeps, Tells

(* What may have expired may be gone. *)
LEMMA KeepsExpired ==
  ASSUME NEW t \in Nat, NEW P, NEW p, NEW x \in Sound(t), NEW y \in Sound(t),
         Keeps(t, P, p, x, y), y = Absent \/ (y.expires # Never /\ y.expires <= t)
  PROVE  Keeps(t, P, p, x, Absent)
BY SoundEntry DEF Keeps

LEMMA AbsentIsSound ==
  ASSUME NEW t
  PROVE  Absent \in Sound(t)
BY DEF Sound

LEMMA FreshIsSound ==
  ASSUME NEW v \in Value, NEW ttl \in Time, now \in Nat
  PROVE  /\ Fresh(v, ttl) \in Sound(now)
         /\ Fresh(v, ttl) # Absent
<1>1. Fresh(v, ttl) \in Entry /\ Fresh(v, ttl).created = now
  BY ConstantsAssumption DEF Fresh, Entry, Time
<1> QED
  BY <1>1, AbsentAssumption DEF Sound

(* A closure that starts a time to live anew moves the expiry to later. *)
LEMMA RestoredKeeps ==
  ASSUME now \in Nat, NEW y \in Sound(now), NEW P, NEW p,
         y = Absent \/ y.expires = Never \/ p \in P
  PROVE  /\ Restored(y) \in Sound(now)
         /\ \A x \in Sound(now) : Keeps(now, P, p, x, y) => Keeps(now, P, p, x, Restored(y))
<1>1. CASE y = Absent \/ y.expires = Never
  BY <1>1 DEF Restored
<1>2. CASE y # Absent /\ y.expires # Never
  <2> DEFINE ttl == y.expires - y.created
  <2>1. /\ y.value \in Value /\ y.created \in Nat /\ y.expires \in Int
        /\ y.created <= now
    BY <1>2, SoundEntry
  <2>2. ttl \in Int /\ ttl # Never
    BY <2>1, ConstantsAssumption
  <2>3. Restored(y) = Fresh(y.value, ttl)
    BY <1>2 DEF Restored
  <2>4. Restored(y) \in Sound(now) /\ Restored(y) # Absent
    <3> HIDE DEF ttl
    <3> QED
      BY <2>1, <2>2, <2>3, FreshIsSound DEF Time
  <2>5. /\ Restored(y).value = y.value /\ Restored(y).expires = now + ttl
        /\ now + ttl \in Int /\ y.expires <= now + ttl
    BY <2>1, <2>2, <2>3 DEF Fresh
  <2>6. now + ttl # Never
    BY <2>5, ConstantsAssumption
  <2>7. ASSUME NEW x \in Sound(now), Keeps(now, P, p, x, y)
        PROVE  Keeps(now, P, p, x, Restored(y))
    <3>1. /\ x # Absent /\ y.value = x.value /\ x.expires # Never /\ x.expires \in Int
          /\ x.expires > now => x.expires <= y.expires
      BY <1>2, <2>7, SoundEntry DEF Keeps
    <3>2. p \in P
      BY <1>2
    <3> HIDE DEF ttl
    <3> QED
      BY <2>1, <2>4, <2>5, <2>6, <3>1, <3>2 DEF Keeps
  <2> QED
    BY <2>4, <2>7
<1> QED
  BY <1>1, <1>2

-----------------------------------------------------------------------------
(* The lines, and what they say of the places.                             *)
LEMMA LastExists ==
  ASSUME NEW L, NEW s \in Seq(L), NEW p, HasLine(s, p)
  PROVE  \E i \in DOMAIN s : IsLast(s, i, p)
<1> DEFINE I == {i \in DOMAIN s : s[i].place = p}
<1>1. Len(s) \in Nat /\ I \in SUBSET (1 .. Len(s)) /\ I # {}
  BY DEF HasLine
<1>2. Max(I) \in I /\ \A j \in I : j <= Max(I)
  BY <1>1, MaxPosition
<1>3. PICK m \in I : \A j \in I : j <= m
  BY <1>2
<1>4. IsLast(s, m, p)
  BY <1>1, <1>3 DEF IsLast
<1> QED
  BY <1>4

(* The last of some positions. *)
LEMMA LatestIs ==
  ASSUME NEW L, NEW s \in Seq(L), NEW I \in SUBSET (DOMAIN s), NEW i \in I,
         \A j \in I : j <= i
  PROVE  Latest(s, I) = s[i].entry
<1>1. Len(s) \in Nat /\ I \in SUBSET (1 .. Len(s)) /\ I # {}
  OBVIOUS
<1>2. Max(I) \in I /\ \A j \in I : j <= Max(I)
  BY <1>1, MaxPosition
<1>3. Max(I) = i
  <2>1. PICK m : m = Max(I)
    OBVIOUS
  <2>2. m \in I /\ m <= i /\ i <= m
    BY <1>2, <2>1
  <2> QED
    BY <1>1, <2>1, <2>2
<1> QED
  BY <1>1, <1>3 DEF Latest

(* The last line about a place says what is there. *)
LEMMA LastWordIs ==
  ASSUME NEW L, NEW s \in Seq(L), NEW p
  PROVE  /\ ~HasLine(s, p) => LastWord(s, p) = Absent
         /\ \A i \in DOMAIN s : IsLast(s, i, p) => LastWord(s, p) = s[i].entry
<1> DEFINE I == {i \in DOMAIN s : s[i].place = p}
<1>1. ASSUME ~HasLine(s, p)
      PROVE  LastWord(s, p) = Absent
  <2>1. I = {}
    BY <1>1 DEF HasLine
  <2> QED
    BY <2>1 DEF LastWord, Latest
<1>2. ASSUME NEW i \in DOMAIN s, IsLast(s, i, p)
      PROVE  LastWord(s, p) = s[i].entry
  <2>1. i \in I /\ I \in SUBSET (DOMAIN s)
    BY <1>2 DEF IsLast
  <2>2. \A j \in I : j <= i
    BY <1>2 DEF IsLast
  <2> HIDE DEF I
  <2>3. Latest(s, I) = s[i].entry
    BY <2>1, <2>2, LatestIs
  <2> QED
    BY <2>3 DEF LastWord, I
<1> QED
  BY <1>1, <1>2

LEMMA LastWordType ==
  ASSUME NEW s \in Seq(Lined), NEW p
  PROVE  LastWord(s, p) \in Word \cup {Absent}
<1>1. CASE ~HasLine(s, p)
  BY <1>1, LastWordIs
<1>2. CASE HasLine(s, p)
  <2>1. PICK i \in DOMAIN s : IsLast(s, i, p)
    BY <1>2, LastExists
  <2>2. LastWord(s, p) = s[i].entry /\ s[i] \in Lined
    BY <2>1, LastWordIs
  <2> QED
    BY <2>2 DEF Lined
<1> QED
  BY <1>1, <1>2

(* The replay gives what the last line says, unless it skips it. *)
LEMMA ReplayedIs ==
  ASSUME NEW s \in Seq(Lined), NEW p, LastWord(s, p) = Absent \/ ~IsExpired(LastWord(s, p)), HasLine(s, p)
  PROVE  Replayed(s, p) = LastWord(s, p)
<1> DEFINE I == {i \in DOMAIN s : /\ s[i].place = p
                                  /\ s[i].entry = Absent \/ ~IsExpired(s[i].entry)}
<1>1. PICK i \in DOMAIN s : IsLast(s, i, p)
  BY LastExists
<1>2. LastWord(s, p) = s[i].entry
  BY <1>1, LastWordIs
<1>3. i \in I /\ I \in SUBSET (DOMAIN s)
  BY <1>1, <1>2 DEF IsLast
<1>4. \A j \in I : j <= i
  BY <1>1 DEF IsLast
<1> HIDE DEF I
<1>5. Latest(s, I) = s[i].entry
  BY <1>3, <1>4, LatestIs
<1> QED
  BY <1>2, <1>5 DEF Replayed, I

LEMMA NothingReplayed ==
  ASSUME NEW s, NEW p, ~HasLine(s, p)
  PROVE  Replayed(s, p) = Absent
<1>1. {i \in DOMAIN s : /\ s[i].place = p
                        /\ s[i].entry = Absent \/ ~IsExpired(s[i].entry)} = {}
  BY DEF HasLine
<1> QED
  BY <1>1 DEF Replayed, Latest

(* More lines overrule those before them. *)
LEMMA LastWordOfConcat ==
  ASSUME NEW L, NEW s \in Seq(L), NEW more \in Seq(L), NEW p
  PROVE  /\ ~HasLine(more, p) => LastWord(s \o more, p) = LastWord(s, p)
         /\ \A i \in DOMAIN more :
               IsLast(more, i, p) => LastWord(s \o more, p) = more[i].entry
<1>1. /\ s \o more \in Seq(L)
      /\ DOMAIN (s \o more) = 1 .. Len(s) + Len(more)
      /\ \A i \in DOMAIN s : (s \o more)[i] = s[i]
      /\ \A i \in DOMAIN more : Len(s) + i \in DOMAIN (s \o more) /\ (s \o more)[Len(s) + i] = more[i]
      /\ \A i \in DOMAIN (s \o more) \ DOMAIN s :
            i - Len(s) \in DOMAIN more /\ (s \o more)[i] = more[i - Len(s)]
      /\ DOMAIN s = 1 .. Len(s) /\ DOMAIN more = 1 .. Len(more)
      /\ DOMAIN s \subseteq DOMAIN (s \o more)
  OBVIOUS
<1> DEFINE c == s \o more
<1>0. c \in Seq(L)
  BY <1>1
<1> HIDE DEF c
<1>2. ASSUME NEW i \in DOMAIN more, IsLast(more, i, p)
      PROVE  LastWord(c, p) = more[i].entry
  <2>1. IsLast(c, Len(s) + i, p)
    BY <1>1, <1>2 DEF IsLast, c
  <2>2. c[Len(s) + i] = more[i]
    BY <1>1 DEF c
  <2> QED
    BY <1>0, <2>1, <2>2, LastWordIs DEF IsLast
<1>3. ASSUME ~HasLine(more, p)
      PROVE  LastWord(c, p) = LastWord(s, p)
  <2>1. CASE ~HasLine(s, p)
    <3>1. ~HasLine(c, p)
      BY <1>1, <1>3, <2>1 DEF HasLine, c
    <3> QED
      BY <1>0, <2>1, <3>1, LastWordIs
  <2>2. CASE HasLine(s, p)
    <3>1. PICK i \in DOMAIN s : IsLast(s, i, p)
      BY <2>2, LastExists
    <3>2. IsLast(c, i, p)
      BY <1>1, <1>3, <3>1 DEF IsLast, HasLine, c
    <3>3. LastWord(c, p) = c[i].entry
      BY <1>0, <3>2, LastWordIs DEF IsLast
    <3>4. c[i] = s[i]
      BY <1>1 DEF c
    <3> QED
      BY <3>1, <3>3, <3>4, LastWordIs
  <2> QED
    BY <2>1, <2>2
<1> QED
  BY <1>2, <1>3 DEF c

(* A line after the others overrules those about its place. *)
LEMMA LastWordOfAppend ==
  ASSUME NEW s \in Seq(Lined), NEW l \in Lined, NEW p
  PROVE  LastWord(Append(s, l), p) = IF l.place = p THEN l.entry ELSE LastWord(s, p)
<1> DEFINE one == <<l>>
<1>1. one \in Seq(Lined) /\ DOMAIN one = {1} /\ one[1] = l
  OBVIOUS
<1>2. Append(s, l) = s \o one
  BY AppendIsConcat
<1> HIDE DEF one
<1>3. CASE l.place = p
  <2>1. IsLast(one, 1, p)
    BY <1>1, <1>3 DEF IsLast
  <2> QED
    BY <1>1, <1>2, <1>3, <2>1, LastWordOfConcat
<1>4. CASE l.place # p
  <2>1. ~HasLine(one, p)
    BY <1>1, <1>4 DEF HasLine
  <2> QED
    BY <1>1, <1>2, <1>4, <2>1, LastWordOfConcat
<1> QED
  BY <1>3, <1>4

(* What a command writes: finitely many places, with entries of this time. *)
IsWrites(writes) == /\ DOMAIN writes \subseteq Place /\ IsFiniteSet(DOMAIN writes)
                    /\ \A p \in DOMAIN writes : writes[p] \in Sound(now)

LEMMA LineType ==
  ASSUME NEW t \in Nat, NEW p \in Place, NEW x \in Sound(t)
  PROVE  /\ Line(p, x) \in Lined
         /\ Line(p, x).place = p /\ Line(p, x).entry = Logged(x)
BY LoggedWord DEF Line, Lined

LEMMA LinesProperties ==
  ASSUME now \in Nat, NEW writes, IsWrites(writes)
  PROVE  /\ Lines(writes) \in Seq(Lined)
         /\ \A p \in Place :
               /\ p \notin DOMAIN writes => ~HasLine(Lines(writes), p)
               /\ p \in DOMAIN writes => \E i \in DOMAIN Lines(writes) :
                     IsLast(Lines(writes), i, p) /\ Lines(writes)[i].entry = Logged(writes[p])
<1> DEFINE D == DOMAIN writes
           line(p) == Line(p, writes[p])
           S == {line(p) : p \in D}
           f == [p \in D |-> line(p)]
<1>1. IsFiniteSet(S)
  <2>1. f \in Surjection(D, S)
    BY DEF Surjection
  <2> QED
    BY <2>1, FS_Surjection DEF IsWrites
<1>2. S \subseteq Lined
  BY LineType DEF IsWrites
<1>3. Lines(writes) = SetToSeq(S)
  BY DEF Lines
<1> DEFINE s == Lines(writes)
<1>4. /\ s \in Seq(S)
      /\ \A x \in S : \E i \in DOMAIN s : s[i] = x
      /\ \A i, j \in DOMAIN s : s[i] = s[j] => i = j
  <2> HIDE DEF S
  <2> QED
    BY <1>1, <1>3, SetToSeqProperties
<1>5. \A i \in DOMAIN s : \E p \in D : s[i] = line(p)
  BY <1>4
<1>0. \A p \in D : line(p).place = p /\ line(p).entry = Logged(writes[p])
  BY DEF Line
<1> HIDE DEF line
<1>6. s \in Seq(Lined)
  <2> HIDE DEF S, s
  <2> QED
    BY <1>2, <1>4
<1>7. ASSUME NEW p \in D
      PROVE  \E i \in DOMAIN s : IsLast(s, i, p) /\ s[i].entry = Logged(writes[p])
  <2>1. PICK i \in DOMAIN s : s[i] = line(p)
    BY <1>4, <1>7
  <2>2. ASSUME NEW j \in DOMAIN s, s[j].place = p
        PROVE  j = i
    <3>1. PICK q \in D : s[j] = line(q)
      BY <1>5
    <3> HIDE DEF s
    <3>2. q = p
      BY <1>0, <2>2, <3>1
    <3> QED
      BY <1>4, <2>1, <3>1, <3>2
  <2>3. DOMAIN s = 1 .. Len(s) /\ Len(s) \in Nat
    <3> HIDE DEF s
    <3> QED
      BY <1>6
  <2>4. IsLast(s, i, p)
    <3> HIDE DEF s
    <3> QED
      BY <1>0, <2>1, <2>2, <2>3 DEF IsLast
  <2> HIDE DEF s
  <2> QED
    BY <1>0, <2>1, <2>4
<1>8. ASSUME NEW p \in Place, p \notin D
      PROVE  ~HasLine(s, p)
  <2> HIDE DEF s
  <2> QED
    BY <1>0, <1>5, <1>8 DEF HasLine
<1> HIDE DEF s
<1> QED
  BY <1>6, <1>7, <1>8 DEF s

(* The last line of two sequences is that of the second, if it has one. *)
LEMMA LastOfConcat ==
  ASSUME NEW L, NEW s \in Seq(L), NEW more \in Seq(L), NEW p
  PROVE  /\ HasLine(s \o more, p) <=> HasLine(s, p) \/ HasLine(more, p)
         /\ \A i \in DOMAIN (s \o more) : IsLast(s \o more, i, p) =>
               \/ \E j \in DOMAIN more : IsLast(more, j, p) /\ (s \o more)[i] = more[j]
               \/ ~HasLine(more, p) /\ IsLast(s, i, p) /\ (s \o more)[i] = s[i]
<1> DEFINE c == s \o more
<1>1. /\ DOMAIN c = 1 .. Len(s) + Len(more)
      /\ \A i \in DOMAIN s : i \in DOMAIN c /\ c[i] = s[i]
      /\ \A i \in DOMAIN more : Len(s) + i \in DOMAIN c /\ c[Len(s) + i] = more[i]
      /\ \A i \in DOMAIN c \ DOMAIN s :
            i - Len(s) \in DOMAIN more /\ c[i] = more[i - Len(s)]
      /\ DOMAIN s = 1 .. Len(s) /\ DOMAIN more = 1 .. Len(more)
      /\ Len(s) \in Nat /\ Len(more) \in Nat
  OBVIOUS
<1> HIDE DEF c
<1>2. HasLine(c, p) <=> HasLine(s, p) \/ HasLine(more, p)
  BY <1>1 DEF HasLine
<1>3. ASSUME NEW i \in DOMAIN c, IsLast(c, i, p)
      PROVE  \/ \E j \in DOMAIN more : IsLast(more, j, p) /\ c[i] = more[j]
             \/ ~HasLine(more, p) /\ IsLast(s, i, p) /\ c[i] = s[i]
  <2>1. CASE i \in DOMAIN s
    <3>1. ~HasLine(more, p)
      BY <1>1, <1>3, <2>1 DEF HasLine, IsLast
    <3>2. IsLast(s, i, p)
      BY <1>1, <1>3, <2>1 DEF IsLast
    <3> QED
      BY <1>1, <2>1, <3>1, <3>2
  <2>2. CASE i \notin DOMAIN s
    <3>1. i - Len(s) \in DOMAIN more /\ c[i] = more[i - Len(s)]
      BY <1>1, <2>2
    <3>2. IsLast(more, i - Len(s), p)
      BY <1>1, <1>3, <3>1 DEF IsLast
    <3> QED
      BY <3>1, <3>2
  <2> QED
    BY <2>1, <2>2
<1> QED
  BY <1>2, <1>3 DEF c

-----------------------------------------------------------------------------
(* The inductive invariant.                                                *)
LEMMA CapturedKeeps ==
  ASSUME Typed, NEW p \in Place
  PROVE  /\ Captured(p) \in Sound(now)
         /\ \A x \in Sound(now) : Keeps(now, prolonged, p, x, db[p]) => Keeps(now, prolonged, p, x, Captured(p))
<1>1. db[p] \in Sound(now) /\ now \in Nat
  BY ConstantsAssumption DEF Typed
<1>2. Absent \in Sound(now)
  BY DEF Sound
<1>3. CASE IsLive(db[p])
  BY <1>1, <1>3 DEF Captured
<1>4. CASE ~IsLive(db[p])
  <2>1. Captured(p) = Absent
    BY <1>4 DEF Captured
  <2>2. db[p] = Absent \/ (db[p].expires # Never /\ db[p].expires <= now)
    BY <1>1, <1>4, SoundEntry DEF IsLive, IsExpired
  <2> QED
    BY <1>1, <1>2, <2>1, <2>2, KeepsExpired
<1> QED
  BY <1>3, <1>4

(* A command of the EXEC: its closure captures one place or none. *)
LEMMA TxCommandStep ==
  ASSUME IInv, NEW saved \in SUBSET Place, IsFiniteSet(saved),
         NEW writes, IsWrites(writes), TxCommand(saved, writes)
  PROVE  IInv'
<1> DEFINE closure(p) == [place |-> p, entry |-> Captured(p)]
           C   == {closure(p) : p \in saved}
           new == SetToSeq(C)
<1>1. Typed /\ now \in Nat
  BY ConstantsAssumption DEF IInv, Typed
<1>2. /\ txPhase = "exec" /\ txPhase' = "exec" /\ now' = now /\ log' = log
      /\ before' = before /\ lost' = lost /\ prolonged' = prolonged /\ txs' = txs
      /\ commands < MaxCommands /\ commands' = commands + 1
      /\ undos' = new \o undos /\ db' = Written(writes)
      /\ txBuffer' = txBuffer \o Lines(writes)
      /\ unsaved' = unsaved \cup
             {p \in DOMAIN writes \ saved : writes[p] # Captured(p) /\ ~HasLine(undos, p)}
  BY DEF TxCommand, HasLine
<1>3. IsFiniteSet(C) /\ C \subseteq SoundClosure(now)
  <2> DEFINE f == [p \in saved |-> closure(p)]
  <2>1. f \in Surjection(saved, C)
    BY DEF Surjection
  <2>2. IsFiniteSet(C)
    BY <2>1, FS_Surjection
  <2>3. \A p \in saved : Captured(p) \in Sound(now)
    BY <1>1, CapturedKeeps
  <2> QED
    BY <2>2, <2>3 DEF SoundClosure
<1>4. /\ new \in Seq(SoundClosure(now))
      /\ \A i \in DOMAIN new : new[i].place \in saved /\ new[i].entry = Captured(new[i].place)
      /\ \A p \in saved : HasLine(new, p)
  <2>1. /\ new \in Seq(C)
        /\ \A x \in C : \E i \in DOMAIN new : new[i] = x
    <3> HIDE DEF C
    <3> QED
      BY <1>3, SetToSeqProperties
  <2>2. \A i \in DOMAIN new : \E p \in saved : new[i] = closure(p)
    <3>1. \A i \in DOMAIN new : new[i] \in C
      <4> HIDE DEF C, new
      <4> QED
        BY <2>1
    <3> HIDE DEF new
    <3> QED
      BY <3>1
  <2>3. \A p \in saved : HasLine(new, p)
    <3> TAKE p \in saved
    <3>1. PICK i \in DOMAIN new : new[i] = closure(p)
      BY <2>1
    <3> QED
      BY <3>1 DEF HasLine
  <2>4. new \in Seq(SoundClosure(now))
    <3> HIDE DEF C, new
    <3> QED
      BY <1>3, <2>1
  <2> HIDE DEF new
  <2> QED
    BY <2>2, <2>3, <2>4
<1> HIDE DEF C, new
<1>5. /\ Lines(writes) \in Seq(Lined)
      /\ \A p \in Place :
            /\ p \notin DOMAIN writes => ~HasLine(Lines(writes), p)
            /\ p \in DOMAIN writes => \E i \in DOMAIN Lines(writes) :
                  IsLast(Lines(writes), i, p) /\ Lines(writes)[i].entry = Logged(writes[p])
  BY <1>1, LinesProperties
<1>6. /\ db' \in [Place -> Sound(now)]
      /\ \A p \in Place : db'[p] = IF p \in DOMAIN writes THEN writes[p] ELSE db[p]
  BY <1>1, <1>2 DEF Written, Typed, IsWrites
<1>7. Typed'
  <2>1. undos' \in Seq(SoundClosure(now)) /\ txBuffer' \in Seq(Lined)
    BY <1>1, <1>2, <1>4, <1>5 DEF Typed
  <2>2. unsaved' \subseteq Place
    BY <1>1, <1>2 DEF Typed, IsWrites
  <2>3. commands' \in 0 .. MaxCommands
    BY <1>1, <1>2, ConstantsAssumption DEF Typed
  <2> QED
    BY <1>1, <1>2, <1>6, <2>1, <2>2, <2>3 DEF Typed
<1>8. UndosKeepBefore'
  <2> SUFFICES ASSUME NEW p \in Place \ unsaved'
               PROVE  /\ ~HasLine(undos', p) => Keeps(now, prolonged, p, before[p], db'[p])
                      /\ \A i \in DOMAIN undos' :
                            IsLast(undos', i, p) => Keeps(now, prolonged, p, before[p], undos'[i].entry)
    BY <1>2 DEF UndosKeepBefore
  <2>1. before[p] \in Sound(now) /\ undos \in Seq(SoundClosure(now))
    BY <1>1 DEF Typed
  <2>2. /\ ~HasLine(undos, p) => Keeps(now, prolonged, p, before[p], db[p])
        /\ \A i \in DOMAIN undos :
              IsLast(undos, i, p) => Keeps(now, prolonged, p, before[p], undos[i].entry)
    BY <1>2 DEF IInv, UndosKeepBefore
  <2>3. ~HasLine(undos, p) => Keeps(now, prolonged, p, before[p], Captured(p))
    BY <1>1, <2>1, <2>2, CapturedKeeps
  <2>4. ASSUME ~HasLine(undos', p)
        PROVE  Keeps(now, prolonged, p, before[p], db'[p])
    <3>1. ~HasLine(undos, p) /\ p \notin saved
      BY <1>2, <1>4, <2>1, <2>4, LastOfConcat
    <3>2. p \in DOMAIN writes => writes[p] = Captured(p)
      BY <1>2, <3>1
    <3> QED
      BY <1>6, <2>2, <2>3, <3>1, <3>2
  <2>5. ASSUME NEW i \in DOMAIN undos', IsLast(undos', i, p)
        PROVE  Keeps(now, prolonged, p, before[p], undos'[i].entry)
    <3> DEFINE all == new \o undos
    <3>0. \A k \in DOMAIN all : IsLast(all, k, p) =>
             \/ \E j \in DOMAIN undos : IsLast(undos, j, p) /\ all[k] = undos[j]
             \/ ~HasLine(undos, p) /\ IsLast(new, k, p) /\ all[k] = new[k]
      BY <1>4, <2>1, LastOfConcat
    <3>1. \/ \E j \in DOMAIN undos : IsLast(undos, j, p) /\ undos'[i] = undos[j]
          \/ ~HasLine(undos, p) /\ IsLast(new, i, p) /\ undos'[i] = new[i]
      <4> HIDE DEF all
      <4>1. undos' = all
        BY <1>2 DEF all
      <4> QED
        BY <2>5, <3>0, <4>1
    <3>2. CASE \E j \in DOMAIN undos : IsLast(undos, j, p) /\ undos'[i] = undos[j]
      BY <2>2, <3>2
    <3>3. CASE ~HasLine(undos, p) /\ IsLast(new, i, p) /\ undos'[i] = new[i]
      <4>1. undos'[i].entry = Captured(p)
        BY <1>4, <3>3 DEF IsLast
      <4> QED
        BY <2>3, <3>3, <4>1
    <3> QED
      BY <3>1, <3>2, <3>3
  <2> QED
    BY <2>4, <2>5
<1>9. LinesMatchMemory'
  <2> DEFINE all == log \o txBuffer
  <2>1. /\ log \in Seq(Lined) /\ txBuffer \in Seq(Lined) /\ all \in Seq(Lined)
    BY <1>1 DEF Typed
  <2>2. log' \o txBuffer' = all \o Lines(writes)
    <3>1. log' \o txBuffer' = log \o (txBuffer \o Lines(writes))
      BY <1>2
    <3>2. all \o Lines(writes) = log \o (txBuffer \o Lines(writes))
      BY <1>5, <2>1, ConcatAssociative
    <3> QED
      BY <3>1, <3>2
  <2> SUFFICES ASSUME NEW p \in Place \ lost
               PROVE  Tells(now, prolonged, p, LastWord(all \o Lines(writes), p), db'[p])
    BY <1>2, <2>2 DEF LinesMatchMemory
  <2>3. CASE p \in DOMAIN writes
    <3>1. LastWord(all \o Lines(writes), p) = Logged(writes[p])
      <4> HIDE DEF all
      <4> QED
        BY <1>5, <2>1, <2>3, LastWordOfConcat
    <3> QED
      BY <1>1, <1>6, <2>3, <3>1, TellsWhatIsThere DEF IsWrites
  <2>4. CASE p \notin DOMAIN writes
    <3>1. LastWord(all \o Lines(writes), p) = LastWord(all, p)
      <4> HIDE DEF all
      <4> QED
        BY <1>5, <2>1, <2>4, LastWordOfConcat
    <3>2. Tells(now, prolonged, p, LastWord(all, p), db[p])
      BY <1>2 DEF IInv, LinesMatchMemory
    <3> QED
      BY <1>6, <2>4, <3>1, <3>2
  <2> QED
    BY <2>3, <2>4
<1>10. LogTellsBefore'
  BY <1>2 DEF IInv, LogTellsBefore
<1> QED
  BY <1>7, <1>8, <1>9, <1>10 DEF IInv

LEMMA OneIsWrites ==
  ASSUME NEW p \in Place, NEW x \in Sound(now)
  PROVE  IsWrites(One(p, x)) /\ IsFiniteSet({p}) /\ {p} \in SUBSET Place
BY FS_Singleton DEF IsWrites, One

LEMMA PlacesAreFinite ==
  ASSUME NEW e \in {"kv"} \cup Collection, NEW K \in SUBSET Key, NEW D \in SUBSET ({e} \X K)
  PROVE  IsFiniteSet(D) /\ D \subseteq Place
<1>1. IsFiniteSet(K) /\ IsFiniteSet({e})
  BY FS_Subset, FS_Singleton, ConstantsAssumption
<1>2. IsFiniteSet({e} \X K)
  BY <1>1, FS_Product
<1> QED
  BY <1>2, FS_Subset DEF Place

LEMMA SimpleIsSound ==
  ASSUME Typed
  PROVE  /\ now \in Nat /\ Absent \in Sound(now)
         /\ Simple \subseteq Sound(now)
         /\ \A v \in Value, ttl \in TTL \cup {Never} : Fresh(v, ttl) \in Sound(now)
         /\ \A p \in Place : db[p] \in Sound(now)
<1>0. now \in Nat
  BY ConstantsAssumption DEF Typed
<1>1. TTL \cup {Never} \subseteq Time
  BY ConstantsAssumption DEF Time
<1>2. Absent \in Sound(now)
  BY DEF Sound
<1>3. \A v \in Value, ttl \in TTL \cup {Never} : Fresh(v, ttl) \in Sound(now)
  BY <1>0, <1>1, FreshIsSound
<1>4. Simple \subseteq Sound(now)
  BY <1>2, <1>3 DEF Simple
<1> QED
  BY <1>0, <1>2, <1>3, <1>4 DEF Typed

(* A command that changes one key of the key-value engine. *)
LEMMA TxKeyStep ==
  ASSUME IInv, NEW k \in Key,
         \/ \E v \in Value, ttl \in TTL \cup {Never} : TxSet(k, v, ttl)
         \/ TxDel(k)
         \/ \E v \in Value : TxIncr(k, v) \/ TxIncrBy(k, v)
  PROVE  IInv'
<1> DEFINE p == <<"kv", k>>
<1>1. Typed /\ p \in Place /\ {} \in SUBSET Place /\ IsFiniteSet({})
  BY FS_EmptySet DEF IInv, Place
<1>2. ASSUME NEW x \in Sound(now), TxCommand({p}, One(p, x)) \/ TxCommand({}, One(p, x))
      PROVE  IInv'
  <2> HIDE DEF p
  <2>1. IsWrites(One(p, x)) /\ IsFiniteSet({p}) /\ {p} \in SUBSET Place
    BY <1>1, OneIsWrites
  <2> QED
    BY <1>1, <1>2, <2>1, TxCommandStep
<1>3. CASE \E v \in Value, ttl \in TTL \cup {Never} : TxSet(k, v, ttl)
  BY <1>1, <1>2, <1>3, SimpleIsSound DEF TxSet
<1>4. CASE TxDel(k)
  BY <1>1, <1>2, <1>4, SimpleIsSound DEF TxDel
<1>5. CASE \E v \in Value : TxIncr(k, v) \/ TxIncrBy(k, v)
  <2>0. PICK v \in Value : TxIncr(k, v) \/ TxIncrBy(k, v)
    BY <1>5
  <2> DEFINE x == [db[p] EXCEPT !.value = v]
  <2>1. TxCommand({p}, One(p, x)) \/ TxCommand({}, One(p, x))
    BY <2>0 DEF TxIncr, TxIncrBy
  <2>2. db[p] # Absent /\ db[p] \in Sound(now)
    BY <1>1, <2>0, SimpleIsSound DEF TxIncr, TxIncrBy, IsLive
  <2>3. x \in Sound(now)
    BY <2>2 DEF Sound, Entry
  <2> HIDE DEF x
  <2> QED
    BY <1>2, <2>1, <2>3
<1> QED
  BY <1>3, <1>4, <1>5

(* A command that changes several, and whose closure does nothing. *)
LEMMA TxKeysStep ==
  ASSUME IInv, NEW K \in SUBSET Key,
         \/ \E v \in Value, ttl \in TTL \cup {Never} : TxMset(K, v, ttl)
         \/ TxDelMatching(K) \/ TxRead(K)
  PROVE  IInv'
<1>1. Typed /\ {} \in SUBSET Place /\ IsFiniteSet({})
  BY FS_EmptySet DEF IInv
<1>2. CASE \E v \in Value, ttl \in TTL \cup {Never} : TxMset(K, v, ttl)
  <2>0. PICK v \in Value, ttl \in TTL \cup {Never} : TxMset(K, v, ttl)
    BY <1>2
  <2> DEFINE D == {"kv"} \X K
             writes == [p \in D |-> Fresh(v, ttl)]
  <2>1. IsFiniteSet(D) /\ D \subseteq Place
    BY PlacesAreFinite
  <2>2. Fresh(v, ttl) \in Sound(now)
    BY <1>1, SimpleIsSound
  <2>3. IsWrites(writes)
    <3> HIDE DEF D
    <3> QED
      BY <2>1, <2>2 DEF IsWrites
  <2> QED
    BY <1>1, <2>0, <2>3, TxCommandStep DEF TxMset
<1>3. ASSUME NEW D \in SUBSET ({"kv"} \X Key), TxCommand({}, [p \in D |-> Absent])
      PROVE  IInv'
  <2>1. IsFiniteSet(D) /\ D \subseteq Place
    BY PlacesAreFinite
  <2>2. IsWrites([p \in D |-> Absent])
    BY <1>1, <2>1, SimpleIsSound DEF IsWrites
  <2> QED
    BY <1>1, <1>3, <2>2, TxCommandStep
<1>4. CASE TxDelMatching(K)
  <2> DEFINE gone == {p \in {"kv"} \X Key : db[p] # Absent /\ (p[2] \in K \/ ~IsLive(db[p]))}
  <2>1. gone \in SUBSET ({"kv"} \X Key)
    OBVIOUS
  <2>2. TxCommand({}, [p \in gone |-> Absent])
    BY <1>4 DEF TxDelMatching
  <2> HIDE DEF gone
  <2> QED
    BY <1>3, <2>1, <2>2
<1>5. CASE TxRead(K)
  <2> DEFINE gone == {p \in {"kv"} \X K : db[p] # Absent /\ ~IsLive(db[p])}
  <2>1. gone \in SUBSET ({"kv"} \X Key)
    OBVIOUS
  <2>2. TxCommand({}, [p \in gone |-> Absent])
    BY <1>5 DEF TxRead
  <2> HIDE DEF gone
  <2> QED
    BY <1>3, <2>1, <2>2
<1> QED
  BY <1>2, <1>4, <1>5

LEMMA TxCollectionStep ==
  ASSUME IInv, NEW e \in Collection, NEW k \in Key, NEW l \in Key, NEW K \in SUBSET Key,
         NEW x \in Simple, NEW y \in Simple,
         \/ TxCollection(e, k, x) \/ TxMove(e, k, l, x, y) \/ TxCollectionDelMatching(e, k, K)
  PROVE  IInv'
<1> DEFINE p == <<e, k>>
<1>1. Typed /\ p \in Place /\ {p} \in SUBSET Place /\ IsFiniteSet({p})
  <2>1. p \in Place
    BY DEF Place
  <2> HIDE DEF p
  <2> QED
    BY <2>1, FS_Singleton DEF IInv
<1>2. x \in Sound(now) /\ y \in Sound(now) /\ Absent \in Sound(now)
  BY <1>1, SimpleIsSound
<1>3. CASE TxCollection(e, k, x)
  <2>1. TxCommand({p}, One(p, x))
    BY <1>3 DEF TxCollection
  <2> HIDE DEF p
  <2>2. IsWrites(One(p, x))
    BY <1>1, <1>2, OneIsWrites
  <2> QED
    BY <1>1, <2>1, <2>2, TxCommandStep
<1>4. ASSUME NEW D \in SUBSET ({e} \X Key), NEW writes, DOMAIN writes = D,
             \A q \in D : writes[q] \in Sound(now), TxCommand({p}, writes)
      PROVE  IInv'
  <2>1. IsFiniteSet(D) /\ D \subseteq Place
    BY PlacesAreFinite
  <2>2. IsWrites(writes)
    BY <1>4, <2>1 DEF IsWrites
  <2> HIDE DEF p
  <2> QED
    BY <1>1, <1>4, <2>2, TxCommandStep
<1>5. CASE TxMove(e, k, l, x, y)
  <2> DEFINE D == {e} \X {k, l}
             writes == [q \in D |-> IF q[2] = k THEN x ELSE y]
  <2>1. /\ D \in SUBSET ({e} \X Key) /\ DOMAIN writes = D
        /\ \A q \in D : writes[q] \in Sound(now)
    BY <1>2
  <2>2. TxCommand({p}, writes)
    BY <1>5 DEF TxMove
  <2> HIDE DEF D, writes, p
  <2> QED
    BY <1>4, <2>1, <2>2
<1>6. CASE TxCollectionDelMatching(e, k, K)
  <2> DEFINE D == {q \in {e} \X K : db[q] # Absent}
             writes == [q \in D |-> Absent]
  <2>1. /\ D \in SUBSET ({e} \X Key) /\ DOMAIN writes = D
        /\ \A q \in D : writes[q] \in Sound(now)
    BY <1>2
  <2>2. TxCommand({p}, writes)
    BY <1>6 DEF TxCollectionDelMatching
  <2> HIDE DEF D, writes, p
  <2> QED
    BY <1>4, <2>1, <2>2
<1> QED
  BY <1>3, <1>5, <1>6

(* Exec begins, with nothing collected and no closure. *)
LEMMA BeginTxStep ==
  ASSUME IInv, BeginTx
  PROVE  IInv'
<1>1. /\ Typed /\ now \in Nat /\ txPhase = "idle" /\ txPhase' = "exec" /\ txs < MaxTxs /\ txs' = txs + 1
      /\ undos' = << >> /\ txBuffer = << >> /\ txBuffer' = << >> /\ before' = db /\ unsaved' = {}
      /\ db' = db /\ log' = log /\ now' = now /\ commands' = commands /\ lost' = lost /\ prolonged' = prolonged
  BY ConstantsAssumption DEF IInv, Typed, BeginTx
<1>2. Typed'
  BY <1>1, ConstantsAssumption DEF Typed
<1>3. UndosKeepBefore'
  <2>1. \A p \in Place : Keeps(now, prolonged, p, db[p], db[p])
    BY <1>1, KeepsReflexive DEF Typed
  <2>2. \A i \in DOMAIN undos' : FALSE
    BY <1>1
  <2> QED
    BY <1>1, <2>1, <2>2 DEF UndosKeepBefore
<1>4. LinesMatchMemory' /\ LogTellsBefore'
  <2>1. log \o << >> = log
    BY <1>1, ConcatEmptySeq DEF Typed
  <2>2. \A p \in Place \ lost : Tells(now, prolonged, p, LastWord(log, p), db[p])
    BY <1>1, <2>1 DEF IInv, LinesMatchMemory
  <2> QED
    BY <1>1, <2>1, <2>2 DEF LinesMatchMemory, LogTellsBefore
<1> QED
  BY <1>2, <1>3, <1>4 DEF IInv

(* A key that has expired goes, in the rollback that begins. *)
LEMMA TxFailsStep ==
  ASSUME IInv, NEW k \in Key, TxFails \/ TxFailsExpired(k)
  PROVE  IInv'
<1> DEFINE p == <<"kv", k>>
<1>1. Typed /\ now \in Nat /\ p \in Place
  BY ConstantsAssumption DEF IInv, Typed, Place
<1>2. /\ txPhase = "exec" /\ txPhase' = "rollback" /\ log' = log /\ now' = now
      /\ undos' = undos /\ commands' = commands /\ txs' = txs
      /\ before' = before /\ unsaved' = unsaved /\ lost' = lost /\ prolonged' = prolonged
  BY DEF TxFails, TxFailsExpired, bounds, ghosts
<1>3. \/ db' = db /\ txBuffer' = txBuffer
      \/ /\ db[p] # Absent /\ ~IsLive(db[p])
         /\ db' = [db EXCEPT ![p] = Absent]
         /\ txBuffer' = Append(txBuffer, Line(p, Absent))
  BY DEF TxFails, TxFailsExpired
<1> HIDE DEF p
<1>4. Absent \in Sound(now)
  BY DEF Sound
<1>5. Typed'
  <2>1. Line(p, Absent) \in Lined
    BY <1>1, <1>4, LineType
  <2>2. db' \in [Place -> Sound(now)]
    BY <1>1, <1>3, <1>4 DEF Typed
  <2>3. txBuffer \in Seq(Lined)
    BY <1>1 DEF Typed
  <2>4. txBuffer' \in Seq(Lined)
    <3>1. CASE txBuffer' = txBuffer
      BY <2>3, <3>1
    <3>2. CASE txBuffer' = Append(txBuffer, Line(p, Absent))
      BY <2>1, <2>3, <3>2
    <3> QED
      BY <1>3, <3>1, <3>2
  <2> QED
    BY <1>1, <1>2, <2>2, <2>4 DEF Typed
<1>6. \A q \in Place, x \in Sound(now) :
         Keeps(now, prolonged, q, x, db[q]) => Keeps(now, prolonged, q, x, db'[q])
  <2> TAKE q \in Place, x \in Sound(now)
  <2>1. CASE db'[q] = db[q]
    BY <2>1
  <2>2. CASE db'[q] # db[q]
    <3>1. q = p /\ db'[q] = Absent /\ ~IsLive(db[q]) /\ db[q] \in Sound(now) /\ db[q] # Absent
      BY <1>1, <1>3, <2>2 DEF Typed
    <3>2. db[q].expires # Never /\ db[q].expires <= now
      BY <1>1, <3>1, SoundEntry DEF IsLive, IsExpired
    <3> QED
      BY <1>1, <3>1, <3>2, KeepsExpired
  <2> QED
    BY <2>1, <2>2
<1>7. UndosKeepBefore'
  <2>1. \A q \in Place : before[q] \in Sound(now)
    BY <1>1 DEF Typed
  <2> QED
    BY <1>2, <1>6, <2>1 DEF IInv, UndosKeepBefore
<1>8. LinesMatchMemory' /\ LogTellsBefore'
  BY <1>2 DEF IInv, LinesMatchMemory, LogTellsBefore
<1> QED
  BY <1>5, <1>7, <1>8 DEF IInv

(* The latest closure runs. *)
LEMMA TxUndoStep ==
  ASSUME IInv, TxUndo
  PROVE  IInv'
<1> DEFINE u == Head(undos)
<1>1. /\ Typed /\ now \in Nat
      /\ undos \in Seq(SoundClosure(now)) /\ undos # << >> /\ u \in SoundClosure(now)
  BY ConstantsAssumption DEF IInv, Typed, TxUndo
<1>2. /\ txPhase = "rollback" /\ txPhase' = txPhase /\ undos' = Tail(undos)
      /\ db' = [db EXCEPT ![u.place] = Restored(u.entry)]
      /\ txBuffer' = Append(txBuffer, Line(u.place, Restored(u.entry)))
      /\ log' = log /\ now' = now /\ commands' = commands /\ txs' = txs
      /\ before' = before /\ unsaved' = unsaved /\ lost' = lost
      /\ prolonged' = IF u.entry = Absent \/ u.entry.expires = Never THEN prolonged
                      ELSE prolonged \cup {u.place}
  BY DEF TxUndo, RunUndo, bounds
<1>3. /\ u = undos[1] /\ 1 \in DOMAIN undos /\ Tail(undos) \in Seq(SoundClosure(now))
      /\ \A i \in DOMAIN Tail(undos) : i + 1 \in DOMAIN undos /\ Tail(undos)[i] = undos[i + 1]
      /\ \A i \in DOMAIN undos \ {1} : i - 1 \in DOMAIN Tail(undos)
      /\ DOMAIN undos \subseteq Nat
  BY <1>1
<1> HIDE DEF u
<1>4. /\ u.place \in Place /\ u.entry \in Sound(now)
      /\ prolonged \subseteq prolonged' /\ prolonged' \subseteq Place
      /\ u.entry = Absent \/ u.entry.expires = Never \/ u.place \in prolonged'
  BY <1>1, <1>2 DEF SoundClosure, Typed
<1>0. /\ Restored(u.entry) \in Sound(now)
      /\ \A x \in Sound(now) : Keeps(now, prolonged', u.place, x, u.entry)
                               => Keeps(now, prolonged', u.place, x, Restored(u.entry))
  BY <1>1, <1>4, RestoredKeeps
<1>5. Typed'
  <2>1. Line(u.place, Restored(u.entry)) \in Lined
    BY <1>0, <1>1, <1>4, LineType
  <2>2. db' \in [Place -> Sound(now)] /\ txBuffer' \in Seq(Lined)
    BY <1>0, <1>1, <1>2, <1>4, <2>1 DEF Typed
  <2> QED
    BY <1>1, <1>2, <1>3, <1>4, <2>2 DEF Typed
<1>6. UndosKeepBefore'
  <2> SUFFICES ASSUME NEW p \in Place \ unsaved
               PROVE  /\ ~HasLine(undos', p) => Keeps(now, prolonged', p, before[p], db'[p])
                      /\ \A i \in DOMAIN undos' :
                            IsLast(undos', i, p) => Keeps(now, prolonged', p, before[p], undos'[i].entry)
    BY <1>2 DEF UndosKeepBefore
  <2>1. before[p] \in Sound(now) /\ db \in [Place -> Sound(now)]
    BY <1>1 DEF Typed
  <2>0. /\ ~HasLine(undos, p) => Keeps(now, prolonged, p, before[p], db[p])
        /\ \A i \in DOMAIN undos :
              IsLast(undos, i, p) => Keeps(now, prolonged, p, before[p], undos[i].entry)
    BY <1>2 DEF IInv, UndosKeepBefore
  <2>2. /\ ~HasLine(undos, p) => Keeps(now, prolonged', p, before[p], db[p])
        /\ \A i \in DOMAIN undos :
              IsLast(undos, i, p) => Keeps(now, prolonged', p, before[p], undos[i].entry)
    BY <1>4, <2>0, KeepsElsewhere
  <2>3. ASSUME NEW i \in DOMAIN undos', IsLast(undos', i, p)
        PROVE  Keeps(now, prolonged', p, before[p], undos'[i].entry)
    <3>1. IsLast(undos, i + 1, p)
      <4>1. i + 1 \in DOMAIN undos /\ undos[i + 1].place = p
        BY <1>2, <1>3, <2>3 DEF IsLast
      <4>2. ASSUME NEW j \in DOMAIN undos, j > i + 1
            PROVE  undos[j].place # p
        <5>1. j \in Nat /\ i \in Nat
          BY <1>1, <1>2, <1>3
        <5>2. j # 1
          BY <4>2, <5>1
        <5>3. j - 1 \in DOMAIN undos' /\ j - 1 > i
          BY <1>2, <1>3, <4>2, <5>1, <5>2
        <5>4. (j - 1) + 1 = j
          BY <5>1
        <5>5. undos'[j - 1] = undos[j]
          BY <1>2, <1>3, <5>3, <5>4
        <5> QED
          BY <2>3, <5>3, <5>5 DEF IsLast
      <4> QED
        BY <4>1, <4>2 DEF IsLast
    <3> QED
      BY <1>2, <1>3, <2>2, <2>3, <3>1
  <2>4. ASSUME ~HasLine(undos', p)
        PROVE  Keeps(now, prolonged', p, before[p], db'[p])
    <3>1. \A j \in DOMAIN undos : j > 1 => undos[j].place # p
      <4> TAKE j \in DOMAIN undos
      <4> HAVE j > 1
      <4>1. j - 1 \in DOMAIN undos' /\ undos'[j - 1] = undos[j]
        BY <1>2, <1>3
      <4> QED
        BY <2>4, <4>1 DEF HasLine
    <3>2. CASE u.place = p
      <4>1. IsLast(undos, 1, p)
        BY <1>3, <3>1, <3>2 DEF IsLast
      <4>2. Keeps(now, prolonged', p, before[p], u.entry)
        BY <1>3, <2>2, <4>1
      <4> QED
        BY <1>0, <1>2, <1>4, <2>1, <3>2, <4>2
    <3>3. CASE u.place # p
      <4>1. ~HasLine(undos, p)
        <5> SUFFICES ASSUME NEW j \in DOMAIN undos, undos[j].place = p
                     PROVE  FALSE
          BY DEF HasLine
        <5>1. j = 1
          BY <1>1, <3>1
        <5> QED
          BY <1>3, <3>3, <5>1
      <4> QED
        BY <1>2, <2>1, <2>2, <3>3, <4>1
    <3> QED
      BY <3>2, <3>3
  <2> QED
    BY <2>3, <2>4
<1>7. LinesMatchMemory' /\ LogTellsBefore'
  BY <1>2, <1>4, KeepsElsewhere DEF IInv, LinesMatchMemory, LogTellsBefore
<1> QED
  BY <1>5, <1>6, <1>7 DEF IInv

(* All closures have run: memory is what it was before the EXEC, and so    *)
(* what the log tells, but at the places no closure knows.                 *)
LEMMA RollbackTxStep ==
  ASSUME IInv, RollbackTx
  PROVE  IInv'
<1>1. /\ Typed /\ now \in Nat /\ txPhase = "rollback" /\ undos = << >>
      /\ txPhase' = "idle" /\ txBuffer' = << >> /\ undos' = << >>
      /\ unsaved' = {} /\ lost' = lost \cup unsaved /\ prolonged' = prolonged
      /\ db' = db /\ log' = log /\ now' = now /\ before' = before
      /\ commands' = commands /\ txs' = txs
  BY ConstantsAssumption DEF IInv, Typed, RollbackTx, bounds
<1>2. Typed'
  BY <1>1 DEF Typed
<1>3. LinesMatchMemory'
  <2>1. log \in Seq(Lined) /\ log \o << >> = log
    BY <1>1, ConcatEmptySeq DEF Typed
  <2> SUFFICES ASSUME NEW p \in Place \ (lost \cup unsaved)
               PROVE  Tells(now, prolonged, p, LastWord(log, p), db[p])
    BY <1>1, <2>1 DEF LinesMatchMemory
  <2>2. Tells(now, prolonged, p, LastWord(log, p), before[p])
    BY <1>1 DEF IInv, LogTellsBefore
  <2>3. ~HasLine(undos, p)
    BY <1>1 DEF HasLine
  <2>4. Keeps(now, prolonged, p, before[p], db[p])
    BY <1>1, <2>3 DEF IInv, UndosKeepBefore
  <2>5. /\ before[p] \in Sound(now) /\ db[p] \in Sound(now)
        /\ LastWord(log, p) \in Word \cup {Absent}
    BY <1>1, <2>1, LastWordType DEF Typed
  <2> QED
    BY <1>1, <2>2, <2>4, <2>5, TellsTransitive
<1>4. UndosKeepBefore' /\ LogTellsBefore'
  BY <1>1 DEF UndosKeepBefore, LogTellsBefore
<1> QED
  BY <1>2, <1>3, <1>4 DEF IInv

(* What was collected is in the log. *)
LEMMA CommitTxStep ==
  ASSUME IInv, CommitTx
  PROVE  IInv'
<1>1. /\ Typed /\ txPhase = "exec"
      /\ txPhase' = "idle" /\ txBuffer' = << >> /\ undos' = << >>
      /\ log' = log \o txBuffer /\ unsaved' = {} /\ lost' = lost /\ prolonged' = prolonged
      /\ db' = db /\ now' = now /\ before' = before
      /\ commands' = commands /\ txs' = txs
  BY DEF IInv, CommitTx, bounds
<1>2. log' \in Seq(Lined) /\ log' \o << >> = log'
  <2>1. log' \in Seq(Lined)
    BY <1>1 DEF Typed
  <2> QED
    BY <2>1, ConcatEmptySeq
<1>3. Typed'
  BY <1>1, <1>2 DEF Typed
<1>4. LinesMatchMemory'
  BY <1>1, <1>2 DEF IInv, LinesMatchMemory
<1>5. UndosKeepBefore' /\ LogTellsBefore'
  BY <1>1 DEF UndosKeepBefore, LogTellsBefore
<1> QED
  BY <1>3, <1>4, <1>5 DEF IInv

(* A command on its own changes memory and log alike. *)
LEMMA SingleCommandStep ==
  ASSUME IInv, NEW p \in Place, NEW x \in Sound(now), SingleCommand(p, x)
  PROVE  IInv'
<1>1. /\ Typed /\ now \in Nat /\ txPhase = "idle" /\ txPhase' = txPhase
      /\ commands < MaxCommands /\ commands' = commands + 1
      /\ db' = [db EXCEPT ![p] = x] /\ log' = Append(log, Line(p, x))
      /\ now' = now /\ undos' = undos /\ txBuffer = << >> /\ txBuffer' = txBuffer /\ txs' = txs
      /\ before' = before /\ unsaved' = unsaved /\ lost' = lost /\ prolonged' = prolonged
  BY ConstantsAssumption DEF IInv, Typed, SingleCommand, ghosts
<1>2. /\ log \in Seq(Lined) /\ Line(p, x) \in Lined
      /\ Line(p, x).place = p /\ Line(p, x).entry = Logged(x)
  BY <1>1, LineType DEF Typed
<1>3. Typed'
  <2>1. db' \in [Place -> Sound(now)] /\ log' \in Seq(Lined)
    BY <1>1, <1>2 DEF Typed
  <2>2. commands' \in 0 .. MaxCommands
    BY <1>1, ConstantsAssumption DEF Typed
  <2> QED
    BY <1>1, <2>1, <2>2 DEF Typed
<1>4. LinesMatchMemory'
  <2>1. log \o << >> = log /\ log' \o << >> = log'
    BY <1>1, <1>2, <1>3, ConcatEmptySeq DEF Typed
  <2> SUFFICES ASSUME NEW q \in Place \ lost
               PROVE  Tells(now, prolonged, q, LastWord(log', q), db'[q])
    BY <1>1, <2>1 DEF LinesMatchMemory
  <2>2. LastWord(log', q) = IF p = q THEN Logged(x) ELSE LastWord(log, q)
    BY <1>1, <1>2, LastWordOfAppend
  <2>3. CASE q = p
    BY <1>1, <2>2, <2>3, TellsWhatIsThere DEF Typed
  <2>4. CASE q # p
    <3>1. Tells(now, prolonged, q, LastWord(log, q), db[q])
      BY <1>1, <2>1 DEF IInv, LinesMatchMemory
    <3> QED
      BY <1>1, <2>2, <2>4, <3>1 DEF Typed
  <2> QED
    BY <2>3, <2>4
<1>5. UndosKeepBefore' /\ LogTellsBefore'
  BY <1>1 DEF UndosKeepBefore, LogTellsBefore
<1> QED
  BY <1>3, <1>4, <1>5 DEF IInv

(* The ticker removes nothing but what has expired. *)
LEMMA CleanupStep ==
  ASSUME IInv, CleanupAllExpired
  PROVE  IInv'
<1>1. /\ Typed /\ now \in Nat /\ txPhase' = txPhase /\ log' = log /\ now' = now
      /\ undos' = undos /\ txBuffer' = txBuffer /\ commands' = commands /\ txs' = txs
      /\ before' = before /\ unsaved' = unsaved /\ lost' = lost /\ prolonged' = prolonged
  BY ConstantsAssumption DEF IInv, Typed, CleanupAllExpired, bounds, ghosts
<1>2. /\ db' \in [Place -> Sound(now)]
      /\ \A p \in Place : \/ db'[p] = db[p]
                          \/ db'[p] = Absent /\ db[p].expires # Never /\ db[p].expires <= now
  BY <1>1 DEF CleanupAllExpired, Typed, Sound
<1>3. Typed'
  BY <1>1, <1>2 DEF Typed
<1>4. \A p \in Place, x \in Sound(now) :
         Keeps(now, prolonged, p, x, db[p]) => Keeps(now, prolonged, p, x, db'[p])
  <2> TAKE p \in Place, x \in Sound(now)
  <2>1. db[p] \in Sound(now)
    BY <1>1 DEF Typed
  <2> QED
    BY <1>1, <1>2, <2>1, KeepsExpired
<1>5. UndosKeepBefore'
  <2>1. \A p \in Place : before[p] \in Sound(now)
    BY <1>1 DEF Typed
  <2> QED
    BY <1>1, <1>4, <2>1 DEF IInv, UndosKeepBefore
<1>6. LinesMatchMemory'
  <2> SUFFICES ASSUME txPhase # "rollback", NEW p \in Place \ lost
               PROVE  Tells(now, prolonged, p, LastWord(log \o txBuffer, p), db'[p])
    BY <1>1 DEF LinesMatchMemory
  <2>1. db[p] \in Sound(now) /\ db'[p] \in Sound(now) /\ log \o txBuffer \in Seq(Lined)
    BY <1>1, <1>2 DEF Typed
  <2>2. Keeps(now, prolonged, p, db[p], db'[p])
    BY <1>1, <1>4, <2>1, KeepsReflexive
  <2>3. Tells(now, prolonged, p, LastWord(log \o txBuffer, p), db[p])
    BY DEF IInv, LinesMatchMemory
  <2>4. LastWord(log \o txBuffer, p) \in Word \cup {Absent}
    BY <2>1, LastWordType
  <2> QED
    BY <1>1, <2>1, <2>2, <2>3, <2>4, TellsTransitive
<1>7. LogTellsBefore'
  BY <1>1 DEF IInv, LogTellsBefore
<1> QED
  BY <1>3, <1>5, <1>6, <1>7 DEF IInv

(* Time passes: what has been kept so far may expire. *)
LEMMA TickStep ==
  ASSUME IInv, Tick
  PROVE  IInv'
<1>1. /\ Typed /\ now \in Nat /\ now' \in Nat /\ now <= now' /\ now' \in 1 .. MaxTime
      /\ txPhase' = txPhase /\ log' = log /\ db' = db
      /\ undos' = undos /\ txBuffer' = txBuffer /\ commands' = commands /\ txs' = txs
      /\ before' = before /\ unsaved' = unsaved /\ lost' = lost /\ prolonged' = prolonged
  BY ConstantsAssumption DEF IInv, Typed, Tick, bounds, ghosts
<1>2. Sound(now) \subseteq Sound(now') /\ SoundClosure(now) \subseteq SoundClosure(now')
  BY <1>1, SoundLater
<1>3. Typed'
  <2>1. /\ db' \in [Place -> Sound(now')] /\ before' \in [Place -> Sound(now')]
        /\ undos' \in Seq(SoundClosure(now'))
    BY <1>1, <1>2 DEF Typed
  <2> QED
    BY <1>1, <2>1 DEF Typed
<1>4. /\ \A p \in Place : before[p] \in Sound(now)
      /\ log \in Seq(Lined) /\ log \o txBuffer \in Seq(Lined)
  BY <1>1 DEF Typed
<1>5. UndosKeepBefore'
  <2>1. \A p \in Place : \A y :
           Keeps(now, prolonged, p, before[p], y) => Keeps(now', prolonged, p, before[p], y)
    BY <1>1, <1>4, KeepsLater
  <2> QED
    BY <1>1, <2>1 DEF IInv, UndosKeepBefore
<1>6. \A p : \A s \in Seq(Lined) : \A y :
         Tells(now, prolonged, p, LastWord(s, p), y) => Tells(now', prolonged, p, LastWord(s, p), y)
  BY <1>1, LastWordType, TellsLater
<1>7. LinesMatchMemory'
  BY <1>1, <1>4, <1>6 DEF IInv, LinesMatchMemory
<1>8. LogTellsBefore'
  BY <1>1, <1>4, <1>6 DEF IInv, LogTellsBefore
<1> QED
  BY <1>3, <1>5, <1>7, <1>8 DEF IInv

LEMMA InitInvariant ==
  ASSUME Init
  PROVE  IInv
<1>1. /\ db = [p \in Place |-> Absent] /\ log = << >> /\ before = db /\ now = 1
      /\ txPhase = "idle" /\ undos = << >> /\ txBuffer = << >>
      /\ commands = 0 /\ txs = 0 /\ unsaved = {} /\ lost = {} /\ prolonged = {}
  BY DEF Init
<1>2. Absent \in Sound(now)
  BY DEF Sound
<1>3. Typed
  <2>1. db \in [Place -> Sound(now)]
    BY <1>1, <1>2
  <2> QED
    BY <1>1, <2>1, ConstantsAssumption DEF Typed
<1>4. UndosKeepBefore /\ LogTellsBefore
  BY <1>1 DEF UndosKeepBefore, LogTellsBefore
<1>5. LinesMatchMemory
  <2> SUFFICES ASSUME NEW p \in Place
               PROVE  Tells(now, prolonged, p, LastWord(<< >>, p), db[p])
    BY <1>1, ConcatEmptySeq DEF LinesMatchMemory
  <2>1. LastWord(<< >>, p) = Absent
    BY DEF LastWord, Latest
  <2> QED
    BY <1>1, <2>1 DEF Tells
<1> QED
  BY <1>3, <1>4, <1>5 DEF IInv

LEMMA NextInvariant ==
  ASSUME IInv, [Next]_vars
  PROVE  IInv'
<1>1. CASE \E k \in Key, v \in Value, ttl \in TTL \cup {Never} : TxSet(k, v, ttl)
  BY <1>1, TxKeyStep
<1>2. CASE \E k \in Key : TxDel(k)
  BY <1>2, TxKeyStep
<1>3. CASE \E k \in Key, v \in Value : TxIncr(k, v) \/ TxIncrBy(k, v)
  BY <1>3, TxKeyStep
<1>4. CASE \E K \in (SUBSET Key) \ {{}}, v \in Value, ttl \in TTL \cup {Never} : TxMset(K, v, ttl)
  BY <1>4, TxKeysStep
<1>5. CASE \E K \in SUBSET Key : TxDelMatching(K) \/ TxRead(K)
  BY <1>5, TxKeysStep
<1>6. CASE TxFails \/ \E k \in Key : TxFailsExpired(k)
  <2>1. CASE \E k \in Key : TxFailsExpired(k)
    BY <2>1, TxFailsStep
  <2>2. CASE TxFails
    <3>1. /\ UNCHANGED <<db, log, now, undos, txBuffer, bounds, ghosts>>
          /\ txPhase = "exec" /\ txPhase' = "rollback"
      BY <2>2 DEF TxFails
    <3> QED
      BY <3>1 DEF IInv, Typed, UndosKeepBefore, LinesMatchMemory, LogTellsBefore,
                  bounds, ghosts
  <2> QED
    BY <1>6, <2>1, <2>2
<1>7. CASE \E e \in Collection, k \in Key, x \in Simple : TxCollection(e, k, x)
  <2>1. Absent \in Simple /\ {} \in SUBSET Key
    BY DEF Simple
  <2> QED
    BY <1>7, <2>1, TxCollectionStep
<1>8. CASE \E e \in Collection, k, l \in Key, x \in Simple, y \in Simple \ {Absent} :
              TxMove(e, k, l, x, y)
  <2>1. {} \in SUBSET Key
    OBVIOUS
  <2> QED
    BY <1>8, <2>1, TxCollectionStep
<1>9. CASE \E e \in Collection, k \in Key, K \in SUBSET Key : TxCollectionDelMatching(e, k, K)
  <2>1. Absent \in Simple
    BY DEF Simple
  <2> QED
    BY <1>9, <2>1, TxCollectionStep
<1>10. CASE BeginTx \/ TxUndo \/ RollbackTx \/ CommitTx
  BY <1>10, BeginTxStep, TxUndoStep, RollbackTxStep, CommitTxStep
<1>11. CASE \E p \in Place, x \in Simple : SingleCommand(p, x)
  BY <1>11, SimpleIsSound, SingleCommandStep DEF IInv
<1>12. CASE \E k \in Key, v \in Value, ttl \in TTL : SingleCommand(<<"kv", k>>, Fresh(v, ttl))
  <2>1. PICK k \in Key, v \in Value, ttl \in TTL : SingleCommand(<<"kv", k>>, Fresh(v, ttl))
    BY <1>12
  <2>2. <<"kv", k>> \in Place /\ Fresh(v, ttl) \in Sound(now)
    BY SimpleIsSound DEF Place, IInv
  <2> QED
    BY <2>1, <2>2, SingleCommandStep
<1>13. CASE CleanupAllExpired \/ Tick
  BY <1>13, CleanupStep, TickStep
<1>14. CASE UNCHANGED vars
  BY <1>14 DEF vars, bounds, ghosts, IInv, Typed, UndosKeepBefore, LinesMatchMemory,
               LogTellsBefore
<1> QED
  BY <1>1, <1>2, <1>3, <1>4, <1>5, <1>6, <1>7, <1>8, <1>9, <1>10, <1>11, <1>12, <1>13, <1>14
     DEF Next

LEMMA Invariance == Spec => []IInv
<1>1. Init => IInv
  BY InitInvariant
<1>2. IInv /\ [Next]_vars => IInv'
  BY NextInvariant
<1> QED
  BY <1>1, <1>2, PTL DEF Spec

-----------------------------------------------------------------------------
(* What Exec, its closures and the ticker leave is well formed; nothing is *)
(* collected, and no closure is left, between EXECs.                       *)
THEOREM Typing == Spec => []TypeOK
<1>1. IInv => TypeOK
  <2> SUFFICES ASSUME Typed
               PROVE  TypeOK
    BY DEF IInv
  <2>1. Sound(now) \subseteq Entry \cup {Absent} /\ SoundClosure(now) \subseteq Closure
    BY DEF Sound, SoundClosure, Closure
  <2>2. undos \in Seq(Closure)
    BY <2>1 DEF Typed
  <2> QED
    BY <2>1, <2>2 DEF Typed, TypeOK
<1> QED
  BY <1>1, Invariance, PTL

(* When the undo closures of a failed EXEC have run, latest first, every   *)
(* place holds what it held before, except those changed by a command      *)
(* whose closure, and no earlier one, knows the place.                     *)
THEOREM RollbacksRestore == Spec => []RollbackRestores
<1>1. IInv => RollbackRestores
  <2> SUFFICES ASSUME IInv, txPhase = "rollback", undos = << >>, NEW p \in Place \ unsaved
               PROVE  IsRestored(p)
    BY DEF RollbackRestores
  <2>1. ~HasLine(undos, p)
    BY DEF HasLine
  <2>2. Keeps(now, prolonged, p, before[p], db[p])
    BY <2>1 DEF IInv, UndosKeepBefore
  <2>3. /\ now \in Nat /\ before[p] \in Sound(now) /\ db[p] \in Sound(now)
    BY ConstantsAssumption DEF IInv, Typed
  <2> QED
    BY <2>2, <2>3, SoundEntry DEF Keeps, IsRestored, Served, IsLive, IsExpired
<1> QED
  BY <1>1, Invariance, PTL

(* Between EXECs a restart would give back what is served, and no other    *)
(* value, but for a place that a rollback has left changed, one whose time *)
(* to live a closure has started anew, and one whose last SET has expired: *)
(* RollbackTx throws the closures' lines away, and may, because the        *)
(* closures bring back what the log tells.                                 *)
THEOREM MemoryStaysLogged == Spec => []MemoryMatchesLog
<1>1. IInv => MemoryMatchesLog
  <2> SUFFICES ASSUME IInv, txPhase = "idle", NEW p \in Place \ lost,
                      NEW old, old = db[p], NEW new, new = Replayed(log, p)
               PROVE  /\ Served(old) =>
                             \/ new = Logged(old)
                             \/ old.expires # Never /\ InSeconds(old.expires) <= now
                             \/ /\ p \in prolonged
                                /\ \/ LastSetHasExpired(p)
                                   \/ new # Absent /\ new.value = old.value
                      /\ Served(new) /\ ~LastSetHasExpired(p) =>
                             IsLive(old) /\ old.value = new.value
    BY DEF MemoryMatchesLog
  <2> DEFINE w == LastWord(log, p)
  <2>1. /\ now \in Nat /\ old \in Sound(now) /\ log \in Seq(Lined)
        /\ w \in Word \cup {Absent}
    BY ConstantsAssumption, LastWordType DEF IInv, Typed
  <2>2. Tells(now, prolonged, p, w, old)
    BY <2>1, ConcatEmptySeq DEF IInv, LinesMatchMemory, Typed
  <2>3. LastSetHasExpired(p) <=> w # Absent /\ IsExpired(w)
    BY DEF LastSetHasExpired
  <2>4. ~LastSetHasExpired(p) => new = w
    <3>1. CASE HasLine(log, p)
      BY <2>1, <2>3, <3>1, ReplayedIs
    <3>2. CASE ~HasLine(log, p)
      BY <2>1, <3>2, LastWordIs, NothingReplayed
    <3> QED
      BY <3>1, <3>2
  <2> HIDE DEF w
  <2>5. ASSUME Served(old)
        PROVE  \/ new = Logged(old)
               \/ old.expires # Never /\ InSeconds(old.expires) <= now
               \/ /\ p \in prolonged
                  /\ LastSetHasExpired(p) \/ (new # Absent /\ new.value = old.value)
    <3>1. /\ old # Absent /\ w # Absent /\ old.value = w.value
          /\ p \notin prolonged => w = Logged(old)
      BY <2>2, <2>5 DEF Served, Tells
    <3>2. CASE p \in prolonged
      BY <2>4, <3>1, <3>2
    <3>3. CASE p \notin prolonged /\ ~LastSetHasExpired(p)
      BY <2>4, <3>1, <3>3
    <3>4. CASE p \notin prolonged /\ LastSetHasExpired(p)
      <4>1. w.expires # Never /\ w.expires < now /\ w.expires \in Int
        BY <2>1, <2>3, <3>1, <3>4, WordParts DEF IsExpired
      <4>2. w.expires = InSeconds(old.expires) /\ old.expires # Never
        BY <2>1, <3>1, <3>4, <4>1, LoggedWord
      <4> QED
        BY <2>1, <4>1, <4>2
    <3> QED
      BY <3>2, <3>3, <3>4
  <2>6. ASSUME Served(new), ~LastSetHasExpired(p)
        PROVE  IsLive(old) /\ old.value = new.value
    <3>1. new = w /\ w # Absent /\ (w.expires # Never => w.expires > now)
      BY <2>4, <2>6 DEF Served
    <3>2. /\ old # Absent /\ old.value = w.value
          /\ (old.expires = Never) <=> (w.expires = Never)
          /\ w.expires # Never => w.expires <= old.expires
      BY <2>2, <3>1 DEF Tells
    <3>3. w.expires \in Int \cup {Never} /\ old.expires \in Int \cup {Never}
      BY <2>1, <3>1, <3>2, SoundEntry, WordParts
    <3> QED
      BY <2>1, <3>1, <3>2, <3>3 DEF IsLive, IsExpired
  <2> QED
    BY <2>5, <2>6
<1> QED
  BY <1>1, Invariance, PTL
=============================================================================
