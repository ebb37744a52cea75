---------------------------- MODULE LocksProofs ----------------------------
(***************************************************************************)
(* Proofs about Locks: however many goroutines run whatever paths, if each *)
(* path takes its locks downwards, none wait for one another in a circle.  *)
(***************************************************************************)
EXTENDS Locks, WellFoundedInduction, TLAPS

Op == {"Lock", "RLock"}

(* Who has a lock is at a step where it holds it, or about to enter; who   *)
(* waits is at that RLock.                                                 *)
HoldersMatchPaths ==
    \A l \in Lock, g \in Goroutine :
       /\ writer[l] = g => Does(g, "Lock", l) \/ Holds(todo[g], 1, l, "Lock")
       /\ g \in readers[l] => Does(g, "RLock", l) \/ Holds(todo[g], 1, l, "RLock")
       /\ g \in waiting[l] => Does(g, "RLock", l)

(* Of the paths under way: main's keeps to BootRank, the others to Rank,   *)
(* those that may run beside main's to both; the rest wait for main.       *)
Orderly ==
    /\ Disciplined(todo[Main], BootRank)
    /\ \A g \in Goroutine \ {Main} : Disciplined(todo[g], Rank)
    /\ \A g \in Early : Disciplined(todo[g], BootRank)
    /\ \A g \in Goroutine : Booted \/ g = Main \/ g \in Early \/ ~Busy(g)

IInv == TypeOK /\ HoldersMatchPaths /\ Orderly

-----------------------------------------------------------------------------
(* What is held with the rest of a path to come is what Holds says one     *)
(* step on.                                                                *)
LEMMA TailHolds ==
  ASSUME NEW q \in Seq(Step), q # << >>, NEW i \in Nat \ {0},
         NEW l \in Lock, NEW op \in Op
  PROVE  Holds(Tail(q), i, l, op) <=> Holds(q, i + 1, l, op)
<1>1. /\ Len(q) \in Nat \ {0} /\ Len(Tail(q)) = Len(q) - 1
      /\ \A j \in 1 .. Len(q) - 1 : Tail(q)[j] = q[j + 1]
  OBVIOUS
<1>2. ASSUME Holds(Tail(q), i, l, op)  PROVE Holds(q, i + 1, l, op)
  <2>1. PICK j \in i .. Len(q) - 1 :
              /\ Tail(q)[j] = [op |-> Release(op), on |-> l]
              /\ \A k \in i .. j - 1 : Tail(q)[k].on # l
    BY <1>1, <1>2 DEF Holds
  <2>2. \A k \in i + 1 .. (j + 1) - 1 : q[k].on # l
    <3> TAKE k \in i + 1 .. (j + 1) - 1
    <3>1. k - 1 \in i .. j - 1 /\ k - 1 \in 1 .. Len(q) - 1 /\ Tail(q)[k - 1] = q[(k - 1) + 1]
      BY <1>1
    <3> QED  BY <2>1, <3>1
  <2>3. j + 1 \in i + 1 .. Len(q) /\ q[j + 1] = [op |-> Release(op), on |-> l]
    BY <1>1, <2>1
  <2> QED  BY <2>2, <2>3 DEF Holds
<1>3. ASSUME Holds(q, i + 1, l, op)  PROVE Holds(Tail(q), i, l, op)
  <2>1. PICK j \in i + 1 .. Len(q) :
              /\ q[j] = [op |-> Release(op), on |-> l]
              /\ \A k \in i + 1 .. j - 1 : q[k].on # l
    BY <1>3 DEF Holds
  <2>2. j - 1 \in i .. Len(Tail(q)) /\ Tail(q)[j - 1] = [op |-> Release(op), on |-> l]
    <3>1. j - 1 \in 1 .. Len(q) - 1 /\ (j - 1) + 1 = j
      BY <1>1
    <3> QED  BY <1>1, <2>1, <3>1
  <2>3. \A k \in i .. (j - 1) - 1 : Tail(q)[k].on # l
    <3> TAKE k \in i .. (j - 1) - 1
    <3>1. k + 1 \in i + 1 .. j - 1 /\ k \in 1 .. Len(q) - 1
      BY <1>1
    <3> QED  BY <1>1, <2>1, <3>1
  <2> QED  BY <2>2, <2>3 DEF Holds
<1> QED  BY <1>2, <1>3

(* The rest of a disciplined path is disciplined. *)
LEMMA TailDisciplined ==
  ASSUME NEW q \in Seq(Step), q # << >>, NEW rank, Disciplined(q, rank)
  PROVE  Disciplined(Tail(q), rank)
<1>1. Len(q) \in Nat \ {0} /\ Len(Tail(q)) = Len(q) - 1
  OBVIOUS
<1> SUFFICES ASSUME NEW i \in 1 .. Len(q) - 1, Acquires(Tail(q)[i])
             PROVE  /\ Holds(Tail(q), i + 1, Tail(q)[i].on, Tail(q)[i].op)
                    /\ \A l \in Lock, op \in Op :
                          Holds(Tail(q), i, l, op) => rank[Tail(q)[i].on] < rank[l]
  BY <1>1 DEF Disciplined, Op
<1>2. i \in Nat \ {0} /\ i + 1 \in 1 .. Len(q) /\ Tail(q)[i] = q[i + 1] /\ q[i + 1] \in Step
  BY <1>1
<1>3. Tail(q)[i].on \in Lock /\ Tail(q)[i].op \in Op
  BY <1>2 DEF Step, Acquires, Op
<1>4. Holds(q, (i + 1) + 1, Tail(q)[i].on, Tail(q)[i].op)
  BY <1>2 DEF Disciplined
<1>5. Holds(Tail(q), i + 1, Tail(q)[i].on, Tail(q)[i].op)
  BY <1>2, <1>3, <1>4, TailHolds, i + 1 \in Nat \ {0}
<1>6. \A l \in Lock, op \in Op : Holds(q, i + 1, l, op) => rank[Tail(q)[i].on] < rank[l]
  BY <1>2 DEF Disciplined, Op
<1> QED  BY <1>2, <1>5, <1>6, TailHolds

(* A step on another lock leaves what is held. *)
LEMMA OtherLockHeld ==
  ASSUME NEW q \in Seq(Step), q # << >>, NEW l \in Lock, NEW op \in Op,
         Holds(q, 1, l, op), Head(q).on # l
  PROVE  Holds(Tail(q), 1, l, op)
<1>1. PICK j \in 1 .. Len(q) : /\ q[j] = [op |-> Release(op), on |-> l]
                               /\ \A k \in 1 .. j - 1 : q[k].on # l
  BY DEF Holds
<1>2. q[1] = Head(q) /\ Len(q) \in Nat
  OBVIOUS
<1>3. j # 1
  BY <1>1, <1>2
<1>4. Holds(q, 1 + 1, l, op)
  BY <1>1, <1>2, <1>3 DEF Holds
<1> QED  BY <1>4, TailHolds

(* A lock that has been taken is held; none is held at the end of a path,  *)
(* nor the one that is taken next; and that one ranks below all held.      *)
LEMMA Acquiring ==
  ASSUME NEW q \in Seq(Step), q # << >>, NEW rank, Disciplined(q, rank),
         Acquires(Head(q))
  PROVE  /\ Head(q).on \in Lock /\ Head(q).op \in Op
         /\ Holds(Tail(q), 1, Head(q).on, Head(q).op)
         /\ \A l \in Lock, op \in Op : Holds(q, 1, l, op) => rank[Head(q).on] < rank[l]
         /\ \A op \in Op : ~Holds(q, 1, Head(q).on, op)
<1>1. 1 \in 1 .. Len(q) /\ q[1] = Head(q) /\ q[1] \in Step
  OBVIOUS
<1>2. Head(q).on \in Lock /\ Head(q).op \in Op
  BY <1>1 DEF Step, Acquires, Op
<1>3. Holds(q, 1 + 1, Head(q).on, Head(q).op)
  BY <1>1 DEF Disciplined
<1>4. Holds(Tail(q), 1, Head(q).on, Head(q).op)
  BY <1>2, <1>3, TailHolds
<1>5. \A l \in Lock, op \in Op : Holds(q, 1, l, op) => rank[Head(q).on] < rank[l]
  BY <1>1 DEF Disciplined, Op
<1>6. ASSUME NEW op \in Op, Holds(q, 1, Head(q).on, op)  PROVE FALSE
  <2>1. PICK j \in 1 .. Len(q) : /\ q[j] = [op |-> Release(op), on |-> Head(q).on]
                                 /\ \A k \in 1 .. j - 1 : q[k].on # Head(q).on
    BY <1>6 DEF Holds
  <2>2. CASE j = 1
    BY <1>1, <2>1, <2>2 DEF Release, Acquires
  <2>3. CASE j # 1
    BY <1>1, <2>1, <2>3
  <2> QED  BY <2>2, <2>3
<1> QED  BY <1>2, <1>4, <1>5, <1>6

LEMMA NothingHeldAtEnd == \A l, op : ~Holds(<< >>, 1, l, op)
BY DEF Holds

LEMMA FirstReleases ==
  ASSUME NEW q \in Seq(Step), q # << >>, NEW op \in Op, Holds(q, 1, Head(q).on, op)
  PROVE  Head(q).op = Release(op)
<1>1. PICK j \in 1 .. Len(q) : /\ q[j] = [op |-> Release(op), on |-> Head(q).on]
                               /\ \A k \in 1 .. j - 1 : q[k].on # Head(q).on
  BY DEF Holds
<1>2. q[1] = Head(q) /\ Len(q) \in Nat \ {0}
  OBVIOUS
<1>3. j = 1
  BY <1>1, <1>2
<1> QED  BY <1>1, <1>2, <1>3

(* A goroutine is at one step. *)
LEMMA OneStep ==
  ASSUME NEW g, NEW op, NEW l, Does(g, op, l), NEW o, NEW m, Does(g, o, m)
  PROVE  op = o /\ l = m
BY DEF Does

-----------------------------------------------------------------------------
LEMMA InitInv == Init => IInv
<1> SUFFICES ASSUME Init  PROVE IInv
  OBVIOUS
<1> USE LocksAssumption
<1>1. << >> \in Seq(Step) /\ \A rank : Disciplined(<< >>, rank)
  BY DEF Disciplined
<1>2. TypeOK
  BY <1>1 DEF Init, TypeOK
<1>3. HoldersMatchPaths
  BY DEF Init, HoldersMatchPaths
<1>4. Orderly
  BY <1>1 DEF Init, Orderly, Booted, Busy
<1> QED  BY <1>2, <1>3, <1>4 DEF IInv

(* Whatever goroutine goes on, its path is disciplined in some order. *)
LEMMA SomeOrder ==
  ASSUME IInv, NEW g \in Goroutine
  PROVE  todo[g] \in Seq(Step) /\ \E rank : Disciplined(todo[g], rank)
BY DEF IInv, TypeOK, Orderly

(* Taking a step leaves every path orderly. *)
LEMMA AdvanceOrderly ==
  ASSUME IInv, NEW g \in Goroutine, Busy(g), Advance(g)
  PROVE  Orderly' /\ todo' \in [Goroutine -> Seq(Step)]
<1> USE LocksAssumption
<1>1. todo \in [Goroutine -> Seq(Step)] /\ todo[g] # << >>
  BY DEF IInv, TypeOK, Busy
<1>2. todo' \in [Goroutine -> Seq(Step)] /\ todo'[g] = Tail(todo[g])
      /\ \A h \in Goroutine \ {g} : todo'[h] = todo[h]
  BY <1>1 DEF Advance
<1>3. \A rank : Disciplined(todo[g], rank) => Disciplined(todo'[g], rank)
  BY <1>1, <1>2, TailDisciplined
<1>4. \A h \in Goroutine : \A rank : Disciplined(todo[h], rank) => Disciplined(todo'[h], rank)
  BY <1>2, <1>3
<1>5. Booted => Booted'
  BY <1>1, <1>2 DEF Booted, Busy
<1>6. \A h \in Goroutine : Booted' \/ h = Main \/ h \in Early \/ ~Busy(h)'
  BY <1>1, <1>2, <1>5 DEF IInv, Orderly, Busy
<1> QED  BY <1>2, <1>4, <1>6 DEF IInv, Orderly

(* The locks a step is not about. *)
LEMMA Elsewhere ==
  ASSUME IInv, NEW g \in Goroutine, NEW l \in Lock, NEW op, Does(g, op, l), Advance(g),
         NEW m \in Lock \ {l}
  PROVE  /\ writer[m] = g => Holds(todo'[g], 1, m, "Lock")
         /\ g \in readers[m] => Holds(todo'[g], 1, m, "RLock")
         /\ g \notin waiting[m]
<1>1. todo[g] \in Seq(Step) /\ todo[g] # << >> /\ Head(todo[g]).on = l
      /\ todo'[g] = Tail(todo[g])
  BY DEF IInv, TypeOK, Does, Busy, Advance
<1>2. \A o \in Op : ~Does(g, o, m)
  BY <1>1 DEF Does
<1>3. \A o \in Op : Holds(todo[g], 1, m, o) => Holds(todo'[g], 1, m, o)
  BY <1>1, OtherLockHeld
<1> QED  BY <1>2, <1>3 DEF IInv, HoldersMatchPaths, Op

(* A lock a path has just taken. *)
LEMMA Taken ==
  ASSUME IInv, NEW g \in Goroutine, NEW l \in Lock, NEW op \in Op, Does(g, op, l), Advance(g)
  PROVE  /\ Holds(todo'[g], 1, l, op)
         /\ \A o \in Op : ~Holds(todo[g], 1, l, o)
<1>1. todo[g] \in Seq(Step) /\ todo[g] # << >> /\ Head(todo[g]) = [op |-> op, on |-> l]
      /\ todo'[g] = Tail(todo[g])
  BY DEF IInv, TypeOK, Does, Busy, Advance
<1>2. Acquires(Head(todo[g])) /\ Head(todo[g]).on = l /\ Head(todo[g]).op = op
  BY <1>1 DEF Acquires, Op
<1> QED  BY <1>1, <1>2, SomeOrder, Acquiring

-----------------------------------------------------------------------------
(* What HoldersMatchPaths says of one goroutine and one lock. *)
HolderMatches(g, l) ==
    /\ writer[l] = g => Does(g, "Lock", l) \/ Holds(todo[g], 1, l, "Lock")
    /\ g \in readers[l] => Does(g, "RLock", l) \/ Holds(todo[g], 1, l, "RLock")
    /\ g \in waiting[l] => Does(g, "RLock", l)

(* Every step keeps the invariant. *)
LEMMA BeginInv ==
  ASSUME IInv, NEW g \in Goroutine, Begin(g)
  PROVE  IInv'
<1> USE LocksAssumption
<1>1. PICK p \in Paths[g] : todo' = [todo EXCEPT ![g] = p]
  BY DEF Begin
<1>2. g # Main /\ p \in Seq(Step) /\ Disciplined(p, Rank)
      /\ (g \in Early => Disciplined(p, BootRank))
  BY <1>1
<1>3. todo \in [Goroutine -> Seq(Step)] /\ todo[g] = << >>
  BY DEF IInv, TypeOK, Begin, Busy
<1>4. TypeOK'
  BY <1>1, <1>2, <1>3 DEF IInv, TypeOK, Begin
<1>5. \A l \in Lock : writer[l] # g /\ g \notin readers[l] /\ g \notin waiting[l]
  <2>1. \A l, op : ~Does(g, op, l) /\ ~Holds(todo[g], 1, l, op)
    BY <1>3, NothingHeldAtEnd DEF Does, Busy
  <2> QED  BY <2>1 DEF IInv, HoldersMatchPaths
<1>6. HoldersMatchPaths'
  <2> SUFFICES ASSUME NEW l \in Lock, NEW h \in Goroutine  PROVE HolderMatches(h, l)'
    BY DEF HoldersMatchPaths, HolderMatches
  <2>1. CASE h = g
    BY <1>5, <2>1 DEF HolderMatches, Begin
  <2>2. CASE h # g
    BY <1>1, <1>3, <2>2 DEF HolderMatches, IInv, HoldersMatchPaths, Begin, Does, Busy
  <2> QED  BY <2>1, <2>2
<1>7. Orderly'
  <2>1. \A h \in Goroutine \ {g} : todo'[h] = todo[h]
    BY <1>1, <1>3
  <2>2. todo'[g] = p
    BY <1>1, <1>3
  <2>3. Booted' = Booted
    BY <1>2, <2>1 DEF Booted, Busy
  <2>4. \A h \in Goroutine : Booted' \/ h = Main \/ h \in Early \/ ~Busy(h)'
    BY <2>1, <2>3 DEF IInv, Orderly, Begin, MayBegin, Busy
  <2>5. /\ Disciplined(todo'[Main], BootRank)
        /\ \A h \in Goroutine \ {Main} : Disciplined(todo'[h], Rank)
        /\ \A h \in Early : Disciplined(todo'[h], BootRank)
    BY <1>2, <2>1, <2>2 DEF IInv, Orderly
  <2> QED  BY <2>4, <2>5 DEF Orderly
<1> QED  BY <1>4, <1>6, <1>7 DEF IInv

(* A step that only changes who waits for a lock. *)
LEMMA WaitInv ==
  ASSUME IInv, NEW g \in Goroutine, NEW l \in Lock, Announce(g, l) \/ Queue(g, l)
  PROVE  IInv'
<1> USE LocksAssumption
<1>1. todo' = todo /\ readers' = readers
  BY DEF Announce, Queue
<1>2. Orderly'
  BY <1>1 DEF IInv, Orderly, Booted, Busy
<1>3. CASE Announce(g, l)
  <2>1. TypeOK'
    BY <1>3 DEF IInv, TypeOK, Announce
  <2>2. HoldersMatchPaths'
    <3> SUFFICES ASSUME NEW m \in Lock, NEW h \in Goroutine  PROVE HolderMatches(h, m)'
      BY DEF HoldersMatchPaths, HolderMatches
    <3>1. writer'[m] = IF m = l THEN g ELSE writer[m]
      BY <1>3 DEF IInv, TypeOK, Announce
    <3> QED  BY <1>1, <1>3, <3>1 DEF HolderMatches, IInv, HoldersMatchPaths, Announce, Does, Busy
  <2> QED  BY <1>2, <2>1, <2>2 DEF IInv
<1>4. CASE Queue(g, l)
  <2>1. TypeOK'
    BY <1>4 DEF IInv, TypeOK, Queue
  <2>2. HoldersMatchPaths'
    <3> SUFFICES ASSUME NEW m \in Lock, NEW h \in Goroutine  PROVE HolderMatches(h, m)'
      BY DEF HoldersMatchPaths, HolderMatches
    <3>1. waiting'[m] = IF m = l THEN waiting[m] \cup {g} ELSE waiting[m]
      BY <1>4 DEF IInv, TypeOK, Queue
    <3> QED  BY <1>1, <1>4, <3>1 DEF HolderMatches, IInv, HoldersMatchPaths, Queue, Does, Busy
  <2> QED  BY <1>2, <2>1, <2>2 DEF IInv
<1> QED  BY <1>3, <1>4

(* A step by which g goes on with its path, on lock l: the invariant holds *)
(* if g and l fit, and nobody else has got l in a way that does not.       *)
LEMMA AdvanceInv ==
  ASSUME IInv, NEW g \in Goroutine, NEW l \in Lock, NEW op, Does(g, op, l), Advance(g),
         TypeOK',
         \A m \in Lock \ {l} : /\ writer'[m] = writer[m] /\ readers'[m] = readers[m]
                               /\ waiting'[m] = waiting[m],
         HolderMatches(g, l)',
         \A h \in Goroutine \ {g} :
             /\ writer'[l] = h => writer[l] = h
             /\ h \in readers'[l] => h \in readers[l] \cup waiting[l]
             /\ h \in waiting'[l] => h \in waiting[l]
  PROVE  IInv'
<1>1. Orderly'
  BY AdvanceOrderly DEF Does
<1>2. \A h \in Goroutine \ {g} : todo'[h] = todo[h]
  BY DEF IInv, TypeOK, Advance
<1>3. HoldersMatchPaths'
  <2> SUFFICES ASSUME NEW m \in Lock, NEW h \in Goroutine  PROVE HolderMatches(h, m)'
    BY DEF HoldersMatchPaths, HolderMatches
  <2>1. CASE h = g /\ m = l
    BY <2>1
  <2>2. CASE h = g /\ m # l
    BY <2>2, Elsewhere DEF HolderMatches
  <2>3. CASE h # g
    <3>1. HolderMatches(h, m)
      BY DEF HolderMatches, IInv, HoldersMatchPaths
    <3> QED  BY <1>2, <2>3, <3>1 DEF HolderMatches, Does, Busy
  <2> QED  BY <2>1, <2>2, <2>3
<1> QED  BY <1>1, <1>3 DEF IInv

LEMMA LockInv ==
  ASSUME IInv, NEW g \in Goroutine, NEW l \in Lock, Enter(g, l) \/ Unlock(g, l)
  PROVE  IInv'
<1> USE LocksAssumption
<1>1. CASE Enter(g, l)
  <2>1. Does(g, "Lock", l) /\ Advance(g) /\ writer[l] = g /\ readers[l] = {}
        /\ UNCHANGED <<writer, readers, waiting>>
    BY <1>1 DEF Enter
  <2>2. TypeOK'
    BY <2>1, AdvanceOrderly DEF IInv, TypeOK, Does
  <2>3. Holds(todo'[g], 1, l, "Lock")
    BY <2>1, Taken DEF Op
  <2>4. g \notin waiting[l]
    BY <2>1, OneStep DEF IInv, HoldersMatchPaths
  <2>5. HolderMatches(g, l)'
    BY <2>1, <2>3, <2>4 DEF HolderMatches
  <2> QED  BY <2>1, <2>2, <2>5, AdvanceInv
<1>2. CASE Unlock(g, l)
  <2>1. Does(g, "Unlock", l) /\ Advance(g)
    BY <1>2 DEF Unlock
  <2>2. /\ writer' = [writer EXCEPT ![l] = Nobody]
        /\ readers' = [readers EXCEPT ![l] = waiting[l]]
        /\ waiting' = [waiting EXCEPT ![l] = {}]
    BY <1>2 DEF Unlock
  <2>3. writer'[l] = Nobody /\ readers'[l] = waiting[l] /\ waiting'[l] = {}
    BY <2>2 DEF IInv, TypeOK
  <2>4. TypeOK'
    BY <2>1, <2>2, AdvanceOrderly DEF IInv, TypeOK, Does
  <2>5. g \notin waiting[l]
    BY <2>1, OneStep DEF IInv, HoldersMatchPaths
  <2>6. HolderMatches(g, l)'
    BY <2>3, <2>5 DEF HolderMatches
  <2>7. \A m \in Lock \ {l} : /\ writer'[m] = writer[m] /\ readers'[m] = readers[m]
                              /\ waiting'[m] = waiting[m]
    BY <2>2 DEF IInv, TypeOK
  <2> QED  BY <2>1, <2>3, <2>4, <2>6, <2>7, AdvanceInv
<1> QED  BY <1>1, <1>2

LEMMA RLockInv ==
  ASSUME IInv, NEW g \in Goroutine, NEW l \in Lock, Share(g, l) \/ Admitted(g, l)
  PROVE  IInv'
<1> USE LocksAssumption
<1>1. Does(g, "RLock", l) /\ Advance(g) /\ writer' = writer /\ waiting' = waiting
  BY DEF Share, Admitted
<1>2. Holds(todo'[g], 1, l, "RLock") /\ \A o \in Op : ~Holds(todo[g], 1, l, o)
  BY <1>1, Taken DEF Op
<1>3. writer[l] # g
  <2>1. ~Does(g, "Lock", l) /\ ~Holds(todo[g], 1, l, "Lock")
    BY <1>1, <1>2, OneStep DEF Op
  <2> QED  BY <2>1 DEF IInv, HoldersMatchPaths
<1>4. g \notin waiting[l]
  BY DEF IInv, TypeOK, Share, Admitted
<1>5. HolderMatches(g, l)'
  BY <1>1, <1>2, <1>3, <1>4 DEF HolderMatches
<1>6. /\ readers'[l] \subseteq readers[l] \cup {g}
      /\ \A m \in Lock \ {l} : readers'[m] = readers[m]
  BY DEF IInv, TypeOK, Share, Admitted
<1>7. TypeOK'
  <2>1. readers' \in [Lock -> SUBSET Goroutine]
    <3>1. CASE Share(g, l)
      BY <3>1 DEF IInv, TypeOK, Share
    <3>2. CASE Admitted(g, l)
      BY <3>2 DEF IInv, TypeOK, Admitted
    <3> QED  BY <3>1, <3>2
  <2>2. \A m \in Lock : readers'[m] \cap waiting'[m] = {}
    <3>1. \A m \in Lock : readers[m] \cap waiting[m] = {}
      BY DEF IInv, TypeOK
    <3>2. \A m \in Lock : waiting'[m] = waiting[m]
      BY <1>1
    <3> QED  BY <1>4, <1>6, <3>1, <3>2
  <2> QED  BY <1>1, <2>1, <2>2, AdvanceOrderly DEF IInv, TypeOK, Does
<1> QED  BY <1>1, <1>5, <1>6, <1>7, AdvanceInv

LEMMA RUnlockInv ==
  ASSUME IInv, NEW g \in Goroutine, NEW l \in Lock, RUnlock(g, l)
  PROVE  IInv'
<1> USE LocksAssumption
<1>1. Does(g, "RUnlock", l) /\ Advance(g) /\ writer' = writer /\ waiting' = waiting
      /\ readers' = [readers EXCEPT ![l] = @ \ {g}]
  BY DEF RUnlock
<1>2. todo[g] \in Seq(Step) /\ todo[g] # << >> /\ Head(todo[g]).on = l
      /\ Head(todo[g]).op = "RUnlock"
  BY <1>1, SomeOrder DEF Does, Busy
<1>3. ~Holds(todo[g], 1, l, "Lock")
  BY <1>2, FirstReleases DEF Op, Release
<1>4. writer[l] # g /\ g \notin waiting[l]
  <2>1. ~Does(g, "Lock", l) /\ ~Does(g, "RLock", l)
    BY <1>1, OneStep
  <2> QED  BY <1>3, <2>1 DEF IInv, HoldersMatchPaths
<1>5. /\ readers'[l] = readers[l] \ {g}
      /\ \A m \in Lock \ {l} : readers'[m] = readers[m]
  BY <1>1 DEF IInv, TypeOK
<1>6. HolderMatches(g, l)'
  BY <1>1, <1>4, <1>5 DEF HolderMatches
<1>7. TypeOK'
  BY <1>1, <1>5, AdvanceOrderly DEF IInv, TypeOK, Does
<1> QED  BY <1>1, <1>5, <1>6, <1>7, AdvanceInv

LEMMA StepInv == IInv /\ [Next]_vars => IInv'
<1> SUFFICES ASSUME IInv, [Next]_vars  PROVE IInv'
  OBVIOUS
<1>1. CASE UNCHANGED vars
  BY <1>1 DEF IInv, vars, TypeOK, HoldersMatchPaths, Orderly, Booted, Does, Busy
<1>2. ASSUME NEW g \in Goroutine, Begin(g)  PROVE IInv'
  BY <1>2, BeginInv
<1>3. ASSUME NEW g \in Goroutine, NEW l \in Lock, Announce(g, l) \/ Queue(g, l)  PROVE IInv'
  BY <1>3, WaitInv
<1>4. ASSUME NEW g \in Goroutine, NEW l \in Lock, Enter(g, l) \/ Unlock(g, l)  PROVE IInv'
  BY <1>4, LockInv
<1>5. ASSUME NEW g \in Goroutine, NEW l \in Lock, Share(g, l) \/ Admitted(g, l)  PROVE IInv'
  BY <1>5, RLockInv
<1>6. ASSUME NEW g \in Goroutine, NEW l \in Lock, RUnlock(g, l)  PROVE IInv'
  BY <1>6, RUnlockInv
<1> QED  BY <1>1, <1>2, <1>3, <1>4, <1>5, <1>6 DEF Next, Goes

(* The locks' state is as it should be (what it says of the writers and    *)
(* readers of RWMutex).                                                    *)
THEOREM Typing == Spec => []TypeOK
<1>1. IInv => TypeOK
  BY DEF IInv
<1> QED  BY <1>1, InitInv, StepInv, PTL DEF Spec

-----------------------------------------------------------------------------
(* A non-empty set of numbers has a least one. *)
LEMMA Least ==
  ASSUME NEW S \in SUBSET Nat, S # {}
  PROVE  \E n \in S : \A m \in S : n <= m
<1>1. PICK n \in S : \A m \in S : ~(<<m, n>> \in OpToRel(<, Nat))
  BY NatLessThanWellFounded, WFMin
<1>2. \A m \in S : ~(m < n)
  BY <1>1 DEF OpToRel
<1> QED  BY <1>2

(* The lock a goroutine waits for. *)
Wanted(g) == Head(todo[g]).on

(* Who waits wants a lock; whom it waits for has that lock, and if that    *)
(* one waits too, it is for a lock further down, or for the readers of     *)
(* this one to leave, and they wait, if at all, for one further down.      *)
LEMMA Waiters ==
  ASSUME IInv, NEW g \in Goroutine, NEW h \in WaitsFor(g)
  PROVE  /\ Busy(g) /\ Wanted(g) \in Lock /\ Acquires(Head(todo[g]))
         /\ \/ \E op \in Op : Holds(todo[h], 1, Wanted(g), op)
            \/ Does(h, "Lock", Wanted(g)) /\ writer[Wanted(g)] = h
            \/ Does(h, "RLock", Wanted(g)) /\ h \in readers[Wanted(g)]
         /\ Does(g, "Lock", Wanted(g)) /\ writer[Wanted(g)] = g =>
               \/ \E op \in Op : Holds(todo[h], 1, Wanted(g), op)
               \/ Does(h, "RLock", Wanted(g)) /\ h \in readers[Wanted(g)]
<1> DEFINE Behind(l) == \/ Does(g, "Lock", l) /\ writer[l] = h /\ h # g
                        \/ Does(g, "Lock", l) /\ writer[l] = g /\ h \in readers[l]
                        \/ g \in waiting[l] /\ writer[l] = h
<1>1. h \in Goroutine /\ \E l \in Lock : Behind(l)
  BY Zenon DEF WaitsFor
<1>2. PICK l \in Lock : Behind(l)
  BY <1>1
<1>3. Does(g, "Lock", l) \/ Does(g, "RLock", l)
  BY <1>2 DEF IInv, HoldersMatchPaths
<1>4. Busy(g) /\ Wanted(g) = l /\ Acquires(Head(todo[g]))
  BY <1>3 DEF Does, Wanted, Acquires
<1>5. writer[l] = h => Does(h, "Lock", l) \/ Holds(todo[h], 1, l, "Lock")
  BY <1>1 DEF IInv, HoldersMatchPaths
<1>6. h \in readers[l] => Does(h, "RLock", l) \/ Holds(todo[h], 1, l, "RLock")
  BY <1>1 DEF IInv, HoldersMatchPaths
<1>7. ~(Does(g, "Lock", l) /\ g \in waiting[l])
  BY OneStep DEF IInv, HoldersMatchPaths
<1> QED  BY <1>2, <1>4, <1>5, <1>6, <1>7 DEF Op

(* Who was let in as a reader waits for nobody. *)
LEMMA LetIn ==
  ASSUME IInv, NEW g \in Goroutine, NEW l \in Lock, Does(g, "RLock", l), g \in readers[l]
  PROVE  WaitsFor(g) = {}
<1>1. g \notin waiting[l]
  BY DEF IInv, TypeOK
<1>2. \A m \in Lock : ~Does(g, "Lock", m) /\ g \notin waiting[m]
  <2>1. \A m \in Lock : Does(g, "RLock", m) => m = l
    BY OneStep
  <2>2. \A m \in Lock : ~Does(g, "Lock", m)
    BY OneStep
  <2> QED  BY <1>1, <2>1, <2>2 DEF IInv, HoldersMatchPaths
<1> QED  BY <1>2 DEF WaitsFor

(* No goroutines wait for one another in a circle: of the locks they want, *)
(* take the one furthest down; whoever has it does not wait.               *)
LEMMA NoCircle == IInv => NoDeadlock
<1> SUFFICES ASSUME IInv,
                    NEW Circle \in (SUBSET {g \in Goroutine : WaitsFor(g) # {}}) \ {{}},
                    \A g \in Circle : WaitsFor(g) \cap Circle # {}
             PROVE  FALSE
  BY DEF NoDeadlock
<1> USE LocksAssumption
<1>1. Circle \subseteq Goroutine /\ Circle # {} /\ \A g \in Circle : WaitsFor(g) # {}
  OBVIOUS
<1>2. \A g \in Circle : Busy(g) /\ Wanted(g) \in Lock /\ Acquires(Head(todo[g]))
  BY <1>1, Waiters
<1>3. PICK rank \in [Lock -> Nat] : \A g \in Circle : Disciplined(todo[g], rank)
  <2>1. CASE Booted
    BY <1>1, <1>2, <2>1 DEF IInv, Orderly, Booted
  <2>2. CASE ~Booted
    BY <1>1, <1>2, <2>2 DEF IInv, Orderly
  <2> QED  BY <2>1, <2>2
<1>4. \A g \in Circle : rank[Wanted(g)] \in Nat
  BY <1>2
<1>5. PICK g \in Circle : \A h \in Circle : rank[Wanted(g)] <= rank[Wanted(h)]
  <2> DEFINE S == {rank[Wanted(g)] : g \in Circle}
  <2>1. S \in SUBSET Nat /\ S # {}
    BY <1>1, <1>4
  <2>2. PICK n \in S : \A m \in S : n <= m
    BY <2>1, Least
  <2>3. PICK g \in Circle : n = rank[Wanted(g)]
    BY <2>2
  <2>4. \A h \in Circle : rank[Wanted(h)] \in S
    OBVIOUS
  <2> HIDE DEF S
  <2> QED  BY <2>2, <2>3, <2>4
<1>6. ASSUME NEW h \in Circle, NEW op \in Op, Holds(todo[h], 1, Wanted(g), op)  PROVE FALSE
  <2>1. todo[h] \in Seq(Step) /\ todo[h] # << >> /\ Acquires(Head(todo[h]))
    BY <1>1, <1>2, SomeOrder DEF Busy
  <2>2. rank[Wanted(h)] < rank[Wanted(g)]
    BY <1>2, <1>3, <1>6, <2>1, Acquiring DEF Wanted
  <2> QED  BY <1>2, <1>4, <1>5, <2>2
<1>7. ASSUME NEW h \in Circle, Does(h, "RLock", Wanted(g)), h \in readers[Wanted(g)]
      PROVE FALSE
  BY <1>1, <1>2, <1>7, LetIn
<1>8. PICK h \in Circle : h \in WaitsFor(g)
  OBVIOUS
<1>9. Does(h, "Lock", Wanted(g)) /\ writer[Wanted(g)] = h
  BY <1>1, <1>6, <1>7, <1>8, Waiters
<1>10. PICK k \in Circle : k \in WaitsFor(h)
  OBVIOUS
<1>11. Wanted(h) = Wanted(g)
  BY <1>9 DEF Does, Wanted
<1>12. \/ \E op \in Op : Holds(todo[k], 1, Wanted(g), op)
       \/ Does(k, "RLock", Wanted(g)) /\ k \in readers[Wanted(g)]
  BY <1>1, <1>9, <1>10, <1>11, Waiters
<1> QED  BY <1>6, <1>7, <1>12

(* The process never deadlocks on these locks: not in Restore with its own *)
(* order, with the flush beside it, nor after it.                          *)
THEOREM NeverDeadlocked == Spec => []NoDeadlock
<1> QED  BY NoCircle, InitInv, StepInv, PTL DEF Spec
=============================================================================
