------------------------------- MODULE Locks -------------------------------
(***************************************************************************)
(* The process as goroutines that run paths over its locks: what each      *)
(* operation locks and unlocks, in order (module LockPaths), on Go's       *)
(* sync.RWMutex.  A sync.Mutex is one of which nobody reads.  No path      *)
(* locks again what it holds (Disciplined), so the lock need not tell that *)
(* writer from a waiting one.                                              *)
(*                                                                         *)
(* main runs one path of its own, Restore, and only then starts the        *)
(* goroutines that are not in Early.                                       *)
(***************************************************************************)
EXTENDS Naturals, Sequences

CONSTANTS Goroutine, Main,
          Early,       \* goroutines main starts before Restore
          Paths,       \* for each goroutine, the paths it may run, again and again
          Restoring,   \* the path of main
          Lock, Nobody,
          Rank,        \* the order in which the locks are taken, downwards
          BootRank     \* the order in which they are taken until Restore returns

Acquires(s) == s.op \in {"Lock", "RLock"}
Release(op) == IF op = "Lock" THEN "Unlock" ELSE "RUnlock"

(* With the steps of q from i on to come, lock l is held by way of op: the *)
(* next of them on l releases it.                                          *)
Holds(q, i, l, op) ==
    \E j \in i .. Len(q) : /\ q[j] = [op |-> Release(op), on |-> l]
                           /\ \A k \in i .. j - 1 : q[k].on # l

(* What is taken ranks below all that is held, and is released.            *)
Disciplined(q, rank) ==
    \A i \in 1 .. Len(q) :
        Acquires(q[i]) =>
            /\ Holds(q, i + 1, q[i].on, q[i].op)
            /\ \A l \in Lock, op \in {"Lock", "RLock"} :
                  Holds(q, i, l, op) => rank[q[i].on] < rank[l]

(* Before its first step nothing is held. *)
Whole(q) == \A l \in Lock, op \in {"Lock", "RLock"} : ~Holds(q, 1, l, op)

Step == [op : {"Lock", "RLock", "Unlock", "RUnlock"}, on : Lock]

ASSUME LocksAssumption ==
    /\ Main \in Goroutine /\ Early \subseteq Goroutine \ {Main}
    /\ Nobody \notin Goroutine
    /\ Rank \in [Lock -> Nat] /\ BootRank \in [Lock -> Nat]
    /\ Paths \in [Goroutine -> SUBSET Seq(Step)] /\ Paths[Main] = {}
    /\ Restoring \in Seq(Step) /\ Whole(Restoring) /\ Disciplined(Restoring, BootRank)
    /\ \A g \in Goroutine : \A p \in Paths[g] : Whole(p) /\ Disciplined(p, Rank)
    /\ \A g \in Early : \A p \in Paths[g] : Disciplined(p, BootRank)

VARIABLES todo,            \* the steps each goroutine has still to take
          writer,          \* per lock: who has called Lock, and holds it or
                           \* waits for the readers to leave
          readers,         \* who has a read lock, or was handed one
          waiting          \* who waits in RLock for the writer to leave

vars == <<todo, writer, readers, waiting>>

Busy(g) == todo[g] # << >>
Does(g, op, l) == Busy(g) /\ Head(todo[g]) = [op |-> op, on |-> l]
Advance(g) == todo' = [todo EXCEPT ![g] = Tail(@)]
Booted == ~Busy(Main)

Init == /\ todo = [g \in Goroutine |-> IF g = Main THEN Restoring ELSE << >>]
        /\ writer = [l \in Lock |-> Nobody]
        /\ readers = [l \in Lock |-> {}]
        /\ waiting = [l \in Lock |-> {}]

-----------------------------------------------------------------------------
(* A slip: the others are started while main restores. *)
AtOnce(g) == TRUE

MayBegin(g) == Booted \/ g \in Early

Begin(g) == /\ ~Busy(g) /\ MayBegin(g)
            /\ \E p \in Paths[g] : todo' = [todo EXCEPT ![g] = p]
            /\ UNCHANGED <<writer, readers, waiting>>

(* Lock: one writer at a time, which keeps new readers out and waits for   *)
(* those inside.                                                           *)
Announce(g, l) == /\ Does(g, "Lock", l) /\ writer[l] = Nobody
                  /\ writer' = [writer EXCEPT ![l] = g]
                  /\ UNCHANGED <<todo, readers, waiting>>

Enter(g, l) == /\ Does(g, "Lock", l) /\ writer[l] = g /\ readers[l] = {}
               /\ Advance(g) /\ UNCHANGED <<writer, readers, waiting>>

(* A slip: the readers that wait are not woken. *)
UnlockAlone(g, l) == /\ Does(g, "Unlock", l)
                     /\ writer' = [writer EXCEPT ![l] = Nobody]
                     /\ Advance(g) /\ UNCHANGED <<readers, waiting>>

(* Unlock lets in all readers that wait, before the next writer. *)
Unlock(g, l) == /\ Does(g, "Unlock", l)
                /\ writer' = [writer EXCEPT ![l] = Nobody]
                /\ readers' = [readers EXCEPT ![l] = waiting[l]]
                /\ waiting' = [waiting EXCEPT ![l] = {}]
                /\ Advance(g)

(* RLock: straight in without a writer, otherwise after the writer's       *)
(* Unlock.                                                                 *)
Share(g, l) == /\ Does(g, "RLock", l) /\ writer[l] = Nobody
               /\ readers' = [readers EXCEPT ![l] = @ \cup {g}]
               /\ Advance(g) /\ UNCHANGED <<writer, waiting>>

Queue(g, l) == /\ Does(g, "RLock", l) /\ writer[l] # Nobody
               /\ g \notin readers[l] \cup waiting[l]
               /\ waiting' = [waiting EXCEPT ![l] = @ \cup {g}]
               /\ UNCHANGED <<todo, writer, readers>>

Admitted(g, l) == /\ Does(g, "RLock", l) /\ writer[l] # Nobody /\ g \in readers[l]
                  /\ Advance(g) /\ UNCHANGED <<writer, readers, waiting>>

RUnlock(g, l) == /\ Does(g, "RUnlock", l)
                 /\ readers' = [readers EXCEPT ![l] = @ \ {g}]
                 /\ Advance(g) /\ UNCHANGED <<writer, waiting>>

Goes(g) == \E l \in Lock : \/ Announce(g, l) \/ Enter(g, l) \/ Unlock(g, l)
                           \/ Share(g, l) \/ Queue(g, l) \/ Admitted(g, l) \/ RUnlock(g, l)
Next == \E g \in Goroutine : Begin(g) \/ Goes(g)

Spec == Init /\ [][Next]_vars

-----------------------------------------------------------------------------
(* The state of the locks: only a writer keeps readers waiting, and it is  *)
(* the one who lets them in (Go's RWMutex, as multiplexer.go and the       *)
(* engines use it).                                                        *)
TypeOK ==
    /\ todo \in [Goroutine -> Seq(Step)]
    /\ writer \in [Lock -> Goroutine \cup {Nobody}]
    /\ readers \in [Lock -> SUBSET Goroutine] /\ waiting \in [Lock -> SUBSET Goroutine]
    /\ \A l \in Lock : /\ waiting[l] # {} => writer[l] # Nobody
                       /\ readers[l] \cap waiting[l] = {}

(* Whom a goroutine waits for before it can take its next step. *)
WaitsFor(g) ==
    {h \in Goroutine : \E l \in Lock :
        \/ Does(g, "Lock", l) /\ writer[l] = h /\ h # g
        \/ Does(g, "Lock", l) /\ writer[l] = g /\ h \in readers[l]
        \/ g \in waiting[l] /\ writer[l] = h}

(* No goroutines wait for one another in a circle.  Restore takes the      *)
(* locks in an order of its own (RecoverFromWal keeps the log's mutex      *)
(* while it calls the engines, which lock the multiplexer; CREATE goes the *)
(* other way), and that is harmless only because main restores first.      *)
NoDeadlock ==
    \A Circle \in (SUBSET {g \in Goroutine : WaitsFor(g) # {}}) \ {{}} :
        \E g \in Circle : WaitsFor(g) \cap Circle = {}
=============================================================================
