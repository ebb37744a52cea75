----------------------------- MODULE KVStorage ------------------------------
(***************************************************************************)
(* pkg/storage: one key-value engine with its expiry heap, the lines it    *)
(* logs, and what a restart makes of them.  Each method runs under the     *)
(* engine's mutex and is one action, except that the reading methods       *)
(* release the mutex between seeing an expired key and deleting it.        *)
(*                                                                         *)
(* Time is counted in ticks; a log line keeps an expiry in whole seconds   *)
(* (time.RFC3339).  Integers are those from -Half, below Half.             *)
(***************************************************************************)
EXTENDS Integers, Sequences, FiniteSets, SequencesExt, Functions

CONSTANTS Key,
          Reader,        \* connections that may be in the middle of a read
          Text,          \* a value that is not an integer
          Never,         \* the expiry of a key without one (nil)
          Half,          \* half the number of integers (2^63 in Go)
          TTL,           \* times to live a client may ask for, in ticks
          Second,        \* ticks per second
          MaxTime,       \* bound: the clock
          MaxCommands,   \* bound: commands that change a key
          MaxSnapshots,  \* bound: snapshots
          MaxRestarts    \* bound: restarts

ASSUME ConstantsAssumption ==
    /\ MaxTime \in Nat \ {0} /\ {MaxCommands, MaxSnapshots, MaxRestarts} \subseteq Nat
    /\ Half \in Nat \ {0} /\ Second \in Nat \ {0}
    /\ TTL \subseteq Int /\ Never \notin Int /\ Text \notin Int
    /\ IsFiniteSet(Key)

VARIABLES store,      \* data, and the expiry heap with its map
          seen,       \* expired keys a reader has seen and not deleted yet
          log,        \* lines logged since the last snapshot
          snapshot,   \* the data the last snapshot holds
          now,
          commands, snapshots, restarts     \* what the bounds count

bounds == <<commands, snapshots, restarts>>
vars == <<store, seen, log, snapshot, now, bounds>>

Word  == -Half .. Half - 1
Value == Word \cup {Text}
Time  == Int \cup {Never}

NoData == [k \in {} |-> Never]

-----------------------------------------------------------------------------
(* A slip: the two's complement is forgotten. *)
Unwrapped(n) == n

(* int64 arithmetic: the sum wraps silently. *)
Wrap(n) == ((n + Half) % (2 * Half)) - Half

(* PayloadMetadata.IsExpired: strictly before now. *)
IsExpired(p) == p.expires # Never /\ p.expires < now
ExpiredKeys(s) == {k \in DOMAIN s.data : IsExpired(s.data[k])}

(* The heap and the map of its entries hold the same keys, so one function *)
(* from keys to times stands for both.                                     *)
Put(f, K, x) == [j \in DOMAIN f \cup K |-> IF j \in K THEN x ELSE f[j]]
Drop(f, K) == Restrict(f, DOMAIN f \ K)

(* A slip: the old expiry is forgotten only when there is a new one. *)
SetEntriesKeepOld(s, K, p) ==
    [data |-> Put(s.data, K, p),
     heap |-> IF p.expires = Never THEN s.heap ELSE Put(s.heap, K, p.expires)]

(* What setNoLock and the replay of a SET do to the data and the heap, for *)
(* each key of a set.                                                      *)
SetEntries(s, K, p) ==
    [data |-> Put(s.data, K, p),
     heap |-> IF p.expires = Never THEN Drop(s.heap, K) ELSE Put(s.heap, K, p.expires)]

(* deleteNoLock, for each key of a set. *)
DeleteEntries(s, K) == [data |-> Drop(s.data, K), heap |-> Drop(s.heap, K)]

(* DeserializeState: an entry of the heap for each key with an expiry; a   *)
(* key that has expired in the meantime is kept.                           *)
FromSnapshot(d) ==
    LET timed == {k \in DOMAIN d : d[k].expires # Never}
    IN  [data |-> d, heap |-> [k \in timed |-> d[k].expires]]

-----------------------------------------------------------------------------
(* The log lines.  Formatting an expiry drops the fraction of the second.  *)
InSeconds(t) == IF t = Never THEN Never ELSE t - (t % Second)

SetLine(k, p)  == [op |-> "SET", key |-> k, value |-> p.value, expires |-> InSeconds(p.expires)]
SetLines(K, p) == SetToSeq({SetLine(k, p) : k \in K})
DeleteLine(k)  == [op |-> "DELETE", key |-> k]
DeleteLines(K) == SetToSeq({DeleteLine(k) : k \in K})

Line == [op : {"SET"}, key : Key, value : Value, expires : Time]
        \cup [op : {"DELETE"}, key : Key]

(* ProcessWalEntry: a SET whose expiry has passed is not replayed. *)
ProcessWalEntry(s, l) ==
    IF l.op = "DELETE" THEN DeleteEntries(s, {l.key})
    ELSE LET p == [value |-> l.value, expires |-> l.expires]
         IN  IF IsExpired(p) THEN s ELSE SetEntries(s, {l.key}, p)

Replayed(s, lines) ==
    LET after[n \in 0 .. Len(lines)] ==
            IF n = 0 THEN s ELSE ProcessWalEntry(after[n - 1], lines[n])
    IN  after[Len(lines)]

(* What a restart at this moment would make of the snapshot and the log. *)
Recovered == Replayed(FromSnapshot(snapshot), log)

Init == /\ store = [data |-> NoData, heap |-> NoData]
        /\ seen = [r \in Reader |-> [keys |-> {}, recheck |-> FALSE]]
        /\ log = << >> /\ snapshot = NoData
        /\ now = 1
        /\ commands = 0 /\ snapshots = 0 /\ restarts = 0

-----------------------------------------------------------------------------
Command == /\ commands < MaxCommands /\ commands' = commands + 1
           /\ UNCHANGED <<seen, snapshot, now, snapshots, restarts>>

(* Set and SetWithTTL, Mset and MsetWithTTL: the keys one after the other, *)
(* under one hold of the mutex; their order makes no difference.           *)
SetKeys(K, v, ttl) ==
    /\ Command
    /\ LET p == [value |-> v, expires |-> IF ttl = Never THEN Never ELSE now + ttl]
       IN  /\ store' = SetEntries(store, K, p)
           /\ log' = log \o SetLines(K, p)

(* A slip: the deletion is not logged. *)
DeleteKeyUnlogged(k) ==
    /\ Command
    /\ store' = DeleteEntries(store, {k})
    /\ UNCHANGED log

(* Delete: logged and done whether the key exists or not. *)
DeleteKey(k) ==
    /\ Command
    /\ store' = DeleteEntries(store, {k})
    /\ log' = Append(log, DeleteLine(k))

(* Increment, IncrementBy, Decrement and DecrementBy.  The new value is    *)
(* logged as a SET; the expiry stays as it was.                            *)
Increment(k, amount) ==
    /\ Command
    /\ k \in DOMAIN store.data /\ ~IsExpired(store.data[k])
    /\ store.data[k].value # Text
    /\ LET p == [store.data[k] EXCEPT !.value = Wrap(@ + amount)]
       IN  /\ store' = [store EXCEPT !.data = Put(@, {k}, p)]
           /\ log' = Append(log, SetLine(k, p))

(* Incrementing an expired key deletes it; an absent key or one that is    *)
(* not an integer is an error that changes nothing.                        *)
IncrementExpired(k) ==
    /\ Command
    /\ k \in ExpiredKeys(store)
    /\ store' = DeleteEntries(store, {k})
    /\ log' = Append(log, DeleteLine(k))

(* DeleteByPrefix, DeleteBySuffix and DeleteByRegex: the keys that match,  *)
(* and every expired one.                                                  *)
DeleteMatching(matching) ==
    /\ Command
    /\ LET K == ExpiredKeys(store) \cup (matching \cap DOMAIN store.data)
       IN  /\ store' = DeleteEntries(store, K)
           /\ log' = log \o DeleteLines(K)

-----------------------------------------------------------------------------
(* Reads that meet an expired key release the read lock before they delete *)
(* it.  Get and Exists read one key, and will delete it unseen; Mget,      *)
(* Count... and Find... read several, and will look again.                 *)
See(r, K, recheck) ==
    /\ seen[r].keys = {}
    /\ K \cap ExpiredKeys(store) # {}
    /\ seen' = [seen EXCEPT ![r] = [keys |-> K \cap ExpiredKeys(store), recheck |-> recheck]]
    /\ UNCHANGED <<store, log, snapshot, now, bounds>>

Get(r, k)  == See(r, {k}, FALSE)
Mget(r, K) == See(r, K, TRUE)

SeenDone(r, K) ==
    /\ store' = DeleteEntries(store, K)
    /\ log' = log \o DeleteLines(K)
    /\ seen' = [seen EXCEPT ![r] = [keys |-> {}, recheck |-> FALSE]]
    /\ UNCHANGED <<snapshot, now, bounds>>

(* Get and Exists call Delete ... *)
DeleteSeen(r) ==
    /\ seen[r].keys # {} /\ ~seen[r].recheck
    /\ SeenDone(r, seen[r].keys)

(* A slip: the keys are not looked at again. *)
DeleteExpiredKeysUnseen(r) ==
    /\ seen[r].keys # {} /\ seen[r].recheck
    /\ SeenDone(r, seen[r].keys)

(* ... and the others deleteExpiredKeys, which skips what is not expired.  *)
DeleteExpiredKeys(r) ==
    /\ seen[r].keys # {} /\ seen[r].recheck
    /\ SeenDone(r, seen[r].keys \cap ExpiredKeys(store))

(* CleanupExpired, from the ticker: as long as the root of the heap is not *)
(* after now, its key is deleted.  Nothing is logged.                      *)
CleanupExpired ==
    LET due == {k \in DOMAIN store.heap : store.heap[k] <= now}
    IN  /\ due # {}
        /\ store' = DeleteEntries(store, due)
        /\ UNCHANGED <<seen, log, snapshot, now, bounds>>

-----------------------------------------------------------------------------
(* A snapshot replaces the log.  What can come between the two steps is    *)
(* the subject of Persistence.                                             *)
SaveSnapshot ==
    /\ snapshots < MaxSnapshots /\ snapshots' = snapshots + 1
    /\ snapshot' = store.data /\ log' = << >>
    /\ UNCHANGED <<store, seen, now, commands, restarts>>

Restart ==
    /\ restarts < MaxRestarts /\ restarts' = restarts + 1
    /\ store' = Recovered
    /\ seen' = [r \in Reader |-> [keys |-> {}, recheck |-> FALSE]]
    /\ UNCHANGED <<log, snapshot, now, commands, snapshots>>

Tick == /\ now < MaxTime /\ now' = now + 1
        /\ UNCHANGED <<store, seen, log, snapshot, bounds>>

Next == \/ \E K \in (SUBSET Key) \ {{}}, v \in Value, ttl \in TTL \cup {Never} : SetKeys(K, v, ttl)
        \/ \E k \in Key : DeleteKey(k) \/ IncrementExpired(k)
        \/ \E k \in Key, amount \in Word : Increment(k, amount)
        \/ \E matching \in SUBSET Key : DeleteMatching(matching)
        \/ \E r \in Reader, k \in Key : Get(r, k)
        \/ \E r \in Reader, K \in SUBSET Key : Mget(r, K)
        \/ \E r \in Reader : DeleteSeen(r) \/ DeleteExpiredKeys(r)
        \/ CleanupExpired
        \/ SaveSnapshot \/ Restart
        \/ Tick

Spec == Init /\ [][Next]_vars

-----------------------------------------------------------------------------
IsData(d) == /\ DOMAIN d \subseteq Key
             /\ \A k \in DOMAIN d : d[k] \in [value : Value, expires : Time]

(* The state is well formed; values stay within the machine's integers. *)
TypeOK == /\ IsData(store.data) /\ IsData(snapshot)
          /\ \A r \in Reader : seen[r].keys \subseteq Key /\ seen[r].recheck \in BOOLEAN
          /\ log \in Seq(Line)
          /\ now \in 1 .. MaxTime
          /\ commands \in 0 .. MaxCommands
          /\ snapshots \in 0 .. MaxSnapshots /\ restarts \in 0 .. MaxRestarts

(* The heap holds exactly the keys with an expiry, at that expiry: a stale *)
(* entry would let the ticker delete a key that has been set anew, and a   *)
(* missing one would keep an expired key in memory.                        *)
HeapMatchesData == store.heap = FromSnapshot(store.data).heap

(* The values a client is served.  A key at the very tick of its expiry    *)
(* counts as gone, as the ticker may have removed it already.              *)
Served(d) == {k \in DOMAIN d : d[k].expires # Never => d[k].expires > now}

(* The last line of a key is a SET that the replay would skip. *)
LastSetHasExpired(k) ==
    \E i \in DOMAIN log :
        /\ log[i].key = k /\ log[i].op = "SET" /\ IsExpired(log[i])
        /\ \A j \in i + 1 .. Len(log) : log[j].key # k

(* Replaying the log gives back what is served: every key with the same    *)
(* value, no key that was deleted, and only what expires within the second *)
(* may be missing.  The exception is a key whose last SET has expired by   *)
(* the time of the replay: it falls back to an older value.                *)
ReplayMatchesLive ==
    LET old == store.data
        new == Recovered.data
    IN \A k \in Key : \/ LastSetHasExpired(k)
                      \/ /\ k \in Served(new) => k \in Served(old) /\ new[k].value = old[k].value
                         /\ k \in Served(old) => \/ k \in Served(new)
                                                 \/ InSeconds(old[k].expires) <= now

(* A value that is served stays until it expires or a command removes it:  *)
(* neither the ticker nor the deletions of reads take it away, except that *)
(* of a Get or Exists which saw an older, expired value of the key.        *)
ServedValuesStay ==
    [][\A k \in Served(store.data) :
          \/ k \in DOMAIN store'.data
          \/ commands' # commands \/ restarts' # restarts
          \/ \E r \in Reader : k \in seen[r].keys /\ ~seen[r].recheck /\ seen'[r].keys = {}]_vars

(* API_CONTRACT.md:14, of SET_TTL: "Sets key to value with expiration in   *)
(* milliseconds (integer)."  A key that has expired does not come back.    *)
ExpiredStaysExpired ==
    \A k \in Key : k \in Served(Recovered.data) => k \in Served(store.data)
=============================================================================
