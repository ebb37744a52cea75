---------------------------- MODULE ServerProofs ----------------------------
(***************************************************************************)
(* Proofs about Server, for any clients, requests and queues: what Stop    *)
(* stops; the types; who is in the hub, and what is sent to whom; what the *)
(* answers tell.                                                           *)
(***************************************************************************)
EXTENDS Server, SequenceLemmas

Resting == {"none", "check", "close", "closing", "unsubscribe", "delete", "leave", "done"}
Serves  == {"read", "topics", "publish", "reply"}

(* Stop closes quit before all else.  The wait group counts every handler  *)
(* under way, so none is when it lets Stop return; one that starts after   *)
(* that looks at quit first.                                               *)
StopInv ==
    /\ pc \in [Client -> Resting \cup Serves]
    /\ stop # "idle" => quit
    /\ \A c \in Client : pc[c] \notin {"none", "done"} => c \in wg
    /\ stop = "returned" => \A c \in Client : pc[c] \in Resting

LEMMA InitStop == Init => StopInv
BY DEF Init, StopInv, Resting, Serves

(* The accept loop: a handler starts counted, and at the check of quit. *)
LEMMA StartKeeps ==
  ASSUME StopInv, StartSteps \/ \E c \in Client : Accept(c)
  PROVE  StopInv'
<1>1. stop' = stop /\ quit' = quit
  BY DEF StartSteps, Starting, Listen, ReadListener, AcceptFails, Register, AddHandler, Accept
<1>2. CASE AddHandler
  <2>1. wg' = wg \cup {accepted} /\ pc' = [pc EXCEPT ![accepted] = "check"]
    BY <1>2 DEF AddHandler
  <2> QED  BY <1>1, <2>1 DEF StopInv, Resting, Serves
<1>3. CASE ~AddHandler
  <2>1. wg' = wg /\ pc' = pc
    BY <1>3 DEF StartSteps, Listen, ReadListener, AcceptFails, Register, Accept
  <2> QED  BY <1>1, <2>1 DEF StopInv
<1> QED  BY <1>2, <1>3

(* Stop returns when nobody is counted. *)
LEMMA StopKeeps ==
  ASSUME StopInv, StopSteps \/ CloseQuit
  PROVE  StopInv'
<1>1. pc' = pc /\ wg' = wg
  BY DEF StopSteps, Stopping, handler, CloseQuit, CloseListener, LockConns, CloseDone,
         CloseSocket, Wait
<1>2. CASE CloseQuit
  BY <1>1, <1>2 DEF StopInv, CloseQuit
<1>3. CASE Wait
  <2>1. stop # "idle" /\ quit' = quit
    BY <1>3 DEF Wait
  <2>2. stop' = "returned" => wg = {}
    BY <1>3 DEF Wait
  <2>3. wg = {} => \A c \in Client : pc[c] \in Resting
    BY DEF StopInv, Resting
  <2> QED  BY <1>1, <2>1, <2>2, <2>3 DEF StopInv
<1>4. CASE CloseListener \/ LockConns \/ \E c \in Client : CloseDone(c) \/ CloseSocket(c)
  <2>1. stop # "idle" /\ quit' = quit /\ stop' # "returned"
    BY <1>4 DEF CloseListener, LockConns, CloseDone, CloseSocket
  <2> QED  BY <1>1, <2>1 DEF StopInv
<1> QED  BY <1>2, <1>3, <1>4 DEF StopSteps

(* A step of c's handler that leaves the server alone, from a state in     *)
(* which it may serve, or to one in which it does not.                     *)
LEMMA HandlerKeeps ==
  ASSUME StopInv, NEW c \in Client, NEW to \in (Resting \cup Serves) \ {"none", "done"},
         pc[c] \notin {"none", "done"},
         pc[c] \in Serves \/ to \in Resting,
         pc' = [pc EXCEPT ![c] = to], wg' = wg, stop' = stop, quit' = quit
  PROVE  StopInv'
BY DEF StopInv, Resting, Serves

LEMMA LineKeeps ==
  ASSUME StopInv, NEW c \in Client, HandleLine(c)
  PROVE  StopInv'
<1>1. PICK r \in menu.clients[c].requests :
        /\ ReadLine(c, r)
        /\ \/ NoCommand(c, r) \/ PublishStarts(c, r) \/ TopicsStart(c, r)
           \/ InSubscriberMode(c, r)
           \/ Multi(c, r) \/ Exec(c, r) \/ Discard(c, r) \/ Command(c, r)
  BY DEF HandleLine
<1>2. pc[c] = "read" /\ wg' = wg /\ stop' = stop /\ quit' = quit
  BY <1>1 DEF ReadLine, HandlerOnly, server
<1>3. \E to \in {"reply", "publish", "topics"} : pc' = [pc EXCEPT ![c] = to]
  BY <1>1 DEF NoCommand, PublishStarts, TopicsStart, InSubscriberMode, Multi, Exec, Discard,
              Command, Refuse, Says
<1> QED  BY <1>2, <1>3, HandlerKeeps DEF Resting, Serves

LEMMA HandlerStepKeeps ==
  ASSUME StopInv, NEW c \in Client, HandlerSteps(c)
  PROVE  StopInv'
<1>1. CASE CheckQuit(c)
  <2>1. pc[c] = "check" /\ wg' = wg /\ stop' = stop /\ quit' = quit
        /\ pc' = [pc EXCEPT ![c] = IF quit THEN "close" ELSE "read"]
    BY <1>1 DEF CheckQuit, HandlerOnly, server
  <2>2. CASE quit
    BY <2>1, <2>2, HandlerKeeps DEF Resting, Serves
  <2>3. CASE ~quit
    BY <2>1, <2>3 DEF StopInv, Resting, Serves
  <2> QED  BY <2>2, <2>3
<1>2. CASE ReadFails(c) \/ TakeTopic(c) \/ TopicsEnd(c) \/ PublishEnds(c) \/ WriteResponse(c)
  <2>1. pc[c] \in Serves /\ wg' = wg /\ stop' = stop /\ quit' = quit
    BY <1>2 DEF ReadFails, TakeTopic, TopicsEnd, PublishEnds, WriteResponse, HandlerOnly,
                server, Serves
  <2>2. \E to \in {"close", "reply", "check", "topics"} : pc' = [pc EXCEPT ![c] = to]
    BY <1>2 DEF ReadFails, TakeTopic, TopicsEnd, PublishEnds, WriteResponse
  <2> QED  BY <2>1, <2>2, HandlerKeeps DEF Resting, Serves
<1>3. CASE SkipTopic(c) \/ Send(c)
  <2>1. pc' = pc /\ wg' = wg /\ stop' = stop /\ quit' = quit
    BY <1>3 DEF SkipTopic, Send, HandlerOnly, server
  <2> QED  BY <2>1 DEF StopInv
<1>4. CASE Close(c) \/ LeaveHub(c) \/ LeaveConns(c)
  <2>1. pc[c] \in Resting \ {"none", "done"} /\ wg' = wg /\ stop' = stop /\ quit' = quit
    BY <1>4 DEF Close, LeaveHub, LeaveConns, Ending, Resting
  <2>2. \E to \in {"closing", "unsubscribe", "delete", "leave"} : pc' = [pc EXCEPT ![c] = to]
    BY <1>4 DEF Close, LeaveHub, LeaveConns
  <2> QED  BY <2>1, <2>2, HandlerKeeps DEF Resting, Serves
<1>5. CASE HandlerDone(c)
  <2>1. /\ pc' = [pc EXCEPT ![c] = "done"] /\ wg' = wg \ {c} /\ quit' = quit
        /\ stop' = IF stop = "waiting" /\ wg' = {} THEN "woken" ELSE stop
    BY <1>5 DEF HandlerDone, Ending
  <2>2. \A d \in Client : pc'[d] = IF d = c THEN "done" ELSE pc[d]
    BY <2>1 DEF StopInv
  <2>3. pc' \in [Client -> Resting \cup Serves]
    BY <2>1 DEF StopInv, Resting
  <2> QED  BY <2>1, <2>2, <2>3 DEF StopInv, Resting
<1> QED  BY <1>1, <1>2, <1>3, <1>4, <1>5 DEF HandlerSteps

LEMMA NextStop == StopInv /\ [Next]_vars => StopInv'
<1> SUFFICES ASSUME StopInv, [Next]_vars  PROVE StopInv'
  OBVIOUS
<1>1. ASSUME NEW c \in Client, WriterSteps(c) \/ ClientReads(c) \/ HangUp(c)  PROVE StopInv'
  <2>1. pc' = pc /\ wg' = wg /\ stop' = stop /\ quit' = quit
    BY <1>1 DEF WriterSteps, TakeNext, WriteFails, WriterEnds, ClientReads, Writing, HangUp,
                server, handler
  <2> QED  BY <2>1 DEF StopInv
<1>2. CASE UNCHANGED vars
  BY <1>2 DEF StopInv, vars, server, handler
<1> QED
  BY <1>1, <1>2, StartKeeps, StopKeeps, LineKeeps, HandlerStepKeeps DEF Next

(* Once Stop has returned, no handler of any client reads or carries out a *)
(* line (Server.Stop, handleConnection).                                   *)
THEOREM StopIsFinal == Spec => []QuietAfterStop
<1>1. StopInv => QuietAfterStop
  BY DEF StopInv, QuietAfterStop, Resting
<1> QED  BY <1>1, InitStop, NextStop, PTL DEF Spec

-----------------------------------------------------------------------------
(* The parts of the type that are about the server, the hub, the handlers, *)
(* what they have to do, and what they write.                              *)
ServerTypes ==
    /\ start \in {"listen", "loop", "accept", "register", "add", "returned"}
    /\ stop \in {"idle", "listener", "connections", "closing", "waiting", "woken",
                 "returned", "panicked"}
    /\ quit \in BOOLEAN /\ listener \in {"nil", "open", "closed"}
    /\ accepted \in Client \cup {NoClient}
    /\ start \in {"register", "add"} => accepted \in Client
    /\ conns \subseteq Client /\ toClose \subseteq conns /\ wg \subseteq Client
    /\ stop # "closing" => toClose = {}

HubTypes == hub \in HubType /\ IsInjective(hub.patternSubs) /\ IsFiniteSet(hub.channels)

Places == {"none", "check", "read", "topics", "publish", "reply",
           "close", "closing", "unsubscribe", "delete", "leave", "done"}

HandlerTypes ==
    /\ pc \in [Client -> Places]
    /\ line \in [Client -> Nat] /\ req \in [Client -> Request]
    /\ mode \in [Client -> BOOLEAN] /\ subCount \in [Client -> Nat]
    /\ tx \in [Client -> [open : BOOLEAN, queued : Seq(Nat)]] /\ ran \in [Client -> Seq(Nat)]
    /\ link \in [Client -> {"none", "open", "closing", "closed"}]
    /\ writer \in [Client -> {"none", "select", "write", "ended"}]
    /\ menu \in Menus /\ gone \in [Client -> BOOLEAN]

(* What is left of a request, and of which. *)
WorkOf(c) ==
    /\ work[c] \in (IF pc[c] = "publish" THEN Seq(Delivery) ELSE ArgsOf(req[c].method))
    /\ pc[c] = "topics" => req[c].method \in Topics
    /\ \/ work[c] = << >> \/ pc[c] \in {"topics", "publish"}
       \/ pc[c] = "reply" /\ req[c].method \in Topics
WorkTypes == /\ work \in [Client -> Seq(Delivery) \cup Seq(Topic \cup {NotAString})]
             /\ \A c \in Client : WorkOf(c)

OutputOf(c) == /\ Len(out[c]) = (IF pc[c] = "reply" THEN 1 ELSE 0)
               /\ sent[c] \in Len(stream[c]) - Cap .. Len(stream[c])
OutputTypes ==
    /\ out \in [Client -> Seq(Answer \cup Ack)]
    /\ stream \in [Client -> Seq(Answer \cup Ack \cup Push)] /\ sent \in [Client -> Nat]
    /\ \A c \in Client : OutputOf(c)

(* A handler starts once its connection is open, and closes it before it   *)
(* leaves the hub.                                                         *)
LinkOf(c) == /\ link[c] = "none" => pc[c] = "none"
             /\ pc[c] = "closing" => link[c] \in {"closing", "closed"}
             /\ pc[c] \in {"unsubscribe", "delete", "leave", "done"} => link[c] = "closed"
LinkFollowsHandler ==
    /\ start \in {"register", "add"} => pc[accepted] = "none" /\ link[accepted] # "none"
    /\ \A c \in Client : LinkOf(c)

Typed == /\ ServerTypes /\ HubTypes /\ HandlerTypes /\ WorkTypes /\ OutputTypes
         /\ LinkFollowsHandler

(* A handler is in the hub between its first line and UnsubscribeAll only, *)
(* and knows how often; when it is, it is in subscriber mode.              *)
HubOf(c) ==
    /\ pc[c] \in {"none", "delete", "leave", "done"} => Subscriptions(c) = {}
    /\ pc[c] \notin {"delete", "leave", "done"} =>
          subCount[c] = Cardinality(Channels(c)) + Cardinality(Patterns(c))
    /\ mode[c] \/ Subscriptions(c) = {}
    /\ pc[c] \in {"topics", "publish", "reply"} /\ Subscribes(c) => mode[c]
HubFollowsMode == \A c \in Client : HubOf(c)

(* What is still to be sent is for subscribers. *)
SendsToSubscribers ==
    \A p \in Client : pc[p] = "publish" =>
        \A i \in DOMAIN work[p] : work[p][i].via \in Subscriptions(work[p][i].to)

IsLeave(x, t) == /\ x.kind = "ack" /\ x.topic = t
                 /\ x.action \in {"UNSUBSCRIBE", "PUNSUBSCRIBE"}
IsPush(x, t)  == x.kind = "push" /\ x.what.via = t

(* A message by way of t between two acknowledgements, or before them. *)
Clean(s, t) ==
    \A i, j \in DOMAIN s : i < j /\ IsLeave(s[i], t) /\ IsPush(s[j], t) =>
        \E k \in DOMAIN s : k > j /\ IsLeave(s[k], t)

StreamsClean ==
    \A c \in Client : link[c] \in {"none", "open"} =>
        \A t \in (Channel \cup Pattern) \ Subscriptions(c) : Clean(Stream(c), t)

(* What the answers tell: the lines that have been carried out, those that *)
(* are queued, and whether a transaction is open.                          *)
Pending(s, i) == s[i].says = "queued" /\ \A j \in i + 1 .. Len(s) : ~EndsTx(s[j])
RanTold(s)    == {s[i].n : i \in {j \in DOMAIN s : TookPlace(s, j)}}
QueuedTold(s) == {s[i].n : i \in {j \in DOMAIN s : Pending(s, j)}}
InTx(s) == \E i \in DOMAIN s : s[i].says = "multi" /\ \A j \in i + 1 .. Len(s) : ~EndsTx(s[j])

Telling(s, done, open, queued) ==
    /\ Range(done) = RanTold(s) /\ Range(queued) = QueuedTold(s)
    /\ open <=> InTx(s)

(* Numbers of lines, in order and none to come. *)
Numbers(s, last) == /\ \A i, j \in DOMAIN s : i < j => s[i] < s[j]
                    /\ \A i \in DOMAIN s : s[i] <= last

TellOf(c) ==
    /\ Numbers(ran[c] \o tx[c].queued, line[c])
    /\ tx[c].open \/ tx[c].queued = << >>
    /\ link[c] \in {"none", "open"} => Telling(Answers(c), ran[c], tx[c].open, tx[c].queued)
AnswersTell == \A c \in Client : TellOf(c)

-----------------------------------------------------------------------------
(* What Only keeps of a sequence.                                          *)
Kept(x, S) == IF x \in S THEN <<x>> ELSE << >>
Selects(after, s, S, X) ==
    /\ after \in [0 .. Len(s) -> X] /\ after[0] = << >>
    /\ \A n \in 1 .. Len(s) : after[n] = after[n - 1] \o Kept(s[n], S)
    /\ Only(s, S) = after[Len(s)]

LEMMA OnlySteps ==
  ASSUME NEW T, NEW S, NEW s \in Seq(T)
  PROVE  \E after : Selects(after, s, S, Seq(T \cap S))
<1> DEFINE X == Seq(T \cap S)
           Grow(u, x) == u \o Kept(x, S)
           F == [p \in X \X T |-> Grow(p[1], p[2])]
           R(a) == a = [n \in 0 .. Len(s) |-> IF n = 0 THEN << >> ELSE Grow(a[n - 1], s[n])]
           after == CHOOSE a : R(a)
<1>1. Len(s) \in Nat /\ \A n \in 1 .. Len(s) : s[n] \in T
  OBVIOUS
<1>2. F \in [X \X T -> X]
  <2>1. ASSUME NEW u \in X, NEW x \in T
        PROVE  Grow(u, x) \in X
    <3>1. CASE x \in S
      BY <3>1 DEF Kept
    <3>2. CASE x \notin S
      BY <3>2 DEF Kept
    <3> QED
      BY <3>1, <3>2
  <2> HIDE DEF X, Grow
  <2> QED
    BY <2>1
<1>3. << >> \in X
  OBVIOUS
<1>4. PICK a \in [0 .. Len(s) -> X] :
         a[0] = << >> /\ \A n \in 1 .. Len(s) : a[n] = F[<<a[n - 1], s[n]>>]
  <2> HIDE DEF F, X
  <2>1. \E a : IsRun(a, X, F, << >>, s)
    BY <1>2, <1>3, StepsExist
  <2> QED
    BY <2>1 DEF IsRun
<1>5. R(a)
  <2> HIDE DEF X, Grow
  <2>1. ASSUME NEW n \in 1 .. Len(s)
        PROVE  F[<<a[n - 1], s[n]>>] = Grow(a[n - 1], s[n])
    <3>1. n - 1 \in 0 .. Len(s)
      BY <1>1
    <3>2. a[n - 1] \in X /\ s[n] \in T
      BY <1>1, <3>1
    <3> QED
      BY <3>2
  <2> HIDE DEF F
  <2>2. ASSUME NEW n \in 0 .. Len(s)
        PROVE  a[n] = IF n = 0 THEN << >> ELSE Grow(a[n - 1], s[n])
    <3>1. CASE n = 0
      BY <1>4, <3>1
    <3>2. CASE n # 0
      <4>1. n \in 1 .. Len(s)
        BY <1>1, <3>2
      <4> QED
        BY <1>4, <2>1, <3>2, <4>1
    <3> QED
      BY <3>1, <3>2
  <2> QED
    BY <2>2
<1>6. R(after)
  <2> HIDE DEF R
  <2> QED
    BY <1>5
<1>7. /\ after[0] = << >>
      /\ \A n \in 1 .. Len(s) : n # 0 /\ n \in 0 .. Len(s)
      /\ \A n \in 1 .. Len(s) : after[n] = Grow(after[n - 1], s[n])
  <2> HIDE DEF after, Grow
  <2>1. \A n \in 1 .. Len(s) : n # 0 /\ n \in 0 .. Len(s)
    BY <1>1
  <2>2. \A n \in 0 .. Len(s) : after[n] = IF n = 0 THEN << >> ELSE Grow(after[n - 1], s[n])
    BY <1>6
  <2>3. 0 \in 0 .. Len(s)
    BY <1>1
  <2> QED
    BY <2>1, <2>2, <2>3
<1>8. Only(s, S) = after[Len(s)]
  BY DEF Only, Kept
<1>9. a = after
  <2> DEFINE Q == {n \in 0 .. Len(s) : a[n] = after[n]}
  <2>1. 0 \in Q
    <3> HIDE DEF after
    <3> QED
      BY <1>1, <1>4, <1>7
  <2>2. ASSUME NEW n \in 0 .. Len(s) - 1, n \in Q
        PROVE  n + 1 \in Q
    <3> HIDE DEF after, Grow, F, X
    <3>1. n + 1 \in 1 .. Len(s) /\ n + 1 \in 0 .. Len(s) /\ (n + 1) - 1 = n /\ n + 1 # 0
      BY <1>1
    <3>2. a[n + 1] = Grow(a[n], s[n + 1])
      BY <1>5, <3>1
    <3> QED
      BY <1>7, <2>2, <3>1, <3>2
  <2>3. 0 .. Len(s) \subseteq Q
    <3> HIDE DEF Q
    <3> QED
      BY <1>1, <2>1, <2>2, CountingUp
  <2> HIDE DEF after, Grow
  <2>4. after = [n \in 0 .. Len(s) |-> after[n]]
    BY <1>6
  <2> QED
    BY <1>4, <2>3, <2>4
<1>10. after \in [0 .. Len(s) -> X] /\ after[0] = << >>
  BY <1>4, <1>9
<1> HIDE DEF after
<1> QED
  BY <1>7, <1>8, <1>10 DEF Selects

LEMMA OnlyEmpty ==
  ASSUME NEW S
  PROVE  Only(<< >>, S) = << >>
<1>1. << >> \in Seq({})
  OBVIOUS
<1>2. PICK a : Selects(a, << >>, S, Seq({} \cap S))
  BY <1>1, OnlySteps
<1> QED
  BY <1>2 DEF Selects

LEMMA OnlyType ==
  ASSUME NEW T, NEW S, NEW s \in Seq(T)
  PROVE  Only(s, S) \in Seq(T \cap S)
<1>1. Len(s) \in 0 .. Len(s)
  OBVIOUS
<1>2. PICK a : Selects(a, s, S, Seq(T \cap S))
  BY OnlySteps
<1> QED
  BY <1>1, <1>2 DEF Selects

LEMMA OnlyAppend ==
  ASSUME NEW T, NEW S, NEW s \in Seq(T), NEW x \in T
  PROVE  Only(Append(s, x), S) = IF x \in S THEN Append(Only(s, S), x) ELSE Only(s, S)
<1> DEFINE r == Append(s, x)
<1>1. /\ Len(s) \in Nat /\ r \in Seq(T) /\ Len(r) = Len(s) + 1 /\ r[Len(s) + 1] = x
      /\ \A n \in 1 .. Len(s) : r[n] = s[n]
  OBVIOUS
<1> HIDE DEF r
<1>2. PICK a : Selects(a, s, S, Seq(T \cap S))
  BY OnlySteps
<1>3. PICK b : Selects(b, r, S, Seq(T \cap S))
  BY <1>1, OnlySteps
<1> DEFINE Q == {n \in 0 .. Len(s) : a[n] = b[n]}
<1>4. 0 \in Q
  BY <1>1, <1>2, <1>3 DEF Selects
<1>5. ASSUME NEW n \in 0 .. Len(s) - 1, n \in Q
      PROVE  n + 1 \in Q
  <2>1. n + 1 \in 1 .. Len(s) /\ n + 1 \in 0 .. Len(s) /\ (n + 1) - 1 = n /\ n + 1 \in 1 .. Len(r)
    BY <1>1
  <2>2. a[n + 1] = a[n] \o Kept(s[n + 1], S) /\ b[n + 1] = b[n] \o Kept(r[n + 1], S)
    BY <1>2, <1>3, <2>1 DEF Selects
  <2> QED
    BY <1>1, <1>5, <2>1, <2>2
<1>6. 0 .. Len(s) \subseteq Q
  <2> HIDE DEF Q
  <2> QED
    BY <1>1, <1>4, <1>5, CountingUp
<1>7. a[Len(s)] = b[Len(s)]
  BY <1>1, <1>6
<1>8. Len(r) \in 1 .. Len(r) /\ Len(r) - 1 = Len(s)
  BY <1>1
<1>9. Only(r, S) = Only(s, S) \o Kept(x, S)
  BY <1>1, <1>2, <1>3, <1>7, <1>8 DEF Selects
<1>10. Only(s, S) \in Seq(T \cap S)
  BY <1>1, <1>2 DEF Selects
<1>11. CASE x \in S
  BY <1>9, <1>10, <1>11 DEF Kept, r
<1>12. CASE x \notin S
  BY <1>9, <1>10, <1>12 DEF Kept, r
<1> QED
  BY <1>11, <1>12

LEMMA AppendIsConcat ==
  ASSUME NEW T, NEW s \in Seq(T), NEW x \in T
  PROVE  s \o <<x>> = Append(s, x)
OBVIOUS

LEMMA TailShifts ==
  ASSUME NEW T, NEW s \in Seq(T), s # << >>
  PROVE  \A i \in DOMAIN Tail(s) : i + 1 \in DOMAIN s /\ Tail(s)[i] = s[i + 1]
<1>1. DOMAIN s = 1 .. Len(s) /\ Len(s) \in Nat \ {0}
  OBVIOUS
<1>2. DOMAIN Tail(s) = 1 .. Len(s) - 1 /\ \A i \in 1 .. Len(s) - 1 : Tail(s)[i] = s[i + 1]
  OBVIOUS
<1> QED
  BY <1>1, <1>2

(* A sequence without repetitions, and its elements. *)
LEMMA RangeOfAppend ==
  ASSUME NEW T, NEW s \in Seq(T), NEW x \in T
  PROVE  /\ Range(Append(s, x)) = Range(s) \cup {x}
         /\ IsInjective(Append(s, x)) <=> IsInjective(s) /\ x \notin Range(s)
<1> DEFINE r == Append(s, x)
           n == Len(s) + 1
<1>1. /\ DOMAIN s = 1 .. Len(s) /\ DOMAIN r = 1 .. n /\ r[n] = x /\ n \in 1 .. n
      /\ \A i \in 1 .. Len(s) : r[i] = s[i] /\ i \in 1 .. n /\ i # n
      /\ \A i \in 1 .. n : i = n \/ i \in 1 .. Len(s)
  OBVIOUS
<1> HIDE DEF r, n
<1>2. Range(r) = Range(s) \cup {x}
  BY <1>1 DEF Range
<1>3. ASSUME IsInjective(r)
      PROVE  IsInjective(s) /\ x \notin Range(s)
  BY <1>1, <1>3 DEF IsInjective, Range
<1>4. ASSUME IsInjective(s), x \notin Range(s)
      PROVE  IsInjective(r)
  BY <1>1, <1>4 DEF IsInjective, Range
<1> QED
  BY <1>2, <1>3, <1>4 DEF r

LEMMA OnlyElements ==
  ASSUME NEW T, NEW S, NEW s \in Seq(T)
  PROVE  /\ Only(s, S) \in Seq(T \cap S)
         /\ Range(Only(s, S)) = Range(s) \cap S
         /\ IsInjective(s) => IsInjective(Only(s, S))
<1> DEFINE Good(u) == /\ Range(Only(u, S)) = Range(u) \cap S
                      /\ IsInjective(u) => IsInjective(Only(u, S))
           Y == {u \in Seq(T) : Good(u)}
<1>1. << >> \in Y
  <2>1. Range(<< >>) = {} /\ IsInjective(<< >>) /\ << >> \in Seq(T)
    BY DEF Range, IsInjective
  <2> QED
    BY <2>1, OnlyEmpty
<1>2. ASSUME NEW u \in Seq(T), NEW x \in T, u \in Y
      PROVE  Append(u, x) \in Y
  <2>1. Only(Append(u, x), S) = IF x \in S THEN Append(Only(u, S), x) ELSE Only(u, S)
    BY OnlyAppend
  <2>2. Only(u, S) \in Seq(T \cap S) /\ Append(u, x) \in Seq(T)
    BY OnlyType
  <2>3. /\ Range(Append(u, x)) = Range(u) \cup {x}
        /\ IsInjective(Append(u, x)) <=> IsInjective(u) /\ x \notin Range(u)
    BY RangeOfAppend
  <2>4. CASE x \in S
    <3> x \in T \cap S
      BY <2>4
    <3>1. /\ Range(Append(Only(u, S), x)) = Range(Only(u, S)) \cup {x}
          /\ IsInjective(Append(Only(u, S), x)) <=>
                 IsInjective(Only(u, S)) /\ x \notin Range(Only(u, S))
      BY <2>2, <2>4, RangeOfAppend
    <3>2. Range(Only(u, S)) = Range(u) \cap S /\ (IsInjective(u) => IsInjective(Only(u, S)))
      <4>1. Good(u)
        <5> HIDE DEF Good
        <5> QED
          BY <1>2
      <4> QED
        BY <4>1
    <3>3. Range(Append(u, x)) \cap S = (Range(u) \cap S) \cup {x}
      BY <2>3, <2>4
    <3>4. Only(Append(u, x), S) = Append(Only(u, S), x)
      BY <2>1, <2>4
    <3>5. Range(Only(Append(u, x), S)) = Range(Append(u, x)) \cap S
      BY <3>1, <3>2, <3>3, <3>4
    <3>6. IsInjective(Append(u, x)) => IsInjective(Only(Append(u, x), S))
      BY <2>3, <3>1, <3>2, <3>4
    <3> QED
      BY <2>2, <3>5, <3>6
  <2>5. CASE x \notin S
    BY <1>2, <2>1, <2>2, <2>3, <2>5
  <2> QED
    BY <2>4, <2>5
<1>3. Seq(T) \subseteq Y
  <2> HIDE DEF Y
  <2> QED
    BY <1>1, <1>2, BuiltByAppend
<1>4. Good(s)
  <2> HIDE DEF Good
  <2> QED
    BY <1>3
<1>5. Only(s, S) \in Seq(T \cap S)
  BY OnlyType
<1> QED
  BY <1>4, <1>5

LEMMA InjectiveLength ==
  ASSUME NEW T, NEW s \in Seq(T), IsInjective(s)
  PROVE  IsFiniteSet(Range(s)) /\ Cardinality(Range(s)) = Len(s)
<1>1. Len(s) \in Nat /\ DOMAIN s = 1 .. Len(s)
  OBVIOUS
<1>2. s \in Bijection(1 .. Len(s), Range(s))
  <2>1. s \in [1 .. Len(s) -> Range(s)]
    BY <1>1 DEF Range
  <2> QED
    BY <1>1, <2>1 DEF Bijection, Injection, Surjection, Range
<1> QED
  BY <1>1, <1>2, FS_CountingElements, FS_NatBijection DEF ExistsBijection

-----------------------------------------------------------------------------
(* The hub.                                                                *)
IsHub(h) == h \in HubType /\ IsInjective(h.patternSubs) /\ IsFiniteSet(h.channels)
ChannelsIn(h, c) == {t \in Channel : <<t, c>> \in h.channels}
PatternsIn(h, c) == {t \in Pattern : [pattern |-> t, sub |-> c] \in Range(h.patternSubs)}
SubsIn(h, c) == ChannelsIn(h, c) \cup PatternsIn(h, c)

(* From h to g nobody but c comes or goes. *)
Concerns(h, g, c) ==
    IsHub(g) /\ \A d \in Client \ {c} : /\ ChannelsIn(g, d) = ChannelsIn(h, d)
                                        /\ PatternsIn(g, d) = PatternsIn(h, d)

LEMMA SubscriptionsInHub ==
  ASSUME HubTypes, NEW c
  PROVE  /\ Channels(c) = ChannelsIn(hub, c) /\ Patterns(c) = PatternsIn(hub, c)
         /\ Subscriptions(c) = SubsIn(hub, c)
<1>1. hub.patternSubs \in Seq(Entry)
  BY DEF HubTypes, HubType
<1>2. \A e : Contains(hub.patternSubs, e) <=> e \in Range(hub.patternSubs)
  BY <1>1 DEF Contains, Range
<1> QED
  BY <1>2 DEF Channels, Patterns, Subscriptions, ChannelsIn, PatternsIn, SubsIn

LEMMA SameSize ==
  ASSUME NEW S, NEW T, IsFiniteSet(T), NEW f \in Bijection(S, T)
  PROVE  Cardinality(S) = Cardinality(T) /\ Cardinality(S) \in Nat /\ IsFiniteSet(S)
<1>1. f \in Injection(S, T) /\ f \in Surjection(S, T)
  BY DEF Bijection
<1> QED
  BY <1>1, FS_Injection, FS_CardinalityType

LEMMA SubscriptionsCounted ==
  ASSUME NEW h, IsHub(h), NEW c \in Client
  PROVE  /\ subCountForSub(h, c) = Cardinality(ChannelsIn(h, c)) + Cardinality(PatternsIn(h, c))
         /\ subCountForSub(h, c) \in Nat
         /\ subCountForSub(h, c) = 0 => SubsIn(h, c) = {}
<1>1. /\ h.channels \subseteq Channel \X Client /\ h.patternSubs \in Seq(Entry)
      /\ IsFiniteSet(h.channels) /\ IsInjective(h.patternSubs)
  BY DEF IsHub, HubType
<1>2. /\ Cardinality(ChannelsIn(h, c)) = Cardinality(ChannelsOf(h, c))
      /\ Cardinality(ChannelsIn(h, c)) \in Nat /\ IsFiniteSet(ChannelsIn(h, c))
  <2> DEFINE f == [t \in ChannelsIn(h, c) |-> <<t, c>>]
  <2>1. IsFiniteSet(ChannelsOf(h, c))
    BY <1>1, FS_Subset DEF ChannelsOf
  <2>2. f \in [ChannelsIn(h, c) -> ChannelsOf(h, c)]
    BY DEF ChannelsIn, ChannelsOf
  <2>3. \A t, u \in ChannelsIn(h, c) : f[t] = f[u] => t = u
    OBVIOUS
  <2>4. \A s \in ChannelsOf(h, c) : \E t \in ChannelsIn(h, c) : f[t] = s
    <3> TAKE s \in ChannelsOf(h, c)
    <3>1. s = <<s[1], c>> /\ s[1] \in ChannelsIn(h, c)
      BY <1>1 DEF ChannelsIn, ChannelsOf
    <3> QED
      BY <3>1
  <2>5. f \in Bijection(ChannelsIn(h, c), ChannelsOf(h, c))
    <3> HIDE DEF f
    <3> QED
      BY <2>2, <2>3, <2>4 DEF Bijection, Injection, Surjection, IsInjective
  <2> HIDE DEF f
  <2> QED
    BY <2>1, <2>5, SameSize
<1>3. /\ Cardinality(PatternsIn(h, c)) = Len(PatternsOf(h, c))
      /\ Cardinality(PatternsIn(h, c)) \in Nat /\ IsFiniteSet(PatternsIn(h, c))
  <2> DEFINE P == PatternsOf(h, c)
             f == [t \in PatternsIn(h, c) |-> [pattern |-> t, sub |-> c]]
  <2>1. P \in Seq(Entry \cap EntriesOf(c)) /\ Range(P) = Range(h.patternSubs) \cap EntriesOf(c) /\ IsInjective(P)
    BY <1>1, OnlyElements DEF PatternsOf
  <2> HIDE DEF P
  <2>2. IsFiniteSet(Range(P)) /\ Cardinality(Range(P)) = Len(P)
    BY <2>1, InjectiveLength
  <2>3. f \in [PatternsIn(h, c) -> Range(P)]
    BY <2>1 DEF PatternsIn, EntriesOf
  <2>4. \A t, u \in PatternsIn(h, c) : f[t] = f[u] => t = u
    OBVIOUS
  <2>5. \A e \in Range(P) : \E t \in PatternsIn(h, c) : f[t] = e
    <3> TAKE e \in Range(P)
    <3>1. e = [pattern |-> e.pattern, sub |-> c] /\ e.pattern \in PatternsIn(h, c)
      BY <2>1 DEF PatternsIn, EntriesOf
    <3> QED
      BY <3>1
  <2>6. f \in Bijection(PatternsIn(h, c), Range(P))
    <3> HIDE DEF f
    <3> QED
      BY <2>3, <2>4, <2>5 DEF Bijection, Injection, Surjection, IsInjective
  <2>7. /\ Cardinality(PatternsIn(h, c)) = Len(P)
        /\ Cardinality(PatternsIn(h, c)) \in Nat /\ IsFiniteSet(PatternsIn(h, c))
    <3> HIDE DEF f
    <3> QED
      BY <2>2, <2>6, SameSize
  <2> QED
    BY <2>7 DEF P
<1>4. subCountForSub(h, c) = Cardinality(ChannelsIn(h, c)) + Cardinality(PatternsIn(h, c))
  BY <1>2, <1>3 DEF subCountForSub
<1>5. ASSUME subCountForSub(h, c) = 0
      PROVE  SubsIn(h, c) = {}
  <2>1. Cardinality(ChannelsIn(h, c)) = 0 /\ Cardinality(PatternsIn(h, c)) = 0
    BY <1>2, <1>3, <1>4, <1>5
  <2>2. ChannelsIn(h, c) = {} /\ PatternsIn(h, c) = {}
    BY <1>2, <1>3, <2>1, FS_EmptySet
  <2> QED
    BY <2>2 DEF SubsIn
<1> QED
  BY <1>2, <1>3, <1>4, <1>5

LEMMA SubscribeConcerns ==
  ASSUME NEW h, IsHub(h), NEW c \in Client, NEW t \in Channel
  PROVE  /\ Concerns(h, Subscribe(h, c, t), c)
         /\ SubsIn(h, c) \subseteq SubsIn(Subscribe(h, c, t), c)
<1> DEFINE g == Subscribe(h, c, t)
<1>1. /\ h \in HubType /\ IsFiniteSet(h.channels) /\ g \in HubType
      /\ g.channels = h.channels \cup {<<t, c>>} /\ g.patternSubs = h.patternSubs
  BY DEF IsHub, HubType, Subscribe
<1>2. IsHub(g)
  <2>1. IsFiniteSet(g.channels)
    BY <1>1, FS_AddElement
  <2> QED
    BY <1>1, <2>1 DEF IsHub
<1> HIDE DEF g
<1> QED
  BY <1>1, <1>2 DEF g, Concerns, ChannelsIn, PatternsIn, SubsIn

LEMMA UnsubscribeConcerns ==
  ASSUME NEW h, IsHub(h), NEW c \in Client, NEW t
  PROVE  /\ Concerns(h, Unsubscribe(h, c, t), c)
         /\ SubsIn(h, c) \ {t} \subseteq SubsIn(Unsubscribe(h, c, t), c)
         /\ SubsIn(Unsubscribe(h, c, t), c) \subseteq SubsIn(h, c)
<1> DEFINE g == Unsubscribe(h, c, t)
<1>1. /\ h \in HubType /\ IsFiniteSet(h.channels) /\ g \in HubType
      /\ g.channels = h.channels \ {<<t, c>>} /\ g.patternSubs = h.patternSubs
  BY DEF IsHub, HubType, Unsubscribe
<1>2. IsHub(g)
  <2>1. IsFiniteSet(g.channels)
    BY <1>1, FS_Subset
  <2> QED
    BY <1>1, <2>1 DEF IsHub
<1> HIDE DEF g
<1> QED
  BY <1>1, <1>2 DEF g, Concerns, ChannelsIn, PatternsIn, SubsIn

LEMMA PSubscribeConcerns ==
  ASSUME NEW h, IsHub(h), NEW c \in Client, NEW t \in Pattern
  PROVE  /\ Concerns(h, PSubscribe(h, c, t), c)
         /\ SubsIn(h, c) \subseteq SubsIn(PSubscribe(h, c, t), c)
<1> DEFINE g == PSubscribe(h, c, t)
           e == [pattern |-> t, sub |-> c]
<1>1. /\ h \in HubType /\ h.patternSubs \in Seq(Entry) /\ IsInjective(h.patternSubs)
      /\ e \in Entry
  BY DEF IsHub, HubType, Entry
<1>2. Contains(h.patternSubs, e) <=> e \in Range(h.patternSubs)
  BY <1>1 DEF Contains, Range
<1>3. CASE e \in Range(h.patternSubs)
  <2>1. g = h
    BY <1>2, <1>3 DEF PSubscribe
  <2> QED
    BY <2>1 DEF Concerns
<1>4. CASE e \notin Range(h.patternSubs)
  <2>1. g = [h EXCEPT !.patternSubs = Append(h.patternSubs, e)]
    BY <1>2, <1>4 DEF PSubscribe
  <2>2. /\ Range(Append(h.patternSubs, e)) = Range(h.patternSubs) \cup {e}
        /\ IsInjective(Append(h.patternSubs, e))
    BY <1>1, <1>4, RangeOfAppend
  <2> DEFINE r == Append(h.patternSubs, e)
  <2>3. /\ g \in HubType /\ g.channels = h.channels /\ g.patternSubs = r
    <3>1. r \in Seq(Entry)
      BY <1>1
    <3> HIDE DEF r, e
    <3> QED
      BY <1>1, <2>1, <3>1 DEF HubType, r
  <2>4. IsHub(g)
    BY <2>2, <2>3 DEF IsHub
  <2> HIDE DEF g
  <2>5. \A d \in Client : ChannelsIn(g, d) = ChannelsIn(h, d)
    BY <2>3 DEF ChannelsIn
  <2>6. \A d \in Client : d # c => PatternsIn(g, d) = PatternsIn(h, d)
    BY <2>2, <2>3 DEF PatternsIn
  <2>7. PatternsIn(h, c) \subseteq PatternsIn(g, c)
    BY <2>2, <2>3 DEF PatternsIn
  <2> QED
    BY <2>4, <2>5, <2>6, <2>7 DEF g, Concerns, SubsIn
<1> QED
  BY <1>3, <1>4

(* Dropping entries that are all of c. *)
Drops(h, g, c, D) ==
    /\ g.patternSubs \in Seq(Entry) /\ IsInjective(g.patternSubs)
    /\ \A d \in Client : d # c => PatternsIn(g, d) = PatternsIn(h, d)
    /\ PatternsIn(g, c) = {t \in PatternsIn(h, c) : [pattern |-> t, sub |-> c] \notin D}

LEMMA DroppingConcerns ==
  ASSUME NEW h, IsHub(h), NEW c \in Client, NEW D \in SUBSET EntriesOf(c),
         NEW g, g.patternSubs = Only(h.patternSubs, Entry \ D)
  PROVE  Drops(h, g, c, D)
<1> DEFINE P == g.patternSubs
<1>1. h.patternSubs \in Seq(Entry) /\ IsInjective(h.patternSubs)
  BY DEF IsHub, HubType
<1>2. P \in Seq(Entry \cap (Entry \ D)) /\ Range(P) = Range(h.patternSubs) \cap (Entry \ D) /\ IsInjective(P)
  <2> DEFINE S == Entry \ D
  <2> HIDE DEF S
  <2>1. /\ Only(h.patternSubs, S) \in Seq(Entry \cap S) /\ IsInjective(Only(h.patternSubs, S))
        /\ Range(Only(h.patternSubs, S)) = Range(h.patternSubs) \cap S
    BY <1>1, OnlyElements
  <2>2. P = Only(h.patternSubs, S)
    BY DEF S
  <2> QED
    BY <2>1, <2>2 DEF S
<1> HIDE DEF P
<1>3. P \in Seq(Entry)
  BY <1>2
<1>4. \A d \in Client, t \in Pattern : [pattern |-> t, sub |-> d] \in Entry
                                      /\ (d # c => [pattern |-> t, sub |-> d] \notin D)
  BY DEF Entry, EntriesOf
<1>5. \A d \in Client : PatternsIn(g, d) = {t \in PatternsIn(h, d) : [pattern |-> t, sub |-> d] \notin D}
  BY <1>2, <1>4 DEF PatternsIn, P
<1> QED
  BY <1>2, <1>3, <1>4, <1>5 DEF P, PatternsIn, Drops

LEMMA PUnsubscribeConcerns ==
  ASSUME NEW h, IsHub(h), NEW c \in Client, NEW t
  PROVE  /\ Concerns(h, PUnsubscribe(h, c, t), c)
         /\ SubsIn(h, c) \ {t} \subseteq SubsIn(PUnsubscribe(h, c, t), c)
         /\ SubsIn(PUnsubscribe(h, c, t), c) \subseteq SubsIn(h, c)
<1> DEFINE g == PUnsubscribe(h, c, t)
           e == [pattern |-> t, sub |-> c]
           D == {e} \cap EntriesOf(c)
<1>1. h \in HubType /\ IsFiniteSet(h.channels)
  BY DEF IsHub
<1>2. Entry \ {e} = Entry \ D
  <2>1. e \in Entry => e \in EntriesOf(c)
    BY DEF Entry, EntriesOf
  <2> QED
    BY <2>1
<1>3. g.patternSubs = Only(h.patternSubs, Entry \ D) /\ g.channels = h.channels
      /\ g = [channels |-> h.channels, patternSubs |-> g.patternSubs]
  <2>1. g = [h EXCEPT !.patternSubs = Only(h.patternSubs, Entry \ {e})]
    BY <1>1 DEF PUnsubscribe, HubType
  <2>2. g = [h EXCEPT !.patternSubs = Only(h.patternSubs, Entry \ D)]
    BY <1>2, <2>1
  <2> HIDE DEF g, D
  <2> QED
    BY <1>1, <2>2 DEF HubType
<1> HIDE DEF g, D
<1>4. /\ g.patternSubs \in Seq(Entry) /\ IsInjective(g.patternSubs)
      /\ \A d \in Client : d # c => PatternsIn(g, d) = PatternsIn(h, d)
      /\ PatternsIn(g, c) = {u \in PatternsIn(h, c) : [pattern |-> u, sub |-> c] \notin D}
  <2>1. D \in SUBSET EntriesOf(c)
    BY DEF D
  <2>2. Drops(h, g, c, D)
    BY <1>3, <2>1, DroppingConcerns
  <2> QED
    BY <2>2 DEF Drops
<1>5. IsHub(g)
  BY <1>1, <1>3, <1>4 DEF IsHub, HubType
<1>6. \A d : ChannelsIn(g, d) = ChannelsIn(h, d)
  BY <1>3 DEF ChannelsIn
<1>7. \A u : [pattern |-> u, sub |-> c] \in D => u = t
  BY DEF D
<1> QED
  BY <1>4, <1>5, <1>6, <1>7 DEF g, Concerns, SubsIn

LEMMA LeavingConcerns ==
  ASSUME NEW h, IsHub(h), NEW c \in Client
  PROVE  Concerns(h, UnsubscribeAll(h, c), c) /\ SubsIn(UnsubscribeAll(h, c), c) = {}
<1> DEFINE g == UnsubscribeAll(h, c)
<1>1. h \in HubType /\ IsFiniteSet(h.channels)
  BY DEF IsHub
<1>2. /\ g.patternSubs = Only(h.patternSubs, Entry \ EntriesOf(c))
      /\ g.channels = {s \in h.channels : s[2] # c}
      /\ g = [channels |-> g.channels, patternSubs |-> g.patternSubs]
  BY DEF UnsubscribeAll
<1> HIDE DEF g
<1>3. /\ g.patternSubs \in Seq(Entry) /\ IsInjective(g.patternSubs)
      /\ \A d \in Client : d # c => PatternsIn(g, d) = PatternsIn(h, d)
      /\ PatternsIn(g, c) = {u \in PatternsIn(h, c) : [pattern |-> u, sub |-> c] \notin EntriesOf(c)}
  <2>1. EntriesOf(c) \in SUBSET EntriesOf(c)
    OBVIOUS
  <2>2. Drops(h, g, c, EntriesOf(c))
    BY <1>2, <2>1, DroppingConcerns
  <2> QED
    BY <2>2 DEF Drops
<1>4. IsFiniteSet(g.channels)
  BY <1>1, <1>2, FS_Subset
<1>5. IsHub(g)
  BY <1>1, <1>2, <1>3, <1>4 DEF IsHub, HubType
<1>6. \A d \in Client : d # c => ChannelsIn(g, d) = ChannelsIn(h, d)
  BY <1>2 DEF ChannelsIn
<1>7. ChannelsIn(g, c) = {}
  BY <1>2 DEF ChannelsIn
<1>8. PatternsIn(g, c) = {}
  BY <1>3 DEF PatternsIn, EntriesOf
<1> QED
  BY <1>3, <1>5, <1>6, <1>7, <1>8 DEF g, Concerns, SubsIn

(* Publish sends to subscribers, by way of what they have subscribed to. *)
LEMMA PublishSends ==
  ASSUME NEW h, IsHub(h), NEW ch \in Channel \cup {NoName}, NEW from \in Client, NEW n \in Nat,
         NEW sends \in Publish(h, ch, from, n)
  PROVE  /\ sends \in Seq(Delivery)
         /\ \A i \in DOMAIN sends : sends[i].via \in SubsIn(h, sends[i].to)
<1> DEFINE message(d) == [to |-> d, via |-> ch, channel |-> ch, from |-> from, n |-> n]
           pmessage(e) == [to |-> e.sub, via |-> e.pattern, channel |-> ch, from |-> from, n |-> n]
           M == {e \in Entry : <<e.pattern, ch>> \in Matches}
           S == {d \in Client : <<ch, d>> \in h.channels}
           entries == Only(h.patternSubs, M)
<1>1. /\ h.channels \subseteq Channel \X Client /\ h.patternSubs \in Seq(Entry)
      /\ IsFiniteSet(h.channels) /\ IsInjective(h.patternSubs)
  BY DEF IsHub, HubType
<1>2. IsFiniteSet(S)
  <2> DEFINE C == {s \in h.channels : s[1] = ch}
             f == [s \in C |-> s[2]]
  <2>1. IsFiniteSet(C)
    BY <1>1, FS_Subset
  <2>2. f \in [C -> S]
    <3>1. \A s \in C : s = <<ch, s[2]>> /\ s[2] \in Client
      BY <1>1
    <3> QED
      BY <3>1
  <2>3. \A d \in S : <<ch, d>> \in C /\ f[<<ch, d>>] = d
    OBVIOUS
  <2>4. f \in Surjection(C, S)
    <3> HIDE DEF f, C, S
    <3> QED
      BY <2>2, <2>3 DEF Surjection
  <2> HIDE DEF f, C, S
  <2> QED
    BY <2>1, <2>4, FS_Surjection
<1>3. PICK subs \in SetToSeqs(S) :
         sends = [i \in DOMAIN subs |-> message(subs[i])] \o [i \in DOMAIN entries |-> pmessage(entries[i])]
  BY DEF Publish
<1>4. subs \in Seq(S)
  <2>1. Cardinality(S) \in Nat
    BY <1>2, FS_CardinalityType
  <2> HIDE DEF S
  <2> QED
    BY <2>1 DEF SetToSeqs
<1>5. \A d \in S : message(d) \in Delivery /\ message(d).via \in SubsIn(h, message(d).to)
  BY <1>1 DEF Delivery, SubsIn, ChannelsIn
<1>6. entries \in Seq(Entry \cap M) /\ Range(entries) = Range(h.patternSubs) \cap M
  <2> HIDE DEF M
  <2> QED
    BY <1>1, OnlyElements
<1>7. \A e \in Range(entries) : pmessage(e) \in Delivery /\ pmessage(e).via \in SubsIn(h, pmessage(e).to)
  <2> TAKE e \in Range(entries)
  <2>1. e \in Entry /\ e \in Range(h.patternSubs) /\ <<e.pattern, ch>> \in Matches
    BY <1>6
  <2>2. ch \in Channel
    BY <2>1, MatchesAssumption
  <2>3. e = [pattern |-> e.pattern, sub |-> e.sub] /\ e.pattern \in Pattern /\ e.sub \in Client
    BY <2>1 DEF Entry
  <2>4. e.pattern \in SubsIn(h, e.sub)
    BY <2>1, <2>3 DEF SubsIn, PatternsIn
  <2> QED
    BY <2>2, <2>3, <2>4 DEF Delivery
<1>8. entries \in Seq(Range(entries))
  <2> HIDE DEF M
  <2> QED
    BY <1>6 DEF Range
<1> DEFINE u == [i \in DOMAIN subs |-> message(subs[i])]
           v == [i \in DOMAIN entries |-> pmessage(entries[i])]
<1>9. u \in Seq(Delivery) /\ \A i \in DOMAIN u : u[i].via \in SubsIn(h, u[i].to)
  <2> HIDE DEF S, message
  <2>1. DOMAIN u = DOMAIN subs /\ \A i \in DOMAIN subs : u[i] = message(subs[i]) /\ subs[i] \in S
    BY <1>4
  <2>2. \A i \in DOMAIN u : u[i] \in Delivery /\ u[i].via \in SubsIn(h, u[i].to)
    BY <1>5, <2>1
  <2>3. Len(subs) \in Nat /\ DOMAIN u = 1 .. Len(subs) /\ u = [i \in 1 .. Len(subs) |-> u[i]]
    BY <1>4, <2>1
  <2> HIDE DEF u
  <2> QED
    BY <2>2, <2>3
<1>10. v \in Seq(Delivery) /\ \A i \in DOMAIN v : v[i].via \in SubsIn(h, v[i].to)
  <2> HIDE DEF M, pmessage, entries
  <2>1. DOMAIN v = DOMAIN entries /\ \A i \in DOMAIN entries : v[i] = pmessage(entries[i])
                                                           /\ entries[i] \in Range(entries)
    BY DEF Range
  <2>2. \A i \in DOMAIN v : v[i] \in Delivery /\ v[i].via \in SubsIn(h, v[i].to)
    BY <1>7, <2>1
  <2>3. Len(entries) \in Nat /\ DOMAIN v = 1 .. Len(entries) /\ v = [i \in 1 .. Len(entries) |-> v[i]]
    BY <1>8, <2>1
  <2> HIDE DEF v
  <2> QED
    BY <2>2, <2>3
<1>11. sends = u \o v
  BY <1>3
<1> HIDE DEF u, v
<1>12. /\ Len(u) \in Nat /\ Len(v) \in Nat
       /\ DOMAIN u = 1 .. Len(u) /\ DOMAIN v = 1 .. Len(v) /\ DOMAIN sends = 1 .. Len(u) + Len(v)
       /\ \A i \in 1 .. Len(u) : sends[i] = u[i]
       /\ \A i \in Len(u) + 1 .. Len(u) + Len(v) : sends[i] = v[i - Len(u)] /\ i - Len(u) \in 1 .. Len(v)
  BY <1>9, <1>10, <1>11
<1>13. \A i \in DOMAIN sends : sends[i].via \in SubsIn(h, sends[i].to)
  <2> TAKE i \in DOMAIN sends
  <2>1. i \in 1 .. Len(u) \/ i \in Len(u) + 1 .. Len(u) + Len(v)
    BY <1>12
  <2> QED
    BY <1>9, <1>10, <1>12, <2>1
<1> QED
  BY <1>9, <1>10, <1>11, <1>13

-----------------------------------------------------------------------------
(* The types.                                                              *)
LEMMA InitTyped == Init => Typed
<1> SUFFICES ASSUME Init
             PROVE  Typed
  OBVIOUS
<1>1. ServerTypes
  BY DEF Init, ServerTypes
<1>2. HubTypes
  BY FS_EmptySet DEF Init, HubTypes, HubType, NewHub, IsInjective
<1>3. HandlerTypes
  <2>1. NotJSON \in Request
    <3>1. ArgsOf("not JSON") = {<< >>}
      BY DEF ArgsOf, Other
    <3>2. << >> \in Seq(Topic \cup {NotAString})
      OBVIOUS
    <3> QED
      BY <3>1, <3>2 DEF NotJSON, Request, Other
  <2>2. NoTx \in [open : BOOLEAN, queued : Seq(Nat)]
    BY DEF NoTx
  <2> QED
    BY <2>1, <2>2 DEF Init, HandlerTypes, Places
<1>4. WorkTypes
  <2>1. ArgsOf("not JSON") = {<< >>}
    BY DEF ArgsOf, Other
  <2>2. << >> \in Seq(Topic \cup {NotAString})
    OBVIOUS
  <2> QED
    BY <2>1, <2>2 DEF Init, WorkTypes, WorkOf, NotJSON
<1>5. OutputTypes
  BY ServerAssumption DEF Init, OutputTypes, OutputOf
<1>6. LinkFollowsHandler
  BY DEF Init, LinkFollowsHandler, LinkOf
<1> QED
  BY <1>1, <1>2, <1>3, <1>4, <1>5, <1>6 DEF Typed

(* The steps of c's handler within a connection. *)
Serve(c) == \/ CheckQuit(c) \/ ReadFails(c) \/ HandleLine(c)
            \/ SkipTopic(c) \/ TakeTopic(c) \/ TopicsEnd(c)
            \/ Send(c) \/ PublishEnds(c) \/ WriteResponse(c)

(* Those of its writer and of its client. *)
Write(c) == TakeNext(c) \/ WriteFails(c) \/ WriterEnds(c) \/ ClientReads(c)

LEMMA StepCases ==
  ASSUME Next
  PROVE  \/ StartSteps \/ CloseQuit \/ StopSteps
         \/ \E c \in Client : \/ Accept(c) \/ Serve(c) \/ Write(c) \/ HangUp(c)
                              \/ Close(c) \/ LeaveHub(c) \/ LeaveConns(c) \/ HandlerDone(c)
BY DEF Next, HandlerSteps, WriterSteps, Serve, Write

LEMMA LineChanges ==
  ASSUME NEW c, HandleLine(c)
  PROVE  UNCHANGED <<server, hub, link, output, menu, gone>>
<1>1. PICK r \in menu.clients[c].requests :
        /\ ReadLine(c, r)
        /\ \/ NoCommand(c, r) \/ PublishStarts(c, r) \/ TopicsStart(c, r)
           \/ InSubscriberMode(c, r)
           \/ Multi(c, r) \/ Exec(c, r) \/ Discard(c, r) \/ Command(c, r)
  BY DEF HandleLine
<1>2. UNCHANGED <<server, link, output, menu, gone>>
  BY <1>1 DEF ReadLine, HandlerOnly
<1>3. hub' = hub
  BY <1>1 DEF NoCommand, PublishStarts, TopicsStart, InSubscriberMode, Multi, Exec, Discard,
              Command, Refuse
<1> QED
  BY <1>2, <1>3

LEMMA ServeChanges ==
  ASSUME NEW c, Serve(c)
  PROVE  /\ UNCHANGED <<server, link, menu, gone, sent, writer>>
         /\ TakeTopic(c) \/ hub' = hub
         /\ Send(c) \/ WriteResponse(c) \/ stream' = stream
<1>1. CASE HandleLine(c)
  BY <1>1, LineChanges DEF output
<1>2. CASE CheckQuit(c) \/ ReadFails(c) \/ SkipTopic(c) \/ TakeTopic(c) \/ TopicsEnd(c) \/ PublishEnds(c)
  BY <1>2 DEF CheckQuit, ReadFails, SkipTopic, TakeTopic, TopicsEnd, PublishEnds, HandlerOnly, output
<1>3. CASE Send(c) \/ WriteResponse(c)
  BY <1>3 DEF Send, WriteResponse
<1> QED
  BY <1>1, <1>2, <1>3 DEF Serve

LEMMA ServerTyped ==
  ASSUME Typed, Next
  PROVE  ServerTypes'
<1> ServerTypes
  BY DEF Typed
<1>1. CASE StartSteps
  BY <1>1 DEF ServerTypes, StartSteps, Starting, Listen, ReadListener, AcceptFails, Register,
              AddHandler, ConnsFree
<1>2. CASE CloseQuit
  BY <1>2 DEF ServerTypes, CloseQuit, Stopping
<1>3. CASE StopSteps
  <2>1. CASE CloseListener
    BY <2>1 DEF ServerTypes, CloseListener, Stopping
  <2>2. CASE LockConns
    BY <2>2 DEF ServerTypes, LockConns, Stopping
  <2>3. CASE Wait
    BY <2>3 DEF ServerTypes, Wait, Stopping
  <2>4. ASSUME NEW c \in Client, CloseDone(c) \/ CloseSocket(c)
        PROVE  ServerTypes'
    BY <2>4 DEF ServerTypes, CloseDone, CloseSocket, Stopping
  <2> QED
    BY <1>3, <2>1, <2>2, <2>3, <2>4 DEF StopSteps
<1>4. ASSUME NEW c \in Client, Accept(c)
      PROVE  ServerTypes'
  BY <1>4 DEF ServerTypes, Accept, Starting
<1>5. ASSUME NEW c \in Client, LeaveConns(c) \/ HandlerDone(c)
      PROVE  ServerTypes'
  BY <1>5 DEF ServerTypes, LeaveConns, HandlerDone, Ending, ConnsFree
<1>6. ASSUME NEW c \in Client, Serve(c) \/ Write(c) \/ HangUp(c) \/ Close(c) \/ LeaveHub(c)
      PROVE  ServerTypes'
  <2>1. UNCHANGED server
    BY <1>6, ServeChanges DEF Write, TakeNext, WriteFails, WriterEnds, ClientReads, Writing, HangUp,
                              Close, LeaveHub, Ending, server
  <2> QED
    BY <2>1 DEF ServerTypes, server
<1> QED
  BY <1>1, <1>2, <1>3, <1>4, <1>5, <1>6, StepCases

(* What a handler makes of the hub. *)
LEMMA TopicTypes ==
  ASSUME Typed, NEW c \in Client, TakeTopic(c)
  PROVE  /\ req[c].method \in Topics /\ work[c] \in Seq(Topic \cup {NotAString}) /\ work[c] # << >>
         /\ work[c][1] \in Topic
         /\ Tail(work[c]) \in ArgsOf(req[c].method)
         /\ req[c].method = "SUBSCRIBE" => work[c][1] \in Channel
         /\ req[c].method = "PSUBSCRIBE" => work[c][1] \in Pattern
<1>1. /\ pc[c] = "topics" /\ work[c] # << >> /\ work[c][1] # NotAString
      /\ Subscribes(c) => work[c][1] # NoName
  BY DEF TakeTopic
<1>2. req[c].method \in Topics /\ work[c] \in ArgsOf(req[c].method)
  BY <1>1 DEF Typed, WorkTypes, WorkOf
<1>3. CASE req[c].method \in {"SUBSCRIBE", "UNSUBSCRIBE"}
  <2>1. ArgsOf(req[c].method) = Seq(Channel \cup {NoName, NotAString})
    BY <1>3 DEF ArgsOf, Other
  <2>2. work[c][1] \in Channel \cup {NoName} /\ Tail(work[c]) \in ArgsOf(req[c].method)
    BY <1>1, <1>2, <2>1
  <2>3. work[c] \in Seq(Topic \cup {NotAString})
    BY <1>2, <2>1 DEF Topic
  <2> QED
    BY <1>1, <1>2, <1>3, <2>2, <2>3 DEF Topic, Subscribes
<1>4. CASE req[c].method \in {"PSUBSCRIBE", "PUNSUBSCRIBE"}
  <2>1. ArgsOf(req[c].method) = Seq(Pattern \cup {NoName, NotAString})
    BY <1>4 DEF ArgsOf, Other
  <2>2. work[c][1] \in Pattern \cup {NoName} /\ Tail(work[c]) \in ArgsOf(req[c].method)
    BY <1>1, <1>2, <2>1
  <2>3. work[c] \in Seq(Topic \cup {NotAString})
    BY <1>2, <2>1 DEF Topic
  <2> QED
    BY <1>1, <1>2, <1>4, <2>2, <2>3 DEF Topic, Subscribes
<1> QED
  BY <1>2, <1>3, <1>4 DEF Topics

LEMMA TopicConcerns ==
  ASSUME Typed, NEW c \in Client, TakeTopic(c)
  PROVE  /\ Concerns(hub, hub', c)
         /\ Subscribes(c) => SubsIn(hub, c) \subseteq SubsIn(hub', c)
         /\ ~Subscribes(c) => /\ SubsIn(hub, c) \ {work[c][1]} \subseteq SubsIn(hub', c)
                              /\ SubsIn(hub', c) \subseteq SubsIn(hub, c)
<1> DEFINE t == work[c][1]
<1>1. IsHub(hub) /\ hub' = Change(c, t)
  BY DEF Typed, HubTypes, IsHub, TakeTopic
<1>2. CASE req[c].method = "SUBSCRIBE"
  <2>1. hub' = Subscribe(hub, c, t) /\ Subscribes(c) /\ t \in Channel
    BY <1>1, <1>2, TopicTypes DEF Change, Subscribes
  <2> QED
    BY <1>1, <2>1, SubscribeConcerns
<1>3. CASE req[c].method = "UNSUBSCRIBE"
  <2>1. hub' = Unsubscribe(hub, c, t) /\ ~Subscribes(c)
    BY <1>1, <1>3 DEF Change, Subscribes
  <2> QED
    BY <1>1, <2>1, UnsubscribeConcerns
<1>4. CASE req[c].method = "PSUBSCRIBE"
  <2>1. hub' = PSubscribe(hub, c, t) /\ Subscribes(c) /\ t \in Pattern
    BY <1>1, <1>4, TopicTypes DEF Change, Subscribes
  <2> QED
    BY <1>1, <2>1, PSubscribeConcerns
<1>5. CASE req[c].method = "PUNSUBSCRIBE"
  <2>1. hub' = PUnsubscribe(hub, c, t) /\ ~Subscribes(c)
    BY <1>1, <1>5 DEF Change, Subscribes
  <2> QED
    BY <1>1, <2>1, PUnsubscribeConcerns
<1> QED
  BY <1>2, <1>3, <1>4, <1>5, TopicTypes DEF Topics

LEMMA HubChanges ==
  ASSUME Next
  PROVE  \/ hub' = hub
         \/ \E c \in Client : TakeTopic(c) \/ LeaveHub(c)
<1>1. CASE StartSteps \/ CloseQuit \/ StopSteps
  BY <1>1 DEF StartSteps, Starting, Listen, ReadListener, AcceptFails, Register, AddHandler,
              CloseQuit, StopSteps, CloseListener, LockConns, CloseDone, CloseSocket, Wait, Stopping
<1>2. ASSUME NEW c \in Client, Accept(c) \/ Write(c) \/ HangUp(c) \/ Close(c) \/ LeaveConns(c) \/ HandlerDone(c)
      PROVE  hub' = hub
  BY <1>2 DEF Accept, Starting, Write, TakeNext, WriteFails, WriterEnds, ClientReads, Writing, HangUp,
              Close, LeaveConns, HandlerDone
<1> QED
  BY <1>1, <1>2, StepCases, ServeChanges

LEMMA HubTyped ==
  ASSUME Typed, Next
  PROVE  HubTypes'
<1>1. IsHub(hub)
  BY DEF Typed, HubTypes, IsHub
<1>2. ASSUME NEW c \in Client, LeaveHub(c)
      PROVE  IsHub(hub')
  BY <1>1, <1>2, LeavingConcerns DEF LeaveHub, Concerns
<1>3. ASSUME NEW c \in Client, TakeTopic(c)
      PROVE  IsHub(hub')
  BY <1>3, TopicConcerns DEF Concerns
<1>4. IsHub(hub')
  BY <1>1, <1>2, <1>3, HubChanges
<1> QED
  BY <1>4 DEF IsHub, HubTypes

LEMMA RequestTypes ==
  ASSUME HandlerTypes, NEW c \in Client, NEW r \in menu.clients[c].requests
  PROVE  r \in Request /\ r.args \in ArgsOf(r.method) /\ r.method \in Topics \cup Other \cup {"PUBLISH"}
<1>1. r \in Request
  BY ServerAssumption DEF HandlerTypes
<1> QED
  BY <1>1 DEF Request

(* A line: where the handler goes, and what becomes of the transaction. *)
LEMMA LineTypes ==
  ASSUME HandlerTypes, NEW c \in Client, NEW r \in menu.clients[c].requests, ReadLine(c, r),
         \/ NoCommand(c, r) \/ PublishStarts(c, r) \/ TopicsStart(c, r)
         \/ InSubscriberMode(c, r)
         \/ Multi(c, r) \/ Exec(c, r) \/ Discard(c, r) \/ Command(c, r)
  PROVE  /\ \E to \in {"reply", "publish", "topics"} : pc' = [pc EXCEPT ![c] = to]
         /\ tx' \in [Client -> [open : BOOLEAN, queued : Seq(Nat)]] /\ ran' \in [Client -> Seq(Nat)]
         /\ mode' \in [Client -> BOOLEAN] /\ subCount' = subCount
<1>1. line[c] + 1 \in Nat /\ tx[c].queued \in Seq(Nat) /\ ran[c] \in Seq(Nat) /\ tx[c].open \in BOOLEAN
  BY DEF HandlerTypes
<1>2. CASE NoCommand(c, r) \/ InSubscriberMode(c, r) \/ PublishStarts(c, r)
  <2>1. tx' = tx /\ ran' = ran /\ mode' = mode /\ subCount' = subCount
    BY <1>2 DEF NoCommand, InSubscriberMode, PublishStarts, Refuse
  <2>2. \E to \in {"reply", "publish", "topics"} : pc' = [pc EXCEPT ![c] = to]
    BY <1>2 DEF NoCommand, InSubscriberMode, PublishStarts, Refuse, Says
  <2> QED
    BY <2>1, <2>2 DEF HandlerTypes
<1>3. CASE TopicsStart(c, r)
  <2>1. mode' \in [Client -> BOOLEAN]
    BY <1>3 DEF TopicsStart, HandlerTypes
  <2> QED
    BY <1>3, <2>1 DEF TopicsStart, HandlerTypes
<1>4. CASE Multi(c, r)
  <2>1. ran' = ran /\ mode' = mode /\ subCount' = subCount /\ pc' = [pc EXCEPT ![c] = "reply"]
    BY <1>4 DEF Multi, Refuse, Says
  <2>2. tx' = tx \/ tx' = [tx EXCEPT ![c] = [open |-> TRUE, queued |-> << >>]]
    BY <1>4 DEF Multi, Refuse
  <2>3. tx' \in [Client -> [open : BOOLEAN, queued : Seq(Nat)]]
    <3>1. [open |-> TRUE, queued |-> << >>] \in [open : BOOLEAN, queued : Seq(Nat)]
      OBVIOUS
    <3> QED
      BY <2>2, <3>1 DEF HandlerTypes
  <2> QED
    BY <2>1, <2>3 DEF HandlerTypes
<1>5. CASE Exec(c, r) \/ Discard(c, r)
  <2>1. mode' = mode /\ subCount' = subCount /\ pc' = [pc EXCEPT ![c] = "reply"]
    BY <1>5 DEF Exec, Discard, Refuse, Says
  <2>2. tx' = tx \/ tx' = [tx EXCEPT ![c] = NoTx]
    BY <1>5 DEF Exec, Discard, Refuse
  <2>3. ran' = ran \/ ran' = [ran EXCEPT ![c] = ran[c] \o tx[c].queued]
    BY <1>5 DEF Exec, Discard, Refuse
  <2>4. tx' \in [Client -> [open : BOOLEAN, queued : Seq(Nat)]]
    <3>1. NoTx \in [open : BOOLEAN, queued : Seq(Nat)]
      BY DEF NoTx
    <3> QED
      BY <2>2, <3>1 DEF HandlerTypes
  <2>5. ran' \in [Client -> Seq(Nat)]
    <3>1. ran[c] \o tx[c].queued \in Seq(Nat)
      BY <1>1
    <3> QED
      BY <2>3, <3>1 DEF HandlerTypes
  <2> QED
    BY <2>1, <2>4, <2>5 DEF HandlerTypes
<1>6. CASE Command(c, r)
  <2>1. mode' = mode /\ subCount' = subCount /\ pc' = [pc EXCEPT ![c] = "reply"]
    BY <1>6 DEF Command, Says
  <2>2. tx' = tx \/ tx' = [tx EXCEPT ![c].queued = Append(@, line[c] + 1)]
    BY <1>6 DEF Command
  <2>3. ran' = ran \/ ran' = [ran EXCEPT ![c] = Append(@, line[c] + 1)]
    BY <1>6 DEF Command
  <2>4. tx' \in [Client -> [open : BOOLEAN, queued : Seq(Nat)]]
    <3> DEFINE rec == [tx[c] EXCEPT !.queued = Append(tx[c].queued, line[c] + 1)]
    <3>1. Append(tx[c].queued, line[c] + 1) \in Seq(Nat) /\ tx[c] \in [open : BOOLEAN, queued : Seq(Nat)]
      BY <1>1 DEF HandlerTypes
    <3>2. rec \in [open : BOOLEAN, queued : Seq(Nat)]
      BY <3>1
    <3>3. tx' = tx \/ tx' = [tx EXCEPT ![c] = rec]
      BY <2>2
    <3> HIDE DEF rec
    <3> QED
      BY <3>2, <3>3 DEF HandlerTypes
  <2>5. ran' \in [Client -> Seq(Nat)]
    <3>1. Append(ran[c], line[c] + 1) \in Seq(Nat)
      BY <1>1
    <3> QED
      BY <2>3, <3>1 DEF HandlerTypes
  <2> QED
    BY <2>1, <2>4, <2>5 DEF HandlerTypes
<1> QED
  BY <1>2, <1>3, <1>4, <1>5, <1>6

LEMMA HandlerTyped ==
  ASSUME Typed, Next
  PROVE  HandlerTypes'
<1> HandlerTypes /\ ServerTypes
  BY DEF Typed
<1>1. CASE StartSteps \/ \E c \in Client : Accept(c)
  <2>1. CASE AddHandler \/ Register
    <3>1. accepted \in Client
      BY <2>1 DEF ServerTypes, AddHandler, Register
    <3> QED
      BY <2>1, <3>1 DEF HandlerTypes, Places, AddHandler, Register, Starting
  <2>2. CASE Listen \/ ReadListener \/ AcceptFails \/ \E c \in Client : Accept(c)
    BY <2>2 DEF HandlerTypes, Listen, ReadListener, AcceptFails, Accept, Starting
  <2> QED
    BY <1>1, <2>1, <2>2 DEF StartSteps
<1>2. CASE StopSteps \/ CloseQuit
  <2>1. UNCHANGED <<handler, output, menu, gone>>
    BY <1>2 DEF StopSteps, CloseQuit, CloseListener, LockConns, CloseDone, CloseSocket, Wait, Stopping
  <2>2. link' \in [Client -> {"none", "open", "closing", "closed"}]
    BY <1>2 DEF HandlerTypes, StopSteps, CloseQuit, CloseListener, LockConns, CloseDone, CloseSocket, Wait
  <2> QED
    BY <2>1, <2>2 DEF HandlerTypes, handler, output
<1>3. ASSUME NEW c \in Client, Write(c) \/ HangUp(c)
      PROVE  HandlerTypes'
  <2>1. UNCHANGED <<handler, link, menu>>
    BY <1>3 DEF Write, TakeNext, WriteFails, WriterEnds, ClientReads, Writing, HangUp
  <2>2. /\ writer' \in [Client -> {"none", "select", "write", "ended"}]
        /\ gone' \in [Client -> BOOLEAN]
    BY <1>3 DEF HandlerTypes, Write, TakeNext, WriteFails, WriterEnds, ClientReads, Writing, HangUp, output
  <2> QED
    BY <2>1, <2>2 DEF HandlerTypes, handler
<1>4. ASSUME NEW c \in Client, Close(c) \/ LeaveHub(c) \/ LeaveConns(c) \/ HandlerDone(c)
      PROVE  HandlerTypes'
  <2>1. /\ UNCHANGED <<line, req, mode, subCount, tx, ran, writer, menu, gone>>
        /\ \E to \in {"closing", "unsubscribe", "delete", "leave", "done"} : pc' = [pc EXCEPT ![c] = to]
    BY <1>4 DEF Close, LeaveHub, LeaveConns, HandlerDone, Ending, output
  <2>2. link' \in [Client -> {"none", "open", "closing", "closed"}]
    BY <1>4 DEF Close, LeaveHub, LeaveConns, HandlerDone, HandlerTypes
  <2>3. pc' \in [Client -> Places]
    BY <2>1 DEF HandlerTypes, Places
  <2> QED
    BY <2>1, <2>2, <2>3 DEF HandlerTypes
<1>5. ASSUME NEW c \in Client, HandleLine(c)
      PROVE  HandlerTypes'
  <2>1. PICK r \in menu.clients[c].requests :
          /\ ReadLine(c, r)
          /\ \/ NoCommand(c, r) \/ PublishStarts(c, r) \/ TopicsStart(c, r)
             \/ InSubscriberMode(c, r)
             \/ Multi(c, r) \/ Exec(c, r) \/ Discard(c, r) \/ Command(c, r)
    BY <1>5 DEF HandleLine
  <2>2. r \in Request
    BY RequestTypes
  <2>3. /\ \E to \in {"reply", "publish", "topics"} : pc' = [pc EXCEPT ![c] = to]
        /\ tx' \in [Client -> [open : BOOLEAN, queued : Seq(Nat)]] /\ ran' \in [Client -> Seq(Nat)]
        /\ mode' \in [Client -> BOOLEAN] /\ subCount' = subCount
    BY <2>1, LineTypes
  <2>4. UNCHANGED <<link, writer, menu, gone>>
    BY <1>5, LineChanges DEF output
  <2>5. line' \in [Client -> Nat] /\ req' \in [Client -> Request]
    BY <2>1, <2>2 DEF ReadLine, HandlerTypes
  <2>6. pc' \in [Client -> Places]
    BY <2>3 DEF HandlerTypes, Places
  <2> QED
    BY <2>3, <2>4, <2>5, <2>6 DEF HandlerTypes
<1>6. ASSUME NEW c \in Client, Serve(c), ~HandleLine(c)
      PROVE  HandlerTypes'
  <2>1. UNCHANGED <<line, req, tx, ran>>
    BY <1>6 DEF Serve, CheckQuit, ReadFails, SkipTopic, TakeTopic, TopicsEnd, Send, PublishEnds, WriteResponse
  <2>2. pc' = pc \/ \E to \in {"check", "close", "read", "reply", "topics"} : pc' = [pc EXCEPT ![c] = to]
    BY <1>6 DEF Serve, CheckQuit, ReadFails, SkipTopic, TakeTopic, TopicsEnd, Send, PublishEnds, WriteResponse
  <2>5. pc' \in [Client -> Places]
    BY <2>2 DEF HandlerTypes, Places
  <2>3. CASE TakeTopic(c)
    <3>1. IsHub(hub')
      BY <2>3, TopicConcerns DEF Concerns
    <3>2. subCount' = [subCount EXCEPT ![c] = subCountForSub(hub', c)] /\ mode' = mode
      BY <2>3 DEF TakeTopic
    <3>3. subCountForSub(hub', c) \in Nat
      BY <3>1, SubscriptionsCounted
    <3> QED
      BY <1>6, <2>1, <2>5, <3>2, <3>3, ServeChanges DEF HandlerTypes
  <2>4. CASE ~TakeTopic(c)
    <3>1. subCount' = subCount
      BY <1>6, <2>4 DEF Serve, CheckQuit, ReadFails, SkipTopic, TopicsEnd, Send, PublishEnds, WriteResponse
    <3>2. mode' \in [Client -> BOOLEAN]
      BY <1>6, <2>4 DEF Serve, CheckQuit, ReadFails, SkipTopic, TopicsEnd, Send, PublishEnds, WriteResponse,
                        HandlerTypes
    <3> QED
      BY <1>6, <2>1, <2>5, <3>1, <3>2, ServeChanges DEF HandlerTypes
  <2> QED
    BY <2>3, <2>4
<1> QED
  BY <1>1, <1>2, <1>3, <1>4, <1>5, <1>6, StepCases

LEMMA ArgsAreTopics ==
  ASSUME NEW r \in Request
  PROVE  /\ ArgsOf(r.method) \subseteq Seq(Topic \cup {NotAString})
         /\ << >> \in ArgsOf(r.method)
<1>1. r.method \in Topics \cup Other \cup {"PUBLISH"}
  BY DEF Request
<1>2. CASE r.method \in {"SUBSCRIBE", "UNSUBSCRIBE", "PUBLISH"}
  <2>1. ArgsOf(r.method) = Seq(Channel \cup {NoName, NotAString})
    BY <1>2 DEF ArgsOf, Other
  <2> QED
    BY <2>1 DEF Topic
<1>3. CASE r.method \in {"PSUBSCRIBE", "PUNSUBSCRIBE"}
  <2>1. ArgsOf(r.method) = Seq(Pattern \cup {NoName, NotAString})
    BY <1>3 DEF ArgsOf, Other
  <2> QED
    BY <2>1 DEF Topic
<1>4. CASE r.method \in Other
  <2>1. ArgsOf(r.method) = {<< >>}
    BY <1>4 DEF ArgsOf, Other
  <2> QED
    BY <2>1
<1> QED
  BY <1>1, <1>2, <1>3, <1>4 DEF Topics

LEMMA TailsAreArgs ==
  ASSUME NEW r \in Request, NEW s \in ArgsOf(r.method), s # << >>
  PROVE  Tail(s) \in ArgsOf(r.method)
<1>1. r.method \in Topics \cup Other \cup {"PUBLISH"}
  BY DEF Request
<1>2. CASE r.method \in {"SUBSCRIBE", "UNSUBSCRIBE", "PUBLISH"}
  <2>1. ArgsOf(r.method) = Seq(Channel \cup {NoName, NotAString})
    BY <1>2 DEF ArgsOf, Other
  <2> QED
    BY <2>1
<1>3. CASE r.method \in {"PSUBSCRIBE", "PUNSUBSCRIBE"}
  <2>1. ArgsOf(r.method) = Seq(Pattern \cup {NoName, NotAString})
    BY <1>3 DEF ArgsOf, Other
  <2> QED
    BY <2>1
<1>4. CASE r.method \in Other
  BY <1>4 DEF ArgsOf, Other
<1> QED
  BY <1>1, <1>2, <1>3, <1>4 DEF Topics

LEMMA WorkKept ==
  ASSUME Typed, HandlerTypes', NEW c \in Client,
         \A d \in Client \ {c} : pc'[d] = pc[d] /\ req'[d] = req[d] /\ work'[d] = work[d],
         work' = [d \in Client |-> work'[d]],
         WorkOf(c)'
  PROVE  WorkTypes'
<1>1. \A d \in Client : WorkOf(d)'
  BY DEF Typed, WorkTypes, WorkOf
<1>2. \A d \in Client : req'[d] \in Request
  BY DEF HandlerTypes
<1>3. \A d \in Client : work'[d] \in Seq(Delivery) \cup Seq(Topic \cup {NotAString})
  BY <1>1, <1>2, ArgsAreTopics DEF WorkOf
<1> QED
  BY <1>1, <1>3 DEF WorkTypes

LEMMA LineWork ==
  ASSUME Typed, HandlerTypes', NEW c \in Client, NEW r \in menu.clients[c].requests, ReadLine(c, r),
         \/ NoCommand(c, r) \/ PublishStarts(c, r) \/ TopicsStart(c, r)
         \/ InSubscriberMode(c, r)
         \/ Multi(c, r) \/ Exec(c, r) \/ Discard(c, r) \/ Command(c, r)
  PROVE  WorkTypes'
<1>1. r \in Request /\ r.args \in ArgsOf(r.method)
  BY RequestTypes DEF Typed
<1>2. /\ pc[c] = "read" /\ req' = [req EXCEPT ![c] = r] /\ WorkOf(c)
      /\ pc \in [Client -> Places] /\ req \in [Client -> Request] /\ DOMAIN work = Client
      /\ line[c] + 1 \in Nat
  BY DEF ReadLine, Typed, HandlerTypes, WorkTypes
<1>3. work[c] = << >> /\ req'[c] = r
  BY <1>2 DEF WorkOf
<1>4. << >> \in ArgsOf(r.method)
  BY <1>1, ArgsAreTopics
<1>5. CASE NoCommand(c, r) \/ InSubscriberMode(c, r) \/ Multi(c, r) \/ Exec(c, r) \/ Discard(c, r) \/ Command(c, r)
  <2>1. work' = work /\ pc' = [pc EXCEPT ![c] = "reply"]
    BY <1>5 DEF NoCommand, InSubscriberMode, Multi, Exec, Discard, Command, Refuse, Says
  <2>2. WorkOf(c)'
    BY <1>2, <1>3, <1>4, <2>1 DEF WorkOf
  <2> QED
    BY <1>2, <2>1, <2>2, WorkKept DEF Typed, WorkTypes
<1>6. CASE TopicsStart(c, r)
  <2>1. work' = [work EXCEPT ![c] = r.args] /\ pc' = [pc EXCEPT ![c] = "topics"] /\ r.method \in Topics
    BY <1>6 DEF TopicsStart
  <2>2. WorkOf(c)'
    BY <1>1, <1>2, <1>3, <2>1 DEF WorkOf
  <2> QED
    BY <1>2, <2>1, <2>2, WorkKept DEF Typed, WorkTypes
<1>7. CASE PublishStarts(c, r) /\ Refuse(c)
  <2>1. work' = work /\ pc' = [pc EXCEPT ![c] = "reply"]
    BY <1>7 DEF Refuse, Says
  <2>2. WorkOf(c)'
    BY <1>2, <1>3, <1>4, <2>1 DEF WorkOf
  <2> QED
    BY <1>2, <2>1, <2>2, WorkKept DEF Typed, WorkTypes
<1>8. CASE PublishStarts(c, r) /\ ~Refuse(c)
  <2>1. PICK sends \in Publish(hub, r.args[1], c, line[c] + 1) :
           work' = [work EXCEPT ![c] = sends]
    BY <1>8 DEF PublishStarts
  <2>2. r.method = "PUBLISH" /\ pc' = [pc EXCEPT ![c] = "publish"] /\ NamesFirst(r)
    BY <1>8 DEF PublishStarts
  <2>3. sends \in Seq(Delivery)
    <3>1. r.args \in Seq(Channel \cup {NoName, NotAString})
      BY <1>1, <2>2 DEF ArgsOf, Other
    <3>2. r.args[1] \in Channel \cup {NoName}
      BY <2>2, <3>1 DEF NamesFirst
    <3>3. IsHub(hub)
      BY DEF Typed, HubTypes, IsHub
    <3> QED
      BY <1>2, <3>2, <3>3, PublishSends
  <2>4. WorkOf(c)'
    BY <1>2, <2>1, <2>2, <2>3 DEF WorkOf
  <2> QED
    BY <1>2, <2>1, <2>2, <2>4, WorkKept DEF Typed, WorkTypes
<1> QED
  BY <1>5, <1>6, <1>7, <1>8

LEMMA WorkTyped ==
  ASSUME Typed, Next
  PROVE  WorkTypes'
<1>1. HandlerTypes' /\ HandlerTypes /\ WorkTypes
  BY HandlerTyped DEF Typed
<1>2. CASE StopSteps \/ CloseQuit \/ \E c \in Client : Write(c) \/ HangUp(c) \/ Accept(c)
  <2>1. UNCHANGED <<pc, req, work>>
    BY <1>2 DEF StopSteps, CloseQuit, CloseListener, LockConns, CloseDone, CloseSocket, Wait, Stopping,
                Write, TakeNext, WriteFails, WriterEnds, ClientReads, Writing, HangUp, Accept, Starting,
                handler
  <2> QED
    BY <1>1, <2>1 DEF WorkTypes, WorkOf
<1>3. CASE StartSteps /\ ~AddHandler
  <2>1. UNCHANGED <<pc, req, work>>
    BY <1>3 DEF StartSteps, Listen, ReadListener, AcceptFails, Register, Starting
  <2> QED
    BY <1>1, <2>1 DEF WorkTypes, WorkOf
<1>4. CASE AddHandler
  <2>1. /\ accepted \in Client /\ UNCHANGED <<req, work>> /\ pc' = [pc EXCEPT ![accepted] = "check"]
        /\ pc[accepted] = "none"
    BY <1>4 DEF AddHandler, Starting, Typed, ServerTypes, LinkFollowsHandler
  <2>2. PICK c \in Client : pc' = [pc EXCEPT ![c] = "check"] /\ pc[c] = "none"
    BY <2>1
  <2>3. WorkOf(c)'
    BY <1>1, <2>1, <2>2 DEF WorkOf, WorkTypes, HandlerTypes
  <2>4. \A d \in Client \ {c} : pc'[d] = pc[d] /\ work'[d] = work[d] /\ req'[d] = req[d]
    BY <1>1, <2>1, <2>2 DEF HandlerTypes, WorkTypes
  <2>5. work' = [d \in Client |-> work'[d]]
    BY <1>1, <2>1 DEF WorkTypes
  <2> QED
    BY <1>1, <2>3, <2>4, <2>5, WorkKept
<1>5. ASSUME NEW c \in Client, Close(c) \/ LeaveHub(c) \/ LeaveConns(c) \/ HandlerDone(c)
      PROVE  WorkTypes'
  <2>1. /\ UNCHANGED <<req, work>>
        /\ pc[c] \in {"close", "closing", "unsubscribe", "delete", "leave"}
        /\ \E to \in {"closing", "unsubscribe", "delete", "leave", "done"} : pc' = [pc EXCEPT ![c] = to]
    BY <1>5 DEF Close, LeaveHub, LeaveConns, HandlerDone, Ending
  <2>2. WorkOf(c)'
    BY <1>1, <2>1 DEF WorkOf, WorkTypes, HandlerTypes
  <2> QED
    BY <1>1, <2>1, <2>2, WorkKept DEF WorkTypes, HandlerTypes
<1>6. ASSUME NEW c \in Client, HandleLine(c)
      PROVE  WorkTypes'
  BY <1>1, <1>6, LineWork DEF HandleLine
<1>7. ASSUME NEW c \in Client, CheckQuit(c) \/ ReadFails(c) \/ PublishEnds(c) \/ TopicsEnd(c) \/ WriteResponse(c)
      PROVE  WorkTypes'
  <2>1. /\ UNCHANGED <<req, work>> /\ pc[c] \in {"check", "read", "topics", "publish", "reply"}
        /\ \E to \in {"check", "close", "read", "reply", "topics"} : pc' = [pc EXCEPT ![c] = to]
    BY <1>7 DEF CheckQuit, ReadFails, PublishEnds, TopicsEnd, WriteResponse
  <2>2. work[c] = << >> \/ WriteResponse(c)
    BY <1>1, <1>7 DEF CheckQuit, ReadFails, PublishEnds, TopicsEnd, WorkTypes, WorkOf
  <2>3. << >> \in ArgsOf(req[c].method)
    BY <1>1, ArgsAreTopics DEF HandlerTypes
  <2>4. WorkOf(c)'
    <3>1. CASE WriteResponse(c)
      BY <1>1, <2>1, <2>3, <3>1 DEF WriteResponse, WorkOf, WorkTypes, HandlerTypes
    <3>2. CASE ~WriteResponse(c)
      <4>1. \E to \in {"check", "close", "read", "reply"} : pc' = [pc EXCEPT ![c] = to]
        BY <1>7, <3>2 DEF CheckQuit, ReadFails, PublishEnds, TopicsEnd
      <4> QED
        BY <1>1, <2>1, <2>2, <2>3, <3>2, <4>1 DEF WorkOf, WorkTypes, HandlerTypes
    <3> QED
      BY <3>1, <3>2
  <2> QED
    BY <1>1, <2>1, <2>4, WorkKept DEF WorkTypes, HandlerTypes
<1>8. ASSUME NEW c \in Client, TakeTopic(c) \/ SkipTopic(c)
      PROVE  WorkTypes'
  <2>1. /\ pc[c] = "topics" /\ req' = req /\ work' = [work EXCEPT ![c] = Tail(work[c])]
        /\ pc' = pc \/ pc' = [pc EXCEPT ![c] = "reply"]
        /\ work[c] # << >>
    BY <1>8 DEF TakeTopic, SkipTopic
  <2>2. Tail(work[c]) \in ArgsOf(req[c].method)
    BY <1>1, <2>1, TailsAreArgs DEF WorkTypes, WorkOf, HandlerTypes
  <2>3. WorkOf(c)'
    BY <1>1, <2>1, <2>2 DEF WorkOf, WorkTypes, HandlerTypes
  <2>4. \A d \in Client \ {c} : pc'[d] = pc[d]
    BY <1>1, <2>1 DEF HandlerTypes
  <2>5. \A d \in Client \ {c} : work'[d] = work[d] /\ req'[d] = req[d]
    BY <1>1, <2>1 DEF WorkTypes
  <2>6. work' = [d \in Client |-> work'[d]]
    BY <1>1, <2>1 DEF WorkTypes
  <2> QED
    BY <1>1, <2>3, <2>4, <2>5, <2>6, WorkKept
<1>9. ASSUME NEW c \in Client, Send(c)
      PROVE  WorkTypes'
  <2>1. /\ pc[c] = "publish" /\ req' = req /\ work' = [work EXCEPT ![c] = Tail(work[c])]
        /\ pc' = pc /\ work[c] # << >>
    BY <1>9 DEF Send
  <2>2. Tail(work[c]) \in Seq(Delivery)
    BY <1>1, <2>1 DEF WorkTypes, WorkOf
  <2>3. WorkOf(c)'
    BY <1>1, <2>1, <2>2 DEF WorkOf, WorkTypes, HandlerTypes
  <2> QED
    BY <1>1, <2>1, <2>3, WorkKept DEF WorkTypes, HandlerTypes
<1> QED
  BY <1>2, <1>3, <1>4, <1>5, <1>6, <1>7, <1>8, <1>9, StepCases DEF Serve


(* A line is answered at once, or the handler goes on with it. *)
Sayings == {"ok", "error", "queued", "result", "count", "multi", "exec", "failed", "discard"}

LEMMA LineAnswers ==
  ASSUME NEW c \in Client, NEW r,
         \/ NoCommand(c, r) \/ PublishStarts(c, r) \/ TopicsStart(c, r)
         \/ InSubscriberMode(c, r)
         \/ Multi(c, r) \/ Exec(c, r) \/ Discard(c, r) \/ Command(c, r)
  PROVE  \/ /\ out' = out
            /\ \E to \in {"publish", "topics"} : pc' = [pc EXCEPT ![c] = to]
         \/ \E a \in Sayings : Says(c, a)
<1>1. CASE PublishStarts(c, r) \/ TopicsStart(c, r)
  BY <1>1 DEF PublishStarts, TopicsStart, Refuse, Sayings
<1>2. CASE NoCommand(c, r) \/ InSubscriberMode(c, r) \/ Multi(c, r)
  BY <1>2 DEF NoCommand, InSubscriberMode, Multi, Refuse, Sayings
<1>3. CASE Exec(c, r) \/ Discard(c, r) \/ Command(c, r)
  BY <1>3 DEF Exec, Discard, Command, Refuse, Sayings
<1> QED
  BY <1>1, <1>2, <1>3

(* The three ways in which what a handler is about to write changes. *)
LEMMA OutputSame ==
  ASSUME OutputTypes, HandlerTypes, NEW c \in Client, NEW to \in Places \ {"reply"}, pc[c] # "reply",
         pc' = pc \/ pc' = [pc EXCEPT ![c] = to], UNCHANGED <<out, stream, sent>>
  PROVE  OutputTypes'
<1>1. \A d \in Client : pc'[d] = "reply" <=> pc[d] = "reply"
  BY DEF HandlerTypes
<1>2. \A d \in Client : OutputOf(d)'
  BY <1>1 DEF OutputTypes, OutputOf
<1> QED
  BY <1>2 DEF OutputTypes

LEMMA OutputSaid ==
  ASSUME OutputTypes, HandlerTypes, NEW c \in Client, NEW x \in Answer \cup Ack,
         pc' = [pc EXCEPT ![c] = "reply"], out' = [out EXCEPT ![c] = <<x>>], UNCHANGED <<stream, sent>>
  PROVE  OutputTypes'
<1>1. out' \in [Client -> Seq(Answer \cup Ack)]
  <2>1. <<x>> \in Seq(Answer \cup Ack)
    OBVIOUS
  <2> QED
    BY <2>1 DEF OutputTypes
<1>2. ASSUME NEW d \in Client
      PROVE  OutputOf(d)'
  <2>1. CASE d = c
    <3>1. pc'[c] = "reply" /\ out'[c] = <<x>>
      BY DEF OutputTypes, HandlerTypes
    <3> QED
      BY <2>1, <3>1 DEF OutputTypes, OutputOf
  <2>2. CASE d # c
    <3>1. pc'[d] = pc[d] /\ out'[d] = out[d]
      BY <2>2 DEF OutputTypes, HandlerTypes
    <3> QED
      BY <3>1 DEF OutputTypes, OutputOf
  <2> QED
    BY <2>1, <2>2
<1> QED
  BY <1>1, <1>2 DEF OutputTypes

LEMMA OutputQueued ==
  ASSUME OutputTypes, NEW c \in Client, NEW x \in Answer \cup Ack \cup Push, Room(c),
         \A d \in Client : Len(out'[d]) = (IF pc'[d] = "reply" THEN 1 ELSE 0),
         out' \in [Client -> Seq(Answer \cup Ack)],
         stream' = [stream EXCEPT ![c] = Append(stream[c], x)], sent' = sent
  PROVE  OutputTypes'
<1>1. stream[c] \in Seq(Answer \cup Ack \cup Push) /\ sent[c] \in Nat /\ OutputOf(c)
  BY DEF OutputTypes
<1>2. Append(stream[c], x) \in Seq(Answer \cup Ack \cup Push) /\ Len(Append(stream[c], x)) = Len(stream[c]) + 1
  BY <1>1
<1>3. stream' \in [Client -> Seq(Answer \cup Ack \cup Push)]
  BY <1>2 DEF OutputTypes
<1>4. sent[c] \in Len(stream'[c]) - Cap .. Len(stream'[c])
  <2>1. stream'[c] = Append(stream[c], x)
    BY DEF OutputTypes
  <2> QED
    BY <1>1, <1>2, <2>1, ServerAssumption DEF Room, OutputOf
<1>5. \A d \in Client \ {c} : sent[d] \in Len(stream'[d]) - Cap .. Len(stream'[d])
  <2>1. \A d \in Client \ {c} : stream'[d] = stream[d]
    BY DEF OutputTypes
  <2> QED
    BY <2>1 DEF OutputTypes, OutputOf
<1> QED
  BY <1>3, <1>4, <1>5 DEF OutputTypes, OutputOf

LEMMA OutputTyped ==
  ASSUME Typed, Next
  PROVE  OutputTypes'
<1>1. HandlerTypes' /\ HandlerTypes /\ OutputTypes /\ WorkTypes
  BY HandlerTyped DEF Typed
<1>2. CASE StopSteps \/ CloseQuit \/ \E c \in Client : HangUp(c) \/ Accept(c)
  <2>1. UNCHANGED <<pc, out, stream, sent>>
    BY <1>2 DEF StopSteps, CloseQuit, CloseListener, LockConns, CloseDone, CloseSocket, Wait, Stopping,
                HangUp, Accept, Starting, handler, output
  <2> QED
    BY <1>1, <2>1 DEF OutputTypes, OutputOf
<1>3. CASE StartSteps /\ ~AddHandler
  <2>1. UNCHANGED <<pc, out, stream, sent>>
    BY <1>3 DEF StartSteps, Listen, ReadListener, AcceptFails, Register, Starting
  <2> QED
    BY <1>1, <2>1 DEF OutputTypes, OutputOf
<1>4. CASE AddHandler
  <2>1. /\ UNCHANGED <<out, stream, sent>> /\ pc' = [pc EXCEPT ![accepted] = "check"]
        /\ accepted \in Client /\ pc[accepted] = "none"
    BY <1>4 DEF AddHandler, Starting, Typed, ServerTypes, LinkFollowsHandler
  <2>2. PICK c \in Client : pc' = [pc EXCEPT ![c] = "check"] /\ pc[c] # "reply"
    BY <2>1
  <2> QED
    BY <1>1, <2>1, <2>2, OutputSame DEF Places
<1>5. ASSUME NEW c \in Client, Close(c) \/ LeaveHub(c) \/ LeaveConns(c) \/ HandlerDone(c)
      PROVE  OutputTypes'
  <2>1. /\ UNCHANGED <<out, stream, sent>> /\ pc[c] # "reply"
        /\ \E to \in {"closing", "unsubscribe", "delete", "leave", "done"} : pc' = [pc EXCEPT ![c] = to]
    BY <1>5 DEF Close, LeaveHub, LeaveConns, HandlerDone, Ending, output
  <2> QED
    BY <1>1, <2>1, OutputSame DEF Places
<1>6. ASSUME NEW c \in Client, Write(c)
      PROVE  OutputTypes'
  <2>1. UNCHANGED <<pc, out, stream>>
    BY <1>6 DEF Write, TakeNext, WriteFails, WriterEnds, ClientReads, Writing, handler
  <2>2. \/ sent' = sent
        \/ sent' = [sent EXCEPT ![c] = sent[c] + 1] /\ sent[c] < Len(stream[c])
    BY <1>6 DEF Write, TakeNext, WriteFails, WriterEnds, ClientReads
  <2>3. sent' \in [Client -> Nat]
    BY <1>1, <2>2 DEF OutputTypes
  <2>4. ASSUME NEW d \in Client
        PROVE  OutputOf(d)'
    <3>1. Len(stream[d]) \in Nat /\ sent[d] \in Nat /\ OutputOf(d)
      BY <1>1 DEF OutputTypes
    <3>2. \/ sent'[d] = sent[d]
          \/ sent'[d] = sent[d] + 1 /\ sent[d] < Len(stream[d])
      BY <1>1, <2>2 DEF OutputTypes
    <3> QED
      BY <2>1, <3>1, <3>2, ServerAssumption DEF OutputOf
  <2> QED
    BY <1>1, <2>1, <2>3, <2>4 DEF OutputTypes
<1>7. ASSUME NEW c \in Client, CheckQuit(c) \/ ReadFails(c) \/ TopicsEnd(c) \/ SkipTopic(c)
      PROVE  OutputTypes'
  <2>1. /\ UNCHANGED <<out, stream, sent>> /\ pc[c] # "reply"
        /\ pc' = pc \/ \E to \in {"close", "read", "check"} : pc' = [pc EXCEPT ![c] = to]
    BY <1>7 DEF CheckQuit, ReadFails, TopicsEnd, SkipTopic, HandlerOnly, output
  <2> QED
    BY <1>1, <2>1, OutputSame DEF Places
<1>8. ASSUME NEW c \in Client, HandleLine(c)
      PROVE  OutputTypes'
  <2>1. PICK r \in menu.clients[c].requests :
          /\ ReadLine(c, r)
          /\ \/ NoCommand(c, r) \/ PublishStarts(c, r) \/ TopicsStart(c, r)
             \/ InSubscriberMode(c, r)
             \/ Multi(c, r) \/ Exec(c, r) \/ Discard(c, r) \/ Command(c, r)
    BY <1>8 DEF HandleLine
  <2>2. UNCHANGED <<stream, sent>> /\ pc[c] = "read"
    BY <1>8, <2>1, LineChanges DEF output, ReadLine
  <2>3. CASE out' = out /\ \E to \in {"publish", "topics"} : pc' = [pc EXCEPT ![c] = to]
    BY <1>1, <2>2, <2>3, OutputSame DEF Places
  <2>4. CASE \E a \in Sayings : Says(c, a)
    <3>1. PICK a \in Sayings : Says(c, a)
      BY <2>4
    <3>2. [kind |-> "answer", n |-> line[c] + 1, says |-> a] \in Answer
      BY <1>1 DEF HandlerTypes, Answer, Sayings
    <3> QED
      BY <1>1, <2>2, <3>1, <3>2, OutputSaid DEF Says
  <2> QED
    BY <2>1, <2>3, <2>4, LineAnswers
<1>9. ASSUME NEW c \in Client, PublishEnds(c)
      PROVE  OutputTypes'
  <2>1. [kind |-> "answer", n |-> line[c], says |-> "count"] \in Answer
    BY <1>1 DEF HandlerTypes, Answer
  <2> QED
    BY <1>1, <1>9, <2>1, OutputSaid DEF PublishEnds, HandlerOnly, output
<1>10. ASSUME NEW c \in Client, TakeTopic(c)
       PROVE  OutputTypes'
  <2> DEFINE x == [kind |-> "ack", n |-> line[c], action |-> req[c].method,
                   topic |-> work[c][1], count |-> subCount'[c]]
  <2>1. /\ out' = [out EXCEPT ![c] = <<x>>] /\ pc' = [pc EXCEPT ![c] = "reply"]
        /\ UNCHANGED <<stream, sent>>
    BY <1>10 DEF TakeTopic, HandlerOnly, output
  <2>2. x \in Ack
    <3>1. req[c].method \in Topics /\ work[c][1] \in Topic
      BY <1>10, TopicTypes
    <3>2. line[c] \in Nat /\ subCount'[c] \in Nat
      BY <1>1 DEF HandlerTypes
    <3> QED
      BY <3>1, <3>2 DEF Ack
  <2> HIDE DEF x
  <2> QED
    BY <1>1, <2>1, <2>2, OutputSaid
<1>11. ASSUME NEW c \in Client, Send(c)
       PROVE  OutputTypes'
  <2> DEFINE d == work[c][1].to
             x == [kind |-> "push", what |-> work[c][1]]
  <2>1. UNCHANGED <<pc, out, sent>>
    BY <1>11 DEF Send
  <2>2. \/ stream' = stream
        \/ Room(d) /\ stream' = [stream EXCEPT ![d] = Append(stream[d], x)]
    BY <1>11 DEF Send
  <2>3. d \in Client /\ x \in Push
    <3>1. work[c] \in Seq(Delivery) /\ work[c] # << >>
      BY <1>1, <1>11 DEF Send, WorkTypes, WorkOf
    <3>2. work[c][1] \in Delivery
      BY <3>1
    <3> QED
      BY <3>2 DEF Delivery, Push
  <2> HIDE DEF d, x
  <2>4. \A e \in Client : Len(out'[e]) = (IF pc'[e] = "reply" THEN 1 ELSE 0)
    BY <1>1, <2>1 DEF OutputTypes, OutputOf
  <2>5. CASE stream' = stream
    BY <1>1, <2>1, <2>5 DEF OutputTypes, OutputOf
  <2>6. CASE stream' # stream
    BY <1>1, <2>1, <2>2, <2>3, <2>4, <2>6, OutputQueued DEF OutputTypes
  <2> QED
    BY <2>5, <2>6
<1>12. ASSUME NEW c \in Client, WriteResponse(c)
       PROVE  OutputTypes'
  <2>1. /\ out' = [out EXCEPT ![c] = << >>] /\ sent' = sent
        /\ \E to \in {"topics", "check"} : pc' = [pc EXCEPT ![c] = to]
        /\ \/ Room(c) /\ stream' = [stream EXCEPT ![c] = @ \o out[c]]
           \/ stream' = stream
    BY <1>12 DEF WriteResponse
  <2>2. /\ out[c] \in Seq(Answer \cup Ack) /\ Len(out[c]) = 1
        /\ stream[c] \in Seq(Answer \cup Ack \cup Push)
    BY <1>1, <1>12 DEF OutputTypes, OutputOf, WriteResponse
  <2>3. out' \in [Client -> Seq(Answer \cup Ack)]
    BY <1>1, <2>1 DEF OutputTypes
  <2>4. ASSUME NEW d \in Client
        PROVE  Len(out'[d]) = (IF pc'[d] = "reply" THEN 1 ELSE 0)
    <3>1. CASE d = c
      BY <1>1, <2>1, <3>1 DEF OutputTypes, HandlerTypes
    <3>2. CASE d # c
      <4>1. out'[d] = out[d]
        BY <1>1, <2>1, <3>2 DEF OutputTypes
      <4>2. pc'[d] = pc[d]
        BY <1>1, <2>1, <3>2 DEF HandlerTypes
      <4> QED
        BY <1>1, <4>1, <4>2 DEF OutputTypes, OutputOf
    <3> QED
      BY <3>1, <3>2
  <2>5. CASE Room(c) /\ stream' = [stream EXCEPT ![c] = @ \o out[c]]
    <3> DEFINE x == out[c][1]
    <3>1. x \in Answer \cup Ack \cup Push /\ stream[c] \o out[c] = Append(stream[c], x)
      <4>1. x \in Answer \cup Ack /\ out[c] = <<x>>
        BY <2>2
      <4> HIDE DEF x
      <4> QED
        BY <2>2, <4>1, AppendIsConcat
    <3>2. stream' = [stream EXCEPT ![c] = Append(stream[c], x)]
      BY <2>5, <3>1
    <3> HIDE DEF x
    <3>3. x \in Answer \cup Ack \cup Push
      BY <3>1 DEF x
    <3> QED
      BY <1>1, <2>1, <2>3, <2>4, <2>5, <3>2, <3>3, OutputQueued
  <2>6. CASE stream' = stream
    BY <1>1, <2>1, <2>3, <2>4, <2>6 DEF OutputTypes, OutputOf
  <2> QED
    BY <2>1, <2>5, <2>6
<1> QED
  BY <1>2, <1>3, <1>4, <1>5, <1>6, <1>7, <1>8, <1>9, <1>10, <1>11, <1>12, StepCases DEF Serve

(* Where the connection and its handler are. *)
LEMMA LinkKept ==
  ASSUME LinkFollowsHandler, UNCHANGED <<start, accepted, pc, link>>
  PROVE  LinkFollowsHandler'
BY DEF LinkFollowsHandler, LinkOf

LEMMA LinkStarts ==
  ASSUME Typed, StartSteps \/ \E c \in Client : Accept(c)
  PROVE  LinkFollowsHandler'
<1> HandlerTypes /\ LinkFollowsHandler /\ ServerTypes
  BY DEF Typed
<1>1. CASE AddHandler
  <2>1. /\ accepted \in Client /\ link[accepted] # "none" /\ pc[accepted] = "none" /\ link' = link
        /\ pc' = [pc EXCEPT ![accepted] = "check"] /\ start' = "loop"
    BY <1>1 DEF AddHandler, Starting, LinkFollowsHandler, ServerTypes
  <2> QED
    BY <2>1 DEF LinkFollowsHandler, LinkOf, HandlerTypes
<1>2. CASE Register
  <2>1. UNCHANGED <<accepted, pc, link>> /\ start = "register"
    BY <1>2 DEF Register, Starting
  <2> QED
    BY <2>1 DEF LinkFollowsHandler, LinkOf
<1>3. CASE Listen \/ ReadListener \/ AcceptFails
  <2>1. UNCHANGED <<accepted, pc, link>> /\ start' \notin {"register", "add"}
    BY <1>3 DEF Listen, ReadListener, AcceptFails, Starting
  <2> QED
    BY <2>1 DEF LinkFollowsHandler, LinkOf
<1>4. ASSUME NEW c \in Client, Accept(c)
      PROVE  LinkFollowsHandler'
  <2>1. pc' = pc /\ accepted' = c /\ link[c] = "none" /\ link' = [link EXCEPT ![c] = "open"]
    BY <1>4 DEF Accept, Starting
  <2> QED
    BY <2>1 DEF LinkFollowsHandler, LinkOf, HandlerTypes
<1> QED
  BY <1>1, <1>2, <1>3, <1>4 DEF StartSteps

LEMMA LinkTyped ==
  ASSUME Typed, Next
  PROVE  LinkFollowsHandler'
<1> HandlerTypes /\ LinkFollowsHandler /\ ServerTypes
  BY DEF Typed
<1>1. CASE StopSteps \/ CloseQuit
  <2>1. UNCHANGED <<start, accepted, pc>>
    BY <1>1 DEF StopSteps, CloseQuit, CloseListener, LockConns, CloseDone, CloseSocket, Wait, Stopping, handler
  <2>2. ASSUME NEW c \in Client, CloseDone(c)
        PROVE  LinkFollowsHandler'
    <3>1. link[c] = "open" /\ link' = [link EXCEPT ![c] = "closing"]
      BY <2>2 DEF CloseDone
    <3> QED
      BY <2>1, <3>1 DEF LinkFollowsHandler, LinkOf, HandlerTypes
  <2>3. ASSUME NEW c \in Client, CloseSocket(c)
        PROVE  LinkFollowsHandler'
    <3>1. link[c] \in {"closing", "closed"} /\ link' = [link EXCEPT ![c] = "closed"]
      BY <2>3 DEF CloseSocket
    <3> QED
      BY <2>1, <3>1 DEF LinkFollowsHandler, LinkOf, HandlerTypes
  <2>4. CASE CloseQuit \/ CloseListener \/ LockConns \/ Wait
    <3>1. link' = link
      BY <2>4 DEF CloseQuit, CloseListener, LockConns, Wait
    <3> QED
      BY <2>1, <3>1, LinkKept
  <2> QED
    BY <1>1, <2>2, <2>3, <2>4 DEF StopSteps
<1>2. ASSUME NEW c \in Client, Write(c) \/ HangUp(c)
      PROVE  LinkFollowsHandler'
  <2>1. UNCHANGED <<start, accepted, pc, link>>
    BY <1>2 DEF Write, TakeNext, WriteFails, WriterEnds, ClientReads, Writing, HangUp, handler, server
  <2> QED
    BY <2>1, LinkKept
<1>3. ASSUME NEW c \in Client, Close(c)
      PROVE  LinkFollowsHandler'
  <2>1. UNCHANGED <<start, accepted>>
    BY <1>3 DEF Close, Ending
  <2>2. /\ pc[c] \in {"close", "closing"}
        /\ \/ link[c] = "open" /\ link' = [link EXCEPT ![c] = "closing"] /\ pc' = [pc EXCEPT ![c] = "closing"]
           \/ link' = [link EXCEPT ![c] = "closed"] /\ pc' = [pc EXCEPT ![c] = "unsubscribe"]
    BY <1>3 DEF Close, HandlerTypes
  <2>3. start \in {"register", "add"} => accepted # c
    BY <2>2 DEF LinkFollowsHandler
  <2>4. \A d \in Client \ {c} : link'[d] = link[d] /\ pc'[d] = pc[d]
    BY <2>2 DEF HandlerTypes
  <2>5. LinkOf(c)'
    BY <2>2 DEF LinkOf, HandlerTypes
  <2> QED
    BY <2>1, <2>3, <2>4, <2>5 DEF LinkFollowsHandler, LinkOf, ServerTypes
<1>4. ASSUME NEW c \in Client, LeaveHub(c) \/ LeaveConns(c) \/ HandlerDone(c)
      PROVE  LinkFollowsHandler'
  <2>1. /\ UNCHANGED <<start, accepted, link>> /\ pc[c] \in {"unsubscribe", "delete", "leave"}
        /\ \E to \in {"delete", "leave", "done"} : pc' = [pc EXCEPT ![c] = to]
    BY <1>4 DEF LeaveHub, LeaveConns, HandlerDone, Ending
  <2> QED
    BY <2>1 DEF LinkFollowsHandler, LinkOf, HandlerTypes
<1>5. ASSUME NEW c \in Client, Serve(c)
      PROVE  LinkFollowsHandler'
  <2>1. UNCHANGED <<start, accepted, link>>
    BY <1>5, ServeChanges DEF server
  <2>2. pc[c] \in {"check", "read", "topics", "publish", "reply"}
    BY <1>5 DEF Serve, CheckQuit, ReadFails, HandleLine, ReadLine, SkipTopic, TakeTopic, TopicsEnd,
                Send, PublishEnds, WriteResponse
  <2>3. pc' = pc \/ \E to \in {"check", "close", "read", "reply", "topics", "publish"} : pc' = [pc EXCEPT ![c] = to]
    <3>1. CASE HandleLine(c)
      BY <3>1, LineAnswers DEF HandleLine, Says
    <3>2. CASE ~HandleLine(c)
      BY <1>5, <3>2 DEF Serve, CheckQuit, ReadFails, SkipTopic, TakeTopic, TopicsEnd, Send, PublishEnds, WriteResponse
    <3> QED
      BY <3>1, <3>2
  <2>4. start \in {"register", "add"} => accepted # c
    BY <2>2 DEF LinkFollowsHandler
  <2>5. \A d \in Client \ {c} : pc'[d] = pc[d]
    BY <2>3 DEF HandlerTypes
  <2>6. LinkOf(c)'
    <3>1. link[c] # "none" /\ link'[c] = link[c]
      BY <2>1, <2>2 DEF LinkFollowsHandler, LinkOf
    <3>2. pc'[c] \notin {"none", "closing", "unsubscribe", "delete", "leave", "done"}
      BY <2>2, <2>3 DEF HandlerTypes
    <3> QED
      BY <3>1, <3>2 DEF LinkOf
  <2> QED
    BY <2>1, <2>4, <2>5, <2>6 DEF LinkFollowsHandler, LinkOf, ServerTypes
<1> QED
  BY <1>1, <1>2, <1>3, <1>4, <1>5, StepCases, LinkStarts

LEMMA TypedNext == Typed /\ [Next]_vars => Typed'
<1>1. ASSUME Typed, Next
      PROVE  Typed'
  BY <1>1, ServerTyped, HubTyped, HandlerTyped, WorkTyped, OutputTyped, LinkTyped DEF Typed
<1>2. ASSUME Typed, UNCHANGED vars
      PROVE  Typed'
  BY <1>2 DEF Typed, ServerTypes, HubTypes, HandlerTypes, WorkTypes, WorkOf, OutputTypes, OutputOf,
              LinkFollowsHandler, LinkOf, vars, server, handler, output
<1> QED
  BY <1>1, <1>2

LEMMA SpecTyped == Spec => []Typed
BY InitTyped, TypedNext, PTL DEF Spec

(* Every variable has its type, however many clients, requests and patterns *)
(* there are: no queue is ever over its capacity, and no pattern is entered *)
(* twice for a client (ClientConn.writeCh, Hub.PSubscribe).                 *)
THEOREM Typing == Spec => []TypeOK
<1>1. Typed => TypeOK
  <2> SUFFICES ASSUME Typed
               PROVE  TypeOK
    OBVIOUS
  <2>1. \A c \in Client : WorkOf(c) /\ OutputOf(c)
    BY DEF Typed, WorkTypes, OutputTypes
  <2> QED
    BY <2>1 DEF Typed, ServerTypes, HubTypes, HandlerTypes, WorkTypes, OutputTypes, WorkOf, OutputOf,
                Places, TypeOK
<1> QED
  BY <1>1, SpecTyped, PTL

-----------------------------------------------------------------------------
(* Who is in the hub.                                                      *)
LEMMA InitHub == Init => HubFollowsMode
<1> SUFFICES ASSUME Init, NEW c \in Client
             PROVE  HubOf(c)
  BY DEF HubFollowsMode
<1>1. HubTypes
  BY InitTyped DEF Typed
<1>2. Channels(c) = {} /\ Patterns(c) = {}
  BY <1>1, SubscriptionsInHub DEF Init, NewHub, ChannelsIn, PatternsIn, Range
<1> QED
  BY <1>2, FS_EmptySet DEF Init, HubOf, Subscriptions

LEMMA SubscriptionsInNextHub ==
  ASSUME HubTypes', NEW c \in Client
  PROVE  /\ Channels(c)' = ChannelsIn(hub', c) /\ Patterns(c)' = PatternsIn(hub', c)
         /\ Subscriptions(c)' = SubsIn(hub', c)
<1>1. hub'.patternSubs \in Seq(Entry)
  BY DEF HubTypes, HubType
<1>2. \A e : Contains(hub'.patternSubs, e) <=> e \in Range(hub'.patternSubs)
  BY <1>1 DEF Contains, Range
<1> QED
  BY <1>2 DEF Channels, Patterns, Subscriptions, ChannelsIn, PatternsIn, SubsIn

(* A step that leaves c's subscriptions alone. *)
LEMMA HubOfKept ==
  ASSUME HubTypes, HubTypes', NEW c \in Client, HubOf(c),
         ChannelsIn(hub', c) = ChannelsIn(hub, c), PatternsIn(hub', c) = PatternsIn(hub, c),
         subCount'[c] = subCount[c], mode[c] => mode'[c],
         pc'[c] \in {"none", "delete", "leave", "done"} => pc[c] \in {"none", "delete", "leave", "done"},
         pc[c] \in {"delete", "leave", "done"} => pc'[c] \in {"delete", "leave", "done"},
         pc'[c] \in {"topics", "publish", "reply"} /\ Subscribes(c)' => mode'[c]
  PROVE  HubOf(c)'
<1>1. /\ Channels(c)' = Channels(c) /\ Patterns(c)' = Patterns(c)
      /\ Subscriptions(c)' = Subscriptions(c)
  BY SubscriptionsInHub, SubscriptionsInNextHub DEF SubsIn
<1> QED
  BY <1>1 DEF HubOf

(* The handlers of the others. *)
LEMMA OthersKept ==
  ASSUME HubTypes, HubTypes', HubFollowsMode, NEW c, NEW d \in Client \ {c},
         hub' = hub \/ Concerns(hub, hub', c),
         UNCHANGED <<subCount[d], mode[d], pc[d], req[d]>>
  PROVE  HubOf(d)'
<1>1. ChannelsIn(hub', d) = ChannelsIn(hub, d) /\ PatternsIn(hub', d) = PatternsIn(hub, d)
  BY DEF Concerns
<1>2. HubOf(d) /\ (Subscribes(d)' <=> Subscribes(d))
  BY DEF HubFollowsMode, Subscribes
<1>3. pc'[d] \in {"topics", "publish", "reply"} /\ Subscribes(d)' => mode'[d]
  BY <1>2 DEF HubOf
<1> HIDE DEF HubFollowsMode
<1> QED
  BY <1>1, <1>2, <1>3, HubOfKept

LEMMA HubIdle ==
  ASSUME HubTypes, HubTypes', HubFollowsMode, UNCHANGED <<hub, subCount, mode, pc, req>>
  PROVE  HubFollowsMode'
<1>1. ASSUME NEW d \in Client
      PROVE  HubOf(d)'
  BY OthersKept DEF HubFollowsMode, HubOf, Subscriptions, Channels, Patterns, Subscribes
<1> QED
  BY <1>1 DEF HubFollowsMode

(* A step of c's handler. *)
LEMMA HubMoves ==
  ASSUME Typed, Typed', HubFollowsMode, NEW c \in Client,
         hub' = hub \/ Concerns(hub, hub', c),
         \A d \in Client \ {c} : UNCHANGED <<subCount[d], mode[d], pc[d], req[d]>>,
         HubOf(c)'
  PROVE  HubFollowsMode'
<1>1. \A d \in Client \ {c} : HubOf(d)'
  BY OthersKept DEF Typed
<1> QED
  BY <1>1 DEF HubFollowsMode

LEMMA LineHub ==
  ASSUME Typed, Typed', HubFollowsMode, NEW c \in Client, NEW r \in menu.clients[c].requests, ReadLine(c, r),
         \/ NoCommand(c, r) \/ PublishStarts(c, r) \/ TopicsStart(c, r)
         \/ InSubscriberMode(c, r)
         \/ Multi(c, r) \/ Exec(c, r) \/ Discard(c, r) \/ Command(c, r)
  PROVE  HubFollowsMode'
<1> HandlerTypes /\ HandlerTypes' /\ HubOf(c)
  BY DEF Typed, HubFollowsMode
<1>1. pc[c] = "read" /\ req' = [req EXCEPT ![c] = r]
  BY DEF ReadLine
<1>2. hub' = hub /\ subCount' = subCount
  BY DEF NoCommand, PublishStarts, TopicsStart, InSubscriberMode, Multi, Exec, Discard, Command, Refuse
<1>3. \E to \in {"reply", "publish", "topics"} : pc' = [pc EXCEPT ![c] = to]
  BY LineTypes
<1>4. /\ \A d \in Client \ {c} : mode'[d] = mode[d]
      /\ mode[c] => mode'[c]
      /\ r.method \in {"SUBSCRIBE", "PSUBSCRIBE"} => mode'[c]
  <2>1. CASE TopicsStart(c, r)
    BY <2>1 DEF TopicsStart, HandlerTypes
  <2>2. CASE ~TopicsStart(c, r)
    <3>1. mode' = mode /\ r.method \notin Topics
      BY <2>2 DEF NoCommand, PublishStarts, InSubscriberMode, Multi, Exec, Discard, Command, Refuse,
                  Blocked, Ungated, Topics
    <3> QED
      BY <3>1 DEF Topics
  <2> QED
    BY <2>1, <2>2
<1>5. pc'[c] \in {"reply", "publish", "topics"} /\ req'[c] = r
  BY <1>1, <1>3 DEF HandlerTypes
<1>6. HubOf(c)'
  BY <1>1, <1>2, <1>4, <1>5, HubOfKept DEF Typed, Subscribes
<1>7. \A d \in Client \ {c} : pc'[d] = pc[d] /\ req'[d] = req[d]
  BY <1>1, <1>3 DEF HandlerTypes
<1> QED
  BY <1>2, <1>4, <1>6, <1>7, HubMoves

LEMMA TopicHub ==
  ASSUME Typed, Typed', HubFollowsMode, NEW c \in Client, TakeTopic(c)
  PROVE  HubFollowsMode'
<1> HandlerTypes /\ HandlerTypes' /\ HubOf(c)
  BY DEF Typed, HubFollowsMode
<1>1. /\ pc[c] = "topics" /\ UNCHANGED <<mode, req>> /\ pc' = [pc EXCEPT ![c] = "reply"]
      /\ subCount' = [subCount EXCEPT ![c] = subCountForSub(hub', c)]
  BY DEF TakeTopic
<1>2. IsHub(hub') /\ Concerns(hub, hub', c)
  BY TopicConcerns DEF Concerns
<1>3. subCount'[c] = Cardinality(ChannelsIn(hub', c)) + Cardinality(PatternsIn(hub', c))
  BY <1>1, <1>2, SubscriptionsCounted DEF HandlerTypes
<1>4. mode'[c] \/ SubsIn(hub', c) = {}
  <2>1. CASE Subscribes(c)
    BY <1>1, <2>1 DEF HubOf
  <2>2. CASE ~Subscribes(c)
    <3>1. mode[c] \/ SubsIn(hub, c) = {}
      BY SubscriptionsInHub DEF HubOf, Typed
    <3> QED
      BY <1>1, <2>2, <3>1, TopicConcerns
  <2> QED
    BY <2>1, <2>2
<1>5. /\ Channels(c)' = ChannelsIn(hub', c) /\ Patterns(c)' = PatternsIn(hub', c)
      /\ Subscriptions(c)' = SubsIn(hub', c)
  BY SubscriptionsInNextHub DEF Typed
<1>6. HubOf(c)'
  <2>1. pc'[c] = "reply" /\ (Subscribes(c)' <=> Subscribes(c))
    BY <1>1 DEF HandlerTypes, Subscribes
  <2> QED
    BY <1>1, <1>3, <1>4, <1>5, <2>1 DEF HubOf
<1>7. \A d \in Client \ {c} : UNCHANGED <<subCount[d], mode[d], pc[d], req[d]>>
  BY <1>1 DEF HandlerTypes
<1> QED
  BY <1>2, <1>6, <1>7, HubMoves

LEMMA NextHub ==
  ASSUME Typed, Typed', HubFollowsMode, Next
  PROVE  HubFollowsMode'
<1> HandlerTypes /\ HandlerTypes' /\ HubTypes /\ HubTypes'
  BY DEF Typed
<1>1. CASE StopSteps \/ CloseQuit \/ (StartSteps /\ ~AddHandler) \/ \E c \in Client : Accept(c) \/ Write(c) \/ HangUp(c)
  <2>1. UNCHANGED <<hub, subCount, mode, pc, req>>
    BY <1>1 DEF StopSteps, CloseQuit, CloseListener, LockConns, CloseDone, CloseSocket, Wait, Stopping,
                StartSteps, Listen, ReadListener, AcceptFails, Register, Starting,
                Write, TakeNext, WriteFails, WriterEnds, ClientReads, Writing, HangUp, Accept, handler
  <2> QED
    BY <2>1, HubIdle
<1>2. CASE AddHandler
  <2>1. /\ UNCHANGED <<hub, subCount, mode, req>> /\ pc' = [pc EXCEPT ![accepted] = "check"]
        /\ accepted \in Client /\ pc[accepted] = "none"
    BY <1>2 DEF AddHandler, Starting, Typed, ServerTypes, LinkFollowsHandler
  <2>2. PICK c \in Client : pc' = [pc EXCEPT ![c] = "check"] /\ pc[c] = "none"
    BY <2>1
  <2>3. pc'[c] = "check" /\ HubOf(c)
    BY <2>2 DEF HandlerTypes, HubFollowsMode
  <2>4. HubOf(c)'
    BY <2>1, <2>2, <2>3, HubOfKept
  <2>5. \A d \in Client \ {c} : UNCHANGED <<subCount[d], mode[d], pc[d], req[d]>>
    BY <2>1, <2>2 DEF HandlerTypes
  <2> QED
    BY <2>1, <2>4, <2>5, HubMoves
<1>3. ASSUME NEW c \in Client, Close(c) \/ LeaveConns(c) \/ HandlerDone(c)
      PROVE  HubFollowsMode'
  <2>1. UNCHANGED <<hub, subCount, mode, req>>
    BY <1>3 DEF Close, LeaveConns, HandlerDone, Ending
  <2>2. \/ /\ pc[c] \in {"close", "closing"}
           /\ \E to \in {"closing", "unsubscribe"} : pc' = [pc EXCEPT ![c] = to]
        \/ /\ pc[c] \in {"delete", "leave"}
           /\ \E to \in {"leave", "done"} : pc' = [pc EXCEPT ![c] = to]
    BY <1>3 DEF Close, LeaveConns, HandlerDone
  <2>3. \/ pc[c] \in {"close", "closing"} /\ pc'[c] \in {"closing", "unsubscribe"}
        \/ pc[c] \in {"delete", "leave"} /\ pc'[c] \in {"leave", "done"}
    BY <2>2 DEF HandlerTypes
  <2>4. HubOf(c)'
    BY <2>1, <2>3, HubOfKept DEF HubFollowsMode
  <2>5. \A d \in Client \ {c} : UNCHANGED <<subCount[d], mode[d], pc[d], req[d]>>
    BY <2>1, <2>2 DEF HandlerTypes
  <2> QED
    BY <2>1, <2>4, <2>5, HubMoves
<1>4. ASSUME NEW c \in Client, LeaveHub(c)
      PROVE  HubFollowsMode'
  <2>1. UNCHANGED <<subCount, mode, req>> /\ pc' = [pc EXCEPT ![c] = "delete"] /\ hub' = UnsubscribeAll(hub, c)
    BY <1>4 DEF LeaveHub, Ending
  <2>2. Concerns(hub, hub', c) /\ SubsIn(hub', c) = {}
    BY <2>1, LeavingConcerns DEF HubTypes, IsHub
  <2>3. Subscriptions(c)' = {} /\ pc'[c] = "delete"
    BY <2>1, <2>2, SubscriptionsInNextHub DEF HandlerTypes
  <2>4. HubOf(c)'
    BY <2>3 DEF HubOf
  <2>5. \A d \in Client \ {c} : UNCHANGED <<subCount[d], mode[d], pc[d], req[d]>>
    BY <2>1 DEF HandlerTypes
  <2> QED
    BY <2>2, <2>4, <2>5, HubMoves
<1>5. ASSUME NEW c \in Client, HandleLine(c)
      PROVE  HubFollowsMode'
  BY <1>5, LineHub DEF HandleLine
<1>6. ASSUME NEW c \in Client, CheckQuit(c) \/ ReadFails(c) \/ PublishEnds(c) \/ WriteResponse(c)
                               \/ SkipTopic(c) \/ Send(c)
      PROVE  HubFollowsMode'
  <2>1. /\ UNCHANGED <<hub, subCount, mode, req>> /\ pc[c] \in {"check", "read", "publish", "reply", "topics"}
        /\ \/ pc' = pc
           \/ \E to \in {"check", "close", "read"} : pc' = [pc EXCEPT ![c] = to]
           \/ /\ pc[c] \in {"reply", "publish"}
              /\ \E to \in {"topics", "reply"} : pc' = [pc EXCEPT ![c] = to]
    BY <1>6 DEF CheckQuit, ReadFails, PublishEnds, WriteResponse, SkipTopic, Send
  <2>2. \/ pc'[c] \in {"check", "close", "read"}
        \/ pc'[c] \in {"topics", "publish", "reply"} /\ pc[c] \in {"topics", "publish", "reply"}
    BY <2>1 DEF HandlerTypes
  <2>3. HubOf(c) /\ (Subscribes(c)' <=> Subscribes(c))
    BY <2>1 DEF HubFollowsMode, Subscribes
  <2>4. HubOf(c)'
    <3>1. pc'[c] \in {"topics", "publish", "reply"} /\ Subscribes(c)' => mode'[c]
      BY <2>1, <2>2, <2>3 DEF HubOf
    <3>2. pc[c] \notin {"delete", "leave", "done"} /\ pc'[c] \notin {"none", "delete", "leave", "done"}
      BY <2>1, <2>2
    <3> QED
      BY <2>1, <2>3, <3>1, <3>2, HubOfKept
  <2>5. \A d \in Client \ {c} : UNCHANGED <<subCount[d], mode[d], pc[d], req[d]>>
    BY <2>1 DEF HandlerTypes
  <2> QED
    BY <2>1, <2>4, <2>5, HubMoves
<1>7. ASSUME NEW c \in Client, TakeTopic(c)
      PROVE  HubFollowsMode'
  BY <1>7, TopicHub
<1>8. ASSUME NEW c \in Client, TopicsEnd(c)
      PROVE  HubFollowsMode'
  <2>1. /\ UNCHANGED <<hub, subCount, req>> /\ pc[c] = "topics" /\ pc' = [pc EXCEPT ![c] = "check"]
        /\ mode' = [mode EXCEPT ![c] = @ /\ (Subscribes(c) \/ subCount[c] # 0)]
    BY <1>8 DEF TopicsEnd, HandlerOnly
  <2>2. /\ Channels(c)' = Channels(c) /\ Patterns(c)' = Patterns(c)
        /\ Subscriptions(c)' = Subscriptions(c)
    BY <2>1 DEF Channels, Patterns, Subscriptions
  <2>3. subCount[c] = 0 => Subscriptions(c) = {}
    <3>1. /\ Channels(c) = ChannelsIn(hub, c) /\ Patterns(c) = PatternsIn(hub, c)
          /\ Subscriptions(c) = SubsIn(hub, c)
      BY SubscriptionsInHub
    <3>2. subCount[c] = Cardinality(Channels(c)) + Cardinality(Patterns(c))
      BY <2>1 DEF HubFollowsMode, HubOf
    <3>3. IsHub(hub)
      BY DEF HubTypes, IsHub
    <3> QED
      BY <3>1, <3>2, <3>3, SubscriptionsCounted
  <2>4. mode'[c] \/ Subscriptions(c) = {}
    <3>1. HubOf(c)
      BY DEF HubFollowsMode
    <3>2. mode'[c] = (mode[c] /\ (Subscribes(c) \/ subCount[c] # 0))
      BY <2>1 DEF HandlerTypes
    <3>3. Subscribes(c) => mode[c]
      BY <2>1, <3>1 DEF HubOf
    <3> QED
      BY <2>3, <3>1, <3>2, <3>3 DEF HubOf
  <2>5. HubOf(c)'
    <3>1. pc'[c] = "check" /\ HubOf(c)
      BY <2>1 DEF HandlerTypes, HubFollowsMode
    <3> QED
      BY <2>1, <2>2, <2>4, <3>1 DEF HubOf
  <2>6. \A d \in Client \ {c} : UNCHANGED <<subCount[d], mode[d], pc[d], req[d]>>
    BY <2>1 DEF HandlerTypes
  <2> QED
    BY <2>1, <2>5, <2>6, HubMoves
<1> QED
  BY <1>1, <1>2, <1>3, <1>4, <1>5, <1>6, <1>7, <1>8, StepCases DEF Serve

LEMMA SpecHub == Spec => [](Typed /\ HubFollowsMode)
<1>1. HubFollowsMode /\ UNCHANGED vars => HubFollowsMode'
  BY DEF HubFollowsMode, HubOf, Subscriptions, Channels, Patterns, Subscribes, vars, handler
<1>2. Typed /\ HubFollowsMode /\ [Next]_vars => (Typed /\ HubFollowsMode)'
  BY <1>1, NextHub, TypedNext
<1> QED
  BY <1>2, InitTyped, InitHub, PTL DEF Spec

(* Between two lines a handler's own count of its subscriptions is the      *)
(* hub's, and without subscriber mode it has none (handleConnection,        *)
(* subCountForSub).                                                         *)
THEOREM CountIsTheHubs == Spec => []ModeMatchesHub
<1>1. HubFollowsMode => ModeMatchesHub
  BY DEF HubFollowsMode, HubOf, ModeMatchesHub
<1> QED
  BY <1>1, SpecHub, PTL

(* Whoever has ended, or has not begun, is in no entry of the hub           *)
(* (UnsubscribeAll in handleConnection's deferred function).                *)
THEOREM EndedIsOut == Spec => []LeftTheHub
<1>1. HubFollowsMode => LeftTheHub
  BY DEF HubFollowsMode, HubOf, LeftTheHub
<1> QED
  BY <1>1, SpecHub, PTL

-----------------------------------------------------------------------------
(* What is sent to whom.  Publish keeps the hub's lock until its last send. *)
LEMMA SendsKept ==
  ASSUME SendsToSubscribers, hub' = hub,
         \A p \in Client : pc'[p] = "publish" => pc[p] = "publish" /\ work'[p] = work[p]
  PROVE  SendsToSubscribers'
<1>1. \A c : Subscriptions(c)' = Subscriptions(c)
  BY DEF Subscriptions, Channels, Patterns
<1> QED
  BY <1>1 DEF SendsToSubscribers

LEMMA LineSends ==
  ASSUME Typed, Typed', SendsToSubscribers, NEW c \in Client, NEW r \in menu.clients[c].requests, ReadLine(c, r),
         \/ NoCommand(c, r) \/ PublishStarts(c, r) \/ TopicsStart(c, r)
         \/ InSubscriberMode(c, r)
         \/ Multi(c, r) \/ Exec(c, r) \/ Discard(c, r) \/ Command(c, r)
  PROVE  SendsToSubscribers'
<1> HandlerTypes /\ WorkTypes /\ IsHub(hub)
  BY DEF Typed, HubTypes, IsHub
<1>1. CASE PublishStarts(c, r) /\ NamesFirst(r)
  <2>1. PICK sends \in Publish(hub, r.args[1], c, line[c] + 1) :
           work' = [work EXCEPT ![c] = sends]
    BY <1>1 DEF PublishStarts
  <2>2. hub' = hub /\ r.method = "PUBLISH" /\ pc' = [pc EXCEPT ![c] = "publish"]
    BY <1>1 DEF PublishStarts
  <2>3. r.args[1] \in Channel \cup {NoName}
    <3>1. r.args \in ArgsOf(r.method)
      BY RequestTypes
    <3>2. r.args \in Seq(Channel \cup {NoName, NotAString})
      BY <2>2, <3>1 DEF ArgsOf, Other
    <3> QED
      BY <1>1, <3>2 DEF NamesFirst
  <2>4. \A i \in DOMAIN sends : sends[i].via \in SubsIn(hub, sends[i].to)
    <3>1. line[c] + 1 \in Nat
      BY DEF HandlerTypes
    <3> QED
      BY <2>3, <3>1, PublishSends
  <2>5. \A d : Subscriptions(d)' = Subscriptions(d) /\ Subscriptions(d) = SubsIn(hub, d)
    <3>1. \A d : Subscriptions(d) = SubsIn(hub, d)
      BY SubscriptionsInHub DEF Typed
    <3> QED
      BY <2>2, <3>1 DEF Subscriptions, Channels, Patterns
  <2>6. /\ work'[c] = sends
        /\ \A p \in Client \ {c} : pc'[p] = pc[p] /\ work'[p] = work[p]
    BY <2>1, <2>2 DEF HandlerTypes, WorkTypes
  <2> QED
    BY <2>4, <2>5, <2>6 DEF SendsToSubscribers
<1>2. CASE ~(PublishStarts(c, r) /\ NamesFirst(r))
  <2>1. hub' = hub /\ \E to \in {"reply", "topics"} : pc' = [pc EXCEPT ![c] = to]
    BY <1>2 DEF NoCommand, PublishStarts, TopicsStart, InSubscriberMode, Multi, Exec, Discard, Command, Refuse, Says
  <2>2. work' = work \/ \E w : work' = [work EXCEPT ![c] = w]
    BY <1>2 DEF NoCommand, PublishStarts, TopicsStart, InSubscriberMode, Multi, Exec, Discard, Command, Refuse
  <2>3. \A p \in Client \ {c} : pc'[p] = pc[p] /\ work'[p] = work[p]
    BY <2>1, <2>2 DEF HandlerTypes, WorkTypes
  <2>4. pc'[c] # "publish"
    BY <2>1 DEF HandlerTypes
  <2> QED
    BY <2>1, <2>3, <2>4, SendsKept
<1> QED
  BY <1>1, <1>2

LEMMA NextSends ==
  ASSUME Typed, Typed', SendsToSubscribers, Next
  PROVE  SendsToSubscribers'
<1> HandlerTypes /\ WorkTypes
  BY DEF Typed
<1>1. CASE StopSteps \/ CloseQuit \/ (StartSteps /\ ~AddHandler) \/ \E c \in Client : Accept(c) \/ Write(c) \/ HangUp(c)
  <2>1. UNCHANGED <<hub, work, pc>>
    BY <1>1 DEF StopSteps, CloseQuit, CloseListener, LockConns, CloseDone, CloseSocket, Wait, Stopping,
                StartSteps, Listen, ReadListener, AcceptFails, Register, Starting,
                Write, TakeNext, WriteFails, WriterEnds, ClientReads, Writing, HangUp, Accept, handler
  <2> QED
    BY <2>1, SendsKept
<1>2. CASE AddHandler
  <2>1. UNCHANGED <<hub, work>> /\ pc' = [pc EXCEPT ![accepted] = "check"]
    BY <1>2 DEF AddHandler, Starting
  <2>2. \A p \in Client : pc'[p] = "publish" => pc[p] = "publish" /\ work'[p] = work[p]
    BY <2>1 DEF HandlerTypes
  <2> QED
    BY <2>1, <2>2, SendsKept
<1>3. ASSUME NEW c \in Client, LeaveHub(c) \/ TakeTopic(c)
      PROVE  SendsToSubscribers'
  <2>1. \A p \in Client : pc[p] # "publish"
    BY <1>3 DEF LeaveHub, TakeTopic, HubFree
  <2>2. \E to \in {"delete", "reply"} : pc' = [pc EXCEPT ![c] = to]
    BY <1>3 DEF LeaveHub, TakeTopic
  <2>3. \A p \in Client : pc'[p] # "publish"
    BY <2>1, <2>2 DEF HandlerTypes
  <2> QED
    BY <2>3 DEF SendsToSubscribers
<1>4. ASSUME NEW c \in Client, \/ Close(c) \/ LeaveConns(c) \/ HandlerDone(c)
                               \/ CheckQuit(c) \/ ReadFails(c) \/ TopicsEnd(c) \/ PublishEnds(c) \/ WriteResponse(c)
      PROVE  SendsToSubscribers'
  <2>1. /\ UNCHANGED <<hub, work>>
        /\ \E to \in Places \ {"publish"} : pc' = [pc EXCEPT ![c] = to]
    BY <1>4 DEF Close, LeaveConns, HandlerDone, Ending, CheckQuit, ReadFails, TopicsEnd, PublishEnds,
                WriteResponse, Places
  <2>2. \A p \in Client : pc'[p] = "publish" => pc[p] = "publish" /\ work'[p] = work[p]
    BY <2>1 DEF HandlerTypes
  <2> QED
    BY <2>1, <2>2, SendsKept
<1>5. ASSUME NEW c \in Client, HandleLine(c)
      PROVE  SendsToSubscribers'
  BY <1>5, LineSends DEF HandleLine
<1>6. ASSUME NEW c \in Client, SkipTopic(c)
      PROVE  SendsToSubscribers'
  <2>1. UNCHANGED <<hub, pc>> /\ pc[c] = "topics" /\ work' = [work EXCEPT ![c] = Tail(work[c])]
    BY <1>6 DEF SkipTopic
  <2>2. \A p \in Client : pc'[p] = "publish" => pc[p] = "publish" /\ work'[p] = work[p]
    BY <2>1 DEF WorkTypes
  <2> QED
    BY <2>1, <2>2, SendsKept
<1>7. ASSUME NEW c \in Client, Send(c)
      PROVE  SendsToSubscribers'
  <2>1. /\ UNCHANGED <<hub, pc>> /\ pc[c] = "publish" /\ work[c] # << >>
        /\ work' = [work EXCEPT ![c] = Tail(work[c])]
    BY <1>7 DEF Send
  <2>2. \A d : Subscriptions(d)' = Subscriptions(d)
    BY <2>1 DEF Subscriptions, Channels, Patterns
  <2>3. /\ work'[c] = Tail(work[c])
        /\ \A p \in Client \ {c} : work'[p] = work[p]
    BY <2>1 DEF WorkTypes
  <2>4. \A i \in DOMAIN work'[c] : i + 1 \in DOMAIN work[c] /\ work'[c][i] = work[c][i + 1]
    <3>1. work[c] \in Seq(Delivery)
      BY <2>1 DEF WorkTypes, WorkOf
    <3>2. \A i \in DOMAIN Tail(work[c]) : i + 1 \in DOMAIN work[c] /\ Tail(work[c])[i] = work[c][i + 1]
      BY <2>1, <3>1, TailShifts
    <3> QED
      BY <2>3, <3>2
  <2> QED
    BY <2>1, <2>2, <2>3, <2>4 DEF SendsToSubscribers
<1> QED
  BY <1>1, <1>2, <1>3, <1>4, <1>5, <1>6, <1>7, StepCases DEF Serve

-----------------------------------------------------------------------------
(* What a client is sent, and the ways it grows.                           *)
Sent == Answer \cup Ack \cup Push

LEMMA StreamType ==
  ASSUME Typed, NEW c \in Client
  PROVE  /\ Stream(c) \in Seq(Sent) /\ stream[c] \in Seq(Sent) /\ out[c] \in Seq(Sent)
         /\ IF pc[c] = "reply" THEN out[c] = <<out[c][1]>> ELSE out[c] = << >> /\ Stream(c) = stream[c]
<1>1. stream[c] \in Seq(Sent) /\ out[c] \in Seq(Sent) /\ OutputOf(c)
  BY DEF Typed, OutputTypes, Sent
<1>2. CASE pc[c] = "reply"
  BY <1>1, <1>2 DEF OutputOf, Stream
<1>3. CASE pc[c] # "reply"
  <2>1. out[c] = << >>
    BY <1>1, <1>3 DEF OutputOf
  <2> QED
    BY <1>1, <1>3, <2>1 DEF Stream
<1> QED
  BY <1>2, <1>3

Grows(c, x) == Stream(c)' = Append(Stream(c), x) /\ x \in Sent

LEMMA StreamSame ==
  ASSUME NEW c, stream'[c] = stream[c], out'[c] = out[c]
  PROVE  Stream(c)' = Stream(c)
BY DEF Stream

LEMMA StreamSaid ==
  ASSUME Typed, NEW c \in Client, NEW x \in Answer \cup Ack, pc[c] # "reply",
         stream'[c] = stream[c], out'[c] = <<x>>
  PROVE  Grows(c, x)
<1>1. Stream(c) = stream[c] /\ stream[c] \in Seq(Sent) /\ x \in Sent
  BY StreamType DEF Sent
<1>2. Stream(c)' = stream[c] \o <<x>>
  BY DEF Stream
<1> QED
  BY <1>1, <1>2, AppendIsConcat DEF Grows

(* A push goes before the answer that the handler is about to queue. *)
Pushes(c, x) ==
    /\ stream'[c] = Append(stream[c], x) /\ out'[c] = out[c] /\ x \in Push
    /\ \E p \in Client : Send(p) /\ x = [kind |-> "push", what |-> work[p][1]] /\ work[p][1].to = c

AnswerWith(c, x, a) == x = [kind |-> "answer", n |-> line'[c], says |-> a] /\ x \in Answer
LineGrows(c)  == HandleLine(c) /\ \E x, a : Says(c, a) /\ AnswerWith(c, x, a) /\ Grows(c, x)
CountGrows(c) == PublishEnds(c) /\ \E x : AnswerWith(c, x, "count") /\ Grows(c, x)
AckGrows(c)   == /\ TakeTopic(c)
                 /\ \E x \in Ack : /\ x.topic = work[c][1] /\ x.action = req[c].method
                                   /\ Grows(c, x)

(* What happens to c's stream in a step. *)
StreamSteps(c) == \/ Stream(c)' = Stream(c)
                  \/ link'[c] \notin {"none", "open"}
                  \/ LineGrows(c) \/ CountGrows(c) \/ AckGrows(c)
                  \/ \E x : Pushes(c, x)

LEMMA SaidGrows ==
  ASSUME Typed, NEW c \in Client, HandleLine(c), NEW a \in Sayings, Says(c, a)
  PROVE  \E x : AnswerWith(c, x, a) /\ Grows(c, x)
<1> HandlerTypes /\ OutputTypes
  BY DEF Typed
<1>1. pc[c] = "read" /\ line' = [line EXCEPT ![c] = @ + 1]
  BY DEF HandleLine, ReadLine
<1> DEFINE x == [kind |-> "answer", n |-> line[c] + 1, says |-> a]
<1>2. x \in Answer
  BY DEF HandlerTypes, Answer, Sayings
<1>3. out'[c] = <<x>> /\ stream' = stream
  BY LineChanges DEF Says, OutputTypes, output
<1>4. AnswerWith(c, x, a)
  BY <1>1, <1>2 DEF AnswerWith, HandlerTypes
<1> HIDE DEF x
<1>5. Grows(c, x)
  BY <1>1, <1>2, <1>3, StreamSaid
<1> QED
  BY <1>4, <1>5

LEMMA TopicAck ==
  ASSUME Typed, Typed', NEW c \in Client, TakeTopic(c)
  PROVE  AckGrows(c)
<1> DEFINE x == [kind |-> "ack", n |-> line[c], action |-> req[c].method,
                 topic |-> work[c][1], count |-> subCount'[c]]
<1>1. out'[c] = <<x>> /\ stream' = stream /\ pc[c] # "reply"
  BY DEF TakeTopic, Typed, OutputTypes, HandlerOnly, output
<1>2. x \in Ack /\ x.topic = work[c][1] /\ x.action = req[c].method
  <2>1. req[c].method \in Topics /\ work[c][1] \in Topic
    BY TopicTypes
  <2>2. line[c] \in Nat /\ subCount'[c] \in Nat
    BY DEF Typed, HandlerTypes
  <2> QED
    BY <2>1, <2>2 DEF Ack
<1> HIDE DEF x
<1>3. Grows(c, x)
  BY <1>1, <1>2, StreamSaid
<1> QED
  BY <1>2, <1>3 DEF AckGrows

LEMMA OwnStream ==
  ASSUME Typed, Typed', NEW c \in Client, Serve(c), ~Send(c)
  PROVE  StreamSteps(c)
<1> HandlerTypes /\ OutputTypes
  BY DEF Typed
<1>1. CASE CheckQuit(c) \/ ReadFails(c) \/ SkipTopic(c) \/ TopicsEnd(c)
  BY <1>1, StreamSame DEF CheckQuit, ReadFails, SkipTopic, TopicsEnd, HandlerOnly, output, StreamSteps
<1>2. CASE HandleLine(c)
  <2>1. PICK r \in menu.clients[c].requests :
          /\ ReadLine(c, r)
          /\ \/ NoCommand(c, r) \/ PublishStarts(c, r) \/ TopicsStart(c, r)
             \/ InSubscriberMode(c, r)
             \/ Multi(c, r) \/ Exec(c, r) \/ Discard(c, r) \/ Command(c, r)
    BY <1>2 DEF HandleLine
  <2>2. UNCHANGED <<stream, sent>> /\ pc[c] = "read" /\ line'[c] = line[c] + 1
    BY <1>2, <2>1, LineChanges DEF output, ReadLine, HandlerTypes
  <2>3. CASE out' = out
    BY <2>2, <2>3, StreamSame DEF StreamSteps
  <2>4. CASE \E a \in Sayings : Says(c, a)
    BY <1>2, <2>4, SaidGrows DEF LineGrows, StreamSteps
  <2> QED
    BY <2>1, <2>3, <2>4, LineAnswers
<1>3. CASE PublishEnds(c)
  <2> DEFINE x == [kind |-> "answer", n |-> line[c], says |-> "count"]
  <2>1. x \in Answer /\ line'[c] = line[c]
    BY <1>3 DEF HandlerTypes, Answer, PublishEnds
  <2>2. out'[c] = <<x>> /\ stream' = stream /\ pc[c] # "reply"
    BY <1>3 DEF PublishEnds, OutputTypes, HandlerOnly, output
  <2>3. AnswerWith(c, x, "count")
    BY <2>1 DEF AnswerWith
  <2> HIDE DEF x
  <2>4. Grows(c, x)
    BY <2>1, <2>2, StreamSaid
  <2> QED
    BY <1>3, <2>3, <2>4 DEF CountGrows, StreamSteps
<1>4. CASE TakeTopic(c)
  BY <1>4, TopicAck DEF StreamSteps
<1>5. CASE WriteResponse(c)
  <2>1. pc[c] = "reply" /\ out'[c] = << >> /\ link' = link
    BY <1>5 DEF WriteResponse, OutputTypes
  <2>2. \/ stream'[c] = stream[c] \o out[c]
        \/ link[c] \in {"closing", "closed"}
    BY <1>5 DEF WriteResponse, OutputTypes
  <2>3. CASE stream'[c] = stream[c] \o out[c]
    <3>1. stream[c] \o out[c] \in Seq(Sent)
      BY StreamType DEF Stream
    <3>2. Stream(c)' = (stream[c] \o out[c]) \o << >>
      BY <2>1, <2>3 DEF Stream
    <3>3. Stream(c)' = Stream(c)
      BY <3>1, <3>2 DEF Stream
    <3> QED
      BY <3>3 DEF StreamSteps
  <2> QED
    BY <2>1, <2>2, <2>3 DEF StreamSteps
<1> QED
  BY <1>1, <1>2, <1>3, <1>4, <1>5 DEF Serve

LEMMA SentStream ==
  ASSUME Typed, NEW c \in Client, NEW p \in Client, Send(p)
  PROVE  StreamSteps(c)
<1> DEFINE d == work[p][1].to
           x == [kind |-> "push", what |-> work[p][1]]
<1>1. work[p] \in Seq(Delivery) /\ work[p] # << >>
  BY DEF Send, Typed, WorkTypes, WorkOf
<1>2. work[p][1] \in Delivery
  BY <1>1
<1>3. x \in Push
  BY <1>2 DEF Push
<1>4. /\ out' = out
      /\ stream' = stream \/ stream' = [stream EXCEPT ![d] = Append(stream[d], x)]
  BY DEF Send
<1>5. d = work[p][1].to /\ x = [kind |-> "push", what |-> work[p][1]]
  OBVIOUS
<1> HIDE DEF d, x
<1>6. CASE stream'[c] = stream[c]
  BY <1>4, <1>6, StreamSame DEF StreamSteps
<1>7. CASE stream'[c] # stream[c]
  <2>1. d = c /\ stream'[c] = Append(stream[c], x)
    BY <1>4, <1>7 DEF Typed, OutputTypes
  <2>2. Pushes(c, x)
    BY <1>3, <1>4, <1>5, <2>1 DEF Pushes
  <2> QED
    BY <2>2 DEF StreamSteps
<1> QED
  BY <1>6, <1>7

LEMMA NextStream ==
  ASSUME Typed, Typed', Next, NEW c \in Client
  PROVE  StreamSteps(c)
<1> OutputTypes
  BY DEF Typed
<1>1. CASE StopSteps \/ CloseQuit \/ StartSteps
           \/ \E p \in Client : \/ Accept(p) \/ Write(p) \/ HangUp(p) \/ Close(p) \/ LeaveHub(p)
                                \/ LeaveConns(p) \/ HandlerDone(p)
  <2>1. UNCHANGED <<stream, out>>
    BY <1>1 DEF StopSteps, CloseQuit, CloseListener, LockConns, CloseDone, CloseSocket, Wait, Stopping,
                StartSteps, Listen, ReadListener, AcceptFails, Register, AddHandler, Starting,
                Write, TakeNext, WriteFails, WriterEnds, ClientReads, Writing, HangUp, Accept, handler, output,
                Close, LeaveHub, LeaveConns, HandlerDone, Ending
  <2> QED
    BY <2>1, StreamSame DEF StreamSteps
<1>2. ASSUME NEW p \in Client, Send(p)
      PROVE  StreamSteps(c)
  BY <1>2, SentStream
<1>3. ASSUME NEW p \in Client, Serve(p), ~Send(p), p # c
      PROVE  StreamSteps(c)
  <2>1. out'[c] = out[c]
    <3>1. out' = out \/ \E o : out' = [out EXCEPT ![p] = o]
      <4>1. CASE HandleLine(p)
        BY <4>1, LineAnswers DEF HandleLine, Says
      <4>2. CASE ~HandleLine(p)
        BY <1>3, <4>2 DEF Serve, CheckQuit, ReadFails, SkipTopic, TakeTopic, TopicsEnd, PublishEnds, WriteResponse
      <4> QED
        BY <4>1, <4>2
    <3> QED
      BY <1>3, <3>1 DEF OutputTypes
  <2>2. stream'[c] = stream[c]
    <3>1. stream' = stream \/ WriteResponse(p)
      BY <1>3, ServeChanges
    <3>2. stream' = stream \/ stream' = [stream EXCEPT ![p] = @ \o out[p]]
      BY <3>1 DEF WriteResponse
    <3> QED
      BY <1>3, <3>2 DEF OutputTypes
  <2> QED
    BY <2>1, <2>2, StreamSame DEF StreamSteps
<1>4. CASE Serve(c) /\ ~Send(c)
  BY <1>4, OwnStream
<1> QED
  BY <1>1, <1>2, <1>3, <1>4, StepCases

-----------------------------------------------------------------------------
(* No message after the acknowledgement.                                   *)
LEMMA KindsDiffer ==
  ASSUME NEW x \in Sent, NEW t
  PROVE  /\ x \in Answer => ~IsLeave(x, t) /\ ~IsPush(x, t)
         /\ x \in Ack => ~IsPush(x, t)
         /\ x \in Push => ~IsLeave(x, t) /\ x \notin Answer
         /\ x \in Ack => x \notin Answer
BY DEF Sent, Answer, Ack, Push, IsLeave, IsPush

LEMMA CleanEmpty ==
  ASSUME NEW t
  PROVE  Clean(<< >>, t)
BY DEF Clean

(* What is no message by way of t may follow. *)
LEMMA CleanAppend ==
  ASSUME NEW T, NEW s \in Seq(T), NEW x \in T, NEW t, Clean(s, t), ~IsPush(x, t)
  PROVE  Clean(Append(s, x), t)
<1> DEFINE r == Append(s, x)
<1>1. /\ DOMAIN s = 1 .. Len(s) /\ DOMAIN r = 1 .. Len(s) + 1 /\ Len(s) \in Nat
      /\ r[Len(s) + 1] = x /\ \A i \in DOMAIN s : r[i] = s[i]
  OBVIOUS
<1> HIDE DEF r
<1>2. ASSUME NEW i \in DOMAIN r, NEW j \in DOMAIN r, i < j, IsLeave(r[i], t), IsPush(r[j], t)
      PROVE  \E k \in DOMAIN r : k > j /\ IsLeave(r[k], t)
  <2>1. i \in DOMAIN s /\ j \in DOMAIN s
    BY <1>1, <1>2
  <2>2. IsLeave(s[i], t) /\ IsPush(s[j], t)
    BY <1>1, <1>2, <2>1
  <2>3. PICK k \in DOMAIN s : k > j /\ IsLeave(s[k], t)
    BY <1>2, <2>1, <2>2 DEF Clean
  <2>4. k \in DOMAIN r /\ r[k] = s[k]
    BY <1>1
  <2> QED
    BY <2>3, <2>4
<1> QED
  BY <1>2 DEF Clean, r

(* An acknowledgement clears what was before it. *)
LEMMA CleanLeft ==
  ASSUME NEW T, NEW s \in Seq(T), NEW x \in T, NEW t, IsLeave(x, t), ~IsPush(x, t)
  PROVE  Clean(Append(s, x), t)
<1> DEFINE r == Append(s, x)
           n == Len(s) + 1
<1>1. DOMAIN r = 1 .. n /\ n \in DOMAIN r /\ r[n] = x /\ n \in Nat
  OBVIOUS
<1> HIDE DEF r, n
<1>2. ASSUME NEW j \in DOMAIN r, IsPush(r[j], t)
      PROVE  n > j /\ IsLeave(r[n], t)
  BY <1>1, <1>2
<1> QED
  BY <1>1, <1>2 DEF Clean, r

(* A message by way of something else may come in between. *)
LEMMA CleanBetween ==
  ASSUME NEW T, NEW s \in Seq(T), NEW x \in T, NEW y \in T, NEW t,
         Clean(Append(s, y), t), ~IsPush(x, t), ~IsLeave(x, t)
  PROVE  Clean(Append(Append(s, x), y), t)
<1> DEFINE q == Append(s, y)
           r == Append(Append(s, x), y)
           n == Len(s) + 1
           f(i) == IF i = n + 1 THEN n ELSE i
           g(k) == IF k = n THEN n + 1 ELSE k
<1>1. /\ n \in Nat \ {0} /\ DOMAIN q = 1 .. n /\ DOMAIN r = 1 .. n + 1 /\ q[n] = y /\ r[n] = x /\ r[n + 1] = y
      /\ \A i \in 1 .. n - 1 : q[i] = s[i] /\ r[i] = s[i]
  OBVIOUS
<1> HIDE DEF q, r, n
<1>2. /\ \A i \in DOMAIN r : i # n => f(i) \in DOMAIN q /\ q[f(i)] = r[i]
      /\ \A k \in DOMAIN q : g(k) \in DOMAIN r /\ q[k] = r[g(k)]
  <2>1. \A i \in 1 .. n - 1 : q[i] = r[i]
    BY <1>1
  <2>2. q[n] = r[n + 1]
    BY <1>1
  <2>3. \A i \in DOMAIN r : i = n \/ i = n + 1 \/ i \in 1 .. n - 1
    BY <1>1
  <2>4. \A k \in DOMAIN q : k = n \/ k \in 1 .. n - 1
    BY <1>1
  <2>5. ASSUME NEW i \in DOMAIN r, i # n
        PROVE  f(i) \in DOMAIN q /\ q[f(i)] = r[i]
    <3>1. CASE i = n + 1
      BY <1>1, <2>2, <3>1
    <3>2. CASE i # n + 1
      <4>1. f(i) = i /\ i \in 1 .. n - 1
        BY <2>3, <2>5, <3>2
      <4>2. i \in DOMAIN q
        BY <1>1, <4>1
      <4> QED
        BY <2>1, <4>1, <4>2
    <3> QED
      BY <3>1, <3>2
  <2>6. ASSUME NEW k \in DOMAIN q
        PROVE  g(k) \in DOMAIN r /\ q[k] = r[g(k)]
    <3>1. CASE k = n
      BY <1>1, <2>2, <3>1
    <3>2. CASE k # n
      <4>1. g(k) = k /\ k \in 1 .. n - 1
        BY <2>4, <3>2
      <4>2. k \in DOMAIN r
        BY <1>1, <4>1
      <4> QED
        BY <2>1, <4>1, <4>2
    <3> QED
      BY <3>1, <3>2
  <2> HIDE DEF f, g
  <2> QED
    BY <2>5, <2>6
<1>. n \in Nat \ {0} /\ DOMAIN q = 1 .. n /\ DOMAIN r = 1 .. n + 1
  BY <1>1
<1>3. ASSUME NEW i \in DOMAIN r, NEW j \in DOMAIN r, i # n, j # n, i < j
      PROVE  f(i) < f(j)
  <2>1. i \in 1 .. n - 1 /\ f(i) = i
    BY <1>3
  <2>2. CASE j = n + 1
    BY <2>1, <2>2
  <2>3. CASE j # n + 1
    BY <1>3, <2>1, <2>3
  <2> QED
    BY <2>2, <2>3
<1>4. ASSUME NEW j \in DOMAIN r, NEW k \in DOMAIN q, j # n, k > f(j)
      PROVE  g(k) > j
  <2>1. j \in 1 .. n - 1 /\ f(j) = j
    BY <1>4
  <2>2. CASE k = n
    BY <2>1, <2>2
  <2>3. CASE k # n
    BY <1>4, <2>1, <2>3
  <2> QED
    BY <2>2, <2>3
<1>5. ASSUME NEW i \in DOMAIN r, NEW j \in DOMAIN r, i < j, IsLeave(r[i], t), IsPush(r[j], t)
      PROVE  \E k \in DOMAIN r : k > j /\ IsLeave(r[k], t)
  <2>1. i # n /\ j # n
    BY <1>1, <1>5
  <2>2. f(i) \in DOMAIN q /\ f(j) \in DOMAIN q /\ f(i) < f(j) /\ q[f(i)] = r[i] /\ q[f(j)] = r[j]
    BY <1>2, <1>3, <1>5, <2>1
  <2> HIDE DEF f, g
  <2>3. PICK k \in DOMAIN q : k > f(j) /\ IsLeave(q[k], t)
    BY <1>5, <2>2 DEF Clean, q
  <2> QED
    BY <1>2, <1>4, <2>1, <2>3
<1> QED
  BY <1>5 DEF Clean, r

LEMMA LinkBefore ==
  ASSUME Typed, Next, NEW c \in Client, link'[c] \in {"none", "open"}
  PROVE  link[c] \in {"none", "open"}
<1> HandlerTypes
  BY DEF Typed
<1>1. CASE StopSteps \/ \E p \in Client : Close(p)
  <2>1. link' = link \/ \E p \in Client : \E to \in {"closing", "closed"} : link' = [link EXCEPT ![p] = to]
    BY <1>1 DEF StopSteps, CloseListener, LockConns, CloseDone, CloseSocket, Wait, Close
  <2> QED
    BY <2>1 DEF HandlerTypes
<1>2. CASE CloseQuit \/ StartSteps
           \/ \E p \in Client : Write(p) \/ HangUp(p) \/ LeaveHub(p) \/ LeaveConns(p) \/ HandlerDone(p)
  <2>1. link' = link
    BY <1>2 DEF CloseQuit, StartSteps, Listen, ReadListener, AcceptFails, Register, AddHandler,
                Write, TakeNext, WriteFails, WriterEnds, ClientReads, Writing, HangUp,
                LeaveHub, LeaveConns, HandlerDone
  <2> QED
    BY <2>1
<1>3. ASSUME NEW p \in Client, Accept(p)
      PROVE  link[c] \in {"none", "open"}
  <2>1. link[p] = "none" /\ link' = [link EXCEPT ![p] = "open"]
    BY <1>3 DEF Accept
  <2> QED
    BY <2>1 DEF HandlerTypes
<1>4. ASSUME NEW p \in Client, Serve(p)
      PROVE  link[c] \in {"none", "open"}
  BY <1>4, ServeChanges
<1> QED
  BY <1>1, <1>2, <1>3, <1>4, StepCases

LEMMA NextClean ==
  ASSUME Typed, Typed', SendsToSubscribers, StreamsClean, Next
  PROVE  StreamsClean'
<1> SUFFICES ASSUME NEW c \in Client, link'[c] \in {"none", "open"},
                    NEW t \in (Channel \cup Pattern) \ Subscriptions(c)'
             PROVE  Clean(Stream(c)', t)
  BY DEF StreamsClean
<1> HandlerTypes /\ HubTypes /\ HubTypes'
  BY DEF Typed
<1>1. link[c] \in {"none", "open"}
  BY LinkBefore
<1>2. Subscriptions(c) = SubsIn(hub, c) /\ Subscriptions(c)' = SubsIn(hub', c)
  BY SubscriptionsInHub, SubscriptionsInNextHub
<1>3. \/ Subscriptions(c)' = Subscriptions(c)
      \/ TakeTopic(c)
  <2>1. ASSUME NEW p \in Client, LeaveHub(p)
        PROVE  Subscriptions(c)' = Subscriptions(c)
    <3>1. p # c
      BY <1>1, <2>1 DEF LeaveHub, Typed, LinkFollowsHandler, LinkOf
    <3>2. Concerns(hub, hub', p)
      BY <2>1, LeavingConcerns DEF LeaveHub, HubTypes, IsHub
    <3> QED
      BY <1>2, <3>1, <3>2 DEF Concerns, SubsIn
  <2>2. ASSUME NEW p \in Client, TakeTopic(p), p # c
        PROVE  Subscriptions(c)' = Subscriptions(c)
    BY <1>2, <2>2, TopicConcerns DEF Concerns, SubsIn
  <2>3. CASE hub' = hub
    BY <1>2, <2>3
  <2> QED
    BY <2>1, <2>2, <2>3, HubChanges
<1>4. Stream(c) \in Seq(Sent) /\ stream[c] \in Seq(Sent)
  BY StreamType
<1>5. ASSUME Subscriptions(c)' = Subscriptions(c)
      PROVE  Clean(Stream(c), t)
  BY <1>1, <1>5 DEF StreamsClean
<1>6. ASSUME NEW x \in Answer \cup Ack, Grows(c, x), Subscriptions(c)' = Subscriptions(c)
      PROVE  Clean(Stream(c)', t)
  <2>1. x \in Sent /\ ~IsPush(x, t)
    BY KindsDiffer DEF Sent
  <2> QED
    BY <1>4, <1>5, <1>6, <2>1, CleanAppend DEF Grows
<1>7. CASE TakeTopic(c)
  <2>1. PICK x \in Ack : x.topic = work[c][1] /\ x.action = req[c].method /\ Grows(c, x)
    BY <1>7, TopicAck DEF AckGrows
  <2>2. x \in Sent /\ ~IsPush(x, t)
    BY KindsDiffer DEF Sent
  <2>3. CASE t \in Subscriptions(c)
    <3>1. ~Subscribes(c) /\ t = work[c][1]
      BY <1>2, <1>7, <2>3, TopicConcerns
    <3>2. IsLeave(x, t)
      BY <1>7, <2>1, <3>1, TopicTypes DEF IsLeave, Subscribes, Topics, Ack
    <3> QED
      BY <1>4, <2>1, <2>2, <3>2, CleanLeft DEF Grows
  <2>4. CASE t \notin Subscriptions(c)
    <3>1. Clean(Stream(c), t)
      BY <1>1, <2>4 DEF StreamsClean
    <3> QED
      BY <1>4, <2>1, <2>2, <3>1, CleanAppend DEF Grows
  <2> QED
    BY <2>3, <2>4
<1>8. ASSUME NEW x, Pushes(c, x)
      PROVE  Clean(Stream(c)', t)
  <2>1. PICK p \in Client : Send(p) /\ x = [kind |-> "push", what |-> work[p][1]] /\ work[p][1].to = c
    BY <1>8 DEF Pushes
  <2>2. pc[p] = "publish" /\ work[p] # << >> /\ hub' = hub
    BY <2>1 DEF Send
  <2>3. Subscriptions(c)' = Subscriptions(c)
    BY <1>2, <2>2
  <2>4. work[p] \in Seq(Delivery)
    BY <2>2 DEF Typed, WorkTypes, WorkOf
  <2>5. work[p][1].via \in Subscriptions(c)
    <3>1. 1 \in DOMAIN work[p]
      BY <2>2, <2>4
    <3> QED
      BY <2>1, <2>2, <3>1 DEF SendsToSubscribers
  <2>6. ~IsPush(x, t) /\ ~IsLeave(x, t) /\ x \in Sent
    BY <1>8, <2>1, <2>3, <2>5, KindsDiffer DEF Pushes, IsPush, Sent
  <2>7. Clean(Stream(c), t)
    BY <1>5, <2>3
  <2>8. out'[c] = out[c] /\ stream'[c] = Append(stream[c], x)
    BY <1>8 DEF Pushes
  <2>9. CASE out[c] = << >>
    <3>1. Stream(c) = stream[c]
      BY <1>4, <2>9 DEF Stream
    <3>2. Stream(c)' = Append(stream[c], x)
      <4>1. Append(stream[c], x) \in Seq(Sent)
        BY <1>4, <2>6
      <4>2. Stream(c)' = Append(stream[c], x) \o << >>
        BY <2>8, <2>9 DEF Stream
      <4> QED
        BY <4>1, <4>2
    <3> QED
      BY <1>4, <2>6, <2>7, <3>1, <3>2, CleanAppend
  <2>10. CASE out[c] # << >>
    <3> DEFINE y == out[c][1]
    <3>1. out[c] = <<y>> /\ y \in Sent
      <4>1. out[c] \in Seq(Sent) /\ out[c] = <<out[c][1]>>
        BY <2>10, StreamType
      <4> QED
        BY <4>1
    <3> HIDE DEF y
    <3>2. Stream(c) = Append(stream[c], y)
      BY <1>4, <3>1, AppendIsConcat DEF Stream
    <3>3. Stream(c)' = Append(Append(stream[c], x), y)
      <4>1. Append(stream[c], x) \in Seq(Sent)
        BY <1>4, <2>6
      <4>2. Stream(c)' = Append(stream[c], x) \o <<y>>
        BY <2>8, <3>1 DEF Stream
      <4> QED
        BY <3>1, <4>1, <4>2, AppendIsConcat
    <3> QED
      BY <1>4, <2>6, <2>7, <3>1, <3>2, <3>3, CleanBetween
  <2> QED
    BY <2>9, <2>10
<1>9. CASE ~TakeTopic(c)
  <2>1. CASE Stream(c)' = Stream(c)
    BY <1>3, <1>5, <1>9, <2>1
  <2>2. CASE LineGrows(c) \/ CountGrows(c)
    <3>1. \E x \in Answer : Grows(c, x)
      BY <2>2 DEF LineGrows, CountGrows, AnswerWith
    <3> QED
      BY <1>3, <1>6, <1>9, <3>1
  <2> QED
    BY <1>8, <1>9, <2>1, <2>2, NextStream DEF StreamSteps, AckGrows
<1> QED
  BY <1>7, <1>9

LEMMA SpecClean == Spec => [](Typed /\ SendsToSubscribers /\ StreamsClean)
<1>1. Init => SendsToSubscribers /\ StreamsClean
  <2> SUFFICES ASSUME Init
               PROVE  SendsToSubscribers /\ StreamsClean
    OBVIOUS
  <2>1. SendsToSubscribers
    BY DEF Init, SendsToSubscribers
  <2>2. \A c \in Client : Stream(c) = << >> \o << >>
    BY DEF Init, Stream
  <2>3. \A c \in Client : Stream(c) = << >>
    BY <2>2
  <2> QED
    BY <2>1, <2>3, CleanEmpty DEF StreamsClean
<1>2. SendsToSubscribers /\ StreamsClean /\ UNCHANGED vars => (SendsToSubscribers /\ StreamsClean)'
  BY DEF SendsToSubscribers, StreamsClean, Stream, Subscriptions, Channels, Patterns, vars, handler, output
<1>3. /\ Typed /\ SendsToSubscribers /\ StreamsClean /\ [Next]_vars
      => (Typed /\ SendsToSubscribers /\ StreamsClean)'
  BY <1>2, TypedNext, NextSends, NextClean
<1> QED
  BY <1>1, <1>3, InitTyped, PTL DEF Spec

(* After the acknowledgement of an UNSUBSCRIBE or PUNSUBSCRIBE a client that *)
(* has not subscribed again is sent no message by way of that topic, with    *)
(* any number of publishers at work (Hub.Publish keeps the lock while it     *)
(* sends, sendResponse queues behind what Send has queued).                  *)
THEOREM UnsubscribedIsQuiet == Spec => []NoMessageAfterUnsubscribe
<1>1. Typed /\ StreamsClean => NoMessageAfterUnsubscribe
  <2> SUFFICES ASSUME Typed, StreamsClean, NEW c \in Client, link[c] = "open",
                      NEW t \in (Channel \cup Pattern) \ Subscriptions(c),
                      NEW i \in DOMAIN Stream(c), LeavesAt(c, t, i),
                      NEW j \in i + 1 .. Len(Stream(c)), PushedAt(c, t, j)
               PROVE  \E k \in i + 1 .. Len(Stream(c)) : LeavesAt(c, t, k)
    BY DEF NoMessageAfterUnsubscribe
  <2> DEFINE s == Stream(c)
  <2>1. s \in Seq(Sent)
    BY StreamType
  <2>2. Clean(s, t) /\ IsLeave(s[i], t) /\ IsPush(s[j], t)
    BY DEF StreamsClean, LeavesAt, PushedAt, IsLeave, IsPush
  <2> HIDE DEF s
  <2>3. DOMAIN s = 1 .. Len(s) /\ Len(s) \in Nat /\ i \in DOMAIN s /\ j \in i + 1 .. Len(s)
    BY <2>1 DEF s
  <2>4. j \in DOMAIN s /\ i < j
    BY <2>3
  <2>5. PICK k \in DOMAIN s : k > j /\ IsLeave(s[k], t)
    BY <2>2, <2>3, <2>4 DEF Clean
  <2>6. k \in i + 1 .. Len(s)
    BY <2>3, <2>4, <2>5
  <2> QED
    BY <2>5, <2>6 DEF s, IsLeave, LeavesAt
<1> QED
  BY <1>1, SpecClean, PTL

-----------------------------------------------------------------------------
(* What one answer more tells.                                             *)
LEMMA RanToldBy ==
  ASSUME NEW s, NEW m
  PROVE  m \in RanTold(s) <=> \E i \in DOMAIN s : TookPlace(s, i) /\ m = s[i].n
<1> DEFINE P(i) == TookPlace(s, i)
<1>1. RanTold(s) = {s[i].n : i \in {j \in DOMAIN s : P(j)}}
  BY DEF RanTold
<1> HIDE DEF P
<1>2. m \in RanTold(s) <=> \E i \in DOMAIN s : P(i) /\ m = s[i].n
  BY <1>1
<1> QED
  BY <1>2 DEF P

LEMMA QueuedToldBy ==
  ASSUME NEW s, NEW m
  PROVE  m \in QueuedTold(s) <=> \E i \in DOMAIN s : Pending(s, i) /\ m = s[i].n
<1> DEFINE P(i) == Pending(s, i)
<1>1. QueuedTold(s) = {s[i].n : i \in {j \in DOMAIN s : P(j)}}
  BY DEF QueuedTold
<1> HIDE DEF P
<1>2. m \in QueuedTold(s) <=> \E i \in DOMAIN s : P(i) /\ m = s[i].n
  BY <1>1
<1> QED
  BY <1>2 DEF P

IsAppend(r, s, x) == r = Append(s, x)

LEMMA OneMore ==
  ASSUME NEW s \in Seq(Answer), NEW x \in Answer, NEW r, IsAppend(r, s, x)
  PROVE  /\ Len(s) \in Nat /\ DOMAIN s = 1 .. Len(s) /\ DOMAIN r = 1 .. Len(s) + 1 /\ Len(r) = Len(s) + 1
         /\ r[Len(s) + 1] = x /\ \A i \in 1 .. Len(s) : r[i] = s[i] /\ i \in DOMAIN r /\ s[i] \in Answer
BY DEF IsAppend

(* No end of a transaction after i: in the longer sequence, not by x either. *)
LEMMA EndsAfter ==
  ASSUME NEW s \in Seq(Answer), NEW x \in Answer, NEW r, IsAppend(r, s, x), NEW i \in 1 .. Len(s)
  PROVE  (\A j \in i + 1 .. Len(r) : ~EndsTx(r[j])) <=> (\A j \in i + 1 .. Len(s) : ~EndsTx(s[j])) /\ ~EndsTx(x)
<1>1. /\ Len(s) \in Nat /\ Len(r) = Len(s) + 1 /\ r[Len(s) + 1] = x
      /\ \A j \in 1 .. Len(s) : r[j] = s[j]
  BY OneMore
<1>2. \A j \in i + 1 .. Len(s) : j \in 1 .. Len(s) /\ r[j] = s[j] /\ j \in i + 1 .. Len(r)
  BY <1>1
<1>3. \A j \in i + 1 .. Len(r) : j = Len(s) + 1 \/ j \in i + 1 .. Len(s)
  BY <1>1
<1>4. Len(s) + 1 \in i + 1 .. Len(r)
  BY <1>1
<1> QED
  BY <1>1, <1>2, <1>3, <1>4

LEMMA AnswerTells ==
  ASSUME NEW s \in Seq(Answer), NEW x \in Answer, NEW r, IsAppend(r, s, x)
  PROVE  /\ RanTold(r) = RanTold(s) \cup (IF x.says = "exec" THEN QueuedTold(s) ELSE {})
                                    \cup (IF x.says = "result" THEN {x.n} ELSE {})
         /\ QueuedTold(r) = IF EndsTx(x) THEN {}
                            ELSE QueuedTold(s) \cup (IF x.says = "queued" THEN {x.n} ELSE {})
         /\ InTx(r) <=> x.says = "multi" \/ (InTx(s) /\ ~EndsTx(x))
<1> DEFINE n == Len(s)
<1>1. /\ n \in Nat /\ DOMAIN s = 1 .. n /\ DOMAIN r = 1 .. n + 1 /\ Len(r) = n + 1
      /\ r[n + 1] = x /\ \A i \in 1 .. n : r[i] = s[i] /\ i \in DOMAIN r
  BY OneMore
<1>2. \A i \in DOMAIN r : i = n + 1 \/ i \in 1 .. n
  BY <1>1
<1>3. n + 1 \in DOMAIN r
  BY <1>1
<1>4. ASSUME NEW i \in 1 .. n
      PROVE  /\ TookPlace(r, i) <=> TookPlace(s, i) \/ (x.says = "exec" /\ Pending(s, i))
             /\ Pending(r, i) <=> Pending(s, i) /\ ~EndsTx(x)
  <2>1. /\ r[i] = s[i]
        /\ (\A j \in i + 1 .. n + 1 : ~EndsTx(r[j])) <=> (\A j \in i + 1 .. n : ~EndsTx(s[j])) /\ ~EndsTx(x)
    BY <1>1, EndsAfter
  <2>2. Pending(r, i) <=> Pending(s, i) /\ ~EndsTx(x)
    BY <1>1, <2>1 DEF Pending
  <2> DEFINE Done(q, m) == \E j \in i + 1 .. m : /\ q[j].says = "exec"
                                                 /\ \A k \in i + 1 .. j - 1 : ~EndsTx(q[k])
  <2>3. /\ \A j \in i + 1 .. n : /\ r[j] = s[j] /\ j \in i + 1 .. n + 1
                                 /\ \A k \in i + 1 .. j - 1 : r[k] = s[k]
        /\ \A k \in i + 1 .. n : r[k] = s[k]
        /\ \A j \in i + 1 .. n + 1 : j = n + 1 \/ j \in i + 1 .. n
        /\ n + 1 \in i + 1 .. n + 1 /\ (n + 1) - 1 = n
    BY <1>1
  <2>4. Done(r, n + 1) <=> Done(s, n) \/ (x.says = "exec" /\ \A k \in i + 1 .. n : ~EndsTx(s[k]))
    <3>1. ASSUME Done(s, n)
          PROVE  Done(r, n + 1)
      <4>1. PICK j \in i + 1 .. n : s[j].says = "exec" /\ \A k \in i + 1 .. j - 1 : ~EndsTx(s[k])
        BY <3>1
      <4> QED
        BY <2>3, <4>1
    <3>2. ASSUME x.says = "exec", \A k \in i + 1 .. n : ~EndsTx(s[k])
          PROVE  Done(r, n + 1)
      BY <1>1, <2>3, <3>2
    <3>3. ASSUME Done(r, n + 1)
          PROVE  Done(s, n) \/ (x.says = "exec" /\ \A k \in i + 1 .. n : ~EndsTx(s[k]))
      <4>1. PICK j \in i + 1 .. n + 1 : r[j].says = "exec" /\ \A k \in i + 1 .. j - 1 : ~EndsTx(r[k])
        BY <3>3
      <4>2. CASE j = n + 1
        BY <1>1, <2>3, <4>1, <4>2
      <4>3. CASE j \in i + 1 .. n
        BY <2>3, <4>1, <4>3
      <4> QED
        BY <2>3, <4>2, <4>3
    <3> QED
      BY <3>1, <3>2, <3>3
  <2>5. TookPlace(r, i) <=> s[i].says = "result" \/ (s[i].says = "queued" /\ Done(r, n + 1))
    BY <1>1, <2>1 DEF TookPlace
  <2>6. TookPlace(s, i) <=> s[i].says = "result" \/ (s[i].says = "queued" /\ Done(s, n))
    BY <1>1 DEF TookPlace
  <2> HIDE DEF Done
  <2>7. Pending(s, i) <=> s[i].says = "queued" /\ \A k \in i + 1 .. n : ~EndsTx(s[k])
    BY DEF Pending
  <2> QED
    BY <2>2, <2>4, <2>5, <2>6, <2>7
<1>5. /\ TookPlace(r, n + 1) <=> x.says = "result"
      /\ Pending(r, n + 1) <=> x.says = "queued"
  <2>1. \A j \in (n + 1) + 1 .. n + 1 : FALSE
    BY <1>1
  <2> QED
    BY <1>1, <2>1 DEF TookPlace, Pending
<1> HIDE DEF n
<1>6. RanTold(r) = RanTold(s) \cup (IF x.says = "exec" THEN QueuedTold(s) ELSE {})
                              \cup (IF x.says = "result" THEN {x.n} ELSE {})
  <2>1. ASSUME NEW m
        PROVE  m \in RanTold(r) <=> \/ m \in RanTold(s)
                                    \/ x.says = "exec" /\ m \in QueuedTold(s)
                                    \/ x.says = "result" /\ m = x.n
    <3>1. m \in RanTold(r) <=> \E i \in DOMAIN r : TookPlace(r, i) /\ m = r[i].n
      BY RanToldBy
    <3>2. m \in RanTold(s) <=> \E i \in DOMAIN s : TookPlace(s, i) /\ m = s[i].n
      BY RanToldBy
    <3>3. m \in QueuedTold(s) <=> \E i \in DOMAIN s : Pending(s, i) /\ m = s[i].n
      BY QueuedToldBy
    <3> QED
      BY <1>1, <1>2, <1>3, <1>4, <1>5, <3>1, <3>2, <3>3
  <2> QED
    BY <2>1
<1>7. QueuedTold(r) = IF EndsTx(x) THEN {}
                      ELSE QueuedTold(s) \cup (IF x.says = "queued" THEN {x.n} ELSE {})
  <2>1. ASSUME NEW m
        PROVE  m \in QueuedTold(r) <=> \/ m \in QueuedTold(s) /\ ~EndsTx(x)
                                       \/ x.says = "queued" /\ m = x.n
    <3>1. m \in QueuedTold(r) <=> \E i \in DOMAIN r : Pending(r, i) /\ m = r[i].n
      BY QueuedToldBy
    <3>2. m \in QueuedTold(s) <=> \E i \in DOMAIN s : Pending(s, i) /\ m = s[i].n
      BY QueuedToldBy
    <3> QED
      BY <1>1, <1>2, <1>3, <1>4, <1>5, <3>1, <3>2
  <2>2. x.says = "queued" => ~EndsTx(x)
    BY DEF EndsTx
  <2> QED
    BY <2>1, <2>2
<1>8. InTx(r) <=> x.says = "multi" \/ (InTx(s) /\ ~EndsTx(x))
  <2>1. ASSUME NEW i \in 1 .. n
        PROVE  /\ r[i] = s[i]
               /\ (\A j \in i + 1 .. Len(r) : ~EndsTx(r[j])) <=> (\A j \in i + 1 .. Len(s) : ~EndsTx(s[j])) /\ ~EndsTx(x)
    BY <1>1, EndsAfter DEF n
  <2>2. \A j \in (n + 1) + 1 .. Len(r) : FALSE
    BY <1>1
  <2>3. ASSUME InTx(r)
        PROVE  x.says = "multi" \/ (InTx(s) /\ ~EndsTx(x))
    <3>1. PICK i \in DOMAIN r : r[i].says = "multi" /\ \A j \in i + 1 .. Len(r) : ~EndsTx(r[j])
      BY <2>3 DEF InTx
    <3> QED
      BY <1>1, <1>2, <2>1, <3>1 DEF InTx
  <2>4. ASSUME InTx(s), ~EndsTx(x)
        PROVE  InTx(r)
    <3>1. PICK i \in DOMAIN s : s[i].says = "multi" /\ \A j \in i + 1 .. Len(s) : ~EndsTx(s[j])
      BY <2>4 DEF InTx
    <3> QED
      BY <1>1, <2>1, <2>4, <3>1 DEF InTx
  <2>5. ASSUME x.says = "multi"
        PROVE  InTx(r)
    BY <1>1, <1>3, <2>2, <2>5 DEF InTx
  <2> QED
    BY <2>3, <2>4, <2>5
<1> QED
  BY <1>6, <1>7, <1>8

(* The numbers of lines.                                                   *)
LEMMA NumbersAppend ==
  ASSUME NEW q \in Seq(Nat), NEW l \in Nat, Numbers(q, l)
  PROVE  Numbers(Append(q, l + 1), l + 1) /\ Numbers(q, l + 1)
<1> DEFINE r == Append(q, l + 1)
<1>1. /\ DOMAIN q = 1 .. Len(q) /\ DOMAIN r = 1 .. Len(q) + 1 /\ Len(q) \in Nat
      /\ r[Len(q) + 1] = l + 1 /\ \A i \in 1 .. Len(q) : r[i] = q[i] /\ q[i] \in Nat
  OBVIOUS
<1> HIDE DEF r
<1>2. \A i \in DOMAIN r : i = Len(q) + 1 \/ i \in 1 .. Len(q)
  BY <1>1
<1>3. \A i \in 1 .. Len(q) : r[i] <= l
  BY <1>1 DEF Numbers
<1>4. Numbers(r, l + 1)
  <2>1. ASSUME NEW i \in DOMAIN r, NEW j \in DOMAIN r, i < j
        PROVE  r[i] < r[j]
    <3>1. i \in 1 .. Len(q)
      BY <1>1, <1>2, <2>1
    <3>2. CASE j = Len(q) + 1
      BY <1>1, <1>3, <3>1, <3>2
    <3>3. CASE j \in 1 .. Len(q)
      BY <1>1, <2>1, <3>1, <3>3 DEF Numbers
    <3> QED
      BY <1>2, <3>2, <3>3
  <2>2. \A i \in DOMAIN r : r[i] <= l + 1
    BY <1>1, <1>2, <1>3
  <2> QED
    BY <2>1, <2>2 DEF Numbers
<1>5. Numbers(q, l + 1)
  BY <1>1 DEF Numbers
<1> QED
  BY <1>4, <1>5 DEF r

LEMMA NumbersPrefix ==
  ASSUME NEW q \in Seq(Nat), NEW u \in Seq(Nat), NEW l \in Nat, Numbers(q \o u, l)
  PROVE  Numbers(q, l)
<1> DEFINE r == q \o u
<1>1. /\ DOMAIN q = 1 .. Len(q) /\ DOMAIN r = 1 .. Len(q) + Len(u) /\ Len(q) \in Nat /\ Len(u) \in Nat
      /\ \A i \in 1 .. Len(q) : r[i] = q[i] /\ i \in 1 .. Len(q) + Len(u)
  OBVIOUS
<1>2. Numbers(r, l)
  OBVIOUS
<1> HIDE DEF r
<1> QED
  BY <1>1, <1>2 DEF Numbers

LEMMA JoinedSequences ==
  ASSUME NEW q \in Seq(Nat), NEW u \in Seq(Nat), NEW m \in Nat
  PROVE  /\ q \o << >> = q /\ q \o u \in Seq(Nat)
         /\ q \o Append(u, m) = Append(q \o u, m)
         /\ Range(q \o u) = Range(q) \cup Range(u) /\ Range(<< >>) = {}
         /\ Range(Append(q, m)) = Range(q) \cup {m}
<1>1. Range(q \o u) = Range(q) \cup Range(u)
  <2> DEFINE r == q \o u
  <2>1. /\ DOMAIN q = 1 .. Len(q) /\ DOMAIN u = 1 .. Len(u) /\ DOMAIN r = 1 .. Len(q) + Len(u)
        /\ Len(q) \in Nat /\ Len(u) \in Nat
        /\ \A i \in 1 .. Len(q) : r[i] = q[i]
        /\ \A i \in 1 .. Len(u) : r[Len(q) + i] = u[i]
    OBVIOUS
  <2> HIDE DEF r
  <2>2. \A i \in DOMAIN r : i \in DOMAIN q \/ i - Len(q) \in DOMAIN u
    BY <2>1
  <2>3. \A i \in DOMAIN q : i \in DOMAIN r /\ r[i] = q[i]
    BY <2>1
  <2>4. \A i \in DOMAIN u : Len(q) + i \in DOMAIN r /\ r[Len(q) + i] = u[i]
    BY <2>1
  <2>5. \A i \in DOMAIN r : r[i] \in Range(q) \cup Range(u)
    <3> TAKE i \in DOMAIN r
    <3>1. CASE i \in DOMAIN q
      BY <2>3, <3>1 DEF Range
    <3>2. CASE i - Len(q) \in DOMAIN u
      <4>1. i = Len(q) + (i - Len(q))
        BY <2>1
      <4>2. r[i] = u[i - Len(q)]
        BY <2>4, <3>2, <4>1
      <4> QED
        BY <3>2, <4>2 DEF Range
    <3> QED
      BY <2>2, <3>1, <3>2
  <2>6. \A i \in DOMAIN q : q[i] \in Range(r)
    BY <2>3 DEF Range
  <2>7. \A i \in DOMAIN u : u[i] \in Range(r)
    BY <2>4 DEF Range
  <2>8. Range(r) \subseteq Range(q) \cup Range(u) /\ Range(q) \subseteq Range(r) /\ Range(u) \subseteq Range(r)
    BY <2>5, <2>6, <2>7 DEF Range
  <2> QED
    BY <2>8 DEF r
<1>2. Range(Append(q, m)) = Range(q) \cup {m}
  BY RangeOfAppend
<1>3. Range(<< >>) = {}
  BY DEF Range
<1>4. q \o << >> = q /\ q \o u \in Seq(Nat)
  OBVIOUS
<1>5. q \o Append(u, m) = Append(q \o u, m)
  OBVIOUS
<1> QED
  BY <1>1, <1>2, <1>3, <1>4, <1>5

(* What becomes of a transaction when line n is read and answered by a.    *)
NextTx(a, n, q, t, q2, t2) ==
    \/ a \in {"error", "ok", "count"} /\ q2 = q /\ t2 = t
    \/ a = "multi" /\ ~t.open /\ q2 = q /\ t2 = [open |-> TRUE, queued |-> << >>]
    \/ a = "exec" /\ t.open /\ q2 = q \o t.queued /\ t2 = NoTx
    \/ a \in {"failed", "discard"} /\ t.open /\ q2 = q /\ t2 = NoTx
    \/ a = "queued" /\ t.open /\ q2 = q /\ t2 = [open |-> TRUE, queued |-> Append(t.queued, n)]
    \/ a = "result" /\ ~t.open /\ q2 = Append(q, n) /\ t2 = t

LEMMA TxTells ==
  ASSUME NEW s \in Seq(Answer), NEW x \in Answer,
         NEW q \in Seq(Nat), NEW t \in [open : BOOLEAN, queued : Seq(Nat)], NEW q2, NEW t2,
         NextTx(x.says, x.n, q, t, q2, t2), t.open \/ t.queued = << >>,
         Telling(s, q, t.open, t.queued)
  PROVE  Telling(Append(s, x), q2, t2.open, t2.queued)
<1> DEFINE r == Append(s, x)
<1>1. /\ RanTold(r) = RanTold(s) \cup (IF x.says = "exec" THEN QueuedTold(s) ELSE {})
                                 \cup (IF x.says = "result" THEN {x.n} ELSE {})
      /\ QueuedTold(r) = IF EndsTx(x) THEN {}
                         ELSE QueuedTold(s) \cup (IF x.says = "queued" THEN {x.n} ELSE {})
      /\ InTx(r) <=> x.says = "multi" \/ (InTx(s) /\ ~EndsTx(x))
  <2>1. IsAppend(r, s, x)
    BY DEF IsAppend
  <2> HIDE DEF r
  <2> QED
    BY <2>1, AnswerTells
<1> HIDE DEF r
<1>2. /\ t.open \in BOOLEAN /\ t.queued \in Seq(Nat) /\ x.n \in Nat
      /\ Range(q) = RanTold(s) /\ Range(t.queued) = QueuedTold(s) /\ (t.open <=> InTx(s))
  BY DEF Telling, Answer
<1>3. /\ Range(q \o t.queued) = Range(q) \cup Range(t.queued) /\ Range(<< >>) = {}
      /\ Range(Append(q, x.n)) = Range(q) \cup {x.n}
      /\ Range(Append(t.queued, x.n)) = Range(t.queued) \cup {x.n}
  BY <1>2, JoinedSequences
<1>4. Telling(r, q2, t2.open, t2.queued)
  <2>1. CASE x.says \in {"error", "ok", "count"} /\ q2 = q /\ t2 = t
    BY <1>1, <1>2, <2>1 DEF Telling, EndsTx
  <2>2. CASE x.says = "multi" /\ ~t.open /\ q2 = q /\ t2 = [open |-> TRUE, queued |-> << >>]
    BY <1>1, <1>2, <1>3, <2>2 DEF Telling, EndsTx
  <2>3. CASE x.says = "exec" /\ t.open /\ q2 = q \o t.queued /\ t2 = NoTx
    BY <1>1, <1>2, <1>3, <2>3 DEF Telling, EndsTx, NoTx
  <2>4. CASE x.says \in {"failed", "discard"} /\ t.open /\ q2 = q /\ t2 = NoTx
    BY <1>1, <1>2, <1>3, <2>4 DEF Telling, EndsTx, NoTx
  <2>5. CASE x.says = "queued" /\ t.open /\ q2 = q /\ t2 = [open |-> TRUE, queued |-> Append(t.queued, x.n)]
    BY <1>1, <1>2, <1>3, <2>5 DEF Telling, EndsTx
  <2>6. CASE x.says = "result" /\ ~t.open /\ q2 = Append(q, x.n) /\ t2 = t
    BY <1>1, <1>2, <1>3, <2>6 DEF Telling, EndsTx
  <2> QED
    BY <2>1, <2>2, <2>3, <2>4, <2>5, <2>6 DEF NextTx
<1> QED
  BY <1>4 DEF r

LEMMA TxNumbers ==
  ASSUME NEW l \in Nat, NEW a,
         NEW q \in Seq(Nat), NEW t \in [open : BOOLEAN, queued : Seq(Nat)], NEW q2, NEW t2,
         NextTx(a, l + 1, q, t, q2, t2), t.open \/ t.queued = << >>,
         Numbers(q \o t.queued, l)
  PROVE  Numbers(q2 \o t2.queued, l + 1) /\ (t2.open \/ t2.queued = << >>)
<1> DEFINE u == t.queued
<1>1. u \in Seq(Nat) /\ l + 1 \in Nat /\ q \o u \in Seq(Nat)
  BY JoinedSequences
<1>2. Numbers(q \o u, l + 1) /\ Numbers(Append(q \o u, l + 1), l + 1)
  BY <1>1, NumbersAppend
<1>3. Numbers(q, l + 1)
  <2> HIDE DEF u
  <2> QED
    BY <1>1, <1>2, NumbersPrefix
<1>4. q \o << >> = q /\ (q \o u) \o << >> = q \o u /\ q \o Append(u, l + 1) = Append(q \o u, l + 1)
  BY <1>1, JoinedSequences
<1>5. CASE a \in {"error", "ok", "count"} /\ q2 = q /\ t2 = t
  BY <1>2, <1>5
<1>6. CASE t2.queued = << >> /\ q2 = q
  BY <1>3, <1>4, <1>6
<1>7. CASE a = "exec" /\ t.open /\ q2 = q \o u /\ t2 = NoTx
  BY <1>2, <1>4, <1>7 DEF NoTx
<1>8. CASE a = "queued" /\ t.open /\ q2 = q /\ t2 = [open |-> TRUE, queued |-> Append(u, l + 1)]
  BY <1>2, <1>4, <1>8
<1>9. CASE a = "result" /\ ~t.open /\ q2 = Append(q, l + 1) /\ t2 = t
  <2>1. u = << >>
    BY <1>9
  <2>2. Append(q, l + 1) \o << >> = Append(q, l + 1) /\ q \o u = q
    BY <1>1, <1>4, <2>1
  <2> QED
    BY <1>2, <1>9, <2>1, <2>2
<1>10. CASE a = "multi" /\ q2 = q /\ t2 = [open |-> TRUE, queued |-> << >>]
  BY <1>6, <1>10
<1>11. CASE a \in {"failed", "discard"} /\ q2 = q /\ t2 = NoTx
  BY <1>6, <1>11 DEF NoTx
<1> QED
  BY <1>5, <1>7, <1>8, <1>9, <1>10, <1>11 DEF NextTx

(* What a line does to the transaction, and how it is answered.            *)
LEMMA LineTx ==
  ASSUME HandlerTypes, NEW c \in Client, NEW r, ReadLine(c, r),
         \/ NoCommand(c, r) \/ PublishStarts(c, r) \/ TopicsStart(c, r)
         \/ InSubscriberMode(c, r)
         \/ Multi(c, r) \/ Exec(c, r) \/ Discard(c, r) \/ Command(c, r)
  PROVE  /\ \/ out' = out /\ tx' = tx /\ ran' = ran
            \/ \E a \in Sayings : Says(c, a) /\ NextTx(a, line[c] + 1, ran[c], tx[c], ran'[c], tx'[c])
         /\ \A d \in Client \ {c} : tx'[d] = tx[d] /\ ran'[d] = ran[d]
<1>1. tx[c] = [open |-> tx[c].open, queued |-> tx[c].queued] /\ tx[c].open \in BOOLEAN
  BY DEF HandlerTypes
<1>2. ASSUME Refuse(c)
      PROVE  Says(c, "error") /\ tx' = tx /\ ran' = ran
  BY <1>2 DEF Refuse
<1>3. CASE PublishStarts(c, r) \/ TopicsStart(c, r) \/ InSubscriberMode(c, r) \/ NoCommand(c, r)
  <2>1. tx' = tx /\ ran' = ran
    BY <1>3 DEF PublishStarts, TopicsStart, InSubscriberMode, NoCommand, Refuse
  <2>2. out' = out \/ \E a \in {"ok", "error"} : Says(c, a)
    BY <1>3 DEF PublishStarts, TopicsStart, InSubscriberMode, NoCommand, Refuse
  <2> QED
    BY <2>1, <2>2 DEF NextTx, Sayings
<1>4. CASE Multi(c, r)
  <2>1. CASE Refuse(c)
    BY <1>2, <2>1 DEF NextTx, Sayings
  <2>2. CASE ~Refuse(c)
    <3>1. /\ ~tx[c].open /\ tx' = [tx EXCEPT ![c] = [open |-> TRUE, queued |-> << >>]]
          /\ Says(c, "multi") /\ ran' = ran
      BY <1>4, <2>2 DEF Multi
    <3>2. tx'[c] = [open |-> TRUE, queued |-> << >>] /\ \A d \in Client \ {c} : tx'[d] = tx[d]
      BY <3>1 DEF HandlerTypes
    <3> QED
      BY <3>1, <3>2 DEF NextTx, Sayings
  <2> QED
    BY <2>1, <2>2
<1>5. CASE Exec(c, r)
  <2>1. CASE Refuse(c)
    BY <1>2, <2>1 DEF NextTx, Sayings
  <2>2. CASE ~Refuse(c)
    <3>1. /\ tx[c].open /\ tx' = [tx EXCEPT ![c] = NoTx]
          /\ \/ Says(c, "exec") /\ ran' = [ran EXCEPT ![c] = ran[c] \o tx[c].queued]
             \/ Says(c, "failed") /\ ran' = ran
      BY <1>5, <2>2 DEF Exec
    <3>2. tx'[c] = NoTx /\ \A d \in Client \ {c} : tx'[d] = tx[d] /\ ran'[d] = ran[d]
      BY <3>1 DEF HandlerTypes
    <3>3. \/ Says(c, "exec") /\ ran'[c] = ran[c] \o tx[c].queued
          \/ Says(c, "failed") /\ ran'[c] = ran[c]
      BY <3>1 DEF HandlerTypes
    <3> QED
      BY <3>1, <3>2, <3>3 DEF NextTx, Sayings
  <2> QED
    BY <2>1, <2>2
<1>6. CASE Discard(c, r)
  <2>1. CASE Refuse(c)
    BY <1>2, <2>1 DEF NextTx, Sayings
  <2>2. CASE ~Refuse(c)
    <3>1. tx[c].open /\ tx' = [tx EXCEPT ![c] = NoTx] /\ Says(c, "discard") /\ ran' = ran
      BY <1>6, <2>2 DEF Discard
    <3>2. tx'[c] = NoTx /\ \A d \in Client \ {c} : tx'[d] = tx[d]
      BY <3>1 DEF HandlerTypes
    <3> QED
      BY <3>1, <3>2 DEF NextTx, Sayings
  <2> QED
    BY <2>1, <2>2
<1>7. CASE Command(c, r) /\ tx[c].open
  <2>1. /\ tx' = [tx EXCEPT ![c].queued = Append(tx[c].queued, line[c] + 1)]
        /\ Says(c, "queued") /\ ran' = ran
    BY <1>7 DEF Command
  <2>2. /\ tx'[c] = [tx[c] EXCEPT !.queued = Append(tx[c].queued, line[c] + 1)]
        /\ \A d \in Client \ {c} : tx'[d] = tx[d]
    BY <2>1 DEF HandlerTypes
  <2>3. tx'[c] = [open |-> TRUE, queued |-> Append(tx[c].queued, line[c] + 1)]
    BY <1>1, <1>7, <2>2
  <2> QED
    BY <1>7, <2>1, <2>2, <2>3 DEF NextTx, Sayings
<1>8. CASE Command(c, r) /\ ~tx[c].open
  <2>1. /\ ran' = [ran EXCEPT ![c] = Append(ran[c], line[c] + 1)]
        /\ Says(c, "result") /\ tx' = tx
    BY <1>8 DEF Command
  <2>2. /\ ran'[c] = Append(ran[c], line[c] + 1)
        /\ \A d \in Client \ {c} : ran'[d] = ran[d]
    BY <2>1 DEF HandlerTypes
  <2> QED
    BY <1>8, <2>1, <2>2 DEF NextTx, Sayings
<1> QED
  BY <1>3, <1>4, <1>5, <1>6, <1>7, <1>8

(* Only a line that is read touches any of this. *)
LEMMA TxIdle ==
  ASSUME Typed, Next, NEW c \in Client, ~HandleLine(c)
  PROVE  UNCHANGED <<line[c], tx[c], ran[c]>>
<1> HandlerTypes
  BY DEF Typed
<1>1. CASE StopSteps \/ CloseQuit \/ StartSteps
           \/ \E p \in Client : \/ Accept(p) \/ Write(p) \/ HangUp(p) \/ Close(p) \/ LeaveHub(p)
                                \/ LeaveConns(p) \/ HandlerDone(p)
  <2>1. UNCHANGED <<line, tx, ran>>
    BY <1>1 DEF StopSteps, CloseQuit, CloseListener, LockConns, CloseDone, CloseSocket, Wait, Stopping,
                StartSteps, Listen, ReadListener, AcceptFails, Register, AddHandler, Starting,
                Write, TakeNext, WriteFails, WriterEnds, ClientReads, Writing, HangUp, Accept, handler,
                Close, LeaveHub, LeaveConns, HandlerDone, Ending
  <2> QED
    BY <2>1
<1>2. ASSUME NEW p \in Client, Serve(p), ~HandleLine(p)
      PROVE  UNCHANGED <<line[c], tx[c], ran[c]>>
  BY <1>2 DEF Serve, CheckQuit, ReadFails, SkipTopic, TakeTopic, TopicsEnd, Send, PublishEnds, WriteResponse
<1>3. ASSUME NEW p \in Client, HandleLine(p)
      PROVE  UNCHANGED <<line[c], tx[c], ran[c]>>
  <2>1. p # c
    BY <1>3
  <2>2. PICK r \in menu.clients[p].requests :
          /\ ReadLine(p, r)
          /\ \/ NoCommand(p, r) \/ PublishStarts(p, r) \/ TopicsStart(p, r)
             \/ InSubscriberMode(p, r)
             \/ Multi(p, r) \/ Exec(p, r) \/ Discard(p, r) \/ Command(p, r)
    BY <1>3 DEF HandleLine
  <2>3. line'[c] = line[c]
    BY <2>1, <2>2 DEF ReadLine, HandlerTypes
  <2> QED
    BY <2>1, <2>2, <2>3, LineTx
<1> QED
  BY <1>1, <1>2, <1>3, StepCases

(* The answers among what is sent.                                         *)
LEMMA AnswersType ==
  ASSUME Typed, NEW c \in Client
  PROVE  Answers(c) \in Seq(Answer)
<1>1. Stream(c) \in Seq(Sent)
  BY StreamType
<1>2. Only(Stream(c), Answer) \in Seq(Sent \cap Answer)
  BY <1>1, OnlyType
<1>3. Sent \cap Answer = Answer
  BY DEF Sent
<1> QED
  BY <1>2, <1>3 DEF Answers

LEMMA AnswersGrow ==
  ASSUME Typed, NEW c \in Client, NEW x, Grows(c, x)
  PROVE  Answers(c)' = IF x \in Answer THEN Append(Answers(c), x) ELSE Answers(c)
<1>1. Stream(c) \in Seq(Sent) /\ x \in Sent /\ Stream(c)' = Append(Stream(c), x)
  BY StreamType DEF Grows
<1>2. Answers(c)' = Only(Append(Stream(c), x), Answer)
  BY <1>1 DEF Answers
<1> QED
  BY <1>1, <1>2, OnlyAppend DEF Answers

LEMMA AnswersPushed ==
  ASSUME Typed, NEW c \in Client, NEW x, Pushes(c, x)
  PROVE  Answers(c)' = Answers(c)
<1>1. /\ stream[c] \in Seq(Sent) /\ out[c] \in Seq(Sent)
      /\ out[c] = << >> \/ out[c] = <<out[c][1]>>
  BY StreamType
<1>2. /\ stream'[c] = Append(stream[c], x) /\ out'[c] = out[c] /\ x \in Sent /\ x \notin Answer
  BY KindsDiffer DEF Pushes, Sent
<1>3. Append(stream[c], x) \in Seq(Sent)
  BY <1>1, <1>2
<1>4. Only(Append(stream[c], x), Answer) = Only(stream[c], Answer)
  BY <1>1, <1>2, OnlyAppend
<1>5. CASE out[c] = << >>
  <2>1. Stream(c) = stream[c] /\ Stream(c)' = Append(stream[c], x)
    BY <1>1, <1>2, <1>3, <1>5 DEF Stream
  <2>2. Answers(c)' = Only(Append(stream[c], x), Answer)
    BY <2>1 DEF Answers
  <2> QED
    BY <1>4, <2>1, <2>2 DEF Answers
<1>6. CASE out[c] # << >>
  <2>1. PICK y \in Sent : out[c] = <<y>>
    <3>1. out[c][1] \in Sent /\ out[c] = <<out[c][1]>>
      <4>1. 1 \in DOMAIN out[c]
        BY <1>1, <1>6
      <4> QED
        BY <1>1, <1>6, <4>1
    <3> QED
      BY <3>1
  <2>2. Stream(c) = Append(stream[c], y)
    BY <1>1, <2>1, AppendIsConcat DEF Stream
  <2>3. Stream(c)' = Append(Append(stream[c], x), y)
    <3>1. Stream(c)' = Append(stream[c], x) \o <<y>>
      BY <1>2, <2>1 DEF Stream
    <3> QED
      BY <1>3, <2>1, <3>1, AppendIsConcat
  <2>4. ASSUME NEW q \in Seq(Sent)
        PROVE  Only(Append(q, y), Answer) = IF y \in Answer THEN Append(Only(q, Answer), y) ELSE Only(q, Answer)
    BY OnlyAppend
  <2>5. stream[c] \in Seq(Sent)
    BY <1>1
  <2>6. Answers(c)' = Only(Append(Append(stream[c], x), y), Answer)
    BY <2>3 DEF Answers
  <2> QED
    BY <1>3, <1>4, <2>2, <2>4, <2>5, <2>6 DEF Answers
<1> QED
  BY <1>5, <1>6

LEMMA LineTells ==
  ASSUME Typed, Next, NEW c \in Client, HandleLine(c), TellOf(c)
  PROVE  TellOf(c)'
<1> HandlerTypes
  BY DEF Typed
<1>1. /\ line[c] \in Nat /\ ran[c] \in Seq(Nat) /\ line'[c] = line[c] + 1
      /\ tx[c] \in [open : BOOLEAN, queued : Seq(Nat)]
  BY DEF HandlerTypes, HandleLine, ReadLine
<1>2. /\ Numbers(ran[c] \o tx[c].queued, line[c])
      /\ tx[c].open \/ tx[c].queued = << >>
      /\ link[c] \in {"none", "open"} => Telling(Answers(c), ran[c], tx[c].open, tx[c].queued)
  BY DEF TellOf
<1>3. PICK r \in menu.clients[c].requests :
        /\ ReadLine(c, r)
        /\ \/ NoCommand(c, r) \/ PublishStarts(c, r) \/ TopicsStart(c, r)
           \/ InSubscriberMode(c, r)
           \/ Multi(c, r) \/ Exec(c, r) \/ Discard(c, r) \/ Command(c, r)
  BY DEF HandleLine
<1>4. \/ out' = out /\ tx' = tx /\ ran' = ran
      \/ \E a \in Sayings : Says(c, a) /\ NextTx(a, line[c] + 1, ran[c], tx[c], ran'[c], tx'[c])
  BY <1>3, LineTx
<1>5. CASE out' = out /\ tx' = tx /\ ran' = ran
  <2>1. stream' = stream /\ link' = link
    BY LineChanges DEF output
  <2>2. Answers(c)' = Answers(c)
    BY <1>5, <2>1 DEF Answers, Stream
  <2>3. Numbers(ran[c] \o tx[c].queued, line[c] + 1)
    <3>1. ran[c] \o tx[c].queued \in Seq(Nat)
      BY <1>1
    <3> QED
      BY <1>1, <1>2, <3>1, NumbersAppend
  <2> QED
    BY <1>1, <1>2, <1>5, <2>1, <2>2, <2>3 DEF TellOf
<1>6. ASSUME NEW a \in Sayings, Says(c, a), NextTx(a, line[c] + 1, ran[c], tx[c], ran'[c], tx'[c])
      PROVE  TellOf(c)'
  <2>1. PICK x : AnswerWith(c, x, a) /\ Grows(c, x)
    BY <1>6, SaidGrows
  <2>2. x \in Answer /\ x.says = a /\ x.n = line[c] + 1
    BY <1>1, <2>1 DEF AnswerWith
  <2>3. Answers(c)' = Append(Answers(c), x) /\ Answers(c) \in Seq(Answer)
    BY <2>1, <2>2, AnswersGrow, AnswersType
  <2>4. Numbers(ran'[c] \o tx'[c].queued, line[c] + 1) /\ (tx'[c].open \/ tx'[c].queued = << >>)
    BY <1>1, <1>2, <1>6, TxNumbers
  <2>5. ASSUME link'[c] \in {"none", "open"}
        PROVE  Telling(Answers(c)', ran'[c], tx'[c].open, tx'[c].queued)
    <3>1. Telling(Answers(c), ran[c], tx[c].open, tx[c].queued)
      BY <1>2, <2>5, LinkBefore
    <3>2. Telling(Append(Answers(c), x), ran'[c], tx'[c].open, tx'[c].queued)
      BY <1>1, <1>2, <1>6, <2>2, <2>3, <3>1, TxTells
    <3> QED
      BY <2>3, <3>2
  <2> QED
    BY <1>1, <2>4, <2>5 DEF TellOf
<1> QED
  BY <1>4, <1>5, <1>6

LEMMA IdleTells ==
  ASSUME Typed, Typed', Next, NEW c \in Client, ~HandleLine(c), TellOf(c)
  PROVE  TellOf(c)'
<1>1. UNCHANGED <<line[c], tx[c], ran[c]>>
  BY TxIdle
<1>2. ASSUME link'[c] \in {"none", "open"}
      PROVE  Telling(Answers(c)', ran[c], tx[c].open, tx[c].queued)
  <2>1. Telling(Answers(c), ran[c], tx[c].open, tx[c].queued) /\ (tx[c].open \/ tx[c].queued = << >>)
    BY <1>2, LinkBefore DEF TellOf
  <2>2. ran[c] \in Seq(Nat) /\ tx[c] \in [open : BOOLEAN, queued : Seq(Nat)]
    BY DEF Typed, HandlerTypes
  <2>3. CASE Answers(c)' = Answers(c)
    BY <2>1, <2>3
  <2>4. CASE Stream(c)' = Stream(c)
    BY <2>3, <2>4 DEF Answers
  <2>5. CASE CountGrows(c)
    <3>1. PICK x : AnswerWith(c, x, "count") /\ Grows(c, x)
      BY <2>5 DEF CountGrows
    <3>2. x \in Answer /\ x.says = "count"
      BY <3>1 DEF AnswerWith
    <3>3. Answers(c)' = Append(Answers(c), x) /\ Answers(c) \in Seq(Answer)
      BY <3>1, <3>2, AnswersGrow, AnswersType
    <3>4. NextTx(x.says, x.n, ran[c], tx[c], ran[c], tx[c])
      BY <3>2 DEF NextTx
    <3>5. Telling(Append(Answers(c), x), ran[c], tx[c].open, tx[c].queued)
      BY <2>1, <2>2, <3>2, <3>3, <3>4, TxTells
    <3> QED
      BY <3>3, <3>5
  <2>6. CASE AckGrows(c)
    <3>1. PICK x \in Ack : Grows(c, x)
      BY <2>6 DEF AckGrows
    <3>2. x \notin Answer
      BY KindsDiffer DEF Sent
    <3>3. Answers(c)' = Answers(c)
      BY <3>1, <3>2, AnswersGrow
    <3> QED
      BY <2>3, <3>3
  <2>7. ASSUME NEW x, Pushes(c, x)
        PROVE  Answers(c)' = Answers(c)
    BY <2>7, AnswersPushed
  <2> QED
    BY <1>2, <2>3, <2>4, <2>5, <2>6, <2>7, NextStream DEF StreamSteps, LineGrows
<1> QED
  BY <1>1, <1>2 DEF TellOf

LEMMA InitTells == Init => AnswersTell
<1> SUFFICES ASSUME Init, NEW c \in Client
             PROVE  TellOf(c)
  BY DEF AnswersTell
<1>1. ran[c] = << >> /\ tx[c] = NoTx /\ line[c] = 0
  BY DEF Init
<1>2. Answers(c) = << >>
  <2>1. Stream(c) = << >> \o << >>
    BY DEF Init, Stream
  <2>2. Stream(c) = << >>
    BY <2>1
  <2> QED
    BY <2>2, OnlyEmpty DEF Answers
<1>3. Range(<< >>) = {} /\ RanTold(<< >>) = {} /\ QueuedTold(<< >>) = {} /\ ~InTx(<< >>)
  <2>1. RanTold(<< >>) = {}
    BY RanToldBy
  <2>2. QueuedTold(<< >>) = {}
    BY QueuedToldBy
  <2> QED
    BY <2>1, <2>2 DEF Range, InTx
<1>4. Numbers(<< >> \o << >>, 0)
  BY DEF Numbers
<1>5. tx[c].open = FALSE /\ tx[c].queued = << >>
  BY <1>1 DEF NoTx
<1>6. Telling(Answers(c), ran[c], tx[c].open, tx[c].queued)
  BY <1>1, <1>2, <1>3, <1>5 DEF Telling
<1>7. Numbers(ran[c] \o tx[c].queued, line[c])
  BY <1>1, <1>4, <1>5
<1> QED
  BY <1>5, <1>6, <1>7 DEF TellOf

LEMMA SpecTells == Spec => [](Typed /\ AnswersTell)
<1>1. Typed /\ AnswersTell /\ Next => AnswersTell'
  <2> SUFFICES ASSUME Typed, AnswersTell, Next, NEW c \in Client
               PROVE  TellOf(c)'
    BY DEF AnswersTell
  <2>1. TellOf(c) /\ Typed'
    BY TypedNext DEF AnswersTell
  <2> QED
    BY <2>1, LineTells, IdleTells
<1>2. AnswersTell /\ UNCHANGED vars => AnswersTell'
  BY DEF AnswersTell, TellOf, Answers, Stream, vars, handler, output
<1>3. Typed /\ AnswersTell /\ [Next]_vars => (Typed /\ AnswersTell)'
  BY <1>1, <1>2, TypedNext
<1> QED
  BY <1>3, InitTyped, InitTells, PTL DEF Spec

(* From its answers a client can tell which of its commands were carried    *)
(* out, and that it was in the order of its lines, each of them once, and   *)
(* whether it is in a transaction (handleConnection, txBuilder).            *)
THEOREM AnswersTellWhatRan == Spec => []StreamTellsWhatRan
<1>1. Typed /\ AnswersTell => StreamTellsWhatRan
  <2> SUFFICES ASSUME Typed, AnswersTell, NEW c \in Client, link[c] = "open"
               PROVE  LET s == Answers(c)
                      IN  /\ Range(ran[c]) = {s[i].n : i \in {j \in DOMAIN s : TookPlace(s, j)}}
                          /\ \A i, j \in DOMAIN ran[c] : i < j => ran[c][i] < ran[c][j]
                          /\ tx[c].open <=> \E i \in DOMAIN s : /\ s[i].says = "multi"
                                                                /\ \A j \in i + 1 .. Len(s) : ~EndsTx(s[j])
    BY DEF StreamTellsWhatRan
  <2>1. Telling(Answers(c), ran[c], tx[c].open, tx[c].queued) /\ Numbers(ran[c] \o tx[c].queued, line[c])
    BY DEF AnswersTell, TellOf
  <2>2. Numbers(ran[c], line[c])
    <3>1. ran[c] \in Seq(Nat) /\ tx[c].queued \in Seq(Nat) /\ line[c] \in Nat
      BY DEF Typed, HandlerTypes
    <3> QED
      BY <2>1, <3>1, NumbersPrefix
  <2>3. /\ Range(ran[c]) = RanTold(Answers(c))
        /\ tx[c].open <=> InTx(Answers(c))
    BY <2>1 DEF Telling
  <2>4. \A i, j \in DOMAIN ran[c] : i < j => ran[c][i] < ran[c][j]
    BY <2>2 DEF Numbers
  <2> DEFINE s == Answers(c)
  <2>5. RanTold(s) = {s[i].n : i \in {j \in DOMAIN s : TookPlace(s, j)}}
    BY DEF RanTold
  <2>6. InTx(s) <=> \E i \in DOMAIN s : s[i].says = "multi" /\ \A j \in i + 1 .. Len(s) : ~EndsTx(s[j])
    BY DEF InTx
  <2> QED
    BY <2>3, <2>4, <2>5, <2>6
<1> QED
  BY <1>1, SpecTells, PTL
=============================================================================
