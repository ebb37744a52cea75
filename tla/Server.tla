------------------------------- MODULE Server -------------------------------
(***************************************************************************)
(* pkg/server: the accept loop (Start), Stop, one handler goroutine and    *)
(* one writer goroutine per connection, around the hub of module PubSub.   *)
(*                                                                         *)
(* A step of a handler runs up to the next place where it can wait: for    *)
(* the network, the hub's lock, the connections' mutex or room in the      *)
(* writer's queue.  The multiplexer is one step of the handler (module     *)
(* TxExec has its inside).  What a request may be and how many lines a     *)
(* client sends is chosen at the start (Menus).                            *)
(***************************************************************************)
EXTENDS PubSub, FiniteSetsExt

CONSTANTS Attentive,   \* clients that keep reading what they are sent
          Menus,       \* what may happen outside: Stop is called (main does not,
                       \* the tests do); for each client, the requests it may
                       \* send, how many lines (none: it does not connect), and
                       \* whether it may hang up
          Cap,         \* capacity of a connection's writeCh (256)
          NoName,      \* the argument "" of a request
          NotAString,  \* an argument that is not a JSON string
          NoClient

Topics == {"SUBSCRIBE", "UNSUBSCRIBE", "PSUBSCRIBE", "PUNSUBSCRIBE"}
Other  == {"INFO", "not JSON", "MULTI", "EXEC", "DISCARD", "command"}
Topic  == Channel \cup Pattern \cup {NoName}

(* What the arguments of a method may be. *)
ArgsOf(m) == CASE m \in {"SUBSCRIBE", "UNSUBSCRIBE", "PUBLISH"} -> Seq(Channel \cup {NoName, NotAString})
               [] m \in {"PSUBSCRIBE", "PUNSUBSCRIBE"}         -> Seq(Pattern \cup {NoName, NotAString})
               [] m \in Other                                 -> {<< >>}
Request == {r \in [method : Topics \cup Other \cup {"PUBLISH"}, args : Seq(Topic \cup {NotAString})] :
               r.args \in ArgsOf(r.method)}

ASSUME ServerAssumption ==
    /\ Attentive \subseteq Client /\ NoClient \notin Client
    /\ Cap \in Nat \ {0}
    /\ {NoName, NotAString} \cap (Channel \cup Pattern) = {} /\ NoName # NotAString
    /\ Menus \subseteq [stop : BOOLEAN,
                       clients : [Client -> [requests : SUBSET Request, lines : Nat, leaves : BOOLEAN]]]

VARIABLES
    \* the server
    start,      \* where Start is
    stop,       \* where Stop is
    quit,       \* the channel quit is closed
    listener,   \* nil, listening, or closed (and nil again)
    accepted,   \* the connection Start has accepted and not handed over yet
    conns,      \* the registered connections
    toClose,    \* those Stop has not closed yet, while it holds connsMutex
    wg,         \* the handlers the wait group counts
    hub,
    \* a handler
    pc, line, req,
    work,       \* arguments of a (UN)SUBSCRIBE, or sends of a PUBLISH, to come
    out,        \* the response it is about to queue
    mode,       \* subscriberMode
    subCount,
    tx,         \* txBuilder: the lines queued since MULTI
    \* a ClientConn
    link,       \* its state; closing is between close(done) and conn.Close
    stream,     \* what was put into writeCh so far, in order
    sent,       \* how much of it the writer has taken
    writer,     \* where writeLoop is
    \* the clients, and what they have made the multiplexer run
    menu, gone, ran

server  == <<start, stop, quit, listener, accepted, conns, toClose, wg>>
handler == <<pc, line, req, work, out, mode, subCount, tx, ran>>
output  == <<stream, sent, writer>>
vars    == <<server, hub, handler, output, link, menu, gone>>

NotJSON == [method |-> "not JSON", args |-> << >>]
NoTx    == [open |-> FALSE, queued |-> << >>]

Delivery == [to : Client, via : Channel \cup Pattern, channel : Channel, from : Client, n : Nat]
Answer   == [kind : {"answer"}, n : Nat, says : {"ok", "error", "queued", "result", "count",
                                                "multi", "exec", "failed", "discard"}]
Ack      == [kind : {"ack"}, n : Nat, action : Topics, topic : Topic, count : Nat]
Push     == [kind : {"push"}, what : Delivery]

Init == /\ start = "listen" /\ stop = "idle" /\ quit = FALSE
        /\ listener = "nil" /\ accepted = NoClient
        /\ conns = {} /\ toClose = {} /\ wg = {}
        /\ hub = NewHub
        /\ pc = [c \in Client |-> "none"] /\ line = [c \in Client |-> 0]
        /\ req = [c \in Client |-> NotJSON]
        /\ work = [c \in Client |-> << >>] /\ out = [c \in Client |-> << >>]
        /\ mode = [c \in Client |-> FALSE] /\ subCount = [c \in Client |-> 0]
        /\ tx = [c \in Client |-> NoTx]
        /\ link = [c \in Client |-> "none"]
        /\ stream = [c \in Client |-> << >>] /\ sent = [c \in Client |-> 0]
        /\ writer = [c \in Client |-> "none"]
        /\ menu \in Menus
        /\ gone = [c \in Client |-> FALSE] /\ ran = [c \in Client |-> << >>]

-----------------------------------------------------------------------------
(* A slip: Publish copies the subscribers and sends without the lock. *)
HubAlwaysFree == TRUE

(* The locks.  Publish holds the hub's read lock from its first send to    *)
(* its last; the other operations on the hub are one step.  Stop holds     *)
(* connsMutex while it closes the connections.                             *)
HubFree   == \A c \in Client : pc[c] # "publish"
ConnsFree == stop # "closing"

Room(c) == Len(stream[c]) - sent[c] < Cap

(***************************************************************************)
(* Start.                                                                  *)
(***************************************************************************)
Starting == UNCHANGED <<stop, quit, toClose, hub, line, req, work, out, mode, subCount, tx, ran,
                        stream, sent, menu, gone>>

Listen == /\ start = "listen" /\ ConnsFree
          /\ \/ listener' = "open" /\ start' = "loop"
             \/ listener' = listener /\ start' = "returned"
          /\ Starting /\ UNCHANGED <<accepted, conns, wg, pc, link, writer>>

ReadListener ==
    /\ start = "loop" /\ ConnsFree
    /\ start' = IF listener = "open" THEN "accept" ELSE "returned"
    /\ Starting /\ UNCHANGED <<listener, accepted, conns, wg, pc, link, writer>>

Accept(c) == /\ start = "accept" /\ listener = "open"
             /\ link[c] = "none" /\ menu.clients[c].lines > 0
             /\ accepted' = c /\ start' = "register"
             /\ link' = [link EXCEPT ![c] = "open"]
             /\ Starting /\ UNCHANGED <<listener, conns, wg, pc, writer>>

(* The listener was closed, or an error that passes. *)
AcceptFails == /\ start = "accept"
               /\ start' = IF quit THEN "returned" ELSE "loop"
               /\ Starting /\ UNCHANGED <<listener, accepted, conns, wg, pc, link, writer>>

(* NewClientConn, with its writer, and the entry in conns. *)
Register == /\ start = "register" /\ ConnsFree
            /\ conns' = conns \cup {accepted}
            /\ writer' = [writer EXCEPT ![accepted] = "select"]
            /\ start' = "add"
            /\ Starting /\ UNCHANGED <<listener, accepted, wg, pc, link>>

AddHandler == /\ start = "add"
              /\ wg' = wg \cup {accepted}
              /\ pc' = [pc EXCEPT ![accepted] = "check"]
              /\ accepted' = NoClient /\ start' = "loop"
              /\ Starting /\ UNCHANGED <<listener, conns, link, writer>>

-----------------------------------------------------------------------------
(***************************************************************************)
(* Stop.  A wait group may not be counted up while a Wait that was woken   *)
(* has not returned yet: the process panics.                               *)
(***************************************************************************)
Stopping == UNCHANGED <<start, accepted, conns, wg, hub, handler, output, menu, gone>>

CloseQuit == /\ menu.stop /\ stop = "idle"
             /\ quit' = TRUE /\ stop' = "listener"
             /\ Stopping /\ UNCHANGED <<listener, toClose, link>>

CloseListener == /\ stop = "listener"
                 /\ listener' = IF listener = "open" THEN "closed" ELSE listener
                 /\ stop' = "connections"
                 /\ Stopping /\ UNCHANGED <<quit, toClose, link>>

LockConns == /\ stop = "connections"
             /\ toClose' = conns /\ stop' = "closing"
             /\ Stopping /\ UNCHANGED <<quit, listener, link>>

(* ClientConn.Close has two steps and is done once: whoever comes second   *)
(* waits for the first.  A handler that closes its own has pc "closing".   *)
CloseDone(c) == /\ stop = "closing" /\ c \in toClose /\ link[c] = "open"
                /\ \A d \in toClose : link[d] = "closing" => pc[d] = "closing"
                /\ link' = [link EXCEPT ![c] = "closing"]
                /\ Stopping /\ UNCHANGED <<stop, quit, listener, toClose>>

CloseSocket(c) == /\ stop = "closing" /\ c \in toClose
                  /\ \/ link[c] = "closing" /\ pc[c] # "closing"
                     \/ link[c] = "closed"
                  /\ link' = [link EXCEPT ![c] = "closed"]
                  /\ toClose' = toClose \ {c}
                  /\ Stopping /\ UNCHANGED <<stop, quit, listener>>

Wait == /\ \/ stop = "closing" /\ toClose = {}
           \/ stop = "woken"
        /\ stop' = CASE stop = "closing" -> IF wg = {} THEN "returned" ELSE "waiting"
                     [] stop = "woken"   -> IF wg = {} THEN "returned" ELSE "panicked"
        /\ Stopping /\ UNCHANGED <<quit, listener, toClose, link>>

(***************************************************************************)
(* handleConnection: reading a line.                                       *)
(***************************************************************************)
HandlerOnly == UNCHANGED <<server, link, output, menu, gone>>

(* A slip: the handler does not look at quit. *)
NeverCheckQuit(c) ==
    /\ pc[c] = "check"
    /\ pc' = [pc EXCEPT ![c] = "read"]
    /\ HandlerOnly /\ UNCHANGED <<hub, line, req, work, out, mode, subCount, tx, ran>>

CheckQuit(c) ==
    /\ pc[c] = "check"
    /\ pc' = [pc EXCEPT ![c] = IF quit THEN "close" ELSE "read"]
    /\ HandlerOnly /\ UNCHANGED <<hub, line, req, work, out, mode, subCount, tx, ran>>

(* ReadBytes fails when either side has closed; a whole line that came     *)
(* before that is still returned.                                          *)
ReadFails(c) ==
    /\ pc[c] = "read" /\ (gone[c] \/ link[c] = "closed")
    /\ pc' = [pc EXCEPT ![c] = "close"]
    /\ HandlerOnly /\ UNCHANGED <<hub, line, req, work, out, mode, subCount, tx, ran>>

ReadLine(c, r) ==
    /\ pc[c] = "read" /\ line[c] < menu.clients[c].lines
    /\ line' = [line EXCEPT ![c] = @ + 1]
    /\ req' = [req EXCEPT ![c] = r]
    /\ HandlerOnly

Says(c, a) == /\ out' = [out EXCEPT ![c] = <<[kind |-> "answer", n |-> line[c] + 1, says |-> a]>>]
              /\ pc' = [pc EXCEPT ![c] = "reply"]

Refuse(c) == Says(c, "error") /\ UNCHANGED <<hub, work, mode, subCount, tx, ran>>

-----------------------------------------------------------------------------
(***************************************************************************)
(* handleConnection: what a line does.  The pub/sub commands come first,   *)
(* inside MULTI and in subscriber mode too.                                *)
(***************************************************************************)
Ungated == {"not JSON", "INFO", "PUBLISH"} \cup Topics
Blocked(c, r) == mode[c] /\ r.method \notin Ungated

NoCommand(c, r) ==
    /\ r.method \in {"not JSON", "INFO"}
    /\ Says(c, IF r.method = "INFO" THEN "ok" ELSE "error")
    /\ UNCHANGED <<hub, work, mode, subCount, tx, ran>>

NamesFirst(r) == r.args # << >> /\ r.args[1] # NotAString

PublishStarts(c, r) ==
    /\ r.method = "PUBLISH"
    /\ \/ ~NamesFirst(r) /\ Refuse(c)
       \/ /\ NamesFirst(r)
          /\ \E sends \in Publish(hub, r.args[1], c, line[c] + 1) :
                work' = [work EXCEPT ![c] = sends]
          /\ pc' = [pc EXCEPT ![c] = "publish"]
          /\ UNCHANGED <<hub, out, mode, subCount, tx, ran>>

TopicsStart(c, r) ==
    /\ r.method \in Topics
    /\ mode' = [mode EXCEPT ![c] = @ \/ r.method \in {"SUBSCRIBE", "PSUBSCRIBE"}]
    /\ work' = [work EXCEPT ![c] = r.args]
    /\ pc' = [pc EXCEPT ![c] = "topics"]
    /\ UNCHANGED <<hub, out, subCount, tx, ran>>

InSubscriberMode(c, r) == Blocked(c, r) /\ Refuse(c)

(* A slip: MULTI inside MULTI starts again. *)
MultiRestarts(c, r) ==
    /\ r.method = "MULTI" /\ ~Blocked(c, r)
    /\ tx' = [tx EXCEPT ![c] = [open |-> TRUE, queued |-> << >>]]
    /\ Says(c, IF tx[c].open THEN "error" ELSE "multi")
    /\ UNCHANGED <<hub, work, mode, subCount, ran>>

Multi(c, r) ==
    /\ r.method = "MULTI" /\ ~Blocked(c, r)
    /\ \/ tx[c].open /\ Refuse(c)
       \/ /\ ~tx[c].open
          /\ tx' = [tx EXCEPT ![c] = [open |-> TRUE, queued |-> << >>]]
          /\ Says(c, "multi")
          /\ UNCHANGED <<hub, work, mode, subCount, ran>>

(* The commands that were queued run, or are rolled back by an error. *)
Exec(c, r) ==
    /\ r.method = "EXEC" /\ ~Blocked(c, r)
    /\ \/ ~tx[c].open /\ Refuse(c)
       \/ /\ tx[c].open
          /\ \/ Says(c, "exec") /\ ran' = [ran EXCEPT ![c] = @ \o tx[c].queued]
             \/ Says(c, "failed") /\ ran' = ran
          /\ tx' = [tx EXCEPT ![c] = NoTx]
          /\ UNCHANGED <<hub, work, mode, subCount>>

Discard(c, r) ==
    /\ r.method = "DISCARD" /\ ~Blocked(c, r)
    /\ \/ ~tx[c].open /\ Refuse(c)
       \/ /\ tx[c].open
          /\ tx' = [tx EXCEPT ![c] = NoTx]
          /\ Says(c, "discard")
          /\ UNCHANGED <<hub, work, mode, subCount, ran>>

(* Any other command: queued in a transaction, otherwise run at once. *)
Command(c, r) ==
    /\ r.method = "command" /\ ~Blocked(c, r)
    /\ \/ /\ tx[c].open
          /\ tx' = [tx EXCEPT ![c].queued = Append(@, line[c] + 1)]
          /\ Says(c, "queued") /\ ran' = ran
       \/ /\ ~tx[c].open
          /\ ran' = [ran EXCEPT ![c] = Append(@, line[c] + 1)]
          /\ Says(c, "result") /\ tx' = tx
    /\ UNCHANGED <<hub, work, mode, subCount>>

HandleLine(c) ==
    \E r \in menu.clients[c].requests :
        /\ ReadLine(c, r)
        /\ \/ NoCommand(c, r) \/ PublishStarts(c, r) \/ TopicsStart(c, r)
           \/ InSubscriberMode(c, r)
           \/ Multi(c, r) \/ Exec(c, r) \/ Discard(c, r) \/ Command(c, r)

-----------------------------------------------------------------------------
(***************************************************************************)
(* handleConnection: the arguments of (P)SUBSCRIBE and (P)UNSUBSCRIBE, one *)
(* acknowledgement for each that names something.                          *)
(***************************************************************************)
Subscribes(c) == req[c].method \in {"SUBSCRIBE", "PSUBSCRIBE"}

Change(c, t) == CASE req[c].method = "SUBSCRIBE"    -> Subscribe(hub, c, t)
                  [] req[c].method = "UNSUBSCRIBE"  -> Unsubscribe(hub, c, t)
                  [] req[c].method = "PSUBSCRIBE"   -> PSubscribe(hub, c, t)
                  [] req[c].method = "PUNSUBSCRIBE" -> PUnsubscribe(hub, c, t)

SkipTopic(c) ==
    /\ pc[c] = "topics" /\ work[c] # << >>
    /\ work[c][1] = NotAString \/ (Subscribes(c) /\ work[c][1] = NoName)
    /\ work' = [work EXCEPT ![c] = Tail(@)]
    /\ HandlerOnly /\ UNCHANGED <<hub, pc, line, req, out, mode, subCount, tx, ran>>

TakeTopic(c) ==
    /\ pc[c] = "topics" /\ work[c] # << >> /\ HubFree
    /\ LET t == work[c][1]
       IN  /\ t # NotAString /\ (Subscribes(c) => t # NoName)
           /\ hub' = Change(c, t)
           /\ subCount' = [subCount EXCEPT ![c] = subCountForSub(hub', c)]
           /\ out' = [out EXCEPT ![c] = <<[kind |-> "ack", n |-> line[c], action |-> req[c].method,
                                           topic |-> t, count |-> subCount'[c]]>>]
    /\ work' = [work EXCEPT ![c] = Tail(@)]
    /\ pc' = [pc EXCEPT ![c] = "reply"]
    /\ HandlerOnly /\ UNCHANGED <<line, req, mode, tx, ran>>

TopicsEnd(c) ==
    /\ pc[c] = "topics" /\ work[c] = << >>
    /\ mode' = [mode EXCEPT ![c] = @ /\ (Subscribes(c) \/ subCount[c] # 0)]
    /\ pc' = [pc EXCEPT ![c] = "check"]
    /\ HandlerOnly /\ UNCHANGED <<hub, line, req, work, out, subCount, tx, ran>>

(***************************************************************************)
(* Hub.Publish, from the first ClientConn.Send to the last.  A message is  *)
(* dropped when the subscriber's queue is full.                            *)
(***************************************************************************)
(* A slip: Send waits for room. *)
SendWaits(c) ==
    /\ pc[c] = "publish" /\ work[c] # << >>
    /\ LET d == work[c][1]
       IN  /\ Room(d.to)
           /\ stream' = [stream EXCEPT ![d.to] = Append(@, [kind |-> "push", what |-> d])]
    /\ work' = [work EXCEPT ![c] = Tail(@)]
    /\ UNCHANGED <<server, hub, pc, line, req, out, mode, subCount, tx, ran,
                   link, sent, writer, menu, gone>>

Send(c) ==
    /\ pc[c] = "publish" /\ work[c] # << >>
    /\ LET d == work[c][1]
       IN  stream' = IF Room(d.to)
                     THEN [stream EXCEPT ![d.to] = Append(@, [kind |-> "push", what |-> d])]
                     ELSE stream
    /\ work' = [work EXCEPT ![c] = Tail(@)]
    /\ UNCHANGED <<server, hub, pc, line, req, out, mode, subCount, tx, ran,
                   link, sent, writer, menu, gone>>

PublishEnds(c) ==
    /\ pc[c] = "publish" /\ work[c] = << >>
    /\ out' = [out EXCEPT ![c] = <<[kind |-> "answer", n |-> line[c], says |-> "count"]>>]
    /\ pc' = [pc EXCEPT ![c] = "reply"]
    /\ HandlerOnly /\ UNCHANGED <<hub, line, req, work, mode, subCount, tx, ran>>

-----------------------------------------------------------------------------
(***************************************************************************)
(* WriteResponse waits for room or for done; when it has both, either.     *)
(***************************************************************************)
(* A slip: WriteResponse does not watch done. *)
WriteOnly(c) ==
    /\ pc[c] = "reply" /\ Room(c)
    /\ stream' = [stream EXCEPT ![c] = @ \o out[c]]
    /\ out' = [out EXCEPT ![c] = << >>]
    /\ pc' = [pc EXCEPT ![c] = IF req[c].method \in Topics THEN "topics" ELSE "check"]
    /\ UNCHANGED <<server, hub, line, req, work, mode, subCount, tx, ran,
                   link, sent, writer, menu, gone>>

WriteResponse(c) ==
    /\ pc[c] = "reply"
    /\ \/ Room(c) /\ stream' = [stream EXCEPT ![c] = @ \o out[c]]
       \/ link[c] \in {"closing", "closed"} /\ stream' = stream
    /\ out' = [out EXCEPT ![c] = << >>]
    /\ pc' = [pc EXCEPT ![c] = IF req[c].method \in Topics THEN "topics" ELSE "check"]
    /\ UNCHANGED <<server, hub, line, req, work, mode, subCount, tx, ran,
                   link, sent, writer, menu, gone>>

(***************************************************************************)
(* The deferred end of a handler: Close, in two steps, UnsubscribeAll, the *)
(* entry in conns, the wait group.  The last handler wakes a waiting Stop. *)
(***************************************************************************)
Ending == UNCHANGED <<start, quit, listener, accepted, toClose, line, req, work, out, mode,
                      subCount, tx, ran, output, menu, gone>>

Close(c) ==
    /\ \/ /\ pc[c] = "close" /\ link[c] = "open"
          /\ link' = [link EXCEPT ![c] = "closing"] /\ pc' = [pc EXCEPT ![c] = "closing"]
       \/ /\ pc[c] = "closing"
          /\ link' = [link EXCEPT ![c] = "closed"] /\ pc' = [pc EXCEPT ![c] = "unsubscribe"]
       \/ /\ pc[c] = "close" /\ link[c] = "closed"
          /\ link' = link /\ pc' = [pc EXCEPT ![c] = "unsubscribe"]
    /\ Ending /\ UNCHANGED <<stop, conns, wg, hub>>

LeaveHub(c) ==
    /\ pc[c] = "unsubscribe" /\ HubFree
    /\ hub' = UnsubscribeAll(hub, c)
    /\ pc' = [pc EXCEPT ![c] = "delete"]
    /\ Ending /\ UNCHANGED <<stop, conns, wg, link>>

LeaveConns(c) ==
    /\ pc[c] = "delete" /\ ConnsFree
    /\ conns' = conns \ {c}
    /\ pc' = [pc EXCEPT ![c] = "leave"]
    /\ Ending /\ UNCHANGED <<stop, wg, hub, link>>

HandlerDone(c) ==
    /\ pc[c] = "leave"
    /\ wg' = wg \ {c}
    /\ stop' = IF stop = "waiting" /\ wg' = {} THEN "woken" ELSE stop
    /\ pc' = [pc EXCEPT ![c] = "done"]
    /\ Ending /\ UNCHANGED <<conns, hub, link>>

-----------------------------------------------------------------------------
(***************************************************************************)
(* writeLoop, and the client.  conn.Write waits while the client does not  *)
(* read, and fails once either side has closed; the error is ignored.      *)
(***************************************************************************)
Writing(c) == UNCHANGED <<server, hub, handler, link, stream, menu, gone>>

TakeNext(c) == /\ writer[c] = "select" /\ sent[c] < Len(stream[c])
               /\ sent' = [sent EXCEPT ![c] = @ + 1]
               /\ writer' = [writer EXCEPT ![c] = "write"]
               /\ Writing(c)

ClientReads(c) == /\ writer[c] = "write"
                  /\ writer' = [writer EXCEPT ![c] = "select"]
                  /\ Writing(c) /\ UNCHANGED sent

WriteFails(c) == /\ writer[c] = "write" /\ (gone[c] \/ link[c] = "closed")
                 /\ writer' = [writer EXCEPT ![c] = "select"]
                 /\ Writing(c) /\ UNCHANGED sent

WriterEnds(c) == /\ writer[c] = "select" /\ link[c] \in {"closing", "closed"}
                 /\ writer' = [writer EXCEPT ![c] = "ended"]
                 /\ Writing(c) /\ UNCHANGED sent

HangUp(c) == /\ menu.clients[c].leaves /\ link[c] # "none" /\ ~gone[c]
             /\ gone' = [gone EXCEPT ![c] = TRUE]
             /\ UNCHANGED <<server, hub, handler, output, link, menu>>

-----------------------------------------------------------------------------
StartSteps == Listen \/ ReadListener \/ AcceptFails \/ Register \/ AddHandler
StopSteps  == CloseListener \/ LockConns \/ Wait
              \/ \E c \in Client : CloseDone(c) \/ CloseSocket(c)
HandlerSteps(c) ==
    \/ CheckQuit(c) \/ ReadFails(c)
    \/ SkipTopic(c) \/ TakeTopic(c) \/ TopicsEnd(c)
    \/ Send(c) \/ PublishEnds(c) \/ WriteResponse(c)
    \/ Close(c) \/ LeaveHub(c) \/ LeaveConns(c) \/ HandlerDone(c)
WriterSteps(c) == TakeNext(c) \/ WriteFails(c) \/ WriterEnds(c)

(* After a panic the process is gone. *)
Running == stop # "panicked"

Next == /\ Running
        /\ \/ StartSteps \/ CloseQuit \/ StopSteps
           \/ \E c \in Client : \/ Accept(c) \/ HandleLine(c) \/ HandlerSteps(c)
                                \/ WriterSteps(c) \/ ClientReads(c) \/ HangUp(c)

(* What runs is scheduled; who reads keeps reading.  Nobody has to connect, *)
(* send, hang up or call Stop, and an Accept that fails for a while may go  *)
(* on failing.                                                              *)
StartReturns == StartSteps /\ (start = "accept" => listener # "open")

Fairness == /\ WF_vars(Running /\ StartReturns) /\ WF_vars(Running /\ StopSteps)
            /\ \A c \in Client : /\ WF_vars(Running /\ HandlerSteps(c))
                                 /\ WF_vars(Running /\ WriterSteps(c))
            /\ \A c \in Attentive : WF_vars(Running /\ ClientReads(c))

Spec == Init /\ [][Next]_vars
FairSpec == Spec /\ Fairness

-----------------------------------------------------------------------------
(* Types; a queue is never over its capacity, a pattern is entered once    *)
(* per client, and a handler has at most one response in hand (client_conn *)
(* writeCh, PSubscribe's search, sendResponse).                            *)
TypeOK ==
    /\ start \in {"listen", "loop", "accept", "register", "add", "returned"}
    /\ stop \in {"idle", "listener", "connections", "closing", "waiting", "woken",
                 "returned", "panicked"}
    /\ quit \in BOOLEAN /\ listener \in {"nil", "open", "closed"}
    /\ accepted \in Client \cup {NoClient}
    /\ conns \subseteq Client /\ toClose \subseteq conns /\ wg \subseteq Client
    /\ hub \in HubType /\ IsInjective(hub.patternSubs)
    /\ pc \in [Client -> {"none", "check", "read", "topics", "publish", "reply",
                          "close", "closing", "unsubscribe", "delete", "leave", "done"}]
    /\ line \in [Client -> Nat] /\ req \in [Client -> Request]
    /\ work \in [Client -> Seq(Delivery) \cup Seq(Topic \cup {NotAString})]
    /\ out \in [Client -> Seq(Answer \cup Ack)]
    /\ stream \in [Client -> Seq(Answer \cup Ack \cup Push)] /\ sent \in [Client -> Nat]
    /\ \A c \in Client :
          /\ work[c] \in (IF pc[c] = "publish" THEN Seq(Delivery) ELSE ArgsOf(req[c].method))
          /\ Len(out[c]) = (IF pc[c] = "reply" THEN 1 ELSE 0)
          /\ sent[c] \in Len(stream[c]) - Cap .. Len(stream[c])
    /\ mode \in [Client -> BOOLEAN] /\ subCount \in [Client -> Nat]
    /\ tx \in [Client -> [open : BOOLEAN, queued : Seq(Nat)]]
    /\ link \in [Client -> {"none", "open", "closing", "closed"}]
    /\ writer \in [Client -> {"none", "select", "write", "ended"}]
    /\ menu \in Menus /\ gone \in [Client -> BOOLEAN] /\ ran \in [Client -> Seq(Nat)]

Channels(c) == {t \in Channel : <<t, c>> \in hub.channels}
Patterns(c) == {t \in Pattern : Contains(hub.patternSubs, [pattern |-> t, sub |-> c])}
Subscriptions(c) == Channels(c) \cup Patterns(c)

(* Whenever a handler is between two lines, its own count of subscriptions *)
(* is the hub's, and it has left subscriber mode only with none: commands  *)
(* are never let through while pushes may come (server.go, subscriberMode  *)
(* and subCount; pubsub.go, subCountForSub).                               *)
ModeMatchesHub ==
    \A c \in Client : pc[c] \in {"check", "read"} =>
        /\ subCount[c] = Cardinality(Channels(c)) + Cardinality(Patterns(c))
        /\ mode[c] \/ Subscriptions(c) = {}

(* A connection that has ended is nobody's subscriber: what Publish walks  *)
(* does not grow with the connections of the past (handleConnection's      *)
(* deferred function, UnsubscribeAll).                                     *)
LeftTheHub ==
    \A c \in Client : pc[c] \in {"none", "delete", "leave", "done"} => Subscriptions(c) = {}

(* Of what a client is sent and about to be sent, in order: once it has    *)
(* the answer to its (P)UNSUBSCRIBE of a topic it is not subscribed to     *)
(* again, no message follows by way of that topic, however the sends of a  *)
(* Publish are interleaved (Publish keeps the lock while it sends).        *)
Stream(c) == stream[c] \o out[c]
LeavesAt(c, t, i)  == /\ Stream(c)[i].kind = "ack" /\ Stream(c)[i].topic = t
                      /\ Stream(c)[i].action \in {"UNSUBSCRIBE", "PUNSUBSCRIBE"}
PushedAt(c, t, i) == Stream(c)[i].kind = "push" /\ Stream(c)[i].what.via = t

NoMessageAfterUnsubscribe ==
    \A c \in Client : link[c] = "open" =>
        \A t \in (Channel \cup Pattern) \ Subscriptions(c) :
            \A i \in DOMAIN Stream(c) :
                LeavesAt(c, t, i) =>
                    \/ \E j \in i + 1 .. Len(Stream(c)) : LeavesAt(c, t, j)
                    \/ \A j \in i + 1 .. Len(Stream(c)) : ~PushedAt(c, t, j)

(* The answers a connection gets tell what the multiplexer ran for it, and *)
(* whether it is in a transaction: each command answered with a result,    *)
(* and each answered "queued" when the next EXEC or DISCARD to end the     *)
(* transaction is an EXEC that succeeded; in order, once, nothing else.    *)
Answers(c)  == Only(Stream(c), Answer)
EndsTx(a)   == a.says \in {"exec", "failed", "discard"}
TookPlace(s, i) ==
    \/ s[i].says = "result"
    \/ /\ s[i].says = "queued"
       /\ \E j \in i + 1 .. Len(s) : /\ s[j].says = "exec"
                                     /\ \A k \in i + 1 .. j - 1 : ~EndsTx(s[k])

StreamTellsWhatRan ==
    \A c \in Client : link[c] = "open" =>
        LET s == Answers(c)
        IN  /\ Range(ran[c]) = {s[i].n : i \in {j \in DOMAIN s : TookPlace(s, j)}}
            /\ \A i, j \in DOMAIN ran[c] : i < j => ran[c][i] < ran[c][j]
            /\ tx[c].open <=> \E i \in DOMAIN s : /\ s[i].says = "multi"
                                                  /\ \A j \in i + 1 .. Len(s) : ~EndsTx(s[j])

(* Once Stop has returned no handler reads or carries out a line, though a *)
(* connection accepted at the last moment may still start one (the check   *)
(* of quit in handleConnection, wg.Add after connsMutex is released).      *)
QuietAfterStop ==
    stop = "returned" => \A c \in Client : pc[c] \notin {"read", "topics", "publish", "reply"}

-----------------------------------------------------------------------------
(* Whoever reads its answers gets them: neither a subscriber that does not *)
(* read nor a lock keeps a request from being finished (Send drops what a  *)
(* full queue cannot take; WriteResponse waits only for its own client).   *)
Serving(c) == pc[c] \in {"topics", "publish", "reply"}
RequestsFinish == \A c \in Attentive : Serving(c) ~> (~Serving(c) \/ ~Running)

(* Stop comes to an end, with clients that do not read and handlers that   *)
(* wait for room in their queues (Close wakes them through done).          *)
StopEnds == (stop # "idle") ~> (stop = "returned" \/ ~Running)

(* After Stop every connection that was ever accepted is closed and its    *)
(* handler gone, also one that Stop did not see in conns.                  *)
ConnectionsEnd ==
    \A c \in Client : (quit /\ link[c] # "none") ~> (pc[c] = "done" \/ ~Running)
=============================================================================
