------------------------------ MODULE MCServer ------------------------------
(* Server on small instances.  Each menu is a conversation in which        *)
(* something can go wrong.                                                 *)
EXTENDS Server

CONSTANTS a, b, ch, pat

MCMatches == {<<pat, ch>>}

Line(m)      == [method |-> m, args |-> << >>]
Topical(m, t) == [method |-> m, args |-> <<t>>]

Stays(R, n)  == [requests |-> R, lines |-> n, leaves |-> FALSE]
Leaves(R, n) == [requests |-> R, lines |-> n, leaves |-> TRUE]

(* A publisher, and a subscriber that comes and goes. *)
Subscribing ==
    a :> Stays({Topical("PUBLISH", ch)}, 2)
    @@ b :> Stays({Topical("SUBSCRIBE", ch), Topical("UNSUBSCRIBE", ch),
                   Topical("PSUBSCRIBE", pat), Topical("PUNSUBSCRIBE", pat)}, 3)

(* A subscriber that hangs up while it is published to, and arguments that *)
(* name nothing.                                                           *)
Careless ==
    a :> Stays({Line("PUBLISH"), Topical("PUBLISH", NotAString), Topical("PUBLISH", ch),
                Line("INFO"), Line("not JSON")}, 1)
    @@ b :> Leaves({[method |-> "SUBSCRIBE", args |-> <<NoName, ch, NotAString>>],
                    [method |-> "UNSUBSCRIBE", args |-> <<NotAString, NoName, ch>>],
                    Line("command")}, 2)

(* A transaction in which the client also subscribes. *)
Transaction ==
    a :> Stays({}, 0)
    @@ b :> Stays({Line("MULTI"), Line("EXEC"), Line("DISCARD"), Line("command"),
                   Topical("SUBSCRIBE", ch), Topical("UNSUBSCRIBE", ch)}, 5)

(* Stop while a message is on its way. *)
LastMessage ==
    a :> Stays({Topical("PUBLISH", ch)}, 1)
    @@ b :> Stays({Topical("SUBSCRIBE", ch), Topical("PSUBSCRIBE", pat)}, 1)

MCMenus == {[stop |-> FALSE, clients |-> m] : m \in {Subscribing, Careless, Transaction}}
           \cup {[stop |-> TRUE, clients |-> LastMessage]}

-----------------------------------------------------------------------------
(* A subscriber that does not read while it is published to. *)
DeafSubscriber ==
    a :> Stays({Topical("PUBLISH", ch)}, 2) @@ b :> Leaves({Topical("SUBSCRIBE", ch)}, 1)

(* Stop comes at any time, for a client that does not read its responses,  *)
(* and for two that have little to say.                                    *)
DeafClient == a :> Stays({}, 0) @@ b :> Stays({Line("command")}, 3)
TwoClients == a :> Stays({}, 1) @@ b :> Stays({Line("command")}, 1)

MCStopMenus == {[stop |-> FALSE, clients |-> DeafSubscriber]}
               \cup {[stop |-> TRUE, clients |-> m] : m \in {DeafClient, TwoClients}}
=============================================================================
