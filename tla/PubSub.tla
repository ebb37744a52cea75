------------------------------- MODULE PubSub -------------------------------
(***************************************************************************)
(* pkg/pubsub: the hub, as a value and the operations on it.  A method is  *)
(* one step under the hub's RWMutex, except Publish: it holds the read     *)
(* lock while it sends to one subscriber after the other, so it is given   *)
(* here by the deliveries it makes, and module Server makes them.          *)
(*                                                                         *)
(* The hub's map from channels to sets of subscribers, from which empty    *)
(* sets are removed, is a set of pairs.                                    *)
(***************************************************************************)
EXTENDS Naturals, Sequences, FiniteSets, SequencesExt

CONSTANTS Client,      \* subscribers: connections, by their identifiers
          Channel, Pattern,
          Matches      \* the pairs <<pattern, channel>> path.Match accepts

ASSUME MatchesAssumption == Matches \subseteq Pattern \X Channel

Entry == [pattern : Pattern, sub : Client]
EntriesOf(c) == [pattern : Pattern, sub : {c}]
HubType == [channels : SUBSET (Channel \X Client), patternSubs : Seq(Entry)]

NewHub == [channels |-> {}, patternSubs |-> << >>]

(* The elements of s that are in S, in their order (SelectSeq, by a set). *)
Only(s, S) ==
    LET only[n \in 0 .. Len(s)] ==
            IF n = 0 THEN << >> ELSE only[n - 1] \o IF s[n] \in S THEN <<s[n]>> ELSE << >>
    IN  only[Len(s)]

-----------------------------------------------------------------------------
Subscribe(hub, c, ch) == [hub EXCEPT !.channels = @ \cup {<<ch, c>>}]
Unsubscribe(hub, c, ch) == [hub EXCEPT !.channels = @ \ {<<ch, c>>}]

(* A slip: the entries are not searched for the pattern. *)
PSubscribeAgain(hub, c, p) ==
    [hub EXCEPT !.patternSubs = Append(@, [pattern |-> p, sub |-> c])]

(* A pattern a client has already is not entered twice. *)
PSubscribe(hub, c, p) ==
    LET e == [pattern |-> p, sub |-> c]
    IN  IF Contains(hub.patternSubs, e) THEN hub
        ELSE [hub EXCEPT !.patternSubs = Append(@, e)]

PUnsubscribe(hub, c, p) ==
    [hub EXCEPT !.patternSubs = Only(@, Entry \ {[pattern |-> p, sub |-> c]})]

(* A slip: the patterns of a connection that ends are forgotten about. *)
UnsubscribeChannels(hub, c) == [hub EXCEPT !.channels = {s \in @ : s[2] # c}]

UnsubscribeAll(hub, c) ==
    [channels    |-> {s \in hub.channels : s[2] # c},
     patternSubs |-> Only(hub.patternSubs, Entry \ EntriesOf(c))]

-----------------------------------------------------------------------------
ChannelsOf(hub, c) == {s \in hub.channels : s[2] = c}
PatternsOf(hub, c) == Only(hub.patternSubs, EntriesOf(c))

(* A slip: the channels alone are counted. *)
CountChannels(hub, c) == Cardinality(ChannelsOf(hub, c))

subCountForSub(hub, c) == Cardinality(ChannelsOf(hub, c)) + Len(PatternsOf(hub, c))

(* What Publish sends: to the subscribers of the channel, in the order a   *)
(* map is walked, then for each entry whose pattern matches.               *)
Publish(hub, ch, from, n) ==
    LET message(c)  == [to |-> c, via |-> ch, channel |-> ch, from |-> from, n |-> n]
        pmessage(e) == [to |-> e.sub, via |-> e.pattern, channel |-> ch, from |-> from, n |-> n]
        entries == Only(hub.patternSubs, {e \in Entry : <<e.pattern, ch>> \in Matches})
    IN  {[i \in DOMAIN subs |-> message(subs[i])] \o [i \in DOMAIN entries |-> pmessage(entries[i])] :
            subs \in SetToSeqs({c \in Client : <<ch, c>> \in hub.channels})}
=============================================================================
