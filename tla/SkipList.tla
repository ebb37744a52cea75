------------------------------ MODULE SkipList ------------------------------
(***************************************************************************)
(* The skip list of the sorted set engine, as operators on its nodes.      *)
(* Each link has a span, the number of elements it passes, and a rank is   *)
(* the sum of the spans on the way.  Elements are positive numbers here,   *)
(* ordered as the strings are in the code; a node is named by its element. *)
(* A score is a float64: an integer, for the place of the number in their  *)
(* order, infinities included, or NaN, which equals and precedes nothing.  *)
(***************************************************************************)
EXTENDS Integers, Sequences, FiniteSets, FiniteSetsExt

CONSTANTS MaxLevel,      \* zskiplistMaxLevel
          NaN

Header == 0
Nil == -1

NewSkipList ==
    [node   |-> [x \in {Header} |-> [score    |-> 0, backward |-> Nil,
                                     forward  |-> [i \in 1 .. MaxLevel |-> Nil],
                                     span     |-> [i \in 1 .. MaxLevel |-> 0]]],
     tail   |-> Nil,
     length |-> 0,
     level  |-> 1]

Elements(z) == DOMAIN z.node \ {Header}

(* The comparisons of float64s: whatever is compared with NaN, they fail. *)
Less(a, b) == NaN \notin {a, b} /\ a < b
Equal(a, b) == NaN \notin {a, b} /\ a = b
AtMost(a, b) == NaN \notin {a, b} /\ a <= b

(* The nodes before a place in the order: by score, then by element. *)
Before(z, score, ele) ==
    {x \in Elements(z) : \/ Less(z.node[x].score, score)
                         \/ Equal(z.node[x].score, score) /\ x < ele}

ScoredBelow(z, score) == {x \in Elements(z) : Less(z.node[x].score, score)}
ScoredUpTo(z, score)  == {x \in Elements(z) : AtMost(z.node[x].score, score)}
ScoredFrom(z, score)  == {x \in Elements(z) : AtMost(score, z.node[x].score)}

(* From a place along level i, while the next node is one of the passing  *)
(* ones, adding up the spans on the way.  There are no more steps to take  *)
(* than nodes.                                                             *)
Walk(z, i, from, passing) ==
    LET walk[n \in 0 .. z.length] ==
            IF n = 0 THEN from
            ELSE LET p    == walk[n - 1]
                     next == z.node[p.at].forward[i]
                 IN  IF next \notin passing THEN p
                     ELSE [at |-> next, rank |-> p.rank + z.node[p.at].span[i]]
    IN  walk[z.length]

(* The search from the top level down: where it leaves each level, and at  *)
(* which rank.                                                             *)
Path(z, passing) ==
    LET path[i \in 1 .. z.level] ==
            Walk(z, i, IF i = z.level THEN [at |-> Header, rank |-> 0] ELSE path[i + 1], passing)
    IN  path

PathTo(z, score, ele) == Path(z, Before(z, score, ele))

(* A slip: levels that the list did not have yet are left as they were. *)
SpanUnprepared(z, x, i) == z.node[x].span[i]

(* On a new level the header's link spans the whole list. *)
SpanBefore(z, x, i) == IF i > z.level THEN z.length ELSE z.node[x].span[i]

(* insert, with the level that randomLevel has drawn. *)
InsertNode(z, level, score, ele) ==
    LET path == PathTo(z, score, ele)
        update(i) == IF i > z.level THEN Header ELSE path[i].at
        passed(i) == path[1].rank - (IF i > z.level THEN 0 ELSE path[i].rank)
        next == z.node[update(1)].forward[1]
        inserted ==
            [score    |-> score,
             backward |-> IF update(1) = Header THEN Nil ELSE update(1),
             forward  |-> [i \in 1 .. level |-> z.node[update(i)].forward[i]],
             span     |-> [i \in 1 .. level |-> SpanBefore(z, update(i), i) - passed(i)]]
        relinked(x) ==
            [z.node[x] EXCEPT
                !.backward = IF x = next THEN ele ELSE @,
                !.forward = [i \in DOMAIN @ |-> IF i <= level /\ update(i) = x THEN ele ELSE @[i]],
                !.span = [i \in DOMAIN @ |->
                             IF i <= level /\ update(i) = x THEN passed(i) + 1
                             ELSE IF i <= z.level /\ update(i) = x THEN @[i] + 1
                             ELSE @[i]]]
    IN  [node   |-> [x \in DOMAIN z.node \cup {ele} |-> IF x = ele THEN inserted ELSE relinked(x)],
         tail   |-> IF next = Nil THEN ele ELSE z.tail,
         length |-> z.length + 1,
         level  |-> IF level > z.level THEN level ELSE z.level]

(* deleteNode, with the place before x on each level. *)
DeleteNode(z, x, path) ==
    LET gone == z.node[x]
        relinked(y) ==
            LET old == z.node[y]
                before(i) == i <= z.level /\ path[i].at = y
            IN  [old EXCEPT
                    !.backward = IF y = gone.forward[1] THEN gone.backward ELSE @,
                    !.forward = [i \in DOMAIN @ |->
                                    IF before(i) /\ @[i] = x THEN gone.forward[i] ELSE @[i]],
                    !.span = [i \in DOMAIN @ |->
                                 IF ~before(i) THEN @[i]
                                 ELSE IF old.forward[i] = x THEN @[i] + gone.span[i] - 1
                                 ELSE @[i] - 1]]
        node == [y \in DOMAIN z.node \ {x} |-> relinked(y)]
    IN  [node   |-> node,
         tail   |-> IF gone.forward[1] = Nil THEN gone.backward ELSE z.tail,
         length |-> z.length - 1,
         level  |-> Max({1} \cup {i \in 1 .. z.level : node[Header].forward[i] # Nil})]

(* delete *)
DeleteElement(z, score, ele) ==
    LET path == PathTo(z, score, ele)
        x == z.node[path[1].at].forward[1]
    IN  IF x = ele /\ Equal(z.node[x].score, score) THEN DeleteNode(z, x, path) ELSE z

(* getRank: the search also stops below the top level, at the element. *)
GetRank(z, score, ele) ==
    LET path == Path(z, Before(z, score, ele) \cup {x \in {ele} : Equal(z.node[x].score, score)})
        found == {i \in 1 .. z.level : path[i].at = ele}
    IN  IF found = {} THEN 0 ELSE path[Max(found)].rank

(* From a place along level i, while the next link does not go beyond a    *)
(* rank.                                                                   *)
WalkToRank(z, i, from, rank) ==
    LET walk[n \in 0 .. z.length] ==
            IF n = 0 THEN from
            ELSE LET p == walk[n - 1]
                     x == z.node[p.at]
                 IN  IF x.forward[i] = Nil \/ p.rank + x.span[i] > rank THEN p
                     ELSE [at |-> x.forward[i], rank |-> p.rank + x.span[i]]
    IN  walk[z.length]

(* getElementByRank: the search also stops below the top level, at the rank. *)
GetElementByRank(z, rank) ==
    LET path[i \in 1 .. z.level] ==
            WalkToRank(z, i, IF i = z.level THEN [at |-> Header, rank |-> 0] ELSE path[i + 1], rank)
        found == {i \in 1 .. z.level : path[i].rank = rank}
    IN  IF rank = 0 \/ rank > z.length \/ found = {} THEN Nil ELSE path[Max(found)].at

FirstInRangeRank(z, min) ==
    LET end == Path(z, ScoredBelow(z, min))[1]
        x   == z.node[end.at].forward[1]
    IN  IF x # Nil /\ AtMost(min, z.node[x].score) THEN end.rank + 1 ELSE 0

(* A slip: the greatest score is left out. *)
LastInRangeRankStrict(z, max) ==
    LET end == Path(z, ScoredBelow(z, max))[1]
    IN  IF end.at = Header THEN 0 ELSE end.rank

LastInRangeRank(z, max) ==
    LET end == Path(z, ScoredUpTo(z, max))[1]
    IN  IF end.at = Header THEN 0 ELSE end.rank

(* The nodes from x on, or back from x, at most n, all passing.              *)
Following(z, x, n, passing) ==
    LET from[m \in 0 .. n] ==
            IF m = 0 THEN [met |-> << >>, at |-> x]
            ELSE LET p == from[m - 1]
                 IN  IF p.at \notin passing THEN p
                     ELSE [met |-> Append(p.met, p.at), at |-> z.node[p.at].forward[1]]
    IN  from[n].met

Preceding(z, x, n, passing) ==
    LET from[m \in 0 .. n] ==
            IF m = 0 THEN [met |-> << >>, at |-> x]
            ELSE LET p == from[m - 1]
                 IN  IF p.at \notin passing THEN p
                     ELSE [met |-> Append(p.met, p.at), at |-> z.node[p.at].backward]
    IN  from[n].met

(* The node that many steps from x, or back from x. *)
Skip(z, x, offset) ==
    LET s == Following(z, x, z.length, Elements(z))
    IN  IF offset < Len(s) THEN s[offset + 1] ELSE Nil

SkipBack(z, x, offset) ==
    LET s == Preceding(z, x, z.length, Elements(z))
    IN  IF offset < Len(s) THEN s[offset + 1] ELSE Nil
=============================================================================
