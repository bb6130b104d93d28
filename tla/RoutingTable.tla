---------------------------- MODULE RoutingTable ----------------------------
(***************************************************************************)
(* How index.js keeps its routing table: nodes that are heard from enter   *)
(* it, a full row pings its least recently pinged node to decide whether a *)
(* newcomer may take its place, the oldest nodes are pinged now and then,  *)
(* a peer may hint that a node is down, and pings that fail evict.         *)
(*                                                                         *)
(* A node is an object: the same id can be known through an old object and *)
(* a new one, and code that captured the old one still acts on it.  The    *)
(* state is one record rt, and the methods of the class are operators on   *)
(* it, so that a handler composes them the way the code does.              *)
(*                                                                         *)
(* Abstracted: one row of the table is modelled (the others differ only in *)
(* the ids they hold); ticks are the only clock; NAT samples, the filter   *)
(* option and events are left out.                                         *)
(***************************************************************************)
EXTENDS Naturals, Sequences, FiniteSets, SequencesExt

CONSTANTS
    Id,           \* the ids that fall into the row
    Copies,       \* bound: how many objects of one id exist at a time
    K,            \* how many nodes the row holds
    RecentNode,   \* RECENT_NODE (12 in the code)
    OldNode,      \* OLD_NODE (360 in the code)
    PingEvery,    \* every how many ticks _pingSome() runs (8 in the code)
    PingCounts,   \* how many nodes it pings ({3, 5} in the code)
    MaxRepings,   \* _repinging stays below it (3 in the code)
    MaxChecks,    \* _checks at which down hints are ignored (10 in the code)
    MaxTick,      \* bound: the last tick
    MaxPings      \* bound: the pings outstanding at a time

ASSUME RoutingTableAssumption ==
    /\ \A n \in {Copies, K, RecentNode, OldNode, PingEvery, MaxRepings, MaxChecks,
                 MaxTick, MaxPings} : n \in Nat \ {0}
    /\ PingCounts \subseteq Nat

VARIABLES
    tick,      \* dht._tick
    rt,        \* the table and what surrounds it
    evicted    \* kinds of the pings whose answer evicted the node that gave it

vars == <<tick, rt, evicted>>

Object == Id \X (1..Copies)
IdOf(o) == o[1]
NoObject == <<>>

\* A ping whose outcome some handler waits for: _check() of the oldest nodes or
\* of a hinted one, or _repingAndSwap(), and what its closures captured.
Ping == [kind : {"oldest", "hint", "swap"}, node : Object, lastSeen : Nat,
         new : Object \cup {NoObject}]

Init ==
    /\ tick = 0
    /\ rt = [table     |-> [i \in Id |-> NoObject],         \* dht.table
             nodes     |-> <<>>,                            \* dht.nodes, oldest first
             seen      |-> [o \in Object |-> 0],
             pinged    |-> [o \in Object |-> 0],
             added     |-> [o \in Object |-> 0],
             hinted    |-> {},                              \* downHints above 0
             pings     |-> <<>>,                            \* pings outstanding
             checks    |-> 0,                               \* dht._checks
             repinging |-> 0]                               \* dht._repinging
    /\ evicted = {}

-----------------------------------------------------------------------------
(* The methods, as operators on s = rt. *)

InNodes(s, o) == o \in ToSet(s.nodes)
Row(s) == {s.table[i] : i \in Id} \ {NoObject}

\* nodes without o, wherever it was.
Unlinked(nodes, o) ==
    IF \E k \in DOMAIN nodes : nodes[k] = o
    THEN RemoveAt(nodes, CHOOSE k \in DOMAIN nodes : nodes[k] = o)
    ELSE nodes

\* Mutation: nodes.add() appends the node without taking it out first.
TouchedAgain(s, o) == [s EXCEPT !.nodes = Append(@, o)]

\* nodes.add(): to the newest end, from wherever it was.
Touched(s, o) == [s EXCEPT !.nodes = Append(Unlinked(@, o), o)]

\* Mutation: a node that is heard from keeps its place in the order.
RefreshedInPlace(s, o) == [s EXCEPT !.pinged[o] = tick, !.seen[o] = tick]

\* _addNodeFromNetwork() of an id the table has.
Refreshed(s, o) ==
    Touched([s EXCEPT !.pinged[o] = tick, !.seen[o] = tick], o)

\* Mutation: what is captured as lastSeen is the tick of the ping.
PingingNow(s, kind, o, new) ==
    [s EXCEPT !.pinged[o] = tick,
              !.pings = Append(@, [kind |-> kind, node |-> o, lastSeen |-> tick,
                                   new |-> new]),
              !.checks = IF kind = "swap" THEN @ ELSE @ + 1,
              !.repinging = IF kind = "swap" THEN @ + 1 ELSE @]

\* _check() and _repingAndSwap(), up to the ping they send.
Pinging(s, kind, o, new) ==
    [s EXCEPT !.pinged[o] = tick,
              !.pings = Append(@, [kind |-> kind, node |-> o,
                                   lastSeen |-> s.seen[o], new |-> new]),
              !.checks = IF kind = "swap" THEN @ ELSE @ + 1,
              !.repinging = IF kind = "swap" THEN @ + 1 ELSE @]

\* The order in which _onfullrow() prefers nodes to ping.
Before(s, o, p) ==
    \/ s.pinged[o] < s.pinged[p]
    \/ s.pinged[o] = s.pinged[p] /\ s.added[o] < s.added[p]

\* The nodes its loop over the row may end with (ties go by the row's order).
Oldest(s) ==
    LET row == {o \in Row(s) : s.pinged[o] # tick}
    IN  {o \in row : \A p \in row : ~Before(s, p, o)}

TooFresh(s, o) == tick - s.pinged[o] < RecentNode /\ tick - s.added[o] > OldNode

\* _onfullrow(), as the set of states it may leave.
FullRow(s, new) ==
    IF s.repinging >= MaxRepings \/ Oldest(s) = {} THEN {s}
    ELSE {IF TooFresh(s, o) THEN s ELSE Pinging(s, "swap", o, new) : o \in Oldest(s)}

\* _addNode(), as the set of states it may leave.  The table's own add() puts the
\* object in the place of another one of the same id, if it holds one.
Added(s, o) ==
    LET t     == [s EXCEPT !.added[o] = tick, !.pinged[o] = tick, !.seen[o] = tick]
        takes == t.table[IdOf(o)] # NoObject \/ Cardinality(Row(t)) < K
    IN  IF InNodes(s, o) THEN {s}
        ELSE IF takes THEN {Touched([t EXCEPT !.table[IdOf(o)] = o], o)}
        ELSE FullRow(t, o)

\* _removeNode()
Removed(s, o) ==
    IF InNodes(s, o)
    THEN [s EXCEPT !.table[IdOf(o)] = NoObject, !.nodes = Unlinked(@, o)]
    ELSE s

\* _removeStaleNode()
RemovedIfStale(s, o, lastSeen) ==
    IF s.seen[o] <= lastSeen THEN Removed(s, o) ELSE s

\* Objects no one refers to: the ones a new node object can be.
Unused(s, o) ==
    /\ ~InNodes(s, o)
    /\ \A p \in ToSet(s.pings) : p.node # o /\ p.new # o

Fresh(s, i) ==
    {o \in Object : /\ IdOf(o) = i /\ Unused(s, o)
                    /\ \A n \in 1..o[2] - 1 : ~Unused(s, <<i, n>>)}

\* A message with id i came in: _addNodeFromNetwork().
Heard(s, i) ==
    IF s.table[i] # NoObject THEN {Refreshed(s, s.table[i])}
    ELSE UNION {Added([s EXCEPT !.hinted = @ \ {o}], o) : o \in Fresh(s, i)}

\* Mutation: a swap that is over gives back a check.
SettleChecks(s, k) ==
    [s EXCEPT !.pings = RemoveAt(@, k), !.checks = @ - 1,
              !.repinging = IF s.pings[k].kind = "swap" THEN @ - 1 ELSE @]

\* Mutation: a swap that is over keeps its share of _repinging.
SettleRepinging(s, k) ==
    [s EXCEPT !.pings = RemoveAt(@, k),
              !.checks = IF s.pings[k].kind = "swap" THEN @ ELSE @ - 1]

\* The counters and the list without the ping at position k.
Settle(s, k) ==
    [s EXCEPT !.pings = RemoveAt(@, k),
              !.checks = IF s.pings[k].kind = "swap" THEN @ ELSE @ - 1,
              !.repinging = IF s.pings[k].kind = "swap" THEN @ - 1 ELSE @]

\* onswap(): the old node goes and the newcomer is added.
Swapped(s, p) == Added(Removed(s, p.node), p.new)

-----------------------------------------------------------------------------
(* Handlers. *)

Becomes(states) == \E s \in states : Len(s.pings) <= MaxPings /\ rt' = s

\* A request, or a reply nobody here waits for, from a node that gives its id.
Hear(i) ==
    /\ Becomes(Heard(rt, i))
    /\ UNCHANGED <<tick, evicted>>

\* The reply to ping k.  The io layer reports the sender first, when it gives
\* its id, and then calls the closure of the ping.
Answer(k, withId) ==
    LET p   == rt.pings[k]
        ids == IF withId THEN Heard(rt, IdOf(p.node)) ELSE {rt}
        end(s) == IF p.kind # "swap" THEN {RemovedIfStale(Settle(s, k), p.node, p.lastSeen)}
                  ELSE IF s.seen[p.node] <= p.lastSeen THEN Swapped(Settle(s, k), p)
                  ELSE {Settle(s, k)}
    IN  /\ Becomes(UNION {end(s) : s \in ids})
        /\ evicted' = IF withId /\ rt.table[IdOf(p.node)] = p.node /\ ~InNodes(rt', p.node)
                      THEN evicted \cup {p.kind} ELSE evicted
        /\ UNCHANGED tick

\* Ping k was not answered, or the node was suspended: its onerror().
Fail(k) ==
    LET p == rt.pings[k]
    IN  /\ Becomes(IF p.kind = "swap" THEN Swapped(Settle(rt, k), p)
                   ELSE {Removed(Settle(rt, k), p.node)})
        /\ UNCHANGED <<tick, evicted>>

\* _ontimeout() of a request that was made to a node by its id.
Unreachable(i) ==
    /\ rt.table[i] # NoObject
    /\ rt' = Removed(rt, rt.table[i])
    /\ UNCHANGED <<tick, evicted>>

\* A peer says the node with id i is down: DOWN_HINT in _onrequest().
DownHint(i) ==
    LET o == rt.table[i]
    IN  /\ o # NoObject
        /\ rt.checks < MaxChecks
        /\ rt.pinged[o] < tick \/ o \notin rt.hinted
        /\ Becomes({Pinging([rt EXCEPT !.hinted = @ \cup {o}], "hint", o, NoObject)})
        /\ UNCHANGED <<tick, evicted>>

\* What the loop of _pingSome() pings: the oldest nodes, up to the first one
\* already pinged in this tick, behind which the loop never gets.
PingSome(s, t, count) ==
    LET recent == s.nodes # <<>> /\ t - s.pinged[Head(s.nodes)] < RecentNode
        most   == IF recent THEN 2 ELSE count
        last   == {n \in 0..Len(s.nodes) :
                      n <= most /\ \A j \in 1..n : s.pinged[s.nodes[j]] # t}
        n      == CHOOSE m \in last : \A j \in last : j <= m
        now    == {s.nodes[j] : j \in 1..n}
    IN  [s EXCEPT
            !.pinged = [o \in Object |-> IF o \in now THEN t ELSE @[o]],
            !.checks = @ + n,
            !.pings = @ \o [j \in 1..n |-> [kind |-> "oldest", node |-> s.nodes[j],
                                            lastSeen |-> s.seen[s.nodes[j]],
                                            new |-> NoObject]]]

\* _onwakeup(): far enough that everything looks old, and just before the next
\* multiple of PingEvery.
AfterWakeup == LET t == tick + 2 * OldNode IN t + PingEvery - (t % PingEvery) - 2

\* _ontick(), one tick on or, after a sleep, a wakeup.
Tick ==
    \E t \in {tick + 1, AfterWakeup} :
        /\ t <= MaxTick
        /\ tick' = t
        /\ IF t % PingEvery = 0
           THEN Becomes({PingSome(rt, t, c) : c \in PingCounts})
           ELSE UNCHANGED rt
        /\ UNCHANGED evicted

Next ==
    \/ \E i \in Id : Hear(i)
    \/ \E k \in DOMAIN rt.pings, withId \in BOOLEAN : Answer(k, withId)
    \/ \E k \in DOMAIN rt.pings : Fail(k)
    \/ \E i \in Id : Unreachable(i)
    \/ \E i \in Id : DownHint(i)
    \/ Tick

Spec == Init /\ [][Next]_vars

-----------------------------------------------------------------------------
(* Properties. *)

\* Every variable holds a value of its type.
TypeOK ==
    /\ tick \in 0..MaxTick
    /\ rt.table \in [Id -> Object \cup {NoObject}]
    /\ rt.nodes \in Seq(Object)
    /\ \A f \in {rt.seen, rt.pinged, rt.added} : f \in [Object -> 0..MaxTick]
    /\ rt.hinted \subseteq Object
    /\ rt.pings \in Seq(Ping)
    /\ rt.checks \in Nat /\ rt.repinging \in Nat
    /\ evicted \subseteq {"oldest", "hint", "swap"}

CountOf(kinds) == Cardinality({k \in DOMAIN rt.pings : rt.pings[k].kind \in kinds})

\* _checks and _repinging count the pings outstanding, in whatever order they
\* are answered, so neither limit is ever used up for good.
CountersMatch ==
    /\ rt.checks = CountOf({"oldest", "hint"})
    /\ rt.repinging = CountOf({"swap"})
    /\ rt.repinging <= MaxRepings

\* Every node of the table is in the list that toArray() and the pings go by, so
\* that it will be pinged, once and under its own id, however late a swap's
\* captured newcomer is added.  (The list may hold more: a newcomer that takes
\* the place of an object of its id leaves that one in the list.)
SameNodes ==
    /\ Row(rt) \subseteq ToSet(rt.nodes)
    /\ IsInjective(rt.nodes)
    /\ \A i \in Id : rt.table[i] # NoObject => IdOf(rt.table[i]) = i
    /\ Cardinality(Row(rt)) <= K

\* nodes is in the order in which the nodes were last heard from, so what
\* _pingSome() takes from its front is what has been silent longest.
OldestFirst ==
    \A j, k \in DOMAIN rt.nodes :
        j < k => rt.seen[rt.nodes[j]] <= rt.seen[rt.nodes[k]]

\* Answering a ping of _pingSome() or of a full row, with its id, never costs the
\* object that the table holds its place.  (Of an object that only the list
\* holds, left behind as said at SameNodes, no answer refreshes it.)
AnswerKeepsPlace == evicted \subseteq {"hint"}

\* Answering the ping that a down hint caused never does either.
HintedAnswerKeepsPlace == "hint" \notin evicted

\* What can still influence the future: the fields of objects referred to.
View ==
    LET used(o) == ~Unused(rt, o)
        only(f) == [o \in Object |-> IF used(o) THEN f[o] ELSE 0]
    IN  <<tick, [rt EXCEPT !.seen = only(@), !.pinged = only(@), !.added = only(@),
                           !.hinted = {o \in @ : used(o)}], evicted>>
=============================================================================
