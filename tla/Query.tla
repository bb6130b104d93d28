-------------------------------- MODULE Query --------------------------------
(***************************************************************************)
(* lib/query.js: the iterative lookup.  A query asks the nodes it knows    *)
(* for nodes closer to its target, keeps the k closest that answered, ends *)
(* when nothing is left that could be closer, and then may commit to those *)
(* it kept.                                                                *)
(*                                                                         *)
(* A node is its rank by distance to the target, so that _compare() of two *)
(* ids is < of two nodes.  The state is one record q and the methods are   *)
(* operators on it, composed as the handlers compose them.                 *)
(*                                                                         *)
(* Abstracted: what is asked and answered; filters and the rate limit of   *)
(* down hints.  The stream (streamx) is a count of what was pushed and not *)
(* yet read.  That a request gets one callback is what RequestContract     *)
(* says.                                                                   *)
(***************************************************************************)
EXTENDS Naturals, Sequences, FiniteSets, SequencesExt

CONSTANTS
    N,             \* how many other nodes there are
    K,             \* how many of the closest are kept: table.k
    Concurrency,   \* requests in flight, not counting slow ones (10)
    Background,    \* the same of a background query that yields to others (2)
    Slowed,        \* the same when slowed down (3)
    HighWater,     \* replies the stream buffers (16)
    Starts,        \* the lists of nodes a query may be started with; a node that is
                   \* given twice is in pending once, so no list has repeats
    Tables,        \* what the routing table may hold when it is asked
    Bootstrap,     \* the bootstrap nodes, in order
    Options,       \* the options a query may be made with
    Lists          \* the lists of nodes a reply may name, not always by distance

Node == 1..N
\* shared: the session is the program's; background: made by _backgroundQuery().
Option == [onlyClosest : BOOLEAN, commit : BOOLEAN, force : BOOLEAN,
           shared : BOOLEAN, background : BOOLEAN]

ASSUME QueryAssumption ==
    /\ \A n \in {N, K, Concurrency, Background, Slowed, HighWater} : n \in Nat \ {0}
    /\ Background <= Concurrency
    /\ Lists \subseteq Seq(Node) /\ Starts \subseteq Seq(Node)
    /\ Bootstrap \in Seq(Node)
    /\ \A list \in Starts : IsInjective(list)
    /\ Tables \subseteq SUBSET Node /\ Tables # {}
    /\ Options \subseteq Option

VARIABLES
    opts,      \* the options of the query
    q,         \* the query
    gone,      \* dht.destroy() was called: no request is accepted
    asked,     \* nodes a request was made to
    named,     \* who answered, a node its reply names, and whether the query got to
               \* that name when it read the reply
    verified   \* nodes that answered well, with their id, before the commit

vars == <<opts, q, gone, asked, named, verified>>

Init ==
    /\ opts \in Options
    /\ gone = FALSE
    /\ asked = {} /\ named = {} /\ verified = {}
    /\ \E list \in Starts :
         q = [seen |-> [n \in Node |-> IF n \in ToSet(list) THEN "open" ELSE "new"],
              refs |-> [n \in Node |-> {}],     \* of an open node: who named it
              pending |-> Reverse(list),        \* popped from the end
              fast |-> {}, slow |-> {},         \* in flight, by oncycle
              inflight |-> 0, slows |-> 0,      \* the counters of the two
              concurrency |-> IF opts.background THEN Background ELSE Concurrency,
              successes |-> 0, errors |-> 0,
              closest |-> <<>>,                 \* closestReplies
              slowdown |-> FALSE, fromTable |-> FALSE, commiting |-> FALSE,
              phase |-> "opening",              \* of the stream
              buffered |-> 0, needsPush |-> FALSE,
              commits |-> 0, good |-> 0,        \* commits not settled; fulfilled
              hinted |-> {}]                    \* down hints sent: to whom, of whom

-----------------------------------------------------------------------------
(* The methods, as operators on s = q. *)

IsCloser(s, n) == Len(s.closest) < K \/ n < Last(s.closest)

\* The numbers of set in ascending order.
Ascending(set) ==
    [j \in 1..Cardinality(set) |->
        CHOOSE n \in set : Cardinality({m \in set : m < n}) = j - 1]

\* The positions of list at which a node that is new, and may be among the
\* closest, is named for the first time.
News(s, list) ==
    {i \in DOMAIN list : /\ s.seen[list[i]] = "new" /\ IsCloser(s, list[i])
                         /\ \A j \in 1..i - 1 : list[j] # list[i]}

\* A loop of _addPending() over list takes up the new nodes, in their order, and
\* remembers who named them and those that wait for their answer: ref or nobody (0).
TakenUp(s, list, ref) ==
    LET at    == Ascending(News(s, list))
        new   == [j \in DOMAIN at |-> list[at[j]]]
        open  == {n \in ToSet(list) : s.seen[n] = "open"}
    IN  [s EXCEPT
            !.seen = [n \in Node |-> IF n \in ToSet(new) THEN "open" ELSE @[n]],
            !.refs = [n \in Node |-> IF n \in ToSet(new) \cup open
                                     THEN @[n] \cup ({ref} \ {0}) ELSE @[n]],
            !.pending = @ \o new]

\* Mutation: a node that timed out is passed over silently.
AddAllDown(s, list, ref) == IF opts.onlyClosest THEN s ELSE TakenUp(s, list, ref)

\* The down hints of pairs are requests: none is sent when the node is destroyed.
Hints(pairs) == IF gone THEN {} ELSE pairs

\* The whole loop: of a node that timed out a hint is sent to who names it.
AddAll(s, list, ref) ==
    LET down == {n \in ToSet(list) : s.seen[n] = "down"}
    IN  IF opts.onlyClosest THEN s
        ELSE [TakenUp(s, list, ref) EXCEPT !.hinted = @ \cup Hints(({ref} \ {0}) \X down)]

\* table.closest()
ClosestOf(table, most) ==
    LET near == Ascending(table)
    IN  SubSeq(near, 1, IF Len(near) <= most THEN Len(near) ELSE most)

\* _addFromTable(), when the routing table holds table.
AddFromTable(s, table) ==
    IF Len(s.pending) >= K THEN s
    ELSE AddAll([s EXCEPT !.fromTable = TRUE], ClosestOf(table, K - Len(s.pending)), 0)

\* Mutation: a node is popped before it is known that there is room.
VisitsPopFirst(s) ==
    LET limit  == (IF s.slowdown THEN Slowed ELSE s.concurrency) + s.slows
        room   == IF s.inflight < limit THEN limit - s.inflight ELSE 0
        may    == {i \in DOMAIN s.pending : IsCloser(s, s.pending[i])}
        after(i) == Cardinality({j \in may : j > i})
        popped == {i \in DOMAIN s.pending : after(i) <= room}
        visit  == {s.pending[i] : i \in {j \in may : after(j) < room}}
    IN  [s EXCEPT !.pending = SubSeq(@, 1, Len(@) - Cardinality(popped)),
                  !.inflight = @ + Cardinality(visit), !.fast = @ \cup visit,
                  !.slowdown = @ \/ (~s.fromTable /\ s.successes = 0 /\ s.errors = 0)]

\* The loop of _readMore(), which pops nodes until enough are in flight and
\* asks those that may be among the closest, and the line after it.  When the
\* node is destroyed no request is made and the query is destroyed.
Visits(s) ==
    LET limit  == (IF s.slowdown THEN Slowed ELSE s.concurrency) + s.slows
        room   == IF s.inflight < limit THEN limit - s.inflight ELSE 0
        may    == {i \in DOMAIN s.pending : IsCloser(s, s.pending[i])}
        popped == {i \in DOMAIN s.pending : Cardinality({j \in may : j > i}) < room}
        visit  == {s.pending[i] : i \in popped \cap may}
    IN  [s EXCEPT
            !.pending = SubSeq(@, 1, Len(@) - Cardinality(popped)),
            !.inflight = @ + Cardinality(visit),
            !.fast = IF gone THEN @ ELSE @ \cup visit,
            !.phase = IF gone /\ visit # {} THEN "destroying" ELSE @,
            !.slowdown = @ \/ (~s.fromTable /\ s.successes = 0 /\ s.errors = 0)]

\* Nothing is left to ask, and nothing to wait for that could matter.
IsOver(s) ==
    /\ s.pending = <<>>
    /\ s.inflight = 0 \/ (s.slows = s.inflight /\ Len(s.closest) >= K)

\* _flush()
Flush(s) ==
    CASE ~opts.commit -> [s EXCEPT !.commiting = TRUE, !.phase = "ending"]
      [] opts.commit /\ s.closest = <<>> ->
            [s EXCEPT !.commiting = TRUE, !.phase = "destroying"]
      [] OTHER -> [s EXCEPT !.commiting = TRUE, !.commits = Len(s.closest)]

\* _readMore(), which falls back to the routing table once.
ReadMore(s, table) ==
    LET first == Visits(s)
        again == Visits(AddFromTable(first, table))
    IN  IF s.phase \in {"destroying", "closed"} \/ s.commiting THEN s
        ELSE IF ~IsOver(first) THEN first
        ELSE IF first.fromTable \/ 4 * first.successes >= K THEN Flush(first)
        ELSE IF IsOver(again) THEN Flush(again)
        ELSE again

\* Mutation: every request counts as slow.
DecSlow(s, n) ==
    [s EXCEPT !.slows = @ - 1, !.inflight = @ - 1,
              !.fast = @ \ {n}, !.slow = @ \ {n}]

\* Mutation: a slow request that is over stays counted as slow.
DecFast(s, n) ==
    [s EXCEPT !.inflight = @ - 1, !.fast = @ \ {n}, !.slow = @ \ {n}]

\* _dec()
Dec(s, n) ==
    [s EXCEPT !.slows = IF n \in s.slow THEN @ - 1 ELSE @,
              !.inflight = @ - 1,
              !.fast = @ \ {n}, !.slow = @ \ {n}]

\* Mutation: the new reply stays last.
PushClosestLast(s, n) ==
    [s EXCEPT !.closest = IF Len(@) < K THEN Append(@, n) ELSE Append(Front(@), n)]

\* _pushClosest()
PushClosest(s, n) ==
    LET nearer == Cardinality({i \in DOMAIN s.closest : s.closest[i] < n})
        all    == InsertAt(s.closest, nearer + 1, n)
    IN  [s EXCEPT !.closest = IF Len(all) > K THEN Front(all) ELSE all]

\* Of the nodes a reply names, those the loop of _onvisit() gets to: it stops
\* behind the first one that is not closer.
Considered(s, list) ==
    LET far == {i \in DOMAIN list : ~IsCloser(s, list[i])}
    IN  IF far = {} THEN list
        ELSE SubSeq(list, 1, CHOOSE i \in far : \A j \in far : i <= j)

\* What _onvisit() has made of the query when it comes to the closer nodes.
Counted(s, n, ok, withId) ==
    LET c == IF ok THEN [s EXCEPT !.successes = @ + 1] ELSE [s EXCEPT !.errors = @ + 1]
    IN  IF ok /\ withId /\ IsCloser(s, n) THEN PushClosest(c, n) ELSE c

\* _onvisit() from the closer nodes on; data: map() returns something to push.
Learned(s, n, list, ok, data, table) ==
    LET c    == AddAll(s, list, n)
        calm == [c EXCEPT !.slowdown = @ /\ (c.fromTable
                                             \/ c.successes + c.errors < c.concurrency)]
        put  == [calm EXCEPT !.buffered = @ + 1, !.needsPush = FALSE]
    IN  IF ~ok \/ ~data THEN ReadMore(calm, table)
        ELSE IF put.buffered < HighWater THEN ReadMore(put, table)
        ELSE put

\* Mutation: a node that timed out is forgotten.
FailedForgets(s, n, timeout, table) ==
    LET told == IF timeout THEN [s EXCEPT !.seen[n] = "new", !.refs[n] = {}] ELSE s
    IN  ReadMore([Dec(told, n) EXCEPT !.errors = @ + 1], table)

\* Mutation: it does not read more.
FailedWaits(s, n, timeout, table) == [Dec(s, n) EXCEPT !.errors = @ + 1]

\* _onerror()
Failed(s, n, timeout, table) ==
    LET told == IF timeout
                THEN [s EXCEPT !.seen[n] = "down", !.refs[n] = {},
                               !.hinted = @ \cup Hints(s.refs[n] \X {n})]
                ELSE s
    IN  ReadMore([Dec(told, n) EXCEPT !.errors = @ + 1], table)

\* _oncycle()
Cycled(s, n, table) ==
    ReadMore([s EXCEPT !.fast = @ \ {n}, !.slow = @ \cup {n}, !.slows = @ + 1], table)

-----------------------------------------------------------------------------
(* Handlers. *)

Becomes(s) ==
    /\ q' = s
    /\ asked' = asked \cup s.fast \cup s.slow

\* _open(): the routing table and, if it had too few, the bootstrap nodes.
Open(table) ==
    /\ q.phase = "opening"
    /\ LET s == AddFromTable([q EXCEPT !.phase = "open"], table)
       IN  Becomes(IF Len(s.pending) >= K THEN s ELSE AddAll(s, Bootstrap, 0))
    /\ UNCHANGED <<opts, gone, named, verified>>

\* _read(): the stream calls it again when something was pushed since the last
\* time and there is room.
Read(table) ==
    /\ q.phase = "open" /\ ~q.needsPush /\ q.buffered < HighWater
    /\ Becomes(ReadMore([q EXCEPT !.needsPush = TRUE], table))
    /\ UNCHANGED <<opts, gone, named, verified>>

\* A reply is read: by the program or, of a background query, by the node, which
\* sets the concurrency by how many requests of any kind are in flight.
Consume ==
    /\ q.phase # "closed" /\ q.buffered > 0
    /\ \E concurrency \in IF opts.background THEN {Concurrency, Background}
                          ELSE {q.concurrency} :
          q' = [q EXCEPT !.buffered = @ - 1, !.concurrency = concurrency]
    /\ UNCHANGED <<opts, gone, asked, named, verified>>

\* _onvisit(): node n answers, well or with an error, and names nodes.
Answer(n, ok, withId, list, data, table) ==
    /\ n \in q.fast \cup q.slow
    /\ LET s == [Dec(q, n) EXCEPT !.seen[n] = "done", !.refs[n] = {}]
           c == Counted(s, n, ok, withId)
           l == Considered(c, list)
           met == IF q.commiting \/ opts.onlyClosest THEN {} ELSE ToSet(l)
       IN  /\ IF q.commiting
              THEN q' = s /\ UNCHANGED <<asked, verified>>
              ELSE /\ Becomes(Learned(c, n, l, ok, data, table))
                   /\ verified' = IF ok /\ withId THEN verified \cup {n} ELSE verified
           /\ named' = named \cup ({n} \X met \X {TRUE})
                             \cup ({n} \X (ToSet(list) \ met) \X {FALSE})
    /\ UNCHANGED <<opts, gone>>

\* The timer of a request that has attempts left fires for the first time.
Cycle(n, table) ==
    /\ n \in q.fast /\ ~opts.force
    /\ Becomes(Cycled(q, n, table))
    /\ UNCHANGED <<opts, gone, named, verified>>

\* It fires for the last time; without retries that is the first time as well.
Timeout(n, table) ==
    /\ n \in q.slow \/ (n \in q.fast /\ opts.force)
    /\ Becomes(IF n \in q.slow THEN Failed(q, n, TRUE, table)
               ELSE Failed(Cycled(q, n, table), n, TRUE, table))
    /\ UNCHANGED <<opts, gone, named, verified>>

\* The request ends with another error: the node was suspended or destroyed, or
\* the session was destroyed.
Fail(n, table) ==
    /\ n \in q.fast \cup q.slow
    /\ Becomes(Failed(q, n, FALSE, table))
    /\ UNCHANGED <<opts, gone, named, verified>>

\* dht.destroy() is called.
NodeDestroyed ==
    /\ ~gone /\ gone' = TRUE
    /\ UNCHANGED <<opts, q, asked, named, verified>>

\* The program destroys the stream.
Destroy ==
    /\ q.phase \in {"opening", "open", "ending"}
    /\ q' = [q EXCEPT !.phase = "destroying"]
    /\ UNCHANGED <<opts, gone, asked, named, verified>>

End(s, phase) == IF s.phase = "open" THEN [s EXCEPT !.phase = phase] ELSE s

\* A commit is fulfilled: ondone() of _endAfterCommit().
CommitDone ==
    /\ q.commits > 0
    /\ LET s == [q EXCEPT !.commits = @ - 1, !.good = @ + 1]
       IN  q' = IF s.commits = 0 THEN End(s, "ending") ELSE s
    /\ UNCHANGED <<opts, gone, asked, named, verified>>

\* Mutation: that another commit was fulfilled is not looked at.
CommitFailedDestroys ==
    /\ q.commits > 0
    /\ LET s == [q EXCEPT !.commits = @ - 1]
       IN  q' = IF s.commits > 0 THEN s ELSE End(s, "destroying")
    /\ UNCHANGED <<opts, gone, asked, named, verified>>

\* A commit is rejected: its onerror().
CommitFailed ==
    /\ q.commits > 0
    /\ LET s == [q EXCEPT !.commits = @ - 1]
       IN  q' = IF s.commits > 0 THEN s
                ELSE End(s, IF s.good > 0 THEN "ending" ELSE "destroying")
    /\ UNCHANGED <<opts, gone, asked, named, verified>>

\* The stream is destroyed, by itself when it ended and everything was read;
\* _destroy() destroys the session, so every request in flight fails, unless it is
\* the program's: then they go on, and the query still hears of them.
Close ==
    /\ q.phase = "destroying" \/ (q.phase = "ending" /\ q.buffered = 0)
    /\ LET flight == q.fast \cup q.slow
       IN  q' = IF opts.shared THEN [q EXCEPT !.phase = "closed"]
                ELSE [q EXCEPT !.phase = "closed", !.fast = {}, !.slow = {}, !.slows = 0,
                               !.inflight = @ - Cardinality(flight),
                               !.errors = @ + Cardinality(flight)]
    /\ UNCHANGED <<opts, gone, asked, named, verified>>

Next ==
    \/ \E table \in Tables : Open(table)
    \/ \E table \in Tables : Read(table)
    \/ Consume
    \/ \E n \in Node, ok, withId, data \in BOOLEAN, list \in Lists, table \in Tables :
           Answer(n, ok, withId, list, data, table)
    \/ \E n \in Node, table \in Tables : Cycle(n, table)
    \/ \E n \in Node, table \in Tables : Timeout(n, table)
    \/ \E n \in Node, table \in Tables : Fail(n, table)
    \/ NodeDestroyed \/ Destroy
    \/ CommitDone \/ CommitFailed
    \/ Close

Spec == Init /\ [][Next]_vars

-----------------------------------------------------------------------------
(* Properties. *)

\* Every variable holds a value of its type.
TypeOK ==
    /\ opts \in Options /\ gone \in BOOLEAN
    /\ asked \subseteq Node /\ named \subseteq Node \X Node \X BOOLEAN /\ verified \subseteq Node
    /\ q.seen \in [Node -> {"new", "open", "done", "down"}]
    /\ q.refs \in [Node -> SUBSET Node]
    /\ q.pending \in Seq(Node) /\ q.closest \in Seq(Node)
    /\ q.fast \subseteq Node /\ q.slow \subseteq Node
    /\ \A n \in {q.inflight, q.slows, q.successes, q.errors, q.buffered, q.commits,
                 q.good} : n \in Nat
    /\ q.concurrency \in {Concurrency, Background}
    /\ \A b \in {q.slowdown, q.fromTable, q.commiting, q.needsPush} : b \in BOOLEAN
    /\ q.phase \in {"opening", "open", "ending", "destroying", "closed"}
    /\ q.hinted \subseteq Node \X Node

\* inflight and _slow, on which asking more and ending depend, count the
\* requests in flight and the slow ones among them, whatever a request does
\* after its first cycle; what is not slow stays within the concurrency.
CountsKept ==
    /\ ~gone => q.inflight = Cardinality(q.fast \cup q.slow)
    /\ q.slows = Cardinality(q.slow) /\ q.fast \cap q.slow = {}
    /\ Cardinality(q.fast) <= (IF Slowed > Concurrency THEN Slowed ELSE Concurrency)

\* closestReplies are the k closest of all the nodes that answered well, nearest
\* first, in whatever order they answered.
ClosestKept ==
    LET s == q.closest
    IN  /\ ToSet(s) \subseteq verified
        /\ \A i, j \in DOMAIN s : i < j => s[i] < s[j]
        /\ Len(s) = (IF Cardinality(verified) <= K THEN Cardinality(verified) ELSE K)
        /\ \A n \in verified \ ToSet(s) : \A i \in DOMAIN s : s[i] < n

\* No node that was taken up is passed over: it waits for its turn, was asked,
\* or is no closer than the k nodes that answered; when the query commits none
\* waits.
NoneSkipped ==
    /\ ~gone => \A n \in Node :
         q.seen[n] # "new" => n \in asked \cup ToSet(q.pending) \/ ~IsCloser(q, n)
    /\ q.commiting => \A n \in ToSet(q.pending) : ~IsCloser(q, n)

\* No node is asked twice in a query, however many name it and whether or not
\* it answered.
AskedOnce ==
    [][\A n \in asked : n \in q'.fast \cup q'.slow => n \in q.fast \cup q.slow]_vars

\* The pairs of named at which the query got to the name.
Met == {pair \in Node \X Node : <<pair[1], pair[2], TRUE>> \in named}

\* Whoever named a node that timed out is told so, whether it named the node
\* before or after the timeout, and nothing else is hinted.  The query must have
\* got to that name: it does not read on behind the first name that is not closer
\* (a TODO in _onvisit() says so), reads no names when it commits already or asks
\* given nodes only, and a destroyed node sends no hints.
HintsMatch ==
    LET due == {pair \in Met : q.seen[pair[2]] = "down"}
    IN  q.hinted \subseteq due /\ (~gone => q.hinted = due)

\* When the last commit settles the stream ends if one was fulfilled, also when
\* the last is not, and is destroyed if none was; it does not end in any other way
\* or while a commit is under way.
CommitsDecide ==
    [][opts.commit =>
         /\ q.phase # "ending" /\ q'.phase = "ending" => q'.commits = 0 /\ q'.good > 0
         /\ q.phase = "open" /\ q.commits > 0 /\ q'.commits = 0 =>
               q'.phase = IF q'.good > 0 THEN "ending" ELSE "destroying"]_vars

-----------------------------------------------------------------------------
(* Liveness.  Every request settles (EverySettles of IO), commits settle, the *)
(* stream is read to its end, and the stream calls _open(), _read() and       *)
(* _destroy().                                                                *)

\* Something is due that does not depend on what others do.
Due ==
    \/ q.phase = "opening"
    \/ q.phase = "open" /\ ~q.needsPush /\ q.buffered < HighWater
    \/ q.phase # "closed" /\ q.buffered > 0
    \/ q.fast \cup q.slow # {}
    \/ q.commits > 0
    \/ q.phase = "destroying" \/ (q.phase = "ending" /\ q.buffered = 0)

\* The steps that then may be taken.
Progress ==
    \/ \E table \in Tables : Open(table) \/ Read(table)
    \/ Consume \/ CommitDone \/ CommitFailed \/ Close
    \/ \E n \in Node, table \in Tables : Cycle(n, table) \/ Timeout(n, table)

\* WF_vars(Progress): Due says when it is enabled, in a form TLC evaluates fast.
Fairness == []<>~Due \/ []<><<Progress>>_vars

FairSpec == Spec /\ Fairness

\* Every query ends, whichever of its requests are answered, fail or time out,
\* slow or not, also when the buffer of the stream was full in between.
Terminates == <>(q.phase = "closed")
=============================================================================
