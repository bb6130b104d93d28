--------------------------------- MODULE IO ---------------------------------
(***************************************************************************)
(* The request table of lib/io.js: what becomes of a request between       *)
(* createRequest() and the one callback that settles it.                   *)
(*                                                                         *)
(* JavaScript runs one handler at a time, so a handler is one action.  The *)
(* loops that call user code for every request they settle (_clear() and   *)
(* Session.destroy()) are split, one action per iteration, because that    *)
(* code may issue requests, destroy the session or the node, or bind it    *)
(* before the loop goes on; no other handler runs while such a loop does.  *)
(*                                                                         *)
(* Abstracted: the order of io.inflight (a set here), the two              *)
(* sockets (one generation number per _bindSockets()), addresses, payloads *)
(* and durations (a timer that is set may fire at any moment).  The token  *)
(* secrets that _drain() also rotates are the module Token; a resume()     *)
(* before its suspend() ended and a bind that fails the module Lifecycle.  *)
(***************************************************************************)
EXTENDS CongestionWindow, SessionList, FiniteSets

CONSTANTS
    Request,      \* the requests the program ever makes
    MaxRetries,   \* Request.retries as constructed (3 in the code)
    TidSpace,     \* number of transaction ids (65536 in the code)
    FirstTids,    \* ids the counter may start from (any in the code)
    MaxBinds,     \* bound: how often the sockets are bound
    Forced,       \* the values of send()'s force argument the program uses
    InSession     \* the requests made through the one session modelled

ASSUME IOAssumption ==
    /\ IsFiniteSet(Request)
    /\ MaxRetries \in Nat
    /\ TidSpace \in Nat \ {0}
    /\ FirstTids \subseteq 0..TidSpace - 1
    /\ MaxBinds \in Nat \ {0}
    /\ Forced \subseteq BOOLEAN
    /\ InSession \subseteq Request

VARIABLES
    outcome,    \* the callback each request was given, if any
    inflight,   \* io.inflight
    pending,    \* io._pending
    destroyed,  \* requests whose destroyed flag is set
    timer,      \* requests whose _timeout is armed
    session,    \* the session's list, with the index of each request in it
    socket,     \* req.socket as a generation; 0 is null
    sent,       \* req.sent
    retries,    \* req.retries
    tid,        \* req.tid
    nextTid,    \* io._tid
    wire,       \* requests of which some packet went out: replies may exist
    reported,   \* requests io.ontimeout() was called with
    cw,         \* io.congestion
    stats,      \* io.stats.requests
    gen,        \* number of _bindSockets() so far; 0: sockets are null
    sockets,    \* "none", "open", "closing" or "closed"; "suspending" while
                \* suspend() waits for them to close
    draining,   \* the drain interval is set
    mode,       \* "running", "suspended", "resuming", "destroying", "destroyed"
    loop        \* the settling loop that is running, or "idle"

socketVars == <<gen, sockets, draining, mode>>
requestVars == <<session, socket, retries, tid, nextTid>>
vars == <<outcome, inflight, pending, destroyed, timer, sent, wire, reported,
          cw, stats, loop, requestVars, socketVars>>

\* A session may be destroyed between handlers and by a callback in the loop of
\* _clear(), which goes on when the session's list is empty; a callback in the
\* loop of Session.destroy() that destroys the session again only empties the
\* list sooner.
Enters == {<<"idle", "session">>, <<"suspend", "session in suspend">>,
           <<"destroy", "session in destroy">>}
SessionLoop == {e[2] : e \in Enters}

Settled == {"response", "timeout", "destroyed", "suspended"}
Outcome == {"unused", "waiting"} \cup Settled
Stats == [active : Nat, total : Nat, responses : Nat, timeouts : Nat, retries : Nat]

Init ==
    /\ outcome = [r \in Request |-> "unused"]
    /\ inflight = {} /\ pending = <<>> /\ destroyed = {} /\ timer = {}
    /\ session = NewSession(Request) /\ wire = {} /\ reported = {}
    /\ socket = [r \in Request |-> 0]
    /\ sent = [r \in Request |-> 0]
    /\ retries = [r \in Request |-> MaxRetries]
    /\ tid = [r \in Request |-> 0]
    /\ nextTid \in FirstTids
    /\ cw = Cleared
    /\ stats = [active |-> 0, total |-> 0, responses |-> 0, timeouts |-> 0,
                retries |-> 0]
    /\ gen = 0 /\ sockets = "none" /\ draining = FALSE
    /\ mode = "running" /\ loop = "idle"

-----------------------------------------------------------------------------
(* Sending. *)

\* A packet sent through a generation of sockets that is gone is dropped.
Live(g) == sockets = "open" /\ g = gen

\* _sendNow() of a request on sockets g.
SendNow(r, g) ==
    /\ sent' = [sent EXCEPT ![r] = @ + 1]
    /\ cw' = Send(cw)
    /\ wire' = IF Live(g) THEN wire \cup {r} ELSE wire
    /\ timer' = timer \cup {r}
    /\ UNCHANGED pending

\* Mutation: send() gives up when the window is full.
TrySendDropped(r, g, force) ==
    IF g # 0 /\ (force \/ ~IsFull(cw)) THEN SendNow(r, g)
    ELSE timer' = timer \ {r} /\ UNCHANGED <<sent, cw, wire, pending>>

\* send() of a request that is not destroyed, whose timer is not armed.
TrySend(r, g, force) ==
    \/ /\ g = 0
       /\ UNCHANGED <<sent, cw, wire, pending>>
       /\ timer' = timer \ {r}
    \/ /\ g # 0 /\ ~force /\ IsFull(cw)
       /\ pending' = Append(pending, r)
       /\ timer' = timer \ {r}
       /\ UNCHANGED <<sent, cw, wire>>
    \/ /\ g # 0 /\ (force \/ ~IsFull(cw))
       /\ SendNow(r, g)

\* Mutation: the id counter wraps one id early.
NextTidEarly == IF nextTid = TidSpace - 1 THEN 0 ELSE nextTid

\* The id of the next request.
NextTid == IF nextTid = TidSpace THEN 0 ELSE nextTid

\* createRequest() and the send() that always follows it.  User code runs
\* between handlers and inside the settling loops; createRequest() refuses
\* once destroy() has been called.
Create(r, limit, force) ==
    /\ mode \notin {"destroying", "destroyed"}
    /\ outcome[r] = "unused"
    /\ outcome' = [outcome EXCEPT ![r] = "waiting"]
    /\ inflight' = inflight \cup {r}
    /\ session' = IF r \in InSession THEN Attach(session, r) ELSE session
    /\ socket' = [socket EXCEPT ![r] = gen]
    /\ retries' = [retries EXCEPT ![r] = limit]
    /\ tid' = [tid EXCEPT ![r] = NextTid]
    /\ nextTid' = NextTid + 1
    /\ stats' = [stats EXCEPT !.active = @ + 1, !.total = @ + 1]
    /\ TrySend(r, gen, force)
    /\ UNCHANGED <<destroyed, reported, loop, socketVars>>

-----------------------------------------------------------------------------
(* Settling.  Every way out of the table takes the request off inflight and *)
(* off its session, and calls one of its callbacks.                         *)

\* Mutation: the request stays in the table.
LeaveInFlight(r, how) ==
    /\ outcome' = [outcome EXCEPT ![r] = how]
    /\ session' = Detach(session, r)
    /\ UNCHANGED inflight

\* A request leaves the table with one of its callbacks.
Leave(r, how) ==
    /\ outcome' = [outcome EXCEPT ![r] = how]
    /\ inflight' = inflight \ {r}
    /\ session' = Detach(session, r)

\* onmessage() with a reply to some request q that went out, on its first
\* copy or a later one: it settles a request in flight with the reply's tid.
Response(q, r) ==
    /\ loop = "idle" /\ sockets = "open" /\ mode # "suspended"
    /\ q \in wire
    /\ r \in inflight /\ tid[r] = tid[q]
    /\ Leave(r, "response")
    /\ timer' = timer \ {r}
    /\ cw' = Recv(cw)
    /\ stats' = [stats EXCEPT !.active = @ - 1, !.responses = @ + 1]
    /\ UNCHANGED <<pending, destroyed, sent, wire, reported, loop, socket,
                   retries, tid, nextTid, socketVars>>

\* Mutation: one attempt too many.
ExhaustedLate(r) == sent[r] > retries[r] + 1

\* What oncycle() decides by.
Exhausted(r) == sent[r] > retries[r]

\* Mutation: destroy() does not look whether the request is still in flight.
TimeoutLastUnchecked(r) ==
    /\ loop = "idle" /\ r \in timer /\ Exhausted(r)
    /\ timer' = timer \ {r}
    /\ destroyed' = destroyed \cup {r}
    /\ reported' = reported \cup {r}
    /\ Leave(r, "timeout")
    /\ cw' = Recv(cw)
    /\ stats' = [stats EXCEPT !.timeouts = @ + 1, !.active = @ - 1]
    /\ UNCHANGED <<pending, sent, wire, loop, socket, retries, tid, nextTid,
                   socketVars>>

\* oncycle() when no attempt is left: the request is destroyed, which settles
\* it if it is still in flight, and the node it was sent to is reported.
TimeoutLast(r) ==
    /\ loop = "idle" /\ r \in timer /\ Exhausted(r)
    /\ timer' = timer \ {r}
    /\ destroyed' = destroyed \cup {r}
    /\ reported' = reported \cup {r}
    /\ IF r \in inflight
       THEN /\ Leave(r, "timeout")
            /\ cw' = Recv(cw)
            /\ stats' = [stats EXCEPT !.timeouts = @ + 1, !.active = @ - 1]
       ELSE /\ stats' = [stats EXCEPT !.timeouts = @ + 1]
            /\ UNCHANGED <<outcome, inflight, session, cw>>
    /\ UNCHANGED <<pending, sent, wire, loop, socket, retries, tid, nextTid,
                   socketVars>>

\* oncycle() when another attempt is left.
TimeoutRetry(r) ==
    /\ loop = "idle" /\ r \in timer /\ ~Exhausted(r)
    /\ stats' = [stats EXCEPT !.retries = @ + 1]
    /\ TrySend(r, socket[r], FALSE)
    /\ UNCHANGED <<outcome, inflight, destroyed, reported, loop, requestVars,
                   socketVars>>

Timeout(r) == TimeoutLast(r) \/ TimeoutRetry(r)

-----------------------------------------------------------------------------
(* The drain interval. *)

\* How many requests ahead of position i _sendNow() would not return early for.
LiveBefore(i) == Cardinality({j \in 1..i - 1 : pending[j] \notin destroyed})

\* The positions _drain() shifts off pending into a window w.
Shifted(w) == {i \in 1..Len(pending) : LiveBefore(i) < Room(w)}

\* Those of them at which it sends r.
Sends(w, r) == {i \in Shifted(w) : pending[i] = r /\ r \notin destroyed}

Drain ==
    /\ loop = "idle" /\ draining
    /\ LET w   == Drained(cw)
           now == {r \in Request : Sends(w, r) # {}}
       IN  /\ pending' = SubSeq(pending, Cardinality(Shifted(w)) + 1, Len(pending))
           /\ sent' = [r \in Request |-> sent[r] + Cardinality(Sends(w, r))]
           /\ cw' = SendN(w, Cardinality(UNION {Sends(w, r) : r \in now}))
           /\ wire' = wire \cup {r \in now : Live(socket[r])}
           /\ timer' = timer \cup now
    /\ UNCHANGED <<outcome, inflight, destroyed, reported, stats, loop,
                   requestVars, socketVars>>

-----------------------------------------------------------------------------
(* Sockets coming and going. *)

Orders(S) == {s \in [1..Cardinality(S) -> S] : \A r \in S : \E i \in DOMAIN s : s[i] = r}

\* _bindSockets(): new sockets, the drain interval, and every request in
\* flight sent again from its first attempt.  Only a request that has no
\* socket yet is given the new one.
BindSockets ==
    /\ gen < MaxBinds
    /\ gen' = gen + 1 /\ sockets' = "open" /\ draining' = TRUE
    /\ socket' = [r \in Request |->
                    IF r \in inflight /\ socket[r] = 0 THEN gen + 1 ELSE socket[r]]
    /\ \E order \in Orders(inflight) :
         LET n   == IF Len(order) <= Room(cw) THEN Len(order) ELSE Room(cw)
             now == {order[i] : i \in 1..n}
         IN  /\ sent' = [r \in Request |-> IF r \in now THEN 1
                                           ELSE IF r \in inflight THEN 0 ELSE sent[r]]
             /\ cw' = SendN(cw, n)
             /\ wire' = wire \cup {r \in now : socket'[r] = gen + 1}
             /\ timer' = timer \cup now
             /\ pending' = pending \o SubSeq(order, n + 1, Len(order))
    /\ UNCHANGED <<outcome, inflight, destroyed, reported, stats, loop, session,
                   retries, tid, nextTid>>

Bind == sockets = "none" /\ BindSockets /\ UNCHANGED mode

Rebind ==
    /\ loop = "idle" /\ mode = "resuming"
    /\ BindSockets
    /\ mode' = "running"

Resume ==
    /\ loop = "idle" /\ mode = "suspended" /\ sockets = "closed" /\ gen < MaxBinds
    /\ mode' = "resuming"
    /\ UNCHANGED <<outcome, inflight, pending, destroyed, timer, sent, wire,
                   reported, cw, stats, loop, requestVars, gen, sockets, draining>>

\* suspend(), up to the loop of _clear(true).  dht.suspend() awaits the bind
\* and returns early when suspended already.
Suspend ==
    /\ loop = "idle" /\ mode = "running" /\ sockets = "open"
    /\ mode' = "suspended" /\ loop' = "suspend" /\ draining' = FALSE
    /\ UNCHANGED <<outcome, inflight, pending, destroyed, timer, sent, wire,
                   reported, cw, stats, requestVars, gen, sockets>>

\* destroy(), also called by a callback in a settling loop, then _destroy()
\* resumed after the bind it awaits.
Destroy ==
    /\ mode \in {"running", "suspended"} /\ sockets # "none"
    /\ mode' = "destroying"
    /\ UNCHANGED <<outcome, inflight, pending, destroyed, timer, sent, wire,
                   reported, cw, stats, loop, requestVars, gen, sockets, draining>>

DestroyUnbound ==
    /\ mode = "running" /\ sockets = "none"
    /\ BindSockets
    /\ mode' = "destroying"

DestroyClear ==
    /\ loop = "idle" /\ mode = "destroying"
    /\ mode' = "destroyed" /\ loop' = "destroy" /\ draining' = FALSE
    /\ UNCHANGED <<outcome, inflight, pending, destroyed, timer, sent, wire,
                   reported, cw, stats, requestVars, gen, sockets>>

\* Mutation: _clear() does not count the request as over.
ClearOneActive(r) ==
    /\ loop \in {"suspend", "destroy"} /\ r \in inflight
    /\ Leave(r, IF loop = "suspend" THEN "suspended" ELSE "destroyed")
    /\ timer' = timer \ {r}
    /\ destroyed' = destroyed \cup {r}
    /\ cw' = Recv(cw)
    /\ UNCHANGED <<pending, sent, wire, reported, stats, loop, socket, retries, tid,
                   nextTid, socketVars>>

\* One iteration of the loop of _clear().
ClearOne(r) ==
    /\ loop \in {"suspend", "destroy"} /\ r \in inflight
    /\ Leave(r, IF loop = "suspend" THEN "suspended" ELSE "destroyed")
    /\ timer' = timer \ {r}
    /\ destroyed' = destroyed \cup {r}
    /\ cw' = Recv(cw)
    /\ stats' = [stats EXCEPT !.active = @ - 1]
    /\ UNCHANGED <<pending, sent, wire, reported, loop, socket, retries, tid,
                   nextTid, socketVars>>

\* Mutation: the loop goes over the requests there were when it began.
ClearDoneSnapshot ==
    /\ loop \in {"suspend", "destroy"}
    /\ loop' = "idle"
    /\ sockets' = IF sockets # "open" THEN sockets
                  ELSE IF loop = "suspend" THEN "suspending" ELSE "closing"
    /\ UNCHANGED <<outcome, inflight, pending, destroyed, timer, sent, wire,
                   reported, cw, stats, requestVars, gen, draining, mode>>

\* Mutation: the sockets are left open.
ClearDoneOpen ==
    /\ loop \in {"suspend", "destroy"} /\ inflight = {}
    /\ loop' = "idle"
    /\ UNCHANGED <<outcome, inflight, pending, destroyed, timer, sent, wire,
                   reported, cw, stats, requestVars, socketVars>>

\* The loop of _clear() is over and the sockets are told to close.
ClearDone ==
    /\ loop \in {"suspend", "destroy"} /\ inflight = {}
    /\ loop' = "idle"
    /\ sockets' = IF sockets # "open" THEN sockets
                  ELSE IF loop = "suspend" THEN "suspending" ELSE "closing"
    /\ UNCHANGED <<outcome, inflight, pending, destroyed, timer, sent, wire,
                   reported, cw, stats, requestVars, gen, draining, mode>>

\* The sockets have closed; suspend() goes on.
SocketsClosed ==
    /\ loop = "idle" /\ sockets \in {"suspending", "closing"}
    /\ sockets' = "closed"
    /\ cw' = IF sockets = "suspending" THEN Cleared ELSE cw
    /\ UNCHANGED <<outcome, inflight, pending, destroyed, timer, sent, wire,
                   reported, stats, loop, requestVars, gen, draining, mode>>

-----------------------------------------------------------------------------
(* Session.destroy(). *)

SessionDestroy ==
    /\ session.inflight # <<>>
    /\ \E e \in Enters : loop = e[1] /\ loop' = e[2]
    /\ UNCHANGED <<outcome, inflight, pending, destroyed, timer, sent, wire,
                   reported, cw, stats, requestVars, socketVars>>

\* One iteration: recv(), then destroy() of the request, which does nothing to
\* a request already destroyed and only marks one that left the table.
SessionDestroyOne(r) ==
    /\ loop \in SessionLoop /\ session.inflight # <<>> /\ r = session.inflight[1]
    /\ IF r \in destroyed \/ r \notin inflight
       THEN /\ cw' = Recv(cw)
            /\ UNCHANGED <<outcome, inflight, session, stats>>
       ELSE /\ cw' = Recv(Recv(cw))
            /\ Leave(r, "destroyed")
            /\ stats' = [stats EXCEPT !.active = @ - 1]
    /\ destroyed' = destroyed \cup {r}
    /\ timer' = timer \ {r}
    /\ UNCHANGED <<pending, sent, wire, reported, loop, socket, retries, tid,
                   nextTid, socketVars>>

SessionDestroyDone ==
    /\ session.inflight = <<>>
    /\ \E e \in Enters : loop = e[2] /\ loop' = e[1]
    /\ UNCHANGED <<outcome, inflight, pending, destroyed, timer, sent, wire,
                   reported, cw, stats, requestVars, socketVars>>

-----------------------------------------------------------------------------
CreateSome ==
    \E r \in Request, limit \in {0, MaxRetries}, force \in Forced :
        Create(r, limit, force)

Next ==
    \/ CreateSome
    \/ \E q, r \in Request : Response(q, r)
    \/ \E r \in Request : TimeoutLast(r)
    \/ \E r \in Request : TimeoutRetry(r)
    \/ Drain
    \/ Bind \/ Suspend \/ Resume \/ Rebind
    \/ Destroy \/ DestroyUnbound \/ DestroyClear
    \/ \E r \in Request : ClearOne(r)
    \/ ClearDone \/ SocketsClosed
    \/ SessionDestroy
    \/ \E r \in Request : SessionDestroyOne(r)
    \/ SessionDestroyDone

Spec == Init /\ [][Next]_vars

-----------------------------------------------------------------------------
(* Properties. *)

\* Every variable holds a value of its type.
TypeOK ==
    /\ outcome \in [Request -> Outcome]
    /\ inflight \subseteq Request /\ destroyed \subseteq Request
    /\ timer \subseteq Request /\ Linked(session, Request)
    /\ wire \subseteq Request /\ reported \subseteq Request
    /\ pending \in Seq(Request)
    /\ socket \in [Request -> 0..MaxBinds]
    /\ sent \in [Request -> Nat] /\ retries \in [Request -> {0, MaxRetries}]
    /\ tid \in [Request -> 0..TidSpace - 1] /\ nextTid \in 0..TidSpace
    /\ cw \in Window /\ stats \in Stats
    /\ gen \in 0..MaxBinds /\ draining \in BOOLEAN
    /\ sockets \in {"none", "open", "suspending", "closing", "closed"}
    /\ mode \in {"running", "suspended", "resuming", "destroying", "destroyed"}
    /\ loop \in {"idle", "suspend", "destroy"} \cup SessionLoop

\* A request is in the table exactly while it waits for its callback: no path
\* out of the table (reply, last timeout, _clear, Session.destroy) forgets the
\* callback, and none leaves a settled request behind.
InFlightIsWaiting ==
    \A r \in Request : r \in inflight <=> outcome[r] = "waiting"

\* Whatever duplicate replies, late timers and destroy calls come after it, the
\* callback that settled a request is the only one it ever gets.
SettledOnce ==
    [][\A r \in Request : outcome[r] \in Settled => outcome'[r] = outcome[r]]_vars

\* stats.requests agrees with the table and with what the callbacks were told;
\* _pingSome and _backgroundQuery throttle on the one, health on the others.
AccountsBalance ==
    /\ stats.active = Cardinality(inflight)
    /\ stats.total = Cardinality({r \in Request : outcome[r] # "unused"})
    /\ stats.responses = Cardinality({r \in Request : outcome[r] = "response"})
    /\ stats.timeouts = Cardinality(reported)

Queued(r) == \E i \in DOMAIN pending : pending[i] = r

\* A request in flight always has something that will act on it next: its
\* timer, the drain queue, or the first bind.
NothingForgotten ==
    \A r \in inflight : r \in timer \/ Queued(r) \/ gen = 0

\* A session lists exactly its requests in flight, none of them destroyed, each at
\* the index it believes in, in whatever order they were settled: the loop of
\* Session.destroy(), which waits for the list to empty, makes progress.
SessionTracksFlight ==
    /\ Linked(session, Request)
    /\ Attached(session) = inflight \cap InSession
    /\ Attached(session) \cap destroyed = {}

\* No counter of the window goes below zero and its total stays the sum of its
\* slots through every order of sends, replies, the double recv() of
\* Session.destroy(), drains and clears, and without forced sends no slot ever
\* exceeds its limit.
WindowSound ==
    /\ cw \in Window
    /\ Balanced(cw)
    /\ TRUE \notin Forced => WithinLimits(cw)

\* While there are ids enough, a reply can only settle the request it answers,
\* also across the wrap of the id counter.
TidsDistinct ==
    Cardinality(Request) <= TidSpace =>
        \A q, r \in Request :
            outcome[q] # "unused" /\ outcome[r] # "unused" /\ tid[q] = tid[r] => q = r

\* Until the sockets are bound again no request is sent more often than its
\* retries allow, is queued twice, or is queued with its timer armed.
AttemptsBounded ==
    gen <= 1 =>
        \A r \in Request :
            /\ sent[r] <= retries[r] + 1
            /\ Queued(r) /\ r \notin destroyed => r \notin timer /\ sent[r] <= retries[r]
            /\ Cardinality({i \in DOMAIN pending : pending[i] = r}) <= 1

\* When destroy() has gone through its loop nothing is in flight any more, and
\* no callback's late request gets back in.
DestroyedIsEmpty == mode = "destroyed" /\ loop = "idle" => inflight = {}

\* Only a request whose promise was rejected with REQUEST_TIMEOUT is counted as
\* a timeout and has its node reported as gone to io.ontimeout().
ReportedTimedOut == \A r \in reported : outcome[r] = "timeout"

-----------------------------------------------------------------------------
(* Liveness.  Timers and the interval fire, closing a socket completes, and a *)
(* loop or a continuation that can run does.                                  *)

Fairness ==
    /\ \A r \in Request : WF_vars(Timeout(r))
    /\ WF_vars(Drain)
    /\ WF_vars(Rebind) /\ WF_vars(SocketsClosed)
    /\ WF_vars(DestroyClear) /\ WF_vars(ClearDone) /\ WF_vars(SessionDestroyDone)
    /\ WF_vars(\E r \in Request : ClearOne(r))
    /\ WF_vars(\E r \in Request : SessionDestroyOne(r))

FairSpec == Spec /\ Fairness

\* While the sockets stay open every request gets its answer, its timeout or
\* its error, however full the window is and however many replies are lost.
EverySettles ==
    <>[](sockets = "open") =>
        \A r \in Request : outcome[r] = "waiting" ~> outcome[r] \in Settled

\* destroy() settles every request, and the sockets close.
DestroyCompletes ==
    mode = "destroying" ~> mode = "destroyed" /\ inflight = {} /\ sockets = "closed"

-----------------------------------------------------------------------------
\* What the table promises its users.
Contract == INSTANCE RequestContract WITH
    open <- mode \notin {"destroying", "destroyed"},
    finished <- mode = "destroyed" /\ loop = "idle"

ContractSpec == Contract!Spec
=============================================================================
