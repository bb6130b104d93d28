------------------------------ MODULE Lifecycle ------------------------------
(***************************************************************************)
(* Overlapping calls of suspend(), resume() and destroy() (index.js, with  *)
(* the methods of lib/io.js they await).                                   *)
(*                                                                         *)
(* A call is a small process: pc is the await it is suspended at, and one  *)
(* action is the code from one await to the next.  The promises that calls *)
(* wait for are the first bind, the _rebind() of a resume() and the        *)
(* _destroy() of a destroy(); each is named by the call that made it.      *)
(*                                                                         *)
(* What is kept is what has to be released: sockets, the tick and drain    *)
(* intervals, the watcher of network interfaces, the timers of delayed     *)
(* pings.  What a request sees of all this is the module IO.               *)
(***************************************************************************)
EXTENDS Integers, FiniteSets

CONSTANT MaxCalls   \* bound: the calls the program makes

ASSUME LifecycleAssumption == MaxCalls \in Nat

VARIABLES
    pc,           \* where each call is
    waits,        \* the promise each call awaits
    shut,         \* the generation of sockets each call told to close
    promise,      \* the state of each promise
    binding,      \* io._binding: whose promise it is
    destroying,   \* io._destroying: whose promise it is
    suspended,    \* dht.suspended
    destroyed,    \* dht.destroyed
    ioSuspended,  \* io.suspended
    gen, open,    \* sockets created so far; those not closed
    drain,        \* io._drainInterval is set
    tick, ticks,  \* dht._tickInterval; the intervals not cleared
    watcher, watchers,   \* io.networkInterfaces; the watchers not destroyed
    closes,       \* how often 'close' was emitted
    delayed,      \* dht._pendingTimers: the generation each is to answer from
    awaited       \* so far the program awaited its calls (see Overlaps)

callVars == <<pc, waits, shut>>
promiseVars == <<promise, binding, destroying>>
flagVars == <<suspended, destroyed, ioSuspended>>
socketVars == <<gen, open, drain>>
handleVars == <<tick, ticks, watcher, watchers, closes>>
pingVars == <<delayed, awaited>>
vars == <<callVars, promiseVars, flagVars, socketVars, handleVars, pingVars>>

\* Calls are numbered as they are made; the first bind is promise 0, and -1 is
\* none.
Call == 1..MaxCalls
None == -1
First == 0
Promise == Call \cup {First}
InSuspend == {"suspend:bind", "suspend:close", "suspend:closed"}
InResume == {"resume:prev", "resume:destroying", "resume:bound"}
InDestroy == {"destroy:bind", "destroy:close", "destroy:closed",
              "destroy:again"}
AtRest == {"new", "done", "failed"}

Init ==
    /\ pc = [c \in Call |-> "new"]
    /\ waits = [c \in Call |-> First]
    /\ shut = [c \in Call |-> 0]
    /\ promise = [p \in Promise |-> "pending"]
    /\ binding = None /\ destroying = None
    /\ suspended = FALSE /\ destroyed = FALSE /\ ioSuspended = FALSE
    /\ gen = 0 /\ open = {} /\ drain = FALSE
    /\ tick = 1 /\ ticks = {1}
    /\ watcher = 1 /\ watchers = {1}
    /\ closes = 0
    /\ delayed = {} /\ awaited = TRUE

-----------------------------------------------------------------------------
\* _bindSockets(): the promise p it settles, sockets and the drain interval.
BindSockets(p) ==
    \/ /\ gen' = gen + 1 /\ open' = open \cup {gen + 1} /\ drain' = TRUE
       /\ promise' = [promise EXCEPT ![p] = IF p = First THEN "resolved" ELSE @]
    \/ /\ promise' = [promise EXCEPT ![p] = "rejected"]
       /\ UNCHANGED socketVars

\* Mutation: bind() does not remember its promise.
BindUnrecorded == BindSockets(First) /\ UNCHANGED binding

\* bind(): binds unless some bind was started; what it returns is io._binding.
Bind ==
    IF binding = None
    THEN binding' = First /\ BindSockets(First)
    ELSE UNCHANGED <<binding, promise, socketVars>>

\* _bootstrap() binds one tick after the constructor.
Bootstrap ==
    /\ binding = None /\ Bind
    /\ UNCHANGED <<callVars, destroying, flagVars, handleVars, pingVars>>

\* Mutation: _clear() leaves the drain interval.
StartClearDraining(c, stage) ==
    /\ shut' = [shut EXCEPT ![c] = gen]
    /\ pc' = [pc EXCEPT ![c] = stage]
    /\ UNCHANGED socketVars

\* The first part of _clear(): the interval is cleared and the sockets are told
\* to close.
StartClear(c, stage) ==
    /\ drain' = FALSE
    /\ shut' = [shut EXCEPT ![c] = gen]
    /\ pc' = [pc EXCEPT ![c] = stage]
    /\ UNCHANGED <<gen, open>>

\* Mutation: _clear() leaves the watcher.
FinishClearWatching(c) == open' = open \ {shut[c]} /\ UNCHANGED watchers

\* The last part of _clear(), once they have: the watcher of the moment goes.
FinishClear(c) ==
    /\ open' = open \ {shut[c]}
    /\ watchers' = watchers \ {watcher}

Goto(c, stage) == pc' = [pc EXCEPT ![c] = stage]

\* Call c overlaps an earlier one.  A program that awaits its calls makes none
\* that does, but for destroy(), which may come at any time except during a
\* resume().
Overlaps(c, kind) ==
    \E d \in 1..c - 1 : pc[d] \notin (IF kind = "destroy" THEN AtRest \cup InSuspend \cup InDestroy
                                     ELSE AtRest)

\* The program makes its next call.
MayCall(c, kind) ==
    /\ pc[c] = "new" /\ \A d \in 1..c - 1 : pc[d] # "new"
    /\ awaited' = (awaited /\ ~Overlaps(c, kind))

\* What follows an await whose promise was rejected: the call rejects too.
Reject(c) ==
    /\ pc[c] \in {"suspend:bind", "resume:prev", "destroy:bind"}
    /\ promise[waits[c]] = "rejected"
    /\ Goto(c, "failed")
    /\ promise' = [promise EXCEPT ![c] = IF pc[c] = "suspend:bind" THEN @ ELSE "rejected"]
    /\ UNCHANGED <<waits, shut, binding, destroying, flagVars, socketVars, handleVars>>

Fulfilled(c) == promise[waits[c]] = "resolved"

-----------------------------------------------------------------------------
(* suspend() *)

Suspend(c) ==
    /\ MayCall(c, "suspend")
    /\ Bind
    /\ waits' = [waits EXCEPT ![c] = binding']
    /\ Goto(c, "suspend:bind")
    /\ UNCHANGED <<shut, destroying, flagVars, handleVars, delayed>>

SuspendBound(c) ==
    /\ pc[c] = "suspend:bind" /\ Fulfilled(c)
    /\ IF suspended \/ destroyed
       THEN /\ Goto(c, "done")
            /\ UNCHANGED <<shut, flagVars, socketVars, ticks>>
       ELSE /\ suspended' = TRUE /\ ioSuspended' = TRUE
            /\ ticks' = ticks \ {tick}
            /\ StartClear(c, "suspend:close")
            /\ UNCHANGED destroyed
    /\ UNCHANGED <<waits, promiseVars, tick, watcher, watchers, closes>>

SuspendClosed(c) ==
    /\ pc[c] = "suspend:close"
    /\ FinishClear(c)
    /\ Goto(c, "suspend:closed")
    /\ UNCHANGED <<waits, shut, promiseVars, flagVars, gen, drain, tick, ticks, watcher, closes>>

\* io.suspend() goes on after _clear(): whatever drain interval there is, goes.
SuspendDone(c) ==
    /\ pc[c] = "suspend:closed"
    /\ drain' = FALSE
    /\ Goto(c, "done")
    /\ UNCHANGED <<waits, shut, promiseVars, flagVars, gen, open, handleVars>>

-----------------------------------------------------------------------------
(* resume() *)

Resume(c) ==
    /\ MayCall(c, "resume")
    /\ IF ~suspended \/ destroyed
       THEN /\ Goto(c, "done")
            /\ UNCHANGED <<waits, binding, flagVars, tick, ticks>>
       ELSE /\ suspended' = FALSE /\ ioSuspended' = FALSE
            /\ tick' = tick + 1 /\ ticks' = ticks \cup {tick + 1}
            /\ waits' = [waits EXCEPT ![c] = binding]
            /\ binding' = c
            /\ Goto(c, "resume:prev")
            /\ UNCHANGED destroyed
    /\ UNCHANGED <<shut, promise, destroying, socketVars, watcher, watchers, closes,
                   delayed>>

\* _rebind() goes on after the bind before it.
Rebind(c) ==
    /\ pc[c] = "resume:prev" /\ Fulfilled(c)
    /\ IF destroying # None
       THEN /\ waits' = [waits EXCEPT ![c] = destroying]
            /\ Goto(c, "resume:destroying")
            /\ UNCHANGED <<promise, socketVars>>
       ELSE /\ BindSockets(c)
            /\ Goto(c, IF promise'[c] = "rejected" THEN "failed" ELSE "resume:bound")
            /\ UNCHANGED waits
    /\ UNCHANGED <<shut, binding, destroying, flagVars, handleVars>>

\* _rebind() watches the interfaces anew and is done, and with it resume().
ResumeDone(c) ==
    /\ pc[c] = "resume:bound"
    /\ watcher' = watcher + 1 /\ watchers' = watchers \cup {watcher + 1}
    /\ promise' = [promise EXCEPT ![c] = "resolved"]
    /\ Goto(c, "done")
    /\ UNCHANGED <<waits, shut, binding, destroying, flagVars, socketVars, tick, ticks, closes>>

-----------------------------------------------------------------------------
(* destroy() *)

\* The first call starts _destroy(), which awaits bind(); a later one shares its
\* promise.  Only the first emits 'close'.
CloseDown(c) ==
    /\ destroyed' = TRUE
    /\ ticks' = ticks \ {tick}
    /\ IF destroying = None
       THEN /\ destroying' = c
            /\ Bind
            /\ waits' = [waits EXCEPT ![c] = binding']
            /\ Goto(c, "destroy:bind")
       ELSE /\ waits' = [waits EXCEPT ![c] = destroying]
            /\ Goto(c, "destroy:again")
            /\ UNCHANGED <<promiseVars, socketVars>>
    /\ UNCHANGED <<shut, suspended, ioSuspended, tick, watcher, watchers, closes>>

\* Mutation: the timers are left to find out that the node is destroyed.
DestroyKeeping(c) == MayCall(c, "destroy") /\ CloseDown(c) /\ UNCHANGED delayed

\* destroy() clears the timers before it awaits anything, so that no message comes
\* between the two unless an overlapping resume() has bound sockets.
Destroy(c) == MayCall(c, "destroy") /\ CloseDown(c) /\ delayed' = {}

DestroyClear(c) ==
    /\ pc[c] = "destroy:bind" /\ Fulfilled(c)
    /\ StartClear(c, "destroy:close")
    /\ UNCHANGED <<waits, promiseVars, flagVars, handleVars>>

\* Mutation: the promise of _destroy() stays pending.
DestroyClosedUnsettled(c) ==
    /\ pc[c] = "destroy:close"
    /\ FinishClear(c)
    /\ Goto(c, "destroy:closed")
    /\ UNCHANGED <<waits, shut, promiseVars, flagVars, gen, drain, tick, ticks,
                   watcher, closes>>

\* _clear() is over, and with it _destroy().
DestroyClosed(c) ==
    /\ pc[c] = "destroy:close"
    /\ FinishClear(c)
    /\ promise' = [promise EXCEPT ![c] = "resolved"]
    /\ Goto(c, "destroy:closed")
    /\ UNCHANGED <<waits, shut, binding, destroying, flagVars, gen, drain, tick, ticks,
                   watcher, closes>>

\* Mutation: the flag that 'close' depends on is read after it was set.
DestroyDoneSilent(c) ==
    /\ pc[c] = "destroy:closed"
    /\ Goto(c, "done")
    /\ UNCHANGED <<waits, shut, promiseVars, flagVars, socketVars, handleVars>>

\* The destroy() that started it all emits 'close'.
DestroyDone(c) ==
    /\ pc[c] = "destroy:closed"
    /\ closes' = closes + 1
    /\ Goto(c, "done")
    /\ UNCHANGED <<waits, shut, promiseVars, flagVars, socketVars, tick, ticks, watcher, watchers>>

\* Mutation: every call of destroy() emits 'close'.
AfterDestroyCloses(c) ==
    /\ pc[c] \in {"resume:destroying", "destroy:again"} /\ Fulfilled(c)
    /\ Goto(c, "done")
    /\ closes' = IF pc[c] = "destroy:again" THEN closes + 1 ELSE closes
    /\ promise' = IF pc[c] = "destroy:again" THEN promise
                  ELSE [promise EXCEPT ![c] = "resolved"]
    /\ UNCHANGED <<waits, shut, binding, destroying, flagVars, socketVars, tick, ticks,
                   watcher, watchers>>

\* A later destroy(), and a _rebind() that found a destroy() under way, settle
\* as that destroy() does.
AfterDestroy(c) ==
    /\ pc[c] \in {"resume:destroying", "destroy:again"} /\ promise[waits[c]] # "pending"
    /\ Goto(c, IF Fulfilled(c) THEN "done" ELSE "failed")
    /\ promise' = IF pc[c] = "destroy:again" THEN promise
                  ELSE [promise EXCEPT ![c] = promise[waits[c]]]
    /\ UNCHANGED <<waits, shut, binding, destroying, flagVars, socketVars, handleVars>>

-----------------------------------------------------------------------------
(* Delayed pings. *)

\* Call c goes on before any message is delivered: it awaits no socket.
Ready(c) ==
    \/ pc[c] \in {"suspend:closed", "resume:bound", "destroy:closed"}
    \/ /\ pc[c] \in {"suspend:bind", "resume:prev", "resume:destroying", "destroy:bind",
                    "destroy:again"}
       /\ promise[waits[c]] # "pending"

\* _ondelayedping() of a request the newest sockets receive: the reply waits in
\* a timer.
DelayedPing ==
    /\ ~ioSuspended /\ gen \in open \ delayed
    /\ \A c \in Call : shut[c] # gen /\ ~Ready(c)
    /\ delayed' = delayed \cup {gen}
    /\ UNCHANGED <<callVars, promiseVars, flagVars, socketVars, handleVars, awaited>>

\* The timer fires, and a node that is not destroyed replies from the socket the
\* request came to, which may be closed by then.
DelayedReply(g) ==
    /\ g \in delayed /\ ~destroyed
    /\ delayed' = delayed \ {g}
    /\ UNCHANGED <<callVars, promiseVars, flagVars, socketVars, handleVars, awaited>>

-----------------------------------------------------------------------------
Proceed(c) ==
    /\ \/ SuspendBound(c) \/ SuspendClosed(c) \/ SuspendDone(c)
       \/ Rebind(c) \/ ResumeDone(c)
       \/ DestroyClear(c) \/ DestroyClosed(c) \/ DestroyDone(c) \/ AfterDestroy(c)
       \/ Reject(c)
    /\ UNCHANGED pingVars

Next ==
    \/ Bootstrap
    \/ \E c \in Call : Suspend(c) \/ Resume(c) \/ Destroy(c)
    \/ \E c \in Call : Proceed(c)
    \/ DelayedPing
    \/ \E g \in delayed : DelayedReply(g)

Spec == Init /\ [][Next]_vars

\* A continuation whose promise has settled runs, and closing sockets close.
FairSpec == Spec /\ WF_vars(Bootstrap) /\ \A c \in Call : WF_vars(Proceed(c))

-----------------------------------------------------------------------------
(* Properties. *)

\* Every variable holds a value of its type.
TypeOK ==
    /\ pc \in [Call -> AtRest \cup InSuspend \cup InResume \cup InDestroy]
    /\ waits \in [Call -> Promise] /\ shut \in [Call -> Nat]
    /\ promise \in [Promise -> {"pending", "resolved", "rejected"}]
    /\ binding \in Promise \cup {None} /\ destroying \in Call \cup {None}
    /\ suspended \in BOOLEAN /\ destroyed \in BOOLEAN /\ ioSuspended \in BOOLEAN
    /\ gen \in Nat /\ open \subseteq 1..gen /\ drain \in BOOLEAN
    /\ tick \in Nat /\ ticks \subseteq 1..tick
    /\ watcher \in Nat /\ watchers \subseteq 1..watcher
    /\ closes \in Nat /\ delayed \subseteq 1..gen /\ awaited \in BOOLEAN

BindFailed == \E p \in Promise : promise[p] = "rejected"
Settled == binding # None /\ (\A c \in Call : pc[c] \in AtRest) /\ awaited /\ ~BindFailed

\* When an awaited program has no call under way, its node is as the last of them
\* left it, whichever calls of destroy() overlapped on the way there: off, it
\* holds no socket, interval or watcher; on, it listens on its newest sockets
\* only, drains, ticks once and watches once.
AtRestAsAsked ==
    Settled =>
        IF destroyed \/ suspended
        THEN open = {} /\ ~drain /\ ticks = {} /\ watchers = {}
        ELSE open = {gen} /\ drain /\ ticks = {tick} /\ watchers = {watcher} /\ ~ioSuspended

\* 'close' is emitted once per node, however many calls of destroy() overlap,
\* and not before the sockets last bound are closed and nothing drains.
CloseOnce == closes <= 1 /\ (closes = 1 => gen \notin open /\ ~drain)

\* Even when suspend() and resume() overlap each other and binds fail, the node
\* never ticks twice, and it drains only while the sockets it sends from are open.
NoStrayInterval == Cardinality(ticks) <= 1 /\ (drain => gen \in open)

\* From destroy() on no timer of a delayed ping is left or set: none keeps a closed
\* node alive, though its timers outlast a suspend() and its sockets are still open
\* when destroy() clears them.
NoLatePing == destroyed /\ awaited => delayed = {}

\* In a program that awaits its calls each of them settles, also when a bind fails.
CallsReturn == \A c \in Call : pc[c] # "new" ~> pc[c] \in AtRest \/ ~awaited

\* There a destroyed node emits 'close', unless a bind failed.
DestroyedCloses == destroyed ~> closes = 1 \/ ~awaited \/ BindFailed

\* A destroyed node emits 'close', whatever the program awaited.
DestroyedAlwaysCloses == destroyed ~> closes = 1 \/ BindFailed
=============================================================================
