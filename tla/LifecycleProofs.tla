---------------------------- MODULE LifecycleProofs ----------------------------
(***************************************************************************)
(* Theorems about Lifecycle, for every number of calls.  The parts of the  *)
(* invariant are in the order they rest on each other: what holds however  *)
(* calls overlap (Bindable, Pending, Intervals, Closing, Numbered), and    *)
(* what holds of a program that awaits its calls (Alone, Refused, Kept).   *)
(***************************************************************************)
EXTENDS Lifecycle, FiniteSetTheorems, TLAPS

\* The parts of TypeOK.
Flags ==
    /\ suspended \in BOOLEAN /\ destroyed \in BOOLEAN /\ ioSuspended \in BOOLEAN
    /\ drain \in BOOLEAN /\ awaited \in BOOLEAN
Calls ==
    /\ pc \in [Call -> AtRest \cup InSuspend \cup InResume \cup InDestroy]
    /\ waits \in [Call -> Promise] /\ shut \in [Call -> Nat]
    /\ promise \in [Promise -> {"pending", "resolved", "rejected"}]
    /\ binding \in Promise \cup {None} /\ destroying \in Call \cup {None}
    /\ gen \in Nat /\ tick \in Nat /\ watcher \in Nat /\ closes \in Nat
Handles ==
    /\ open \subseteq 1..gen /\ ticks \subseteq 1..tick
    /\ watchers \subseteq 1..watcher /\ delayed \subseteq 1..gen

\* Who needs the promise of the first bind, or a later one, finds it.
Bindable ==
    /\ suspended => binding # None
    /\ \A c \in Call : pc[c] \in InResume \cup {"suspend:bind"} => binding # None
    /\ binding = None => gen = 0 /\ promise[First] = "pending"
    /\ (ioSuspended <=> suspended)

\* A promise that was rejected stays so: the calls that may settle their own one
\* have not done it yet, and the last to have bound is a resume().
Pending ==
    /\ \A c \in Call : pc[c] \in {"new", "destroy:bind", "destroy:close"} \cup InResume
                        => promise[c] = "pending"
    /\ \A c \in Call : binding = c => pc[c] \in InResume \cup {"done", "failed"}

\* A drained generation is open and nobody told it to close.
Intervals ==
    /\ ticks \subseteq {tick} /\ (suspended => ticks = {})
    /\ \A c \in Call : shut[c] <= gen
    /\ drain => gen \in open /\ \A c \in Call : shut[c] # gen

\* One call closes down; from when it told the sockets to close none are bound.
Closing ==
    /\ destroyed <=> destroying # None
    /\ \A c \in Call : pc[c] \in {"destroy:bind", "destroy:close", "destroy:closed"}
                        => destroying = c
    /\ destroying # None =>
        /\ binding # None /\ waits[destroying] = binding
        /\ pc[destroying] \in {"destroy:bind", "destroy:close", "destroy:closed",
                               "done", "failed"}
        /\ pc[destroying] = "destroy:close" => shut[destroying] = gen /\ ~drain
        /\ pc[destroying] \in {"destroy:closed", "done"} => gen \notin open /\ ~drain
    /\ closes = IF destroying # None /\ pc[destroying] = "done" THEN 1 ELSE 0

\* Calls are made in the order of their numbers.
Numbered == \A c, d \in Call : pc[c] = "new" /\ c < d => pc[d] = "new"

Resuming(c) == pc[c] \in InResume

\* In a program that awaits its calls a resume() runs alone, and no bind is under
\* way but its own.
Alone ==
    awaited =>
        /\ \A c \in Call : Resuming(c) =>
            /\ \A d \in Call \ {c} : pc[d] \in AtRest
            /\ ~destroyed /\ ~suspended /\ binding = c /\ pc[c] # "resume:destroying"
        /\ binding # None /\ (\A c \in Call : ~Resuming(c)) => promise[binding] # "pending"

\* No message reaches the newest sockets.
Deaf == gen \notin open \/ \E c \in Call : shut[c] = gen

\* There, no message comes to a node that is suspended, or whose last bind failed,
\* the one a failed destroy() waited for included.
Refused ==
    awaited =>
        /\ \/ suspended
           \/ \E c \in Call : pc[c] = "resume:prev"
           \/ binding # None /\ promise[binding] = "rejected"
           => Deaf
        /\ destroying # None /\ pc[destroying] = "failed" => promise[binding] = "rejected"

\* What a node keeps when no bind has failed: of sockets and watchers at most the
\* newest; suspended, from when the call that suspends it has closed them, none;
\* destroyed, from when destroy() has, none; else what it works with.
NewestOnly == open \subseteq {gen} /\ watchers \subseteq {watcher}
Sleeps ==
    /\ \A c \in Call : pc[c] = "suspend:close" => shut[c] = gen
    /\ \A c \in Call : pc[c] \in {"suspend:close", "suspend:closed"} => suspended
    /\ suspended =>
        /\ ~drain
        /\ (\E c \in Call : pc[c] = "suspend:close") \/ (open = {} /\ watchers = {})
Ends ==
    destroyed =>
        /\ ticks = {}
        /\ pc[destroying] \in {"destroy:closed", "done"} => open = {} /\ watchers = {}
Works ==
    ~suspended /\ ~destroyed =>
        /\ ticks = {tick}
        /\ IF binding = None \/ \E c \in Call : pc[c] = "resume:prev"
           THEN open = {} ELSE open = {gen} /\ drain
        /\ watchers = IF \E c \in Call : pc[c] \in {"resume:prev", "resume:bound"}
                      THEN {} ELSE {watcher}
Keeps == NewestOnly /\ Sleeps /\ Ends /\ Works

\* This is so in a program that awaits its calls.
Kept == awaited /\ ~BindFailed => Keeps

IInv == TypeOK /\ Bindable /\ Pending /\ Intervals /\ Closing /\ Numbered
AwaitedInv == Alone /\ Refused /\ NoLatePing /\ Kept

-----------------------------------------------------------------------------
(* Types. *)

\* The parts are the whole.
LEMMA Parts == TypeOK <=> Flags /\ Calls /\ Handles
BY DEF TypeOK, Flags, Calls, Handles

\* Promises are calls and the first bind.
LEMMA Names ==
    /\ First \in Promise /\ Call \subseteq Promise /\ First \notin Call
    /\ None \notin Promise /\ None \notin Call
BY DEF First, Promise, Call, None

\* Counters go on.
LEMMA Counters ==
    ASSUME Calls
    PROVE  gen + 1 \in Nat /\ tick + 1 \in Nat /\ watcher + 1 \in Nat /\ closes + 1 \in Nat
BY DEF Calls

\* A number more.
LEMMA Wider ==
    ASSUME NEW n \in Nat, NEW S \in SUBSET (1..n)
    PROVE  S \subseteq 1..n + 1 /\ S \cup {n + 1} \subseteq 1..n + 1
OBVIOUS

\* What a new handle adds.
LEMMA WiderHandles ==
    ASSUME Calls, Handles
    PROVE  /\ open \cup {gen + 1} \subseteq 1..gen + 1 /\ delayed \subseteq 1..gen + 1
           /\ ticks \cup {tick + 1} \subseteq 1..tick + 1
           /\ watchers \cup {watcher + 1} \subseteq 1..watcher + 1
BY Wider DEF Calls, Handles

-----------------------------------------------------------------------------
(* What the actions with alternatives do. *)

\* bind() binds once: nothing, sockets, or a failure.
LEMMA BindCases ==
    ASSUME Bind
    PROVE  \/ binding # None /\ UNCHANGED <<binding, promise, gen, open, drain>>
           \/ /\ binding = None /\ binding' = First
              /\ promise' = [promise EXCEPT ![First] = "resolved"]
              /\ gen' = gen + 1 /\ open' = open \cup {gen + 1} /\ drain'
           \/ /\ binding = None /\ binding' = First
              /\ promise' = [promise EXCEPT ![First] = "rejected"]
              /\ UNCHANGED <<gen, open, drain>>
BY DEF Bind, BindSockets, socketVars

\* suspend(), bound: nothing is left to do, or the sockets are told to close.
LEMMA SuspendBoundCases ==
    ASSUME NEW c \in Call, SuspendBound(c)
    PROVE  /\ pc[c] = "suspend:bind" /\ promise[waits[c]] = "resolved"
           /\ UNCHANGED <<waits, promise, binding, destroying, destroyed, gen, open, tick,
                          watcher, watchers, closes>>
           /\ \/ /\ suspended \/ destroyed
                 /\ pc' = [pc EXCEPT ![c] = "done"]
                 /\ UNCHANGED <<shut, suspended, ioSuspended, drain, ticks>>
              \/ /\ ~suspended /\ ~destroyed /\ suspended' /\ ioSuspended'
                 /\ pc' = [pc EXCEPT ![c] = "suspend:close"]
                 /\ shut' = [shut EXCEPT ![c] = gen]
                 /\ ticks' = ticks \ {tick} /\ ~drain'
BY DEF SuspendBound, Fulfilled, StartClear, Goto, promiseVars, flagVars, socketVars

\* resume(): of a node that is not suspended nothing, else the turn to bind.
LEMMA ResumeCases ==
    ASSUME NEW c \in Call, Resume(c)
    PROVE  /\ MayCall(c, "resume")
           /\ UNCHANGED <<shut, promise, destroying, destroyed, gen, open, drain, watcher,
                          watchers, closes, delayed>>
           /\ \/ /\ ~suspended \/ destroyed
                 /\ pc' = [pc EXCEPT ![c] = "done"]
                 /\ UNCHANGED <<waits, binding, suspended, ioSuspended, tick, ticks>>
              \/ /\ suspended /\ ~destroyed /\ ~suspended' /\ ~ioSuspended'
                 /\ pc' = [pc EXCEPT ![c] = "resume:prev"]
                 /\ waits' = [waits EXCEPT ![c] = binding] /\ binding' = c
                 /\ tick' = tick + 1 /\ ticks' = ticks \cup {tick + 1}
BY DEF Resume, Goto, flagVars, socketVars

\* _rebind(): the turn has come, and a destroy() is under way, or sockets are
\* bound, or that fails.
LEMMA RebindCases ==
    ASSUME Calls, NEW c \in Call, promise[c] = "pending", Rebind(c)
    PROVE  /\ pc[c] = "resume:prev" /\ promise[waits[c]] = "resolved"
           /\ UNCHANGED <<shut, binding, destroying, suspended, destroyed, ioSuspended, tick,
                          ticks, watcher, watchers, closes>>
           /\ \/ /\ destroying # None
                 /\ pc' = [pc EXCEPT ![c] = "resume:destroying"]
                 /\ waits' = [waits EXCEPT ![c] = destroying]
                 /\ UNCHANGED <<promise, gen, open, drain>>
              \/ /\ destroying = None
                 /\ pc' = [pc EXCEPT ![c] = "resume:bound"]
                 /\ gen' = gen + 1 /\ open' = open \cup {gen + 1} /\ drain'
                 /\ UNCHANGED <<waits, promise>>
              \/ /\ destroying = None
                 /\ pc' = [pc EXCEPT ![c] = "failed"]
                 /\ promise' = [promise EXCEPT ![c] = "rejected"]
                 /\ UNCHANGED <<waits, gen, open, drain>>
<1>1. c \in Promise /\ c # First /\ promise \in [Promise -> {"pending", "resolved", "rejected"}]
  BY DEF Calls, Call, Promise, First
<1>2. /\ pc[c] = "resume:prev" /\ promise[waits[c]] = "resolved"
      /\ UNCHANGED <<shut, binding, destroying, suspended, destroyed, ioSuspended, tick,
                     ticks, watcher, watchers, closes>>
  BY DEF Rebind, Fulfilled, flagVars, handleVars
<1>3. CASE destroying # None
  BY <1>2, <1>3 DEF Rebind, Goto, socketVars
<1>4. CASE destroying = None
  <2>1. BindSockets(c) /\ UNCHANGED waits
        /\ Goto(c, IF promise'[c] = "rejected" THEN "failed" ELSE "resume:bound")
    BY <1>4 DEF Rebind
  <2>2. CASE gen' = gen + 1 /\ open' = open \cup {gen + 1} /\ drain' = TRUE
             /\ promise' = [promise EXCEPT ![c] = IF c = First THEN "resolved" ELSE @]
    <3>1. promise' = promise
      BY <1>1, <2>2
    <3> QED
      BY <1>2, <1>4, <2>1, <2>2, <3>1 DEF Goto
  <2>3. CASE promise' = [promise EXCEPT ![c] = "rejected"] /\ UNCHANGED socketVars
    <3>1. promise'[c] = "rejected"
      BY <1>1, <2>3
    <3> QED
      BY <1>2, <1>4, <2>1, <2>3, <3>1 DEF Goto, socketVars
  <2> QED
    BY <2>1, <2>2, <2>3 DEF BindSockets
<1> QED
  BY <1>3, <1>4

\* destroy(): the first one waits for a bind, another for the first.
LEMMA DestroyCases ==
    ASSUME NEW c \in Call, Destroy(c)
    PROVE  /\ MayCall(c, "destroy") /\ delayed' = {}
           /\ destroyed' /\ ticks' = ticks \ {tick}
           /\ UNCHANGED <<shut, suspended, ioSuspended, tick, watcher, watchers, closes>>
           /\ \/ /\ destroying = None /\ destroying' = c /\ Bind
                 /\ pc' = [pc EXCEPT ![c] = "destroy:bind"]
                 /\ waits' = [waits EXCEPT ![c] = binding']
              \/ /\ destroying # None
                 /\ pc' = [pc EXCEPT ![c] = "destroy:again"]
                 /\ waits' = [waits EXCEPT ![c] = destroying]
                 /\ UNCHANGED <<promise, binding, destroying, gen, open, drain>>
BY DEF Destroy, CloseDown, Goto, promiseVars, socketVars

\* Flags are truth values.
LEMMA FlagsStep ==
    ASSUME Flags, [Next]_vars
    PROVE  Flags'
<1>1. CASE Bootstrap
  BY <1>1, Zenon DEF Bootstrap, Bind, flagVars, pingVars, BindSockets, socketVars,
     Flags
<1>2. ASSUME NEW c \in Call, Suspend(c) PROVE Flags'
  BY <1>2, Zenon DEF Suspend, MayCall, Bind, flagVars, BindSockets, socketVars,
     Flags
<1>3. ASSUME NEW c \in Call, Resume(c) PROVE Flags'
  BY <1>3, Zenon DEF Resume, MayCall, flagVars, socketVars, Flags
<1>4. ASSUME NEW c \in Call, Destroy(c) PROVE Flags'
  BY <1>4, Zenon DEF Destroy, MayCall, CloseDown, Bind, socketVars, BindSockets,
     Flags
<1>5. ASSUME NEW c \in Call, SuspendBound(c), UNCHANGED pingVars PROVE Flags'
  BY <1>5, Zenon DEF SuspendBound, pingVars, flagVars, socketVars, StartClear, Flags
<1>6. ASSUME NEW c \in Call, SuspendClosed(c), UNCHANGED pingVars PROVE Flags'
  BY <1>6, Zenon DEF SuspendClosed, pingVars, promiseVars, flagVars, Flags
<1>7. ASSUME NEW c \in Call, SuspendDone(c), UNCHANGED pingVars PROVE Flags'
  BY <1>7, Zenon DEF SuspendDone, pingVars, flagVars, Flags
<1>8. ASSUME NEW c \in Call, Rebind(c), UNCHANGED pingVars PROVE Flags'
  BY <1>8, Zenon DEF Rebind, pingVars, socketVars, BindSockets, flagVars, Flags
<1>9. ASSUME NEW c \in Call, ResumeDone(c), UNCHANGED pingVars PROVE Flags'
  BY <1>9, Zenon DEF ResumeDone, pingVars, flagVars, socketVars, Flags
<1>10. ASSUME NEW c \in Call, DestroyClear(c), UNCHANGED pingVars PROVE Flags'
  BY <1>10, Zenon DEF DestroyClear, pingVars, StartClear, flagVars, Flags
<1>11. ASSUME NEW c \in Call, DestroyClosed(c), UNCHANGED pingVars PROVE Flags'
  BY <1>11, Zenon DEF DestroyClosed, pingVars, flagVars, Flags
<1>12. ASSUME NEW c \in Call, DestroyDone(c), UNCHANGED pingVars PROVE Flags'
  BY <1>12, Zenon DEF DestroyDone, pingVars, flagVars, socketVars, Flags
<1>13. ASSUME NEW c \in Call, AfterDestroy(c), UNCHANGED pingVars PROVE Flags'
  BY <1>13, Zenon DEF AfterDestroy, pingVars, flagVars, socketVars, Flags
<1>14. ASSUME NEW c \in Call, Reject(c), UNCHANGED pingVars PROVE Flags'
  BY <1>14, Zenon DEF Reject, pingVars, flagVars, socketVars, Flags
<1>15. CASE DelayedPing
  BY <1>15, Zenon DEF DelayedPing, flagVars, socketVars, Flags
<1>16. ASSUME NEW g \in delayed, DelayedReply(g) PROVE Flags'
  BY <1>16, Zenon DEF DelayedReply, flagVars, socketVars, Flags
<1>17. CASE UNCHANGED vars
  BY <1>17, Zenon DEF vars, flagVars, socketVars, pingVars, Flags
<1> QED
  BY <1>1, <1>2, <1>3, <1>4, <1>5, <1>6, <1>7, <1>8, <1>9, <1>10, <1>11, <1>12,
     <1>13, <1>14, <1>15, <1>16, <1>17 DEF Next, Proceed

\* What calls and promises hold is of its type.
LEMMA CallsStep ==
    ASSUME Flags, Calls, Bindable, Pending, [Next]_vars
    PROVE  Calls'
<1>1. CASE Bootstrap
  BY <1>1, Names, Counters, BindCases DEF Bootstrap, callVars, handleVars, Calls
<1>2. ASSUME NEW c \in Call, Suspend(c) PROVE Calls'
  BY <1>2, Names, Counters, BindCases DEF Suspend, MayCall, Goto, handleVars, Calls,
     InSuspend
<1>3. ASSUME NEW c \in Call, Resume(c) PROVE Calls'
  BY <1>3, Names, Counters, ResumeCases DEF MayCall, Calls, Bindable, AtRest,
     InResume
<1>4. ASSUME NEW c \in Call, Destroy(c) PROVE Calls'
  BY <1>4, Names, Counters, DestroyCases, BindCases DEF MayCall, Calls, InDestroy
<1>5. ASSUME NEW c \in Call, SuspendBound(c), UNCHANGED pingVars PROVE Calls'
  BY <1>5, Names, Counters, SuspendBoundCases DEF Calls, AtRest, InSuspend
<1>6. ASSUME NEW c \in Call, SuspendClosed(c), UNCHANGED pingVars PROVE Calls'
  BY <1>6, Names, Counters DEF SuspendClosed, FinishClear, Goto, promiseVars, Calls,
     InSuspend
<1>7. ASSUME NEW c \in Call, SuspendDone(c), UNCHANGED pingVars PROVE Calls'
  BY <1>7, Names, Counters DEF SuspendDone, Goto, promiseVars, handleVars, Calls,
     AtRest
<1>8. ASSUME NEW c \in Call, Rebind(c), UNCHANGED pingVars PROVE Calls'
  <2>1. promise[c] = "pending"
    BY <1>8 DEF Rebind, Pending, InResume
  <2> QED
    BY <1>8, <2>1, Names, Counters, RebindCases DEF Calls, AtRest, InResume
<1>9. ASSUME NEW c \in Call, ResumeDone(c), UNCHANGED pingVars PROVE Calls'
  BY <1>9, Names, Counters DEF ResumeDone, Goto, socketVars, Calls, AtRest
<1>10. ASSUME NEW c \in Call, DestroyClear(c), UNCHANGED pingVars PROVE Calls'
  BY <1>10, Names, Counters DEF DestroyClear, StartClear, promiseVars, handleVars,
     Calls, InDestroy
<1>11. ASSUME NEW c \in Call, DestroyClosed(c), UNCHANGED pingVars PROVE Calls'
  BY <1>11, Names, Counters DEF DestroyClosed, FinishClear, Goto, Calls, InDestroy
<1>12. ASSUME NEW c \in Call, DestroyDone(c), UNCHANGED pingVars PROVE Calls'
  BY <1>12, Names, Counters DEF DestroyDone, Goto, promiseVars, socketVars, Calls,
     AtRest
<1>13. ASSUME NEW c \in Call, AfterDestroy(c), UNCHANGED pingVars PROVE Calls'
  BY <1>13, Names, Counters DEF AfterDestroy, Goto, socketVars, handleVars, Calls,
     AtRest
<1>14. ASSUME NEW c \in Call, Reject(c), UNCHANGED pingVars PROVE Calls'
  BY <1>14, Names, Counters DEF Reject, Goto, socketVars, handleVars, Calls, AtRest
<1>15. CASE DelayedPing
  BY <1>15, Names, Counters DEF DelayedPing, Ready, callVars, promiseVars,
     socketVars, handleVars, Calls
<1>16. ASSUME NEW g \in delayed, DelayedReply(g) PROVE Calls'
  BY <1>16, Names, Counters DEF DelayedReply, callVars, promiseVars, socketVars,
     handleVars, Calls
<1>17. CASE UNCHANGED vars
  BY <1>17, Names, Counters DEF vars, callVars, promiseVars, socketVars, handleVars,
     Calls
<1> QED
  BY <1>1, <1>2, <1>3, <1>4, <1>5, <1>6, <1>7, <1>8, <1>9, <1>10, <1>11, <1>12,
     <1>13, <1>14, <1>15, <1>16, <1>17 DEF Next, Proceed

\* Handles are numbered as they are made.
LEMMA HandlesStep ==
    ASSUME Flags, Calls, Handles, Pending, [Next]_vars
    PROVE  Handles'
<1>1. CASE Bootstrap
  BY <1>1, WiderHandles, BindCases DEF Bootstrap, handleVars, pingVars, Calls,
     Handles
<1>2. ASSUME NEW c \in Call, Suspend(c) PROVE Handles'
  BY <1>2, WiderHandles, BindCases DEF Suspend, MayCall, Goto, handleVars, Calls,
     Handles
<1>3. ASSUME NEW c \in Call, Resume(c) PROVE Handles'
  BY <1>3, WiderHandles, ResumeCases DEF MayCall, Calls, Handles
<1>4. ASSUME NEW c \in Call, Destroy(c) PROVE Handles'
  BY <1>4, WiderHandles, DestroyCases, BindCases DEF MayCall, Calls, Handles
<1>5. ASSUME NEW c \in Call, SuspendBound(c), UNCHANGED pingVars PROVE Handles'
  BY <1>5, WiderHandles, SuspendBoundCases DEF pingVars, Calls, Handles
<1>6. ASSUME NEW c \in Call, SuspendClosed(c), UNCHANGED pingVars PROVE Handles'
  BY <1>6, WiderHandles DEF SuspendClosed, pingVars, FinishClear, Goto, Calls,
     Handles
<1>7. ASSUME NEW c \in Call, SuspendDone(c), UNCHANGED pingVars PROVE Handles'
  BY <1>7, WiderHandles DEF SuspendDone, pingVars, Goto, handleVars, Calls, Handles
<1>8. ASSUME NEW c \in Call, Rebind(c), UNCHANGED pingVars PROVE Handles'
  <2>1. promise[c] = "pending"
    BY <1>8 DEF Rebind, Pending, InResume
  <2> QED
    BY <1>8, <2>1, WiderHandles, RebindCases DEF pingVars, Calls, Handles
<1>9. ASSUME NEW c \in Call, ResumeDone(c), UNCHANGED pingVars PROVE Handles'
  BY <1>9, WiderHandles DEF ResumeDone, pingVars, Goto, socketVars, Calls, Handles
<1>10. ASSUME NEW c \in Call, DestroyClear(c), UNCHANGED pingVars PROVE Handles'
  BY <1>10, WiderHandles DEF DestroyClear, pingVars, StartClear, handleVars, Calls,
     Handles
<1>11. ASSUME NEW c \in Call, DestroyClosed(c), UNCHANGED pingVars PROVE Handles'
  BY <1>11, WiderHandles DEF DestroyClosed, pingVars, FinishClear, Goto, Calls,
     Handles
<1>12. ASSUME NEW c \in Call, DestroyDone(c), UNCHANGED pingVars PROVE Handles'
  BY <1>12, WiderHandles DEF DestroyDone, pingVars, Goto, socketVars, Calls, Handles
<1>13. ASSUME NEW c \in Call, AfterDestroy(c), UNCHANGED pingVars PROVE Handles'
  BY <1>13, WiderHandles DEF AfterDestroy, pingVars, Goto, socketVars, handleVars,
     Calls, Handles
<1>14. ASSUME NEW c \in Call, Reject(c), UNCHANGED pingVars PROVE Handles'
  BY <1>14, WiderHandles DEF Reject, pingVars, Goto, socketVars, handleVars, Calls,
     Handles
<1>15. CASE DelayedPing
  BY <1>15, WiderHandles DEF DelayedPing, Ready, socketVars, handleVars, Calls,
     Handles
<1>16. ASSUME NEW g \in delayed, DelayedReply(g) PROVE Handles'
  BY <1>16, WiderHandles DEF DelayedReply, socketVars, handleVars, Calls, Handles
<1>17. CASE UNCHANGED vars
  BY <1>17, WiderHandles DEF vars, socketVars, handleVars, pingVars, Calls, Handles
<1> QED
  BY <1>1, <1>2, <1>3, <1>4, <1>5, <1>6, <1>7, <1>8, <1>9, <1>10, <1>11, <1>12,
     <1>13, <1>14, <1>15, <1>16, <1>17 DEF Next, Proceed

\* A bind is recorded before anybody waits for one, and ioSuspended follows
\* suspended.
LEMMA BindableStep ==
    ASSUME Calls, Bindable, Pending, [Next]_vars
    PROVE  Bindable'
<1>1. CASE Bootstrap
  BY <1>1, Names, BindCases DEF Bootstrap, flagVars, Calls, Bindable
<1>2. ASSUME NEW c \in Call, Suspend(c) PROVE Bindable'
  BY <1>2, Names, BindCases DEF Suspend, MayCall, Goto, flagVars, Calls, Bindable
<1>3. ASSUME NEW c \in Call, Resume(c) PROVE Bindable'
  BY <1>3, Names, ResumeCases DEF MayCall, Calls, Bindable, InResume
<1>4. ASSUME NEW c \in Call, Destroy(c) PROVE Bindable'
  BY <1>4, Names, DestroyCases, BindCases DEF MayCall, Calls, Bindable, InResume
<1>5. ASSUME NEW c \in Call, SuspendBound(c), UNCHANGED pingVars PROVE Bindable'
  BY <1>5, Names, SuspendBoundCases DEF Calls, Bindable
<1>6. ASSUME NEW c \in Call, SuspendClosed(c), UNCHANGED pingVars PROVE Bindable'
  BY <1>6, Names DEF SuspendClosed, FinishClear, Goto, promiseVars, flagVars, Calls,
     Bindable, InResume
<1>7. ASSUME NEW c \in Call, SuspendDone(c), UNCHANGED pingVars PROVE Bindable'
  BY <1>7, Names DEF SuspendDone, Goto, promiseVars, flagVars, Calls, Bindable,
     InResume
<1>8. ASSUME NEW c \in Call, Rebind(c), UNCHANGED pingVars PROVE Bindable'
  <2>1. promise[c] = "pending"
    BY <1>8 DEF Rebind, Pending, InResume
  <2> QED
    BY <1>8, <2>1, Names, RebindCases DEF Calls, Bindable, InResume
<1>9. ASSUME NEW c \in Call, ResumeDone(c), UNCHANGED pingVars PROVE Bindable'
  BY <1>9, Names DEF ResumeDone, Goto, flagVars, Calls, Bindable, InResume
<1>10. ASSUME NEW c \in Call, DestroyClear(c), UNCHANGED pingVars PROVE Bindable'
  BY <1>10, Names DEF DestroyClear, StartClear, promiseVars, flagVars, Calls,
     Bindable, InResume
<1>11. ASSUME NEW c \in Call, DestroyClosed(c), UNCHANGED pingVars PROVE Bindable'
  BY <1>11, Names DEF DestroyClosed, FinishClear, Goto, flagVars, Calls, Bindable,
     InResume
<1>12. ASSUME NEW c \in Call, DestroyDone(c), UNCHANGED pingVars PROVE Bindable'
  BY <1>12, Names DEF DestroyDone, Goto, promiseVars, flagVars, socketVars, Calls,
     Bindable, InResume
<1>13. ASSUME NEW c \in Call, AfterDestroy(c), UNCHANGED pingVars PROVE Bindable'
  BY <1>13, Names DEF AfterDestroy, Goto, flagVars, socketVars, Calls, Bindable,
     InResume
<1>14. ASSUME NEW c \in Call, Reject(c), UNCHANGED pingVars PROVE Bindable'
  BY <1>14, Names DEF Reject, Goto, flagVars, socketVars, Calls, Bindable, InResume
<1>15. CASE DelayedPing
  BY <1>15, Names DEF DelayedPing, Ready, callVars, promiseVars, flagVars,
     socketVars, Calls, Bindable
<1>16. ASSUME NEW g \in delayed, DelayedReply(g) PROVE Bindable'
  BY <1>16, Names DEF DelayedReply, callVars, promiseVars, flagVars, socketVars,
     Calls, Bindable
<1>17. CASE UNCHANGED vars
  BY <1>17, Names DEF vars, callVars, promiseVars, flagVars, socketVars, Calls,
     Bindable
<1> QED
  BY <1>1, <1>2, <1>3, <1>4, <1>5, <1>6, <1>7, <1>8, <1>9, <1>10, <1>11, <1>12,
     <1>13, <1>14, <1>15, <1>16, <1>17 DEF Next, Proceed

\* From the first destroy() on nothing is bound, and only it closes down.
LEMMA ClosingStep ==
    ASSUME Calls, Bindable, Pending, Intervals, Closing, [Next]_vars
    PROVE  Closing'
<1>1. CASE Bootstrap
  BY <1>1, Names, BindCases DEF Bootstrap, callVars, flagVars, handleVars, Calls,
     Closing
<1>2. ASSUME NEW c \in Call, Suspend(c) PROVE Closing'
  BY <1>2, Names, BindCases DEF Suspend, MayCall, Goto, flagVars, handleVars, Calls,
     Closing
<1>3. ASSUME NEW c \in Call, Resume(c) PROVE Closing'
  BY <1>3, Names, ResumeCases DEF MayCall, Calls, Closing
<1>4. ASSUME NEW c \in Call, Destroy(c) PROVE Closing'
  BY <1>4, Names, DestroyCases, BindCases DEF MayCall, Calls, Closing
<1>5. ASSUME NEW c \in Call, SuspendBound(c), UNCHANGED pingVars PROVE Closing'
  BY <1>5, Names, SuspendBoundCases DEF Calls, Closing
<1>6. ASSUME NEW c \in Call, SuspendClosed(c), UNCHANGED pingVars PROVE Closing'
  BY <1>6, Names DEF SuspendClosed, FinishClear, Goto, promiseVars, flagVars, Calls,
     Closing
<1>7. ASSUME NEW c \in Call, SuspendDone(c), UNCHANGED pingVars PROVE Closing'
  BY <1>7, Names DEF SuspendDone, Goto, promiseVars, flagVars, handleVars, Calls,
     Closing
<1>8. ASSUME NEW c \in Call, Rebind(c), UNCHANGED pingVars PROVE Closing'
  <2>1. promise[c] = "pending"
    BY <1>8 DEF Rebind, Pending, InResume
  <2> QED
    BY <1>8, <2>1, Names, RebindCases DEF Calls, Closing
<1>9. ASSUME NEW c \in Call, ResumeDone(c), UNCHANGED pingVars PROVE Closing'
  BY <1>9, Names DEF ResumeDone, Goto, flagVars, socketVars, Calls, Closing
<1>10. ASSUME NEW c \in Call, DestroyClear(c), UNCHANGED pingVars PROVE Closing'
  BY <1>10, Names DEF DestroyClear, StartClear, promiseVars, flagVars, handleVars,
     Calls, Closing
<1>11. ASSUME NEW c \in Call, DestroyClosed(c), UNCHANGED pingVars PROVE Closing'
  BY <1>11, Names DEF DestroyClosed, FinishClear, Goto, flagVars, Calls, Closing
<1>12. ASSUME NEW c \in Call, DestroyDone(c), UNCHANGED pingVars PROVE Closing'
  BY <1>12, Names DEF DestroyDone, Goto, promiseVars, flagVars, socketVars, Calls,
     Closing
<1>13. ASSUME NEW c \in Call, AfterDestroy(c), UNCHANGED pingVars PROVE Closing'
  BY <1>13, Names DEF AfterDestroy, Goto, flagVars, socketVars, handleVars, Calls,
     Closing
<1>14. ASSUME NEW c \in Call, Reject(c), UNCHANGED pingVars PROVE Closing'
  BY <1>14, Names DEF Reject, Goto, flagVars, socketVars, handleVars, Calls, Closing
<1>15. CASE DelayedPing
  BY <1>15, Names DEF DelayedPing, Ready, callVars, promiseVars, flagVars,
     handleVars, Calls, Closing
<1>16. ASSUME NEW g \in delayed, DelayedReply(g) PROVE Closing'
  BY <1>16, Names DEF DelayedReply, callVars, promiseVars, flagVars, handleVars,
     Calls, Closing
<1>17. CASE UNCHANGED vars
  BY <1>17, Names DEF vars, callVars, promiseVars, flagVars, socketVars, handleVars,
     Calls, Closing
<1> QED
  BY <1>1, <1>2, <1>3, <1>4, <1>5, <1>6, <1>7, <1>8, <1>9, <1>10, <1>11, <1>12,
     <1>13, <1>14, <1>15, <1>16, <1>17 DEF Next, Proceed

\* An interval is set only after the one before it was cleared, and the drain
\* interval never for sockets that were told to close.
LEMMA IntervalsStep ==
    ASSUME Calls, Pending, Intervals, [Next]_vars
    PROVE  Intervals'
<1>1. CASE Bootstrap
  BY <1>1, BindCases DEF Bootstrap, callVars, flagVars, handleVars, Calls, Intervals
<1>2. ASSUME NEW c \in Call, Suspend(c) PROVE Intervals'
  BY <1>2, BindCases DEF Suspend, MayCall, Goto, flagVars, handleVars, Calls,
     Intervals
<1>3. ASSUME NEW c \in Call, Resume(c) PROVE Intervals'
  <2>1. ticks' \subseteq {tick'} /\ (suspended' => ticks' = {})
    BY <1>3, ResumeCases DEF Intervals
  <2>2. UNCHANGED <<shut, gen, open, drain>>
    BY <1>3, ResumeCases, Zenon
  <2> QED
    BY <2>1, <2>2 DEF Intervals
<1>4. ASSUME NEW c \in Call, Destroy(c) PROVE Intervals'
  <2>1. ticks' \subseteq {tick'} /\ (suspended' => ticks' = {})
    BY <1>4, DestroyCases DEF Intervals
  <2>2. /\ UNCHANGED shut
        /\ (UNCHANGED <<gen, open, drain>> \/ (gen' = gen + 1 /\ open' = open \cup {gen + 1}))
    BY <1>4, DestroyCases, BindCases, Zenon
  <2> QED
    BY <2>1, <2>2 DEF Intervals, Calls
<1>5. ASSUME NEW c \in Call, SuspendBound(c), UNCHANGED pingVars PROVE Intervals'
  <2>1. ticks' \subseteq {tick'} /\ (suspended' => ticks' = {})
    BY <1>5, SuspendBoundCases DEF Intervals
  <2>2. /\ UNCHANGED <<gen, open>>
        /\ (UNCHANGED <<shut, drain>> \/ (shut' = [shut EXCEPT ![c] = gen] /\ ~drain'))
    BY <1>5, SuspendBoundCases, Zenon
  <2> QED
    BY <2>1, <2>2 DEF Intervals, Calls
<1>6. ASSUME NEW c \in Call, SuspendClosed(c), UNCHANGED pingVars PROVE Intervals'
  BY <1>6 DEF SuspendClosed, FinishClear, Goto, flagVars, Calls, Intervals
<1>7. ASSUME NEW c \in Call, SuspendDone(c), UNCHANGED pingVars PROVE Intervals'
  BY <1>7 DEF SuspendDone, Goto, flagVars, handleVars, Calls, Intervals
<1>8. ASSUME NEW c \in Call, Rebind(c), UNCHANGED pingVars PROVE Intervals'
  <2>1. promise[c] = "pending"
    BY <1>8 DEF Rebind, Pending, InResume
  <2>2. /\ UNCHANGED <<shut, tick, ticks, suspended>>
        /\ (UNCHANGED <<gen, open, drain>> \/ (gen' = gen + 1 /\ open' = open \cup {gen + 1}))
    BY <1>8, <2>1, RebindCases, Zenon
  <2> QED
    BY <2>2 DEF Intervals, Calls
<1>9. ASSUME NEW c \in Call, ResumeDone(c), UNCHANGED pingVars PROVE Intervals'
  BY <1>9 DEF ResumeDone, Goto, flagVars, socketVars, Calls, Intervals
<1>10. ASSUME NEW c \in Call, DestroyClear(c), UNCHANGED pingVars PROVE Intervals'
  BY <1>10 DEF DestroyClear, StartClear, flagVars, handleVars, Calls, Intervals
<1>11. ASSUME NEW c \in Call, DestroyClosed(c), UNCHANGED pingVars PROVE Intervals'
  BY <1>11 DEF DestroyClosed, FinishClear, Goto, flagVars, Calls, Intervals
<1>12. ASSUME NEW c \in Call, DestroyDone(c), UNCHANGED pingVars PROVE Intervals'
  BY <1>12 DEF DestroyDone, Goto, flagVars, socketVars, Calls, Intervals
<1>13. ASSUME NEW c \in Call, AfterDestroy(c), UNCHANGED pingVars PROVE Intervals'
  BY <1>13 DEF AfterDestroy, Goto, flagVars, socketVars, handleVars, Calls,
     Intervals
<1>14. ASSUME NEW c \in Call, Reject(c), UNCHANGED pingVars PROVE Intervals'
  BY <1>14 DEF Reject, Goto, flagVars, socketVars, handleVars, Calls, Intervals
<1>15. CASE DelayedPing
  BY <1>15 DEF DelayedPing, Ready, callVars, flagVars, socketVars, handleVars,
     Calls, Intervals
<1>16. ASSUME NEW g \in delayed, DelayedReply(g) PROVE Intervals'
  BY <1>16 DEF DelayedReply, callVars, flagVars, socketVars, handleVars, Calls,
     Intervals
<1>17. CASE UNCHANGED vars
  BY <1>17 DEF vars, callVars, flagVars, socketVars, handleVars, Calls, Intervals
<1> QED
  BY <1>1, <1>2, <1>3, <1>4, <1>5, <1>6, <1>7, <1>8, <1>9, <1>10, <1>11, <1>12,
     <1>13, <1>14, <1>15, <1>16, <1>17 DEF Next, Proceed

\* A call settles its own promise once, as it ends.
LEMMA PendingStep ==
    ASSUME Calls, Bindable, Pending, Closing, [Next]_vars
    PROVE  Pending'
<1>1. CASE Bootstrap
  BY <1>1, Names, BindCases DEF Bootstrap, callVars, Calls, Pending
<1>2. ASSUME NEW c \in Call, Suspend(c) PROVE Pending'
  BY <1>2, Names, BindCases DEF Suspend, MayCall, Goto, Calls, Pending, InResume
<1>3. ASSUME NEW c \in Call, Resume(c) PROVE Pending'
  BY <1>3, Names, ResumeCases DEF MayCall, Calls, Pending, InResume
<1>4. ASSUME NEW c \in Call, Destroy(c) PROVE Pending'
  BY <1>4, Names, DestroyCases, BindCases DEF MayCall, Calls, Pending, InResume
<1>5. ASSUME NEW c \in Call, SuspendBound(c), UNCHANGED pingVars PROVE Pending'
  BY <1>5, Names, SuspendBoundCases DEF Calls, Pending, InResume
<1>6. ASSUME NEW c \in Call, SuspendClosed(c), UNCHANGED pingVars PROVE Pending'
  BY <1>6, Names DEF SuspendClosed, FinishClear, Goto, promiseVars, Calls, Pending,
     InResume
<1>7. ASSUME NEW c \in Call, SuspendDone(c), UNCHANGED pingVars PROVE Pending'
  BY <1>7, Names DEF SuspendDone, Goto, promiseVars, Calls, Pending, InResume
<1>8. ASSUME NEW c \in Call, Rebind(c), UNCHANGED pingVars PROVE Pending'
  <2>1. promise[c] = "pending"
    BY <1>8 DEF Rebind, Pending, InResume
  <2> QED
    BY <1>8, <2>1, Names, RebindCases DEF Calls, Pending, InResume
<1>9. ASSUME NEW c \in Call, ResumeDone(c), UNCHANGED pingVars PROVE Pending'
  BY <1>9, Names DEF ResumeDone, Goto, Calls, Pending, InResume
<1>10. ASSUME NEW c \in Call, DestroyClear(c), UNCHANGED pingVars PROVE Pending'
  BY <1>10, Names DEF DestroyClear, StartClear, promiseVars, Calls, Pending,
     InResume
<1>11. ASSUME NEW c \in Call, DestroyClosed(c), UNCHANGED pingVars PROVE Pending'
  BY <1>11, Names DEF DestroyClosed, FinishClear, Goto, Calls, Pending, InResume
<1>12. ASSUME NEW c \in Call, DestroyDone(c), UNCHANGED pingVars PROVE Pending'
  BY <1>12, Names DEF DestroyDone, Goto, promiseVars, Calls, Pending, InResume
<1>13. ASSUME NEW c \in Call, AfterDestroy(c), UNCHANGED pingVars PROVE Pending'
  BY <1>13, Names DEF AfterDestroy, Goto, Calls, Pending, InResume
<1>14. ASSUME NEW c \in Call, Reject(c), UNCHANGED pingVars PROVE Pending'
  BY <1>14, Names DEF Reject, Goto, Calls, Pending, InResume
<1>15. CASE DelayedPing
  BY <1>15, Names DEF DelayedPing, Ready, callVars, promiseVars, Calls, Pending
<1>16. ASSUME NEW g \in delayed, DelayedReply(g) PROVE Pending'
  BY <1>16, Names DEF DelayedReply, callVars, promiseVars, Calls, Pending
<1>17. CASE UNCHANGED vars
  BY <1>17, Names DEF vars, callVars, promiseVars, Calls, Pending
<1> QED
  BY <1>1, <1>2, <1>3, <1>4, <1>5, <1>6, <1>7, <1>8, <1>9, <1>10, <1>11, <1>12,
     <1>13, <1>14, <1>15, <1>16, <1>17 DEF Next, Proceed


\* The calls before one that is made were made.
LEMMA NumberedCall ==
    ASSUME Calls, Numbered, NEW c \in Call, NEW kind, MayCall(c, kind),
           NEW s \in InSuspend \cup InResume \cup InDestroy \cup {"done"},
           pc' = [pc EXCEPT ![c] = s]
    PROVE  Numbered'
<1> SUFFICES ASSUME NEW x \in Call, NEW y \in Call, pc'[x] = "new", x < y
             PROVE  pc'[y] = "new"
  BY DEF Numbered
<1>1. x # c /\ pc[x] = "new" /\ pc[y] = "new"
  BY DEF Numbered, Calls, InSuspend, InResume, InDestroy
<1>2. y # c
  <2>1. \A d \in 1..c - 1 : pc[d] # "new"
    BY DEF MayCall
  <2>2. x < c => x \in 1..c - 1
    BY LifecycleAssumption DEF Call
  <2> QED
    BY <1>1, <2>1, <2>2
<1> QED
  BY <1>1, <1>2 DEF Calls

\* Every step keeps the order of the calls.
LEMMA NumberedStep ==
    ASSUME Calls, Pending, Numbered, [Next]_vars
    PROVE  Numbered'
<1>1. CASE Bootstrap
  BY <1>1, BindCases DEF Bootstrap, callVars, Calls, Numbered
<1>2. ASSUME NEW c \in Call, Suspend(c) PROVE Numbered'
  <2>1. MayCall(c, "suspend") /\ \E s \in InSuspend : pc' = [pc EXCEPT ![c] = s]
    BY <1>2 DEF Suspend, Goto, InSuspend
  <2> QED
    BY <2>1, NumberedCall
<1>3. ASSUME NEW c \in Call, Resume(c) PROVE Numbered'
  <2>1. MayCall(c, "resume") /\ \E s \in InResume \cup {"done"} : pc' = [pc EXCEPT ![c] = s]
    BY <1>3, ResumeCases, Zenon DEF InResume
  <2> QED
    BY <2>1, NumberedCall
<1>4. ASSUME NEW c \in Call, Destroy(c) PROVE Numbered'
  <2>1. MayCall(c, "destroy") /\ \E s \in InDestroy : pc' = [pc EXCEPT ![c] = s]
    BY <1>4, DestroyCases, Zenon DEF InDestroy
  <2> QED
    BY <2>1, NumberedCall
<1>5. ASSUME NEW c \in Call, SuspendBound(c), UNCHANGED pingVars PROVE Numbered'
  BY <1>5, SuspendBoundCases DEF Calls, Numbered
<1>6. ASSUME NEW c \in Call, SuspendClosed(c), UNCHANGED pingVars PROVE Numbered'
  BY <1>6 DEF SuspendClosed, FinishClear, Goto, Calls, Numbered
<1>7. ASSUME NEW c \in Call, SuspendDone(c), UNCHANGED pingVars PROVE Numbered'
  BY <1>7 DEF SuspendDone, Goto, Calls, Numbered
<1>8. ASSUME NEW c \in Call, Rebind(c), UNCHANGED pingVars PROVE Numbered'
  <2>1. promise[c] = "pending"
    BY <1>8 DEF Rebind, Pending, InResume
  <2> QED
    BY <1>8, <2>1, RebindCases DEF Calls, Numbered
<1>9. ASSUME NEW c \in Call, ResumeDone(c), UNCHANGED pingVars PROVE Numbered'
  BY <1>9 DEF ResumeDone, Goto, Calls, Numbered
<1>10. ASSUME NEW c \in Call, DestroyClear(c), UNCHANGED pingVars PROVE Numbered'
  BY <1>10 DEF DestroyClear, StartClear, Calls, Numbered
<1>11. ASSUME NEW c \in Call, DestroyClosed(c), UNCHANGED pingVars PROVE Numbered'
  BY <1>11 DEF DestroyClosed, FinishClear, Goto, Calls, Numbered
<1>12. ASSUME NEW c \in Call, DestroyDone(c), UNCHANGED pingVars PROVE Numbered'
  BY <1>12 DEF DestroyDone, Goto, Calls, Numbered
<1>13. ASSUME NEW c \in Call, AfterDestroy(c), UNCHANGED pingVars PROVE Numbered'
  BY <1>13 DEF AfterDestroy, Goto, Calls, Numbered
<1>14. ASSUME NEW c \in Call, Reject(c), UNCHANGED pingVars PROVE Numbered'
  BY <1>14 DEF Reject, Goto, Calls, Numbered
<1>15. CASE DelayedPing
  BY <1>15 DEF DelayedPing, Ready, callVars, Calls, Numbered
<1>16. ASSUME NEW g \in delayed, DelayedReply(g) PROVE Numbered'
  BY <1>16 DEF DelayedReply, callVars, Calls, Numbered
<1>17. CASE UNCHANGED vars
  BY <1>17 DEF vars, callVars, Calls, Numbered
<1> QED
  BY <1>1, <1>2, <1>3, <1>4, <1>5, <1>6, <1>7, <1>8, <1>9, <1>10, <1>11, <1>12,
     <1>13, <1>14, <1>15, <1>16, <1>17 DEF Next, Proceed


\* A program that awaits its calls makes one when no other is under way, destroy()
\* when no resume() is.
LEMMA AwaitsOthers ==
    ASSUME Numbered, NEW c \in Call, NEW kind \in {"suspend", "resume", "destroy"},
           MayCall(c, kind), awaited'
    PROVE  /\ awaited /\ pc[c] = "new"
           /\ kind # "destroy" => \A d \in Call \ {c} : pc[d] \in AtRest
           /\ \A d \in Call : ~Resuming(d)
<1>1. awaited /\ ~Overlaps(c, kind)
  BY Zenon DEF MayCall
<1>2. \A d \in Call \ {c} : d \in 1..c - 1 \/ c < d
  BY LifecycleAssumption DEF Call
<1>3. pc[c] = "new"
  BY DEF MayCall
<1>4. \A d \in Call \ {c} : d \in 1..c - 1 \/ pc[d] = "new"
  BY <1>2, <1>3 DEF Numbered
<1> QED
  BY <1>1, <1>3, <1>4 DEF Overlaps, AtRest, InSuspend, InDestroy, InResume, Resuming

\* An awaited resume() stays alone.
LEMMA AloneStep ==
    ASSUME Calls, Bindable, Pending, Closing, Numbered, Alone, [Next]_vars
    PROVE  Alone'
<1>1. CASE Bootstrap
  BY <1>1, Names, BindCases DEF Bootstrap, callVars, Calls, Bindable, Alone,
     Resuming
<1>2. ASSUME NEW c \in Call, Suspend(c) PROVE Alone'
  <2> SUFFICES ASSUME awaited' PROVE Alone'
    BY DEF Alone
  <2>1. awaited /\ pc[c] = "new" /\ \A d \in Call : ~Resuming(d)
    BY <1>2, AwaitsOthers DEF Suspend
  <2>2. pc' = [pc EXCEPT ![c] = "suspend:bind"] /\ Bind /\ destroying' = destroying
    BY <1>2 DEF Suspend, Goto
  <2>3. \A d \in Call : ~Resuming(d)'
    BY <2>1, <2>2 DEF Resuming, InResume, Calls
  <2> QED
    BY <2>1, <2>2, <2>3, BindCases, Names DEF Alone, Calls
<1>3. ASSUME NEW c \in Call, Resume(c) PROVE Alone'
  <2> SUFFICES ASSUME awaited' PROVE Alone'
    BY DEF Alone
  <2>1. /\ awaited /\ pc[c] = "new" /\ \A d \in Call : ~Resuming(d)
        /\ \A d \in Call \ {c} : pc[d] \in AtRest
    BY <1>3, ResumeCases, AwaitsOthers
  <2> QED
    BY <1>3, <2>1, ResumeCases DEF Alone, Resuming, InResume, AtRest, Calls
<1>4. ASSUME NEW c \in Call, Destroy(c) PROVE Alone'
  <2> SUFFICES ASSUME awaited' PROVE Alone'
    BY DEF Alone
  <2>1. awaited /\ pc[c] = "new" /\ \A d \in Call : ~Resuming(d)
    BY <1>4, DestroyCases, AwaitsOthers
  <2>2. \A d \in Call : ~Resuming(d)'
    BY <1>4, <2>1, DestroyCases DEF Resuming, InResume, Calls
  <2> QED
    BY <1>4, <2>1, <2>2, DestroyCases, BindCases, Names DEF Alone, Calls
<1>5. ASSUME NEW c \in Call, SuspendBound(c), UNCHANGED pingVars PROVE Alone'
  BY <1>5, Names, SuspendBoundCases DEF pingVars, Calls, Alone, AtRest, InResume,
     Resuming
<1>6. ASSUME NEW c \in Call, SuspendClosed(c), UNCHANGED pingVars PROVE Alone'
  BY <1>6, Names DEF SuspendClosed, pingVars, FinishClear, Goto, promiseVars, Calls,
     Alone, AtRest, InResume, Resuming
<1>7. ASSUME NEW c \in Call, SuspendDone(c), UNCHANGED pingVars PROVE Alone'
  BY <1>7, Names DEF SuspendDone, pingVars, Goto, promiseVars, Calls, Alone, AtRest,
     InResume, Resuming
<1>8. ASSUME NEW c \in Call, Rebind(c), UNCHANGED pingVars PROVE Alone'
  <2>1. promise[c] = "pending"
    BY <1>8 DEF Rebind, Pending, InResume
  <2> QED
    BY <1>8, <2>1, Names, RebindCases DEF pingVars, Calls, Closing, Alone, InResume,
       Resuming
<1>9. ASSUME NEW c \in Call, ResumeDone(c), UNCHANGED pingVars PROVE Alone'
  BY <1>9, Names DEF ResumeDone, pingVars, Goto, Calls, Alone, InResume, Resuming
<1>10. ASSUME NEW c \in Call, DestroyClear(c), UNCHANGED pingVars PROVE Alone'
  BY <1>10, Names DEF DestroyClear, pingVars, StartClear, promiseVars, Calls,
     Closing, Alone, InResume, Resuming
<1>11. ASSUME NEW c \in Call, DestroyClosed(c), UNCHANGED pingVars PROVE Alone'
  BY <1>11, Names DEF DestroyClosed, pingVars, FinishClear, Goto, Calls, Closing,
     Alone, InResume, Resuming
<1>12. ASSUME NEW c \in Call, DestroyDone(c), UNCHANGED pingVars PROVE Alone'
  BY <1>12, Names DEF DestroyDone, pingVars, Goto, promiseVars, Calls, Closing,
     Alone, InResume, Resuming
<1>13. ASSUME NEW c \in Call, AfterDestroy(c), UNCHANGED pingVars PROVE Alone'
  BY <1>13, Names DEF AfterDestroy, pingVars, Goto, Calls, Alone, AtRest, InResume,
     Resuming
<1>14. ASSUME NEW c \in Call, Reject(c), UNCHANGED pingVars PROVE Alone'
  BY <1>14, Names DEF Reject, pingVars, Goto, Calls, Alone, AtRest, InResume,
     Resuming
<1>15. CASE DelayedPing
  BY <1>15, Names DEF DelayedPing, Ready, callVars, promiseVars, flagVars, Calls,
     Alone, Resuming
<1>16. ASSUME NEW g \in delayed, DelayedReply(g) PROVE Alone'
  BY <1>16, Names DEF DelayedReply, callVars, promiseVars, flagVars, Calls, Alone,
     Resuming
<1>17. CASE UNCHANGED vars
  BY <1>17, Names DEF vars, callVars, promiseVars, flagVars, pingVars, Calls, Alone,
     Resuming
<1> QED
  BY <1>1, <1>2, <1>3, <1>4, <1>5, <1>6, <1>7, <1>8, <1>9, <1>10, <1>11, <1>12,
     <1>13, <1>14, <1>15, <1>16, <1>17 DEF Next, Proceed


\* Before the first bind there are no sockets.
LEMMA UnboundIsDeaf ==
    ASSUME Calls, Handles, Bindable, binding = None
    PROVE  gen = 0 /\ open = {}
BY DEF Calls, Handles, Bindable

\* Sockets are bound only for a node that may hear of messages again.
LEMMA RefusedStep ==
    ASSUME Calls, Handles, Bindable, Pending, Closing, Numbered, Alone, Refused,
       [Next]_vars
    PROVE  Refused'
<1>1. CASE Bootstrap
  BY <1>1, Names, BindCases DEF Bootstrap, callVars, flagVars, Calls, Handles,
     Bindable, Closing, Refused, InResume, Deaf
<1>2. ASSUME NEW c \in Call, Suspend(c) PROVE Refused'
  <2> SUFFICES ASSUME awaited' PROVE Refused'
    BY DEF Refused
  <2>1. awaited /\ pc[c] = "new" /\ \A d \in Call : ~Resuming(d)
    BY <1>2, AwaitsOthers DEF Suspend
  <2>2. /\ pc' = [pc EXCEPT ![c] = "suspend:bind"] /\ Bind
        /\ UNCHANGED <<shut, destroying, suspended>>
    BY <1>2 DEF Suspend, Goto, flagVars
  <2>3. CASE binding # None
    BY <2>1, <2>2, <2>3, BindCases DEF Refused, Deaf, Calls, Closing
  <2>4. CASE binding = None
    BY <2>1, <2>2, <2>4, BindCases, UnboundIsDeaf, Names DEF Refused, Deaf, Calls,
       Closing, Bindable, InResume
  <2> QED
    BY <2>3, <2>4
<1>3. ASSUME NEW c \in Call, Resume(c) PROVE Refused'
  <2> SUFFICES ASSUME awaited' PROVE Refused'
    BY DEF Refused
  <2>1. awaited /\ pc[c] = "new" /\ \A d \in Call : ~Resuming(d)
    BY <1>3, AwaitsOthers, ResumeCases
  <2>2. UNCHANGED <<shut, promise, destroying, gen, open>>
    BY <1>3, ResumeCases, Zenon
  <2>3. CASE UNCHANGED <<binding, suspended>> /\ pc' = [pc EXCEPT ![c] = "done"]
    BY <2>1, <2>2, <2>3 DEF Refused, Deaf, Calls, Closing
  <2>4. CASE suspended /\ ~destroyed
    <3>1. Deaf' /\ destroying' = None
      BY <2>1, <2>2, <2>4 DEF Refused, Deaf, Closing
    <3> QED
      BY <3>1 DEF Refused
  <2> QED
    BY <1>3, <2>3, <2>4, ResumeCases, Zenon
<1>4. ASSUME NEW c \in Call, Destroy(c) PROVE Refused'
  <2> SUFFICES ASSUME awaited' PROVE Refused'
    BY DEF Refused
  <2>1. awaited /\ pc[c] = "new" /\ \A d \in Call : ~Resuming(d)
    BY <1>4, AwaitsOthers, DestroyCases
  <2>2. UNCHANGED <<shut, suspended>>
    BY <1>4, DestroyCases
  <2>3. CASE /\ destroying = None /\ destroying' = c /\ Bind
             /\ pc' = [pc EXCEPT ![c] = "destroy:bind"]
    <3>1. CASE binding # None
      BY <2>1, <2>2, <2>3, <3>1, BindCases DEF Refused, Deaf, Calls, Closing
    <3>2. CASE binding = None
      BY <2>1, <2>2, <2>3, <3>2, BindCases, UnboundIsDeaf, Names DEF Refused, Deaf,
         Calls, Bindable, InResume
    <3> QED
      BY <3>1, <3>2
  <2>4. CASE /\ pc' = [pc EXCEPT ![c] = "destroy:again"]
             /\ UNCHANGED <<promise, binding, destroying, gen, open, drain>>
    BY <2>1, <2>2, <2>4 DEF Refused, Deaf, Calls, Closing
  <2> QED
    BY <1>4, <2>3, <2>4, DestroyCases
<1>5. ASSUME NEW c \in Call, SuspendBound(c), UNCHANGED pingVars PROVE Refused'
  BY <1>5, Names, SuspendBoundCases DEF pingVars, Calls, Refused, Deaf
<1>6. ASSUME NEW c \in Call, SuspendClosed(c), UNCHANGED pingVars PROVE Refused'
  BY <1>6, Names DEF SuspendClosed, pingVars, FinishClear, Goto, promiseVars,
     flagVars, Calls, Refused, Deaf
<1>7. ASSUME NEW c \in Call, SuspendDone(c), UNCHANGED pingVars PROVE Refused'
  BY <1>7, Names DEF SuspendDone, pingVars, Goto, promiseVars, flagVars, Calls,
     Refused, Deaf
<1>8. ASSUME NEW c \in Call, Rebind(c), UNCHANGED pingVars PROVE Refused'
  <2>1. promise[c] = "pending"
    BY <1>8 DEF Rebind, Pending, InResume
  <2> QED
    BY <1>8, <2>1, Names, RebindCases DEF pingVars, Calls, Alone, Refused, InResume,
       Resuming, Deaf
<1>9. ASSUME NEW c \in Call, ResumeDone(c), UNCHANGED pingVars PROVE Refused'
  BY <1>9, Names DEF ResumeDone, pingVars, Goto, flagVars, Calls, Closing, Alone,
     Refused, InResume, Resuming
<1>10. ASSUME NEW c \in Call, DestroyClear(c), UNCHANGED pingVars PROVE Refused'
  BY <1>10, Names DEF DestroyClear, StartClear, promiseVars, Calls, Closing,
     Refused, Deaf
<1>11. ASSUME NEW c \in Call, DestroyClosed(c), UNCHANGED pingVars PROVE Refused'
  BY <1>11, Names DEF DestroyClosed, FinishClear, Goto, Calls, Closing, Refused,
     Deaf
<1>12. ASSUME NEW c \in Call, DestroyDone(c), UNCHANGED pingVars PROVE Refused'
  BY <1>12, Names DEF DestroyDone, Goto, promiseVars, socketVars, Calls, Closing,
     Refused, Deaf
<1>13. ASSUME NEW c \in Call, AfterDestroy(c), UNCHANGED pingVars PROVE Refused'
  BY <1>13, Names DEF AfterDestroy, pingVars, Goto, flagVars, socketVars, Calls,
     Closing, Alone, Refused, InResume, Resuming, Deaf
<1>14. ASSUME NEW c \in Call, Reject(c), UNCHANGED pingVars PROVE Refused'
  BY <1>14, Names DEF Reject, pingVars, Goto, flagVars, socketVars, Calls, Closing,
     Refused, Deaf
<1>15. CASE DelayedPing
  BY <1>15, Names DEF DelayedPing, Ready, callVars, promiseVars, flagVars, Calls,
     Refused, Deaf
<1>16. ASSUME NEW g \in delayed, DelayedReply(g) PROVE Refused'
  BY <1>16, Names DEF DelayedReply, callVars, promiseVars, flagVars, socketVars,
     Calls, Refused, Deaf
<1>17. CASE UNCHANGED vars
  BY <1>17, Names DEF vars, callVars, promiseVars, flagVars, socketVars, pingVars,
     Calls, Refused, Deaf
<1> QED
  BY <1>1, <1>2, <1>3, <1>4, <1>5, <1>6, <1>7, <1>8, <1>9, <1>10, <1>11, <1>12,
     <1>13, <1>14, <1>15, <1>16, <1>17 DEF Next, Proceed

\* A destroyed node is deaf, or a call that will close its sockets goes on first.
LEMMA PingStep ==
    ASSUME Calls, Closing, Numbered, Pending, Alone, Refused, NoLatePing,
       [Next]_vars
    PROVE  NoLatePing'
<1>1. CASE Bootstrap
  BY <1>1, BindCases DEF Bootstrap, flagVars, Calls, Closing, NoLatePing
<1>2. ASSUME NEW c \in Call, Suspend(c) PROVE NoLatePing'
  BY <1>2, BindCases DEF Suspend, MayCall, Goto, flagVars, Calls, NoLatePing
<1>3. ASSUME NEW c \in Call, Resume(c) PROVE NoLatePing'
  BY <1>3, ResumeCases DEF MayCall, Calls, NoLatePing
<1>4. ASSUME NEW c \in Call, Destroy(c) PROVE NoLatePing'
  BY <1>4, DestroyCases, BindCases DEF MayCall, Calls, NoLatePing
<1>5. ASSUME NEW c \in Call, SuspendBound(c), UNCHANGED pingVars PROVE NoLatePing'
  BY <1>5, SuspendBoundCases DEF pingVars, Calls, NoLatePing
<1>6. ASSUME NEW c \in Call, SuspendClosed(c), UNCHANGED pingVars PROVE NoLatePing'
  BY <1>6 DEF SuspendClosed, pingVars, FinishClear, Goto, flagVars, Calls,
     NoLatePing
<1>7. ASSUME NEW c \in Call, SuspendDone(c), UNCHANGED pingVars PROVE NoLatePing'
  BY <1>7 DEF SuspendDone, pingVars, Goto, flagVars, Calls, NoLatePing
<1>8. ASSUME NEW c \in Call, Rebind(c), UNCHANGED pingVars PROVE NoLatePing'
  <2>1. promise[c] = "pending"
    BY <1>8 DEF Rebind, Pending, InResume
  <2> QED
    BY <1>8, <2>1, RebindCases DEF pingVars, Calls, NoLatePing
<1>9. ASSUME NEW c \in Call, ResumeDone(c), UNCHANGED pingVars PROVE NoLatePing'
  BY <1>9 DEF ResumeDone, pingVars, Goto, flagVars, Calls, NoLatePing
<1>10. ASSUME NEW c \in Call, DestroyClear(c), UNCHANGED pingVars PROVE NoLatePing'
  BY <1>10 DEF DestroyClear, pingVars, StartClear, flagVars, Calls, NoLatePing
<1>11. ASSUME NEW c \in Call, DestroyClosed(c), UNCHANGED pingVars PROVE NoLatePing'
  BY <1>11 DEF DestroyClosed, pingVars, FinishClear, Goto, flagVars, Calls,
     NoLatePing
<1>12. ASSUME NEW c \in Call, DestroyDone(c), UNCHANGED pingVars PROVE NoLatePing'
  BY <1>12 DEF DestroyDone, pingVars, Goto, flagVars, Calls, NoLatePing
<1>13. ASSUME NEW c \in Call, AfterDestroy(c), UNCHANGED pingVars PROVE NoLatePing'
  BY <1>13 DEF AfterDestroy, pingVars, Goto, flagVars, Calls, NoLatePing
<1>14. ASSUME NEW c \in Call, Reject(c), UNCHANGED pingVars PROVE NoLatePing'
  BY <1>14 DEF Reject, pingVars, Goto, flagVars, Calls, NoLatePing
<1>15. CASE DelayedPing
  BY <1>15 DEF DelayedPing, Ready, flagVars, Calls, Closing, Alone, Refused,
     NoLatePing, Deaf
<1>16. ASSUME NEW g \in delayed, DelayedReply(g) PROVE NoLatePing'
  BY <1>16 DEF DelayedReply, flagVars, Calls, NoLatePing
<1>17. CASE UNCHANGED vars
  BY <1>17 DEF vars, flagVars, pingVars, Calls, NoLatePing
<1> QED
  BY <1>1, <1>2, <1>3, <1>4, <1>5, <1>6, <1>7, <1>8, <1>9, <1>10, <1>11, <1>12,
     <1>13, <1>14, <1>15, <1>16, <1>17 DEF Next, Proceed

\* A bind that failed is not forgotten.
LEMMA FailureStays ==
    ASSUME Calls, Bindable, Pending, Closing, BindFailed, [Next]_vars
    PROVE  BindFailed'
<1>1. CASE Bootstrap
  BY <1>1, Names, BindCases DEF Bootstrap, Calls, Bindable, BindFailed
<1>2. ASSUME NEW c \in Call, Suspend(c) PROVE BindFailed'
  BY <1>2, Names, BindCases DEF Suspend, MayCall, Goto, Calls, Bindable, BindFailed
<1>3. ASSUME NEW c \in Call, Resume(c) PROVE BindFailed'
  BY <1>3, Names, ResumeCases DEF MayCall, Calls, BindFailed
<1>4. ASSUME NEW c \in Call, Destroy(c) PROVE BindFailed'
  BY <1>4, Names, DestroyCases, BindCases DEF MayCall, Calls, Bindable, BindFailed
<1>5. ASSUME NEW c \in Call, SuspendBound(c), UNCHANGED pingVars PROVE BindFailed'
  BY <1>5, Names, SuspendBoundCases DEF Calls, BindFailed
<1>6. ASSUME NEW c \in Call, SuspendClosed(c), UNCHANGED pingVars PROVE BindFailed'
  BY <1>6, Names DEF SuspendClosed, FinishClear, Goto, promiseVars, Calls,
     BindFailed
<1>7. ASSUME NEW c \in Call, SuspendDone(c), UNCHANGED pingVars PROVE BindFailed'
  BY <1>7, Names DEF SuspendDone, Goto, promiseVars, Calls, BindFailed
<1>8. ASSUME NEW c \in Call, Rebind(c), UNCHANGED pingVars PROVE BindFailed'
  <2>1. promise[c] = "pending"
    BY <1>8 DEF Rebind, Pending, InResume
  <2> QED
    BY <1>8, <2>1, Names, RebindCases DEF Calls, BindFailed
<1>9. ASSUME NEW c \in Call, ResumeDone(c), UNCHANGED pingVars PROVE BindFailed'
  BY <1>9, Names DEF ResumeDone, Goto, Calls, Pending, BindFailed, InResume
<1>10. ASSUME NEW c \in Call, DestroyClear(c), UNCHANGED pingVars PROVE BindFailed'
  BY <1>10, Names DEF DestroyClear, StartClear, promiseVars, Calls, BindFailed
<1>11. ASSUME NEW c \in Call, DestroyClosed(c), UNCHANGED pingVars PROVE BindFailed'
  BY <1>11, Names DEF DestroyClosed, FinishClear, Goto, Calls, Pending, BindFailed
<1>12. ASSUME NEW c \in Call, DestroyDone(c), UNCHANGED pingVars PROVE BindFailed'
  BY <1>12, Names DEF DestroyDone, Goto, promiseVars, Calls, BindFailed
<1>13. ASSUME NEW c \in Call, AfterDestroy(c), UNCHANGED pingVars PROVE BindFailed'
  BY <1>13, Names DEF AfterDestroy, Goto, Calls, Pending, BindFailed, InResume
<1>14. ASSUME NEW c \in Call, Reject(c), UNCHANGED pingVars PROVE BindFailed'
  BY <1>14, Names DEF Reject, Goto, Calls, BindFailed
<1>15. CASE DelayedPing
  BY <1>15, Names DEF DelayedPing, Ready, promiseVars, Calls, BindFailed
<1>16. ASSUME NEW g \in delayed, DelayedReply(g) PROVE BindFailed'
  BY <1>16, Names DEF DelayedReply, promiseVars, Calls, BindFailed
<1>17. CASE UNCHANGED vars
  BY <1>17, Names DEF vars, promiseVars, Calls, BindFailed
<1> QED
  BY <1>1, <1>2, <1>3, <1>4, <1>5, <1>6, <1>7, <1>8, <1>9, <1>10, <1>11, <1>12,
     <1>13, <1>14, <1>15, <1>16, <1>17 DEF Next, Proceed


\* A first bind that succeeds leaves new sockets, and finds nobody at work.
LEMMA BindSucceeds ==
    ASSUME Calls, Handles, Bindable, Closing, Bind, ~BindFailed'
    PROVE  \/ binding # None /\ UNCHANGED <<binding, gen, open, drain>>
           \/ /\ binding = None /\ binding' # None
              /\ ~suspended /\ ~destroyed /\ \A c \in Call : ~Resuming(c)
              /\ open' = {gen'} /\ drain'
<1>1. CASE binding # None
  BY <1>1, BindCases
<1>2. CASE binding = None
  <2>1. ~suspended /\ ~destroyed /\ \A c \in Call : ~Resuming(c)
    BY <1>2 DEF Bindable, Closing, Resuming
  <2>2. promise' # [promise EXCEPT ![First] = "rejected"]
    BY Names DEF BindFailed, Calls
  <2> QED
    BY <1>2, <2>1, <2>2, BindCases, UnboundIsDeaf, Names
<1> QED
  BY <1>1, <1>2

\* Each step of an awaited program in which no bind fails leaves what it should.
LEMMA KeepsStep ==
    ASSUME Calls, Handles, Bindable, Pending, Intervals, Closing, Numbered, Alone,
       Keeps, [Next]_vars, awaited, awaited', ~BindFailed, ~BindFailed'
    PROVE  Keeps'
<1>1. CASE Bootstrap
  <2>1. Bind /\ UNCHANGED <<pc, shut, destroying, destroyed, suspended, tick, ticks, watcher,
                       watchers>>
    BY <1>1 DEF Bootstrap, callVars, flagVars, handleVars
  <2> QED
    BY <2>1, BindSucceeds DEF Keeps, NewestOnly, Sleeps, Ends, Works, Resuming,
       InResume
<1>2. ASSUME NEW c \in Call, Suspend(c) PROVE Keeps'
  <2>1. /\ Bind /\ pc' = [pc EXCEPT ![c] = "suspend:bind"] /\ pc[c] = "new"
        /\ UNCHANGED <<shut, destroying, destroyed, suspended, tick, ticks, watcher, watchers>>
    BY <1>2 DEF Suspend, MayCall, Goto, flagVars, handleVars
  <2>2. \A d \in Call : pc'[d] = IF d = c THEN "suspend:bind" ELSE pc[d]
    BY <2>1 DEF Calls
  <2>3. NewestOnly' /\ Sleeps'
    BY <2>1, <2>2, BindSucceeds DEF Keeps, NewestOnly, Sleeps
  <2>4. Ends'
    BY <2>1, <2>2, BindSucceeds DEF Keeps, Ends, Closing
  <2>5. Works'
    BY <2>1, <2>2, BindSucceeds DEF Keeps, Works, Resuming, InResume
  <2> QED
    BY <2>3, <2>4, <2>5 DEF Keeps
<1>3. ASSUME NEW c \in Call, Resume(c) PROVE Keeps'
  <2>1. pc[c] = "new" /\ \A d \in Call \ {c} : pc[d] \in AtRest
    BY <1>3, ResumeCases, AwaitsOthers
  <2>2. UNCHANGED <<shut, destroying, destroyed, gen, open, drain, watcher, watchers>>
    BY <1>3, ResumeCases, Zenon
  <2>3. CASE /\ pc' = [pc EXCEPT ![c] = "done"]
             /\ UNCHANGED <<binding, suspended, tick, ticks>>
    BY <2>1, <2>2, <2>3 DEF Keeps, NewestOnly, Sleeps, Ends, Works, Calls, Closing
  <2>4. CASE /\ suspended /\ ~destroyed /\ ~suspended'
             /\ pc' = [pc EXCEPT ![c] = "resume:prev"]
             /\ tick' = tick + 1 /\ ticks' = ticks \cup {tick + 1}
    <3>1. open = {} /\ watchers = {} /\ ticks = {}
      BY <2>1, <2>4 DEF Keeps, Sleeps, Intervals, AtRest
    <3>2. pc'[c] = "resume:prev" /\ \A d \in Call \ {c} : pc'[d] \in AtRest
      BY <2>1, <2>4 DEF Calls
    <3>3. NewestOnly' /\ Sleeps' /\ Ends'
      BY <2>2, <2>4, <3>1, <3>2 DEF NewestOnly, Sleeps, Ends, AtRest
    <3>4. Works'
      BY <2>2, <2>4, <3>1, <3>2 DEF Works
    <3> QED
      BY <3>3, <3>4 DEF Keeps
  <2> QED
    BY <1>3, <2>3, <2>4, ResumeCases, Zenon
<1>4. ASSUME NEW c \in Call, Destroy(c) PROVE Keeps'
  <2>1. /\ UNCHANGED <<shut, suspended, tick, watcher, watchers>> /\ pc[c] = "new"
        /\ destroyed' /\ ticks' = ticks \ {tick}
    BY <1>4, DestroyCases DEF MayCall
  <2>2. ticks' = {}
    BY <2>1 DEF Intervals
  <2>3. CASE /\ destroying' = c /\ Bind /\ pc' = [pc EXCEPT ![c] = "destroy:bind"]
    <3>1. \A d \in Call : pc'[d] = IF d = c THEN "destroy:bind" ELSE pc[d]
      BY <2>3 DEF Calls
    <3>2. NewestOnly' /\ Sleeps'
      BY <2>1, <2>3, <3>1, BindSucceeds DEF Keeps, NewestOnly, Sleeps
    <3>3. Ends' /\ Works'
      BY <2>1, <2>2, <2>3, <3>1 DEF Ends, Works
    <3> QED
      BY <3>2, <3>3 DEF Keeps
  <2>4. CASE /\ destroying # None /\ pc' = [pc EXCEPT ![c] = "destroy:again"]
             /\ UNCHANGED <<destroying, gen, open, drain>>
    BY <2>1, <2>2, <2>4 DEF Keeps, NewestOnly, Sleeps, Ends, Works, Calls, Closing
  <2> QED
    BY <1>4, <2>3, <2>4, DestroyCases
<1>5. ASSUME NEW c \in Call, SuspendBound(c), UNCHANGED pingVars PROVE Keeps'
  <2>1. /\ pc[c] = "suspend:bind"
        /\ UNCHANGED <<binding, destroying, destroyed, gen, open, tick, watcher, watchers>>
    BY <1>5, SuspendBoundCases, Zenon
  <2>2. CASE /\ pc' = [pc EXCEPT ![c] = "done"]
             /\ UNCHANGED <<shut, suspended, drain, ticks>>
    BY <2>1, <2>2 DEF Keeps, NewestOnly, Sleeps, Ends, Works, Calls, Closing
  <2>3. CASE /\ ~suspended /\ ~destroyed /\ suspended' /\ ~drain'
             /\ pc' = [pc EXCEPT ![c] = "suspend:close"]
             /\ shut' = [shut EXCEPT ![c] = gen]
    BY <2>1, <2>3 DEF Keeps, NewestOnly, Sleeps, Ends, Works, Calls
  <2> QED
    BY <1>5, <2>2, <2>3, SuspendBoundCases, Zenon
<1>6. ASSUME NEW c \in Call, SuspendClosed(c), UNCHANGED pingVars PROVE Keeps'
  BY <1>6, Names DEF SuspendClosed, FinishClear, Goto, flagVars, Calls, Keeps,
     NewestOnly, Sleeps, Ends, Works
<1>7. ASSUME NEW c \in Call, SuspendDone(c), UNCHANGED pingVars PROVE Keeps'
  BY <1>7, Names DEF SuspendDone, Goto, promiseVars, flagVars, handleVars, Calls,
     Closing, Keeps, NewestOnly, Sleeps, Ends, Works
<1>8. ASSUME NEW c \in Call, Rebind(c), UNCHANGED pingVars PROVE Keeps'
  <2>1. promise[c] = "pending"
    BY <1>8 DEF Rebind, Pending, InResume
  <2>2. pc[c] = "resume:prev" /\ UNCHANGED <<binding, suspended, destroyed, tick, ticks, watcher, watchers>>
    BY <1>8, <2>1, RebindCases, Zenon
  <2>3. /\ ~suspended /\ ~destroyed /\ destroying = None /\ binding = c
        /\ \A d \in Call \ {c} : pc[d] \in AtRest
    BY <2>2 DEF Alone, Resuming, InResume, Closing
  <2>4. promise' # [promise EXCEPT ![c] = "rejected"]
    BY Names DEF BindFailed, Calls
  <2>5. /\ pc' = [pc EXCEPT ![c] = "resume:bound"]
        /\ gen' = gen + 1 /\ open' = open \cup {gen + 1} /\ drain'
    BY <1>8, <2>1, <2>3, <2>4, RebindCases, Zenon
  <2>6. pc'[c] = "resume:bound" /\ \A d \in Call \ {c} : pc'[d] \in AtRest
    BY <2>3, <2>5 DEF Calls
  <2>7. open = {} /\ watchers = {} /\ ticks = {tick}
    BY <2>2, <2>3 DEF Keeps, Works
  <2>8. NewestOnly' /\ Sleeps' /\ Ends'
    BY <2>2, <2>3, <2>5, <2>6, <2>7 DEF NewestOnly, Sleeps, Ends, AtRest
  <2>9. Works'
    BY <2>2, <2>3, <2>5, <2>6, <2>7, Names DEF Works, AtRest
  <2> QED
    BY <2>8, <2>9 DEF Keeps
<1>9. ASSUME NEW c \in Call, ResumeDone(c), UNCHANGED pingVars PROVE Keeps'
  BY <1>9, Names DEF ResumeDone, Goto, flagVars, socketVars, Calls, Alone, Keeps,
     InResume, Resuming, NewestOnly, Sleeps, Ends, Works
<1>10. ASSUME NEW c \in Call, DestroyClear(c), UNCHANGED pingVars PROVE Keeps'
  BY <1>10, Names DEF DestroyClear, StartClear, promiseVars, flagVars, handleVars,
     Calls, Closing, Keeps, NewestOnly, Sleeps, Ends, Works
<1>11. ASSUME NEW c \in Call, DestroyClosed(c), UNCHANGED pingVars PROVE Keeps'
  <2>1. /\ pc[c] = "destroy:close" /\ pc' = [pc EXCEPT ![c] = "destroy:closed"]
        /\ open' = open \ {shut[c]} /\ watchers' = watchers \ {watcher}
        /\ UNCHANGED <<shut, binding, destroying, suspended, destroyed, gen, drain, tick, ticks,
                       watcher>>
    BY <1>11 DEF DestroyClosed, FinishClear, Goto, flagVars
  <2>2. destroyed /\ shut[c] = gen
    BY <2>1, Names DEF Closing
  <2>3. open' = {} /\ watchers' = {}
    BY <2>1, <2>2 DEF Keeps, NewestOnly
  <2> QED
    BY <2>1, <2>2, <2>3 DEF Keeps, NewestOnly, Sleeps, Ends, Works, Calls
<1>12. ASSUME NEW c \in Call, DestroyDone(c), UNCHANGED pingVars PROVE Keeps'
  BY <1>12, Names DEF DestroyDone, Goto, flagVars, socketVars, Calls, Closing,
     Keeps, NewestOnly, Sleeps, Ends, Works
<1>13. ASSUME NEW c \in Call, AfterDestroy(c), UNCHANGED pingVars PROVE Keeps'
  BY <1>13, Names DEF AfterDestroy, Goto, flagVars, socketVars, handleVars, Calls,
     Closing, Keeps, NewestOnly, Sleeps, Ends, Works
<1>14. ASSUME NEW c \in Call, Reject(c), UNCHANGED pingVars PROVE Keeps'
  BY <1>14 DEF Reject, Calls, BindFailed
<1>15. CASE DelayedPing
  BY <1>15, Names DEF DelayedPing, Ready, callVars, promiseVars, flagVars,
     socketVars, handleVars, Calls, Keeps, NewestOnly, Sleeps, Ends, Works
<1>16. ASSUME NEW g \in delayed, DelayedReply(g) PROVE Keeps'
  BY <1>16, Names DEF DelayedReply, callVars, promiseVars, flagVars, socketVars,
     handleVars, Calls, Keeps, NewestOnly, Sleeps, Ends, Works
<1>17. CASE UNCHANGED vars
  BY <1>17, Names DEF vars, callVars, promiseVars, flagVars, socketVars, handleVars,
     Calls, Keeps, NewestOnly, Sleeps, Ends, Works
<1> QED
  BY <1>1, <1>2, <1>3, <1>4, <1>5, <1>6, <1>7, <1>8, <1>9, <1>10, <1>11, <1>12,
     <1>13, <1>14, <1>15, <1>16, <1>17 DEF Next, Proceed


\* Unless a bind fails, or the program stops awaiting its calls.
LEMMA KeptStep ==
    ASSUME Calls, Handles, Bindable, Pending, Intervals, Closing, Numbered, Alone, Kept,
           [Next]_vars
    PROVE  Kept'
<1> SUFFICES ASSUME awaited', ~BindFailed' PROVE Keeps'
  BY DEF Kept
<1>1. awaited
  BY Zenon DEF Next, Bootstrap, Suspend, Resume, Destroy, MayCall, Proceed,
     DelayedPing, DelayedReply, pingVars, vars
<1>2. ~BindFailed
  BY FailureStays
<1> QED
  BY <1>1, <1>2, KeepsStep DEF Kept

-----------------------------------------------------------------------------
(* The theorems. *)

\* The constructor leaves what the invariants say.
LEMMA InvInit == Init => IInv /\ AwaitedInv
<1> SUFFICES ASSUME Init PROVE IInv /\ AwaitedInv
  OBVIOUS
<1>1. /\ pc = [c \in Call |-> "new"] /\ shut = [c \in Call |-> 0]
      /\ promise = [p \in Promise |-> "pending"]
      /\ binding = None /\ destroying = None /\ ~destroyed /\ ~suspended /\ ~ioSuspended
      /\ gen = 0 /\ open = {} /\ ~drain /\ tick = 1 /\ ticks = {1}
      /\ watcher = 1 /\ watchers = {1} /\ closes = 0 /\ delayed = {}
  BY DEF Init
<1>2. TypeOK
  <2>1. Flags
    BY Zenon DEF Init, Flags
  <2>2. Calls
    BY Names DEF Init, Calls, AtRest
  <2>3. Handles
    BY <1>1 DEF Handles
  <2> QED
    BY <2>1, <2>2, <2>3, Parts
<1>3. Bindable /\ Pending /\ Intervals /\ Numbered
  BY <1>1, Names DEF Bindable, Pending, Intervals, Numbered, InResume
<1>4. Closing
  BY <1>1, Names DEF Closing
<1>5. Alone /\ Refused /\ NoLatePing
  BY <1>1, Names DEF Alone, Refused, NoLatePing, Resuming, InResume
<1>6. Kept
  BY <1>1 DEF Kept, Keeps, NewestOnly, Sleeps, Ends, Works
<1> QED
  BY <1>2, <1>3, <1>4, <1>5, <1>6 DEF IInv, AwaitedInv

\* Every step of any program keeps the first.
LEMMA InvStep == IInv /\ [Next]_vars => IInv'
<1> SUFFICES ASSUME IInv, [Next]_vars PROVE IInv'
  OBVIOUS
<1>1. Flags /\ Calls /\ Handles /\ Bindable /\ Pending /\ Intervals /\ Closing /\ Numbered
  BY Parts DEF IInv
<1>2. TypeOK'
  <2>1. Flags' /\ Calls' /\ Handles'
    BY <1>1, FlagsStep, CallsStep, HandlesStep
  <2> QED
    BY <2>1 DEF TypeOK, Flags, Calls, Handles
<1> QED
  BY <1>1, <1>2, BindableStep, PendingStep, IntervalsStep, ClosingStep, NumberedStep
     DEF IInv

\* Every step of an awaited program keeps the second.
LEMMA AwaitedStep == IInv /\ AwaitedInv /\ [Next]_vars => AwaitedInv'
<1> SUFFICES ASSUME IInv, AwaitedInv, [Next]_vars PROVE AwaitedInv'
  OBVIOUS
<1>1. Flags /\ Calls /\ Handles /\ Bindable /\ Pending /\ Intervals /\ Closing /\ Numbered
  BY Parts DEF IInv
<1> QED
  BY <1>1, AloneStep, RefusedStep, PingStep, KeptStep DEF AwaitedInv

\* However calls of suspend(), resume() and destroy() overlap, what the node keeps of
\* them is of its type.
THEOREM TypeCorrectness == Spec => []TypeOK
<1>1. IInv => TypeOK
  BY DEF IInv
<1> QED
  BY <1>1, InvInit, InvStep, PTL DEF Spec

\* The invariant holds of every program.
THEOREM Invariance == Spec => [](IInv /\ AwaitedInv)
BY InvInit, InvStep, AwaitedStep, PTL DEF Spec

\* 'close' is emitted once, however many calls of destroy() overlap each other and
\* anything else, and after it nothing is bound or drains.
THEOREM ClosesOnce == Spec => []CloseOnce
<1>1. IInv => CloseOnce
  BY DEF IInv, Closing, CloseOnce
<1> QED
  BY <1>1, Invariance, PTL

\* However calls overlap and whichever binds fail, the node never ticks twice, and
\* drains only while its sockets are open.
THEOREM IntervalsAreKept == Spec => []NoStrayInterval
<1>1. IInv => NoStrayInterval
  <2> SUFFICES ASSUME IInv PROVE NoStrayInterval
    OBVIOUS
  <2>1. ticks = {} \/ ticks = {tick}
    BY DEF IInv, Intervals
  <2>2. Cardinality(ticks) <= 1
    <3>1. Cardinality({}) = 0 /\ Cardinality({tick}) = 1
      BY FS_EmptySet, FS_Singleton
    <3> QED
      BY <2>1, <3>1
  <2> QED
    BY <2>2 DEF IInv, Intervals, NoStrayInterval
<1> QED
  BY <1>1, Invariance, PTL

\* In a program that awaits its calls no timer of a delayed ping is left, or set
\* again, from destroy() on.
THEOREM PingsEnd == Spec => []NoLatePing
<1>1. AwaitedInv => NoLatePing
  BY DEF AwaitedInv
<1> QED
  BY <1>1, Invariance, PTL

\* In such a program, when no bind fails, a node at rest is as the last calls asked.
THEOREM RestsAsAsked == Spec => []AtRestAsAsked
<1>1. IInv /\ AwaitedInv => AtRestAsAsked
  <2> SUFFICES ASSUME IInv, AwaitedInv, Settled
               PROVE  IF destroyed \/ suspended
                      THEN open = {} /\ ~drain /\ ticks = {} /\ watchers = {}
                      ELSE /\ open = {gen} /\ drain /\ ticks = {tick}
                           /\ watchers = {watcher} /\ ~ioSuspended
    BY DEF AtRestAsAsked
  <2>1. /\ binding # None /\ awaited /\ ~BindFailed
        /\ \A c \in Call : pc[c] \in {"new", "done", "failed"}
    BY DEF Settled, AtRest
  <2>2. Calls /\ Bindable /\ Intervals /\ Closing /\ Refused /\ Keeps
    BY <2>1, Parts DEF IInv, AwaitedInv, Kept
  <2>3. CASE destroyed
    <3>1. destroying \in Call /\ binding \in Promise
      BY <2>1, <2>2, <2>3 DEF Closing, Calls
    <3>2. pc[destroying] # "failed"
      BY <2>1, <2>2, <3>1, Names DEF Refused, BindFailed
    <3>3. pc[destroying] = "done"
      BY <2>1, <3>1, <3>2, <2>2, <2>3 DEF Closing
    <3> QED
      BY <2>2, <2>3, <3>1, <3>3, Names DEF Closing, Keeps, Ends
  <2>4. CASE ~destroyed /\ suspended
    BY <2>1, <2>2, <2>4 DEF Keeps, Sleeps, Intervals
  <2>5. CASE ~destroyed /\ ~suspended
    BY <2>1, <2>2, <2>5 DEF Keeps, Works, Bindable
  <2> QED
    BY <2>3, <2>4, <2>5
<1> QED
  BY <1>1, Invariance, PTL
=============================================================================
