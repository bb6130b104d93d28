------------------------------- MODULE Health -------------------------------
(***************************************************************************)
(* lib/health.js: the ring of the last four readings of the request        *)
(* counters, and the status that index.js publishes from it.               *)
(*                                                                         *)
(* The counters only grow; TLC runs use View, which keeps what they differ *)
(* by from the newest reading, the only thing an update looks at.          *)
(***************************************************************************)
EXTENDS Integers, Sequences

CONSTANTS
    Window,       \* MAX_HEALTH_WINDOW, 4 in the code
    Threshold,    \* IDLE_THRESHOLD, 4 in the code
    MaxPerTick    \* bound: requests that settle between two updates

ASSUME HealthAssumption ==
    Window = 4 /\ Threshold \in Nat \ {0} /\ MaxPerTick \in Nat \ {0}

VARIABLES
    responses, timeouts,   \* dht.stats.requests
    ring,                  \* _window: a reading, or None where nothing was put
    head,                  \* _head
    degradedTicks, healthyTicks,
    online, degraded,      \* of the health object
    dhtOnline, dhtDegraded \* of the DHT node

healthVars == <<ring, head, degradedTicks, healthyTicks, online, degraded>>
dhtVars == <<dhtOnline, dhtDegraded>>
vars == <<responses, timeouts, healthVars, dhtVars>>

Slots == 0..Window - 1
Verdict == {"none", "good", "bad"}
None == [responses |-> 0, timeouts |-> 0, verdict |-> "empty"]

Empty == [s \in Slots |-> None]

Init ==
    /\ responses = 0 /\ timeouts = 0
    /\ ring = Empty /\ head = -1
    /\ degradedTicks = 0 /\ healthyTicks = 0
    /\ online = TRUE /\ degraded = FALSE
    /\ dhtOnline = TRUE /\ dhtDegraded = FALSE

-----------------------------------------------------------------------------
\* What settled since the newest reading.
Since == IF head = -1 THEN 0
         ELSE responses - ring[head].responses + timeouts - ring[head].timeouts

Response ==
    /\ Since < MaxPerTick
    /\ responses' = responses + 1
    /\ UNCHANGED <<timeouts, healthVars, dhtVars>>

Timeout ==
    /\ Since < MaxPerTick
    /\ timeouts' = timeouts + 1
    /\ UNCHANGED <<responses, healthVars, dhtVars>>

\* Mutation: _online() returns early whenever the node is online.
PublishStuck(isOnline, isDegraded) ==
    IF isOnline = dhtOnline /\ (isDegraded => dhtDegraded)
    THEN UNCHANGED dhtVars
    ELSE /\ dhtOnline' = (isOnline \/ isDegraded)
         /\ dhtDegraded' = isDegraded

\* DHT._online(), _degraded() and _offline(): publish a status unless it is the
\* one already published.
Publish(isOnline, isDegraded) ==
    IF \/ isOnline /\ ~isDegraded /\ dhtOnline /\ ~dhtDegraded
       \/ isDegraded /\ dhtDegraded
       \/ ~isOnline /\ ~isDegraded /\ ~dhtOnline
    THEN UNCHANGED dhtVars
    ELSE /\ dhtOnline' = (isOnline \/ isDegraded)
         /\ dhtDegraded' = isDegraded

\* Mutation: the counters are not reset.
ResetRing ==
    /\ ring' = Empty /\ head' = -1
    /\ online' = TRUE /\ degraded' = FALSE
    /\ Publish(TRUE, FALSE)
    /\ UNCHANGED <<responses, timeouts, degradedTicks, healthyTicks>>

\* reset(), which _onwakeup() calls.
Reset ==
    /\ ring' = Empty /\ head' = -1
    /\ degradedTicks' = 0 /\ healthyTicks' = 0
    /\ online' = TRUE /\ degraded' = FALSE
    /\ Publish(TRUE, FALSE)
    /\ UNCHANGED <<responses, timeouts>>

\* There are too few readings to judge the one put at new.
Cold(new) == new < Window - 1 /\ ring[Window - 1] = None

\* update(), once per tick: the oldest reading gives way to a new one.
Update ==
    LET new     == (head + 1) % Window
        oldest  == ring[new].verdict
        known   == head # -1
        got     == IF known THEN responses - ring[head].responses ELSE 0
        lost    == IF known THEN timeouts - ring[head].timeouts ELSE 0
        idle    == got + lost < Threshold
        judged  == ~Cold(new) /\ ~idle
        bad     == lost > got
        verdict == IF ~judged THEN "none" ELSE IF bad THEN "bad" ELSE "good"
        worse   == degradedTicks - (IF oldest = "bad" THEN 1 ELSE 0)
        better  == healthyTicks - (IF oldest = "good" THEN 1 ELSE 0)
    IN  /\ head' = new
        /\ ring' = [ring EXCEPT ![new] = [responses |-> responses, timeouts |-> timeouts,
                                          verdict |-> verdict]]
        /\ degradedTicks' = IF verdict = "bad" THEN worse + 1 ELSE worse
        /\ healthyTicks' = IF verdict = "good" THEN better + 1 ELSE better
        /\ IF judged
           THEN /\ online' = (got > 0)
                /\ degraded' = IF ~online' \/ healthyTicks' = Window THEN FALSE
                               ELSE IF degradedTicks' = Window THEN TRUE
                               ELSE degraded
                /\ Publish(online', degraded')
           ELSE UNCHANGED <<online, degraded, dhtVars>>
        /\ UNCHANGED <<responses, timeouts>>

Next == Response \/ Timeout \/ Update \/ Reset

Spec == Init /\ [][Next]_vars

-----------------------------------------------------------------------------
(* Properties. *)

One(p) == IF p THEN 1 ELSE 0
Count(v) == One(ring[0].verdict = v) + One(ring[1].verdict = v)
            + One(ring[2].verdict = v) + One(ring[3].verdict = v)

\* The two counters that are kept by adding the newest and taking off the
\* overwritten reading always count the verdicts in the ring.
TicksCountVerdicts ==
    degradedTicks = Count("bad") /\ healthyTicks = Count("good")

\* The readings in the ring, and their verdicts in the order they were put there.
Filled == Count("none") + Count("good") + Count("bad")
Recent == [i \in 1..Filled |-> ring[(head - Filled + i) % Window].verdict]

\* The node as others see it: what it says of itself is mapped, not what health
\* keeps.
Contract == INSTANCE HealthContract WITH
    recent <- Recent,
    online <- dhtOnline,
    degraded <- dhtDegraded

\* The ring implements a plain window of verdicts with hysteresis, and the status
\* the node publishes follows it through the early returns of _online(),
\* _degraded() and _offline(), in every order of going offline, degraded and back.
ContractSpec == Contract!Spec

\* Enough to tell behaviours apart: the counters count from the newest reading.
View ==
    <<IF head = -1 THEN 0 ELSE responses - ring[head].responses,
      IF head = -1 THEN 0 ELSE timeouts - ring[head].timeouts,
      [s \in Slots |-> ring[s].verdict], head, degradedTicks, healthyTicks,
      online, degraded, dhtOnline, dhtDegraded>>
=============================================================================
