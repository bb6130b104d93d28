---------------------------- MODULE NetworkState ----------------------------
(***************************************************************************)
(* How a node finds out what it is to others (index.js): _bootstrap(), the *)
(* NAT samples, _updateNetworkState() with the firewall probe it awaits,   *)
(* _onwakeup(), and the ticks that decide when to try.                     *)
(*                                                                         *)
(* _updateNetworkState() is a process: it captures the address, awaits the *)
(* probe, and goes on with whatever the state has become.  One call is     *)
(* made by _bootstrap(), the others by ticks, which do not await them.     *)
(*                                                                         *)
(* Abstracted: the samples behind a NatSampler (it may show any address    *)
(* after any message), the content of the routing table (module            *)
(* RoutingTable; here a number of nodes to ask), the bootstrap query (it   *)
(* lasts any time), and fields of io that always change with those of dht. *)
(***************************************************************************)
EXTENDS Naturals, FiniteSets

CONSTANTS
    Host, NoHost,    \* public hosts; null
    Port,            \* public ports
    ServerPort,      \* the local port of the server socket
    Ticker,          \* bound: the calls by ticks that may be under way
    StableTicks,     \* STABLE_TICKS (240 in the code)
    MoreStableTicks, \* MORE_STABLE_TICKS (720 in the code)
    ProbeNodes,      \* how many nodes the probe asks (5 in the code)
    ProbeQuorum,     \* how many of them must answer (3 in the code)
    Bootstrappers,   \* the number of bootstrap nodes configured
    MaxWakeups       \* bound: how often the computer sleeps or is resumed

ASSUME NetworkStateAssumption ==
    /\ NoHost \notin Host
    /\ Port \subseteq Nat \ {0} /\ ServerPort \in Port
    /\ "bootstrap" \notin Ticker
    /\ StableTicks \in Nat \ {0} /\ MoreStableTicks \in Nat /\ MoreStableTicks > 1
    /\ ProbeNodes \in Nat \ {0} /\ ProbeQuorum \in 1..ProbeNodes
    /\ Bootstrappers \in Nat /\ MaxWakeups \in Nat

VARIABLES
    kind,        \* the options ephemeral and adaptive, as one of Kind
    ephemeral,   \* dht.ephemeral, io.ephemeral
    firewalled,  \* dht.firewalled, io.firewalled
    nat,         \* dht._nat: what host and port it shows
    own,         \* dht.table.id: the address it is made from
    stable,      \* dht._stableTicks
    lastHost,    \* dht._lastHost
    boot,        \* _bootstrap(): where it is, and its variables
    update,      \* the calls of _updateNetworkState() that await
    destroyed,   \* dht.destroyed
    wakeups,     \* how often _onwakeup() ran
    owed,        \* ticks that must still pass before the node may count as stable
    steady       \* the network has shown one address and lost no probe so far

natVars == <<nat, own>>
identityVars == <<kind, ephemeral, firewalled, natVars>>
tickVars == <<stable, lastHost, owed, wakeups>>
vars == <<identityVars, tickVars, boot, update, destroyed, steady>>

Kind == {"adaptive", "ephemeral", "forced"}
Caller == Ticker \cup {"bootstrap"}

Unknown == [host |-> NoHost, port |-> 0]
Address == [host : Host, port : Port]
Shown == {Unknown} \cup [host : Host, port : Port \cup {0}]

\* A call that is not under way.
Idle == [pc |-> "idle", only |-> FALSE, addr |-> Unknown, asked |-> 0,
         missing |-> 0, pongs |-> 0, earned |-> FALSE]

Init ==
    /\ kind \in Kind
    /\ ephemeral = TRUE
    /\ firewalled \in BOOLEAN
    /\ nat = Unknown /\ own = Unknown          \* the id is random at first
    /\ stable = IF kind = "adaptive" THEN StableTicks ELSE 0
    /\ lastHost = NoHost
    /\ \E quick \in BOOLEAN :
          boot = [pc |-> "query", round |-> 0,
                  ping |-> IF firewalled /\ quick /\ kind # "forced" THEN "due"
                           ELSE "never"]
    /\ update = [c \in Caller |-> Idle]
    /\ destroyed = FALSE
    /\ wakeups = 0 /\ owed = stable
    /\ steady = TRUE

bootstrapped == boot.pc = "done"
onlyFirewall(c) == c = "bootstrap" /\ kind # "forced"
Known == nat.host # NoHost /\ nat.port # 0

-----------------------------------------------------------------------------
(* The end of _updateNetworkState(), and what its caller does with it. *)

\* _bootstrap() queries once more after an update that succeeded, and is done
\* after the second one or one that failed; a tick does not look.
Return(c, result) ==
    /\ update' = [update EXCEPT ![c] = Idle]
    /\ boot' = IF c # "bootstrap" THEN boot
               ELSE IF result /\ boot.round = 0
                    THEN [boot EXCEPT !.pc = "query", !.round = 1]
                    ELSE [boot EXCEPT !.pc = "done"]

\* The address is good: persistent unless only the firewall was asked about,
\* with the samples of the probe and, if it is another, the id of the address.
Adopt(only, addr) ==
    /\ ephemeral' = (ephemeral /\ only)
    /\ nat' = addr
    /\ own' = addr

\* Mutation: what was captured before the probe is not compared again.
OpenUnchecked(c) ==
    /\ firewalled' = FALSE
    /\ Adopt(update[c].only, [nat EXCEPT !.port = ServerPort])
    /\ Return(c, TRUE)

\* The probe found the server port open at the host shown now: the rest of
\* _updateNetworkState(), which bails out if the node or its address changed.
Open(c) ==
    /\ firewalled' = FALSE
    /\ IF ephemeral /\ update[c].addr = nat
       THEN /\ Adopt(update[c].only, [nat EXCEPT !.port = ServerPort])
            /\ Return(c, TRUE)
       ELSE /\ UNCHANGED <<ephemeral, nat, own>>
            /\ Return(c, FALSE)

\* The probe found the node firewalled, or heard too little to tell.
Closed(c) ==
    /\ Return(c, FALSE)
    /\ UNCHANGED <<ephemeral, firewalled, natVars>>

-----------------------------------------------------------------------------
(* Its beginning, up to the await. *)

\* The pings to nodes are sent.  After destroy() none can be: the promise of
\* requestAll() resolves with no pong.
Ask(c, u) ==
    IF destroyed THEN Closed(c)
    ELSE /\ update' = [update EXCEPT ![c] = [u EXCEPT !.pc = "probing"]]
         /\ UNCHANGED <<boot, ephemeral, firewalled, natVars>>

\* _checkIfFirewalled() takes n nodes of the table and, if these are too few,
\* goes to resolve the bootstrap nodes.
Probe(c) ==
    \E n \in 0..ProbeNodes :
        LET u == [pc |-> "resolving", only |-> onlyFirewall(c), addr |-> nat,
                  asked |-> n, missing |-> n, pongs |-> 0, earned |-> owed' = 0]
        IN  IF n = ProbeNodes THEN Ask(c, u)
            ELSE /\ update' = [update EXCEPT ![c] = u]
                 /\ UNCHANGED <<boot, ephemeral, firewalled, natVars>>

\* Mutation: the host is remembered also when only the firewall is checked.
CheckRemembers(c) ==
    /\ stable' = MoreStableTicks /\ lastHost' = nat.host
    /\ \/ ~Known /\ Closed(c)
       \/ Known /\ firewalled /\ Probe(c)
       \/ /\ Known /\ ~firewalled
          /\ Adopt(onlyFirewall(c), nat)
          /\ Return(c, TRUE)
          /\ UNCHANGED firewalled

\* _updateNetworkState() of a node that is ephemeral, or firewalled if only that
\* is asked.
Check(c) ==
    /\ IF onlyFirewall(c) THEN UNCHANGED <<stable, lastHost>>
       ELSE stable' = MoreStableTicks /\ lastHost' = nat.host
    /\ \/ ~Known /\ Closed(c)
       \/ Known /\ firewalled /\ Probe(c)
       \/ /\ Known /\ ~firewalled
          /\ Adopt(onlyFirewall(c), nat)
          /\ Return(c, TRUE)
          /\ UNCHANGED firewalled

-----------------------------------------------------------------------------
(* The probe: bootstrap nodes are resolved, nodes answer or do not. *)

\* Mutation: the probe goes on when there is no node at all.
ResolveNone(c) ==
    /\ update[c].pc = "resolving"
    /\ \E n \in 0..Bootstrappers :
          LET u == [update[c] EXCEPT !.asked = @ + n, !.missing = @ + n]
          IN  Ask(c, u) /\ steady' = (steady /\ u.missing # 0)
    /\ UNCHANGED <<kind, tickVars, destroyed>>

\* Without any node the probe gives up.
Resolve(c) ==
    /\ update[c].pc = "resolving"
    /\ \E n \in 0..Bootstrappers :
          LET u == [update[c] EXCEPT !.asked = @ + n, !.missing = @ + n]
          IN  /\ IF u.missing = 0 THEN Closed(c) ELSE Ask(c, u)
              /\ steady' = (steady /\ u.missing # 0)
    /\ UNCHANGED <<kind, tickVars, destroyed>>

Quorum(u) == IF u.asked >= ProbeNodes THEN ProbeQuorum ELSE 1

\* All pings are settled.  What the pongs say decides, if they are enough; the
\* host must be the one that is shown and the port that of the server socket.
Verdict(c, u) ==
    \/ u.pongs >= Quorum(u) /\ nat.host # NoHost /\ Open(c) /\ UNCHANGED steady
    \/ Closed(c) /\ steady' = FALSE

\* Mutation: a ping that fails is not counted as settled.
SettleAnswered(c, pong) ==
    LET u == [update[c] EXCEPT !.missing = IF pong THEN @ - 1 ELSE @,
                               !.pongs = IF pong THEN @ + 1 ELSE @]
    IN  IF u.missing = 0 THEN Verdict(c, u)
        ELSE /\ update' = [update EXCEPT ![c] = u]
             /\ steady' = (steady /\ pong)
             /\ UNCHANGED <<boot, ephemeral, firewalled, natVars>>

\* A ping of requestAll() is settled: by a pong on the server socket, or else by
\* one that came elsewhere or by an error.
Settle(c, pong) ==
    LET u == [update[c] EXCEPT !.missing = @ - 1,
                               !.pongs = IF pong THEN @ + 1 ELSE @]
    IN  IF u.missing = 0 THEN Verdict(c, u)
        ELSE /\ update' = [update EXCEPT ![c] = u]
             /\ steady' = (steady /\ pong)
             /\ UNCHANGED <<boot, ephemeral, firewalled, natVars>>

Answered(c, pong) ==
    /\ update[c].pc = "probing"
    /\ pong => ~destroyed
    /\ Settle(c, pong)
    /\ UNCHANGED <<kind, tickVars, destroyed>>

-----------------------------------------------------------------------------
(* _bootstrap() *)

Querying == boot.pc = "query" /\ update["bootstrap"] = Idle

\* The first node that replies is asked for a NAT ping...
NatPing ==
    /\ Querying /\ boot.ping = "due" /\ ~destroyed
    /\ boot' = [boot EXCEPT !.ping = "sent"]
    /\ UNCHANGED <<identityVars, tickVars, update, destroyed, steady>>

\* ... and its answer may come when nobody waits for it any more.
NatPong ==
    /\ boot.ping = "sent" /\ ~destroyed
    /\ boot' = [boot EXCEPT !.ping = "answered"]
    /\ UNCHANGED <<identityVars, tickVars, update, destroyed, steady>>

\* The query is over, and the network state is checked if the node is forced to
\* be persistent or got the NAT ping answered.
QueryDone ==
    /\ Querying
    /\ UNCHANGED <<kind, owed, wakeups, destroyed, steady>>
    /\ LET tries == kind = "forced" \/ boot.ping = "answered"
           goesOn == ephemeral /\ (onlyFirewall("bootstrap") => firewalled)
       IN  IF tries /\ goesOn THEN Check("bootstrap")
           ELSE /\ boot' = [boot EXCEPT !.pc = "done"]
                /\ UNCHANGED <<ephemeral, firewalled, natVars, stable, lastHost, update>>

\* destroy() may make the query fail, and with it the bootstrap; a query that had
\* nothing more to ask ends as if nothing had happened.
QueryFailed ==
    /\ Querying /\ destroyed
    /\ boot' = [boot EXCEPT !.pc = "failed"]
    /\ UNCHANGED <<identityVars, tickVars, update, destroyed, steady>>

-----------------------------------------------------------------------------
(* Everything else that happens to the node. *)

\* A message said under which address it got here: _natAdd().
Sample ==
    /\ nat' \in Shown /\ nat' # nat
    /\ steady' = (steady /\ nat = Unknown /\ nat'.port # 0)
    /\ UNCHANGED <<kind, ephemeral, firewalled, own, tickVars, boot, update,
                   destroyed>>

\* _ontick(): an adaptive node that is ephemeral counts down to its next check.
Tick ==
    /\ ~destroyed
    /\ owed' = IF owed = 0 THEN 0 ELSE owed - 1
    /\ UNCHANGED <<kind, wakeups, destroyed, steady>>
    /\ LET counts == bootstrapped /\ kind = "adaptive" /\ ephemeral
           free   == {c \in Ticker : update[c] = Idle}
       IN  IF counts /\ stable <= 1 /\ lastHost # nat.host
           THEN free # {} /\ Check(CHOOSE c \in free : TRUE)
           ELSE /\ stable' = IF ~counts THEN stable
                             ELSE IF stable <= 1 THEN MoreStableTicks
                             ELSE stable - 1
                /\ UNCHANGED <<ephemeral, firewalled, natVars, lastHost, boot, update>>

\* The countdown after a wakeup and the rest of the tick it was noticed in.
Resumed(slept) == IF slept THEN MoreStableTicks - 1 ELSE MoreStableTicks

\* Mutation: the countdown goes on as if nothing had happened.
WakeupCounting(slept) ==
    /\ ~destroyed /\ wakeups < MaxWakeups
    /\ wakeups' = wakeups + 1
    /\ owed' = IF kind = "adaptive" THEN Resumed(slept) ELSE 0
    /\ UNCHANGED stable
    /\ lastHost' = NoHost
    /\ ephemeral' = (ephemeral \/ kind = "adaptive")
    /\ UNCHANGED <<kind, firewalled, natVars, boot, update, destroyed, steady>>

\* _onwakeup(), called by resume() or, with the rest of _ontick(), by the first
\* tick after a sleep.
Wakeup(slept) ==
    /\ ~destroyed /\ wakeups < MaxWakeups
    /\ wakeups' = wakeups + 1
    /\ owed' = IF kind = "adaptive" THEN Resumed(slept) ELSE 0
    /\ stable' = IF bootstrapped /\ kind = "adaptive" THEN Resumed(slept)
                 ELSE MoreStableTicks
    /\ lastHost' = NoHost
    /\ ephemeral' = (ephemeral \/ kind = "adaptive")
    /\ UNCHANGED <<kind, firewalled, natVars, boot, update, destroyed, steady>>

\* destroy(): the tick interval is cleared and no request is sent any more.
Destroy ==
    /\ ~destroyed
    /\ destroyed' = TRUE
    /\ UNCHANGED <<identityVars, tickVars, boot, update, steady>>

Next ==
    \/ NatPing \/ NatPong \/ QueryDone \/ QueryFailed
    \/ \E c \in Caller : Resolve(c)
    \/ \E c \in Caller, pong \in BOOLEAN : Answered(c, pong)
    \/ Sample \/ Tick \/ Destroy
    \/ \E slept \in BOOLEAN : Wakeup(slept)

Spec == Init /\ [][Next]_vars

\* The bootstrap query ends, names are resolved, pings are settled (see
\* RequestContract), and the tick interval fires.
Fairness ==
    /\ WF_vars(QueryDone) /\ WF_vars(QueryFailed) /\ WF_vars(Tick)
    /\ \A c \in Caller : WF_vars(Resolve(c) \/ \E pong \in BOOLEAN : Answered(c, pong))

FairSpec == Spec /\ Fairness

-----------------------------------------------------------------------------
(* Properties. *)

Update == [pc : {"idle", "resolving", "probing"}, only : BOOLEAN, addr : Shown,
           asked : Nat, missing : Nat, pongs : Nat, earned : BOOLEAN]

\* Every variable holds a value of its type, and a call that awaits was made
\* with an address known.
TypeOK ==
    /\ kind \in Kind /\ ephemeral \in BOOLEAN /\ firewalled \in BOOLEAN
    /\ nat \in Shown /\ own \in Address \cup {Unknown}
    /\ stable \in 0..(IF StableTicks > MoreStableTicks THEN StableTicks ELSE MoreStableTicks)
    /\ lastHost \in Host \cup {NoHost}
    /\ boot \in [pc : {"query", "done", "failed"}, round : 0..1,
                 ping : {"never", "due", "sent", "answered"}]
    /\ update \in [Caller -> Update]
    /\ \A c \in Caller : update[c].pc # "idle" =>
           /\ update[c].addr.port # 0
           /\ update[c].missing + update[c].pongs <= update[c].asked
           /\ update[c].pc = "probing" => update[c].missing > 0
    /\ destroyed \in BOOLEAN /\ wakeups \in 0..MaxWakeups /\ owed \in Nat
    /\ steady \in BOOLEAN

Ends(c) == update[c].pc # "idle" /\ update'[c].pc = "idle"
TurnsPersistent == ephemeral /\ ~ephemeral'

\* A node turns persistent under an address that it has now and had when the
\* check began, with the id of exactly that address, and not firewalled: what
\* _updateNetworkState() captured before its await is not stale when it is used.
PersistentIsCurrent ==
    [][TurnsPersistent =>
         /\ ~firewalled' /\ nat'.port # 0 /\ own' = nat' /\ nat'.host = nat.host
         /\ \A c \in Caller : Ends(c) => update[c].addr = nat]_vars

\* An adaptive node turns persistent only by a check that began STABLE_TICKS after
\* its start, and MORE_STABLE_TICKS after any wakeup before it: neither a quick
\* firewall check of the bootstrap nor a countdown left from before a sleep counts.
PersistentIsEarned ==
    [][kind = "adaptive" /\ TurnsPersistent =>
         IF \E c \in Caller : Ends(c)
         THEN \A c \in Caller : Ends(c) => update[c].earned
         ELSE owed' = 0]_vars

\* _bootstrap() settles, whichever pings of its firewall check are lost and
\* whenever the node is destroyed: fullyBootstrapped() always returns.
BootstrapEnds == <>(boot.pc \in {"done", "failed"})

\* On a network that shows one address and answers every probe an adaptive node
\* ends up persistent, however often it sleeps and whatever the bootstrap checked
\* before: remembering the last host never keeps it from the check it needs.
OpenTurnsPersistent ==
    kind = "adaptive" /\ []steady /\ []~destroyed /\ <>Known => <>[]~ephemeral

\* The same of a node created with ephemeral: false (README.md: 'persistent' is
\* emitted during the bootstrap phase, assuming an open NAT).
ForcedTurnsPersistent ==
    kind = "forced" /\ []steady /\ []~destroyed /\ <>Known => <>[]~ephemeral
=============================================================================
