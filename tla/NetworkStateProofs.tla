------------------------- MODULE NetworkStateProofs -------------------------
(***************************************************************************)
(* When a node turns persistent, for every number of hosts, ports,         *)
(* overlapping checks, ticks and nodes asked.                              *)
(*                                                                         *)
(* Beside the types the invariant says that an adaptive node counts down   *)
(* at least as many ticks as it owes, so that nothing is owed when a tick  *)
(* begins a check, and that the calls under way that may turn it           *)
(* persistent have been earned in this way.                                *)
(***************************************************************************)
EXTENDS NetworkState, TLAPS

BootState == [pc : {"query", "done", "failed"}, round : 0..1,
              ping : {"never", "due", "sent", "answered"}]

Longest == IF StableTicks > MoreStableTicks THEN StableTicks ELSE MoreStableTicks

Identity ==
    /\ kind \in Kind /\ ephemeral \in BOOLEAN /\ firewalled \in BOOLEAN
    /\ nat \in Shown /\ own \in Address \cup {Unknown}

\* The countdown is at least as long as what an adaptive node owes.
Clock ==
    /\ stable \in 0..Longest /\ lastHost \in Host \cup {NoHost}
    /\ wakeups \in 0..MaxWakeups /\ owed \in Nat
    /\ kind = "adaptive" => owed <= stable

\* A call u under way has an address and, if it is to turn an adaptive node
\* persistent, has been earned.
CallOK(u) ==
    /\ u \in Update
    /\ u.pc # "idle" =>
           /\ u.addr.port # 0
           /\ u.missing + u.pongs <= u.asked
           /\ u.pc = "probing" => u.missing > 0
           /\ kind = "adaptive" /\ ~u.only => u.earned

Calls == update \in [Caller -> Update] /\ \A c \in Caller : CallOK(update[c])

BootOK == boot \in BootState

IInv == Identity /\ Clock /\ Calls /\ BootOK /\ destroyed \in BOOLEAN /\ steady \in BOOLEAN

-----------------------------------------------------------------------------
(* Addresses. *)

\* What a sampler shows once it shows a host and a port is an address, and stays
\* one with the port of the server socket.
LEMMA ShownIsAddress ==
    ASSUME nat \in Shown, nat.host # NoHost
    PROVE  /\ nat.host \in Host
           /\ nat.port # 0 => nat \in Address
           /\ [nat EXCEPT !.port = ServerPort] \in Address
           /\ [nat EXCEPT !.port = ServerPort].port = ServerPort
           /\ [nat EXCEPT !.port = ServerPort].host = nat.host
<1>1. nat \in [host : Host, port : Port \cup {0}]
  BY DEF Shown, Unknown
<1>2. ServerPort \in Port
  BY NetworkStateAssumption
<1> QED
  BY <1>1, <1>2 DEF Address

LEMMA AddressIsShown == Address \subseteq Shown
BY DEF Address, Shown

LEMMA PortsPositive == \A addr \in Address : addr.port # 0 /\ addr.port \in Nat
BY NetworkStateAssumption DEF Address

-----------------------------------------------------------------------------
(* The calls. *)

LEMMA IdleOK == CallOK(Idle)
BY DEF CallOK, Idle, Update, Shown

\* Replacing one call by a good one keeps the calls good.
LEMMA SetCall ==
    ASSUME Calls, NEW c \in Caller, NEW u, CallOK(u), kind' = kind,
           update' = [update EXCEPT ![c] = u]
    PROVE  Calls'
<1>1. u \in Update
  BY DEF CallOK
<1>2. update' \in [Caller -> Update]
  BY <1>1 DEF Calls
<1>3. ASSUME NEW d \in Caller PROVE CallOK(update[d])'
  <2>1. CallOK(update[d]) /\ update'[d] = (IF d = c THEN u ELSE update[d])
    BY DEF Calls
  <2> QED
    BY <2>1 DEF CallOK
<1> QED
  BY <1>2, <1>3 DEF Calls

LEMMA ReturnKeeps ==
    ASSUME Calls, BootOK, NEW c \in Caller, NEW result \in BOOLEAN, kind' = kind,
           Return(c, result)
    PROVE  Calls' /\ BootOK'
<1>1. Calls'
  BY IdleOK, SetCall DEF Return
<1> DEFINE next == [boot EXCEPT !.pc = "query", !.round = 1]
<1>2. next = [boot EXCEPT !.pc = "query", !.round = 1]
  OBVIOUS
<1> HIDE DEF next
<1>3. next \in BootState
  <2>1. PICK a, b, d : boot = [pc |-> a, round |-> b, ping |-> d]
                       /\ d \in {"never", "due", "sent", "answered"}
    BY DEF BootOK, BootState
  <2>2. next = [pc |-> "query", round |-> 1, ping |-> d]
    BY <1>2, <2>1
  <2> QED
    BY <2>1, <2>2 DEF BootState
<1> USE DEF next
<1>4. [boot EXCEPT !.pc = "done"] \in BootState
  BY DEF BootOK, BootState
<1>5. BootOK'
  BY <1>3, <1>4, Zenon DEF Return, BootOK
<1> QED
  BY <1>1, <1>5

LEMMA ClosedKeeps ==
    ASSUME IInv, NEW c \in Caller, kind' = kind, Closed(c)
    PROVE  Identity' /\ Calls' /\ BootOK'
<1>1. Calls' /\ BootOK'
  BY ReturnKeeps DEF Closed, IInv
<1> QED
  BY <1>1 DEF Closed, IInv, Identity, natVars

LEMMA AskKeeps ==
    ASSUME IInv, NEW c \in Caller, NEW u, CallOK(u), u.pc = "resolving", u.missing > 0,
           kind' = kind, Ask(c, u)
    PROVE  Identity' /\ Calls' /\ BootOK'
<1>1. CASE destroyed
  BY <1>1, ClosedKeeps DEF Ask
<1>2. CASE ~destroyed
  <2> DEFINE v == [u EXCEPT !.pc = "probing"]
  <2>1. CallOK(v)
    BY DEF CallOK, Update
  <2>2. Calls'
    BY <1>2, <2>1, SetCall DEF Ask, IInv
  <2> QED
    BY <1>2, <2>2 DEF Ask, IInv, Identity, BootOK, natVars
<1> QED
  BY <1>1, <1>2

\* A probe that found the port open.
LEMMA OpenKeeps ==
    ASSUME IInv, NEW c \in Caller, kind' = kind, nat.host # NoHost, Open(c)
    PROVE  Identity' /\ Calls' /\ BootOK'
<1>1. [nat EXCEPT !.port = ServerPort] \in Address /\ nat \in Shown
  BY ShownIsAddress DEF IInv, Identity
<1>2. update[c].only \in BOOLEAN
  BY DEF IInv, Calls, Update
<1>3. Calls' /\ BootOK'
  BY ReturnKeeps DEF Open, IInv
<1>4. CASE ephemeral /\ update[c].addr = nat
  BY <1>1, <1>2, <1>3, <1>4, AddressIsShown DEF Open, Adopt, IInv, Identity
<1>5. CASE ~(ephemeral /\ update[c].addr = nat)
  BY <1>3, <1>5 DEF Open, IInv, Identity
<1> QED
  BY <1>4, <1>5

\* The call that Probe starts.
LEMMA ProbeKeeps ==
    ASSUME IInv, NEW c \in Caller, kind' = kind, Known,
           onlyFirewall(c) \/ kind # "adaptive" \/ owed' = 0, Probe(c)
    PROVE  Identity' /\ Calls' /\ BootOK'
<1>1. PICK n \in 0..ProbeNodes :
        LET u == [pc |-> "resolving", only |-> onlyFirewall(c), addr |-> nat,
                  asked |-> n, missing |-> n, pongs |-> 0, earned |-> owed' = 0]
        IN  IF n = ProbeNodes THEN Ask(c, u)
            ELSE /\ update' = [update EXCEPT ![c] = u]
                 /\ UNCHANGED <<boot, ephemeral, firewalled, natVars>>
  BY DEF Probe
<1> DEFINE u == [pc |-> "resolving", only |-> onlyFirewall(c), addr |-> nat,
                 asked |-> n, missing |-> n, pongs |-> 0, earned |-> owed' = 0]
<1>2. n \in Nat /\ ProbeNodes \in Nat \ {0}
  BY NetworkStateAssumption
<1>3. /\ u.pc = "resolving" /\ u.only = onlyFirewall(c) /\ u.addr = nat
      /\ u.asked = n /\ u.missing = n /\ u.pongs = 0
  OBVIOUS
<1>4. onlyFirewall(c) \in BOOLEAN
  BY DEF onlyFirewall
<1>5. CallOK(u)
  <2>1. u \in Update
    BY <1>2, <1>3, <1>4 DEF Update, IInv, Identity
  <2>2. u.addr.port # 0 /\ u.missing + u.pongs <= u.asked
    BY <1>2, <1>3 DEF Known
  <2>3. kind = "adaptive" /\ ~u.only => u.earned
    <3>1. u.earned = (owed' = 0)
      BY Zenon
    <3> QED
      BY <1>3, <3>1
  <2> QED
    BY <1>3, <2>1, <2>2, <2>3 DEF CallOK
<1>6. CASE n = ProbeNodes
  BY <1>1, <1>2, <1>3, <1>5, <1>6, AskKeeps
<1>7. CASE n # ProbeNodes
  <2>1. update' = [update EXCEPT ![c] = u] /\ UNCHANGED <<boot, ephemeral, firewalled, natVars>>
    BY <1>1, <1>7
  <2>2. Calls'
    BY <1>5, <2>1, SetCall DEF IInv
  <2> QED
    BY <2>1, <2>2 DEF IInv, Identity, BootOK, natVars
<1> QED
  BY <1>6, <1>7

\* The beginning of a call that finds what it needs.
LEMMA CheckKeeps ==
    ASSUME IInv, NEW c \in Caller, kind' = kind,
           onlyFirewall(c) \/ kind # "adaptive" \/ owed' = 0, Check(c)
    PROVE  /\ Identity' /\ Calls' /\ BootOK'
           /\ stable' = (IF onlyFirewall(c) THEN stable ELSE MoreStableTicks)
           /\ lastHost' \in Host \cup {NoHost}
<1>1. /\ stable' = (IF onlyFirewall(c) THEN stable ELSE MoreStableTicks)
      /\ lastHost' \in Host \cup {NoHost}
  <2>1. nat.host \in Host \cup {NoHost}
    BY ShownIsAddress DEF IInv, Identity
  <2> QED
    BY <2>1 DEF Check, IInv, Clock
<1>2. CASE ~Known /\ Closed(c)
  BY <1>1, <1>2, ClosedKeeps
<1>3. CASE Known /\ firewalled /\ Probe(c)
  BY <1>1, <1>3, ProbeKeeps
<1>4. CASE Known /\ ~firewalled /\ Adopt(onlyFirewall(c), nat) /\ Return(c, TRUE)
           /\ UNCHANGED firewalled
  <2>1. Calls' /\ BootOK'
    BY <1>4, ReturnKeeps DEF IInv
  <2>2. nat \in Address /\ nat \in Shown
    BY <1>4, ShownIsAddress DEF Known, IInv, Identity
  <2>3. Identity'
    BY <1>4, <2>2 DEF Adopt, IInv, Identity, onlyFirewall
  <2> QED
    BY <1>1, <2>1, <2>3
<1> QED
  BY <1>2, <1>3, <1>4 DEF Check

-----------------------------------------------------------------------------
(* The steps. *)

\* The bootstrap nodes are resolved.
LEMMA ResolveKeeps ==
    ASSUME IInv, NEW c \in Caller, Resolve(c)
    PROVE  IInv'
<1>1. PICK n \in 0..Bootstrappers :
        LET u == [update[c] EXCEPT !.asked = @ + n, !.missing = @ + n]
        IN  /\ IF u.missing = 0 THEN Closed(c) ELSE Ask(c, u)
            /\ steady' = (steady /\ u.missing # 0)
  BY DEF Resolve
<1> DEFINE u == [update[c] EXCEPT !.asked = @ + n, !.missing = @ + n]
<1>2. n \in Nat
  BY NetworkStateAssumption
<1>3. UNCHANGED <<kind, stable, lastHost, owed, wakeups, destroyed>>
  BY DEF Resolve, tickVars
<1>4. update[c] \in Update /\ CallOK(update[c]) /\ update[c].pc = "resolving"
  BY DEF Resolve, IInv, Calls, CallOK
<1>5. update[c].asked + n \in Nat /\ update[c].missing + n \in Nat
  BY <1>2, <1>4 DEF Update
<1>6. u = [update[c] EXCEPT !.asked = @ + n, !.missing = @ + n]
  OBVIOUS
<1> HIDE DEF u
<1>7. /\ u \in Update /\ u.pongs = update[c].pongs
      /\ u.asked = update[c].asked + n /\ u.missing = update[c].missing + n
      /\ u.pc = update[c].pc /\ u.only = update[c].only /\ u.addr = update[c].addr
      /\ u.earned = update[c].earned
  BY <1>4, <1>5, <1>6 DEF Update
<1>8. CallOK(u) /\ u.pc = "resolving" /\ u.missing \in Nat
  BY <1>2, <1>4, <1>7 DEF CallOK, Update
<1> USE DEF u
<1>9. IF u.missing = 0 THEN Closed(c) ELSE Ask(c, u)
  BY <1>1
<1>10. steady' \in BOOLEAN
  BY <1>1, Zenon
<1> HIDE DEF u
<1>11. CASE u.missing = 0
  BY <1>3, <1>9, <1>10, <1>11, ClosedKeeps DEF IInv, Clock
<1>12. CASE u.missing # 0
  BY <1>3, <1>8, <1>9, <1>10, <1>12, AskKeeps DEF IInv, Clock
<1> QED
  BY <1>11, <1>12

\* A ping is settled.
LEMMA AnsweredKeeps ==
    ASSUME IInv, NEW c \in Caller, NEW pong \in BOOLEAN, Answered(c, pong)
    PROVE  IInv'
<1> DEFINE u == [update[c] EXCEPT !.missing = @ - 1, !.pongs = IF pong THEN @ + 1 ELSE @]
<1>1. IF u.missing = 0 THEN Verdict(c, u)
      ELSE /\ update' = [update EXCEPT ![c] = u]
           /\ steady' = (steady /\ pong)
           /\ UNCHANGED <<boot, ephemeral, firewalled, natVars>>
  BY DEF Answered, Settle
<1>2. UNCHANGED <<kind, stable, lastHost, owed, wakeups, destroyed>>
  BY DEF Answered, tickVars
<1>3. update[c] \in Update /\ CallOK(update[c]) /\ update[c].pc = "probing"
  BY DEF Answered, IInv, Calls, CallOK
<1>4. /\ update[c].missing > 0 /\ update[c].missing \in Nat /\ update[c].missing - 1 \in Nat
      /\ (IF pong THEN update[c].pongs + 1 ELSE update[c].pongs) \in Nat
  BY <1>3 DEF CallOK, Update
<1>5. u = [update[c] EXCEPT !.missing = @ - 1, !.pongs = IF pong THEN @ + 1 ELSE @]
  OBVIOUS
<1> HIDE DEF u
<1>6. /\ u \in Update /\ u.missing = update[c].missing - 1
      /\ u.pongs = (IF pong THEN update[c].pongs + 1 ELSE update[c].pongs)
      /\ u.asked = update[c].asked /\ u.pc = update[c].pc /\ u.only = update[c].only
      /\ u.addr = update[c].addr /\ u.earned = update[c].earned
  BY <1>3, <1>4, <1>5 DEF Update
<1>7. update[c].asked \in Nat /\ update[c].pongs \in Nat
  BY <1>3 DEF Update
<1>8. u.missing # 0 => CallOK(u)
  BY <1>3, <1>4, <1>6, <1>7 DEF CallOK, Update
<1>9. CASE u.missing # 0
  <2>1. Calls'
    BY <1>1, <1>2, <1>8, <1>9, SetCall DEF IInv
  <2>2. steady' \in BOOLEAN
    BY <1>1, <1>9, Zenon
  <2> QED
    BY <1>1, <1>2, <1>9, <2>1, <2>2 DEF IInv, Identity, Clock, BootOK, natVars
<1>10. CASE u.missing = 0
  <2>1. Verdict(c, u)
    BY <1>1, <1>10
  <2>2. Identity' /\ Calls' /\ BootOK' /\ steady' \in BOOLEAN
    BY <1>2, <2>1, OpenKeeps, ClosedKeeps DEF Verdict, IInv
  <2> QED
    BY <1>2, <2>2 DEF IInv, Clock
<1> QED
  BY <1>9, <1>10

\* Only the bootstrap may ask about the firewall alone.
LEMMA TickersCheckAll == \A c \in Ticker : c \in Caller /\ ~onlyFirewall(c)
BY NetworkStateAssumption DEF Caller, onlyFirewall

\* The bounds of the countdown.
LEMMA CountdownBounds ==
    /\ StableTicks \in 0..Longest /\ MoreStableTicks \in 0..Longest
    /\ MoreStableTicks - 1 \in 0..Longest
    /\ \A slept \in BOOLEAN : /\ Resumed(slept) \in 0..Longest
                              /\ Resumed(slept) <= MoreStableTicks
BY NetworkStateAssumption DEF Longest, Resumed

\* What a tick leaves to be passed; nothing, if the countdown is at its end.
LEMMA TickOwes ==
    ASSUME IInv, Tick
    PROVE  /\ owed' \in Nat
           /\ kind = "adaptive" => owed' <= (IF stable > 1 THEN stable - 1 ELSE 0)
BY DEF Tick, IInv, Clock, Longest

LEMMA TickKeeps ==
    ASSUME IInv, Tick
    PROVE  IInv'
<1>1. UNCHANGED <<kind, wakeups, destroyed, steady>>
  BY DEF Tick
<1>2. owed' \in Nat /\ (kind = "adaptive" => owed' <= (IF stable > 1 THEN stable - 1 ELSE 0))
  BY TickOwes
<1>3. stable \in Nat /\ stable <= Longest /\ Longest \in Nat
  BY NetworkStateAssumption DEF IInv, Clock, Longest
<1>4. CASE /\ bootstrapped /\ kind = "adaptive" /\ ephemeral
           /\ stable <= 1 /\ lastHost # nat.host
  <2>1. PICK c \in Ticker : Check(c)
    BY <1>4 DEF Tick
  <2>2. owed' = 0
    BY <1>2, <1>3, <1>4
  <2>3. /\ Identity' /\ Calls' /\ BootOK'
        /\ stable' = MoreStableTicks /\ lastHost' \in Host \cup {NoHost}
    BY <1>1, <2>1, <2>2, TickersCheckAll, CheckKeeps
  <2>4. Clock'
    BY <1>1, <2>2, <2>3, CountdownBounds, NetworkStateAssumption DEF Clock, IInv, Longest
  <2> QED
    BY <1>1, <2>3, <2>4 DEF IInv
<1>5. CASE ~(/\ bootstrapped /\ kind = "adaptive" /\ ephemeral
             /\ stable <= 1 /\ lastHost # nat.host)
  <2>1. /\ UNCHANGED <<ephemeral, firewalled, natVars, lastHost, boot, update>>
        /\ \/ stable' = stable
           \/ stable <= 1 /\ stable' = MoreStableTicks
           \/ stable > 1 /\ stable' = stable - 1
    BY <1>3, <1>5 DEF Tick
  <2>2. stable' \in 0..Longest /\ (kind = "adaptive" => owed' <= stable')
    BY <1>2, <1>3, <2>1, CountdownBounds DEF Longest
  <2>3. Clock'
    BY <1>1, <1>2, <2>1, <2>2 DEF Clock, IInv, Longest
  <2>4. Calls'
    BY <1>1, <2>1 DEF Calls, CallOK, IInv
  <2> QED
    BY <1>1, <2>1, <2>3, <2>4 DEF IInv, Identity, BootOK, natVars
<1> QED
  BY <1>4, <1>5

LEMMA WakeupKeeps ==
    ASSUME IInv, NEW slept \in BOOLEAN, Wakeup(slept)
    PROVE  IInv'
<1>1. UNCHANGED <<kind, firewalled, natVars, boot, update, destroyed, steady>>
  BY DEF Wakeup
<1>2. /\ owed' = (IF kind = "adaptive" THEN Resumed(slept) ELSE 0)
      /\ stable' = Resumed(slept) \/ stable' = MoreStableTicks
      /\ lastHost' = NoHost
  BY DEF Wakeup
<1>3. wakeups' \in 0..MaxWakeups
  BY NetworkStateAssumption DEF Wakeup, IInv, Clock
<1>4. Clock'
  BY <1>1, <1>2, <1>3, CountdownBounds, NetworkStateAssumption DEF Clock, Longest
<1>5. ephemeral' \in BOOLEAN
  BY Zenon DEF Wakeup
<1>6. Calls'
  BY <1>1 DEF Calls, CallOK, IInv
<1> QED
  BY <1>1, <1>4, <1>5, <1>6 DEF IInv, Identity, BootOK, natVars

LEMMA QueryDoneKeeps ==
    ASSUME IInv, QueryDone
    PROVE  IInv'
<1>1. UNCHANGED <<kind, owed, wakeups, destroyed, steady>>
  BY DEF QueryDone
<1>2. "bootstrap" \in Caller
  BY DEF Caller
<1>3. CASE Check("bootstrap")
  <2>1. onlyFirewall("bootstrap") <=> kind # "forced"
    BY DEF onlyFirewall
  <2>2. onlyFirewall("bootstrap") \/ kind # "adaptive"
    BY <2>1
  <2>3. /\ Identity' /\ Calls' /\ BootOK'
        /\ stable' = (IF onlyFirewall("bootstrap") THEN stable ELSE MoreStableTicks)
        /\ lastHost' \in Host \cup {NoHost}
    BY <1>1, <1>2, <1>3, <2>2, CheckKeeps
  <2>4. Clock'
    BY <1>1, <2>2, <2>3, CountdownBounds DEF Clock, IInv, Longest
  <2> QED
    BY <1>1, <2>3, <2>4 DEF IInv
<1>4. CASE /\ boot' = [boot EXCEPT !.pc = "done"]
           /\ UNCHANGED <<ephemeral, firewalled, natVars, stable, lastHost, update>>
  <2>1. BootOK'
    BY <1>4 DEF IInv, BootOK, BootState
  <2>2. Calls'
    BY <1>1, <1>4 DEF Calls, CallOK, IInv
  <2> QED
    BY <1>1, <1>4, <2>1, <2>2 DEF IInv, Identity, Clock, Longest, natVars
<1> QED
  BY <1>3, <1>4 DEF QueryDone

\* The steps that change boot or a flag and nothing else, and those of the samples.
LEMMA SmallStepsKeep ==
    ASSUME IInv, NatPing \/ NatPong \/ QueryFailed \/ Sample \/ Destroy
           \/ UNCHANGED vars
    PROVE  IInv'
<1>1. UNCHANGED <<kind, ephemeral, firewalled, own, tickVars, update>>
  BY DEF NatPing, NatPong, QueryFailed, Sample, Destroy, vars, identityVars, natVars
<1>2. Calls'
  BY <1>1 DEF Calls, CallOK, IInv
<1>3. BootOK'
  BY DEF NatPing, NatPong, QueryFailed, Sample, Destroy, vars, IInv, BootOK, BootState
<1>4. nat' \in Shown
  BY DEF NatPing, NatPong, QueryFailed, Sample, Destroy, vars, identityVars, natVars,
         IInv, Identity
<1>5. destroyed' \in BOOLEAN
  BY DEF NatPing, NatPong, QueryFailed, Sample, Destroy, vars, IInv
<1>6. steady' \in BOOLEAN
  BY Zenon DEF NatPing, NatPong, QueryFailed, Sample, Destroy, vars, IInv
<1> QED
  BY <1>1, <1>2, <1>3, <1>4, <1>5, <1>6 DEF IInv, Identity, Clock, Longest, tickVars

-----------------------------------------------------------------------------
LEMMA InvInit == Init => IInv
<1> SUFFICES ASSUME Init PROVE IInv
  OBVIOUS
<1>1. Identity
  BY DEF Init, Identity, Shown
<1>2. stable \in 0..Longest /\ owed = stable
  BY CountdownBounds, NetworkStateAssumption DEF Init, Longest
<1>3. Clock
  BY <1>2, NetworkStateAssumption DEF Init, Clock, Longest
<1>4. Calls
  BY IdleOK DEF Init, Calls, CallOK
<1>5. BootOK
  BY DEF Init, BootOK, BootState
<1> QED
  BY <1>1, <1>3, <1>4, <1>5 DEF Init, IInv

LEMMA InvStep == IInv /\ [Next]_vars => IInv'
<1> SUFFICES ASSUME IInv, [Next]_vars PROVE IInv'
  OBVIOUS
<1>1. CASE QueryDone
  BY <1>1, QueryDoneKeeps
<1>2. CASE \E c \in Caller : Resolve(c)
  BY <1>2, ResolveKeeps
<1>3. CASE \E c \in Caller, pong \in BOOLEAN : Answered(c, pong)
  BY <1>3, AnsweredKeeps
<1>4. CASE Tick
  BY <1>4, TickKeeps
<1>5. CASE \E slept \in BOOLEAN : Wakeup(slept)
  BY <1>5, WakeupKeeps
<1>6. CASE NatPing \/ NatPong \/ QueryFailed \/ Sample \/ Destroy \/ UNCHANGED vars
  BY <1>6, SmallStepsKeep
<1> QED
  BY <1>1, <1>2, <1>3, <1>4, <1>5, <1>6 DEF Next

\* Everything the proofs of this module rest on.
THEOREM Invariance == Spec => []IInv
BY InvInit, InvStep, PTL DEF Spec

\* Every variable keeps a value of its type, and a call of _updateNetworkState()
\* that awaits its probe was made with an address known and pings missing.
THEOREM TypeCorrect == Spec => []TypeOK
<1>1. IInv => TypeOK
  BY DEF IInv, Identity, Clock, Calls, CallOK, BootOK, BootState, TypeOK, Longest
<1> QED
  BY <1>1, Invariance, PTL

-----------------------------------------------------------------------------
(* Turning persistent. *)

\* What PersistentIsCurrent and PersistentIsEarned say of a step.
Current ==
    /\ ~firewalled' /\ nat'.port # 0 /\ own' = nat' /\ nat'.host = nat.host
    /\ \A c \in Caller : Ends(c) => update[c].addr = nat

Earned ==
    IF \E c \in Caller : Ends(c)
    THEN \A c \in Caller : Ends(c) => update[c].earned
    ELSE owed' = 0

\* Only the call that returns ends.
LEMMA ReturnEnds ==
    ASSUME Calls, NEW c \in Caller, NEW result \in BOOLEAN, Return(c, result)
    PROVE  /\ Ends(c) <=> update[c].pc # "idle"
           /\ \A d \in Caller : Ends(d) => d = c
<1>1. /\ update'[c].pc = "idle"
      /\ \A d \in Caller : d # c => update'[d] = update[d]
  BY DEF Return, Calls, Idle
<1> QED
  BY <1>1 DEF Ends

\* A probe turns the node persistent only under the address it began with.
LEMMA OpenTurns ==
    ASSUME IInv, NEW c \in Caller, nat.host # NoHost, update[c].pc # "idle", Open(c),
           TurnsPersistent
    PROVE  Current /\ (kind = "adaptive" => Earned)
<1>1. ephemeral /\ update[c].addr = nat
  BY DEF Open, TurnsPersistent
<1>2. /\ ~firewalled' /\ Return(c, TRUE)
      /\ Adopt(update[c].only, [nat EXCEPT !.port = ServerPort])
  BY <1>1 DEF Open
<1>3. ~update[c].only
  BY <1>2 DEF Adopt, TurnsPersistent
<1>4. Ends(c) /\ \A d \in Caller : Ends(d) => d = c
  BY <1>2, ReturnEnds DEF IInv
<1>5. nat'.port # 0 /\ own' = nat' /\ nat'.host = nat.host
  <2>1. nat' = [nat EXCEPT !.port = ServerPort] /\ own' = nat'
    BY <1>2 DEF Adopt
  <2>2. nat' \in Address /\ nat'.host = nat.host
    BY <2>1, ShownIsAddress DEF IInv, Identity
  <2> QED
    BY <2>1, <2>2, PortsPositive
<1>6. kind = "adaptive" => update[c].earned
  BY <1>3 DEF IInv, Calls, CallOK
<1> QED
  BY <1>1, <1>2, <1>4, <1>5, <1>6 DEF Current, Earned

\* A call that needs no probe turns the node persistent at once.
LEMMA CheckTurns ==
    ASSUME IInv, NEW c \in Caller, update[c] = Idle, kind = "adaptive" => owed' = 0,
           Check(c), TurnsPersistent
    PROVE  Current /\ (kind = "adaptive" => Earned)
<1>1. /\ Known /\ ~firewalled /\ UNCHANGED firewalled
      /\ Adopt(onlyFirewall(c), nat) /\ Return(c, TRUE)
  BY DEF Check, Closed, Probe, Ask, TurnsPersistent
<1>2. \A d \in Caller : ~Ends(d)
  <2>1. update[c].pc = "idle" /\ Calls
    BY DEF IInv, Idle
  <2>2. ~Ends(c)
    BY <2>1 DEF Ends
  <2> QED
    BY <1>1, <2>1, <2>2, ReturnEnds
<1> QED
  BY <1>1, <1>2 DEF Current, Earned, Adopt, Known

\* Every step that turns the node persistent.
LEMMA StepTurns ==
    ASSUME IInv, [Next]_vars, TurnsPersistent
    PROVE  Current /\ (kind = "adaptive" => Earned)
<1>1. ephemeral' # ephemeral
  BY DEF TurnsPersistent
<1>2. CASE QueryDone
  <2>1. Check("bootstrap") /\ update["bootstrap"] = Idle /\ "bootstrap" \in Caller
    BY <1>1, <1>2 DEF QueryDone, Querying, Caller
  <2>2. kind # "adaptive"
    BY <2>1 DEF Check, Adopt, Closed, Probe, Ask, onlyFirewall, TurnsPersistent
  <2> QED
    BY <2>1, <2>2, CheckTurns
<1>3. CASE \E c \in Caller : Resolve(c)
  BY <1>1, <1>3 DEF Resolve, Closed, Ask
<1>4. ASSUME NEW c \in Caller, NEW pong \in BOOLEAN, Answered(c, pong)
      PROVE  Current /\ (kind = "adaptive" => Earned)
  <2>1. nat.host # NoHost /\ Open(c)
    BY <1>1, <1>4 DEF Answered, Settle, Verdict, Closed
  <2> QED
    BY <1>4, <2>1, OpenTurns DEF Answered
<1>5. CASE Tick
  <2>1. PICK c \in Ticker : update[c] = Idle /\ Check(c) /\ kind = "adaptive" /\ stable <= 1
    BY <1>1, <1>5 DEF Tick
  <2>2. owed' = 0
    BY <1>5, <2>1, TickOwes DEF IInv, Clock, Longest
  <2> QED
    BY <2>1, <2>2, TickersCheckAll, CheckTurns
<1>6. CASE \E slept \in BOOLEAN : Wakeup(slept)
  BY <1>6 DEF Wakeup, TurnsPersistent
<1>7. CASE NatPing \/ NatPong \/ QueryFailed \/ Sample \/ Destroy \/ UNCHANGED vars
  BY <1>1, <1>7 DEF NatPing, NatPong, QueryFailed, Sample, Destroy, vars, identityVars
<1> QED
  BY <1>2, <1>3, <1>4, <1>5, <1>6, <1>7 DEF Next

\* A node turns persistent under the address it has now and had when the check
\* began, with the id of that address: what _updateNetworkState() captured before
\* its await is not stale when it is used, whatever the samples did meanwhile and
\* however many checks overlap.
THEOREM NeverStale == Spec => PersistentIsCurrent
<1>1. IInv /\ [Next]_vars => (TurnsPersistent => Current)
  BY StepTurns
<1>2. IInv /\ [Next]_vars =>
        [TurnsPersistent =>
           /\ ~firewalled' /\ nat'.port # 0 /\ own' = nat' /\ nat'.host = nat.host
           /\ \A c \in Caller : Ends(c) => update[c].addr = nat]_vars
  BY <1>1 DEF Current
<1> QED
  BY <1>2, Invariance, PTL DEF Spec, PersistentIsCurrent

\* An adaptive node turns persistent only by a check that began when nothing of
\* STABLE_TICKS, or of MORE_STABLE_TICKS after a wakeup, was left to wait for.
THEOREM NeverEarly == Spec => PersistentIsEarned
<1>1. IInv /\ [Next]_vars => (kind = "adaptive" /\ TurnsPersistent => Earned)
  BY StepTurns
<1>2. IInv /\ [Next]_vars =>
        [kind = "adaptive" /\ TurnsPersistent =>
           IF \E c \in Caller : Ends(c)
           THEN \A c \in Caller : Ends(c) => update[c].earned
           ELSE owed' = 0]_vars
  BY <1>1 DEF Earned
<1> QED
  BY <1>2, Invariance, PTL DEF Spec, PersistentIsEarned
=============================================================================
