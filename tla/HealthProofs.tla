----------------------------- MODULE HealthProofs -----------------------------
(***************************************************************************)
(* Theorems about Health, for every threshold and every number of requests *)
(* between two updates: the tick counters count the verdicts in the ring,  *)
(* and the status published is that of a plain window of verdicts.         *)
(***************************************************************************)
EXTENDS Health, SequenceTheorems, TLAPS

Reading == [responses : Nat, timeouts : Nat, verdict : Verdict \cup {"empty"}]

\* Every variable holds a value of its type.
Typed ==
    /\ responses \in Nat /\ timeouts \in Nat
    /\ ring \in [Slots -> Reading] /\ head \in {-1, 0, 1, 2, 3}
    /\ degradedTicks \in Int /\ healthyTicks \in Int
    /\ online \in BOOLEAN /\ degraded \in BOOLEAN
    /\ dhtOnline \in BOOLEAN /\ dhtDegraded \in BOOLEAN

\* The slots up to the head are filled, the others empty, until all are filled.
Warming == \A s \in Slots : ring[s].verdict = "empty" <=> s > head
Full == head # -1 /\ \A s \in Slots : ring[s].verdict # "empty"

\* What says that a slot is empty.
EmptyIsNone == \A s \in Slots : ring[s].verdict = "empty" => ring[s] = None

\* The node says of itself what health has found, and never that it is both
\* offline and degraded: what the early returns of _online() and the others
\* compare is what they were told before.
Published ==
    dhtOnline = online /\ dhtDegraded = degraded /\ (degraded => online)

IInv ==
    /\ Typed /\ TicksCountVerdicts
    /\ (Warming \/ Full) /\ EmptyIsNone
    /\ Published

NewSlot == (head + 1) % Window

-----------------------------------------------------------------------------
(* The ring as a sequence. *)

\* The slots of the ring.
LEMMA SlotFacts ==
    /\ Window = 4 /\ Slots = {0, 1, 2, 3}
    /\ \A s \in Slots : s = 0 \/ s = 1 \/ s = 2 \/ s = 3
BY HealthAssumption DEF Slots

\* A sequence with an element more.
LEMMA AppendIs ==
    ASSUME NEW S, NEW s \in Seq(S), NEW v \in S, NEW n, n = Len(s), NEW u, u = Append(s, v)
    PROVE  /\ u \in Seq(S) /\ Len(u) = n + 1 /\ u[n + 1] = v
           /\ \A i \in 1..n : u[i] = s[i]
BY AppendProperties

\* Four elements of which the first gives way to a new last one.
LEMMA ShiftIs ==
    ASSUME NEW S, NEW s \in Seq(S), Len(s) = 4, NEW v \in S, NEW u, u = Append(Tail(s), v)
    PROVE  /\ u \in Seq(S) /\ Len(u) = 4 /\ u[4] = v
           /\ \A i \in 1..3 : u[i] = s[i + 1]
<1> DEFINE t == Tail(s)
<1>1. s # <<>>
  BY EmptySeq
<1>2. t \in Seq(S) /\ Len(t) = 3 /\ \A i \in 1..Len(t) : t[i] = s[i + 1]
  BY <1>1, HeadTailProperties
<1>3. u = Append(t, v)
  OBVIOUS
<1> HIDE DEF t
<1>4. u \in Seq(S) /\ Len(u) = Len(t) + 1 /\ u[Len(t) + 1] = v
      /\ \A i \in 1..Len(t) : u[i] = t[i]
  BY <1>2, <1>3, AppendIs
<1>5. Len(u) = 4 /\ u[4] = v /\ \A i \in 1..3 : u[i] = t[i]
  <2>1. Len(t) = 3 /\ Len(t) + 1 = 4
    BY <1>2
  <2> QED
    BY <1>4, <2>1
<1>6. \A i \in 1..3 : t[i] = s[i + 1]
  <2>1. Len(t) = 3
    BY <1>2
  <2> QED
    BY <1>2, <2>1
<1> QED
  BY <1>4, <1>5, <1>6

\* How many readings there are, and where the newest ones go.
LEMMA FilledIs ==
    ASSUME Typed, Warming \/ Full
    PROVE  Filled = IF Full THEN 4 ELSE head + 1
<1>1. \A s \in Slots : ring[s].verdict \in {"none", "good", "bad", "empty"}
  BY DEF Typed, Reading, Verdict
<1>2. CASE Full
  BY <1>1, <1>2, SlotFacts DEF Full, Filled, Count, One
<1>3. CASE Warming /\ ~Full
  BY <1>1, <1>3, SlotFacts DEF Warming, Filled, Count, One, Typed
<1> QED
  BY <1>2, <1>3

\* The verdicts in the order they were put there are a sequence of verdicts.
LEMMA RecentSeq ==
    ASSUME Typed, Warming \/ Full
    PROVE  /\ Filled \in {0, 1, 2, 3, 4} /\ (head = -1 <=> Filled = 0)
           /\ Filled = IF Full THEN 4 ELSE head + 1
           /\ Recent \in Seq(Verdict) /\ Len(Recent) = Filled
           /\ \A i \in 1..Filled : Recent[i] = ring[(head - Filled + i) % 4].verdict
           /\ ~Full => \A i \in 1..Filled : Recent[i] = ring[i - 1].verdict
<1>1. Filled = (IF Full THEN 4 ELSE head + 1) /\ head \in {-1, 0, 1, 2, 3}
  BY FilledIs DEF Typed
<1>2. Filled \in {0, 1, 2, 3, 4} /\ (head = -1 <=> Filled = 0) /\ Filled \in Nat
  BY <1>1 DEF Full
<1>3. Recent = [i \in 1..Filled |-> ring[(head - Filled + i) % 4].verdict]
  BY SlotFacts DEF Recent
<1>4. ASSUME NEW i \in 1..Filled
      PROVE  /\ ring[(head - Filled + i) % 4].verdict \in Verdict
             /\ ~Full => (head - Filled + i) % 4 = i - 1
  <2>1. (head - Filled + i) % 4 \in Slots
    BY <1>1, <1>2, SlotFacts
  <2>2. ~Full => (head - Filled + i) % 4 = i - 1 /\ ~(i - 1 > head) /\ i - 1 \in Slots
    BY <1>1, <1>2, SlotFacts
  <2>3. ring[(head - Filled + i) % 4].verdict # "empty"
    BY <2>1, <2>2 DEF Full, Warming
  <2>4. ring[(head - Filled + i) % 4] \in Reading
    BY <2>1 DEF Typed
  <2> QED
    BY <2>2, <2>3, <2>4 DEF Reading
<1>5. Recent \in [1..Filled -> Verdict]
  BY <1>3, <1>4
<1>6. Recent \in Seq(Verdict) /\ Len(Recent) = Filled
  BY <1>2, <1>5, LenProperties
<1> QED
  BY <1>1, <1>2, <1>3, <1>4, <1>6

\* All four readings have the verdict v when its counter stands at four.
LEMMA AllCounted ==
    ASSUME Typed, Warming \/ Full, NEW v \in {"good", "bad"}
    PROVE  Contract!All(Recent, v) <=> Count(v) = 4
<1>1. /\ Filled \in {0, 1, 2, 3, 4} /\ Len(Recent) = Filled /\ Recent \in Seq(Verdict)
      /\ \A i \in 1..Filled : Recent[i] = ring[(head - Filled + i) % 4].verdict
      /\ (head = -1 <=> Filled = 0)
  BY RecentSeq
<1>2. DOMAIN Recent = 1..Filled
  BY <1>1, LenProperties
<1>3. Count(v) = 4 <=> \A s \in Slots : ring[s].verdict = v
  BY SlotFacts DEF Count, One
<1>4. ASSUME Count(v) = 4 PROVE Contract!All(Recent, v)
  <2>1. Filled = 4
    BY <1>3, <1>4, SlotFacts DEF Filled, Count, One
  <2>2. \A i \in 1..4 : (head - 4 + i) % 4 \in Slots
    BY SlotFacts DEF Typed
  <2>3. \A i \in 1..4 : Recent[i] = v
    BY <1>1, <1>3, <1>4, <2>1, <2>2
  <2>4. {Recent[i] : i \in DOMAIN Recent} = {v}
    BY <1>2, <2>1, <2>3
  <2> QED
    BY <1>1, <2>1, <2>4 DEF Contract!All, Contract!ToSet
<1>5. ASSUME Contract!All(Recent, v) PROVE Count(v) = 4
  <2>1. Filled = 4 /\ {Recent[i] : i \in DOMAIN Recent} = {v}
    BY <1>1, <1>5 DEF Contract!All, Contract!ToSet
  <2>2. \A i \in 1..4 : ring[(head - 4 + i) % 4].verdict = v
    BY <1>1, <1>2, <2>1
  <2>3. \A s \in Slots : \E i \in 1..4 : s = (head - 4 + i) % 4
    <3> SUFFICES ASSUME NEW s \in Slots PROVE \E i \in 1..4 : s = (head - 4 + i) % 4
      OBVIOUS
    <3> DEFINE j == ((s - head + 3) % 4) + 1
    <3>1. j \in 1..4 /\ s = (head - 4 + j) % 4
      BY SlotFacts DEF Typed
    <3> QED
      BY <3>1
  <2> QED
    BY <1>3, <2>2, <2>3
<1> QED
  BY <1>4, <1>5
-----------------------------------------------------------------------------
(* What update() does. *)

\* A reading gets a verdict; only a verdict other than none moves the status.
Judged(v, heard) ==
    /\ v # "none"
    /\ ~Cold(NewSlot)
    /\ ~heard => v = "bad"
    /\ online' = heard
    /\ degraded' = IF ~heard \/ healthyTicks' = 4 THEN FALSE
                   ELSE IF degradedTicks' = 4 THEN TRUE
                   ELSE degraded
    /\ Publish(heard, degraded')

Abstained(v) == v = "none" /\ UNCHANGED <<online, degraded, dhtVars>>

\* The new reading takes the oldest one's slot, and the counters follow.
Put(v) ==
    /\ head' = NewSlot
    /\ ring' = [ring EXCEPT ![NewSlot] = [responses |-> responses, timeouts |-> timeouts,
                                          verdict |-> v]]
    /\ degradedTicks' = degradedTicks - One(ring[NewSlot].verdict = "bad") + One(v = "bad")
    /\ healthyTicks' = healthyTicks - One(ring[NewSlot].verdict = "good") + One(v = "good")
    /\ UNCHANGED <<responses, timeouts>>

\* An update puts a reading in the ring, with or without a judgement.
LEMMA UpdateEffect ==
    ASSUME IInv, Update
    PROVE  \E v \in Verdict, heard \in BOOLEAN : Put(v) /\ (Judged(v, heard) \/ Abstained(v))
<1> DEFINE new     == (head + 1) % Window
           known   == head # -1
           got     == IF known THEN responses - ring[head].responses ELSE 0
           lost    == IF known THEN timeouts - ring[head].timeouts ELSE 0
           idle    == got + lost < Threshold
           judged  == ~Cold(new) /\ ~idle
           bad     == lost > got
           verdict == IF ~judged THEN "none" ELSE IF bad THEN "bad" ELSE "good"
           heard   == got > 0
<1>1. got \in Int /\ lost \in Int
  <2>1. known => ring[head] \in Reading
    BY SlotFacts DEF IInv, Typed
  <2> QED
    BY <2>1 DEF IInv, Typed, Reading
<1>2. /\ head' = new
      /\ ring' = [ring EXCEPT ![new] = [responses |-> responses, timeouts |-> timeouts,
                                        verdict |-> verdict]]
      /\ degradedTicks' = IF verdict = "bad"
                          THEN degradedTicks - (IF ring[new].verdict = "bad" THEN 1 ELSE 0) + 1
                          ELSE degradedTicks - (IF ring[new].verdict = "bad" THEN 1 ELSE 0)
      /\ healthyTicks' = IF verdict = "good"
                         THEN healthyTicks - (IF ring[new].verdict = "good" THEN 1 ELSE 0) + 1
                         ELSE healthyTicks - (IF ring[new].verdict = "good" THEN 1 ELSE 0)
      /\ UNCHANGED <<responses, timeouts>>
  BY DEF Update
<1>3. IF judged
      THEN /\ online' = heard
           /\ degraded' = IF ~online' \/ healthyTicks' = Window THEN FALSE
                          ELSE IF degradedTicks' = Window THEN TRUE
                          ELSE degraded
           /\ Publish(online', degraded')
      ELSE UNCHANGED <<online, degraded, dhtVars>>
  BY DEF Update
<1>4. judged => (~heard => bad)
  BY <1>1, HealthAssumption
<1>5. verdict \in Verdict /\ (verdict = "none" <=> ~judged) /\ (judged /\ bad => verdict = "bad")
  BY DEF Verdict
<1>6. new = NewSlot /\ heard \in BOOLEAN
  BY DEF NewSlot
<1> HIDE DEF judged, bad, verdict, heard, new
<1>7. Put(verdict)
  BY <1>2, <1>6, SlotFacts DEF Put, One, IInv, Typed
<1>8. CASE judged
  <2>1. ~Cold(NewSlot)
    BY <1>6, <1>8 DEF judged
  <2>2. /\ online' = heard
        /\ degraded' = IF ~online' \/ healthyTicks' = Window THEN FALSE
                       ELSE IF degradedTicks' = Window THEN TRUE
                       ELSE degraded
        /\ Publish(online', degraded')
    BY <1>3, <1>8, Zenon
  <2>3. Window = 4
    BY SlotFacts
  <2>4. /\ degraded' = IF ~heard \/ healthyTicks' = 4 THEN FALSE
                       ELSE IF degradedTicks' = 4 THEN TRUE
                       ELSE degraded
        /\ Publish(heard, degraded')
    BY <2>2, <2>3, Zenon
  <2>5. Judged(verdict, heard)
    BY <1>4, <1>5, <1>8, <2>1, <2>2, <2>4 DEF Judged
  <2> QED
    BY <1>5, <1>6, <1>7, <2>5
<1>9. CASE ~judged
  <2>1. Abstained(verdict)
    BY <1>3, <1>5, <1>9 DEF Abstained
  <2> QED
    BY <1>5, <1>7, <2>1
<1> QED
  BY <1>8, <1>9

\* Putting a reading keeps types, shape and counts.
LEMMA PutKeeps ==
    ASSUME IInv, NEW v \in Verdict, Put(v)
    PROVE  /\ ring' \in [Slots -> Reading] /\ head' \in {0, 1, 2, 3}
           /\ degradedTicks' \in Int /\ healthyTicks' \in Int
           /\ TicksCountVerdicts' /\ (Warming \/ Full)' /\ EmptyIsNone'
           /\ Full' <=> Full \/ head' = 3
<1> USE DEF IInv, Put
<1>1. NewSlot \in Slots /\ NewSlot \in {0, 1, 2, 3}
  BY SlotFacts DEF NewSlot, Typed
<1>2. /\ ring' \in [Slots -> Reading]
      /\ \A s \in Slots : ring'[s].verdict = IF s = NewSlot THEN v ELSE ring[s].verdict
      /\ \A s \in Slots : s # NewSlot => ring'[s] = ring[s]
  BY <1>1 DEF Typed, Reading
<1>3. v # "empty"
  BY DEF Verdict
<1>4. TicksCountVerdicts'
  BY <1>1, <1>2, SlotFacts DEF TicksCountVerdicts, Count, One, Typed
<1>5. EmptyIsNone'
  BY <1>2, <1>3 DEF EmptyIsNone
<1>6. CASE Full
  <2>1. Full'
    BY <1>1, <1>2, <1>3, <1>6 DEF Full
  <2> QED
    BY <1>1, <1>2, <1>4, <1>5, <1>6, <2>1 DEF Typed, One
<1>7. CASE ~Full
  <2>1. Warming /\ head < 3 /\ NewSlot = head + 1
    BY <1>7, SlotFacts DEF Warming, Full, Typed, NewSlot
  <2>2. Warming'
    BY <1>2, <1>3, <2>1, SlotFacts DEF Warming, Typed
  <2>3. Full' <=> head' = 3
    BY <1>1, <2>2, SlotFacts DEF Warming, Full
  <2> QED
    BY <1>1, <1>2, <1>4, <1>5, <1>7, <2>2, <2>3 DEF Typed, One
<1> QED
  BY <1>6, <1>7

\* Publishing what health has found makes the node say it.
LEMMA PublishSays ==
    ASSUME Typed, Published, NEW on \in BOOLEAN, NEW deg \in BOOLEAN, deg => on,
           Publish(on, deg)
    PROVE  dhtOnline' = on /\ dhtDegraded' = deg
BY DEF Typed, Published, Publish, dhtVars

-----------------------------------------------------------------------------
(* The invariant. *)

\* The two facts about the ring as a sequence hold of the next state as well.
LEMMA RecentSeqNext ==
    (Typed /\ (Warming \/ Full))' =>
        ( /\ Filled \in {0, 1, 2, 3, 4} /\ (head = -1 <=> Filled = 0)
          /\ Filled = IF Full THEN 4 ELSE head + 1
          /\ Recent \in Seq(Verdict) /\ Len(Recent) = Filled
          /\ \A i \in 1..Filled : Recent[i] = ring[(head - Filled + i) % 4].verdict
          /\ ~Full => \A i \in 1..Filled : Recent[i] = ring[i - 1].verdict )'
<1>1. Typed /\ (Warming \/ Full) =>
          /\ Filled \in {0, 1, 2, 3, 4} /\ (head = -1 <=> Filled = 0)
          /\ Filled = IF Full THEN 4 ELSE head + 1
          /\ Recent \in Seq(Verdict) /\ Len(Recent) = Filled
          /\ \A i \in 1..Filled : Recent[i] = ring[(head - Filled + i) % 4].verdict
          /\ ~Full => \A i \in 1..Filled : Recent[i] = ring[i - 1].verdict
  BY RecentSeq
<1> QED
  BY <1>1, PTL

LEMMA AllCountedNext ==
    (Typed /\ (Warming \/ Full))' =>
        (\A v \in {"good", "bad"} : Contract!All(Recent, v) <=> Count(v) = 4)'
<1>1. Typed /\ (Warming \/ Full) =>
        \A v \in {"good", "bad"} : Contract!All(Recent, v) <=> Count(v) = 4
  BY AllCounted
<1> QED
  BY <1>1, PTL

\* The status a judgement leaves is published, and never both offline and
\* degraded.
LEMMA JudgedPublished ==
    ASSUME IInv, NEW v \in Verdict, NEW heard \in BOOLEAN, Judged(v, heard)
    PROVE  /\ online' \in BOOLEAN /\ degraded' \in BOOLEAN
           /\ dhtOnline' = heard /\ dhtDegraded' = degraded'
           /\ Published'
<1>1. degraded \in BOOLEAN /\ Typed /\ Published
  BY DEF IInv, Typed
<1>2. online' = heard /\ degraded' \in BOOLEAN /\ (degraded' => heard)
  BY <1>1, Zenon DEF Judged
<1>3. dhtOnline' = heard /\ dhtDegraded' = degraded'
  BY <1>1, <1>2, PublishSays DEF Judged
<1> QED
  BY <1>2, <1>3, Zenon DEF Published

\* reset() leaves an empty ring, online.
LEMMA ResetKeeps ==
    ASSUME IInv, Reset
    PROVE  /\ IInv'
           /\ Recent' = <<>> /\ dhtOnline' = TRUE /\ dhtDegraded' = FALSE
<1>1. dhtOnline' = TRUE /\ dhtDegraded' = FALSE
  BY PublishSays DEF IInv, Reset
<1>2. ring' \in [Slots -> Reading] /\ \A s \in Slots : ring'[s] = None
  BY DEF Reset, Empty, None, Reading
<1>3. Typed'
  <2>1. UNCHANGED <<responses, timeouts>> /\ head' = -1 /\ degradedTicks' = 0
        /\ healthyTicks' = 0 /\ online' = TRUE /\ degraded' = FALSE
    BY DEF Reset
  <2>2. /\ responses' \in Nat /\ timeouts' \in Nat /\ head' \in {-1, 0, 1, 2, 3}
        /\ degradedTicks' \in Int /\ healthyTicks' \in Int
    BY <2>1 DEF IInv, Typed
  <2> QED
    BY <1>1, <1>2, <2>1, <2>2, Zenon DEF Typed
<1>4. Warming' /\ EmptyIsNone'
  BY <1>2, SlotFacts DEF Reset, Warming, EmptyIsNone, None
<1>5. TicksCountVerdicts'
  BY <1>2, SlotFacts DEF Reset, TicksCountVerdicts, Count, One, None
<1>6. Published'
  BY <1>1 DEF Reset, Published
<1>7. Recent' = <<>>
  <2>1. Recent' \in Seq(Verdict) /\ Len(Recent') = 0
    BY <1>3, <1>4, RecentSeqNext DEF Reset
  <2> QED
    BY <2>1, EmptySeq
<1> QED
  BY <1>1, <1>3, <1>4, <1>5, <1>6, <1>7 DEF IInv

\* The invariant holds of the state the constructor makes.
LEMMA InvInit == Init => IInv
<1> SUFFICES ASSUME Init PROVE IInv
  OBVIOUS
<1>1. ring \in [Slots -> Reading] /\ \A s \in Slots : ring[s] = None
  BY DEF Init, Empty, None, Reading
<1>2. Typed /\ Published
  <2>1. /\ responses \in Nat /\ timeouts \in Nat /\ head \in {-1, 0, 1, 2, 3}
        /\ degradedTicks \in Int /\ healthyTicks \in Int
    BY DEF Init
  <2>2. online = TRUE /\ degraded = FALSE /\ dhtOnline = TRUE /\ dhtDegraded = FALSE
    BY DEF Init
  <2> QED
    BY <1>1, <2>1, <2>2, Zenon DEF Typed, Published
<1>3. Warming /\ EmptyIsNone
  BY <1>1, SlotFacts DEF Init, Warming, EmptyIsNone, None
<1>4. TicksCountVerdicts
  BY <1>1, SlotFacts DEF Init, TicksCountVerdicts, Count, One, None
<1> QED
  BY <1>2, <1>3, <1>4 DEF IInv

\* Every step keeps the invariant.
LEMMA InvStep == IInv /\ [Next]_vars => IInv'
<1> SUFFICES ASSUME IInv, [Next]_vars PROVE IInv'
  OBVIOUS
<1>1. CASE Response \/ Timeout \/ UNCHANGED vars
  <2>1. UNCHANGED <<healthVars, dhtVars>> /\ responses' \in Nat /\ timeouts' \in Nat
    BY <1>1 DEF Response, Timeout, vars, IInv, Typed
  <2> QED
    BY <2>1 DEF healthVars, dhtVars, IInv, Typed, TicksCountVerdicts, Count, One, Warming, Full,
                EmptyIsNone, Published
<1>2. CASE Update
  <2>1. PICK v \in Verdict, heard \in BOOLEAN : Put(v) /\ (Judged(v, heard) \/ Abstained(v))
    BY <1>2, UpdateEffect
  <2>2. /\ ring' \in [Slots -> Reading] /\ head' \in {0, 1, 2, 3}
        /\ degradedTicks' \in Int /\ healthyTicks' \in Int
        /\ TicksCountVerdicts' /\ (Warming \/ Full)' /\ EmptyIsNone'
    BY <2>1, PutKeeps
  <2>3. /\ online' \in BOOLEAN /\ degraded' \in BOOLEAN
        /\ dhtOnline' \in BOOLEAN /\ dhtDegraded' \in BOOLEAN /\ Published'
    <3>1. CASE Judged(v, heard)
      BY <3>1, JudgedPublished
    <3>2. CASE Abstained(v)
      BY <3>2 DEF Abstained, dhtVars, IInv, Typed, Published
    <3> QED
      BY <2>1, <3>1, <3>2
  <2>4. responses' \in Nat /\ timeouts' \in Nat
    BY <2>1 DEF Put, IInv, Typed
  <2> QED
    BY <2>2, <2>3, <2>4 DEF IInv, Typed
<1>3. CASE Reset
  BY <1>3, ResetKeeps
<1> QED
  BY <1>1, <1>2, <1>3 DEF Next

\* The invariant holds in every reachable state.
THEOREM Invariance == Spec => []IInv
<1> QED
  BY InvInit, InvStep, PTL DEF Spec

\* The counters of bad and good ticks, kept by adding the newest verdict and
\* taking off the one overwritten, are the counts of the verdicts in the ring.
THEOREM TicksAreCounted == Spec => []TicksCountVerdicts
<1>1. IInv => TicksCountVerdicts
  BY DEF IInv
<1> QED
  BY <1>1, Invariance, PTL

-----------------------------------------------------------------------------
(* The ring implements a window of verdicts. *)

\* A reading put in the ring is the last verdict of the window, and the fifth
\* from the end is forgotten.
LEMMA PutRecent ==
    ASSUME IInv, IInv', NEW v \in Verdict, Put(v)
    PROVE  Recent' = Contract!Latest(Recent, v)
<1> DEFINE s == Recent
           t == Recent'
<1>1. /\ Filled \in {0, 1, 2, 3, 4} /\ Filled = IF Full THEN 4 ELSE head + 1
      /\ s \in Seq(Verdict) /\ Len(s) = Filled /\ (head = -1 <=> Filled = 0)
      /\ \A i \in 1..Filled : s[i] = ring[(head - Filled + i) % 4].verdict
      /\ ~Full => \A i \in 1..Filled : s[i] = ring[i - 1].verdict
  BY RecentSeq DEF IInv
<1>2. /\ Filled' = IF Full' THEN 4 ELSE head' + 1
      /\ t \in Seq(Verdict) /\ Len(t) = Filled'
      /\ \A i \in 1..Filled' : t[i] = ring'[(head' - Filled' + i) % 4].verdict
  BY RecentSeqNext DEF IInv
<1>3. /\ head \in {-1, 0, 1, 2, 3} /\ head' \in {0, 1, 2, 3}
      /\ head' = (head + 1) % 4 /\ head' \in Slots /\ (Full' <=> Full \/ head' = 3)
  BY PutKeeps, SlotFacts DEF Put, NewSlot, IInv, Typed
<1> HIDE DEF s, t
<1>4. /\ ring'[head'].verdict = v
      /\ \A x \in Slots : x # head' => ring'[x].verdict = ring[x].verdict
  BY <1>3 DEF Put, IInv, Typed
<1>5. CASE Full
  <2>1. Filled = 4 /\ Filled' = 4 /\ head # -1
    BY <1>1, <1>2, <1>3, <1>5 DEF Full
  <2> DEFINE u == Append(Tail(s), v)
  <2>2. /\ u \in Seq(Verdict) /\ Len(u) = 4 /\ u[4] = v
        /\ \A i \in 1..3 : u[i] = s[i + 1]
    <3>1. s \in Seq(Verdict) /\ Len(s) = 4 /\ u = Append(Tail(s), v)
      BY <1>1, <2>1
    <3> HIDE DEF u
    <3> QED
      BY <3>1, ShiftIs
  <2>3. \A i \in 1..3 : t[i] = s[i + 1]
    <3> SUFFICES ASSUME NEW i \in 1..3 PROVE t[i] = s[i + 1]
      OBVIOUS
    <3> DEFINE x == (head' - 4 + i) % 4
    <3>1. x = (head - 4 + (i + 1)) % 4 /\ x \in Slots /\ x # head'
      BY <1>3, <2>1, SlotFacts
    <3>2. t[i] = ring'[x].verdict /\ s[i + 1] = ring[x].verdict
      BY <1>1, <1>2, <2>1, <3>1
    <3> QED
      BY <1>4, <3>1, <3>2
  <2>4. t[4] = v
    <3>1. (head' - 4 + 4) % 4 = head'
      BY <1>3
    <3> QED
      BY <1>2, <1>4, <2>1, <3>1
  <2> HIDE DEF u
  <2>5. \A i \in 1..4 : t[i] = u[i]
    BY <2>2, <2>3, <2>4
  <2>6. t = u
    BY <1>2, <2>1, <2>2, <2>5, SeqEqual
  <2> QED
    BY <1>1, <2>1, <2>6 DEF Contract!Latest, u, s, t
<1>6. CASE ~Full
  <2>1. /\ Filled = head + 1 /\ head < 3 /\ head' = head + 1 /\ Filled' = Filled + 1
        /\ Filled \in {0, 1, 2, 3} /\ head \in {-1, 0, 1, 2}
    <3>1. head < 3
      BY <1>6, SlotFacts DEF IInv, Typed, Full, Warming
    <3>2. head \in {-1, 0, 1, 2}
      BY <1>3, <3>1
    <3>3. head' = head + 1
      BY <1>3, <3>2
    <3>4. Filled = head + 1
      BY <1>1, <1>6
    <3>5. Full' <=> head' = 3
      BY <1>3, <1>6
    <3>6. Filled' = IF Full' THEN 4 ELSE head' + 1
      BY <1>2
    <3>7. Filled' = head' + 1
      BY <3>2, <3>3, <3>5, <3>6
    <3> QED
      BY <3>1, <3>2, <3>3, <3>4, <3>7
  <2> DEFINE u == Append(s, v)
  <2>2. /\ u \in Seq(Verdict) /\ Len(u) = Filled + 1 /\ u[Filled + 1] = v
        /\ \A i \in 1..Filled : u[i] = s[i]
    <3>1. s \in Seq(Verdict) /\ Filled = Len(s) /\ u = Append(s, v)
      BY <1>1
    <3> HIDE DEF u
    <3> QED
      BY <3>1, AppendIs
  <2>3. \A i \in 1..Filled + 1 : \A x : x = i - 1 => t[i] = ring'[x].verdict
    <3> SUFFICES ASSUME NEW i \in 1..Filled + 1 PROVE t[i] = ring'[i - 1].verdict
      OBVIOUS
    <3>1. head' - Filled' + i = i - 1 /\ i - 1 \in {0, 1, 2, 3}
      BY <1>1, <1>3, <2>1
    <3>2. (head' - Filled' + i) % 4 = i - 1
      BY <3>1
    <3> QED
      BY <1>2, <2>1, <3>2
  <2>4. \A i \in 1..Filled : t[i] = s[i]
    <3> SUFFICES ASSUME NEW i \in 1..Filled PROVE t[i] = s[i]
      OBVIOUS
    <3>1. i - 1 \in Slots /\ i - 1 # head' /\ i \in 1..Filled + 1
      BY <1>1, <1>3, <2>1, SlotFacts
    <3> QED
      BY <1>1, <1>4, <1>6, <2>3, <3>1
  <2>5. t[Filled + 1] = v
    <3>1. Filled + 1 \in 1..Filled + 1
      BY <2>1
    <3>2. head' = (Filled + 1) - 1
      BY <2>1
    <3>3. t[Filled + 1] = ring'[head'].verdict
      <4> HIDE DEF t
      <4> QED
        BY <2>3, <3>1, <3>2
    <3> QED
      BY <1>4, <3>3
  <2> HIDE DEF u
  <2>6. \A i \in 1..Filled + 1 : t[i] = u[i]
    <3>1. \A i \in 1..Filled + 1 : i \in 1..Filled \/ i = Filled + 1
      BY <1>1
    <3> QED
      BY <2>2, <2>4, <2>5, <3>1
  <2>7. t = u
    BY <1>2, <2>1, <2>2, <2>6, SeqEqual
  <2> QED
    BY <1>1, <1>3, <2>1, <2>7 DEF Contract!Latest, u, s, t
<1> QED
  BY <1>5, <1>6

\* Every step of the ring is a step of the window of verdicts.
LEMMA ContractStep ==
    ASSUME IInv, IInv', [Next]_vars
    PROVE  [Contract!Next]_<<Recent, dhtOnline, dhtDegraded>>
<1>1. CASE Response \/ Timeout \/ UNCHANGED vars
  BY <1>1 DEF Response, Timeout, vars, healthVars, dhtVars, Recent, Filled, Count, One
<1>2. CASE Update
  <2>1. PICK v \in Verdict, heard \in BOOLEAN : Put(v) /\ (Judged(v, heard) \/ Abstained(v))
    BY <1>2, UpdateEffect
  <2>2. Recent' = Contract!Latest(Recent, v)
    BY <2>1, PutRecent
  <2>3. CASE Judged(v, heard)
    <3>1. v \in {"good", "bad"}
      BY <2>3 DEF Judged, Verdict
    <3>2. Len(Recent) >= 3
      <4>1. Full \/ NewSlot = 3
        <5>1. NewSlot \in {0, 1, 2, 3} /\ 3 \in Slots /\ Window - 1 = 3
          BY SlotFacts DEF IInv, Typed, NewSlot
        <5>2. NewSlot = 3 \/ ring[3] # None
          BY <2>3, <5>1 DEF Judged, Cold
        <5>3. ring[3] # None => Full
          BY <5>1, SlotFacts DEF IInv, Typed, Warming, Full, EmptyIsNone
        <5> QED
          BY <5>2, <5>3
      <4>2. Full \/ head = 2
        BY <4>1, SlotFacts DEF IInv, Typed, NewSlot
      <4> QED
        BY <4>2, RecentSeq DEF IInv
    <3>3. dhtOnline' = heard /\ dhtDegraded' = degraded' /\ dhtDegraded = degraded
      BY <2>1, <2>3, JudgedPublished DEF IInv, Published
    <3>4. /\ (healthyTicks' = 4 <=> Contract!All(Recent', "good"))
          /\ (degradedTicks' = 4 <=> Contract!All(Recent', "bad"))
          /\ ~(healthyTicks' = 4 /\ degradedTicks' = 4)
      <4>1. /\ (Contract!All(Recent, "good") <=> Count("good") = 4)'
            /\ (Contract!All(Recent, "bad") <=> Count("bad") = 4)'
        BY AllCountedNext DEF IInv
      <4>2. healthyTicks' = Count("good")' /\ degradedTicks' = Count("bad")'
        BY DEF IInv, TicksCountVerdicts
      <4>3. ~(Count("good")' = 4 /\ Count("bad")' = 4)
        BY DEF Count, One
      <4> QED
        BY <4>1, <4>2, <4>3
    <3>5. degraded' = IF Contract!All(Recent', "bad") /\ heard THEN TRUE
                      ELSE IF Contract!All(Recent', "good") \/ ~heard THEN FALSE
                      ELSE degraded
      BY <2>3, <3>4, Zenon DEF Judged
    <3>6. Contract!Judge(v, heard)
      BY <2>2, <2>3, <3>2, <3>3, <3>5 DEF Contract!Judge, Judged
    <3> QED
      BY <3>1, <3>6 DEF Contract!Next
  <2>4. CASE Abstained(v)
    BY <2>2, <2>4 DEF Abstained, dhtVars, Contract!Next, Contract!Abstain
  <2> QED
    BY <2>1, <2>3, <2>4
<1>3. CASE Reset
  BY <1>3, ResetKeeps DEF Contract!Next, Contract!Reset
<1> QED
  BY <1>1, <1>2, <1>3 DEF Next

\* What the node says of itself is the status of a plain window of the last four
\* verdicts, with its hysteresis, whatever the ring and the early returns do.
THEOREM Implements == Spec => ContractSpec
<1>1. Init => Contract!Init
  <2> SUFFICES ASSUME Init PROVE Contract!Init
    OBVIOUS
  <2>1. Recent \in Seq(Verdict) /\ Len(Recent) = 0
    BY InvInit, RecentSeq DEF Init, IInv
  <2> QED
    BY <2>1, EmptySeq DEF Init, Contract!Init
<1>2. IInv /\ IInv' /\ [Next]_vars => [Contract!Next]_<<Recent, dhtOnline, dhtDegraded>>
  BY ContractStep
<1> QED
  BY <1>1, <1>2, Invariance, PTL DEF Spec, ContractSpec, Contract!Spec, Contract!vars
=============================================================================
