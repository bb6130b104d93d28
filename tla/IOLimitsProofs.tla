--------------------------- MODULE IOLimitsProofs ---------------------------
(***************************************************************************)
(* More theorems about IO: the limits of the window, who acts next on a    *)
(* request, the statistics, the ids, and how often a request is sent.      *)
(* Each part is inductive together with the invariant IInv of IOProofs.    *)
(***************************************************************************)
EXTENDS IOProofs

-----------------------------------------------------------------------------
(* What _drain() shifts off the queue.                                       *)

\* What is left of a sequence without its first k elements.
LEMMA DropFacts ==
    ASSUME NEW S, NEW s \in Seq(S), NEW k \in 0..Len(s), NEW t, t = SubSeq(s, k + 1, Len(s))
    PROVE  /\ t \in Seq(S) /\ Len(t) = Len(s) - k /\ DOMAIN t = 1..Len(s) - k
           /\ \A j \in 1..Len(s) - k : t[j] = s[k + j]
<1> DEFINE n == Len(s)
<1>1. n \in Nat /\ \A i \in 1..n : s[i] \in S
  BY LenProperties, ElementOfSeq
<1>2. k \in Nat /\ k <= n /\ k + 1 \in Int /\ n \in Int
  BY <1>1
<1>3. \A i \in k + 1 .. n : s[i] \in S
  BY <1>1, <1>2
<1>4. t \in Seq(S) /\ Len(t) = (IF k + 1 <= n THEN n - (k + 1) + 1 ELSE 0)
      /\ \A j \in 1..n - (k + 1) + 1 : t[j] = s[k + 1 + j - 1]
  BY <1>2, <1>3, SubSeqProperties
<1>5. DOMAIN t = 1..Len(t)
  BY <1>4, LenProperties
<1> HIDE DEF n
<1>6. Len(t) = n - k
  BY <1>2, <1>4
<1>7. \A j \in 1..n - k : t[j] = s[k + j]
  <2> SUFFICES ASSUME NEW j \in 1..n - k PROVE t[j] = s[k + j]
    OBVIOUS
  <2>1. j \in 1..n - (k + 1) + 1 /\ k + 1 + j - 1 = k + j
    BY <1>2
  <2> QED
    BY <1>4, <2>1
<1> QED
  BY <1>4, <1>5, <1>6, <1>7 DEF n

\* The positions shifted are the first ones.
LEMMA ShiftedIsPrefix ==
    ASSUME Typed, NEW w, Good(w)
    PROVE  /\ Cardinality(Shifted(w)) \in 0..Len(pending)
           /\ Shifted(w) = 1..Cardinality(Shifted(w))
<1> DEFINE n == Len(pending)
           S == Shifted(w)
           k == Cardinality(S)
<1>1. n \in Nat /\ n \in Int /\ 1 \in Int /\ Room(w) \in Nat
  BY LenProperties, RoomNat DEF Typed, TypeOK
<1>2. IsFiniteSet(1..n) /\ Cardinality(1..n) = n
  <2> HIDE DEF n
  <2> QED
    BY <1>1, FS_Interval
<1>3. S \in SUBSET (1..n)
  BY DEF Shifted
<1>4. IsFiniteSet(S) /\ k \in Nat /\ k <= n
  BY <1>2, <1>3, FS_Subset, FS_CardinalityType
<1>5. ASSUME NEW i \in S PROVE 1..i \subseteq S
  <2> SUFFICES ASSUME NEW j \in 1..i PROVE j \in S
    OBVIOUS
  <2>1. i \in 1..n /\ j \in 1..n /\ LiveBefore(i) < Room(w)
    BY <1>1, <1>3, <1>5 DEF Shifted
  <2> DEFINE A == {m \in 1..j - 1 : pending[m] \notin destroyed}
             B == {m \in 1..i - 1 : pending[m] \notin destroyed}
  <2>2. A \in SUBSET B /\ B \in SUBSET (1..n)
    BY <1>1, <2>1
  <2>3. Cardinality(A) <= Cardinality(B) /\ Cardinality(A) \in Nat /\ Cardinality(B) \in Nat
    BY <1>2, <2>2, FS_Subset, FS_CardinalityType
  <2>4. LiveBefore(j) < Room(w)
    BY <1>1, <2>1, <2>3 DEF LiveBefore
  <2> QED
    BY <2>1, <2>4 DEF Shifted
<1>6. S \subseteq 1..k
  <2> SUFFICES ASSUME NEW i \in S PROVE i \in 1..k
    OBVIOUS
  <2>1. i \in 1..n
    BY <1>3
  <2>2. i \in Nat /\ 1..i \in SUBSET S
    BY <1>1, <1>5, <2>1
  <2>3. Cardinality(1..i) = i
    BY <2>2, FS_Interval
  <2> HIDE DEF S
  <2>4. i <= k
    BY <1>4, <2>2, <2>3, FS_Subset
  <2> QED
    BY <1>1, <1>4, <2>1, <2>4
<1>7. IsFiniteSet(1..k) /\ Cardinality(1..k) = k
  BY <1>4, FS_Interval
<1>8. S = 1..k
  BY <1>6, <1>7, FS_Subset
<1> QED
  BY <1>1, <1>4, <1>8

\* _drain() sends no more than the window has room for.
LEMMA DrainFits ==
    ASSUME Typed, NEW w, Good(w)
    PROVE  LET now == {r \in Request : Sends(w, r) # {}}
               n   == Cardinality(UNION {Sends(w, r) : r \in now})
           IN  n \in Nat /\ n <= Room(w)
<1> DEFINE now == {r \in Request : Sends(w, r) # {}}
           all == UNION {Sends(w, r) : r \in now}
           k   == Cardinality(Shifted(w))
<1>1. k \in 0..Len(pending) /\ Shifted(w) = 1..k /\ Len(pending) \in Nat /\ Room(w) \in Nat
  BY ShiftedIsPrefix, RoomNat, LenProperties DEF Typed, TypeOK
<1> HIDE DEF k
<1>2. all \subseteq {i \in 1..k : pending[i] \notin destroyed}
  BY <1>1 DEF Sends
<1>3. all \in SUBSET (1..k)
  BY <1>2
<1> HIDE DEF all
<1>4. IsFiniteSet(1..k) /\ all \in SUBSET (1..k)
  BY <1>1, <1>3, FS_Interval
<1>5. IsFiniteSet(all) /\ Cardinality(all) \in Nat
  BY <1>4, FS_Subset, FS_CardinalityType
<1>6. CASE k = 0
  <2>1. all = {}
    BY <1>2, <1>6
  <2>2. Cardinality(all) = 0
    BY <2>1, FS_EmptySet
  <2> QED
    BY <1>1, <2>2 DEF all
<1>7. CASE k # 0
  <2> DEFINE B == {j \in 1..k - 1 : pending[j] \notin destroyed}
  <2>1. k \in Shifted(w)
    BY <1>1, <1>7
  <2>2. Cardinality(B) < Room(w)
    BY <2>1 DEF Shifted, LiveBefore
  <2>3. B \in SUBSET (1..k) /\ IsFiniteSet(B) /\ Cardinality(B) \in Nat
    BY <1>1, <1>4, FS_Subset, FS_CardinalityType
  <2>4. all \in SUBSET (B \cup {k})
    BY <1>1, <1>2, <1>7
  <2> HIDE DEF B
  <2>5. IsFiniteSet(B \cup {k}) /\ Cardinality(B \cup {k}) <= Cardinality(B) + 1
        /\ Cardinality(B \cup {k}) \in Nat
    BY <2>3, FS_AddElement, FS_CardinalityType
  <2>6. Cardinality(all) <= Cardinality(B \cup {k})
    BY <2>4, <2>5, FS_Subset
  <2>7. Cardinality(all) <= Room(w)
    BY <1>1, <1>5, <2>2, <2>3, <2>5, <2>6
  <2> QED
    BY <1>5, <2>7 DEF all
<1> QED
  BY <1>6, <1>7

-----------------------------------------------------------------------------
(* The limits of the window.                                                 *)

\* Without forced sends every step keeps the window within its limits.
LEMMA LimitsStep ==
    ASSUME IInv, TRUE \notin Forced, WithinLimits(cw), [Next]_vars
    PROVE  WithinLimits(cw')
<1>1. Good(cw)
  BY TypedWindow DEF IInv
<1>2. ASSUME NEW r, NEW g, TrySend(r, g, FALSE) PROVE WithinLimits(cw')
  <2>1. CASE cw' = cw
    BY <2>1
  <2>2. CASE ~IsFull(cw) /\ cw' = SendN(cw, 1)
    <3>1. Room(cw) \in Nat /\ 1 <= Room(cw)
      BY <1>1, <2>2, RoomNat
    <3> QED
      BY <1>1, <2>2, <3>1, SendWithinLimits
  <2> QED
    BY <1>2, <2>1, <2>2 DEF TrySend, SendNow, Send
<1>3. WithinLimits(Recv(cw)) /\ WithinLimits(Recv(Recv(cw)))
  BY <1>1, RecvGood
<1>4. CASE CreateSome
  <2>1. PICK r \in Request, f \in Forced : TrySend(r, gen, f)
    BY <1>4 DEF CreateSome, Create
  <2>2. f = FALSE
    BY IOAssumption
  <2> QED
    BY <1>2, <2>1, <2>2
<1>5. CASE \E r \in Request : TimeoutRetry(r)
  BY <1>2, <1>5 DEF TimeoutRetry
<1>6. CASE Drain
  <2> DEFINE w == Drained(cw)
  <2>1. Good(w) /\ WithinLimits(w)
    BY <1>1, DrainedGood
  <2> DEFINE n == Cardinality(UNION {Sends(w, r) : r \in {r \in Request : Sends(w, r) # {}}})
  <2>2. cw' = SendN(w, n)
    BY <1>6 DEF Drain
  <2>3. n \in Nat /\ n <= Room(w)
    BY <2>1, DrainFits DEF IInv
  <2> HIDE DEF w, n
  <2> QED
    BY <2>1, <2>2, <2>3, SendWithinLimits
<1>7. CASE Bind \/ Rebind \/ DestroyUnbound
  <2>1. PICK order \in Orders(inflight) :
          cw' = SendN(cw, IF Len(order) <= Room(cw) THEN Len(order) ELSE Room(cw))
    BY <1>7 DEF Bind, Rebind, DestroyUnbound, BindSockets
  <2>2. Len(order) \in Nat /\ Room(cw) \in Nat
    BY <1>1, OrderFacts, RoomNat DEF IInv
  <2> QED
    BY <1>1, <2>1, <2>2, SendWithinLimits
<1>8. CASE SocketsClosed
  BY <1>8, ClearedGood DEF SocketsClosed
<1>9. CASE \/ \E q, r \in Request : Response(q, r)
           \/ \E r \in Request : TimeoutLast(r)
           \/ \E r \in Request : ClearOne(r)
           \/ \E r \in Request : SessionDestroyOne(r)
  BY <1>3, <1>9 DEF Response, TimeoutLast, ClearOne, SessionDestroyOne
<1>10. CASE Suspend \/ Resume \/ Destroy \/ DestroyClear \/ ClearDone \/ SessionDestroy
            \/ SessionDestroyDone \/ UNCHANGED vars
  BY <1>10 DEF Suspend, Resume, Destroy, DestroyClear, ClearDone, SessionDestroy,
               SessionDestroyDone, vars
<1> QED
  BY <1>4, <1>5, <1>6, <1>7, <1>8, <1>9, <1>10 DEF Next

\* The window's sums stay right and, without forced sends, its limits are kept,
\* for every size of the window and whatever order the handlers run in.
THEOREM WindowStaysSound == Spec => []WindowSound
<1>1. Init => IInv /\ WindowSound
  BY InvInit, ClearedGood DEF Init, WindowSound, Good
<1>2. IInv /\ WindowSound /\ [Next]_vars => WindowSound'
  <2> SUFFICES ASSUME IInv, WindowSound, [Next]_vars PROVE WindowSound'
    OBVIOUS
  <2>1. Typed'
    BY TypedStep
  <2> QED
    BY <2>1, LimitsStep DEF WindowSound, Typed, TypeOK
<1> QED
  BY <1>1, <1>2, Invariance, PTL DEF Spec

-----------------------------------------------------------------------------
(* Something always acts next on a request in flight.  For the retry, which   *)
(* goes out on the sockets the request was given, that has to be known with:  *)
(* once the sockets are bound, every request in flight has been given some.   *)

GivenSockets == \A r \in inflight : gen # 0 => socket[r] # 0

\* The positions of the queue.
LEMMA QueuePositions ==
    ASSUME Typed
    PROVE  /\ pending \in Seq(Request) /\ Len(pending) \in Nat
           /\ DOMAIN pending = 1..Len(pending)
BY LenProperties DEF Typed, TypeOK

\* send() leaves what it was given to the timer or the queue, and takes nobody
\* else's away.
LEMMA TrySendHands ==
    ASSUME Typed, NEW r \in Request, NEW g \in Nat, NEW f \in BOOLEAN, TrySend(r, g, f)
    PROVE  /\ \A x \in Request : x # r /\ x \in timer => x \in timer'
           /\ \A x \in Request : Queued(x) => Queued(x)'
           /\ g # 0 => r \in timer' \/ Queued(r)'
<1>1. CASE pending' = Append(pending, r) /\ timer' = timer \ {r}
  <2>1. /\ DOMAIN pending' = 1..Len(pending) + 1 /\ Len(pending) \in Nat
        /\ pending'[Len(pending) + 1] = r
        /\ \A i \in 1..Len(pending) : pending'[i] = pending[i]
    BY <1>1, QueuePositions, AppendProperties
  <2>2. Len(pending) + 1 \in DOMAIN pending' /\ DOMAIN pending \subseteq DOMAIN pending'
    BY <2>1, QueuePositions
  <2> QED
    BY <1>1, <2>1, <2>2, QueuePositions DEF Queued
<1>2. CASE pending' = pending /\ timer' \in {timer \ {r}, timer \cup {r}}
           /\ (g # 0 => r \in timer')
  BY <1>2 DEF Queued
<1> QED
  BY <1>1, <1>2 DEF TrySend, SendNow

\* The places among the first k of the queue at which _drain() sends x.
Due(x, k) == {i \in 1..k : pending[i] = x /\ x \notin destroyed}

\* What _drain() does to queue, timers and attempts: k requests go.
LEMMA DrainEffect ==
    ASSUME Typed, Drain
    PROVE  \E k \in 0..Len(pending) :
             /\ DOMAIN pending' = 1..Len(pending) - k /\ Len(pending') = Len(pending) - k
             /\ \A j \in 1..Len(pending) - k : pending'[j] = pending[k + j]
             /\ sent' = [x \in Request |-> sent[x] + Cardinality(Due(x, k))]
             /\ timer' = timer \cup {x \in Request : Due(x, k) # {}}
<1> DEFINE w == Drained(cw)
           k == Cardinality(Shifted(w))
<1>1. k \in 0..Len(pending) /\ Shifted(w) = 1..k
  <2>1. Typed /\ Good(w)
    BY TypedWindow, DrainedGood
  <2> HIDE DEF w
  <2> QED
    BY <2>1, ShiftedIsPrefix
<1>2. \A x \in Request : Sends(w, x) = Due(x, k)
  BY <1>1 DEF Sends, Due
<1>3. /\ pending' = SubSeq(pending, k + 1, Len(pending))
      /\ sent' = [x \in Request |-> sent[x] + Cardinality(Sends(w, x))]
      /\ timer' = timer \cup {x \in Request : Sends(w, x) # {}}
  BY DEF Drain
<1> HIDE DEF k, w
<1>4. /\ sent' = [x \in Request |-> sent[x] + Cardinality(Due(x, k))]
      /\ timer' = timer \cup {x \in Request : Due(x, k) # {}}
  BY <1>2, <1>3
<1>5. /\ DOMAIN pending' = 1..Len(pending) - k /\ Len(pending') = Len(pending) - k
      /\ \A j \in 1..Len(pending) - k : pending'[j] = pending[k + j]
  <2>1. pending \in Seq(Request) /\ k \in 0..Len(pending)
        /\ pending' = SubSeq(pending, k + 1, Len(pending))
    BY <1>1, <1>3, QueuePositions
  <2> QED
    BY <2>1, DropFacts
<1> QED
  BY <1>1, <1>4, <1>5

\* _drain() arms the timers of the requests in flight it shifts off the queue.
LEMMA DrainHands ==
    ASSUME IInv, Drain, NEW r \in inflight, Queued(r)
    PROVE  r \in timer' \/ Queued(r)'
<1>1. PICK k \in 0..Len(pending) :
             /\ DOMAIN pending' = 1..Len(pending) - k
             /\ \A j \in 1..Len(pending) - k : pending'[j] = pending[k + j]
             /\ timer' = timer \cup {x \in Request : Due(x, k) # {}}
  BY DrainEffect DEF IInv
<1>2. Len(pending) \in Nat /\ DOMAIN pending = 1..Len(pending)
  BY QueuePositions DEF IInv
<1>3. r \in Request /\ r \notin destroyed
  BY DEF IInv, Typed, TypeOK, Settling, KeptForMade, InFlightIsWaiting, Settled
<1>4. PICK i \in 1..Len(pending) : pending[i] = r
  BY <1>2 DEF Queued
<1>5. CASE i <= k
  <2>1. i \in Due(r, k)
    BY <1>2, <1>3, <1>4, <1>5 DEF Due
  <2> QED
    BY <1>1, <1>3, <2>1
<1>6. CASE i > k
  <2>1. i - k \in 1..Len(pending) - k /\ k + (i - k) = i
    BY <1>2, <1>6
  <2> QED
    BY <1>1, <1>4, <2>1 DEF Queued
<1> QED
  BY <1>2, <1>5, <1>6

\* What _bindSockets() does to queue, timers and attempts: it goes through the
\* requests in flight in some order, sends the first n and queues the others.
LEMMA BindEffect ==
    ASSUME IInv, BindSockets
    PROVE  \E order \in Orders(inflight), n \in Nat :
             /\ n <= Len(order)
             /\ timer' = timer \cup {order[i] : i \in 1..n}
             /\ sent' = [r \in Request |-> IF r \in {order[i] : i \in 1..n} THEN 1
                                           ELSE IF r \in inflight THEN 0 ELSE sent[r]]
             /\ Len(pending') = Len(pending) + (Len(order) - n)
             /\ DOMAIN pending' = 1..Len(pending')
             /\ \A j \in 1..Len(pending) : pending'[j] = pending[j]
             /\ \A j \in 1..Len(order) - n : pending'[Len(pending) + j] = order[n + j]
<1>1. PICK order \in Orders(inflight) :
         LET n   == IF Len(order) <= Room(cw) THEN Len(order) ELSE Room(cw)
             now == {order[i] : i \in 1..n}
         IN  /\ sent' = [r \in Request |-> IF r \in now THEN 1
                                           ELSE IF r \in inflight THEN 0 ELSE sent[r]]
             /\ timer' = timer \cup now
             /\ pending' = pending \o SubSeq(order, n + 1, Len(order))
  BY DEF BindSockets
<1> DEFINE n    == IF Len(order) <= Room(cw) THEN Len(order) ELSE Room(cw)
           rest == SubSeq(order, n + 1, Len(order))
<1>2. Typed /\ Len(order) \in Nat /\ Room(cw) \in Nat
  BY OrderFacts, TypedWindow, RoomNat DEF IInv
<1>3. n \in 0..Len(order)
  BY <1>2
<1>4. /\ timer' = timer \cup {order[i] : i \in 1..n} /\ pending' = pending \o rest
      /\ sent' = [r \in Request |-> IF r \in {order[i] : i \in 1..n} THEN 1
                                    ELSE IF r \in inflight THEN 0 ELSE sent[r]]
  BY <1>1
<1> HIDE DEF n
<1>5. /\ order \in Seq(Request) /\ rest \in Seq(Request)
      /\ rest = SubSeq(order, n + 1, Len(order))
  BY <1>2, <1>3, OrderFacts
<1> HIDE DEF rest
<1>6. /\ Len(rest) = Len(order) - n
      /\ \A j \in 1..Len(order) - n : rest[j] = order[n + j]
  BY <1>3, <1>5, DropFacts
<1>7. pending \in Seq(Request) /\ Len(pending) \in Nat /\ Len(rest) \in Nat
  BY <1>2, <1>5, QueuePositions, LenProperties
<1>8. /\ pending' \in Seq(Request) /\ Len(pending') = Len(pending) + Len(rest)
      /\ \A j \in 1..Len(pending) + Len(rest) :
           pending'[j] = IF j <= Len(pending) THEN pending[j] ELSE rest[j - Len(pending)]
  BY <1>4, <1>5, <1>7, ConcatProperties
<1>9. DOMAIN pending' = 1..Len(pending')
  BY <1>8, LenProperties
<1>10. ASSUME NEW j \in 1..Len(order) - n PROVE pending'[Len(pending) + j] = order[n + j]
  <2>1. /\ Len(pending) + j \in 1..Len(pending) + Len(rest)
        /\ ~(Len(pending) + j <= Len(pending)) /\ Len(pending) + j - Len(pending) = j
    BY <1>2, <1>3, <1>6, <1>7
  <2> QED
    BY <1>6, <1>8, <2>1
<1>11. \A j \in 1..Len(pending) : pending'[j] = pending[j]
  BY <1>7, <1>8
<1>12. n \in Nat /\ n <= Len(order) /\ Len(pending') = Len(pending) + (Len(order) - n)
  BY <1>2, <1>3, <1>6, <1>8
<1> QED
  BY <1>4, <1>6, <1>8, <1>9, <1>10, <1>11, <1>12

\* _bindSockets() sends or queues every request in flight.
LEMMA BindHands ==
    ASSUME IInv, BindSockets, NEW r \in inflight
    PROVE  r \in timer' \/ Queued(r)'
<1>1. PICK order \in Orders(inflight), n \in Nat :
             /\ n <= Len(order)
             /\ timer' = timer \cup {order[i] : i \in 1..n}
             /\ Len(pending') = Len(pending) + (Len(order) - n)
             /\ DOMAIN pending' = 1..Len(pending')
             /\ \A j \in 1..Len(order) - n : pending'[Len(pending) + j] = order[n + j]
  BY BindEffect
<1>2. Len(order) \in Nat /\ Len(pending) \in Nat /\ DOMAIN order = 1..Len(order)
  BY OrderFacts, QueuePositions, LenProperties DEF IInv
<1>3. PICK i \in 1..Len(order) : order[i] = r
  BY <1>2 DEF Orders
<1>4. CASE i <= n
  BY <1>1, <1>2, <1>3, <1>4
<1>5. CASE i > n
  <2>1. i - n \in 1..Len(order) - n /\ n + (i - n) = i
    BY <1>2, <1>5
  <2>2. Len(pending) + (i - n) \in DOMAIN pending'
    BY <1>1, <1>2, <2>1
  <2> QED
    BY <1>1, <1>3, <2>1, <2>2 DEF Queued
<1> QED
  BY <1>2, <1>4, <1>5

\* Every step leaves every request in flight somebody who acts next.
LEMMA NothingForgottenStep ==
    ASSUME IInv, NothingForgotten, GivenSockets, [Next]_vars
    PROVE  NothingForgotten' /\ GivenSockets'
<1> USE DEF IInv, Typed, TypeOK
<1>1. ASSUME NEW r \in Request, timer' = timer \ {r}, r \notin inflight',
             inflight' \subseteq inflight, UNCHANGED <<pending, gen, socket>>
      PROVE  NothingForgotten' /\ GivenSockets'
  BY <1>1 DEF NothingForgotten, GivenSockets, Queued
<1>2. CASE CreateSome
  <2>1. PICK r \in Request, f \in Forced :
          /\ TrySend(r, gen, f) /\ inflight' = inflight \cup {r}
          /\ gen' = gen /\ socket' = [socket EXCEPT ![r] = gen]
    BY <1>2 DEF CreateSome, Create, socketVars
  <2>2. /\ \A x \in Request : x # r /\ x \in timer => x \in timer'
        /\ \A x \in Request : Queued(x) => Queued(x)'
        /\ gen # 0 => r \in timer' \/ Queued(r)'
    BY <2>1, TrySendHands, IOAssumption
  <2>3. NothingForgotten'
    BY <2>1, <2>2 DEF NothingForgotten
  <2>4. GivenSockets'
    BY <2>1 DEF GivenSockets
  <2> QED
    BY <2>3, <2>4
<1>3. CASE \E q, r \in Request : Response(q, r)
  BY <1>1, <1>3 DEF Response, Leave, socketVars
<1>4. CASE \E r \in Request : TimeoutLast(r)
  BY <1>1, <1>4 DEF TimeoutLast, Leave, socketVars
<1>5. CASE \E r \in Request : TimeoutRetry(r)
  <2>1. PICK r \in Request : TrySend(r, socket[r], FALSE)
                             /\ UNCHANGED <<inflight, gen, socket>>
    BY <1>5 DEF TimeoutRetry, requestVars, socketVars
  <2>2. socket[r] \in Nat
    BY IOAssumption
  <2>3. /\ \A x \in Request : x # r /\ x \in timer => x \in timer'
        /\ \A x \in Request : Queued(x) => Queued(x)'
        /\ socket[r] # 0 => r \in timer' \/ Queued(r)'
    BY <2>1, <2>2, TrySendHands
  <2> QED
    BY <2>1, <2>3 DEF NothingForgotten, GivenSockets
<1>6. CASE Drain
  <2>1. timer \subseteq timer' /\ UNCHANGED <<inflight, gen, socket>>
    BY <1>6 DEF Drain, requestVars, socketVars
  <2>2. \A r \in inflight : Queued(r) => r \in timer' \/ Queued(r)'
    BY <1>6, DrainHands
  <2> QED
    BY <2>1, <2>2 DEF NothingForgotten, GivenSockets
<1>7. CASE Bind \/ Rebind \/ DestroyUnbound
  <2>1. BindSockets
    BY <1>7 DEF Bind, Rebind, DestroyUnbound
  <2>2. \A r \in inflight : r \in timer' \/ Queued(r)'
    BY <2>1, BindHands
  <2>3. inflight' = inflight
    BY <2>1 DEF BindSockets
  <2>4. \A r \in inflight : socket'[r] # 0
    BY <2>1, IOAssumption DEF BindSockets
  <2> QED
    BY <2>2, <2>3, <2>4 DEF NothingForgotten, GivenSockets
<1>8. CASE \E r \in Request : ClearOne(r)
  BY <1>1, <1>8 DEF ClearOne, Leave, socketVars
<1>9. CASE \E r \in Request : SessionDestroyOne(r)
  <2>1. PICK r \in Request : SessionDestroyOne(r)
    BY <1>9
  <2>2. r \in inflight /\ r \notin destroyed
    BY <2>1, SessionHead DEF SessionDestroyOne
  <2> QED
    BY <1>1, <2>1, <2>2 DEF SessionDestroyOne, Leave, socketVars
<1>10. CASE Suspend \/ Resume \/ Destroy \/ DestroyClear \/ ClearDone \/ SessionDestroy
            \/ SessionDestroyDone \/ SocketsClosed \/ UNCHANGED vars
  <2>1. UNCHANGED <<inflight, pending, timer, gen, socket>>
    BY <1>10 DEF Suspend, Resume, Destroy, DestroyClear, ClearDone, SessionDestroy,
                 SessionDestroyDone, SocketsClosed, vars, requestVars, socketVars
  <2> QED
    BY <2>1 DEF NothingForgotten, GivenSockets, Queued
<1> QED
  BY <1>2, <1>3, <1>4, <1>5, <1>6, <1>7, <1>8, <1>9, <1>10 DEF Next

\* No request in flight is ever left with nobody to act on it: it has its timer,
\* it is in the drain queue, or the sockets are yet to be bound.
THEOREM NothingIsForgotten == Spec => []NothingForgotten
<1>1. Init => NothingForgotten /\ GivenSockets
  BY DEF Init, NothingForgotten, GivenSockets
<1>2. IInv /\ NothingForgotten /\ GivenSockets /\ [Next]_vars
        => NothingForgotten' /\ GivenSockets'
  BY NothingForgottenStep
<1> QED
  BY <1>1, <1>2, Invariance, PTL DEF Spec

-----------------------------------------------------------------------------
(* The statistics.  That no node is reported twice, which the count of        *)
(* timeouts rests on, is known from the flag: a reported request is destroyed *)
(* and a destroyed request has no timer.                                      *)

Made == {r \in Request : outcome[r] # "unused"}
Answered == {r \in Request : outcome[r] = "response"}

Tallied ==
    /\ stats.total = Cardinality(Made)
    /\ stats.responses = Cardinality(Answered)
    /\ stats.timeouts = Cardinality(reported)
    /\ reported \subseteq destroyed

\* What the handlers do to the three tallies.
LEMMA StatsTallies ==
    ASSUME Typed, NEW s
    PROVE  /\ s = [stats EXCEPT !.active = @ + 1, !.total = @ + 1] =>
                s.total = stats.total + 1 /\ s.responses = stats.responses
                /\ s.timeouts = stats.timeouts
           /\ s = [stats EXCEPT !.active = @ - 1, !.responses = @ + 1] =>
                s.total = stats.total /\ s.responses = stats.responses + 1
                /\ s.timeouts = stats.timeouts
           /\ s \in {[stats EXCEPT !.timeouts = @ + 1, !.active = @ - 1],
                     [stats EXCEPT !.timeouts = @ + 1]} =>
                s.total = stats.total /\ s.responses = stats.responses
                /\ s.timeouts = stats.timeouts + 1
           /\ s \in {[stats EXCEPT !.active = @ - 1], [stats EXCEPT !.retries = @ + 1]} =>
                s.total = stats.total /\ s.responses = stats.responses
                /\ s.timeouts = stats.timeouts
<1>1. PICK a, t, p, o, q \in Nat :
        stats = [active |-> a, total |-> t, responses |-> p, timeouts |-> o, retries |-> q]
  BY DEF Typed, TypeOK, Stats
<1>2. ASSUME s = [stats EXCEPT !.active = @ + 1, !.total = @ + 1]
      PROVE  s.total = t + 1 /\ s.responses = p /\ s.timeouts = o
  BY <1>1, <1>2
<1>3. ASSUME s = [stats EXCEPT !.active = @ - 1, !.responses = @ + 1]
      PROVE  s.total = t /\ s.responses = p + 1 /\ s.timeouts = o
  BY <1>1, <1>3
<1>4. ASSUME s = [stats EXCEPT !.timeouts = @ + 1, !.active = @ - 1]
      PROVE  s.total = t /\ s.responses = p /\ s.timeouts = o + 1
  BY <1>1, <1>4
<1>5. ASSUME s = [stats EXCEPT !.timeouts = @ + 1]
      PROVE  s.total = t /\ s.responses = p /\ s.timeouts = o + 1
  BY <1>1, <1>5
<1>6. ASSUME s = [stats EXCEPT !.active = @ - 1]
      PROVE  s.total = t /\ s.responses = p /\ s.timeouts = o
  BY <1>1, <1>6
<1>7. ASSUME s = [stats EXCEPT !.retries = @ + 1]
      PROVE  s.total = t /\ s.responses = p /\ s.timeouts = o
  BY <1>1, <1>7
<1>8. stats.total = t /\ stats.responses = p /\ stats.timeouts = o
  BY <1>1
<1> QED
  BY <1>2, <1>3, <1>4, <1>5, <1>6, <1>7, <1>8, Zenon

\* One request more in a set of requests.
LEMMA OneMore ==
    ASSUME NEW S \in SUBSET Request, NEW r \in Request, r \notin S
    PROVE  Cardinality(S \cup {r}) = Cardinality(S) + 1
BY IOAssumption, FS_Subset, FS_AddElement

\* Whom a callback changes the tallies of.
LEMMA CallbackTallies ==
    ASSUME Typed, NEW r \in Request, NEW how, outcome' = [outcome EXCEPT ![r] = how]
    PROVE  /\ outcome[r] = "unused" /\ how = "waiting" =>
                Made' = Made \cup {r} /\ r \notin Made /\ Answered' = Answered
           /\ outcome[r] = "waiting" /\ how = "response" =>
                Made' = Made /\ Answered' = Answered \cup {r} /\ r \notin Answered
           /\ outcome[r] = "waiting" /\ how \in Settled \ {"response"} =>
                Made' = Made /\ Answered' = Answered
<1>1. \A x \in Request : outcome'[x] = IF x = r THEN how ELSE outcome[x]
  BY DEF Typed, TypeOK
<1>2. ASSUME outcome[r] = "unused", how = "waiting"
      PROVE  Made' = Made \cup {r} /\ r \notin Made /\ Answered' = Answered
  BY <1>1, <1>2 DEF Made, Answered
<1>3. ASSUME outcome[r] = "waiting", how = "response"
      PROVE  Made' = Made /\ Answered' = Answered \cup {r} /\ r \notin Answered
  BY <1>1, <1>3 DEF Made, Answered
<1>4. ASSUME outcome[r] = "waiting", how \in Settled \ {"response"}
      PROVE  Made' = Made /\ Answered' = Answered
  BY <1>1, <1>4 DEF Made, Answered, Settled
<1> QED
  BY <1>2, <1>3, <1>4

\* Every step keeps the tallies.
LEMMA TalliedStep ==
    ASSUME IInv, Tallied, [Next]_vars
    PROVE  Tallied'
<1> USE DEF IInv
<1>1. Typed /\ Made \subseteq Request /\ Answered \subseteq Request /\ reported \subseteq Request
  BY DEF Typed, TypeOK, Made, Answered
<1>2. ASSUME NEW r \in inflight, NEW how \in Settled \ {"response"}, Leave(r, how),
             stats' = [stats EXCEPT !.active = @ - 1], reported' = reported,
             destroyed' = destroyed \cup {r}
      PROVE  Tallied'
  <2>1. r \in Request /\ outcome[r] = "waiting"
    BY DEF Typed, TypeOK, Settling, InFlightIsWaiting
  <2>2. Made' = Made /\ Answered' = Answered
    BY <1>1, <1>2, <2>1, CallbackTallies DEF Leave
  <2> QED
    BY <1>1, <1>2, <2>2, StatsTallies DEF Tallied
<1>3. CASE CreateSome
  <2>1. PICK r \in Request : /\ outcome[r] = "unused"
                             /\ outcome' = [outcome EXCEPT ![r] = "waiting"]
                             /\ stats' = [stats EXCEPT !.active = @ + 1, !.total = @ + 1]
                             /\ UNCHANGED <<reported, destroyed>>
    BY <1>3 DEF CreateSome, Create
  <2>2. Made' = Made \cup {r} /\ r \notin Made /\ Answered' = Answered
    BY <1>1, <2>1, CallbackTallies
  <2>3. Cardinality(Made') = Cardinality(Made) + 1
    BY <1>1, <2>2, OneMore
  <2> QED
    BY <1>1, <2>1, <2>2, <2>3, StatsTallies DEF Tallied
<1>4. CASE \E q, r \in Request : Response(q, r)
  <2>1. PICK r \in Request : /\ r \in inflight
                             /\ outcome' = [outcome EXCEPT ![r] = "response"]
                             /\ stats' = [stats EXCEPT !.active = @ - 1, !.responses = @ + 1]
                             /\ UNCHANGED <<reported, destroyed>>
    BY <1>4 DEF Response, Leave
  <2>2. outcome[r] = "waiting"
    BY <2>1 DEF Settling, InFlightIsWaiting
  <2>3. Made' = Made /\ Answered' = Answered \cup {r} /\ r \notin Answered
    BY <1>1, <2>1, <2>2, CallbackTallies
  <2>4. Cardinality(Answered') = Cardinality(Answered) + 1
    BY <1>1, <2>3, OneMore
  <2> QED
    BY <1>1, <2>1, <2>3, <2>4, StatsTallies DEF Tallied
<1>5. CASE \E r \in Request : TimeoutLast(r)
  <2>1. PICK r \in Request : TimeoutLast(r)
    BY <1>5
  <2>2. /\ destroyed' = destroyed \cup {r} /\ reported' = reported \cup {r}
        /\ stats' \in {[stats EXCEPT !.timeouts = @ + 1, !.active = @ - 1],
                       [stats EXCEPT !.timeouts = @ + 1]}
    BY <2>1 DEF TimeoutLast
  <2>3. r \notin reported
    BY <2>1 DEF TimeoutLast, Tallied, Settling
  <2>4. Cardinality(reported') = Cardinality(reported) + 1
    BY <1>1, <2>2, <2>3, OneMore
  <2>5. Made' = Made /\ Answered' = Answered
    <3>1. CASE r \in inflight
      <4>1. outcome[r] = "waiting" /\ outcome' = [outcome EXCEPT ![r] = "timeout"]
        BY <2>1, <3>1 DEF TimeoutLast, Leave, Settling, InFlightIsWaiting
      <4>2. "timeout" \in Settled \ {"response"}
        BY DEF Settled
      <4> QED
        BY <1>1, <4>1, <4>2, CallbackTallies
    <3>2. CASE r \notin inflight
      BY <2>1, <3>2 DEF TimeoutLast, Made, Answered
    <3> QED
      BY <3>1, <3>2
  <2> QED
    BY <1>1, <2>2, <2>4, <2>5, StatsTallies DEF Tallied
<1>6. CASE \E r \in Request : TimeoutRetry(r)
  <2>1. stats' = [stats EXCEPT !.retries = @ + 1] /\ UNCHANGED <<outcome, reported, destroyed>>
    BY <1>6 DEF TimeoutRetry
  <2> QED
    BY <1>1, <2>1, StatsTallies DEF Tallied, Made, Answered
<1>7. CASE \/ Drain \/ Bind \/ Rebind \/ DestroyUnbound \/ Suspend \/ Resume \/ Destroy
           \/ DestroyClear \/ ClearDone \/ SocketsClosed \/ SessionDestroy
           \/ SessionDestroyDone \/ UNCHANGED vars
  <2>1. UNCHANGED <<outcome, reported, destroyed, stats>>
    BY <1>7 DEF Drain, Bind, Rebind, DestroyUnbound, BindSockets, Suspend, Resume, Destroy,
                DestroyClear, ClearDone, SocketsClosed, SessionDestroy, SessionDestroyDone,
                vars
  <2> QED
    BY <2>1 DEF Tallied, Made, Answered
<1>8. CASE \E r \in Request : ClearOne(r)
  <2>1. PICK r \in Request : ClearOne(r)
    BY <1>8
  <2> QED
    BY <1>2, <2>1 DEF ClearOne, Settled
<1>9. CASE \E r \in Request : SessionDestroyOne(r)
  <2>1. PICK r \in Request : SessionDestroyOne(r)
    BY <1>9
  <2>2. r \in inflight /\ r \notin destroyed
    BY <2>1, SessionHead DEF SessionDestroyOne
  <2> QED
    BY <1>2, <2>1, <2>2 DEF SessionDestroyOne, Settled
<1> QED
  BY <1>3, <1>4, <1>5, <1>6, <1>7, <1>8, <1>9 DEF Next

\* stats.requests always agrees with the table and with what the callbacks were
\* told, however a request leaves the table and whichever timer fires late.
THEOREM AccountsStayBalanced == Spec => []AccountsBalance
<1>1. Init => Tallied
  <2> SUFFICES ASSUME Init PROVE Tallied
    OBVIOUS
  <2>1. Made = {} /\ Answered = {} /\ reported = {}
    BY DEF Init, Made, Answered
  <2>2. stats.total = 0 /\ stats.responses = 0 /\ stats.timeouts = 0
    BY DEF Init
  <2> QED
    BY <2>1, <2>2, FS_EmptySet DEF Tallied
<1>2. IInv /\ Tallied /\ [Next]_vars => Tallied'
  BY TalliedStep
<1>3. IInv /\ Tallied => AccountsBalance
  BY DEF IInv, Counted, Tallied, AccountsBalance, Made, Answered
<1> QED
  BY <1>1, <1>2, <1>3, Invariance, PTL DEF Spec

-----------------------------------------------------------------------------
(* The ids.  The invariant counts back from the id counter, across the wrap:  *)
(* the request made last has age 0, and every other one is made fewer steps   *)
(* ago than there are requests, so that none is overtaken by the counter.     *)

\* How many ids the counter has passed since it gave out id t.
Age(t, n) == IF t < n THEN n - 1 - t ELSE TidSpace + n - 1 - t

Enough == Cardinality(Request) <= TidSpace

Recent ==
    /\ \A r \in Made : Age(tid[r], nextTid) < Cardinality(Made)
    /\ \A q, r \in Made : tid[q] = tid[r] => q = r

\* Giving out an id makes every other id one step older, until the oldest wraps.
LEMMA AgeStep ==
    ASSUME NEW t \in 0..TidSpace - 1, NEW n \in 0..TidSpace
    PROVE  LET m == IF n = TidSpace THEN 0 ELSE n
           IN  /\ Age(t, n) \in 0..TidSpace - 1
               /\ Age(m, m + 1) = 0
               /\ Age(t, n) < TidSpace - 1 => Age(t, m + 1) = Age(t, n) + 1
BY IOAssumption DEF Age

\* Making a request keeps the ids apart.
LEMMA CreateRecent ==
    ASSUME Typed, Enough, Recent, NEW r \in Request, outcome[r] = "unused",
           outcome' = [outcome EXCEPT ![r] = "waiting"],
           tid' = [tid EXCEPT ![r] = NextTid], nextTid' = NextTid + 1
    PROVE  Recent'
<1> DEFINE c == Cardinality(Made)
<1>1. Made' = Made \cup {r} /\ r \notin Made /\ Made \subseteq Request
  BY CallbackTallies DEF Made
<1>2. c \in Nat /\ Cardinality(Made') = c + 1 /\ c < TidSpace
  <2>1. IsFiniteSet(Request) /\ Made \subseteq Request /\ Made' \subseteq Request
    BY <1>1, IOAssumption
  <2>2. Cardinality(Made') = c + 1 /\ c \in Nat
    BY <1>1, <2>1, OneMore, FS_Subset, FS_CardinalityType
  <2>3. Cardinality(Made') <= Cardinality(Request) /\ Cardinality(Request) \in Nat
    BY <2>1, FS_Subset, FS_CardinalityType
  <2> QED
    BY <2>2, <2>3, IOAssumption DEF Enough
<1> HIDE DEF c
<1>3. /\ tid \in [Request -> 0..TidSpace - 1] /\ nextTid \in 0..TidSpace
      /\ \A x \in Request : tid'[x] = IF x = r THEN NextTid ELSE tid[x]
  BY DEF Typed, TypeOK
<1>4. ASSUME NEW x \in Made
      PROVE  /\ Age(tid[x], nextTid) \in Nat
             /\ Age(tid[x], nextTid') = Age(tid[x], nextTid) + 1
  <2>1. Age(tid[x], nextTid) < c /\ tid[x] \in 0..TidSpace - 1
    BY <1>1, <1>3 DEF Recent, c
  <2>2. Age(tid[x], nextTid) \in 0..TidSpace - 1
    BY <1>3, <2>1, AgeStep
  <2>3. Age(tid[x], nextTid) < TidSpace - 1
    BY <1>2, <2>1, <2>2, IOAssumption
  <2>4. Age(tid[x], NextTid + 1) = Age(tid[x], nextTid) + 1
    BY <1>3, <2>1, <2>3, AgeStep DEF NextTid
  <2> QED
    BY <2>2, <2>4
<1>5. NextTid \in 0..TidSpace - 1 /\ Age(NextTid, nextTid') = 0
  BY <1>3, IOAssumption DEF NextTid, Age
<1>6. \A x \in Made' : Age(tid'[x], nextTid') < Cardinality(Made')
  <2> SUFFICES ASSUME NEW x \in Made' PROVE Age(tid'[x], nextTid') < c + 1
    BY <1>2
  <2>1. CASE x = r
    BY <1>2, <1>3, <1>5, <2>1
  <2>2. CASE x # r
    <3>1. x \in Made /\ tid'[x] = tid[x]
      BY <1>1, <1>3, <2>2
    <3>2. Age(tid[x], nextTid) < c
      BY <3>1 DEF Recent, c
    <3> QED
      BY <1>2, <1>4, <3>1, <3>2
  <2> QED
    BY <2>1, <2>2
<1>7. \A x \in Made : tid[x] # NextTid
  <2> SUFFICES ASSUME NEW x \in Made, tid[x] = NextTid PROVE FALSE
    OBVIOUS
  <2> QED
    BY <1>4, <1>5
<1>8. \A q, x \in Made' : tid'[q] = tid'[x] => q = x
  BY <1>1, <1>3, <1>7 DEF Recent
<1> QED
  BY <1>6, <1>8 DEF Recent

\* Every step keeps the ids apart.
LEMMA RecentStep ==
    ASSUME IInv, Enough => Recent, [Next]_vars
    PROVE  (Enough => Recent)'
<1> USE DEF IInv
<1>1. ASSUME Made' = Made, UNCHANGED <<tid, nextTid>>
      PROVE  (Enough => Recent)'
  BY <1>1 DEF Recent, Enough
<1>2. ASSUME NEW r \in inflight, NEW how \in Settled, Leave(r, how)
      PROVE  Made' = Made
  <2>1. r \in Request /\ outcome[r] = "waiting"
    BY DEF Typed, TypeOK, Settling, InFlightIsWaiting
  <2> QED
    BY <1>2, <2>1, CallbackTallies DEF Leave
<1>3. CASE CreateSome
  BY <1>3, CreateRecent DEF CreateSome, Create, Enough
<1>4. CASE \E q, r \in Request : Response(q, r)
  BY <1>1, <1>2, <1>4 DEF Response, Settled
<1>5. CASE \E r \in Request : TimeoutLast(r)
  <2>1. PICK r \in Request : TimeoutLast(r)
    BY <1>5
  <2>2. Made' = Made
    BY <1>2, <2>1 DEF TimeoutLast, Settled, Made
  <2> QED
    BY <1>1, <2>1, <2>2 DEF TimeoutLast
<1>6. CASE \/ (\E r \in Request : TimeoutRetry(r)) \/ Drain \/ Bind \/ Rebind
           \/ DestroyUnbound \/ Suspend \/ Resume \/ Destroy \/ DestroyClear \/ ClearDone
           \/ SocketsClosed \/ SessionDestroy \/ SessionDestroyDone \/ UNCHANGED vars
  <2>1. UNCHANGED <<outcome, tid, nextTid>>
    BY <1>6 DEF TimeoutRetry, Drain, Bind, Rebind, DestroyUnbound, BindSockets, Suspend,
                Resume, Destroy, DestroyClear, ClearDone, SocketsClosed, SessionDestroy,
                SessionDestroyDone, vars, requestVars
  <2> QED
    BY <1>1, <2>1 DEF Made
<1>7. CASE \E r \in Request : ClearOne(r)
  BY <1>1, <1>2, <1>7 DEF ClearOne, Settled
<1>8. CASE \E r \in Request : SessionDestroyOne(r)
  <2>1. PICK r \in Request : SessionDestroyOne(r)
    BY <1>8
  <2>2. Made' = Made
    BY <1>2, <2>1 DEF SessionDestroyOne, Settled, Made
  <2> QED
    BY <1>1, <2>1, <2>2 DEF SessionDestroyOne
<1> QED
  BY <1>3, <1>4, <1>5, <1>6, <1>7, <1>8 DEF Next

\* As long as there are ids enough, no two requests share one, however often the
\* counter wraps: a reply settles the request it answers and no other.
THEOREM TidsStayDistinct == Spec => []TidsDistinct
<1>1. Init => (Enough => Recent)
  BY DEF Init, Recent, Made
<1>2. IInv /\ (Enough => Recent) /\ [Next]_vars => (Enough => Recent)'
  BY RecentStep
<1>3. (Enough => Recent) => TidsDistinct
  BY DEF TidsDistinct, Enough, Recent, Made
<1> QED
  BY <1>1, <1>2, <1>3, Invariance, PTL DEF Spec

-----------------------------------------------------------------------------
(* How often a request is sent.  Before the sockets are bound nothing goes    *)
(* out at all, so that the first bind finds every count at zero; after it a   *)
(* request is in the queue once at most, and then its timer is off.           *)

Unbound ==
    gen = 0 => pending = <<>> /\ timer = {} /\ \A r \in Request : sent[r] = 0

Fresh == \A r \in Request : outcome[r] = "unused" => sent[r] = 0

OnceQueued == \A i, j \in 1..Len(pending) : pending[i] = pending[j] => i = j

Budget(r) ==
    /\ sent[r] <= retries[r] + 1
    /\ Queued(r) /\ r \notin destroyed => r \notin timer /\ sent[r] <= retries[r]

Budgeted ==
    /\ Unbound /\ Fresh
    /\ gen <= 1 => OnceQueued /\ \A r \in Request : Budget(r)

\* A request that is not queued can be put in the queue once.
LEMMA AppendOnce ==
    ASSUME Typed, OnceQueued, NEW r \in Request, ~Queued(r), pending' = Append(pending, r)
    PROVE  OnceQueued' /\ \A x \in Request : Queued(x)' <=> Queued(x) \/ x = r
<1>1. /\ Len(pending') = Len(pending) + 1 /\ DOMAIN pending' = 1..Len(pending) + 1
      /\ pending'[Len(pending) + 1] = r /\ Len(pending) \in Nat
      /\ \A i \in 1..Len(pending) : pending'[i] = pending[i]
      /\ DOMAIN pending = 1..Len(pending)
  BY QueuePositions, AppendProperties
<1>2. \A i \in 1..Len(pending) + 1 : i \in 1..Len(pending) \/ i = Len(pending) + 1
  BY <1>1
<1>3. \A i \in 1..Len(pending) : pending[i] # r
  BY <1>1 DEF Queued
<1>4. OnceQueued'
  BY <1>1, <1>2, <1>3 DEF OnceQueued
<1>5. \A x \in Request : Queued(x)' <=> Queued(x) \/ x = r
  <2>1. 1..Len(pending) \subseteq 1..Len(pending) + 1
        /\ Len(pending) + 1 \in 1..Len(pending) + 1
    BY <1>1
  <2> QED
    BY <1>1, <1>2, <2>1 DEF Queued
<1> QED
  BY <1>4, <1>5

\* send() of a request that is not queued and has an attempt left.
LEMMA TrySendBudget ==
    ASSUME Typed, OnceQueued, \A x \in Request : Budget(x),
           NEW r \in Request, NEW g \in Nat, NEW f \in BOOLEAN, TrySend(r, g, f),
           ~Queued(r), retries' \in [Request -> Nat], sent[r] <= retries'[r],
           \A x \in Request : x # r => retries'[x] = retries[x],
           destroyed' = destroyed
    PROVE  OnceQueued' /\ \A x \in Request : Budget(x)'
<1>1. sent \in [Request -> Nat] /\ timer \subseteq Request
  BY DEF Typed, TypeOK
<1>2. CASE pending' = Append(pending, r) /\ timer' = timer \ {r} /\ sent' = sent
  <2>1. OnceQueued' /\ \A x \in Request : Queued(x)' <=> Queued(x) \/ x = r
    BY <1>2, AppendOnce
  <2>2. ASSUME NEW x \in Request PROVE Budget(x)'
    <3>1. CASE x = r
      BY <1>1, <1>2, <3>1 DEF Budget
    <3>2. CASE x # r
      BY <1>2, <2>1, <3>2 DEF Budget
    <3> QED
      BY <3>1, <3>2
  <2> QED
    BY <2>1, <2>2
<1>3. CASE /\ pending' = pending /\ timer' \subseteq timer \cup {r}
           /\ sent' \in {sent, [sent EXCEPT ![r] = @ + 1]}
  <2>1. OnceQueued' /\ \A x \in Request : Queued(x)' <=> Queued(x)
    BY <1>3 DEF OnceQueued, Queued
  <2>2. ASSUME NEW x \in Request PROVE Budget(x)'
    <3>1. CASE x = r
      BY <1>1, <1>3, <2>1, <3>1 DEF Budget
    <3>2. CASE x # r
      BY <1>1, <1>3, <2>1, <3>2 DEF Budget
    <3> QED
      BY <3>1, <3>2
  <2> QED
    BY <2>1, <2>2
<1> QED
  BY <1>2, <1>3 DEF TrySend, SendNow

\* _drain() uses one attempt of each request it sends, and leaves it in the
\* queue no more.
LEMMA DrainBudget ==
    ASSUME IInv, Budgeted, Drain
    PROVE  Budgeted'
<1>1. PICK k \in 0..Len(pending) :
             /\ DOMAIN pending' = 1..Len(pending) - k /\ Len(pending') = Len(pending) - k
             /\ \A j \in 1..Len(pending) - k : pending'[j] = pending[k + j]
             /\ sent' = [x \in Request |-> sent[x] + Cardinality(Due(x, k))]
             /\ timer' = timer \cup {x \in Request : Due(x, k) # {}}
  BY DrainEffect DEF IInv
<1>2. Typed /\ Len(pending) \in Nat /\ DOMAIN pending = 1..Len(pending)
      /\ sent \in [Request -> Nat] /\ \A x \in Request : retries[x] \in Nat
  <2>1. Typed /\ Len(pending) \in Nat /\ DOMAIN pending = 1..Len(pending)
        /\ sent \in [Request -> Nat] /\ retries \in [Request -> {0, MaxRetries}]
    BY QueuePositions DEF IInv, Typed, TypeOK
  <2> QED
    BY <2>1, IOAssumption
<1>3. UNCHANGED <<outcome, destroyed, retries, gen>>
  BY DEF Drain, requestVars, socketVars
<1>4. Len(pending') = Len(pending) - k
  BY <1>1
<1>5. ASSUME NEW x \in Request, Due(x, k) = {} PROVE sent'[x] = sent[x]
  <2>1. Cardinality(Due(x, k)) = 0
    BY <1>5, FS_EmptySet
  <2> QED
    BY <1>1, <1>2, <2>1
<1>6. ASSUME NEW x \in Request, ~Queued(x) PROVE Due(x, k) = {}
  BY <1>2, <1>6 DEF Due, Queued
<1>7. Fresh'
  <2> SUFFICES ASSUME NEW x \in Request, outcome[x] = "unused" PROVE sent'[x] = 0
    BY <1>3 DEF Fresh
  <2>1. ~Queued(x)
    BY <1>2 DEF Queued, IInv, Settling, KeptForMade
  <2> QED
    BY <1>5, <1>6, <2>1 DEF Budgeted, Fresh
<1>8. Unbound'
  <2> SUFFICES ASSUME gen = 0
               PROVE  pending' = <<>> /\ timer' = {} /\ \A r \in Request : sent'[r] = 0
    BY <1>3 DEF Unbound
  <2>1. pending = <<>> /\ timer = {} /\ \A r \in Request : sent[r] = 0
    BY DEF Budgeted, Unbound
  <2>2. \A x \in Request : Due(x, k) = {}
    BY <1>6, <2>1 DEF Queued
  <2>3. pending' \in Seq(Request) /\ Len(pending') = 0
    BY <1>1, <1>2, <1>4, <2>1, DrainTyped DEF IInv, Typed, TypeOK
  <2> QED
    BY <1>1, <1>5, <2>1, <2>2, <2>3, EmptySeq
<1>9. ASSUME gen <= 1 PROVE OnceQueued' /\ \A x \in Request : Budget(x)'
  <2>1. OnceQueued /\ \A x \in Request : Budget(x)
    BY <1>9 DEF Budgeted
  <2>2. \A i \in 1..Len(pending') : k + i \in 1..Len(pending) /\ pending'[i] = pending[k + i]
    BY <1>1, <1>2, <1>4
  <2>3. OnceQueued'
    BY <1>2, <1>4, <2>1, <2>2 DEF OnceQueued
  <2>4. \A x \in Request : Queued(x)' => Queued(x)
    BY <1>1, <1>2, <1>4, <2>2 DEF Queued
  <2> SUFFICES ASSUME NEW x \in Request PROVE Budget(x)'
    BY <2>3
  <2>5. CASE Due(x, k) = {}
    <3>1. sent'[x] = sent[x] /\ (x \in timer' => x \in timer)
      BY <1>1, <1>5, <2>5
    <3> QED
      BY <1>3, <2>1, <2>4, <3>1 DEF Budget
  <2>6. CASE Due(x, k) # {}
    <3>1. PICK i \in 1..k : pending[i] = x /\ x \notin destroyed
      BY <2>6 DEF Due
    <3>2. i \in 1..Len(pending) /\ Queued(x)
      BY <1>2, <3>1 DEF Queued
    <3>3. Due(x, k) = {i}
      BY <1>2, <2>1, <3>1, <3>2 DEF Due, OnceQueued
    <3>4. sent'[x] = sent[x] + 1
      BY <1>1, <3>3, FS_Singleton
    <3>5. ~Queued(x)'
      <4> SUFFICES ASSUME NEW j \in 1..Len(pending'), pending'[j] = x PROVE FALSE
        BY <1>1, <1>4 DEF Queued
      <4>1. k + j \in 1..Len(pending) /\ pending[k + j] = x /\ k + j # i
        BY <1>2, <2>2, <3>1
      <4> QED
        BY <2>1, <3>1, <3>2, <4>1 DEF OnceQueued
    <3>6. sent[x] <= retries[x]
      BY <2>1, <3>1, <3>2 DEF Budget
    <3> QED
      BY <1>2, <1>3, <3>4, <3>5, <3>6 DEF Budget
  <2> QED
    BY <2>5, <2>6
<1> QED
  BY <1>3, <1>7, <1>8, <1>9 DEF Budgeted

\* _bindSockets() goes through the requests in flight one by one.
LEMMA OrderOnce ==
    ASSUME Typed, NEW order \in Orders(inflight)
    PROVE  /\ DOMAIN order = 1..Len(order)
           /\ \A i, j \in 1..Len(order) : order[i] = order[j] => i = j
<1> DEFINE c == Cardinality(inflight)
<1>1. c \in Nat /\ c \in Int /\ 1 \in Int /\ IsFiniteSet(inflight)
  BY FiniteFlight
<1>2. order \in Surjection(1..c, inflight)
  BY DEF Orders, Surjection
<1>3. order \in [1..c -> inflight] /\ Len(order) = c
  <2>1. order \in [1..c -> inflight]
    BY DEF Orders
  <2> QED
    BY <1>1, <2>1, LenProperties
<1> HIDE DEF c
<1>4. Cardinality(1..c) = c /\ IsFiniteSet(1..c)
  BY <1>1, FS_Interval
<1>5. Cardinality(inflight) = Cardinality(1..c)
  BY <1>4 DEF c
<1>6. order \in Injection(1..c, inflight)
  BY <1>2, <1>4, <1>5, FS_Surjection
<1> QED
  BY <1>3, <1>6 DEF Injection, IsInjective

\* The first bind gives every request in flight its first attempt, or its place
\* in the queue; a later one is beyond what is bounded here.
LEMMA BindBudget ==
    ASSUME IInv, Budgeted, BindSockets
    PROVE  Budgeted'
<1>1. PICK order \in Orders(inflight), n \in Nat :
             /\ n <= Len(order)
             /\ timer' = timer \cup {order[i] : i \in 1..n}
             /\ sent' = [r \in Request |-> IF r \in {order[i] : i \in 1..n} THEN 1
                                           ELSE IF r \in inflight THEN 0 ELSE sent[r]]
             /\ Len(pending') = Len(pending) + (Len(order) - n)
             /\ DOMAIN pending' = 1..Len(pending')
             /\ \A j \in 1..Len(order) - n : pending'[Len(pending) + j] = order[n + j]
  BY BindEffect
<1>2. /\ gen \in Nat /\ gen' = gen + 1 /\ UNCHANGED <<outcome, destroyed, retries>>
      /\ \A r \in inflight : outcome[r] = "waiting"
  BY IOAssumption DEF BindSockets, IInv, Typed, TypeOK, Settling, InFlightIsWaiting
<1>3. /\ Len(order) \in Nat /\ DOMAIN order = 1..Len(order)
      /\ \A i, j \in 1..Len(order) : order[i] = order[j] => i = j
      /\ \A i \in 1..Len(order) : order[i] \in inflight
  BY OrderFacts, OrderOnce DEF IInv
<1> DEFINE now == {order[i] : i \in 1..n}
<1>4. now \subseteq inflight
  BY <1>1, <1>3
<1>5. \A r \in Request : sent'[r] = IF r \in now THEN 1
                                    ELSE IF r \in inflight THEN 0 ELSE sent[r]
  BY <1>1
<1>6. timer' = timer \cup now
  BY <1>1
<1>7. \A i \in 1..n : order[i] \in now
  OBVIOUS
<1>8. \A r \in now : \E i \in 1..n : r = order[i]
  OBVIOUS
<1> HIDE DEF now
<1>9. Fresh'
  BY <1>2, <1>4, <1>5 DEF Fresh, Budgeted
<1>10. Unbound'
  BY <1>2 DEF Unbound
<1>11. ASSUME gen' <= 1 PROVE OnceQueued' /\ \A r \in Request : Budget(r)'
  <2>1. pending = <<>> /\ timer = {} /\ \A r \in Request : sent[r] = 0
    BY <1>2, <1>11 DEF Budgeted, Unbound
  <2>2. /\ Len(pending') = Len(order) - n
        /\ \A j \in 1..Len(pending') : pending'[j] = order[n + j] /\ n + j \in 1..Len(order)
    BY <1>1, <1>3, <2>1, EmptySeq
  <2>3. OnceQueued'
    BY <1>3, <2>2 DEF OnceQueued
  <2>4. ASSUME NEW r \in Request, Queued(r)' PROVE r \in inflight /\ r \notin now
    <3>1. PICK j \in 1..Len(pending') : order[n + j] = r /\ n + j \in 1..Len(order)
      BY <1>1, <2>2, <2>4 DEF Queued
    <3>2. ASSUME NEW i \in 1..n, r = order[i] PROVE FALSE
      <4>1. i \in 1..Len(order) /\ i # n + j
        BY <1>3, <2>2
      <4> QED
        BY <1>3, <3>1, <3>2, <4>1
    <3> QED
      BY <1>3, <1>8, <3>1, <3>2
  <2>5. \A r \in Request : retries[r] \in Nat
    <3>1. retries \in [Request -> {0, MaxRetries}]
      BY DEF IInv, Typed, TypeOK
    <3> QED
      BY <3>1, IOAssumption
  <2>6. ASSUME NEW r \in Request PROVE Budget(r)'
    <3>1. sent'[r] <= 1 /\ sent'[r] \in Nat
      BY <1>5, <2>1
    <3>2. Queued(r)' => r \notin timer' /\ sent'[r] = 0
      BY <1>5, <1>6, <2>1, <2>4
    <3> QED
      BY <1>2, <2>5, <3>1, <3>2 DEF Budget
  <2> QED
    BY <2>3, <2>6
<1> QED
  BY <1>9, <1>10, <1>11 DEF Budgeted

\* Every step keeps the attempts within their bounds.
LEMMA BudgetedStep ==
    ASSUME IInv, Budgeted, [Next]_vars
    PROVE  Budgeted'
<1>1. /\ Typed /\ retries \in [Request -> {0, MaxRetries}] /\ sent \in [Request -> Nat]
      /\ gen \in Nat /\ timer \subseteq Request /\ {0, MaxRetries} \subseteq Nat
      /\ DOMAIN pending = 1..Len(pending)
  BY QueuePositions, IOAssumption DEF IInv, Typed, TypeOK
<1>2. ASSUME timer' \subseteq timer, destroyed \subseteq destroyed',
             UNCHANGED <<pending, sent, retries, gen>>,
             \A r \in Request : outcome'[r] = "unused" => outcome[r] = "unused"
      PROVE  Budgeted'
  <2>1. Unbound' /\ Fresh'
    BY <1>2 DEF Budgeted, Unbound, Fresh
  <2>2. OnceQueued => OnceQueued'
    BY <1>2 DEF OnceQueued
  <2>3. \A r \in Request : Budget(r) => Budget(r)'
    BY <1>2 DEF Budget, Queued
  <2> QED
    BY <1>2, <2>1, <2>2, <2>3 DEF Budgeted
<1>3. ASSUME NEW r \in inflight, NEW how \in Settled, Leave(r, how)
      PROVE  \A x \in Request : outcome'[x] = "unused" => outcome[x] = "unused"
  BY <1>3 DEF Leave, Settled, IInv, Typed, TypeOK
<1>4. CASE CreateSome
  <2>1. PICK r \in Request, limit \in {0, MaxRetries}, f \in Forced : Create(r, limit, f)
    BY <1>4 DEF CreateSome
  <2>2. /\ TrySend(r, gen, f) /\ f \in BOOLEAN /\ outcome[r] = "unused"
        /\ destroyed' = destroyed /\ gen' = gen
        /\ \A x \in Request : outcome'[x] = IF x = r THEN "waiting" ELSE outcome[x]
        /\ \A x \in Request : retries'[x] = IF x = r THEN limit ELSE retries[x]
        /\ retries' \in [Request -> Nat]
    BY <1>1, <2>1, IOAssumption DEF Create, socketVars, IInv, Typed, TypeOK
  <2>3. ~Queued(r) /\ r \notin timer
    BY <1>1, <2>2 DEF Queued, IInv, Settling, KeptForMade
  <2>4. sent[r] = 0
    BY <2>2 DEF Budgeted, Fresh
  <2>5. Fresh'
    BY <1>1, <2>2 DEF Budgeted, Fresh, TrySend, SendNow
  <2>6. Unbound'
    BY <2>2, <2>3 DEF Budgeted, Unbound, TrySend, SendNow
  <2>7. ASSUME gen <= 1 PROVE OnceQueued' /\ \A x \in Request : Budget(x)'
    <3>1. OnceQueued /\ \A x \in Request : Budget(x)
      BY <2>7 DEF Budgeted
    <3>2. sent[r] <= retries'[r]
      BY <1>1, <2>2, <2>4
    <3> QED
      BY <1>1, <2>2, <2>3, <3>1, <3>2, TrySendBudget
  <2> QED
    BY <2>2, <2>5, <2>6, <2>7 DEF Budgeted
<1>5. CASE \E r \in Request : TimeoutRetry(r)
  <2>1. PICK r \in Request : TimeoutRetry(r)
    BY <1>5
  <2>2. /\ TrySend(r, socket[r], FALSE) /\ socket[r] \in Nat /\ r \in timer
        /\ ~(sent[r] > retries[r]) /\ UNCHANGED <<destroyed, gen, retries, outcome>>
    <3>1. socket[r] \in Nat
      BY IOAssumption DEF IInv, Typed, TypeOK
    <3> QED
      BY <2>1, <3>1 DEF TimeoutRetry, Exhausted, requestVars, socketVars
  <2>3. outcome[r] # "unused" /\ r \notin destroyed /\ gen # 0
    BY <2>2 DEF IInv, Settling, KeptForMade, Budgeted, Unbound
  <2>4. Fresh'
    BY <1>1, <2>2, <2>3 DEF Budgeted, Fresh, TrySend, SendNow
  <2>5. Unbound'
    BY <2>2, <2>3 DEF Unbound
  <2>6. ASSUME gen <= 1 PROVE OnceQueued' /\ \A x \in Request : Budget(x)'
    <3>1. OnceQueued /\ \A x \in Request : Budget(x)
      BY <2>6 DEF Budgeted
    <3>2. ~Queued(r)
      BY <2>2, <2>3, <3>1 DEF Budget
    <3>3. sent[r] <= retries'[r] /\ retries' \in [Request -> Nat]
      BY <1>1, <2>2
    <3> QED
      BY <1>1, <2>2, <3>1, <3>2, <3>3, TrySendBudget
  <2> QED
    BY <2>2, <2>4, <2>5, <2>6 DEF Budgeted
<1>6. CASE Drain
  BY <1>6, DrainBudget
<1>7. CASE Bind \/ Rebind \/ DestroyUnbound
  BY <1>7, BindBudget DEF Bind, Rebind, DestroyUnbound
<1>8. CASE \E q, r \in Request : Response(q, r)
  BY <1>2, <1>3, <1>8 DEF Response, Settled, socketVars
<1>9. CASE \E r \in Request : TimeoutLast(r)
  <2>1. PICK r \in Request : TimeoutLast(r)
    BY <1>9
  <2>2. \A x \in Request : outcome'[x] = "unused" => outcome[x] = "unused"
    BY <1>3, <2>1 DEF TimeoutLast, Settled
  <2> QED
    BY <1>2, <2>1, <2>2 DEF TimeoutLast, socketVars
<1>10. CASE \E r \in Request : ClearOne(r)
  BY <1>2, <1>3, <1>10 DEF ClearOne, Settled, socketVars
<1>11. CASE \E r \in Request : SessionDestroyOne(r)
  <2>1. PICK r \in Request : SessionDestroyOne(r)
    BY <1>11
  <2>2. \A x \in Request : outcome'[x] = "unused" => outcome[x] = "unused"
    BY <1>3, <2>1 DEF SessionDestroyOne, Settled
  <2> QED
    BY <1>2, <2>1, <2>2 DEF SessionDestroyOne, socketVars
<1>12. CASE Suspend \/ Resume \/ Destroy \/ DestroyClear \/ ClearDone \/ SessionDestroy
            \/ SessionDestroyDone \/ SocketsClosed \/ UNCHANGED vars
  <2>1. UNCHANGED <<outcome, pending, timer, destroyed, sent, retries, gen>>
    BY <1>12 DEF Suspend, Resume, Destroy, DestroyClear, ClearDone, SessionDestroy,
                 SessionDestroyDone, SocketsClosed, vars, requestVars, socketVars
  <2> QED
    BY <1>2, <2>1
<1> QED
  BY <1>4, <1>5, <1>6, <1>7, <1>8, <1>9, <1>10, <1>11, <1>12 DEF Next

\* Until a second bind no request is sent more often than its retries allow, is
\* queued twice, or is queued with its timer armed.
THEOREM AttemptsStayBounded == Spec => []AttemptsBounded
<1>1. Init => Budgeted
  <2> SUFFICES ASSUME Init PROVE Budgeted
    OBVIOUS
  <2>1. Unbound /\ Fresh /\ OnceQueued
    BY EmptySeq DEF Init, Unbound, Fresh, OnceQueued
  <2>2. \A r \in Request : Budget(r)
    BY IOAssumption DEF Init, Budget, Queued
  <2> QED
    BY <2>1, <2>2 DEF Budgeted
<1>2. IInv /\ Budgeted /\ [Next]_vars => Budgeted'
  BY BudgetedStep
<1>3. IInv /\ Budgeted => AttemptsBounded
  <2> SUFFICES ASSUME IInv, Budgeted, gen <= 1, NEW r \in Request
               PROVE  /\ Budget(r)
                      /\ Cardinality({i \in DOMAIN pending : pending[i] = r}) <= 1
    BY DEF AttemptsBounded, Budget
  <2>1. Budget(r) /\ OnceQueued /\ DOMAIN pending = 1..Len(pending)
    BY QueuePositions DEF Budgeted, IInv
  <2> DEFINE At == {i \in DOMAIN pending : pending[i] = r}
  <2>2. \A i, j \in At : i = j
    BY <2>1 DEF OnceQueued
  <2> HIDE DEF At
  <2>3. CASE At = {}
    <3>1. Cardinality(At) = 0
      BY <2>3, FS_EmptySet
    <3> QED
      BY <2>1, <3>1 DEF At
  <2>4. CASE At # {}
    <3>1. PICK i \in At : TRUE
      BY <2>4
    <3>2. At = {i}
      BY <2>2
    <3>3. Cardinality(At) = 1
      BY <3>2, FS_Singleton
    <3> QED
      BY <2>1, <3>3 DEF At
  <2> QED
    BY <2>3, <2>4
<1> QED
  BY <1>1, <1>2, <1>3, Invariance, PTL DEF Spec

=============================================================================
