------------------------------ MODULE IOProofs ------------------------------
(***************************************************************************)
(* Theorems about IO, for every number of requests, retries, ids, binds    *)
(* and every window size.                                                  *)
(***************************************************************************)
EXTENDS IO, FiniteSetTheorems, SequenceTheorems, TLAPS

-----------------------------------------------------------------------------
(* A session's list, whatever its length and the order in which requests      *)
(* leave it.                                                                  *)

\* A new list is empty and linked.
LEMMA NewLinked ==
    ASSUME NEW R
    PROVE  Linked(NewSession(R), R) /\ Attached(NewSession(R)) = {}
BY DEF Linked, NewSession, Attached

\* Attaching a request adds it and nothing else.
LEMMA AttachLinked ==
    ASSUME NEW R, NEW s, Linked(s, R), NEW r \in R, r \notin Attached(s)
    PROVE  /\ Linked(Attach(s, r), R)
           /\ Attached(Attach(s, r)) = Attached(s) \cup {r}
<1> DEFINE l == s.inflight
           x == s.index
           l2 == Append(l, r)
           x2 == [x EXCEPT ![r] = Len(l) + 1]
           t == [inflight |-> l2, index |-> x2]
<1>1. /\ l \in Seq(R) /\ x \in [R -> Nat] /\ Len(l) \in Nat
      /\ \A i \in 1..Len(l) : x[l[i]] = i /\ l[i] \in R
      /\ \A q \in R : x[q] # 0 => x[q] \in 1..Len(l) /\ l[x[q]] = q
  BY ElementOfSeq, LenProperties DEF Linked
<1>2. x[r] = 0
  BY <1>1 DEF Attached
<1>3. /\ l2 \in Seq(R) /\ Len(l2) = Len(l) + 1 /\ l2[Len(l) + 1] = r
      /\ \A i \in 1..Len(l) : l2[i] = l[i]
  BY <1>1, AppendProperties
<1>4. x2 \in [R -> Nat] /\ \A q \in R : x2[q] = IF q = r THEN Len(l) + 1 ELSE x[q]
  BY <1>1
<1>5. Attach(s, r) = t /\ t.inflight = l2 /\ t.index = x2
  BY DEF Attach
<1> HIDE DEF l2, x2, l, x, t
<1>6. \A i \in 1..Len(l2) : x2[l2[i]] = i
  <2> TAKE i \in 1..Len(l2)
  <2>1. CASE i = Len(l) + 1
    BY <1>3, <1>4, <2>1
  <2>2. CASE i \in 1..Len(l)
    <3>1. l2[i] = l[i] /\ l[i] \in R /\ x[l[i]] = i /\ i # 0
      BY <1>1, <1>3, <2>2
    <3> QED
      BY <1>2, <1>4, <3>1
  <2> QED
    BY <1>1, <1>3, <2>1, <2>2
<1>7. ASSUME NEW q \in R, x2[q] # 0
      PROVE  x2[q] \in 1..Len(l2) /\ l2[x2[q]] = q
  <2>1. CASE q = r
    BY <1>1, <1>3, <1>4, <2>1
  <2>2. CASE q # r
    <3>1. x2[q] = x[q] /\ x[q] \in 1..Len(l) /\ l[x[q]] = q
      BY <1>1, <1>4, <1>7, <2>2
    <3> QED
      BY <1>1, <1>3, <3>1
  <2> QED
    BY <2>1, <2>2
<1>8. Attached(t) = Attached(s) \cup {r}
  BY <1>1, <1>4, <1>5 DEF Attached, x
<1> QED
  BY <1>3, <1>4, <1>5, <1>6, <1>7, <1>8 DEF Linked, t

\* Detaching a request takes out that one and no other, wherever it was.
LEMMA DetachLinked ==
    ASSUME NEW R, NEW s, Linked(s, R), NEW r \in R
    PROVE  /\ Linked(Detach(s, r), R)
           /\ Attached(Detach(s, r)) = Attached(s) \ {r}
<1> DEFINE l == s.inflight
           x == s.index
           n == Len(l)
           i == x[r]
           last == l[n]
           rest == SubSeq(l, 1, n - 1)
<1>1. /\ l \in Seq(R) /\ x \in [R -> Nat] /\ n \in Nat
      /\ \A j \in 1..n : x[l[j]] = j /\ l[j] \in R
      /\ \A q \in R : x[q] # 0 => x[q] \in 1..n /\ l[x[q]] = q
  BY ElementOfSeq, LenProperties DEF Linked
<1>2. CASE i = 0
  <2>1. Detach(s, r) = s /\ r \notin Attached(s)
    BY <1>2 DEF Detach, Attached
  <2> QED
    BY <2>1
<1>3. ASSUME i # 0
      PROVE  /\ n \in Nat \ {0} /\ rest \in Seq(R) /\ Len(rest) = n - 1
             /\ \A j \in 1..n - 1 : rest[j] = l[j]
  <2>1. n \in Nat \ {0} /\ n - 1 \in Nat /\ i \in 1..n
    BY <1>1, <1>3
  <2>2. \A j \in 1..n - 1 : l[j] \in R
    BY <1>1, <2>1
  <2> HIDE DEF l, x, n
  <2> QED
    BY <2>1, <2>2, SubSeqProperties
<1>4. CASE i # 0 /\ i = n
  <2> DEFINE x2 == [x EXCEPT ![r] = 0]
             t  == [inflight |-> rest, index |-> x2]
  <2>1. Detach(s, r) = t /\ t.inflight = rest /\ t.index = x2
    BY <1>4 DEF Detach
  <2>2. x2 \in [R -> Nat] /\ \A q \in R : x2[q] = IF q = r THEN 0 ELSE x[q]
    BY <1>1
  <2>3. l[n] = r
    BY <1>1, <1>4
  <2> HIDE DEF l, x, x2, rest, t, n
  <2>4. \A j \in 1..Len(rest) : x2[rest[j]] = j
    BY <1>1, <1>3, <1>4, <2>2 DEF i
  <2>5. \A q \in R : x2[q] # 0 => x2[q] \in 1..Len(rest) /\ rest[x2[q]] = q
    BY <1>1, <1>3, <1>4, <2>2, <2>3
  <2>6. Attached(t) = Attached(s) \ {r}
    BY <1>1, <2>1, <2>2 DEF Attached, x
  <2> QED
    BY <1>3, <1>4, <2>1, <2>2, <2>4, <2>5, <2>6 DEF Linked, t
<1>5. CASE i # 0 /\ i # n
  <2> DEFINE l2 == [rest EXCEPT ![i] = last]
             x2 == [x EXCEPT ![r] = 0, ![last] = i]
             t  == [inflight |-> l2, index |-> x2]
  <2>1. Detach(s, r) = t /\ t.inflight = l2 /\ t.index = x2
    BY <1>5 DEF Detach
  <2>2. last \in R /\ last # r /\ x[last] = n /\ i \in 1..n - 1 /\ l[i] = r
    BY <1>1, <1>3, <1>5
  <2>3. x2 \in [R -> Nat]
        /\ \A q \in R : x2[q] = IF q = last THEN i ELSE IF q = r THEN 0 ELSE x[q]
    BY <1>1, <2>2
  <2>4. /\ l2 \in Seq(R) /\ Len(l2) = n - 1
        /\ \A j \in 1..n - 1 : l2[j] = IF j = i THEN last ELSE l[j]
    <3>1. rest \in Seq(R) /\ i \in 1..Len(rest) /\ last \in R
          /\ Len(rest) = n - 1 /\ \A j \in 1..n - 1 : rest[j] = l[j]
      BY <1>3, <1>5, <2>2
    <3> HIDE DEF rest, i, last, n, l
    <3> QED
      BY <3>1, ExceptSeq
  <2> HIDE DEF l, x, l2, x2, rest, t, n, last, i
  <2>5. ASSUME NEW j \in 1..Len(l2)
        PROVE  x2[l2[j]] = j
    <3>1. CASE j = i
      BY <2>2, <2>3, <2>4, <3>1
    <3>2. CASE j # i
      <4>1. j \in 1..n /\ j # n /\ l2[j] = l[j]
        BY <1>1, <2>4, <3>2
      <4>2. l[j] \in R /\ x[l[j]] = j
        BY <1>1, <4>1
      <4>3. l[j] # r /\ l[j] # last
        BY <1>1, <2>2, <3>2, <4>1, <4>2 DEF i
      <4> QED
        BY <2>3, <4>1, <4>2, <4>3
    <3> QED
      BY <3>1, <3>2
  <2>6. ASSUME NEW q \in R, x2[q] # 0
        PROVE  x2[q] \in 1..Len(l2) /\ l2[x2[q]] = q
    <3>1. CASE q = last
      BY <2>2, <2>3, <2>4, <3>1
    <3>2. CASE q # last
      <4>1. q # r /\ x2[q] = x[q]
        BY <2>3, <2>6, <3>2
      <4>2. x[q] \in 1..n /\ l[x[q]] = q
        BY <1>1, <2>6, <4>1
      <4>3. x[q] # n /\ x[q] # i
        BY <2>2, <3>2, <4>1, <4>2 DEF last
      <4> QED
        BY <1>1, <2>4, <4>1, <4>2, <4>3
    <3> QED
      BY <3>1, <3>2
  <2>7. Attached(t) = Attached(s) \ {r}
    BY <1>1, <1>5, <2>1, <2>2, <2>3 DEF Attached, x, i
  <2> QED
    BY <2>1, <2>3, <2>4, <2>5, <2>6, <2>7 DEF Linked, t
<1> QED
  BY <1>2, <1>4, <1>5

-----------------------------------------------------------------------------
(* The congestion window. *)

Good(w) == w \in Window /\ Balanced(w)

\* The four slots of the window.
LEMMA SlotFacts ==
    /\ 0 \in Slots /\ 1 \in Slots /\ 2 \in Slots /\ 3 \in Slots
    /\ \A s \in Slots : s = 0 \/ s = 1 \/ s = 2 \/ s = 3
    /\ Slots \subseteq Nat
BY DEF Slots

\* A window that was just cleared is sound and within its limits.
LEMMA ClearedGood == Good(Cleared) /\ WithinLimits(Cleared)
BY SlotFacts, MaxWindowAssumption DEF Good, Cleared, Window, Balanced, WithinLimits

\* recv() keeps a window sound, and within its limits if it was.
LEMMA RecvGood ==
    ASSUME NEW w, Good(w)
    PROVE  Good(Recv(w)) /\ (WithinLimits(w) => WithinLimits(Recv(w)))
<1>1. PICK i \in Slots, total \in Nat, win \in [Slots -> Nat] :
        w = [i |-> i, total |-> total, window |-> win]
  BY DEF Good, Window
<1>2. total = win[0] + win[1] + win[2] + win[3]
  BY <1>1 DEF Good, Balanced
<1>3. CASE win[i] > 0
  <2> DEFINE win2 == [win EXCEPT ![i] = @ - 1]
             v    == [i |-> i, total |-> total - 1, window |-> win2]
  <2>1. Recv(w) = v
    BY <1>1, <1>3 DEF Recv
  <2>2. win2 \in [Slots -> Nat]
    BY <1>3, SlotFacts
  <2>3. total - 1 = win2[0] + win2[1] + win2[2] + win2[3] /\ total - 1 \in Nat
    BY <1>2, <1>3, SlotFacts
  <2>4. WithinLimits(w) => WithinLimits(v)
    BY <1>1, <1>3, SlotFacts, MaxWindowAssumption DEF WithinLimits
  <2> QED
    BY <2>1, <2>2, <2>3, <2>4 DEF Good, Window, Balanced
<1>4. CASE ~(win[i] > 0)
  BY <1>1, <1>4 DEF Recv
<1> QED
  BY <1>3, <1>4

\* Sending keeps a window sound.
LEMMA SendGood ==
    ASSUME NEW w, Good(w), NEW n \in Nat
    PROVE  Good(SendN(w, n))
<1>1. PICK i \in Slots, total \in Nat, win \in [Slots -> Nat] :
        w = [i |-> i, total |-> total, window |-> win]
  BY DEF Good, Window
<1>2. total = win[0] + win[1] + win[2] + win[3]
  BY <1>1 DEF Good, Balanced
<1> DEFINE win2 == [win EXCEPT ![i] = @ + n]
           v    == [i |-> i, total |-> total + n, window |-> win2]
<1>3. SendN(w, n) = v
  BY <1>1 DEF SendN
<1>4. win2 \in [Slots -> Nat]
  BY SlotFacts
<1>5. total + n = win2[0] + win2[1] + win2[2] + win2[3] /\ total + n \in Nat
  BY <1>2, SlotFacts
<1> QED
  BY <1>3, <1>4, <1>5 DEF Good, Window, Balanced

\* A window that is not full has room for a packet.
LEMMA RoomNat ==
    ASSUME NEW w, Good(w)
    PROVE  Room(w) \in Nat /\ (~IsFull(w) => Room(w) >= 1)
<1>1. PICK i \in Slots, total \in Nat, win \in [Slots -> Nat] :
        w = [i |-> i, total |-> total, window |-> win]
  BY DEF Good, Window
<1> QED
  BY <1>1, MaxWindowAssumption DEF Room, IsFull

\* As many sends as a loop guarded by isFull() makes overrun no limit.
LEMMA SendWithinLimits ==
    ASSUME NEW w, Good(w), WithinLimits(w), NEW n \in Nat, n <= Room(w)
    PROVE  WithinLimits(SendN(w, n))
<1>1. PICK i \in Slots, total \in Nat, win \in [Slots -> Nat] :
        w = [i |-> i, total |-> total, window |-> win]
  BY DEF Good, Window
<1> DEFINE win2 == [win EXCEPT ![i] = @ + n]
           v    == [i |-> i, total |-> total + n, window |-> win2]
<1>2. SendN(w, n) = v
  BY <1>1 DEF SendN
<1>3. total <= 2 * MaxWindow /\ \A s \in Slots : win[s] <= MaxWindow
  BY <1>1 DEF WithinLimits
<1>4. total + n <= 2 * MaxWindow /\ win[i] + n <= MaxWindow
  BY <1>1, <1>3, MaxWindowAssumption DEF Room, IsFull
<1>5. \A s \in Slots : win2[s] <= MaxWindow
  BY <1>3, <1>4
<1> QED
  BY <1>2, <1>4, <1>5 DEF WithinLimits

\* drain() keeps a window sound, and within its limits if it was.
LEMMA DrainedGood ==
    ASSUME NEW w, Good(w)
    PROVE  Good(Drained(w)) /\ (WithinLimits(w) => WithinLimits(Drained(w)))
<1>1. PICK i \in Slots, total \in Nat, win \in [Slots -> Nat] :
        w = [i |-> i, total |-> total, window |-> win]
  BY DEF Good, Window
<1>2. total = win[0] + win[1] + win[2] + win[3]
  BY <1>1 DEF Good, Balanced
<1> DEFINE k    == (i + 1) % 4
           win2 == [win EXCEPT ![k] = 0]
           v    == [i |-> k, total |-> total - win[k], window |-> win2]
<1>3. Drained(w) = v
  BY <1>1 DEF Drained, NextSlot
<1>4. k \in Slots
  BY DEF Slots
<1> HIDE DEF k
<1>5. win2 \in [Slots -> Nat]
  BY SlotFacts
<1>6. total - win[k] = win2[0] + win2[1] + win2[2] + win2[3] /\ total - win[k] \in Nat
  BY <1>2, <1>4, SlotFacts
<1>7. WithinLimits(w) => WithinLimits(v)
  BY <1>1, <1>4, <1>6, SlotFacts, MaxWindowAssumption DEF WithinLimits
<1> QED
  BY <1>3, <1>4, <1>5, <1>6, <1>7 DEF Good, Window, Balanced
-----------------------------------------------------------------------------
(* The inductive invariant: the types, with the window's balance, which keeps *)
(* its counters natural numbers; the table and the callbacks agree; and the   *)
(* count of active requests is the size of the table, which keeps that count  *)
(* a natural number.                                                          *)

Typed == TypeOK /\ Balanced(cw)

LoopsFollowMode ==
    /\ mode = "destroyed" => loop \in {"idle", "destroy", "session in destroy"}
    /\ loop \in {"destroy", "session in destroy"} => mode = "destroyed"

\* Nothing is kept for a request that was never made, and the destroyed flag
\* is only set on requests that have been settled.
KeptForMade ==
    /\ \A r \in destroyed : outcome[r] \in Settled
    /\ \A r \in timer : outcome[r] # "unused"
    /\ \A i \in 1..Len(pending) : outcome[pending[i]] # "unused"

Settling ==
    /\ InFlightIsWaiting
    /\ SessionTracksFlight
    /\ DestroyedIsEmpty
    /\ KeptForMade
    /\ timer \cap destroyed = {}
    /\ LoopsFollowMode

Counted == stats.active = Cardinality(inflight)

IInv == Typed /\ Settling /\ Counted

\* The window of a well-typed state is sound.
LEMMA TypedWindow == Typed => Good(cw)
BY DEF Typed, TypeOK, Good

\* The requests in flight are finitely many.
LEMMA FiniteFlight ==
    ASSUME Typed
    PROVE  /\ IsFiniteSet(inflight) /\ Cardinality(inflight) \in Nat
           /\ \A r \in inflight : Cardinality(inflight) >= 1
<1>1. IsFiniteSet(inflight)
  BY IOAssumption, FS_Subset DEF Typed, TypeOK
<1>2. Cardinality(inflight) \in Nat /\ (Cardinality(inflight) = 0 <=> inflight = {})
  BY <1>1, FS_CardinalityType, FS_EmptySet
<1> QED
  BY <1>1, <1>2

\* The invariant holds of the state the constructor makes.
LEMMA InvInit == Init => IInv
<1> SUFFICES ASSUME Init PROVE IInv
  OBVIOUS
<1>1. Good(cw)
  BY ClearedGood DEF Init
<1>2. stats \in Stats /\ stats.active = 0
  BY DEF Init, Stats
<1>3. outcome \in [Request -> Outcome] /\ pending \in Seq(Request)
  BY DEF Init, Outcome
<1>4. socket \in [Request -> 0..MaxBinds] /\ gen \in 0..MaxBinds
  BY IOAssumption DEF Init
<1>5. sent \in [Request -> Nat] /\ retries \in [Request -> {0, MaxRetries}]
  BY DEF Init
<1>6. tid \in [Request -> 0..TidSpace - 1] /\ nextTid \in 0..TidSpace
  BY IOAssumption DEF Init
<1>7. Linked(session, Request) /\ Attached(session) = {}
  BY NewLinked DEF Init
<1>8. TypeOK
  BY <1>1, <1>2, <1>3, <1>4, <1>5, <1>6, <1>7 DEF TypeOK, Good, Init
<1>9. Settling
  BY <1>7 DEF Init, Settling, InFlightIsWaiting, SessionTracksFlight, DestroyedIsEmpty,
         LoopsFollowMode, KeptForMade
<1>10. Counted
  BY <1>2, FS_EmptySet DEF Counted, Init
<1> QED
  BY <1>1, <1>9, <1>10, <1>8 DEF IInv, Typed, Good

-----------------------------------------------------------------------------
(* Every step keeps the types. *)

\* What send() does to the variables it may change.
LEMMA TrySendTyped ==
    ASSUME Typed, NEW r \in Request, NEW g \in Nat, NEW f \in BOOLEAN, TrySend(r, g, f)
    PROVE  /\ sent' \in [Request -> Nat] /\ Good(cw') /\ wire' \subseteq Request
           /\ timer' \subseteq Request /\ pending' \in Seq(Request)
<1> USE DEF Typed, TypeOK
<1>1. Good(cw) /\ Good(SendN(cw, 1))
  BY TypedWindow, SendGood
<1>2. Append(pending, r) \in Seq(Request)
  OBVIOUS
<1>3. [sent EXCEPT ![r] = @ + 1] \in [Request -> Nat]
  OBVIOUS
<1> QED
  BY <1>1, <1>2, <1>3 DEF TrySend, SendNow, Send

\* A request that is yet to be made is in no session's list.
LEMMA NewRequest ==
    ASSUME IInv, NEW r \in Request, outcome[r] = "unused"
    PROVE  r \notin Attached(session)
BY DEF IInv, Settling, SessionTracksFlight, InFlightIsWaiting

\* createRequest() keeps the types.
LEMMA CreateTyped ==
    ASSUME IInv, NEW r \in Request, NEW limit \in {0, MaxRetries}, NEW f \in Forced,
           Create(r, limit, f)
    PROVE  Typed'
<1> USE DEF IInv, Typed, TypeOK, Create, NextTid
<1>1. gen \in Nat /\ f \in BOOLEAN
  BY IOAssumption
<1>2. /\ sent' \in [Request -> Nat] /\ Good(cw') /\ wire' \subseteq Request
      /\ timer' \subseteq Request /\ pending' \in Seq(Request)
  BY <1>1, TrySendTyped
<1>3. stats' \in Stats
  <2>1. PICK a, t, p, o, q \in Nat :
          stats = [active |-> a, total |-> t, responses |-> p, timeouts |-> o, retries |-> q]
    BY DEF Stats
  <2>2. stats' = [active |-> a + 1, total |-> t + 1, responses |-> p, timeouts |-> o,
                  retries |-> q]
    BY <2>1
  <2> QED
    BY <2>2 DEF Stats
<1>4. tid' \in [Request -> 0..TidSpace - 1] /\ nextTid' \in 0..TidSpace
  <2>1. TidSpace \in Nat \ {0} /\ nextTid \in 0..TidSpace
    BY IOAssumption
  <2>2. NextTid \in 0..TidSpace - 1 /\ NextTid + 1 \in 0..TidSpace
    BY <2>1 DEF NextTid
  <2> QED
    BY <2>2
<1>5. outcome' \in [Request -> Outcome] /\ socket' \in [Request -> 0..MaxBinds]
      /\ retries' \in [Request -> {0, MaxRetries}]
  BY DEF Outcome
<1>6. Linked(session', Request)
  BY AttachLinked, NewRequest DEF Create
<1> QED
  BY <1>2, <1>3, <1>4, <1>5, <1>6, IOAssumption DEF socketVars, Good

\* A request that is settled leaves tables of the same types.
LEMMA LeaveTyped ==
    ASSUME Typed, NEW r \in Request, NEW how \in Settled, Leave(r, how)
    PROVE  /\ outcome' \in [Request -> Outcome] /\ inflight' \subseteq Request
           /\ Linked(session', Request)
           /\ Attached(session') = Attached(session) \ {r}
<1>1. Linked(session', Request) /\ Attached(session') = Attached(session) \ {r}
  BY DetachLinked DEF Typed, TypeOK, Leave
<1> QED
  BY <1>1 DEF Typed, TypeOK, Leave, Outcome

\* Taking one request off the count of active ones.
LEMMA StatsTyped ==
    ASSUME Typed, Counted, NEW r \in inflight
    PROVE  /\ [stats EXCEPT !.active = @ - 1] \in Stats
           /\ [stats EXCEPT !.active = @ - 1].active = stats.active - 1
           /\ [stats EXCEPT !.active = @ - 1, !.responses = @ + 1] \in Stats
           /\ [stats EXCEPT !.active = @ - 1, !.responses = @ + 1].active = stats.active - 1
           /\ [stats EXCEPT !.timeouts = @ + 1, !.active = @ - 1] \in Stats
           /\ [stats EXCEPT !.timeouts = @ + 1, !.active = @ - 1].active = stats.active - 1
<1>1. PICK a, t, p, o, q \in Nat :
        stats = [active |-> a, total |-> t, responses |-> p, timeouts |-> o, retries |-> q]
  BY DEF Typed, TypeOK, Stats
<1>2. a - 1 \in Nat
  BY <1>1, FiniteFlight DEF Counted
<1>3. [stats EXCEPT !.active = @ - 1] =
      [active |-> a - 1, total |-> t, responses |-> p, timeouts |-> o, retries |-> q]
  BY <1>1
<1>4. ASSUME NEW s, s = [stats EXCEPT !.active = @ - 1, !.responses = @ + 1]
      PROVE  s = [active |-> a - 1, total |-> t, responses |-> p + 1, timeouts |-> o,
                  retries |-> q]
  BY <1>1, <1>4
<1>5. ASSUME NEW s, s = [stats EXCEPT !.timeouts = @ + 1, !.active = @ - 1]
      PROVE  s = [active |-> a - 1, total |-> t, responses |-> p, timeouts |-> o + 1,
                  retries |-> q]
  BY <1>1, <1>5
<1> QED
  BY <1>1, <1>2, <1>3, <1>4, <1>5 DEF Stats

\* The statistics an oncycle() that settles nothing leaves.
LEMMA StatsKept ==
    ASSUME Typed
    PROVE  /\ [stats EXCEPT !.timeouts = @ + 1] \in Stats
           /\ [stats EXCEPT !.timeouts = @ + 1].active = stats.active
           /\ [stats EXCEPT !.retries = @ + 1] \in Stats
           /\ [stats EXCEPT !.retries = @ + 1].active = stats.active
<1>1. PICK a, t, p, o, q \in Nat :
        stats = [active |-> a, total |-> t, responses |-> p, timeouts |-> o, retries |-> q]
  BY DEF Typed, TypeOK, Stats
<1> QED
  BY <1>1 DEF Stats

\* A reply keeps the types.
LEMMA ResponseTyped ==
    ASSUME Typed, Counted, NEW q \in Request, NEW r \in Request, Response(q, r)
    PROVE  Typed'
<1>1. Good(cw')
  BY TypedWindow, RecvGood DEF Response
<1>2. stats' \in Stats
  BY StatsTyped DEF Response
<1>3. outcome' \in [Request -> Outcome] /\ inflight' \subseteq Request
      /\ Linked(session', Request)
  BY LeaveTyped DEF Response, Settled
<1> QED
  BY <1>1, <1>2, <1>3 DEF Response, Typed, TypeOK, Good, socketVars

\* The timeout of the last attempt keeps the types.
LEMMA TimeoutLastTyped ==
    ASSUME Typed, Counted, NEW r \in Request, TimeoutLast(r)
    PROVE  Typed'
<1>1. Good(cw')
  BY TypedWindow, RecvGood DEF TimeoutLast
<1>2. stats' \in Stats
  BY StatsTyped, StatsKept DEF TimeoutLast
<1>3. outcome' \in [Request -> Outcome] /\ inflight' \subseteq Request
      /\ Linked(session', Request)
  BY LeaveTyped DEF TimeoutLast, Settled, Typed, TypeOK
<1> QED
  BY <1>1, <1>2, <1>3 DEF TimeoutLast, Typed, TypeOK, Good, socketVars

\* The timeout of an earlier attempt keeps the types.
LEMMA TimeoutRetryTyped ==
    ASSUME Typed, NEW r \in Request, TimeoutRetry(r)
    PROVE  Typed'
<1>1. socket[r] \in Nat
  BY IOAssumption DEF Typed, TypeOK
<1>2. /\ sent' \in [Request -> Nat] /\ Good(cw') /\ wire' \subseteq Request
      /\ timer' \subseteq Request /\ pending' \in Seq(Request)
  BY <1>1, TrySendTyped DEF TimeoutRetry
<1>3. stats' \in Stats
  BY StatsKept DEF TimeoutRetry
<1> QED
  BY <1>2, <1>3 DEF TimeoutRetry, Typed, TypeOK, Good, requestVars, socketVars

\* _drain() keeps the types.
LEMMA DrainTyped ==
    ASSUME Typed, Drain
    PROVE  Typed'
<1> DEFINE w   == Drained(cw)
           now == {r \in Request : Sends(w, r) # {}}
           all == UNION {Sends(w, r) : r \in now}
           k   == Cardinality(Shifted(w))
<1>1. Len(pending) \in Nat /\ pending \in Seq(Request)
  BY LenProperties DEF Typed, TypeOK
<1>2. /\ IsFiniteSet(1..Len(pending)) /\ Shifted(w) \in SUBSET (1..Len(pending))
      /\ all \in SUBSET (1..Len(pending))
      /\ \A r \in Request : Sends(w, r) \in SUBSET (1..Len(pending))
  BY <1>1, FS_Interval DEF Shifted, Sends
<1>3. /\ k \in Nat /\ Cardinality(all) \in Nat
      /\ \A r \in Request : Cardinality(Sends(w, r)) \in Nat
  BY <1>2, FS_Subset, FS_CardinalityType
<1>4. Good(w)
  BY TypedWindow, DrainedGood
<1>5. Good(cw')
  <2>1. Good(SendN(w, Cardinality(all)))
    BY <1>3, <1>4, SendGood
  <2> QED
    BY <2>1 DEF Drain
<1>6. pending' \in Seq(Request)
  <2>1. k + 1 \in Int /\ Len(pending) \in Int
        /\ \A i \in k + 1 .. Len(pending) : pending[i] \in Request
    BY <1>1, <1>3, ElementOfSeq
  <2>2. SubSeq(pending, k + 1, Len(pending)) \in Seq(Request)
    BY <2>1, SubSeqProperties
  <2> QED
    BY <2>2 DEF Drain
<1>7. sent' \in [Request -> Nat]
  <2>1. sent' = [r \in Request |-> sent[r] + Cardinality(Sends(w, r))]
    BY DEF Drain
  <2> HIDE DEF w
  <2> QED
    BY <2>1, <1>3 DEF Typed, TypeOK
<1>8. wire' \subseteq Request /\ timer' \subseteq Request
  BY DEF Drain, Typed, TypeOK
<1> QED
  BY <1>5, <1>6, <1>7, <1>8
  DEF Drain, Typed, TypeOK, Good, requestVars, socketVars

\* An order of finitely many requests is a sequence of them, and so are its
\* parts.
LEMMA OrderFacts ==
    ASSUME Typed, NEW order \in Orders(inflight), NEW n \in Nat
    PROVE  /\ order \in Seq(Request) /\ Len(order) \in Nat
           /\ SubSeq(order, n + 1, Len(order)) \in Seq(Request)
           /\ \A i \in 1..Len(order) : order[i] \in inflight
<1>1. Cardinality(inflight) \in Nat /\ inflight \subseteq Request
  BY FiniteFlight DEF Typed, TypeOK
<1>2. order \in [1..Cardinality(inflight) -> inflight]
  BY DEF Orders
<1>3. order \in Seq(inflight)
  BY <1>1, <1>2
<1>4. order \in Seq(Request)
  BY <1>1, <1>3, SeqMonotonic
<1>5. \A i \in n + 1 .. Len(order) : order[i] \in Request
  BY <1>4, ElementOfSeq, LenProperties
<1>6. Len(order) \in Nat
  BY <1>4, LenProperties
<1>7. \A i \in 1..Len(order) : order[i] \in inflight
  BY <1>3, ElementOfSeq
<1> QED
  BY <1>4, <1>5, <1>6, <1>7, SubSeqProperties

\* _bindSockets() keeps the types.
LEMMA BindSocketsTyped ==
    ASSUME Typed, BindSockets
    PROVE  /\ outcome' = outcome /\ inflight' = inflight
           /\ sent' \in [Request -> Nat] /\ Good(cw') /\ wire' \subseteq Request
           /\ timer' \subseteq Request /\ pending' \in Seq(Request)
           /\ gen' \in 0..MaxBinds /\ socket' \in [Request -> 0..MaxBinds]
<1>1. PICK order \in Orders(inflight) :
         LET n   == IF Len(order) <= Room(cw) THEN Len(order) ELSE Room(cw)
             now == {order[i] : i \in 1..n}
         IN  /\ sent' = [r \in Request |-> IF r \in now THEN 1
                                           ELSE IF r \in inflight THEN 0 ELSE sent[r]]
             /\ cw' = SendN(cw, n)
             /\ wire' = wire \cup {r \in now : socket'[r] = gen + 1}
             /\ timer' = timer \cup now
             /\ pending' = pending \o SubSeq(order, n + 1, Len(order))
  BY DEF BindSockets
<1> DEFINE n   == IF Len(order) <= Room(cw) THEN Len(order) ELSE Room(cw)
           now == {order[i] : i \in 1..n}
<1>2. Len(order) \in Nat /\ Room(cw) \in Nat
  BY OrderFacts, TypedWindow, RoomNat
<1>3. n \in Nat /\ n <= Len(order)
  BY <1>2
<1>4. SubSeq(order, n + 1, Len(order)) \in Seq(Request)
      /\ \A i \in 1..Len(order) : order[i] \in inflight
  BY <1>3, OrderFacts
<1>5. now \subseteq inflight
  BY <1>2, <1>3, <1>4
<1>6. Good(cw')
  BY <1>1, <1>3, TypedWindow, SendGood
<1>7. pending' \in Seq(Request)
  BY <1>1, <1>4, ConcatProperties DEF Typed, TypeOK
<1>8. wire' \subseteq Request /\ timer' \subseteq Request
  BY <1>1, <1>5 DEF Typed, TypeOK
<1>9. sent' \in [Request -> Nat]
  <2>1. sent' = [r \in Request |-> IF r \in now THEN 1
                                 ELSE IF r \in inflight THEN 0 ELSE sent[r]]
    BY <1>1
  <2> HIDE DEF now
  <2> QED
    BY <2>1 DEF Typed, TypeOK
<1>10. gen' \in 0..MaxBinds /\ socket' \in [Request -> 0..MaxBinds]
  BY IOAssumption DEF BindSockets, Typed, TypeOK
<1> QED
  BY <1>6, <1>7, <1>8, <1>9, <1>10 DEF BindSockets

\* An iteration of the loop of _clear() keeps the types.
LEMMA ClearOneTyped ==
    ASSUME Typed, Counted, NEW r \in Request, ClearOne(r)
    PROVE  Typed'
<1>1. Good(cw')
  BY TypedWindow, RecvGood DEF ClearOne
<1>2. stats' \in Stats
  BY StatsTyped DEF ClearOne
<1>3. outcome' \in [Request -> Outcome] /\ inflight' \subseteq Request
      /\ Linked(session', Request)
  BY LeaveTyped DEF ClearOne, Settled
<1> QED
  BY <1>1, <1>2, <1>3 DEF ClearOne, Typed, TypeOK, Good, socketVars

\* An iteration of the loop of Session.destroy() keeps the types.
LEMMA SessionDestroyOneTyped ==
    ASSUME Typed, Counted, NEW r \in Request, SessionDestroyOne(r)
    PROVE  Typed'
<1>1. Good(cw')
  BY TypedWindow, RecvGood DEF SessionDestroyOne
<1>2. stats' \in Stats
  BY StatsTyped DEF SessionDestroyOne, Typed, TypeOK
<1>3. outcome' \in [Request -> Outcome] /\ inflight' \subseteq Request
      /\ Linked(session', Request)
  BY LeaveTyped DEF SessionDestroyOne, Settled, Typed, TypeOK
<1> QED
  BY <1>1, <1>2, <1>3 DEF SessionDestroyOne, Typed, TypeOK, Good, socketVars

\* The sockets' closing, and the clearing of the window, keep the types.
LEMMA SocketsClosedTyped ==
    ASSUME Typed, SocketsClosed
    PROVE  Typed'
<1>1. Good(cw')
  BY TypedWindow, ClearedGood DEF SocketsClosed
<1> QED
  BY <1>1 DEF SocketsClosed, Typed, TypeOK, Good, requestVars

\* Session.destroy() enters and leaves one loop from another; the loop of
\* destroy() only it interrupts.
LEMMA SessionLoops ==
    ASSUME SessionDestroy \/ SessionDestroyDone
    PROVE  /\ loop' \in {"idle", "suspend", "destroy"} \cup SessionLoop
           /\ loop' \in {"destroy", "session in destroy"}
                <=> loop \in {"destroy", "session in destroy"}
           /\ SessionDestroyDone => loop # "idle"
<1>1. ASSUME NEW e \in Enters
      PROVE  \/ e[1] = "idle" /\ e[2] = "session"
             \/ e[1] = "suspend" /\ e[2] = "session in suspend"
             \/ e[1] = "destroy" /\ e[2] = "session in destroy"
  <2>1. CASE e = <<"idle", "session">>
    BY <2>1
  <2>2. CASE e = <<"suspend", "session in suspend">>
    BY <2>2
  <2>3. CASE e = <<"destroy", "session in destroy">>
    BY <2>3
  <2> QED
    BY <1>1, <2>1, <2>2, <2>3, Zenon DEF Enters
<1>2. \A e \in Enters : e[2] \in SessionLoop
  BY DEF SessionLoop
<1>3. CASE SessionDestroy
  <2>1. PICK e \in Enters : loop = e[1] /\ loop' = e[2]
    BY <1>3 DEF SessionDestroy
  <2>2. ~SessionDestroyDone
    BY <1>3 DEF SessionDestroy, SessionDestroyDone
  <2> QED
    BY <1>1, <1>2, <2>1, <2>2
<1>4. CASE SessionDestroyDone
  <2>1. PICK e \in Enters : loop = e[2] /\ loop' = e[1]
    BY <1>4 DEF SessionDestroyDone
  <2> QED
    BY <1>1, <2>1
<1> QED
  BY <1>3, <1>4

\* Every step keeps the types.
LEMMA TypedStep ==
    ASSUME IInv, [Next]_vars
    PROVE  Typed'
<1> USE DEF IInv
<1>1. CASE CreateSome
  BY <1>1, CreateTyped DEF CreateSome
<1>2. CASE \E q, r \in Request : Response(q, r)
  BY <1>2, ResponseTyped
<1>3. CASE \E r \in Request : TimeoutLast(r)
  BY <1>3, TimeoutLastTyped
<1>4. CASE \E r \in Request : TimeoutRetry(r)
  BY <1>4, TimeoutRetryTyped
<1>5. CASE Drain
  BY <1>5, DrainTyped
<1>6. CASE Bind \/ Rebind \/ DestroyUnbound
  <2>1. BindSockets
    BY <1>6 DEF Bind, Rebind, DestroyUnbound
  <2>2. mode' \in {mode, "running", "destroying"}
    BY <1>6 DEF Bind, Rebind, DestroyUnbound
  <2>3. Good(cw')
    BY <2>1, BindSocketsTyped
  <2> QED
    BY <2>1, <2>2, <2>3, BindSocketsTyped DEF BindSockets, Typed, TypeOK, Good
<1>7. CASE Suspend \/ Resume \/ Destroy \/ DestroyClear \/ ClearDone \/ UNCHANGED vars
  BY <1>7 DEF Suspend, Resume, Destroy, DestroyClear, ClearDone, vars, requestVars,
              socketVars, Typed, TypeOK
<1>8. CASE \E r \in Request : ClearOne(r)
  BY <1>8, ClearOneTyped
<1>9. CASE SocketsClosed
  BY <1>9, SocketsClosedTyped
<1>10. CASE \E r \in Request : SessionDestroyOne(r)
  BY <1>10, SessionDestroyOneTyped
<1>11. CASE SessionDestroy \/ SessionDestroyDone
  BY <1>11, SessionLoops DEF SessionDestroy, SessionDestroyDone, requestVars, socketVars,
                             Typed, TypeOK
<1> QED
  BY <1>1, <1>2, <1>3, <1>4, <1>5, <1>6, <1>7, <1>8, <1>9, <1>10, <1>11 DEF Next

\* The request at the head of a session's list is one that can be settled.
LEMMA SessionHead ==
    ASSUME IInv, session.inflight # <<>>
    PROVE  session.inflight[1] \in inflight /\ session.inflight[1] \notin destroyed
<1>1. Linked(session, Request) /\ Attached(session) = inflight \cap InSession
      /\ Attached(session) \cap destroyed = {}
  BY DEF IInv, Settling, SessionTracksFlight
<1>2. 1 \in 1..Len(session.inflight) /\ session.inflight[1] \in Request
  BY <1>1, EmptySeq, LenProperties, ElementOfSeq DEF Linked
<1>3. session.index[session.inflight[1]] = 1 /\ DOMAIN session.index = Request
  BY <1>1, <1>2 DEF Linked
<1> QED
  BY <1>1, <1>2, <1>3 DEF Attached

-----------------------------------------------------------------------------
(* Every step keeps the count of active requests.                            *)

\* Every step keeps stats.active the number of requests in flight.
LEMMA CountedStep ==
    ASSUME IInv, [Next]_vars
    PROVE  Counted'
<1> USE DEF IInv
<1>1. ASSUME NEW r \in inflight, inflight' = inflight \ {r},
             stats'.active = stats.active - 1
      PROVE  Counted'
  BY <1>1, FiniteFlight, FS_RemoveElement DEF Counted
<1>2. CASE CreateSome
  <2>1. PICK r \in Request : /\ outcome[r] = "unused"
                             /\ inflight' = inflight \cup {r}
                             /\ stats' = [stats EXCEPT !.active = @ + 1, !.total = @ + 1]
    BY <1>2 DEF CreateSome, Create
  <2>2. r \notin inflight
    BY <2>1 DEF Settling, InFlightIsWaiting
  <2>3. Cardinality(inflight') = Cardinality(inflight) + 1
    BY <2>1, <2>2, FiniteFlight, FS_AddElement
  <2>4. stats'.active = stats.active + 1
    BY <2>1 DEF Typed, TypeOK, Stats
  <2> QED
    BY <2>3, <2>4 DEF Counted
<1>3. CASE \E q, r \in Request : Response(q, r)
  BY <1>1, <1>3, StatsTyped DEF Response, Leave
<1>4. CASE \E r \in Request : TimeoutLast(r)
  <2>1. PICK r \in Request : TimeoutLast(r)
    BY <1>4
  <2>2. CASE r \in inflight
    BY <1>1, <2>1, <2>2, StatsTyped DEF TimeoutLast, Leave
  <2>3. CASE r \notin inflight
    BY <2>1, <2>3, StatsKept DEF TimeoutLast, Counted
  <2> QED
    BY <2>2, <2>3
<1>5. CASE \E r \in Request : TimeoutRetry(r)
  BY <1>5, StatsKept DEF TimeoutRetry, Counted
<1>6. CASE \/ Drain \/ Bind \/ Rebind \/ DestroyUnbound \/ Suspend \/ Resume \/ Destroy
           \/ DestroyClear \/ ClearDone \/ SocketsClosed \/ SessionDestroy
           \/ SessionDestroyDone \/ UNCHANGED vars
  BY <1>6 DEF Drain, Bind, Rebind, DestroyUnbound, BindSockets, Suspend, Resume, Destroy,
              DestroyClear, ClearDone, SocketsClosed, SessionDestroy, SessionDestroyDone,
              vars, Counted
<1>7. CASE \E r \in Request : ClearOne(r)
  BY <1>1, <1>7, StatsTyped DEF ClearOne, Leave
<1>8. CASE \E r \in Request : SessionDestroyOne(r)
  <2>1. PICK r \in Request : SessionDestroyOne(r)
    BY <1>8
  <2>2. r \in inflight /\ r \notin destroyed
    BY <2>1, SessionHead DEF SessionDestroyOne
  <2> QED
    BY <1>1, <2>1, <2>2, StatsTyped DEF SessionDestroyOne, Leave
<1> QED
  BY <1>2, <1>3, <1>4, <1>5, <1>6, <1>7, <1>8 DEF Next

-----------------------------------------------------------------------------
(* Every step keeps the table, the flags and the callbacks in agreement.     *)

\* A request that is in flight leaves, its timer off; whatever flag is set is
\* its own.
LEMMA LeaveSettling ==
    ASSUME IInv, NEW r \in Request, r \in inflight, NEW how \in Settled, Leave(r, how),
           timer' = timer \ {r}, destroyed' = destroyed \/ destroyed' = destroyed \cup {r},
           pending' = pending, mode' = mode, loop' = loop
    PROVE  Settling'
<1> USE DEF IInv, Settling, Leave
<1>1. InFlightIsWaiting'
  BY DEF InFlightIsWaiting, Settled, Typed, TypeOK
<1>2. SessionTracksFlight'
  <2>1. Linked(session', Request) /\ Attached(session') = Attached(session) \ {r}
    BY LeaveTyped
  <2> QED
    BY <2>1 DEF SessionTracksFlight
<1>3. DestroyedIsEmpty' /\ LoopsFollowMode'
  BY DEF DestroyedIsEmpty, LoopsFollowMode
<1>4. (timer \cap destroyed = {})'
  OBVIOUS
<1>5. \A x \in Request : outcome'[x] = IF x = r THEN how ELSE outcome[x]
  BY DEF Typed, TypeOK
<1>6. \A i \in 1..Len(pending) : pending[i] \in Request
  BY ElementOfSeq DEF Typed, TypeOK
<1>7. KeptForMade'
  BY <1>5, <1>6 DEF KeptForMade, Settled, Typed, TypeOK
<1> QED
  BY <1>1, <1>2, <1>3, <1>4, <1>7

\* What send() may arm and queue.
LEMMA TrySendKeeps ==
    ASSUME Typed, NEW r \in Request, NEW g \in Nat, NEW f \in BOOLEAN, TrySend(r, g, f)
    PROVE  /\ timer' \subseteq timer \cup {r}
           /\ \A i \in 1..Len(pending') : pending'[i] = r
                                         \/ \E j \in 1..Len(pending) : pending'[i] = pending[j]
<1>1. pending \in Seq(Request) /\ Len(pending) \in Nat
  BY LenProperties DEF Typed, TypeOK
<1>2. CASE pending' = Append(pending, r) /\ timer' = timer \ {r}
  <2>1. /\ Len(pending') = Len(pending) + 1 /\ pending'[Len(pending) + 1] = r
        /\ \A i \in 1..Len(pending) : pending'[i] = pending[i]
    BY <1>1, <1>2, AppendProperties
  <2>2. \A i \in 1..Len(pending') : i \in 1..Len(pending) \/ i = Len(pending) + 1
    BY <1>1, <2>1
  <2> QED
    BY <1>2, <2>1, <2>2
<1>3. CASE pending' = pending /\ timer' \subseteq timer \cup {r}
  BY <1>3
<1> QED
  BY <1>2, <1>3 DEF TrySend, SendNow

\* createRequest() keeps table, session and callbacks in step.
LEMMA CreateSettling ==
    ASSUME IInv, NEW r \in Request, NEW limit \in {0, MaxRetries}, NEW f \in Forced,
           Create(r, limit, f)
    PROVE  Settling'
<1> USE DEF IInv, Settling
<1>1. gen \in Nat /\ f \in BOOLEAN
  BY IOAssumption DEF Typed, TypeOK
<1>2. /\ timer' \subseteq timer \cup {r}
      /\ \A i \in 1..Len(pending') : pending'[i] = r
                                    \/ \E j \in 1..Len(pending) : pending'[i] = pending[j]
  BY <1>1, TrySendKeeps DEF Create
<1>3. \A x \in Request : outcome'[x] = IF x = r THEN "waiting" ELSE outcome[x]
  BY DEF Create, Typed, TypeOK
<1>4. \A i \in 1..Len(pending) : pending[i] \in Request
  BY ElementOfSeq DEF Typed, TypeOK
<1>5. r \notin destroyed /\ mode # "destroyed" /\ mode' = mode /\ loop' = loop
      /\ destroyed' = destroyed
  BY DEF Create, KeptForMade, Settled, socketVars
<1>6. KeptForMade'
  <2>1. \A i \in 1..Len(pending') : pending'[i] \in Request /\ outcome'[pending'[i]] # "unused"
    BY <1>2, <1>3, <1>4 DEF KeptForMade
  <2>2. \A x \in timer' : outcome'[x] # "unused"
    BY <1>2, <1>3 DEF KeptForMade, Typed, TypeOK
  <2>3. \A x \in destroyed' : outcome'[x] \in Settled
    BY <1>3, <1>5 DEF KeptForMade, Typed, TypeOK
  <2> QED
    BY <2>1, <2>2, <2>3 DEF KeptForMade
<1>7. InFlightIsWaiting' /\ SessionTracksFlight'
  <2>1. CASE r \in InSession
    <3>1. Linked(session', Request) /\ Attached(session') = Attached(session) \cup {r}
      BY <2>1, NewRequest, AttachLinked DEF Create, Typed, TypeOK
    <3> QED
      BY <1>3, <1>5, <2>1, <3>1 DEF Create, InFlightIsWaiting, SessionTracksFlight
  <2>2. CASE r \notin InSession
    BY <1>3, <1>5, <2>2 DEF Create, InFlightIsWaiting, SessionTracksFlight
  <2> QED
    BY <2>1, <2>2
<1>8. DestroyedIsEmpty' /\ LoopsFollowMode' /\ (timer \cap destroyed = {})'
  BY <1>2, <1>5 DEF DestroyedIsEmpty, LoopsFollowMode
<1> QED
  BY <1>6, <1>7, <1>8

\* The timeout of an earlier attempt keeps them in step.
LEMMA TimeoutRetrySettling ==
    ASSUME IInv, NEW r \in Request, TimeoutRetry(r)
    PROVE  Settling'
<1> USE DEF IInv, Settling
<1>1. socket[r] \in Nat
  BY IOAssumption DEF Typed, TypeOK
<1>2. /\ timer' \subseteq timer \cup {r}
      /\ \A i \in 1..Len(pending') : pending'[i] = r
                                    \/ \E j \in 1..Len(pending) : pending'[i] = pending[j]
  BY <1>1, TrySendKeeps DEF TimeoutRetry
<1>3. outcome[r] # "unused" /\ r \notin destroyed
  BY DEF TimeoutRetry, KeptForMade
<1> QED
  BY <1>2, <1>3
  DEF TimeoutRetry, KeptForMade, InFlightIsWaiting, SessionTracksFlight,
      DestroyedIsEmpty, LoopsFollowMode, requestVars, socketVars

\* oncycle() of a request that was settled while it waited for the drain.
LEMMA LateTimeoutSettling ==
    ASSUME IInv, NEW r \in Request, TimeoutLast(r), r \notin inflight
    PROVE  Settling'
<1> USE DEF IInv, Settling
<1>1. outcome[r] \in Settled
  BY DEF TimeoutLast, KeptForMade, InFlightIsWaiting, Typed, TypeOK, Outcome
<1>2. /\ destroyed' = destroyed \cup {r} /\ timer' = timer \ {r}
      /\ UNCHANGED <<outcome, inflight, session, pending, mode, loop>>
  BY DEF TimeoutLast, socketVars
<1> QED
  BY <1>1, <1>2
  DEF KeptForMade, InFlightIsWaiting, SessionTracksFlight, DestroyedIsEmpty, LoopsFollowMode

\* _drain() keeps them in step.
LEMMA DrainSettling ==
    ASSUME IInv, Drain
    PROVE  Settling'
<1> USE DEF IInv, Settling
<1> DEFINE w   == Drained(cw)
           now == {r \in Request : Sends(w, r) # {}}
           k   == Cardinality(Shifted(w))
<1>1. \A r \in now : r \notin destroyed /\ outcome[r] # "unused"
  BY DEF Sends, Shifted, KeptForMade
<1>2. timer' = timer \cup now /\ pending' = SubSeq(pending, k + 1, Len(pending))
      /\ UNCHANGED <<outcome, inflight, session, destroyed, mode, loop>>
  BY DEF Drain, requestVars, socketVars
<1>3. Len(pending) \in Nat /\ k \in Nat
  <2>1. Len(pending) \in Nat
    BY LenProperties DEF Typed, TypeOK
  <2>2. IsFiniteSet(1..Len(pending)) /\ Shifted(w) \in SUBSET (1..Len(pending))
    BY <2>1, FS_Interval DEF Shifted
  <2> QED
    BY <2>1, <2>2, FS_Subset, FS_CardinalityType
<1> HIDE DEF k
<1>4. /\ Len(SubSeq(pending, k + 1, Len(pending))) =
            IF k + 1 <= Len(pending) THEN Len(pending) - k ELSE 0
      /\ \A i \in 1..Len(pending) - k :
            SubSeq(pending, k + 1, Len(pending))[i] = pending[k + i]
  <2>1. \A i \in k + 1 .. Len(pending) : pending[i] \in Request
    BY <1>3, ElementOfSeq DEF Typed, TypeOK
  <2> QED
    BY <1>3, <2>1, SubSeqProperties
<1>5. \A i \in 1..Len(pending') : \E j \in 1..Len(pending) : pending'[i] = pending[j]
  <2> TAKE i \in 1..Len(pending')
  <2>1. k + i \in 1..Len(pending) /\ pending'[i] = pending[k + i]
    BY <1>2, <1>3, <1>4
  <2> QED
    BY <2>1
<1>6. KeptForMade'
  BY <1>1, <1>2, <1>5 DEF KeptForMade
<1> QED
  BY <1>1, <1>2, <1>6
  DEF InFlightIsWaiting, SessionTracksFlight, DestroyedIsEmpty, LoopsFollowMode

\* _bindSockets() keeps them in step.
LEMMA BindSettling ==
    ASSUME IInv, BindSockets, loop' = loop, mode' = mode \/ mode # "destroyed",
           mode' \in {mode, "running", "destroying"}
    PROVE  Settling'
<1> USE DEF IInv, Settling
<1>1. PICK order \in Orders(inflight) :
         LET n   == IF Len(order) <= Room(cw) THEN Len(order) ELSE Room(cw)
             now == {order[i] : i \in 1..n}
         IN  /\ timer' = timer \cup now
             /\ pending' = pending \o SubSeq(order, n + 1, Len(order))
  BY DEF BindSockets
<1> DEFINE n    == IF Len(order) <= Room(cw) THEN Len(order) ELSE Room(cw)
           now  == {order[i] : i \in 1..n}
           rest == SubSeq(order, n + 1, Len(order))
<1>2. n \in Nat /\ n <= Len(order) /\ Len(order) \in Nat
  BY OrderFacts, TypedWindow, RoomNat
<1> HIDE DEF n
<1>3. \A i \in 1..Len(order) : order[i] \in inflight
  BY <1>2, OrderFacts
<1>4. rest \in Seq(inflight)
  <2>1. \A i \in n + 1 .. Len(order) : order[i] \in inflight
    BY <1>2, <1>3
  <2> QED
    BY <1>2, <2>1, SubSeqProperties
<1>5. now \subseteq inflight
  BY <1>2, <1>3
<1>6. \A i \in 1..Len(pending') :
         pending'[i] \in inflight \/ \E j \in 1..Len(pending) : pending'[i] = pending[j]
  <2>1. pending \in Seq(Request) /\ rest \in Seq(Request)
    BY <1>4, SeqMonotonic DEF Typed, TypeOK
  <2>2. /\ Len(pending') = Len(pending) + Len(rest)
        /\ \A i \in 1..Len(pending) + Len(rest) :
             pending'[i] = IF i <= Len(pending) THEN pending[i] ELSE rest[i - Len(pending)]
    BY <1>1, <2>1, ConcatProperties DEF n
  <2> HIDE DEF rest
  <2>3. Len(pending) \in Nat /\ Len(rest) \in Nat
    BY <2>1, LenProperties
  <2> TAKE i \in 1..Len(pending')
  <2>4. CASE i <= Len(pending)
    BY <2>2, <2>3, <2>4
  <2>5. CASE i > Len(pending)
    <3>1. i - Len(pending) \in 1..Len(rest) /\ pending'[i] = rest[i - Len(pending)]
      BY <2>2, <2>3, <2>5
    <3> QED
      BY <1>4, <3>1, ElementOfSeq
  <2> QED
    BY <2>3, <2>4, <2>5
<1>7. \A r \in inflight : outcome[r] = "waiting" /\ r \notin destroyed
  BY DEF InFlightIsWaiting, KeptForMade, Typed, TypeOK, Settled
<1>8. timer' = timer \cup now /\ UNCHANGED <<outcome, inflight, session, destroyed>>
  BY <1>1 DEF BindSockets, n
<1>9. KeptForMade'
  BY <1>5, <1>6, <1>7, <1>8 DEF KeptForMade
<1> QED
  BY <1>5, <1>7, <1>8, <1>9
  DEF InFlightIsWaiting, SessionTracksFlight, DestroyedIsEmpty, LoopsFollowMode

\* Every step keeps table, session and callbacks in step.
LEMMA SettlingStep ==
    ASSUME IInv, [Next]_vars
    PROVE  Settling'
<1> USE DEF IInv
<1>1. CASE CreateSome
  BY <1>1, CreateSettling DEF CreateSome
<1>2. CASE \E q, r \in Request : Response(q, r)
  <2>1. PICK q \in Request, r \in Request : Response(q, r)
    BY <1>2
  <2> QED
    BY <2>1, LeaveSettling DEF Response, Settled, socketVars
<1>3. CASE \E r \in Request : TimeoutLast(r)
  <2>1. PICK r \in Request : TimeoutLast(r)
    BY <1>3
  <2>2. CASE r \in inflight
    BY <2>1, <2>2, LeaveSettling DEF TimeoutLast, Settled, socketVars
  <2> QED
    BY <2>1, <2>2, LateTimeoutSettling
<1>4. CASE \E r \in Request : TimeoutRetry(r)
  BY <1>4, TimeoutRetrySettling
<1>5. CASE Drain
  BY <1>5, DrainSettling
<1>6. CASE Bind \/ Rebind \/ DestroyUnbound
  <2>1. BindSockets /\ loop' = loop
    BY <1>6 DEF Bind, Rebind, DestroyUnbound, BindSockets
  <2>2. mode' \in {mode, "running", "destroying"} /\ (mode' = mode \/ mode # "destroyed")
    BY <1>6 DEF Bind, Rebind, DestroyUnbound
  <2> QED
    BY <2>1, <2>2, BindSettling
<1>7. CASE Suspend \/ Resume \/ Destroy \/ DestroyClear \/ ClearDone \/ SessionDestroy
           \/ SessionDestroyDone \/ SocketsClosed \/ UNCHANGED vars
  <2>1. UNCHANGED <<outcome, inflight, session, destroyed, timer, pending>>
    BY <1>7 DEF Suspend, Resume, Destroy, DestroyClear, ClearDone, SessionDestroy,
                SessionDestroyDone, SocketsClosed, vars, requestVars
  <2>2. InFlightIsWaiting' /\ SessionTracksFlight' /\ KeptForMade'
        /\ (timer \cap destroyed = {})'
    BY <2>1 DEF Settling, InFlightIsWaiting, SessionTracksFlight, KeptForMade
  <2>3. DestroyedIsEmpty' /\ LoopsFollowMode'
    <3>1. CASE SessionDestroy \/ SessionDestroyDone
      <4>1. mode' = mode /\ UNCHANGED inflight
        BY <3>1 DEF SessionDestroy, SessionDestroyDone, socketVars
      <4>2. mode = "destroyed" => loop \in {"destroy", "session in destroy"}
        BY <3>1, SessionHead, SessionLoops
        DEF SessionDestroy, Settling, DestroyedIsEmpty, LoopsFollowMode
      <4>3. mode = "destroyed" => loop' # "idle"
        BY <4>2, <3>1, SessionLoops
      <4> QED
        BY <3>1, <4>1, <4>2, <4>3, SessionLoops
        DEF Settling, DestroyedIsEmpty, LoopsFollowMode
    <3>2. CASE ~(SessionDestroy \/ SessionDestroyDone)
      BY <1>7, <3>2 DEF Suspend, Resume, Destroy, DestroyClear, ClearDone, SocketsClosed,
                  vars, requestVars, socketVars, Settling, DestroyedIsEmpty, LoopsFollowMode
    <3> QED
      BY <3>1, <3>2
  <2> QED
    BY <2>2, <2>3 DEF Settling
<1>8. CASE \E r \in Request : ClearOne(r)
  <2>1. PICK r \in Request : ClearOne(r)
    BY <1>8
  <2> QED
    BY <2>1, LeaveSettling DEF ClearOne, Settled, socketVars
<1>9. CASE \E r \in Request : SessionDestroyOne(r)
  <2>1. PICK r \in Request : SessionDestroyOne(r)
    BY <1>9
  <2>2. r \in inflight /\ r \notin destroyed
    BY <2>1, SessionHead DEF SessionDestroyOne
  <2> QED
    BY <2>1, <2>2, LeaveSettling DEF SessionDestroyOne, Settled, socketVars
<1> QED
  BY <1>1, <1>2, <1>3, <1>4, <1>5, <1>6, <1>7, <1>8, <1>9 DEF Next

\* Every step keeps the invariant.
LEMMA InvStep == IInv /\ [Next]_vars => IInv'
BY TypedStep, CountedStep, SettlingStep DEF IInv

-----------------------------------------------------------------------------
(* What holds in every behaviour. *)

\* The inductive invariant holds in every reachable state of the request table.
THEOREM Invariance == Spec => []IInv
<1>1. Init => IInv
  BY InvInit
<1>2. IInv /\ [Next]_vars => IInv'
  BY InvStep
<1> QED
  BY <1>1, <1>2, PTL DEF Spec

\* The request table's variables keep their types.
THEOREM TypeCorrect == Spec => []TypeOK
<1>1. IInv => TypeOK
  BY DEF IInv, Typed
<1> QED
  BY <1>1, Invariance, PTL

\* A request is in io.inflight exactly while its callback is outstanding.
THEOREM TableIsOutstanding == Spec => []InFlightIsWaiting
<1>1. IInv => InFlightIsWaiting
  BY DEF IInv, Settling
<1> QED
  BY <1>1, Invariance, PTL

\* Session.destroy() finds in its list only requests it can settle.
THEOREM SessionProgress == Spec => []SessionTracksFlight
<1>1. IInv => SessionTracksFlight
  BY DEF IInv, Settling
<1> QED
  BY <1>1, Invariance, PTL

\* Nothing is in flight after destroy() has gone through its loop.
THEOREM DestroyedStaysEmpty == Spec => []DestroyedIsEmpty
<1>1. IInv => DestroyedIsEmpty
  BY DEF IInv, Settling
<1> QED
  BY <1>1, Invariance, PTL

-----------------------------------------------------------------------------
(* The table implements its contract. *)

\* What a request leaving the table is to the contract.
LEMMA LeaveSettles ==
    ASSUME IInv, NEW r \in Request, r \in inflight, NEW how \in Settled, Leave(r, how),
           mode' = mode, loop' = loop
    PROVE  Contract!Settle(r, how)
<1>1. outcome[r] = "waiting" /\ ~(mode = "destroyed" /\ loop = "idle")
  BY DEF IInv, Settling, InFlightIsWaiting, DestroyedIsEmpty
<1> QED
  BY <1>1 DEF Contract!Settle, Leave

\* Every step of the request table is a step of the contract or leaves it
\* alone.
LEMMA ContractStep ==
    ASSUME IInv, [Next]_vars
    PROVE  [Contract!Next]_<<outcome, mode \notin {"destroying", "destroyed"},
                             mode = "destroyed" /\ loop = "idle">>
<1> DEFINE open     == mode \notin {"destroying", "destroyed"}
           finished == mode = "destroyed" /\ loop = "idle"
<1>1. ASSUME NEW r \in Request, NEW how \in Settled, Contract!Settle(r, how)
      PROVE  Contract!Next
  BY <1>1 DEF Contract!Next, Contract!Settled, Settled
<1>2. CASE CreateSome
  <2>1. PICK r \in Request : Contract!Ask(r)
    BY <1>2 DEF CreateSome, Create, Contract!Ask, socketVars
  <2> QED
    BY <2>1 DEF Contract!Next
<1>3. CASE \E q, r \in Request : Response(q, r)
  BY <1>1, <1>3, LeaveSettles DEF Response, Settled, socketVars
<1>4. CASE \E r \in Request : TimeoutLast(r)
  <2>1. PICK r \in Request : TimeoutLast(r)
    BY <1>4
  <2>2. CASE r \in inflight
    BY <1>1, <2>1, <2>2, LeaveSettles DEF TimeoutLast, Settled, socketVars
  <2>3. CASE r \notin inflight
    BY <2>1, <2>3 DEF TimeoutLast, socketVars
  <2> QED
    BY <2>2, <2>3
<1>5. CASE (\E r \in Request : TimeoutRetry(r)) \/ Drain \/ Suspend \/ Resume
           \/ SocketsClosed \/ UNCHANGED vars
  BY <1>5 DEF TimeoutRetry, Drain, Suspend, Resume, SocketsClosed, vars, socketVars
<1>6. CASE Bind \/ Rebind
  BY <1>6 DEF Bind, Rebind, BindSockets
<1>7. CASE Destroy \/ DestroyUnbound
  <2>1. Contract!Close
    BY <1>7 DEF Destroy, DestroyUnbound, BindSockets, Contract!Close
  <2> QED
    BY <2>1 DEF Contract!Next
<1>8. CASE DestroyClear
  BY <1>8 DEF DestroyClear
<1>9. CASE \E r \in Request : ClearOne(r)
  BY <1>1, <1>9, LeaveSettles DEF ClearOne, Settled, socketVars
<1>10. CASE ClearDone
  <2>1. CASE loop = "suspend"
    BY <1>10, <2>1 DEF ClearDone, IInv, Settling, LoopsFollowMode
  <2>2. CASE loop = "destroy"
    <3>1. \A r \in Request : outcome[r] # "waiting"
      BY <1>10 DEF ClearDone, IInv, Settling, InFlightIsWaiting
    <3>2. Contract!Finish
      BY <1>10, <2>2, <3>1 DEF ClearDone, IInv, Settling, LoopsFollowMode, Contract!Finish
    <3> QED
      BY <3>2 DEF Contract!Next
  <2> QED
    BY <1>10, <2>1, <2>2 DEF ClearDone
<1>11. CASE SessionDestroy \/ SessionDestroyDone
  <2>1. ~(mode = "destroyed" /\ loop = "idle")
    BY <1>11, SessionHead, SessionLoops
    DEF SessionDestroy, IInv, Settling, DestroyedIsEmpty
  <2>2. ~(mode = "destroyed" /\ loop' = "idle")
    BY <1>11, <2>1, SessionLoops DEF IInv, Settling, LoopsFollowMode
  <2> QED
    BY <1>11, <2>1, <2>2 DEF SessionDestroy, SessionDestroyDone, socketVars
<1>12. CASE \E r \in Request : SessionDestroyOne(r)
  <2>1. PICK r \in Request : SessionDestroyOne(r)
    BY <1>12
  <2>2. r \in inflight /\ r \notin destroyed
    BY <2>1, SessionHead DEF SessionDestroyOne
  <2> QED
    BY <1>1, <2>1, <2>2, LeaveSettles DEF SessionDestroyOne, Settled, socketVars
<1> QED
  BY <1>2, <1>3, <1>4, <1>5, <1>6, <1>7, <1>8, <1>9, <1>10, <1>11, <1>12 DEF Next

\* Every behaviour of the table is one of the contract: a request accepted gets
\* one callback, none is accepted after destroy(), none waits once it is done.
THEOREM Implements == Spec => ContractSpec
<1>1. Init => Contract!Init
  BY DEF Init, Contract!Init
<1>2. IInv /\ [Next]_vars =>
        [Contract!Next]_<<outcome, mode \notin {"destroying", "destroyed"},
                          mode = "destroyed" /\ loop = "idle">>
  BY ContractStep
<1> QED
  BY <1>1, <1>2, Invariance, PTL DEF Spec, ContractSpec, Contract!Spec

\* The callback that settles a request is the only one it is ever given.
THEOREM NeverTwice == Spec => SettledOnce
<1>1. IInv /\ [Next]_vars =>
        [\A r \in Request : outcome[r] \in Settled => outcome'[r] = outcome[r]]_vars
  <2> SUFFICES ASSUME IInv, [Next]_vars, NEW r \in Request, outcome[r] \in Settled
               PROVE  outcome'[r] = outcome[r]
    OBVIOUS
  <2>1. outcome \in [Request -> Outcome]
    BY DEF IInv, Typed, TypeOK
  <2>2. CASE UNCHANGED outcome
    BY <2>2
  <2>3. CASE Contract!Next
    BY <2>1, <2>3
    DEF Contract!Next, Contract!Ask, Contract!Settle, Contract!Close, Contract!Finish, Settled
  <2> QED
    BY <2>2, <2>3, ContractStep
<1> QED
  BY <1>1, Invariance, PTL DEF Spec, SettledOnce
=============================================================================
