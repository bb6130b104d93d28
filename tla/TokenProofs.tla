----------------------------- MODULE TokenProofs -----------------------------
(***************************************************************************)
(* How long a token is good for, for every rotation period, number of      *)
(* hosts and number of tokens.                                             *)
(*                                                                         *)
(* The invariant dates every token by where its secret is now.  With e the *)
(* drains since the last rotation, a token whose secret is still the newer *)
(* one is at most e drains old; one whose secret has become the older one  *)
(* was made in the period before, and is between e + 1 and e + RotateEvery *)
(* old; every other token is older than that, and its secret, which was    *)
(* hashed since, is in neither place.                                      *)
(***************************************************************************)
EXTENDS Token, TLAPS

Elapsed == RotateEvery - rotateSecrets

\* The secrets come from different lanes, so they never meet.
LanesApart == secrets # NoSecrets => secrets[0][1] # secrets[1][1]

\* A secret that was a lane's and has been hashed since.
Outdated(s) ==
    \E place \in {0, 1} : s[1] = secrets[place][1] /\ s[2] < secrets[place][2]

Dated(t) ==
    \/ t.secret = secrets[1] /\ t.age <= Elapsed
    \/ t.secret = secrets[0] /\ t.age > Elapsed /\ t.age <= Elapsed + RotateEvery
    \/ Outdated(t.secret) /\ t.age > Elapsed + RotateEvery

IInv ==
    /\ TypeOK
    /\ secrets = NoSecrets => issued = {}
    /\ LanesApart
    /\ \A t \in issued : Dated(t)

-----------------------------------------------------------------------------
\* The null secrets are not a pair of secrets.
LEMMA NullIsNoPair == NoSecrets \notin Secrets
<1>1. SUFFICES ASSUME NoSecrets \in Secrets PROVE FALSE
  OBVIOUS
<1>2. DOMAIN NoSecrets = {0, 1}
  BY <1>1 DEF Secrets
<1>3. DOMAIN NoSecrets = {}
  BY DEF NoSecrets
<1> QED
  BY <1>2, <1>3

\* What token() finds or makes is a pair of secrets of different lanes, and the
\* pair there was if there was one.
LEMMA DrawnIsPair ==
    ASSUME TypeOK, LanesApart
    PROVE  /\ Drawn \in Secrets /\ Drawn[0][1] # Drawn[1][1]
           /\ Drawn # NoSecrets
           /\ secrets # NoSecrets => Drawn = secrets
<1>1. CASE secrets = NoSecrets
  <2>1. Drawn = [lane \in {0, 1} |-> <<lane, 0>>]
    BY <1>1 DEF Drawn
  <2> QED
    BY <1>1, <2>1, NullIsNoPair DEF Secrets, Secret
<1>2. CASE secrets # NoSecrets
  BY <1>2, NullIsNoPair DEF Drawn, TypeOK, LanesApart
<1> QED
  BY <1>1, <1>2

\* Giving out a token keeps the invariant.
LEMMA IssueKeeps ==
    ASSUME IInv, NEW to \in Host, secrets' = Drawn, UNCHANGED rotateSecrets,
           Issue(to)
    PROVE  IInv'
<1> SUFFICES ASSUME NEW new \in {[to |-> to, secret |-> Drawn[1], age |-> 0]}
             PROVE  IInv'
  OBVIOUS
<1>1. /\ Drawn \in Secrets /\ Drawn[0][1] # Drawn[1][1] /\ Drawn # NoSecrets
      /\ secrets # NoSecrets => Drawn = secrets
  BY DrawnIsPair DEF IInv
<1>2. issued' = issued \cup {new}
  BY DEF Issue
<1>3. TypeOK'
  BY <1>1, <1>2 DEF IInv, TypeOK, Issued, Secrets
<1>4. secrets' # NoSecrets /\ LanesApart'
  BY <1>1 DEF LanesApart
<1>5. Elapsed' = Elapsed /\ Elapsed \in Nat
  BY TokenAssumption DEF Elapsed, IInv, TypeOK
<1>6. \A t \in issued : Dated(t)'
  <2>1. SUFFICES ASSUME NEW t \in issued PROVE Dated(t)'
    OBVIOUS
  <2>2. secrets # NoSecrets /\ Dated(t)
    BY DEF IInv
  <2>3. secrets' = secrets
    BY <1>1, <2>2
  <2> QED
    BY <1>5, <2>2, <2>3 DEF Dated, Outdated
<1>7. Dated(new)'
  BY <1>5 DEF Dated
<1> QED
  <2>1. \A t \in issued' : Dated(t)'
    BY <1>2, <1>6, <1>7
  <2> QED
    BY <1>3, <1>4, <2>1 DEF IInv

\* A drain that does not rotate makes every token a drain older.
LEMMA DrainAges ==
    ASSUME IInv, secrets # NoSecrets, rotateSecrets # 1,
           rotateSecrets' = rotateSecrets - 1, UNCHANGED secrets,
           NEW t \in issued, NEW u, u.secret = t.secret, u.age = t.age + 1
    PROVE  Dated(u)'
<1>1. t \in Issued /\ Dated(t)
  BY DEF IInv, TypeOK
<1>2. /\ rotateSecrets \in 1..RotateEvery /\ RotateEvery \in Nat
      /\ t.age \in Nat /\ Elapsed' = Elapsed + 1 /\ Elapsed \in Nat
  BY <1>1, TokenAssumption DEF IInv, TypeOK, Issued, Elapsed
<1> QED
  BY <1>1, <1>2 DEF Dated, Outdated

\* A rotation turns tokens of the newer secret into tokens of the older one, and
\* those of the older one into tokens that are no longer accepted.
LEMMA RotationAges ==
    ASSUME IInv, secrets # NoSecrets, rotateSecrets = 1, rotateSecrets' = RotateEvery,
           secrets' = Rotated,
           NEW t \in issued, NEW u, u.secret = t.secret, u.age = t.age + 1
    PROVE  Dated(u)'
<1>1. t \in Issued /\ Dated(t) /\ secrets \in Secrets
  BY DEF IInv, TypeOK
<1>2. /\ RotateEvery \in Nat \ {0} /\ t.age \in Nat
      /\ Elapsed = RotateEvery - 1 /\ Elapsed' = 0
  BY <1>1, TokenAssumption DEF Issued, Elapsed
<1>3. /\ secrets'[0] = secrets[1]
      /\ secrets'[1] = <<secrets[0][1], secrets[0][2] + 1>>
      /\ secrets[0] \in Secret /\ secrets[1] \in Secret
  BY <1>1 DEF Secrets, Rotated
<1>4. CASE t.secret = secrets[1] /\ t.age <= Elapsed
  BY <1>2, <1>3, <1>4 DEF Dated
<1>5. CASE t.secret = secrets[0] /\ t.age > Elapsed /\ t.age <= Elapsed + RotateEvery
  <2>1. Outdated(u.secret)'
    BY <1>3, <1>5 DEF Outdated, Secret
  <2> QED
    BY <1>2, <1>5, <2>1 DEF Dated
<1>6. CASE Outdated(t.secret) /\ t.age > Elapsed + RotateEvery
  <2>1. Outdated(u.secret)'
    BY <1>1, <1>3, <1>6 DEF Outdated, Secret, Issued
  <2> QED
    BY <1>2, <1>6, <2>1 DEF Dated
<1>7. \/ t.secret = secrets[1] /\ t.age <= Elapsed
      \/ t.secret = secrets[0] /\ t.age > Elapsed /\ t.age <= Elapsed + RotateEvery
      \/ Outdated(t.secret) /\ t.age > Elapsed + RotateEvery
  BY <1>1 DEF Dated
<1> QED
  BY <1>4, <1>5, <1>6, <1>7

\* What _drain() does to the secrets leaves a pair of different lanes.
LEMMA DrainSecrets ==
    ASSUME IInv, Drain
    PROVE  /\ secrets' \in Secrets \cup {NoSecrets}
           /\ rotateSecrets' \in 1..RotateEvery
           /\ secrets' = NoSecrets <=> secrets = NoSecrets
           /\ LanesApart'
<1> USE TokenAssumption
<1>1. CASE secrets = NoSecrets
  BY <1>1 DEF Drain, IInv, TypeOK, LanesApart
<1>2. CASE secrets # NoSecrets /\ rotateSecrets # 1
  BY <1>2 DEF Drain, Countdown, IInv, TypeOK, LanesApart
<1>3. CASE secrets # NoSecrets /\ rotateSecrets = 1
  <2>1. secrets \in Secrets /\ secrets[0] \in Secret /\ secrets[1] \in Secret
    BY <1>3 DEF IInv, TypeOK, Secrets
  <2>2. /\ secrets'[0] = secrets[1]
        /\ secrets'[1] = <<secrets[0][1], secrets[0][2] + 1>>
        /\ rotateSecrets' = RotateEvery
    BY <1>3 DEF Drain, Countdown, Rotated
  <2>3. secrets' \in Secrets
    BY <1>3, <2>1 DEF Drain, Rotated, Secrets, Secret
  <2>4. LanesApart'
    BY <1>3, <2>2 DEF LanesApart, IInv
  <2> QED
    BY <1>3, <2>2, <2>3, <2>4, NullIsNoPair
<1> QED
  BY <1>1, <1>2, <1>3

\* _drain() keeps the invariant.
LEMMA DrainKeeps == ASSUME IInv, Drain PROVE IInv'
<1>1. /\ secrets' \in Secrets \cup {NoSecrets} /\ rotateSecrets' \in 1..RotateEvery
      /\ secrets' = NoSecrets <=> secrets = NoSecrets
      /\ LanesApart'
  BY DrainSecrets
<1>2. ASSUME NEW u \in issued'
      PROVE  \E t \in issued : u = [t EXCEPT !.age = @ + 1]
  BY <1>2 DEF Drain
<1>3. TypeOK'
  <2>1. ASSUME NEW u \in issued' PROVE u \in Issued
    <3>1. PICK t \in issued : u = [t EXCEPT !.age = @ + 1]
      BY <1>2
    <3> QED
      BY <3>1 DEF IInv, TypeOK, Issued
  <2> QED
    BY <1>1, <2>1 DEF TypeOK
<1>4. secrets' = NoSecrets => issued' = {}
  BY <1>1, <1>2 DEF IInv
<1>5. ASSUME NEW u \in issued' PROVE Dated(u)'
  <2>1. PICK t \in issued : u = [t EXCEPT !.age = @ + 1]
    BY <1>2
  <2>2. secrets # NoSecrets /\ u.secret = t.secret /\ u.age = t.age + 1
    BY <2>1 DEF IInv, TypeOK, Issued
  <2>3. CASE rotateSecrets = 1
    BY <2>2, <2>3, RotationAges DEF Drain, Countdown
  <2>4. CASE rotateSecrets # 1
    BY <2>2, <2>4, DrainAges DEF Drain, Countdown
  <2> QED
    BY <2>3, <2>4
<1> QED
  BY <1>1, <1>3, <1>4, <1>5 DEF IInv

\* The invariant holds initially and every step keeps it.
THEOREM TokenInvariance == Spec => []IInv
<1>1. Init => IInv
  BY TokenAssumption DEF Init, IInv, TypeOK, LanesApart
<1>2. IInv /\ [Next]_vars => IInv'
  <2> SUFFICES ASSUME IInv, [Next]_vars PROVE IInv'
    OBVIOUS
  <2>1. CASE \E from \in Host : Handle(from)
    BY <2>1, IssueKeeps DEF Handle
  <2>2. CASE \E from \in Host, t \in issued : Request(from, t)
    <3>1. PICK from \in Host, t \in issued : Request(from, t)
      BY <2>2
    <3>2. CASE Issue(from)
      BY <3>1, <3>2, IssueKeeps DEF Request
    <3>3. CASE UNCHANGED issued
      <4>1. UNCHANGED vars
        BY <3>1, <3>3 DEF Request, vars, Drawn, IInv
      <4> QED
        BY <4>1 DEF vars, IInv, TypeOK, LanesApart, Dated, Outdated, Elapsed
    <3> QED
      BY <3>1, <3>2, <3>3 DEF Request
  <2>3. CASE Drain
    BY <2>3, DrainKeeps
  <2>4. CASE UNCHANGED vars
    BY <2>4 DEF vars, IInv, TypeOK, LanesApart, Dated, Outdated, Elapsed
  <2> QED
    BY <2>1, <2>2, <2>3, <2>4 DEF Next
<1> QED
  BY <1>1, <1>2, PTL DEF Spec

\* A token brought back within a full period is accepted, for every period.
THEOREM GoodForAPeriod == Spec => []FreshAccepted
<1>1. IInv => FreshAccepted
  <2> SUFFICES ASSUME IInv, NEW t \in issued, t.age <= RotateEvery
               PROVE  Accepts(t.to, t)
    BY DEF FreshAccepted
  <2>1. /\ secrets # NoSecrets /\ Drawn = secrets /\ Dated(t) /\ t.age \in Nat
        /\ Elapsed \in Nat /\ RotateEvery \in Nat
    BY TokenAssumption DEF IInv, Drawn, TypeOK, Issued, Elapsed
  <2>2. t.secret = secrets[1] \/ t.secret = secrets[0]
    BY <2>1 DEF Dated
  <2> QED
    BY <2>1, <2>2 DEF Accepts
<1> QED
  BY <1>1, TokenInvariance, PTL

\* A token is good for less than two periods and for its own host only.
THEOREM BadAfterTwo == Spec => []StaleRejected
<1>1. IInv => StaleRejected
  <2> SUFFICES ASSUME IInv, NEW t \in issued, NEW from \in Host, Accepts(from, t)
               PROVE  t.to = from /\ t.age < 2 * RotateEvery
    BY DEF StaleRejected
  <2>1. /\ secrets \in Secrets /\ Drawn = secrets /\ Dated(t) /\ t \in Issued
        /\ Elapsed \in 0..RotateEvery - 1 /\ RotateEvery \in Nat
    BY TokenAssumption DEF IInv, Drawn, TypeOK, Elapsed
  <2>2. /\ t.secret \in {secrets[0], secrets[1]} /\ secrets[0][1] # secrets[1][1]
        /\ secrets[0] \in Secret /\ secrets[1] \in Secret /\ t.age \in Nat
    BY <2>1, NullIsNoPair DEF Accepts, Secrets, Issued, IInv, LanesApart
  <2>3. ~Outdated(t.secret)
    BY <2>2 DEF Outdated, Secret
  <2>4. t.age <= Elapsed + RotateEvery
    BY <2>1, <2>2, <2>3 DEF Dated
  <2> QED
    BY <2>1, <2>2, <2>4 DEF Accepts
<1> QED
  BY <1>1, TokenInvariance, PTL
=============================================================================
