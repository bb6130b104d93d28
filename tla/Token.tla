-------------------------------- MODULE Token --------------------------------
(***************************************************************************)
(* The round-trip tokens of lib/io.js: token() hashes a host with one of   *)
(* two secrets, replies carry a token of the newer secret, requests may    *)
(* bring back one of either, and _drain() rotates the secrets once in      *)
(* RotateEvery calls after the first token was made.                       *)
(*                                                                         *)
(* A secret is <<lane, n>>: one of the two random values drawn first, and  *)
(* how often it was hashed since.  A token is the secret it was made with, *)
(* for the host it was made for; hashes do not collide.  Time is counted   *)
(* in drains, which is the only clock the secrets have: it stands still    *)
(* while the node is suspended.                                            *)
(***************************************************************************)
EXTENDS Naturals, FiniteSets

CONSTANTS
    Host,          \* hosts that send requests
    RotateEvery,   \* drains between two rotations (10 in the code)
    MaxTokens,     \* bound: tokens remembered at a time
    MaxHashed      \* bound: how often a secret is hashed

ASSUME TokenAssumption ==
    /\ RotateEvery \in Nat \ {0}
    /\ MaxTokens \in Nat /\ MaxHashed \in Nat

VARIABLES
    secrets,        \* io._secrets, or NoSecrets for null
    rotateSecrets,  \* io._rotateSecrets
    issued          \* tokens given out: to whom, with which secret, drains ago

vars == <<secrets, rotateSecrets, issued>>

Secret == {0, 1} \X Nat
NoSecrets == <<>>
Secrets == [{0, 1} -> Secret]
Issued == [to : Host, secret : Secret, age : Nat]

Init ==
    /\ secrets = NoSecrets
    /\ rotateSecrets = RotateEvery
    /\ issued = {}

\* The secrets as token() finds or makes them.
Drawn ==
    IF secrets = NoSecrets THEN [lane \in {0, 1} |-> <<lane, 0>>] ELSE secrets

\* What onmessage() compares the token of a request from a host with.
Accepts(from, t) == t.to = from /\ t.secret \in {Drawn[1], Drawn[0]}

\* _sendReply() with a token: one of the newer secret, for where it is sent to.
Issue(to) ==
    /\ issued' = issued \cup {[to |-> to, secret |-> Drawn[1], age |-> 0]}
    /\ Cardinality(issued') <= MaxTokens

\* A request without a token is handed to the node; this is what happens when it
\* replies with a token.
Handle(from) ==
    /\ secrets' = Drawn
    /\ Issue(from)
    /\ UNCHANGED rotateSecrets

\* A request that brings back a token is checked first, which draws the secrets
\* if there are none.  If it is not accepted the answer is INVALID_TOKEN with a
\* fresh token; otherwise the node may reply, with a token or without.
Request(from, t) ==
    /\ secrets' = Drawn
    /\ Issue(from) \/ (Accepts(from, t) /\ UNCHANGED issued)
    /\ UNCHANGED rotateSecrets

\* Mutation: the secrets are hashed but do not change places.
RotatedInPlace == [lane \in {0, 1} |-> <<secrets[lane][1], secrets[lane][2] + 1>>]

\* Mutation: the secrets change places and are not hashed.
RotatedSwapped == [lane \in {0, 1} |-> secrets[1 - lane]]

\* The secrets after a rotation: the newer one becomes the older one, and the
\* older one is hashed and becomes the newer one.
Rotated ==
    [lane \in {0, 1} |-> IF lane = 0 THEN secrets[1]
                         ELSE <<secrets[0][1], secrets[0][2] + 1>>]

\* What the counter is counted down to, or set to again.
Countdown == IF rotateSecrets = 1 THEN RotateEvery ELSE rotateSecrets - 1

\* _drain(), as far as the secrets go.  The node need not remember its tokens.
Drain ==
    /\ LET aged == {[t EXCEPT !.age = @ + 1] : t \in issued}
       IN  \E kept \in SUBSET aged : issued' = kept
    /\ IF secrets = NoSecrets THEN UNCHANGED <<secrets, rotateSecrets>>
       ELSE /\ rotateSecrets' = Countdown
            /\ secrets' = IF rotateSecrets = 1 THEN Rotated ELSE secrets
            /\ rotateSecrets = 1 => secrets[0][2] < MaxHashed

Next ==
    \/ \E from \in Host : Handle(from)
    \/ \E from \in Host, t \in issued : Request(from, t)
    \/ Drain

Spec == Init /\ [][Next]_vars

-----------------------------------------------------------------------------
(* Properties. *)

\* Every variable holds a value of its type.
TypeOK ==
    /\ secrets \in Secrets \cup {NoSecrets}
    /\ rotateSecrets \in 1..RotateEvery
    /\ issued \subseteq Issued

\* A token is good for a full rotation period: brought back by the host it was
\* given to within RotateEvery drains it is accepted, wherever in the period it
\* was made and though its secret has moved to the other place meanwhile.
FreshAccepted ==
    \A t \in issued : t.age <= RotateEvery => Accepts(t.to, t)

\* A token is good for less than two periods, and for no other host: what is
\* accepted was given to the sender fewer than 2 * RotateEvery drains ago.
StaleRejected ==
    \A t \in issued, from \in Host :
        Accepts(from, t) => t.to = from /\ t.age < 2 * RotateEvery
=============================================================================
