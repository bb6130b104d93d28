--------------------------- MODULE HealthContract ---------------------------
(***************************************************************************)
(* What lib/health.js promises: a verdict per tick, none while there is    *)
(* too little to go by, and a status with hysteresis over the last four.   *)
(* A node is offline when a judged tick had no response at all; it becomes *)
(* degraded after four bad ticks out of four and recovers after four good  *)
(* ones out of four, or by going offline, or when it is reset.             *)
(***************************************************************************)
EXTENDS Naturals, Sequences, SequencesExt

VARIABLES
    recent,     \* the verdicts of the last ticks, at most four, newest last
    online, degraded

vars == <<recent, online, degraded>>

Verdict == {"none", "good", "bad"}

Init == recent = <<>> /\ online = TRUE /\ degraded = FALSE

Latest(s, v) == Append(IF Len(s) < 4 THEN s ELSE Tail(s), v)

All(s, v) == Len(s) = 4 /\ ToSet(s) = {v}

Judge(v, heard) ==
    /\ v # "none" => Len(recent) >= 3
    /\ ~heard => v = "bad"
    /\ recent' = Latest(recent, v)
    /\ online' = heard
    /\ degraded' = IF All(recent', "bad") /\ heard THEN TRUE
                   ELSE IF All(recent', "good") \/ ~heard THEN FALSE
                   ELSE degraded

Abstain ==
    /\ recent' = Latest(recent, "none")
    /\ UNCHANGED <<online, degraded>>

Reset == recent' = <<>> /\ online' = TRUE /\ degraded' = FALSE

Next ==
    \/ \E v \in {"good", "bad"}, heard \in BOOLEAN : Judge(v, heard)
    \/ Abstain
    \/ Reset

Spec == Init /\ [][Next]_vars
=============================================================================
