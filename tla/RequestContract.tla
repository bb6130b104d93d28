-------------------------- MODULE RequestContract --------------------------
(***************************************************************************)
(* What lib/io.js promises whoever makes a request, without tables, timers *)
(* or windows: a request that is accepted gets exactly one callback, none  *)
(* is accepted once destroy() was called, and when destroy() has settled   *)
(* everything no request is left waiting and none ever will be.            *)
(***************************************************************************)
CONSTANT Request

VARIABLES
    outcome,    \* what each request was told so far
    open,       \* requests are accepted
    finished    \* destroy() has settled everything

Settled == {"response", "timeout", "destroyed", "suspended"}

Init ==
    /\ outcome = [r \in Request |-> "unused"]
    /\ open = TRUE
    /\ finished = FALSE

Ask(r) ==
    /\ open /\ outcome[r] = "unused"
    /\ outcome' = [outcome EXCEPT ![r] = "waiting"]
    /\ UNCHANGED <<open, finished>>

Settle(r, how) ==
    /\ ~finished /\ outcome[r] = "waiting"
    /\ outcome' = [outcome EXCEPT ![r] = how]
    /\ UNCHANGED <<open, finished>>

Close ==
    /\ open /\ open' = FALSE
    /\ UNCHANGED <<outcome, finished>>

Finish ==
    /\ ~open /\ ~finished
    /\ \A r \in Request : outcome[r] # "waiting"
    /\ finished' = TRUE
    /\ UNCHANGED <<outcome, open>>

Next ==
    \/ \E r \in Request : Ask(r)
    \/ \E r \in Request, how \in Settled : Settle(r, how)
    \/ Close
    \/ Finish

Spec == Init /\ [][Next]_<<outcome, open, finished>>
=============================================================================
