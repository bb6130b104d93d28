-------------------------------- MODULE MCIO --------------------------------
(* Instances of IO for TLC. *)
EXTENDS IO, TLC

CONSTANTS r1, r2, r3

NoRequests == {}
OneRequest == {r1}
TwoRequests == {r1, r2}
ThreeRequests == {r1, r2, r3}

\* Sound where Request and InSession are the same set, or InSession is empty.
Symmetry == Permutations(Request)

\* The counter starts at any id, or at the last one before it wraps.
AnyTid == 0..TidSpace - 1
LastTid == {TidSpace - 1}

Unforced == {FALSE}
ForcedOrNot == BOOLEAN
=============================================================================
