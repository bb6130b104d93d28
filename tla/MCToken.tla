------------------------------- MODULE MCToken -------------------------------
(* Instances of Token for TLC. *)
EXTENDS Token, TLC

CONSTANTS h1, h2

TwoHosts == {h1, h2}
Symmetry == Permutations(Host)
=============================================================================
