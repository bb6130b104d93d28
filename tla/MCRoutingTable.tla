--------------------------- MODULE MCRoutingTable ---------------------------
(* Instances of RoutingTable for TLC. *)
EXTENDS RoutingTable, TLC

CONSTANTS a, b, c

ThreeIds == {a, b, c}
Symmetry == Permutations(Id)
=============================================================================
