---------------------------- MODULE MCNetworkState ----------------------------
(* Instances of NetworkState for TLC. *)
EXTENDS NetworkState

CONSTANTS h1, h2, t1, t2

OneHost == {h1}
TwoHosts == {h1, h2}
OneTicker == {t1}
TwoTickers == {t1, t2}
=============================================================================
