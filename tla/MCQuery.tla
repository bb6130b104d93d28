------------------------------- MODULE MCQuery -------------------------------
(* Instances of Query for TLC. *)
EXTENDS Query

\* No list, so that the routing table is asked first, or a full one.
NoneOrTwo == {<<>>, <<2, 3>>}

NoneOrSome == {{}, {1, 3}}

BootstrapNode == <<3>>

\* In order of distance or not, with nodes known and new.
SomeLists == {<<>>, <<1>>, <<3, 1>>, <<1, 2>>}

Plain == [onlyClosest |-> FALSE, commit |-> FALSE, force |-> FALSE,
          shared |-> FALSE, background |-> FALSE]

SixOptions ==
    {Plain, [Plain EXCEPT !.onlyClosest = TRUE], [Plain EXCEPT !.commit = TRUE],
     [Plain EXCEPT !.commit = TRUE, !.force = TRUE], [Plain EXCEPT !.background = TRUE],
     [Plain EXCEPT !.commit = TRUE, !.shared = TRUE]}
=============================================================================
