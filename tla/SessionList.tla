---------------------------- MODULE SessionList ----------------------------
(***************************************************************************)
(* The list of requests a Session keeps (lib/session.js): an array, and in *)
(* every request its index there, so that it is taken out by moving the    *)
(* last one into its place.  Positions count from 1; 0 is an index of -1.  *)
(***************************************************************************)
EXTENDS Naturals, Sequences

NewSession(Request) == [inflight |-> <<>>, index |-> [r \in Request |-> 0]]

\* The requests that believe they are in the list.
Attached(s) == {r \in DOMAIN s.index : s.index[r] # 0}

Attach(s, r) ==
    [inflight |-> Append(s.inflight, r),
     index    |-> [s.index EXCEPT ![r] = Len(s.inflight) + 1]]

\* Mutation: the request that moves keeps the index it had.
DetachMoved(s, r) ==
    LET i    == s.index[r]
        n    == Len(s.inflight)
        rest == SubSeq(s.inflight, 1, n - 1)
    IN  IF i = 0 THEN s
        ELSE [inflight |-> IF i = n THEN rest ELSE [rest EXCEPT ![i] = s.inflight[n]],
              index    |-> [s.index EXCEPT ![r] = 0]]

Detach(s, r) ==
    LET i    == s.index[r]
        n    == Len(s.inflight)
        last == s.inflight[n]
        rest == SubSeq(s.inflight, 1, n - 1)
    IN  IF i = 0 THEN s
        ELSE IF i = n THEN [inflight |-> rest, index |-> [s.index EXCEPT ![r] = 0]]
        ELSE [inflight |-> [rest EXCEPT ![i] = last],
              index    |-> [s.index EXCEPT ![r] = 0, ![last] = i]]

\* The list and the indices say the same: every request in the list knows its
\* place, and no other believes that it has one.
Linked(s, Request) ==
    /\ s = [inflight |-> s.inflight, index |-> s.index]
    /\ s.inflight \in Seq(Request) /\ s.index \in [Request -> Nat]
    /\ \A i \in 1..Len(s.inflight) : s.index[s.inflight[i]] = i
    /\ \A r \in Request :
          s.index[r] # 0 => s.index[r] \in 1..Len(s.inflight) /\ s.inflight[s.index[r]] = r
=============================================================================
