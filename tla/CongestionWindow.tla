-------------------------- MODULE CongestionWindow --------------------------
(***************************************************************************)
(* The congestion window of lib/io.js (class CongestionWindow).            *)
(*                                                                         *)
(* A window counts the packets sent in each of the last four drain         *)
(* periods.  It is a record: i is the current slot (_i), total the sum     *)
(* kept beside the slots (_total), window the four counters (_window).     *)
(* Every operator maps a window to the window the method leaves behind.    *)
(***************************************************************************)
EXTENDS Naturals

CONSTANT MaxWindow   \* packets allowed per slot; twice that over all slots

ASSUME MaxWindowAssumption == MaxWindow \in Nat \ {0}

Slots == 0..3

Window == [i : Slots, total : Nat, window : [Slots -> Nat]]

\* The constructor's state, and clear().
Cleared == [i |-> 0, total |-> 0, window |-> [s \in Slots |-> 0]]

IsFull(w) == w.total >= 2 * MaxWindow \/ w.window[w.i] >= MaxWindow

\* Mutation: recv() without its test for an empty slot.
RecvUnguarded(w) == [w EXCEPT !.total = @ - 1, !.window[w.i] = @ - 1]

\* recv(): gives one unit of the current slot back, if that slot has any.
Recv(w) ==
    IF w.window[w.i] > 0
    THEN [w EXCEPT !.total = @ - 1, !.window[w.i] = @ - 1]
    ELSE w

\* n calls of send() in a row.
SendN(w, n) ==
    [i      |-> w.i,
     total  |-> w.total + n,
     window |-> [w.window EXCEPT ![w.i] = @ + n]]

Send(w) == SendN(w, 1)

NextSlot(w) == (w.i + 1) % 4

\* Mutation: drain() forgets the oldest slot but not its share of the total.
DrainedKeepsTotal(w) ==
    [i |-> NextSlot(w), total |-> w.total, window |-> [w.window EXCEPT ![NextSlot(w)] = 0]]

\* drain(): moves to the next slot, the oldest one, and forgets what it held.
Drained(w) ==
    [i      |-> NextSlot(w),
     total  |-> w.total - w.window[NextSlot(w)],
     window |-> [w.window EXCEPT ![NextSlot(w)] = 0]]

\* How many sends a loop guarded by isFull() makes before the window is full.
Room(w) ==
    LET left    == 2 * MaxWindow - w.total
        leftNow == MaxWindow - w.window[w.i]
    IN  IF IsFull(w) THEN 0 ELSE IF left <= leftNow THEN left ELSE leftNow

-----------------------------------------------------------------------------
\* The total is the sum of the slots.
Balanced(w) ==
    w.total = w.window[0] + w.window[1] + w.window[2] + w.window[3]

\* No slot, and not all slots together, hold more than they may.
WithinLimits(w) ==
    /\ w.total <= 2 * MaxWindow
    /\ \A s \in Slots : w.window[s] <= MaxWindow
=============================================================================
