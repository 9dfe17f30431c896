------------------------------ MODULE MCTimers ------------------------------
(***************************************************************************)
(* Instances of Timers for TLC.                                            *)
(***************************************************************************)
EXTENDS Timers, TLC

CONSTANTS k1, k2, i1, i2

\* One timer, scheduled, moved and moved back.
ThereAndBack == [times |-> k1 :> 3 @@ k2 :> 0, at |-> {i1, i2}]

\* Two timers of one instant, which share their batches.
Side == [times |-> k1 :> 1 @@ k2 :> 1, at |-> {i1}]

MovedOrBatched == {ThereAndBack, Side}

\* One timer, scheduled twice for one instant.
Redelivered == {[times |-> k1 :> 2 @@ k2 :> 0, at |-> {i1}]}

=============================================================================
