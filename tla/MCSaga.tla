------------------------------- MODULE MCSaga -------------------------------
(***************************************************************************)
(* Instances of Saga for TLC.                                              *)
(***************************************************************************)
EXTENDS Saga

\* A first step at once, and a wait before the last one.
LastDelayed == [s \in Indexes |-> IF s = Steps - 1 THEN 1 ELSE 0]

\* The last step needs no taking back.
AllButLast == Indexes \ {Steps - 1}

=============================================================================
