-------------------------- MODULE MCWorkQueueRunner --------------------------
(* WorkQueueRunner on small fleets.                                        *)
EXTENDS WorkQueueRunner, TLC

RunnerSymmetry == Permutations(Runners)

\* Runners with a slot for every item of a batch, in good health.
Healthy == [concurrency |-> 2, keys |-> Keys, until |-> 3, timely |-> TRUE]

\* One item, and anything may fail.
Faulty == [concurrency |-> 1, keys |-> {1}, until |-> 4, timely |-> FALSE]

EitherFleet == {Healthy, Faulty}
=============================================================================
