----------------------------- MODULE MCOperations -----------------------------
(* Operations on small fleets.                                             *)
EXTENDS Operations, TLC

WorkerSymmetry == Permutations(Workers)

Returns == {"done", "stopped", "retryable", "fatal", "unknown"}

\* Runners of any length in processes that keep up, with items that wait for a
\* slot until their queue lease has lapsed.
KeepingUp == [outcomes |-> Returns \cup {"oversized"}, minWork |-> 0, maxWork |-> 3, maxWait |-> 2,
              faults |-> 2, timely |-> TRUE]

\* Processes that may pause anywhere.
Pausing == [outcomes |-> {"retryable"}, minWork |-> 0, maxWork |-> 0, maxWait |-> 0,
            faults |-> 1, timely |-> FALSE]

\* Runners that fit in the lease of their item, the wait for a slot included.
Short == [outcomes |-> Returns, minWork |-> 0, maxWork |-> 1, maxWait |-> 1, faults |-> 2, timely |-> TRUE]

\* A Runner as long as the lease, and nothing else wrong.
Long == [outcomes |-> {"done"}, minWork |-> 2, maxWork |-> 2, maxWait |-> 0,
         faults |-> 0, timely |-> TRUE]

AnyFleet == {KeepingUp, Pausing}
ShortWork == {Short}
LongWork == {Long}
=============================================================================
