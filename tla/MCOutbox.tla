------------------------------ MODULE MCOutbox ------------------------------
(***************************************************************************)
(* Instances of Outbox for TLC: two messages stamped in one instant, each  *)
(* in a transaction of its own, with one key between them or with none.    *)
(***************************************************************************)
EXTENDS Outbox

TwoMessages == 1 .. 2
OneKeyOrNone == {[m \in Messages |-> k] : k \in {"", "k"}}
OneInstant == [m \in Messages |-> 1]
OwnInstant == [m \in Messages |-> m]
TransactionEach == {{m} : m \in Messages}

=============================================================================
