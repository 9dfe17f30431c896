----------------------------- MODULE MCWorkQueue -----------------------------
(* WorkQueue on a small instance.                                          *)
EXTENDS WorkQueue

MCDelays == {-1, 1}
=============================================================================
