----------------------------- MODULE MCWatcher -----------------------------
(***************************************************************************)
(* An instance of Watcher for TLC.                                         *)
(***************************************************************************)
EXTENDS Watcher

=============================================================================
