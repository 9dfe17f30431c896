----------------------------- MODULE FencedQueue -----------------------------
(***************************************************************************)
(* What a fenced, lease-based queue promises its callers, with the clock   *)
(* abstracted away.  A job is absent, waiting, held under the name of the  *)
(* claim that took it last, or done.  Every claim has a name of its own;   *)
(* an outcome lands only under the name that holds the job; a job that is  *)
(* done starts again only when somebody offers it again.                   *)
(*                                                                         *)
(* A job that is held may be taken by another claim: that is a lease that  *)
(* lapsed.  When that may happen is what this specification leaves open.   *)
(***************************************************************************)
EXTENDS Integers

CONSTANT Keys

VARIABLES
    job,    \* the state of each key's job
    owner,  \* the claim holding it, or 0
    next    \* the name of the next claim

fvars == <<job, owner, next>>

JobStates == {"absent", "waiting", "held", "done"}

FTypeOK ==
    /\ job \in [Keys -> JobStates]
    /\ owner \in [Keys -> Nat]
    /\ next \in Nat \ {0}

FInit ==
    /\ job = [k \in Keys |-> "absent"]
    /\ owner = [k \in Keys |-> 0]
    /\ next = 1

\* ks move to state s under owner o, and nothing else changes.
Move(ks, s, o) ==
    /\ job' = [k \in Keys |-> IF k \in ks THEN s ELSE job[k]]
    /\ owner' = [k \in Keys |-> IF k \in ks THEN o ELSE owner[k]]

Offer(ks) ==
    /\ \A k \in ks : job[k] \in {"absent", "done"}
    /\ Move(ks, "waiting", 0)
    /\ UNCHANGED next

Take(ks) ==
    /\ \A k \in ks : job[k] \in {"waiting", "held"}
    /\ Move(ks, "held", next)
    /\ next' = next + 1

Finish(ks, n) ==
    /\ \A k \in ks : job[k] = "held" /\ owner[k] = n
    /\ Move(ks, "done", 0)
    /\ UNCHANGED next

HandBack(ks, n) ==
    /\ \A k \in ks : job[k] = "held" /\ owner[k] = n
    /\ Move(ks, "waiting", 0)
    /\ UNCHANGED next

Drop(ks) ==
    /\ Move(ks, "absent", 0)
    /\ UNCHANGED next

FNext ==
    \E ks \in SUBSET Keys :
        \/ Offer(ks)
        \/ Take(ks)
        \/ \E n \in 1 .. (next - 1) : Finish(ks, n) \/ HandBack(ks, n)
        \/ Drop(ks)

FSpec == FInit /\ [][FNext]_fvars
=============================================================================
