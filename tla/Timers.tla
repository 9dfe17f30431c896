------------------------------- MODULE Timers -------------------------------
(***************************************************************************)
(* Durable one-shot timers: Schedule and Cancel on the caller's            *)
(* transaction, and a fleet of Workers that claim what is due, fire it,    *)
(* and complete or release it (src/timers).                                *)
(*                                                                         *)
(* Instants are named, not counted: a caller's instant arrives at some     *)
(* moment, and the instant a Release computes, which no caller names, is   *)
(* Later.  A lease lapses at some moment after the claim; a firing whose   *)
(* lease lapsed while its worker still had it is late.                     *)
(*                                                                         *)
(* A claim's name is minted per claim.  The rows of a worker's current     *)
(* claim carry the worker; those of a claim nobody speaks for any more     *)
(* carry Orphan.                                                           *)
(***************************************************************************)
EXTENDS Naturals, FiniteSets

CONSTANTS
    Keys, Workers, Instants,
    Batch, Concurrency, \* WorkerConfig
    MaxAttempts,        \* Config.MaxAttempts
    Plans,              \* bound: how often each key is scheduled, and at which instants
    MaxFaults,          \* bound: crashes, shutdowns, failed writes
    Later, Nobody, Orphan, NoRow

\* A row of scheduled_timers; what its fields stand for is at Upsert.
Records == [run: Instants \cup {Later}, asked: Instants, arrived: BOOLEAN,
            by: Workers \cup {Nobody, Orphan}, leased: BOOLEAN, attempts: 0 .. MaxAttempts,
            fired: BOOLEAN, call: Nat, moved: Nat, done: Nat]

ASSUME TimersAssumption ==
    /\ {Batch, Concurrency, MaxAttempts} \subseteq Nat \ {0}
    /\ Plans \subseteq [times: [Keys -> Nat], at: SUBSET Instants] /\ MaxFaults \in Nat
    /\ Later \notin Instants
    /\ Nobody \notin Workers /\ Orphan \notin Workers /\ Nobody # Orphan
    /\ NoRow \notin Records

VARIABLES
    plan,    \* one of the Plans
    split,   \* MySQL and SQLite: outcome writes name the claim, not the instant
    row,     \* scheduled_timers
    calls,   \* how often each key has been scheduled
    arrived, \* the instants that are past
    work,    \* each worker's batch: what it holds of its claim
    doomed,  \* what a reaper has read and not yet deleted
    faults

vars == <<plan, split, row, calls, arrived, work, doomed, faults>>

-----------------------------------------------------------------------------
Free == [k \in {} |-> 0]

Init ==
    /\ plan \in Plans
    /\ split \in BOOLEAN
    /\ row = [k \in Keys |-> NoRow]
    /\ calls = [k \in Keys |-> 0]
    /\ arrived = {}
    /\ work = [w \in Workers |-> Free]
    /\ doomed = {}
    /\ faults = 0

There(k) == row[k] # NoRow
Fault == faults < MaxFaults /\ faults' = faults + 1

\* A timer's instant is another than the one it has.  (Later than Later is
\* never asked for.)
Moves(k, i) == ~There(k) \/ row[k].run # i

\* Mutant: whatever is scheduled is freed.
UpsertFrees(k, i, n) ==
    [run |-> i, asked |-> i, arrived |-> FALSE, by |-> Nobody, leased |-> FALSE,
     attempts |-> 0, fired |-> FALSE, call |-> n, moved |-> IF Moves(k, i) THEN n ELSE row[k].moved, done |-> 0]

\* Mutant: a move frees the lease and leaves the name.
UpsertNamed(k, i, n) ==
    [run |-> i, asked |-> i, arrived |-> FALSE, by |-> IF There(k) THEN row[k].by ELSE Nobody,
     leased |-> ~Moves(k, i) /\ row[k].leased, attempts |-> 0, fired |-> FALSE, call |-> n,
     moved |-> IF Moves(k, i) THEN n ELSE row[k].moved, done |-> 0]

\* The row an upsert leaves: a new schedule, which takes the lease and the
\* claim's name from the old one only if it moves it.  asked, call, moved and
\* done are history: the instant and the number of the Schedule call, the last
\* call that moved the row, and the one a completed firing was handed.
Upsert(k, i, n) ==
    [run |-> i, asked |-> i, arrived |-> FALSE,
     by |-> IF Moves(k, i) THEN Nobody ELSE row[k].by,
     leased |-> ~Moves(k, i) /\ row[k].leased,
     attempts |-> 0, fired |-> FALSE, call |-> n,
     moved |-> IF Moves(k, i) THEN n ELSE row[k].moved, done |-> 0]

Schedule(k, i) ==
    /\ calls[k] < plan.times[k] /\ i \in plan.at
    /\ calls' = [calls EXCEPT ![k] = @ + 1]
    /\ row' = [row EXCEPT ![k] = Upsert(k, i, calls[k] + 1)]
    /\ UNCHANGED <<plan, split, arrived, work, doomed, faults>>

Cancel(k) ==
    /\ There(k)
    /\ row' = [row EXCEPT ![k] = NoRow]
    /\ UNCHANGED <<plan, split, calls, arrived, work, doomed, faults>>

-----------------------------------------------------------------------------
(* Time.                                                                   *)

Arrive(i) ==
    /\ i \in plan.at \ arrived
    /\ arrived' = arrived \cup {i}
    /\ UNCHANGED <<plan, split, row, calls, work, doomed, faults>>

ArriveLater(k) ==
    /\ There(k) /\ row[k].run = Later /\ ~row[k].arrived
    /\ row' = [row EXCEPT ![k].arrived = TRUE]
    /\ UNCHANGED <<plan, split, calls, arrived, work, doomed, faults>>

Arrived(k) == row[k].run \in arrived \/ row[k].arrived

Lapse(k) ==
    /\ There(k) /\ row[k].leased
    /\ row' = [row EXCEPT ![k].leased = FALSE]
    /\ work' = [w \in Workers |-> IF row[k].by = w /\ k \in DOMAIN work[w]
                                  THEN [work[w] EXCEPT ![k].late = TRUE] ELSE work[w]]
    /\ UNCHANGED <<plan, split, calls, arrived, doomed, faults>>

-----------------------------------------------------------------------------
(* A pass: claim, fire, complete, release.                                 *)

\* Mutant: a lapsed lease still counts as held.
DueUnnamed(k) ==
    There(k) /\ ~row[k].fired /\ row[k].by = Nobody /\ Arrived(k) /\ row[k].attempts < MaxAttempts

\* Mutant: no ceiling.
DueForEver(k) ==
    There(k) /\ ~row[k].fired /\ ~row[k].leased /\ Arrived(k)

Due(k) ==
    There(k) /\ ~row[k].fired /\ ~row[k].leased /\ Arrived(k) /\ row[k].attempts < MaxAttempts

\* Rows another transaction has locked are skipped, so a batch is any of them.
Batches == {B \in SUBSET {k \in Keys : Due(k)} : B # {} /\ Cardinality(B) <= Batch}

Claim(w) ==
    /\ work[w] = Free
    /\ \E B \in Batches :
        /\ row' = [k \in Keys |->
                    IF k \in B THEN [row[k] EXCEPT !.leased = TRUE, !.by = w, !.attempts = @ + 1]
                    ELSE IF There(k) /\ row[k].by = w THEN [row[k] EXCEPT !.by = Orphan] ELSE row[k]]
        /\ work' = [work EXCEPT ![w] =
                    [k \in B |-> [run |-> row[k].run, call |-> row[k].call, st |-> "claimed", late |-> FALSE]]]
    /\ UNCHANGED <<plan, split, calls, arrived, doomed, faults>>

Firings(w, st) == {k \in DOMAIN work[w] : work[w][k].st = st}
Drop(w, S) == [work EXCEPT ![w] = [k \in DOMAIN work[w] \ S |-> work[w][k]]]

\* fire: a slot, and the handler.
dispatch(w, k) ==
    /\ k \in Firings(w, "claimed")
    /\ Cardinality(Firings(w, "running")) < Concurrency
    /\ work' = [work EXCEPT ![w][k].st = "running"]
    /\ UNCHANGED <<plan, split, row, calls, arrived, doomed, faults>>

handle(w, k) ==
    /\ k \in Firings(w, "running")
    /\ \E st \in {"fired", "failed"} : work' = [work EXCEPT ![w][k].st = st]
    /\ UNCHANGED <<plan, split, row, calls, arrived, doomed, faults>>

\* The context is done: what is not running is not started.
shutdown(w) ==
    /\ Firings(w, "claimed") # {} /\ Fault
    /\ work' = Drop(w, Firings(w, "claimed"))
    /\ UNCHANGED <<plan, split, row, calls, arrived, doomed>>

Handled(w) == Firings(w, "claimed") \cup Firings(w, "running") = {}

\* Mutant: the instant is the only fence.
HeldAt(w, k) == There(k) /\ row[k].run = work[w][k].run /\ row[k].by # Nobody

\* What an outcome write matches: the claim, and on Postgres the instant too.
Held(w, k) == There(k) /\ row[k].by = w /\ (split \/ row[k].run = work[w][k].run)

complete(w) ==
    LET fired == Firings(w, "fired")
    IN  /\ Handled(w) /\ fired # {}
        /\ row' = [k \in Keys |->
                    IF k \in fired /\ Held(w, k)
                    THEN [row[k] EXCEPT !.fired = TRUE, !.leased = FALSE, !.by = Nobody, !.done = work[w][k].call]
                    ELSE row[k]]
        /\ work' = Drop(w, fired)
        /\ UNCHANGED <<plan, split, calls, arrived, doomed, faults>>

\* Logged: the leases lapse.
completeFails(w) ==
    /\ Handled(w) /\ Firings(w, "fired") # {} /\ Fault
    /\ work' = Drop(w, Firings(w, "fired"))
    /\ UNCHANGED <<plan, split, row, calls, arrived, doomed>>

\* After the completions, one release per distinct error.
release(w) ==
    /\ Handled(w) /\ Firings(w, "fired") = {}
    /\ \E group \in SUBSET Firings(w, "failed") \ {{}} :
        /\ row' = [k \in Keys |->
                    IF k \in group /\ Held(w, k) /\ ~row[k].fired
                    THEN [row[k] EXCEPT !.run = Later, !.arrived = FALSE, !.leased = FALSE, !.by = Nobody]
                    ELSE row[k]]
        /\ work' = Drop(w, group)
    /\ UNCHANGED <<plan, split, calls, arrived, doomed, faults>>

releaseFails(w) ==
    /\ Handled(w) /\ Firings(w, "fired") = {} /\ Fault
    /\ \E group \in SUBSET Firings(w, "failed") \ {{}} : work' = Drop(w, group)
    /\ UNCHANGED <<plan, split, row, calls, arrived, doomed>>

\* The process dies; right after Claim, this is also a claim whose answer is lost.
Crash(w) ==
    /\ work[w] # Free /\ Fault
    /\ work' = [work EXCEPT ![w] = Free]
    /\ UNCHANGED <<plan, split, row, calls, arrived, doomed>>

-----------------------------------------------------------------------------
(* Reap: some of the timers that fired long enough ago, read first and     *)
(* deleted in a second statement on the split dialects.                    *)

Fired == {k \in Keys : There(k) /\ row[k].fired}

reapSelect ==
    /\ split /\ doomed = {} /\ doomed' \in (SUBSET Fired) \ {{}}
    /\ UNCHANGED <<plan, split, row, calls, arrived, work, faults>>

\* Mutant: what was read is deleted.
Reapable == doomed

\* What is deleted of what was read: the delete repeats the read's test.
StillReapable == doomed \cap Fired

reapDelete ==
    /\ doomed # {} /\ doomed' = {}
    /\ row' = [k \in Keys |-> IF k \in StillReapable THEN NoRow ELSE row[k]]
    /\ UNCHANGED <<plan, split, calls, arrived, work, faults>>

Reap ==
    /\ ~split
    /\ \E S \in (SUBSET Fired) \ {{}} : row' = [k \in Keys |-> IF k \in S THEN NoRow ELSE row[k]]
    /\ UNCHANGED <<plan, split, calls, arrived, work, doomed, faults>>

-----------------------------------------------------------------------------
Pass(w) ==
    \/ Claim(w) \/ complete(w) \/ release(w)
    \/ \E k \in Keys : dispatch(w, k) \/ handle(w, k)

Next ==
    \/ \E k \in Keys : Cancel(k) \/ ArriveLater(k) \/ Lapse(k) \/ \E i \in Instants : Schedule(k, i)
    \/ \E i \in Instants : Arrive(i)
    \/ \E w \in Workers : Pass(w) \/ shutdown(w) \/ completeFails(w) \/ releaseFails(w) \/ Crash(w)
    \/ reapSelect \/ reapDelete \/ Reap

Spec == Init /\ [][Next]_vars

\* Workers keep polling, handlers return, and time passes.
Fairness ==
    /\ \A w \in Workers : WF_vars(Pass(w))
    /\ WF_vars((\E i \in Instants : Arrive(i)) \/ (\E k \in Keys : ArriveLater(k)))
    /\ WF_vars(\E k \in Keys : Lapse(k))

LiveSpec == Spec /\ Fairness

-----------------------------------------------------------------------------
Holdings == [run: Instants \cup {Later}, call: Nat,
             st: {"claimed", "running", "fired", "failed"}, late: BOOLEAN]

\* Every variable has its type; no row is claimed more often than MaxAttempts
\* allows between two Schedule calls.
TTypeOK ==
    /\ plan \in Plans /\ split \in BOOLEAN
    /\ row \in [Keys -> Records \cup {NoRow}]
    /\ calls \in [Keys -> Nat]
    /\ arrived \subseteq Instants
    /\ \A w \in Workers : DOMAIN work[w] \subseteq Keys /\ \A k \in DOMAIN work[w] : work[w][k] \in Holdings
    /\ doomed \subseteq Keys /\ faults \in 0 .. MaxFaults

\* A timer that was moved while it was being fired stands: no firing of the
\* schedule it had before, however late its Complete, marks it fired, and it is
\* not marked fired before its own instant.
MovedTimerStands ==
    \A k \in Fired : row[k].done >= row[k].moved /\ (row[k].run = Later \/ row[k].run \in arrived)

\* Two workers run the handler of one timer at once only if it was moved in
\* between or one of them has outlived its lease.
OneFirer ==
    \A k \in Keys, w, x \in Workers :
        /\ k \in Firings(w, "running") /\ k \in Firings(x, "running")
        /\ There(k) /\ \A y \in {w, x} : ~work[y][k].late /\ work[y][k].call >= row[k].moved
        => w = x

\* The outcome of a firing is written by the claim that holds it, and by no
\* straggler: fired if its handler succeeded, handed back if it failed.
HolderDecides ==
    [][\A k \in Keys :
        There(k) /\ row[k].by # Nobody /\ row'[k] # NoRow /\ row'[k].by = Nobody /\ row'[k].call = row[k].call
        => /\ row[k].by \in Workers /\ k \in DOMAIN work[row[k].by]
           /\ work[row[k].by][k].st = IF row'[k].fired THEN "fired" ELSE "failed"]_vars

\* A timer that has not fired is deleted by Cancel and by nothing else: a
\* timer restarted while a reaper is at work survives it.
OnlyFiredReaped == [][\A k \in Keys : There(k) /\ row'[k] = NoRow => row[k].fired \/ Cancel(k)]_vars

\* What Schedule's comment says of an upstream that redelivers: scheduling a
\* timer again for the instant it was scheduled for leaves the lease alone.
RedeliveryKeepsLease ==
    [][\A k \in Keys, i \in Instants :
        Schedule(k, i) /\ There(k) => (row[k].asked = i /\ row[k].leased => row'[k].leased)]_vars

\* Every timer fires, is cancelled, or stalls with its attempts spent.
EveryTimerSettles ==
    []<>(\A k \in Keys : ~There(k) \/ row[k].fired \/ row[k].attempts = MaxAttempts)

=============================================================================
