--------------------------- MODULE WorkQueueRunner ---------------------------
(***************************************************************************)
(* The claim-work-complete loop of src/workqueue/runner.go, a fleet of     *)
(* them, over the queue of WorkQueue.  A pass claims a batch, dispatches   *)
(* it over a bounded number of slots, extends the leases of the handlers   *)
(* that are running on a heartbeat of its own, and once every handler has  *)
(* returned records the outcomes in up to three kinds of write, each of    *)
(* which may fail on its own.  A cancelled context stops dispatching and   *)
(* drains; a crash forgets everything.                                     *)
(*                                                                         *)
(* A fleet says how many slots its runners have, which keys are enqueued,  *)
(* how long it is watched, and whether it is timely, which is to say       *)
(* healthy: nobody crashes or pauses, no write fails, a free slot is       *)
(* filled at once, a finished pass is recorded at once and every heartbeat *)
(* lands within ExtendInterval.  Handlers still take as long as they like. *)
(***************************************************************************)
EXTENDS WorkQueue

CONSTANTS
    Runners,
    Lease,          \* RunnerConfig.Lease
    ExtendInterval, \* RunnerConfig.ExtendInterval
    RetryDelay,     \* RunnerConfig.RetryDelay
    Batch,          \* RunnerConfig.Batch
    Fleets          \* the fleets an instance looks at

\* RunnerConfig.ValidateWithContext: an interval fits in the lease twice.
RunnerConfig ==
    /\ Lease > 0
    /\ ExtendInterval > 0 /\ 2 * ExtendInterval <= Lease
    /\ RetryDelay > 0
    /\ Batch > 0
    /\ \A f \in Fleets : f.concurrency > 0

ASSUME RunnerAssumption ==
    /\ RunnerConfig
    /\ Lease \in Leases /\ Batch \in Limits /\ {0, RetryDelay} \subseteq Delays
    /\ ExtendInterval \in Nat
    /\ IsFiniteSet(Keys)
    /\ Fleets \subseteq [concurrency: Nat, keys: SUBSET Keys, until: Nat, timely: BOOLEAN]

VARIABLES
    fleet,          \* one of the Fleets
    run             \* the loop of each runner

rvars == <<vars, fleet, run>>

Concurrency == fleet.concurrency    \* RunnerConfig.Concurrency
Timely == fleet.timely

-----------------------------------------------------------------------------
Phases == {"idle", "working", "complete", "release", "handback", "stopped", "dead"}

\* A loop between passes, or one that has not begun.
Idle == [pc |-> "idle", stopping |-> FALSE, name |-> 0, waiting |-> {}, running |-> {},
         handled |-> {}, failed |-> {}, beat |-> 0, erred |-> FALSE]

RInit == Init /\ fleet \in Fleets /\ run = [r \in Runners |-> Idle]

\* The queue's ceiling, applied once at construction.
RunnerBatch == IF Batch > MaxClaimBatch THEN MaxClaimBatch ELSE Batch

Claims(r, locked) ==
    /\ run[r].pc = "idle" /\ ~run[r].stopping
    /\ run' = [run EXCEPT ![r] = [Idle EXCEPT !.pc = "working", !.name = nextName, !.beat = now,
                                              !.waiting = DueBatch(RunnerBatch, locked)]]

\* pass: one claim; an empty one is waited out, so it is no step here.
pass(r, locked) == Claims(r, locked) /\ Claim(RunnerBatch, Lease, locked)

\* A claim that commits and fails on the way back is logged and slept off.
passFails(r, locked) ==
    /\ ~Timely
    /\ run[r].pc = "idle" /\ ~run[r].stopping
    /\ ClaimLost(RunnerBatch, Lease, locked)
    /\ UNCHANGED run

\* Mutant: an item that got a slot is still in line for another.
dispatchAgain(r, k) ==
    /\ run[r].pc = "working" /\ ~run[r].stopping
    /\ k \in run[r].waiting
    /\ Cardinality(run[r].running) < Concurrency
    /\ run' = [run EXCEPT ![r].running = @ \cup {k}]
    /\ UNCHANGED vars

\* work: an item gets a slot, unless the context is done by then.
dispatch(r, k) ==
    /\ run[r].pc = "working" /\ ~run[r].stopping
    /\ k \in run[r].waiting
    /\ Cardinality(run[r].running) < Concurrency
    /\ run' = [run EXCEPT ![r].waiting = @ \ {k}, ![r].running = @ \cup {k}]
    /\ UNCHANGED vars

handled(r, k) ==
    /\ run[r].pc = "working" /\ k \in run[r].running
    /\ Work(run[r].name, k)
    /\ run' = [run EXCEPT ![r].running = @ \ {k}, ![r].handled = @ \cup {k}]

\* The handler returned an error or panicked.
failed(r, k) ==
    /\ run[r].pc = "working" /\ k \in run[r].running
    /\ run' = [run EXCEPT ![r].running = @ \ {k}, ![r].failed = @ \cup {k}]
    /\ UNCHANGED vars

\* Mutant: the heartbeat ticks and extends nothing.
extendNothing(r) ==
    /\ run[r].pc = "working"
    /\ run' = [run EXCEPT ![r].beat = now]
    /\ UNCHANGED vars

\* The heartbeat extends the items whose handlers are running, and no others.
extend(r) ==
    /\ run[r].pc = "working"
    /\ run' = [run EXCEPT ![r].beat = now]
    /\ IF run[r].running = {} THEN UNCHANGED vars
                              ELSE Extend(run[r].name, run[r].running, Lease)

extendFails(r) ==
    /\ ~Timely
    /\ run[r].pc = "working" /\ run[r].running # {}
    /\ run' = [run EXCEPT ![r].beat = now]
    /\ UNCHANGED vars

\* Every handler has returned and nothing more will be dispatched; what still
\* waits is the undispatched rest.
AllReturned(r) ==
    /\ run[r].pc = "working" /\ run[r].running = {}
    /\ run[r].waiting = {} \/ run[r].stopping

\* The heartbeat ends with the work.
workReturns(r) ==
    /\ AllReturned(r)
    /\ run' = [run EXCEPT ![r].pc = "complete", ![r].beat = 0]
    /\ UNCHANGED vars

-----------------------------------------------------------------------------
(* record: completions, then a release per failure group, then the hand-   *)
(* back of what was never dispatched.  A failed write is logged, and the   *)
(* lease is left to lapse.                                                 *)

\* Mutant: whatever returned is completed, failed or not.
CompleteAll(r) ==
    LET returned == run[r].handled \cup run[r].failed
    IN  IF returned = {} THEN UNCHANGED vars ELSE Complete(run[r].name, returned)

CompleteHandled(r) ==
    IF run[r].handled = {} THEN UNCHANGED vars ELSE Complete(run[r].name, run[r].handled)

recordHandled(r) ==
    /\ run[r].pc = "complete"
    /\ CompleteHandled(r)
    /\ run' = [run EXCEPT ![r].pc = "release"]

recordFailed(r, group) ==
    /\ run[r].pc = "release"
    /\ Release(run[r].name, group, RetryDelay)
    /\ run' = [run EXCEPT ![r].failed = @ \ group]

recordFailedDone(r) ==
    /\ run[r].pc = "release" /\ run[r].failed = {}
    /\ run' = [run EXCEPT ![r].pc = "handback"]
    /\ UNCHANGED vars

\* Mutant: what was never dispatched is left to lapse.
HandBackNothing(r) == UNCHANGED vars

HandBackUndispatched(r) ==
    IF run[r].waiting = {} THEN UNCHANGED vars ELSE Release(run[r].name, run[r].waiting, 0)

\* A loop that has returned: the locals of its pass are gone; its name and
\* whether a write failed are kept to say what it left behind.
Stopped(loop) ==
    [Idle EXCEPT !.pc = "stopped", !.stopping = TRUE, !.name = loop.name, !.erred = loop.erred]

\* The end of a pass: Run goes round again, or returns.
EndPass(r) ==
    run' = [run EXCEPT ![r] = IF @.stopping THEN Stopped(@) ELSE Idle]

recordUndispatched(r) ==
    /\ run[r].pc = "handback"
    /\ HandBackUndispatched(r)
    /\ EndPass(r)

recordFails(r) ==
    /\ ~Timely
    /\ \/ /\ run[r].pc = "complete" /\ run[r].handled # {}
          /\ run' = [run EXCEPT ![r].pc = "release", ![r].erred = TRUE]
       \/ /\ run[r].pc = "release" /\ run[r].failed # {}
          /\ \E group \in Some(run[r].failed) :
                run' = [run EXCEPT ![r].failed = @ \ group, ![r].erred = TRUE]
       \/ /\ run[r].pc = "handback" /\ run[r].waiting # {}
          /\ run' = [run EXCEPT ![r] = IF @.stopping
                                       THEN [Stopped(@) EXCEPT !.erred = TRUE] ELSE Idle]
    /\ UNCHANGED vars

-----------------------------------------------------------------------------
\* The runner's context is cancelled.
Cancel(r) ==
    /\ run[r].pc \notin {"stopped", "dead"} /\ ~run[r].stopping
    /\ run' = [run EXCEPT ![r].stopping = TRUE, ![r].pc = IF @ = "idle" THEN "stopped" ELSE @]
    /\ UNCHANGED vars

Crash(r) ==
    /\ ~Timely
    /\ run[r].pc \notin {"stopped", "dead"}
    /\ run' = [run EXCEPT ![r] = [Idle EXCEPT !.pc = "dead"]]
    /\ UNCHANGED vars

\* A new process takes the place of a stopped or dead one.
Restart(r) ==
    /\ run[r].pc \in {"stopped", "dead"}
    /\ run' = [run EXCEPT ![r] = Idle]
    /\ UNCHANGED vars

\* A healthy runner is never behind: no filled-at-once slot is free, no pass
\* is waiting to be recorded, and the next heartbeat is not overdue.
OnTime(r) ==
    CASE run[r].pc = "working" ->
            /\ ~AllReturned(r)
            /\ run[r].waiting = {} \/ run[r].stopping \/ Cardinality(run[r].running) >= Concurrency
            /\ now < run[r].beat + ExtendInterval
      [] run[r].pc \in {"complete", "release", "handback"} -> FALSE
      [] OTHER -> TRUE

RTick ==
    /\ now < fleet.until /\ Tick
    /\ Timely => \A r \in Runners : OnTime(r)
    /\ UNCHANGED run

\* Other callers of the queue; the bounds of an instance choose among them.
Environment ==
    /\ \/ \E k \in fleet.keys, p \in Priorities : Enqueue(k, p, 0)
       \/ upsert
       \/ ~Timely /\ UpsertFails
       \/ \E doomed \in SUBSET Keys : Reap(doomed)
    /\ UNCHANGED run

RunnerStep(r) ==
    \/ \E locked \in SUBSET Keys : pass(r, locked) \/ passFails(r, locked)
    \/ \E k \in Keys : dispatch(r, k) \/ handled(r, k) \/ failed(r, k)
    \/ extend(r) \/ extendFails(r) \/ workReturns(r)
    \/ recordHandled(r)
    \/ \E group \in Some(run[r].failed) : recordFailed(r, group)
    \/ recordFailedDone(r) \/ recordUndispatched(r) \/ recordFails(r)
    \/ Cancel(r) \/ Crash(r) \/ Restart(r)

RNext == ((\E r \in Runners : RunnerStep(r)) \/ Environment \/ RTick) /\ UNCHANGED fleet

RSpec == RInit /\ [][RNext]_rvars

-----------------------------------------------------------------------------
(* Properties.                                                             *)

\* The loops keep their types, and a pass loses sight of nothing: until it
\* starts recording, every item its claim handed it is waiting for a slot,
\* running, handled or failed, and is only one of these (pass, work, record).
RTypeOK ==
    /\ run \in [Runners -> [pc: Phases, stopping: BOOLEAN, name: Nat, waiting: SUBSET Keys,
                            running: SUBSET Keys, handled: SUBSET Keys, failed: SUBSET Keys,
                            beat: Nat, erred: BOOLEAN]]
    /\ \A r \in Runners : run[r].pc = "working" =>
          LET parts == <<run[r].waiting, run[r].running, run[r].handled, run[r].failed>>
          IN  /\ UNION {parts[i] : i \in DOMAIN parts} = issued[run[r].name]
              /\ \A i, j \in DOMAIN parts : i # j => parts[i] \cap parts[j] = {}

\* Every step of a runner is a legal call of the queue: it reports only on
\* items its own claim handed it, and completes only what its handler did.
RunnersUseQueue == Spec

\* A runner told to stop that managed its writes leaves nothing leased under
\* its name: finished work is completed, failed work and work it never
\* started are handed back ("a shutdown drains the batch it claimed rather
\* than abandoning it", workqueue/doc.go).
CleanShutdown ==
    \A r \in Runners : run[r].pc = "stopped" /\ ~run[r].erred /\ run[r].name # 0 =>
        \A k \in Keys : items[k].holder # run[r].name

\* In a healthy fleet whose slots cover a batch, the heartbeat keeps an item
\* whose handler is running: no other claim can take it while it runs.
RunningIsHeld ==
    Timely /\ Concurrency >= RunnerBatch =>
        \A r \in Runners : \A k \in run[r].running :
            items[k].holder = run[r].name /\ items[k].lease > now
=============================================================================
