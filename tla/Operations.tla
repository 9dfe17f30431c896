------------------------------ MODULE Operations ------------------------------
(***************************************************************************)
(* The long-running operations of src/operations: the operation row and    *)
(* its guarded transitions (sqlstore.go), the service that starts,         *)
(* cancels, recovers and reaps operations (service.go), and the worker     *)
(* that claims an operation's key off the work queue, begins its row, runs *)
(* the Runner under a reporter that flushes progress, and records what     *)
(* came of it (worker.go, reporter.go).                                    *)
(*                                                                         *)
(* The work queue appears as what FencedQueue promises of one key: a claim *)
(* leases it, and a completion or a hand-back lands only under the claim   *)
(* that holds it.  A worker here is one slot of one process, working one   *)
(* item at a time, so the slot names its claim.                            *)
(*                                                                         *)
(* Instants are kept as the time left until them, so that the clock has no *)
(* end: a lease of 0 or less has lapsed, and Epoch is a lease that lapsed  *)
(* long enough ago for the recovery sweep.                                 *)
(*                                                                         *)
(* A fleet says what its Runners may return and how long they take, how    *)
(* long a claimed item waits for a slot (a worker claims Batch items for   *)
(* Concurrency slots, so an item waits for the runs ahead of it in its     *)
(* batch, with its queue lease running), how many faults (a crash, a write *)
(* that fails, an enqueue out of the blue) the environment may inject, and *)
(* whether it is timely: nothing pauses, no wait or run is longer than     *)
(* that, every flush lands within ProgressInterval and every other step is *)
(* taken before the clock moves.                                           *)
(***************************************************************************)
EXTENDS Integers, FiniteSets

CONSTANTS
    Ops,
    Workers,
    StartDelays,      \* the delays operations are started with
    Lease,            \* WorkerConfig.Lease, of the row and of the queue item
    ProgressInterval, \* WorkerConfig.ProgressInterval
    RetryDelay,       \* WorkerConfig.RetryDelay
    MaxAttempts,      \* WorkerConfig.MaxAttempts
    RecoverAfter,     \* Config.RecoverAfter
    Retention,        \* Config.Retention
    Fleets            \* the fleets an instance looks at

NoWorker == "none"

\* WorkerConfig.ValidateWithContext: an interval fits in the lease twice, and
\* attempts are never unlimited.
WorkerConfig ==
    /\ Lease > 0
    /\ ProgressInterval > 0 /\ 2 * ProgressInterval <= Lease
    /\ RetryDelay > 0
    /\ MaxAttempts > 0

\* Config.ValidateWithContext.
Config == RecoverAfter > 0 /\ Retention > 0

ASSUME OperationsAssumption ==
    /\ WorkerConfig /\ Config
    /\ NoWorker \notin Workers
    /\ StartDelays \subseteq Nat
    /\ {Lease, ProgressInterval, RetryDelay, MaxAttempts, RecoverAfter, Retention} \subseteq Nat
    /\ Fleets \subseteq [outcomes: SUBSET {"done", "stopped", "retryable", "fatal", "unknown", "oversized"},
                        minWork: Nat, maxWork: Nat, maxWait: Nat, faults: Nat, timely: BOOLEAN]
    /\ \A f \in Fleets : f.minWork <= f.maxWork

VARIABLES
    fleet,    \* one of the Fleets
    row,      \* the operations table
    item,     \* the queue's item for each operation's ID
    work,     \* what each worker slot is in the middle of
    offering, \* Starts whose row has landed and whose enqueue has not
    stranded, \* what the recovery sweep has read and not yet re-offered
    faults,   \* faults left
    owner,    \* history: the worker whose Begin took the operation last
    record,   \* history: who wrote its outcome, and what the Runner returned
    asked,    \* history: cancelled before the Runner had returned
    errors    \* history: retryable errors its Runners have returned, if Timely

ovars == <<fleet, row, item, work, offering, stranded, faults, owner, record, asked, errors>>
history == <<owner, record, asked, errors>>

Outcomes == fleet.outcomes
MinWork == fleet.minWork
MaxWork == fleet.maxWork
MaxWait == fleet.maxWait
MaxFaults == fleet.faults
Timely == fleet.timely

-----------------------------------------------------------------------------
Active == {"pending", "running"}
Terminal == {"succeeded", "failed", "cancelled"}
Epoch == -RecoverAfter

Later(a, b) == IF a >= b THEN a ELSE b

NoOperation == [state |-> "none", lease |-> Epoch, age |-> 0, cancel |-> FALSE]
NoItem == [on |-> FALSE, holder |-> NoWorker, lease |-> 0, avail |-> 0, attempts |-> 0]
Idle == [pc |-> "idle", op |-> NoWorker, attempts |-> 0, write |-> 0, beat |-> 0, elapsed |-> 0,
         cancelled |-> FALSE, lost |-> FALSE, outcome |-> "done", verdict |-> "none",
         stopping |-> FALSE]

OInit ==
    /\ fleet \in Fleets
    /\ row = [o \in Ops |-> NoOperation]
    /\ item = [o \in Ops |-> NoItem]
    /\ work = [w \in Workers |-> Idle]
    /\ offering = [o \in Ops |-> -1]
    /\ stranded = {}
    /\ faults = MaxFaults
    /\ owner = [o \in Ops |-> NoWorker]
    /\ record = [o \in Ops |-> [by |-> NoWorker, how |-> "none"]]
    /\ asked = [o \in Ops |-> FALSE]
    /\ errors = [o \in Ops |-> 0]

-----------------------------------------------------------------------------
(* The service.                                                            *)

\* What the queue's upsert makes of an entry: a new or completed item starts
\* over, an outstanding one becomes available no later than it was.
Offered(it, delay) ==
    IF it.on THEN [it EXCEPT !.avail = IF @ <= delay THEN @ ELSE delay]
             ELSE [NoItem EXCEPT !.on = TRUE, !.avail = delay]

\* Start's transaction.  The enqueue that follows is another write.
Start(o, delay) ==
    /\ row[o].state = "none"
    /\ row' = [row EXCEPT ![o] = [NoOperation EXCEPT !.state = "pending"]]
    /\ offering' = [offering EXCEPT ![o] = delay]
    /\ UNCHANGED <<fleet, item, work, stranded, faults, owner, record, asked, errors>>

\* The caller's transaction; nothing enqueues it but the sweep.
StartInTransaction(o) ==
    /\ row[o].state = "none"
    /\ row' = [row EXCEPT ![o] = [NoOperation EXCEPT !.state = "pending"]]
    /\ UNCHANGED <<fleet, item, work, offering, stranded, faults, history>>

enqueue(o) ==
    /\ offering[o] >= 0
    /\ item' = [item EXCEPT ![o] = Offered(@, offering[o])]
    /\ offering' = [offering EXCEPT ![o] = -1]
    /\ UNCHANGED <<fleet, row, work, stranded, faults, history>>

\* The process dies between Start's two writes, or the second one fails.
EnqueueLost(o) ==
    /\ offering[o] >= 0
    /\ faults > 0
    /\ faults' = faults - 1
    /\ offering' = [offering EXCEPT ![o] = -1]
    /\ UNCHANGED <<fleet, row, item, work, stranded, history>>

\* A caller enqueues an ID by hand, or repeats a Start under its own ID.
Enqueue(o) ==
    /\ row[o].state # "none"
    /\ faults > 0
    /\ faults' = faults - 1
    /\ item' = [item EXCEPT ![o] = Offered(@, 0)]
    /\ UNCHANGED <<fleet, row, work, offering, stranded, history>>

RequestCancel(o) ==
    /\ row[o].state \in Active
    /\ row' = [row EXCEPT ![o] =
                  IF @.state = "pending"
                  THEN [@ EXCEPT !.cancel = TRUE, !.state = "cancelled", !.lease = Epoch, !.age = 0]
                  ELSE [@ EXCEPT !.cancel = TRUE]]
    /\ asked' = [asked EXCEPT ![o] = @ \/ \E w \in Workers : work[w].pc = "running" /\ work[w].op = o]
    /\ UNCHANGED <<fleet, item, work, offering, stranded, faults, owner, record, errors>>

\* Mutant: the sweep looks for lost enqueues only.
StrandedPending(o) == row[o].state = "pending" /\ row[o].age >= RecoverAfter

\* Recover is a read and then an enqueue of everything it read.
Stranded(o) ==
    \/ row[o].state = "pending" /\ row[o].age >= RecoverAfter
    \/ row[o].state = "running" /\ row[o].lease <= Epoch

Recover ==
    /\ stranded = {}
    /\ stranded' = {o \in Ops : Stranded(o)}
    /\ stranded' # {}
    /\ UNCHANGED <<fleet, row, item, work, offering, faults, history>>

RecoverEnqueues ==
    /\ stranded # {}
    /\ item' = [o \in Ops |-> IF o \in stranded THEN Offered(item[o], 0) ELSE item[o]]
    /\ stranded' = {}
    /\ UNCHANGED <<fleet, row, work, offering, faults, history>>

Reap(o) ==
    /\ row[o].state \in Terminal
    /\ row[o].age >= Retention
    /\ row' = [row EXCEPT ![o].state = "reaped"]
    /\ UNCHANGED <<fleet, item, work, offering, stranded, faults, history>>

-----------------------------------------------------------------------------
(* The worker.                                                             *)

Claimable(it) == it.on /\ it.lease <= 0 /\ it.avail <= 0

\* pass: the claim, and then the wait for a slot.  The count of attempts is kept
\* up to MaxAttempts, past which nothing tells two counts apart.
Claim(w, o) ==
    /\ work[w].pc = "idle"
    /\ Claimable(item[o])
    /\ item' = [item EXCEPT ![o].holder = w, ![o].lease = Lease,
                            ![o].attempts = IF @ < MaxAttempts THEN @ + 1 ELSE @]
    /\ work' = [work EXCEPT ![w] = [Idle EXCEPT !.pc = "claimed", !.op = o,
                                                !.attempts = item'[o].attempts]]
    /\ UNCHANGED <<fleet, row, offering, stranded, faults, history>>

\* Mutant: any row whose lease has lapsed may be begun.
BeginableLapsed(r) == r.lease <= 0

Beginable(r) == r.state \in Active /\ r.lease <= 0

Begun(r) == [r EXCEPT !.state = "running", !.lease = Lease]

\* execute, as far as store.Begin: the deadline of every later write is set
\* here, and an operation that is not ours to run only has its item retired.
\* An item already waiting for a slot is executed even in a worker told to stop.
execute(w) ==
    LET o == work[w].op
    IN  /\ work[w].pc = "claimed"
        /\ IF Beginable(row[o])
           THEN /\ row' = [row EXCEPT ![o] = Begun(@)]
                /\ work' = [work EXCEPT ![w].pc = "running", ![w].write = Lease, ![w].elapsed = 0]
                /\ owner' = [owner EXCEPT ![o] = w]
           ELSE /\ work' = [work EXCEPT ![w].pc = "complete", ![w].write = Lease, ![w].elapsed = 0]
                /\ UNCHANGED <<row, owner>>
        /\ UNCHANGED <<fleet, item, offering, stranded, faults, record, asked, errors>>

\* Begin returns an error, whether or not it committed: the worker treats it
\* as an operation that is not its own.
executeFails(w) ==
    LET o == work[w].op
    IN  /\ work[w].pc = "claimed"
        /\ faults > 0
        /\ faults' = faults - 1
        /\ \/ UNCHANGED <<row, owner>>
           \/ /\ Beginable(row[o])
              /\ row' = [row EXCEPT ![o] = Begun(@)]
              /\ owner' = [owner EXCEPT ![o] = w]
        /\ work' = [work EXCEPT ![w].pc = "complete", ![w].write = Lease, ![w].elapsed = 0]
        /\ UNCHANGED <<fleet, item, offering, stranded, record, asked, errors>>

\* A worker told to stop goes through no more of its batch; the item is left
\* to lapse.
Undispatched(w) ==
    /\ work[w].pc = "claimed" /\ work[w].stopping
    /\ work' = [work EXCEPT ![w] = Idle]
    /\ UNCHANGED <<fleet, row, item, offering, stranded, faults, history>>

\* store.Progress: it is guarded on the state alone.
Held(r) == r.state = "running"

\* Mutant: a flush records progress and leaves the lease alone.
FlushedShort(r) == r

\* Mutant: a flush adds to the lease it finds.
FlushedAdds(r) == IF Held(r) THEN [r EXCEPT !.lease = @ + Lease] ELSE r

Flushed(r) == IF Held(r) THEN [r EXCEPT !.lease = Lease] ELSE r

\* What a flush tells the reporter.
Learn(w, wk) ==
    LET r == row[work[w].op]
    IN  [wk EXCEPT !.lost = @ \/ ~Held(r),
                   !.cancelled = @ \/ ~Held(r) \/ r.cancel]

\* The flush loop, which a cancelled context ends.
flush(w) ==
    /\ work[w].pc = "running" /\ ~work[w].stopping
    /\ row' = [row EXCEPT ![work[w].op] = Flushed(@)]
    /\ work' = [work EXCEPT ![w] = Learn(w, [@ EXCEPT !.beat = 0])]
    /\ UNCHANGED <<fleet, item, offering, stranded, faults, history>>

\* The Runner returns, or panics, early if its context is done; a kind nobody
\* registers fails at once and without a reporter.
RunnerReturns(w, outcome) ==
    /\ work[w].pc = "running"
    /\ \/ outcome = "unknown" \/ work[w].elapsed >= MinWork
       \/ outcome = "retryable" /\ work[w].stopping
    /\ outcome = "stopped" => work[w].cancelled
    /\ outcome = "unknown" => work[w].elapsed = 0 /\ ~work[w].cancelled
    /\ work' = [work EXCEPT ![w].outcome = outcome,
                            ![w].pc = IF outcome = "unknown" THEN "settle" ELSE "closing",
                            ![w].verdict = IF outcome = "unknown" THEN "failed" ELSE @]
    /\ errors' = [errors EXCEPT ![work[w].op] =
                     IF Timely /\ outcome = "retryable" /\ @ <= MaxAttempts * (1 + MaxFaults)
                     THEN @ + 1 ELSE @]
    /\ UNCHANGED <<fleet, row, item, offering, stranded, faults, owner, record, asked>>

\* Mutant: a Runner's clean return beats a cancellation.
VerdictAtFaceValue(wk) ==
    CASE wk.lost -> "abandon"
      [] ~wk.lost /\ wk.outcome \in {"done", "stopped", "oversized"} -> "succeeded"
      [] ~wk.lost /\ wk.outcome \in {"retryable", "fatal"} /\ wk.cancelled -> "cancelled"
      [] ~wk.lost /\ ~wk.cancelled /\ wk.outcome = "retryable" /\ wk.attempts < MaxAttempts -> "retry"
      [] OTHER -> "failed"

\* Mutant: every retryable error is retried.
VerdictAlwaysRetries(wk) ==
    CASE wk.lost -> "abandon"
      [] ~wk.lost /\ wk.cancelled -> "cancelled"
      [] ~wk.lost /\ ~wk.cancelled /\ wk.outcome \in {"done", "oversized"} -> "succeeded"
      [] ~wk.lost /\ ~wk.cancelled /\ wk.outcome = "retryable" -> "retry"
      [] OTHER -> "failed"

\* run's classification of what the Runner returned.
Verdict(wk) ==
    CASE wk.lost -> "abandon"
      [] ~wk.lost /\ wk.cancelled -> "cancelled"
      [] ~wk.lost /\ ~wk.cancelled /\ wk.outcome \in {"done", "oversized"} -> "succeeded"
      [] ~wk.lost /\ ~wk.cancelled /\ wk.outcome = "retryable" /\ wk.attempts < MaxAttempts -> "retry"
      [] OTHER -> "failed"

\* reporter.close: the last flush, on a deadline of its own.
close(w) ==
    /\ work[w].pc = "closing"
    /\ row' = [row EXCEPT ![work[w].op] = Flushed(@)]
    /\ LET told == Learn(w, work[w])
       IN  work' = [work EXCEPT ![w] = [told EXCEPT !.pc = "settle", !.verdict = Verdict(told)]]
    /\ UNCHANGED <<fleet, item, offering, stranded, faults, history>>

\* A flush that fails is logged and teaches nothing.
flushFails(w) ==
    /\ ~Timely
    /\ faults > 0
    /\ faults' = faults - 1
    /\ \/ work[w].pc = "running" /\ work' = [work EXCEPT ![w].beat = 0]
       \/ /\ work[w].pc = "closing"
          /\ work' = [work EXCEPT ![w].pc = "settle", ![w].verdict = Verdict(work[w])]
    /\ UNCHANGED <<fleet, row, item, offering, stranded, history>>

\* Mutant: the writes have no deadline.
InTimeAlways(w) == work[w].pc # "idle"

\* writeCtx was given Lease when execute began.
InTime(w) == work[w].write > 0

Finishable(r) == r.state \in Active

\* store.Finish: refused for an oversized result, guarded on the active set.
Finish(w) ==
    LET o == work[w].op
        lands == /\ InTime(w)
                 /\ ~(work[w].verdict = "succeeded" /\ work[w].outcome = "oversized")
                 /\ Finishable(row[o])
    IN  /\ work[w].pc = "settle" /\ work[w].verdict \in Terminal
        /\ row' = [row EXCEPT ![o] = IF lands
                                     THEN [@ EXCEPT !.state = work[w].verdict, !.lease = Epoch, !.age = 0]
                                     ELSE @]
        /\ record' = [record EXCEPT ![o] = IF lands THEN [by |-> w, how |-> work[w].outcome] ELSE @]
        /\ work' = [work EXCEPT ![w].pc = "complete"]
        /\ UNCHANGED <<fleet, item, offering, stranded, faults, owner, asked, errors>>

\* store.Release, for a retry.
Release(w) ==
    LET o == work[w].op
    IN  /\ work[w].pc = "settle" /\ work[w].verdict = "retry"
        /\ row' = [row EXCEPT ![o] = IF InTime(w) /\ Held(@)
                                     THEN [@ EXCEPT !.state = "pending", !.lease = Epoch]
                                     ELSE @]
        /\ work' = [work EXCEPT ![w].pc = "handback"]
        /\ UNCHANGED <<fleet, item, offering, stranded, faults, history>>

\* A lost operation is not ours to record.
abandon(w) ==
    /\ work[w].pc = "settle" /\ work[w].verdict = "abandon"
    /\ work' = [work EXCEPT ![w].pc = "complete"]
    /\ UNCHANGED <<fleet, row, item, offering, stranded, faults, history>>

\* The end of an item: the slot is free, or its process has stopped and been
\* replaced.
HandBack(w) ==
    LET o == work[w].op
    IN  /\ work[w].pc = "handback"
        /\ item' = [item EXCEPT ![o] = IF InTime(w) /\ @.on /\ @.holder = w
                                       THEN [@ EXCEPT !.holder = NoWorker, !.lease = 0, !.avail = RetryDelay]
                                       ELSE @]
        /\ work' = [work EXCEPT ![w] = Idle]
        /\ UNCHANGED <<fleet, row, offering, stranded, faults, history>>

\* Mutant: an item whose operation is not ours is left alone.
completeOwn(w) ==
    LET o == work[w].op
    IN  /\ work[w].pc = "complete"
        /\ item' = [item EXCEPT ![o] = IF /\ InTime(w) /\ @.on /\ @.holder = w
                                          /\ work[w].verdict # "none"
                                       THEN NoItem ELSE @]
        /\ work' = [work EXCEPT ![w] = Idle]
        /\ UNCHANGED <<fleet, row, offering, stranded, faults, history>>

complete(w) ==
    LET o == work[w].op
    IN  /\ work[w].pc = "complete"
        /\ item' = [item EXCEPT ![o] = IF InTime(w) /\ @.on /\ @.holder = w THEN NoItem ELSE @]
        /\ work' = [work EXCEPT ![w] = Idle]
        /\ UNCHANGED <<fleet, row, offering, stranded, faults, history>>

\* A failed write is acknowledged, and the next one is made.
writeFails(w) ==
    /\ faults > 0
    /\ faults' = faults - 1
    /\ \/ work[w].pc = "settle" /\ work' = [work EXCEPT ![w].pc =
                                      IF work[w].verdict = "retry" THEN "handback" ELSE "complete"]
       \/ work[w].pc \in {"handback", "complete"} /\ work' = [work EXCEPT ![w] = Idle]
    /\ UNCHANGED <<fleet, row, item, offering, stranded, history>>

\* The worker's context is done: the flush loop ends and the Runner is asked,
\* through its context, to return.
Stop(w) ==
    /\ work[w].pc # "idle" /\ ~work[w].stopping
    /\ faults > 0
    /\ faults' = faults - 1
    /\ work' = [work EXCEPT ![w].stopping = TRUE]
    /\ UNCHANGED <<fleet, row, item, offering, stranded, history>>

Crash(w) ==
    /\ work[w].pc # "idle"
    /\ faults > 0
    /\ faults' = faults - 1
    /\ work' = [work EXCEPT ![w] = Idle]
    /\ UNCHANGED <<fleet, row, item, offering, stranded, history>>

-----------------------------------------------------------------------------
(* The clock.                                                              *)

\* A fleet that keeps up has nothing left to do before the clock moves but
\* wait for Runners, and with them for slots.
KeepsUp ==
    /\ \A o \in Ops : offering[o] = -1
    /\ \A w \in Workers :
          \/ work[w].pc = "idle"
          \/ work[w].pc = "claimed" /\ work[w].elapsed < MaxWait
          \/ work[w].pc = "running" /\ ~work[w].stopping
                /\ work[w].beat < ProgressInterval /\ work[w].elapsed < MaxWork

Down(n, floor) == IF n > floor THEN n - 1 ELSE n
Up(n, ceiling) == IF n < ceiling THEN n + 1 ELSE n

Tick ==
    /\ Timely => KeepsUp
    /\ row' = [o \in Ops |-> IF row[o].state \in {"none", "reaped"} THEN row[o] ELSE
                  [row[o] EXCEPT !.lease = Down(@, Epoch), !.age = Up(@, Later(RecoverAfter, Retention))]]
    /\ item' = [o \in Ops |-> [item[o] EXCEPT !.lease = Down(@, 0), !.avail = Down(@, 0)]]
    /\ work' = [w \in Workers |->
                   [work[w] EXCEPT !.write = Down(@, 0),
                                   !.elapsed = CASE work[w].pc = "claimed" -> Up(@, MaxWait)
                                                 [] work[w].pc = "running" -> Up(@, MaxWork)
                                                 [] OTHER -> @,
                                   !.beat = IF Timely /\ work[w].pc = "running"
                                            THEN Up(@, ProgressInterval) ELSE @]]
    /\ UNCHANGED <<fleet, offering, stranded, faults, owner, record, asked, errors>>

WorkerStep(w) ==
    \/ \E o \in Ops : Claim(w, o)
    \/ execute(w) \/ Undispatched(w) \/ flush(w)
    \/ \E outcome \in Outcomes : RunnerReturns(w, outcome)
    \/ close(w) \/ Finish(w) \/ Release(w) \/ abandon(w) \/ HandBack(w) \/ complete(w)

Faulty(w) == executeFails(w) \/ flushFails(w) \/ writeFails(w) \/ Stop(w) \/ Crash(w)

ONext ==
    \/ \E o \in Ops : \/ \E d \in StartDelays : Start(o, d)
                      \/ StartInTransaction(o)
                      \/ enqueue(o) \/ EnqueueLost(o) \/ Enqueue(o)
                      \/ RequestCancel(o) \/ Reap(o)
    \/ Recover \/ RecoverEnqueues
    \/ \E w \in Workers : WorkerStep(w) \/ Faulty(w)
    \/ Tick

OSafety == OInit /\ [][ONext]_ovars

\* The clock runs, a Start makes its second write unless it dies, the sweep
\* runs on the scheduler, a worker that is not dead
\* takes its next step, an idle one claims what there is, and a Runner returns.
Fairness ==
    /\ WF_ovars(Tick) /\ WF_ovars(Recover) /\ WF_ovars(RecoverEnqueues)
    /\ \A o \in Ops : WF_ovars(enqueue(o))
    /\ \A w \in Workers :
          /\ WF_ovars(\E o \in Ops : Claim(w, o))
          /\ WF_ovars(execute(w)) /\ WF_ovars(Undispatched(w)) /\ WF_ovars(flush(w))
          /\ WF_ovars(\E outcome \in Outcomes : RunnerReturns(w, outcome))
          /\ WF_ovars(close(w) \/ Finish(w) \/ Release(w) \/ abandon(w) \/ HandBack(w) \/ complete(w))

OSpec == OSafety /\ Fairness

-----------------------------------------------------------------------------
(* Properties.                                                             *)

\* The table, the queue's items and the slots keep their types: leases never
\* run past Lease or below Epoch, an attempt count past MaxAttempts is none.
OTypeOK ==
    /\ row \in [Ops -> [state: Active \cup Terminal \cup {"none", "reaped"}, lease: Epoch .. Lease,
                        age: Nat, cancel: BOOLEAN]]
    /\ item \in [Ops -> [on: BOOLEAN, holder: Workers \cup {NoWorker}, lease: 0 .. Lease,
                         avail: Nat, attempts: 0 .. MaxAttempts]]
    /\ stranded \subseteq Ops
    /\ faults \in 0 .. MaxFaults

\* The slot is between its Begin and the write of its outcome.
Executing(w) == work[w].pc \in {"running", "closing", "settle"}

\* In a fleet that keeps up, an operation has one executor at a time: the
\* flushes hold the row's lease for the whole run, so that no second claim,
\* recovery or late item begins it again, crashes and lost writes included.
SoleExecutor ==
    Timely => \A w \in Workers : Executing(w) =>
        /\ row[work[w].op].state = "running"
        /\ owner[work[w].op] = w
        /\ \A v \in Workers \ {w} : Executing(v) => work[v].op # work[w].op

\* "So the worker that lost its lease runs the work a second time and then
\* writes nothing" (operations/doc.go): an outcome on the row was written by
\* the worker that began the operation last.  No statement checks this: Finish
\* matches any active row, and what keeps a straggler's outcome off a
\* reclaimed one is that writeCtx runs out no later than the lease it began
\* the row under.
RecordedByOwner ==
    \A o \in Ops : row[o].state \in Terminal /\ record[o].by # NoWorker =>
        record[o].by = owner[o]

\* "Cancellation beats both success and failure" (doc.go): an operation that
\* was asked to stop before its Runner had returned is never recorded as
\* having succeeded or failed by that Runner's return.
CancelBeatsOutcome ==
    Timely => \A o \in Ops : asked[o] /\ row[o].state \in Terminal =>
        row[o].state = "cancelled" \/ record[o].how = "unknown"

\* What holds of the attempts in a fleet that keeps up, when an item's wait for a
\* slot and its run fit in one lease (the queue item's is never extended: once it
\* has lapsed, a second claim's refused Begin retires the item under the run) and
\* results are within the size limit (one over it is refused by Finish, which
\* retires the item and leaves the operation to the sweep): only a fault starts the
\* budget over, and each at most once, whatever the sweep and duplicate claims do
\* in between.  Without a fault, Runners fail MaxAttempts times at most (worker.go,
\* pass, execute and run).
BudgetPerFault ==
    Timely /\ MaxWait + MaxWork < Lease /\ "oversized" \notin Outcomes =>
        \A o \in Ops : errors[o] <= MaxAttempts * (1 + MaxFaults - faults)

\* Once an operation is terminal no straggler, retry, cancellation or sweep
\* changes its state; only retention removes it (the guards of Begin, Progress,
\* Finish, Release and RequestCancel).
TerminalIsFinal ==
    [][\A o \in Ops : row[o].state \in Terminal =>
          row'[o].state \in {row[o].state, "reaped"}]_ovars

\* "Every operation reaches a terminal state.  This is the promise, and every
\* other decision defers to it" (doc.go).
EveryOperationTerminates ==
    \A o \in Ops : row[o].state \in Active ~> row[o].state \notin Active

\* The item of an operation that is over leaves the queue: a refused Begin
\* retires the item that led to it.
QueueDrains ==
    \A o \in Ops : row[o].state \in Terminal \cup {"reaped"} ~> ~item[o].on
=============================================================================
