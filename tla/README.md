# platform-go: a verification project

TLA+ models of the coordination tier of `platform-go`, TLC configurations that
check them on small instances, and TLAPS proofs for every instance.
`PROJECT.json` is the index: components, runs, mutants, the map from definitions
to source lines, findings, hazards and theorems.

## 1. Inventory

`platform-go` is a library of domain packages, each a table with its lifecycle.
Most of them are *directories*: rows written by one guarded statement inside the
caller's transaction, whose only concurrency is the database's row locking. The
program's own concurrent logic is in the packages that run background workers
over leased rows. These are what the project is about.

| Component | State | Operations | Interacts with | What is hard |
|---|---|---|---|---|
| `workqueue.Queue` | table `work_queue_items`; a group-commit batch in each process | Enqueue, Claim, Extend, Complete, Release, Remove, Requeue, Reap, Stats, Wait | every caller's process, through the table only | leases that lapse under a slow worker; late reports; lost answers and retried claims; batching; the attempt ceiling |
| `workqueue.Runner` | per process: the batch, the slots, the set of running items | Run, pass, work, record, heartbeat | `Queue` | heartbeat against slots; partial failure of the outcome writes; drain on shutdown; crash |
| `operations` (service, worker, reporter, store) | table `operations`; one queue item per operation; per worker slot a reporter | Start, StartInTransaction, Cancel, Recover, Enqueue, Reap; Begin, Progress, Finish, Release | `workqueue.Queue`, consumers' Runners | two tables and no transaction over both; crash between two writes; sweep racing workers; cancellation racing outcomes; deadlines |
| `operations.Watcher` | subscriptions by operation and scope | Watch, sweep, retire, Close | the table, by polling | read-then-subscribe; terminal snapshot delivered exactly once; reaped rows |
| `outbox` | table of messages: claim name, lease, attempts, quarantine | Enqueue in the caller's transaction; relay cycle, Release, reap | message brokers | per-key order; a paused relay; a publish whose answer is lost; commit order against clock order |
| `timers` | table of timers: run_at, claim name, lease, attempts | Schedule, Cancel, Claim, Complete, Release, Reap; the worker's pass | callers' transactions, handlers | rescheduled while firing; redelivery; a reaper that reads first and deletes later |
| `saga` | instance: status, cursor, attempts, lease without an owner; a lock per instance | Start, Resume, Claim, Advance, Reschedule, Release; the worker's pass, forward and back | step handlers, a lock service | a stale record's cursor; crash inside a step; compensation, stuck and resume |
| `webhooks`, `searchsync`, `metering` | deliveries; index stamps; buffered usage | dispatch and retry; sync and reindex; flush and enforce | outbox, HTTP endpoints, an index | out-of-order events; stale reads; counters at a limit |
| `sessions`, `authentication/signin`, `authentication/grants` | sessions, token families, grants | rotate, redeem, revoke, compare-and-set refresh | callers | two redemptions at once; revocation against rotation |
| the directories (`identity`, `billing`, `rbac`, `audit`, `settings`, `comments`, ...) | rows | guarded writes | hooks on the same transaction | little that one transaction does not settle |

What makes each correct, in a line:

- **Queue**: a caller inside its lease holds the item, alone; an item is recorded
  as done only by the claim that worked it last; the attempt ceiling is a ceiling.
- **Runner**: it uses the queue legally whatever fails; running work stays held; a
  stop leaves nothing behind.
- **Operations**: every operation terminates; a terminal one never changes; one
  executor at a time; an outcome is the owner's; cancellation wins.
- **Watcher**: snapshots only get newer; a channel closes with the outcome in it;
  whoever watches learns of the end; nothing is left behind.
- **Outbox**: what is marked published is on the broker; a straggler touches
  nobody's claim; a key is first delivered in order; every message settles.
- **Timers**: the schedule that stands is the last one; one worker fires it; only
  the holder records an outcome; the reaper takes only what fired.
- **Saga**: one worker inside an instance at a time; steps done in order and taken
  back in reverse; the recorded outcome is true of the outside world; the cursor
  only moves on; every saga comes to rest.

The hazards are listed in `PROJECT.json`, each at its line.

## 2. Plan

Written, in this order:

1. `FencedQueue`: what a fenced queue promises, without a clock.
2. `WorkQueue`: the table and every operation of `Queue`; implements `FencedQueue`.
3. `WorkQueueProofs`: its invariants and the refinement, proved.
4. `WorkQueueRunner`: the loop, composed with `WorkQueue` (EXTENDS).
5. `Operations`: the operations row, service and worker over what `FencedQueue`
   promises of one key.
6. `Saga`: rows, locks, passes, operators; alone, since it shares no table with
   the rest.
7. `Outbox`: writers' transactions, the fleet of relays, the broker.
8. `Timers`: callers, workers and the reaper, in both dialect families.
9. `Watcher`: over an abstract row of which it sees the revision and the end.

10. `OperationsProofs`, `OutboxProofs`, `TimersProofs`, `WatcherProofs`,
    `WorkQueueRunnerProofs`, `SagaProofs`: the safety properties of each component,
    proved.

To come, in order of importance:

11. Refresh token families and grants; `Searchsync` stamps; `Metering`; webhook
    delivery.
12. A sweep with a batch limit in `Operations`, with several operations.

## 3. The modules and the code

### FencedQueue (abstract)

A job is `absent`, `waiting`, `held` under a claim's name, or `done`. `Offer`,
`Take`, `Finish`, `HandBack`, `Drop`. A held job may be taken again (a lapsed
lease): *when* is left open. Names are never reused and only the name that holds
a job settles it.

### WorkQueue

| Variable | Code |
|---|---|
| `now` | the database clock; every instant in the package is computed by the server |
| `items` | `work_queue_items` rows of one queue name; `stored = FALSE` is no row, 0 is the epoch sentinel and NULL |
| `pending` | the group-commit batcher's merged entry per key |
| `nextName` | the claim identifier minted by `claimOnce` |
| `issued`, `until`, `worked` | what callers hold: the Items, the lease they count on, the work they have done |
| `severed`, `handed`, `latest` | history, for the properties |

`Enqueue`/`upsert`/`UpsertFails` are the two halves of `Queue.Enqueue`; `Claim`
and `ClaimLost` are a claim whose rows reach the caller and one whose rows do not
(a retry after a lost answer, a decode error, a crash); `Extend`, `Complete`,
`Release` address rows by key and claim; `Remove` and `Requeue` are the
operator's; `Reap` deletes what has been completed for longer than `Retention`.
Each commits as one statement on Postgres, and as one transaction under row locks
on MySQL and SQLite (`split.go`), hence one action each. `Claim`'s `locked` is the
set of rows other transactions hold locked at that instant (`SKIP LOCKED`).

Callers are unconstrained: any Item ever handed out may be extended, completed
(once worked) or released at any later instant and any number of times.

### WorkQueueRunner

Extends `WorkQueue` with `run`, one record per runner: `pc` walks `idle`,
`working`, `complete`, `release`, `handback`; `waiting`, `running`, `handled`,
`failed` partition the batch. `pass` is `Run`'s claim, `dispatch` the slot
(checked against the context after the slot is got, as in the code), `extend` the
heartbeat over the running items, `recordHandled`/`recordFailed`/
`recordUndispatched` the writes of `record` in their order (failures in groups by
message), `recordFails`, `extendFails` and `passFails` their failures, `Cancel`,
`Crash` and `Restart` the process.

The rigid variable `fleet` is one of `Fleets`: the slots, the keys that are
enqueued, the horizon, and whether the fleet is `timely`. One run looks at
several. A timely fleet is in good health: no crash and no failed write, slots
filled and passes recorded before the clock moves, a heartbeat every
`ExtendInterval`. Handlers take as long as they like in either case.

### Operations

| Variable | Code |
|---|---|
| `row` | the `operations` row: `state`, time left on `claimed_until`, age since `created_at` (since `finished_at` once terminal), `cancel_requested` |
| `item` | the operation's item in the work queue, as `FencedQueue` has it plus time left on its lease and availability |
| `work` | one record per worker slot: where `execute` is, `write` (time left on `writeCtx`), `elapsed` (since the claim while it waits for a slot, since `Begin` after it), `beat` (since the last flush), what the reporter has learnt, the Runner's outcome and `run`'s verdict |
| `offering` | Starts between their two writes |
| `stranded` | what `Recover` has read and not yet enqueued |
| `fleet` | rigid: what Runners return and how long they take, how long a claimed item waits for a slot, how many faults there are, and whether processes keep up |
| `owner`, `record`, `asked`, `errors` | history, for the properties |

Instants are kept as the time left until them, with a floor, so the clock never
runs out and liveness can be checked. `execute` goes as far as `Begin`;
`flush`/`close`/`flushFails` are the reporter; `RunnerReturns` the Runner and
`classify`; `Verdict` is `run`'s classification; `Finish`, `Release`, `abandon`,
`HandBack`, `complete` the writes that follow, each of which lands only while
`writeCtx` has time left, and `writeFails` their failure. `executeFails` is a
`Begin` that returns an error with or without having committed. A Runner's
outcome is one of: `done`, `stopped` (it saw the cancellation and returned nil),
`retryable`, `fatal` (unretryable, or a panic), `unknown` (a kind this build does
not register), `oversized` (a result over the size limit).

The deadline of a write is compared with leases on one clock: a statement is
taken to reach the database when it is issued, and process clocks run at the
database's rate.

A `timely` fleet keeps up: flushes land within `ProgressInterval` and no slot sits
on a finished step while the clock moves. What takes time is a run, up to
`fleet.maxWork`, and the wait for a slot before it, up to `fleet.maxWait`: `pass`
claims `Batch` items for `Concurrency` slots, so an item waits for the runs ahead of
it in its batch, with nothing extending its queue lease. `maxWait` is 0 where
`Concurrency >= Batch`; with the defaults (4 on 2) it is one run. Crashes, stops,
lost enqueues and lost writes still happen, as many as `fleet.faults`.

### Saga

| Variable | Code |
|---|---|
| `row` | `saga_instances`: status, cursor, attempts, `resume_status`, time left until `next_attempt` and on the lease. The lease has no owner column |
| `lock` | the instance lock in the lock service, with its TTL (external: modelled from how `advance` uses it) |
| `job` | each worker's claimed record: `queued` for a slot, `driving`, `doing` a step, `undoing` one; `inst` is the record *the claim read*, `left` the pass's `AdvanceTimeout` |
| `polled` | whose poll tick of this unit is spent |
| `click` | an operator's `Resume`, between the read of the phase and the guarded write |
| `effect` | history: what the outside world has seen of each step: `none`, `half`, `done`, `undone` |

`Claim`/`ClaimLost` are the batch claim; `advance`, `contended` and `lockFails`
the slot and the lock; `persist`/`persistFails` the transaction that writes a
transition, refused if the row is no longer active; `drift` a worker deployed with
other steps; `beginDo`, `didStep`, `failForward`, `beginUndo`, `undidStep`,
`undoFailed`, `skipUndo` are what `drive` does through `runStep` and
`compensateStep`; `outOfTime` hands the row back at the deadline. `Resume` and `Requeue` are the two halves of the
operator's call. A worker is prompt: what takes time is a step (at most
`StepTimeout`), a crash, and waiting for a slot. That is the benign case, and
`saga_stale` needs nothing more. The optional idempotency manager is left out, so
every execution of a step is real.

### Outbox

| Variable | Code |
|---|---|
| `key` | rigid: `Message.Key` of each message |
| `row` | `outbox_messages`: not committed, pending, published, quarantined or discarded; time left until `next_attempt` and on the lease; the claim's name; attempts |
| `relay` | each relay's cycle: `idle`, `selected`, `publishing`; what is left of the batch, what was sent, whether the broker has accepted the message the relay is waiting about |
| `broker`, `gaveUp` | history: what the broker accepted, what was ever quarantined |

A claim's name is minted per claim. Rows of a relay's current claim carry the
relay, those of a claim nobody speaks for any more carry `Orphan`, so that names
need no counter. `selectClaimable` and `claim` are two steps, as on the dialects
without `SKIP LOCKED`; the single-statement claim is the pair with nothing in
between. `Commit` makes a transaction's messages visible, at any time after they
were stamped. A publish is `accept` by the broker and then `published` or
`recordFailure`: an error may come back either way. A relay overtaken by time in
the middle of a cycle (a pause, a slow broker) is a fault, of which there are
`MaxFaults` together with crashes and lost or failed writes.

### Timers

| Variable | Code |
|---|---|
| `plan`, `split` | rigid: which schedules are made; Postgres, or MySQL and SQLite |
| `row` | `scheduled_timers`: the instant, the claim's name, whether the lease runs, attempts, fired; `asked`, `call`, `moved`, `done` are history |
| `arrived` | the instants that are past |
| `work` | each worker's batch: what the claim handed it, `claimed`, `running`, `fired` or `failed` |
| `doomed` | what a split dialect's reaper has read and not yet deleted |

Instants are named, not counted: a caller's instant arrives at some moment, the
one a `Release` computes is `Later`, and a lease lapses at some moment. All that
the code compares is whether instants are equal and whether they are past. On
Postgres an outcome write matches claim and instant, on the split dialects the
claim (`Held`). `Claim`, `dispatch`, `handle`, `complete`, `release` are the
worker's pass, with their failures; `Schedule`, `Cancel` the callers'; `Reap`, or
`reapSelect` and `reapDelete`, the reaper's.

### Watcher

| Variable | Code |
|---|---|
| `limit` | rigid: `MaxSubscriptions` |
| `table`, `floor` | the row's revision, its terminal revision, whether it was reaped; the revision every replica has reached |
| `call` | each `Watch` call: read, subscribed, its goroutine waiting, retiring |
| `sub` | the subscription: registered, last revision sent, the one-place channel, closed |
| `gone`, `got` | callers whose context is done; what they have received |
| `sweep` | the loop: the ids it took, the row it read, the subscribers still to be served |
| `closed` | `Close` was called |

`Watch`, `subscribe`, `pushFirst` are the three steps of `Watch`, each under its
own mutex; `retire` takes two, and is called by a terminal `Watch`, by the
goroutine, and by the sweep. Reads go to replicas and answer with any revision
between the floor and the newest, or fail.

## 4. Runs

Properties are described where they are defined. "Bound" says why the instance is
large enough for the case to happen.

| Run | Shows | Bound |
|---|---|---|
| `workqueue` | the queue's six invariants and the refinement | one key, three claims, four instants, leases 1 and 2, delays -1 and 1, ceiling 2: enough for a holder, its successor and a third claim past the ceiling, for an extension that crosses another, and for reaping and restarting; the proofs cover the rest |
| `runner` | legal use of the queue, no item lost sight of, clean stop; the heartbeat alone holds running work | two runners and two claims; either one key under pauses, crashes and failed writes (a straggler and its successor), or two keys, a slot per item and handlers that outlive the lease |
| `ops_safety` | one executor; cancellation wins; stragglers record nothing over a successor; terminal is final | two workers; either Runners longer than the lease, waits for a slot as long as it, two faults and every outcome, or workers that pause at will and one fault |
| `ops_live` | termination, retirement, and an attempt budget only faults start over | a wait of 1 and a run of 1 in a lease of 3, results within the size limit, two faults, two attempts: the sweep, a duplicate item and a second worker all come in before the budget is spent |
| `ops_long` (violated) | an operation that never terminates | one worker, no faults |
| `saga` | one driver, order, true outcomes, onward cursor, rest | three steps (the last without Undo and behind a delay), three workers of which one is drifted, one operator, three faults: a crash in the Do, one in the Undo, and a failed write between; two Resumes |
| `saga_stale` (violated) | the cursor written back | two instances, two workers, one slot each, no faults |
| `outbox` | nothing lost, fenced claims, order per key, every message settles | two relays, two messages of one key or of none stamped in the same instant, two faults, two attempts, one release: a straggler, its successor, and a message quarantined in front of another |
| `outbox_key` (violated) | two messages of a key in flight | two messages, two relays, no faults |
| `timers` | moved timers, one firer, fenced outcomes, safe reaping, every timer settles | two workers; one timer scheduled three times over two instants (moved away and moved back), or two timers in a batch over one slot; one fault; both dialect families |
| `timers_redelivery` (violated) | a redelivered instant frees a running retry | one timer scheduled twice, no faults |
| `watcher` | newer only, closed with the outcome, nothing leaks, the end arrives | two callers with one place or two, an operation of two revisions and a terminal one: a stale read, a newer one and the end |

Deadlock is checked in the saga and outbox runs. It is off elsewhere: a queue with
nothing in it, the end of the bounded clock, a fleet told to stop, a set of timers
that has settled and a closed Watcher are states where the system really rests.
Symmetry is over runners and workers, and only in `runner` and `ops_safety`, which
check no liveness.

### Fairness

`OSpec` assumes weak fairness of: the clock; the sweep's read and its enqueue
(`Recover` runs on the scheduler of every deployment, and a failing pass is
repeated); Start's second write (made by the same call; only a fault loses it); a
worker's claim when idle (`Run` loops on a poll until its context is done) and
each following step (straight-line code); the flush loop (a ticker); and the
Runner's return, which the package cannot guarantee and everything it promises
supposes. A worker that crashed or stopped is replaced: its slot is idle again.

`Saga`, `Outbox` and `Timers` assume the same of their own workers: the clock (or,
in `Timers`, that instants arrive and leases lapse), the claim when idle, the steps
that follow it, and the return of the handler or of the broker's client, which is
under a timeout in `Saga`. `Watcher` assumes weak fairness of the poll loop, of
the goroutines and of replication, and strong fairness of one action, the sweep's
read: a read that is repeated at every poll does not fail every time.

Faults, cancellations, Starts, Resumes, releases, schedules, commits, receives and
Close have no fairness.

## 5. Findings

Each is a run that TLC refutes; `PROJECT.json` quotes the lines.

1. **`ops_long`** An operation that takes `Lease` or longer never records its
   outcome: `writeCtx` is given `Lease` before `Begin` (`operations/worker.go:253`).
   The runner of `workqueue` creates its own write context after the work, and
   says why.
2. **`saga_stale`** `Advance` matches the instance and its being active, neither
   the lease nor the cursor (`saga/sqlstore.go:464`), and a pass drives the record
   its claim read. A record that waited for a slot past its lease overwrites a
   cursor that another worker has moved on, and runs that step again.
3. **`outbox_key`** Two messages of one key can be in flight: `created_at` is
   stamped before the transaction commits (`outbox/outbox.go:335`), so a message
   may become visible behind a later one that is already leased. `KeyOrder`, which
   holds, is what is left of the promise.
4. **`timers_redelivery`** Once a firing has failed, `run_at` holds the retry's
   instant, so the redelivery of the original one is a move: it frees the lease of
   the retry that is running (`timers/internal/queries/queries.go:281`).

Smaller disagreements between comments and code, met while modelling and not kept
as runs:

- The lease of a queue item has to cover the wait for a slot: the heartbeat extends
  only items whose handlers have started (`workqueue/runner.go:631`, against the
  comment at 42-45).
- A result over the size limit is refused and nothing else is written
  (`operations/sqlstore.go:552`), so the operation is rerun for ever, against
  `operations/doc.go:255-257`; each rerun has a fresh queue item, so the budget of
  attempts starts over as well.
- Work that was completed is recorded as cancelled if a cancellation came before
  the outcome (`operations/worker.go:374`, against `doc.go:244-245`).
- The sweep cuts short a start delay or a retry delay longer than `RecoverAfter`
  (`operations/service.go:379`, against `options.go:149-154`).
- A transient failure of `Begin` starts the attempt budget over
  (`operations/worker.go:263`, against `doc.go:259-261`).
- So does a wait for a slot, with no fault at all: an item whose wait and run
  together reach `Lease` has its queue lease lapse under the run, another worker
  claims it, is refused by `Begin` and retires it, and when the Runner returns a
  retryable error the operation is pending without an item until the sweep offers a
  fresh one (`operations/worker.go:190-217` and 263, against `doc.go:259-261`). With the
  default `Batch` of 4 on a `Concurrency` of 2 (`config.go:167-170`) that takes Runners
  of half the lease. `BudgetPerFault` fails, without faults, with a wait of 2 and a
  run of 1 in a lease of 3; an operation that had to wait as long before each of its
  runs would never be failed.
- A saga step that kills its worker every time is never compensated: the count is
  looked at only when a step *returns* an error (`saga/worker.go:979-984`), while
  the comment on `Store.Claim` (`saga/store.go:142-145`) has the claim's increment
  bound it. The same holds for an outbox message whose publish kills the relay.
- Two operators who click Resume on one stuck saga may turn it round: the phase
  is read before the write (`saga/runner.go:302`) and the write asks only whether
  the saga is stuck. If it was resumed, compensated and got stuck again in between,
  a click that read "running" sends it forward. `saga/sqlstore.go:580-583` says the
  second writer matches no rows. `MovesOnward` shows it with
  `Operators = {o1, o2}`.
- A timer scheduled again at the same instant with a new payload while it is firing
  is marked fired by the firing of the old one.
- A watched operation that is reaped before any sweep has read its end leaves its
  subscription open until the caller goes away (`operations/watcher.go:424`);
  `EndReachesWatcher` excepts it.
- The flush is guarded on the state alone, so a straggler whose operation already
  runs under another worker is answered `Held`, where the comment in
  `SQLStore.Progress` has a reclaim reported as not held. It extends the new owner's
  lease and goes on; its outcome is then refused by its own deadline. `ops_safety`
  reaches it without harm.

What holds although no statement checks it: `Finish` matches any active row, yet
a straggler never records over a successor (`RecordedByOwner`), because its write
deadline is set before the lease it began under. This is the other side of
finding 1: giving `Finish` a fresh deadline without fencing the row on its owner
would break it, as the mutant `InTimeAlways` shows.

## 6. Proofs

Each theorem holds for every value of the constants that satisfies the named
assumption of its module: any number of keys, workers and operations, any
durations the configuration allows, any number of faults. TLC has checked each
inductive invariant as an invariant of the component's run before it was proved.

| Module | Theorems | From |
|---|---|---|
| `WorkQueueProofs` | `TypeCorrect`, `LeaseSafety`, `Exclusion`, `CompletionSafety`, `CeilingSafety`, `MergeSafety`, `MergeAgreesWithConflict`, `Refinement` | `IndInv` |
| `WorkQueueRunnerProofs` | `RunnerTypes`, `RunnersAreCallers`, `RunnersExclude`, `StopsClean`, `RunningStaysHeld` | `IndInv`, `LoopInv`, `HeldInv` |
| `OperationsProofs` | `OperationsTypes`, `TerminalStays`, `OwnerRecords`, `ExecutesAlone`, `CancelBeats`, `BudgetHolds` | `TypeInv`, `OwnerInv`, `Prompt`, `CancelInv`, `BudgetInv` |
| `OutboxProofs` | `NothingIsLost`, `KeysInOrder`, `HolderAlone` | `SentInv`, `OrderInv` |
| `TimersProofs` | `TimersTypes`, `MovedStands`, `FiresAlone`, `HolderWrites`, `OnlyFiredGo` | `RowInv`, `HoldInv` |
| `WatcherProofs` | `WatcherTypes`, `ClosesWithOutcome`, `SnapshotsGetNewer` | `FitInv`, `TableInv`, `CallInv`, `SweepInv` |
| `SagaProofs` | `SagaTypes`, `DrivesAlone`; under two conditions `OutcomesAreTrue`, `StepsInOrder`, `CursorsMoveOnward` | `SInv`; `OInv` |

**WorkQueue.** `LeaseHonoured` is not inductive alone. `IndInv` adds: names not yet
minted have been given to nobody and are on no row (`NamesFresh`), without which a
new claim could collide with an old one; a completed or absent row is unleased
(`SettledUnleased`), without which a restarted item could answer to a straggler;
the name on a row is the last claim's (`HolderIsLatest`), which is what a
completion must prove about its author; and the attempts column counts the claims
(`AttemptsCounted`), which ties the ceiling the predicate tests to the history.
`Exclusion` follows from `LeaseHonoured` alone: two callers would both be on the
row. The refinement maps a row to a job by `JobOf`; each action is an abstract
action or a stutter, and only `Claim` needs `NamesFresh`. `MergeAgreesWithConflict`
is about every row, entry and instant, and `MergeSafety` its consequence for the
ones a process can hold.

**WorkQueueRunner.** `RunnersAreCallers` says that a step of a runner is a step of
`WorkQueue`, so that everything proved of the queue for any caller holds of a
fleet; `RunnersExclude` is drawn from it and `Exclusion` without looking at the
runners again. It needs `LoopInv`: a loop in a pass goes by the name of its own
claim, the four parts of its batch make up what that claim handed it, and it counts
as handled only what was worked. `Owes`, a part of it, says that whatever is leased
under a loop's name is what it has yet to report, phase by phase; at `stopped`
nothing is left to report, which is `StopsClean`. `RunningStaysHeld` is a timed
argument: `HeldInv` has the heartbeat never late, every running item leased for
a whole `Lease` from the last beat, no time passing while an item waits for a slot it
could have, and a batch within its limit. The last rests on `BatchFits`:
a claim hands out no more than its limit, because its order (priority, instant,
key) is total.

**Operations.** `Finish` asks only whether the row is active, so `RecordedByOwner`
is not a matter of its guard. `Fence` is what makes it hold: a slot whose write
deadline has not passed owns its row, which is running under a lease that reaches
the deadline; the sweep can give the operation to nobody else before the straggler's
context has expired. `Settled` (an outcome is recorded of nothing that is still to
run) keeps a recorded row out of `Begin`'s reach. For a fleet that keeps up, `Prompt`
replaces the deadline with the flushes: the row's lease and the time since the last
flush make up a whole lease, and flushes come every `ProgressInterval`, so a slot
owns what it executes for as long as it executes it, which is `ExecutesAlone`. On
top of it, `AskedInv` follows a cancellation from the row through the reporter to
the verdict: no slot is about to record that its Runner succeeded or failed.

`BudgetHolds` is a potential argument. `Left(o)` is the number of errors an
operation may still see without a fault, read off its state, its item's count and
how far the slot that holds the item has got (`Allowance`): none once it is over,
what the item has left while the item leads to it, and a whole `MaxAttempts` where
the item is, or may yet be, retired under an operation that is not over (a refused
or failed `Begin`, a crashed executor). `Fits` says that the errors so far and
`Left` stay within the budget of the faults so far. A Runner's error moves one from
the second to the first, no other step raises their sum, and a fault adds
`MaxAttempts` to the bound, the most that `Left` can ever be. `Keeps` carries it: a
busy slot holds its item, with time on the item's lease and before its write
deadline, so that no second claim, and no outcome that fails to land, happens
without a fault. The item's lease runs from the claim, so it has to cover the wait for
a slot as well as the run, while the deadline of the writes runs from the end of the
wait. `BudgetPerFault` states what this takes of a fleet that keeps up:

- `MaxWait + MaxWork < Lease`. A run as long as the lease misses its own deadline
  (`ops_long`), and one that ends after its item's lease has lapsed may find the item
  retired by a second claim (section 5). The bound is exact: TLC refutes the
  property, with no faults, where the sum is `Lease`.
- No result over the size limit: `Finish` refuses it, the item is retired and the
  sweep offers a fresh one, again with no fault.

Neither is a condition of `ExecutesAlone` or `CancelBeats`, which hold however long
items wait: the row's guarded `Begin` refuses the late one.

**Outbox.** `SentInv`: what a relay believes it sent is on the broker, and an
acceptance nobody has heard of is of the head of its batch; `NothingLost` follows a
`MarkPublished` back to it. `OrderInv` is the order property about what is
*selected* rather than about what is delivered: what precedes a selected message
under its key is on the broker, was quarantined, or had not committed when the
message was selected. Delivery in order follows because a batch is published from
its first message on (`Least`, `FirstOfBatch`). `HolderAlone` needs types only: the
guard of every write names the claim.

**Timers.** `RowInv` ties the row to the calls made about it, `HoldInv` the row to
the batches: the firing a row names was handed the row as it was last moved, and a
firing in time whose timer was not moved since is the one the row names, under a
lease. The two directions are used by different theorems: the first gives
`MovedStands`, since a completion matches the row only by name; the second
`FiresAlone`, since a row names one worker. Both dialect families are covered: where
the claim alone is matched, it is the move's clearing of it that carries the proof.

**Watcher.** `Told(c)` says that the caller is gone, the Watcher is closed, or the
newest snapshot the subscription was given is the terminal one. `CallInv` and
`SweepInv` say that nobody retires a subscription before it is `Told`: neither
`Watch` itself, nor the goroutine, nor the sweep, each between its two mutexes; and
that the newest snapshot given is received or still waiting in the one-place
channel. `ClosesWithOutcome` and `SnapshotsGetNewer` are read off. `FitInv` counts
the registry.

**Saga.** `DrivesAlone` is proved from `Holds`: a worker inside a saga's steps has
the instance lock, with time on it for the rest of its pass and one more step, or
for the rest of the step that is running. It uses of the configuration only
`LockTTL > AdvanceTimeout + StepTimeout`, as the validation demands. It says nothing
about the *record* that is driven: `saga_stale` shows that one worker at a time is
not enough. `OutcomesAreTrue`, `StepsInOrder` and `CursorsMoveOnward` are therefore
proved under two conditions, each of them needed:

- `EnoughSlots`, `Concurrency >= BatchSize`. Without it TLC refutes `MovesOnward`
  (`saga_stale`), and the default configuration (a batch of 10 over 4 slots) does
  not satisfy it.
- `OneOperator`: Resume calls do not overlap. Without it a click that read an old
  phase turns a saga round (section 5).

Under them, for any definition, any fleet (drifted workers included), and any
number of crashes and failed writes, `OInv` holds. `FreshAt`: a job's record is its
row's, nobody else has a job on that instance, and the row's lease runs as long as
the lock. That is what the code relies on where a write matches neither lease nor
cursor. It holds because no record waits for a slot (`SlotAtOnce`, from the count of
a worker's jobs), and a claim takes only rows whose lease is out, which no job's is.
`ClickAt`: a Resume that has read a phase finds the saga as it read it. `StandsAt`
relates the row to the outside world, phase by phase: running at a step, the earlier
ones are done and the later ones untouched; compensating at a step, every later one
that can be is taken back.

Assumptions on constants that the proofs need and the code gives without saying:
`NoRow` is not a record (`Timers`); the keys of a queue (`WorkQueueRunner`) and the
instances of a table (`Saga`) are finitely many.

Only model-checked: liveness alone. Every safety invariant and action property of the
passing runs is stated by a theorem (three of those of `Saga` under the two conditions
above).

- Liveness (`EveryOperationTerminates`, `QueueDrains`, `EverySagaRests`,
  `EveryMessageSettles`, `EveryTimerSettles`, `EndReachesWatcher`, `NothingLeaks`):
  the prover has no reasoning about fairness or ENABLED.

## 7. What is not modelled

- Wakeups (`LISTEN`/`NOTIFY`, `Wait`, jitter): they change how soon a poll
  happens, and the models allow any delay.
- `Stats`, listing, scoping, tracing, metrics, key codecs, the contents of
  payloads, results, errors and progress counters.
- Priority and order of claims in `Operations`, the sweep's batch limit, a
  kind's own attempt limit. One operation interacts with another only through slots
  and through the sweep's batch; what contention for slots does to an operation is
  modelled, as a wait of up to `maxWait`, and who it waits for is not.
- In `Saga`: the state a saga carries, its events, the idempotency manager, and a
  worker paused in the middle of a pass (a lock that expires under its holder).
- In `Outbox`: topics, payloads, the notifications; the reaping of published rows,
  which no statement reads again.
- In `Timers`: payloads, `NextDue`, `Wait`, `Stats`.
- In `Watcher`: several scopes, wakeups (they only bring a sweep forward).
- The width of the attempts column: `attemptCeiling` saturates, and the ceiling
  stops the count below it.
- The components listed as `not_modelled` in `PROJECT.json`, with the reason or
  their place in the plan.
