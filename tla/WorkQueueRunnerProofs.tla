------------------------ MODULE WorkQueueRunnerProofs ------------------------
(***************************************************************************)
(* Proofs about WorkQueueRunner, for every fleet, every number of runners  *)
(* and every lease, interval and batch that RunnerConfig accepts.          *)
(***************************************************************************)
EXTENDS WorkQueueRunner, WorkQueueProofs, FiniteSetTheorems, WellFoundedInduction

-----------------------------------------------------------------------------
(* The invariant of the loops.                                             *)

Loops == [pc: Phases, stopping: BOOLEAN, name: Nat, waiting: SUBSET Keys, running: SUBSET Keys,
          handled: SUBSET Keys, failed: SUBSET Keys, beat: Nat, erred: BOOLEAN]

InPass(r) == run[r].pc \in {"working", "complete", "release", "handback"}

Batched(r) == run[r].waiting \cup run[r].running \cup run[r].handled \cup run[r].failed

\* Whatever is still leased under the loop's name is what it has yet to
\* report, as long as its writes have gone through.
Owes(r) ==
    run[r].name # 0 /\ ~run[r].erred =>
        \A k \in Keys : items[k].holder = run[r].name =>
            /\ run[r].pc \in {"working", "complete"} => k \in Batched(r)
            /\ run[r].pc = "release" => k \in run[r].waiting \cup run[r].failed
            /\ run[r].pc = "handback" => k \in run[r].waiting
            /\ run[r].pc # "stopped"

\* A loop in a pass goes by the name of its own claim, accounts for what that
\* claim handed it and counts as handled only what was worked.
LoopOK(r) ==
    /\ run[r].pc \in {"idle", "dead"} => run[r].name = 0 /\ ~run[r].stopping
    /\ run[r].pc # "working" => run[r].running = {}
    /\ InPass(r) =>
          run[r].name \in Names /\ Batched(r) \subseteq issued[run[r].name] /\ run[r].handled \subseteq worked[run[r].name]
    /\ run[r].pc = "working" =>
          /\ issued[run[r].name] \subseteq Batched(r)
          /\ run[r].waiting \cap (run[r].running \cup run[r].handled \cup run[r].failed) = {}
          /\ run[r].running \cap (run[r].handled \cup run[r].failed) = {}
          /\ run[r].handled \cap run[r].failed = {}
    /\ run[r].pc \in {"working", "complete"} => ~run[r].erred
    /\ run[r].name < nextName
    /\ Owes(r)

LoopInv ==
    /\ run \in [Runners -> Loops] /\ fleet \in Fleets
    /\ \A r \in Runners : LoopOK(r)
    /\ \A r, s \in Runners : r # s /\ InPass(r) /\ InPass(s) => run[r].name # run[s].name

RInv == IndInv /\ LoopInv

-----------------------------------------------------------------------------
LEMMA RunnerConstants ==
    /\ Lease \in Leases /\ Lease \in Nat /\ Lease > 0 /\ RetryDelay \in Delays /\ 0 \in Delays
    /\ Batch \in Limits /\ Batch \in Nat /\ Batch > 0
    /\ ExtendInterval \in Nat /\ ExtendInterval > 0 /\ 2 * ExtendInterval <= Lease
    /\ IsFiniteSet(Keys)
    /\ \A f \in Fleets : f.concurrency \in Nat /\ f.keys \subseteq Keys
  BY RunnerAssumption, WorkQueueAssumption DEF RunnerConfig

LEMMA BatchLimit ==
    /\ ClaimLimit(RunnerBatch) = RunnerBatch /\ ClaimLimit(Batch) = RunnerBatch
    /\ RunnerBatch \in Nat /\ RunnerBatch > 0
  BY RunnerConstants, WorkQueueAssumption DEF ClaimLimit, RunnerBatch

LEMMA IdleLoop ==
    /\ Idle \in Loops /\ Idle.pc = "idle" /\ ~Idle.stopping /\ Idle.name = 0 /\ Idle.running = {} /\ ~Idle.erred
    /\ Idle.waiting = {} /\ Idle.handled = {} /\ Idle.failed = {}
  BY DEF Idle, Loops, Phases

LEMMA LoopGoes == ASSUME NEW x \in Loops, NEW p \in Phases PROVE [x EXCEPT !.pc = p] \in Loops
  BY DEF Loops

LEMMA LoopReturns == ASSUME NEW x \in Loops PROVE [x EXCEPT !.pc = "complete", !.beat = 0] \in Loops
  BY DEF Loops, Phases

LEMMA StoppedLoop ==
    ASSUME NEW x \in Loops
    PROVE  /\ Stopped(x) \in Loops /\ [Stopped(x) EXCEPT !.erred = TRUE] \in Loops
           /\ Stopped(x).pc = "stopped" /\ Stopped(x).stopping /\ Stopped(x).name = x.name
           /\ Stopped(x).erred = x.erred /\ Stopped(x).running = {} /\ Stopped(x).waiting = {}
           /\ Stopped(x).handled = {} /\ Stopped(x).failed = {}
  BY DEF Loops, Phases, Stopped, Idle

LEMMA LoopErrs == ASSUME NEW x \in Loops, NEW p \in Phases PROVE [x EXCEPT !.pc = p, !.erred = TRUE] \in Loops
  BY DEF Loops

LEMMA LoopStops ==
    ASSUME NEW x \in Loops, NEW p \in Phases PROVE [x EXCEPT !.stopping = TRUE, !.pc = p] \in Loops
  BY DEF Loops

LEMMA LoopBeats == ASSUME NEW x \in Loops, NEW t \in Nat PROVE [x EXCEPT !.beat = t] \in Loops
  BY DEF Loops

LEMMA LoopFails == ASSUME NEW x \in Loops, NEW S \in SUBSET Keys PROVE [x EXCEPT !.failed = S] \in Loops
  BY DEF Loops

LEMMA LoopFailsErr ==
    ASSUME NEW x \in Loops, NEW S \in SUBSET Keys PROVE [x EXCEPT !.failed = S, !.erred = TRUE] \in Loops
  BY DEF Loops

LEMMA LoopDispatches ==
    ASSUME NEW x \in Loops, NEW S \in SUBSET Keys, NEW T \in SUBSET Keys
    PROVE  [x EXCEPT !.waiting = S, !.running = T] \in Loops
  BY DEF Loops

LEMMA LoopHandles ==
    ASSUME NEW x \in Loops, NEW S \in SUBSET Keys, NEW T \in SUBSET Keys
    PROVE  [x EXCEPT !.running = S, !.handled = T] \in Loops
  BY DEF Loops

LEMMA LoopFailsOne ==
    ASSUME NEW x \in Loops, NEW S \in SUBSET Keys, NEW T \in SUBSET Keys
    PROVE  [x EXCEPT !.running = S, !.failed = T] \in Loops
  BY DEF Loops

LEMMA LoopBegins ==
    ASSUME NEW x \in Loops, NEW p \in Phases, NEW n \in Nat, NEW t \in Nat, NEW S \in SUBSET Keys
    PROVE  [x EXCEPT !.pc = p, !.name = n, !.beat = t, !.waiting = S] \in Loops
  BY DEF Loops

LEMMA LoopStep ==
    ASSUME LoopInv, NEW r \in Runners, NEW x \in Loops, run' = [run EXCEPT ![r] = x]
    PROVE  run' \in [Runners -> Loops] /\ run'[r] = x /\ \A s \in Runners \ {r} : run'[s] = run[s]
  BY DEF LoopInv

-----------------------------------------------------------------------------
(* What the queue's steps leave alone: the items of a claim once they are  *)
(* handed out, and names on rows, which only ever come from a new claim.   *)

Kept ==
    /\ nextName' >= nextName
    /\ \A n \in Names : n < nextName => issued'[n] = issued[n] /\ worked[n] \subseteq worked'[n]
    /\ \A k \in Keys : items'[k].holder \in {items[k].holder, 0, nextName}

LEMMA QueueKeeps == ASSUME IndInv, [Next]_vars PROVE Kept
  <1> USE WorkQueueAssumption
  <1>1. TypeOK /\ nextName \in Nat /\ now \in Nat /\ \A k \in Keys : items[k] \in Rows
    BY DEF IndInv, TypeOK
  <1>2. ASSUME items' = items, nextName' = nextName, issued' = issued,
               \A n \in Names : worked[n] \subseteq worked'[n]
        PROVE  Kept
    BY <1>1, <1>2 DEF Kept
  <1>3. ASSUME nextName' = nextName, issued' = issued, worked' = worked,
               \A k \in Keys : items'[k].holder \in {items[k].holder, 0}
        PROVE  Kept
    BY <1>1, <1>3 DEF Kept
  <1>4. ASSUME NEW k \in Keys, NEW p \in Priorities, NEW d \in Delays, Enqueue(k, p, d) PROVE Kept
    BY <1>2, <1>4 DEF Enqueue
  <1>5. CASE UpsertFails \/ Tick \/ UNCHANGED vars
    BY <1>2, <1>5 DEF UpsertFails, Tick, vars
  <1>6. CASE upsert
    <2> SUFFICES ASSUME NEW k \in Keys PROVE items'[k].holder \in {items[k].holder, 0}
      BY <1>3, <1>6 DEF upsert
    <2>1. pending[k] \in Entries
      BY <1>1 DEF TypeOK
    <2>2. items'[k] = items[k] \/ items'[k] = Upsert(items[k], pending[k], now)
      BY <1>6 DEF upsert
    <2> QED
      BY <1>1, <2>1, <2>2, UpsertRow
  <1>7. ASSUME NEW limit \in Limits, NEW lease \in Leases, NEW locked \in SUBSET Keys,
               Claim(limit, lease, locked) \/ ClaimLost(limit, lease, locked)
        PROVE  Kept
    <2>1. lease \in Nat /\ nextName \in Names /\ nextName' = nextName + 1 /\ worked' = worked
      BY <1>7 DEF Claim, ClaimLost, LeaseBatch
    <2>2. \A k \in Keys : items'[k].holder \in {items[k].holder, nextName}
      <3> SUFFICES ASSUME NEW k \in Keys PROVE items'[k].holder \in {items[k].holder, nextName}
        OBVIOUS
      <3>1. items'[k] = items[k] \/ items'[k] = Leased(items[k], nextName, lease)
        BY <1>7 DEF Claim, ClaimLost, LeaseBatch
      <3> QED
        BY <1>1, <2>1, <3>1, LeasedRow
    <2>3. \A n \in Names : n < nextName => issued'[n] = issued[n]
      BY <1>1, <1>7 DEF Claim, ClaimLost, TypeOK
    <2> QED
      BY <1>1, <2>1, <2>2, <2>3 DEF Kept
  <1>8. ASSUME NEW n \in Names, NEW k \in Keys, Work(n, k) PROVE Kept
    <2>1. \A m \in Names : worked[m] \subseteq worked'[m]
      BY <1>1, <1>8 DEF Work, TypeOK
    <2> QED
      BY <1>2, <1>8, <2>1 DEF Work
  <1>9. ASSUME NEW n \in Names, NEW ks \in Some(issued[n]), NEW lease \in Leases, Extend(n, ks, lease) PROVE Kept
    <2> SUFFICES ASSUME NEW k \in Keys PROVE items'[k].holder \in {items[k].holder, 0}
      BY <1>3, <1>9 DEF Extend
    <2>1. items'[k] = items[k] \/ items'[k] = Extended(items[k], lease)
      BY <1>9 DEF Extend
    <2>2. lease \in Nat
      BY <1>9 DEF Extend
    <2>3. Extended(items[k], lease).holder = items[k].holder
      BY <1>1, <2>2, ExtendedRow
    <2> QED
      BY <2>1, <2>3
  <1>10. ASSUME NEW n \in Names, NEW ks \in Some(worked[n]), Complete(n, ks) PROVE Kept
    <2> SUFFICES ASSUME NEW k \in Keys PROVE items'[k].holder \in {items[k].holder, 0}
      BY <1>3, <1>10 DEF Complete
    <2>1. items'[k] = items[k] \/ items'[k] = Completed(items[k])
      BY <1>10 DEF Complete
    <2> QED
      BY <1>1, <2>1, CompletedRow
  <1>11. ASSUME NEW n \in Names, NEW ks \in Some(issued[n]), NEW d \in Delays, Release(n, ks, d) PROVE Kept
    <2> SUFFICES ASSUME NEW k \in Keys PROVE items'[k].holder \in {items[k].holder, 0}
      BY <1>3, <1>11 DEF Release
    <2>1. items'[k] = items[k] \/ items'[k] = Released(items[k], d)
      BY <1>11 DEF Release
    <2>2. d \in Int
      OBVIOUS
    <2>3. Released(items[k], d).holder = 0
      BY <1>1, <2>2, ReleasedRow
    <2> QED
      BY <2>1, <2>3
  <1>12. ASSUME NEW ks \in SUBSET Keys, Remove(ks) \/ Reap(ks) PROVE Kept
    <2> SUFFICES ASSUME NEW k \in Keys PROVE items'[k].holder \in {items[k].holder, 0}
      BY <1>3, <1>12 DEF Remove, Reap
    <2>1. items'[k] = items[k] \/ items'[k] = NoRow
      BY <1>12 DEF Remove, Reap
    <2> QED
      BY <2>1, AbsentRow
  <1>13. ASSUME NEW ks \in Some(Keys), Requeue(ks) PROVE Kept
    <2> SUFFICES ASSUME NEW k \in Keys PROVE items'[k].holder \in {items[k].holder, 0}
      BY <1>3, <1>13 DEF Requeue
    <2>1. items'[k] = items[k] \/ items'[k] = Requeued(items[k])
      BY <1>13 DEF Requeue
    <2> QED
      BY <1>1, <2>1, RequeuedRow
  <1> QED
    BY <1>4, <1>5, <1>6, <1>7, <1>8, <1>9, <1>10, <1>11, <1>12, <1>13 DEF Next, Some

\* A loop that a step does not touch.
LEMMA OtherLoop ==
    ASSUME IndInv, IndInv', LoopInv, Kept, NEW r \in Runners, run'[r] = run[r]
    PROVE  LoopOK(r)'
  <1>1. LoopOK(r) /\ run[r] \in Loops
    BY DEF LoopInv
  <1>2. nextName \in Nat /\ nextName' \in Nat /\ run[r].name \in Nat
    BY <1>1 DEF IndInv, TypeOK, Loops
  <1>3. Owes(r)'
    <2> SUFFICES ASSUME run[r].name # 0, ~run[r].erred, NEW k \in Keys, items'[k].holder = run[r].name
                 PROVE  items[k].holder = run[r].name
      BY <1>1 DEF LoopOK, Owes, Batched
    <2> QED
      BY <1>1, <1>2 DEF Kept, LoopOK
  <1> QED
    BY <1>1, <1>2, <1>3 DEF LoopOK, InPass, Batched, Kept

\* A step of one loop.
LEMMA OneLoop ==
    ASSUME RInv, IndInv', [Next]_vars, UNCHANGED fleet,
           NEW r \in Runners, NEW x \in Loops, run' = [run EXCEPT ![r] = x], LoopOK(r)',
           InPass(r)' => (InPass(r) /\ x.name = run[r].name) \/ x.name = nextName
    PROVE  LoopInv'
  <1>1. IndInv /\ LoopInv
    BY DEF RInv
  <1>2. run' \in [Runners -> Loops] /\ run'[r] = x /\ \A s \in Runners \ {r} : run'[s] = run[s]
    BY <1>1, LoopStep
  <1>3. Kept
    BY <1>1, QueueKeeps
  <1>4. \A s \in Runners : LoopOK(s)'
    BY <1>1, <1>2, <1>3, OtherLoop
  <1>5. \A s \in Runners : run[s].name < nextName /\ run[s].name \in Nat /\ nextName \in Nat
    BY <1>1 DEF LoopInv, LoopOK, Loops, IndInv, TypeOK
  <1>6. \A s, t \in Runners : s # t /\ InPass(s)' /\ InPass(t)' => run'[s].name # run'[t].name
    BY <1>1, <1>2, <1>5 DEF LoopInv, InPass
  <1> QED
    BY <1>1, <1>2, <1>4, <1>6 DEF LoopInv

-----------------------------------------------------------------------------
(* Every step of a fleet is a step of the queue, or none.                  *)

LEMMA RunnerClaims ==
    ASSUME NEW locked \in SUBSET Keys, Claim(RunnerBatch, Lease, locked) \/ ClaimLost(RunnerBatch, Lease, locked)
    PROVE  Next
  <1>1. Claim(Batch, Lease, locked) \/ ClaimLost(Batch, Lease, locked)
    BY BatchLimit DEF Claim, ClaimLost
  <1> QED
    BY <1>1, RunnerConstants DEF Next

LEMMA LegalExtend ==
    ASSUME NEW n \in Names, NEW ks \in Some(issued[n]), NEW lease \in Leases, Extend(n, ks, lease) PROVE Next
  BY DEF Next

LEMMA LegalComplete == ASSUME NEW n \in Names, NEW ks \in Some(worked[n]), Complete(n, ks) PROVE Next
  BY DEF Next

LEMMA LegalRelease ==
    ASSUME NEW n \in Names, NEW ks \in Some(issued[n]), NEW d \in Delays, Release(n, ks, d) PROVE Next
  BY DEF Next

LEMMA StepUsesQueue ==
    ASSUME RInv, NEW r \in Runners, RunnerStep(r)
    PROVE  [Next]_vars
  <1>1. LoopOK(r) /\ run[r] \in Loops
    BY DEF RInv, LoopInv
  <1>2. ASSUME NEW locked \in SUBSET Keys, pass(r, locked) \/ passFails(r, locked) PROVE Next
    BY <1>2, RunnerClaims DEF pass, passFails
  <1>3. ASSUME NEW k \in Keys, handled(r, k) PROVE Next
    <2>1. run[r].name \in Names
      BY <1>1, <1>3 DEF handled, LoopOK, InPass
    <2> QED
      BY <1>3, <2>1 DEF handled, Next
  <1>4. CASE extend(r)
    <2>1. run[r].name \in Names /\ run[r].running \subseteq issued[run[r].name]
      BY <1>1, <1>4 DEF extend, LoopOK, InPass, Batched
    <2>2. run[r].running # {} => run[r].running \in Some(issued[run[r].name])
      BY <2>1 DEF Some
    <2>3. UNCHANGED vars \/ (run[r].running # {} /\ Extend(run[r].name, run[r].running, Lease))
      BY <1>4 DEF extend
    <2> QED
      BY <2>1, <2>2, <2>3, RunnerConstants, LegalExtend
  <1>5. CASE recordHandled(r)
    <2>1. run[r].name \in Names /\ run[r].handled \subseteq worked[run[r].name]
      BY <1>1, <1>5 DEF recordHandled, LoopOK, InPass
    <2>2. run[r].handled # {} => run[r].handled \in Some(worked[run[r].name])
      BY <2>1 DEF Some
    <2>3. UNCHANGED vars \/ (run[r].handled # {} /\ Complete(run[r].name, run[r].handled))
      BY <1>5 DEF recordHandled, CompleteHandled
    <2> QED
      BY <2>1, <2>2, <2>3, LegalComplete
  <1>6. ASSUME NEW group \in Some(run[r].failed), recordFailed(r, group) PROVE Next
    <2>1. run[r].name \in Names /\ group \in Some(issued[run[r].name])
      BY <1>1, <1>6 DEF recordFailed, LoopOK, InPass, Batched, Some
    <2> QED
      BY <1>6, <2>1, RunnerConstants, LegalRelease DEF recordFailed
  <1>7. CASE recordUndispatched(r)
    <2>1. run[r].name \in Names /\ run[r].waiting \subseteq issued[run[r].name]
      BY <1>1, <1>7 DEF recordUndispatched, LoopOK, InPass, Batched
    <2>2. run[r].waiting # {} => run[r].waiting \in Some(issued[run[r].name])
      BY <2>1 DEF Some
    <2>3. UNCHANGED vars \/ (run[r].waiting # {} /\ Release(run[r].name, run[r].waiting, 0))
      BY <1>7 DEF recordUndispatched, HandBackUndispatched
    <2> QED
      BY <2>1, <2>2, <2>3, RunnerConstants, LegalRelease
  <1>8. CASE \/ \E k \in Keys : dispatch(r, k) \/ failed(r, k)
             \/ extendFails(r) \/ workReturns(r) \/ recordFailedDone(r) \/ recordFails(r)
             \/ Cancel(r) \/ Crash(r) \/ Restart(r)
    BY <1>8 DEF dispatch, failed, extendFails, workReturns, recordFailedDone, recordFails, Cancel, Crash, Restart
  <1> QED
    BY <1>2, <1>3, <1>4, <1>5, <1>6, <1>7, <1>8 DEF RunnerStep

LEMMA UsesQueue == RInv /\ [RNext]_rvars => [Next]_vars
  <1> SUFFICES ASSUME RInv, [RNext]_rvars PROVE [Next]_vars
    OBVIOUS
  <1>1. CASE \E r \in Runners : RunnerStep(r)
    BY <1>1, StepUsesQueue
  <1>2. CASE Environment
    <2>1. fleet.keys \subseteq Keys
      BY RunnerConstants DEF RInv, LoopInv
    <2> QED
      BY <1>2, <2>1, RunnerConstants DEF Environment, Next
  <1>3. CASE RTick
    BY <1>3 DEF RTick, Next
  <1>4. CASE UNCHANGED rvars
    BY <1>4 DEF rvars
  <1> QED
    BY <1>1, <1>2, <1>3, <1>4 DEF RNext

-----------------------------------------------------------------------------
(* The loops' steps.                                                       *)

LEMMA PassInv ==
    ASSUME RInv, IndInv', [Next]_vars, UNCHANGED fleet, NEW r \in Runners, NEW locked \in SUBSET Keys, pass(r, locked)
    PROVE  LoopInv'
  <1> DEFINE batch == DueBatch(RunnerBatch, locked)
             x == [Idle EXCEPT !.pc = "working", !.name = nextName, !.beat = now, !.waiting = batch]
  <1>1. IndInv /\ LoopInv /\ TypeOK /\ now \in Nat /\ nextName \in Nat /\ nextName # 0
    BY DEF RInv, IndInv, TypeOK
  <1>2. batch \in SUBSET Keys
    BY DEF DueBatch
  <1>3. run' = [run EXCEPT ![r] = x]
    BY DEF pass, Claims
  <1>4. /\ nextName \in Names /\ nextName' = nextName + 1 /\ worked' = worked
        /\ issued' = [issued EXCEPT ![nextName] = batch]
        /\ \A k \in Keys \ batch : items'[k] = items[k]
    BY BatchLimit DEF pass, Claim, LeaseBatch
  <1> HIDE DEF batch
  <1>5. x \in Loops
    BY <1>1, <1>2, IdleLoop, LoopBegins DEF Phases
  <1>6. /\ x.pc = "working" /\ x.name = nextName /\ x.waiting = batch /\ ~x.stopping /\ ~x.erred
        /\ x.running = {} /\ x.handled = {} /\ x.failed = {}
    BY DEF Idle
  <1> HIDE DEF x
  <1>7. run'[r] = x
    BY <1>1, <1>3, <1>5, LoopStep
  <1>8. issued'[nextName] = batch
    BY <1>1, <1>4 DEF TypeOK
  <1>9. \A k \in Keys \ batch : items'[k].holder # nextName
    BY <1>1, <1>4 DEF IndInv, NamesFresh
  <1>10. LoopOK(r)'
    BY <1>1, <1>4, <1>6, <1>7, <1>8, <1>9 DEF LoopOK, InPass, Batched, Owes
  <1> QED
    BY <1>3, <1>5, <1>6, <1>10, OneLoop

\* What a step of the queue leaves to a loop in a pass.
LEMMA OwnKept ==
    ASSUME RInv, Kept, NEW r \in Runners
    PROVE  /\ run[r] \in Loops /\ LoopOK(r) /\ run[r].name \in Nat /\ nextName \in Nat /\ nextName' >= nextName
           /\ InPass(r) => issued'[run[r].name] = issued[run[r].name] /\ worked[run[r].name] \subseteq worked'[run[r].name]
           /\ \A k \in Keys : run[r].name # 0 /\ items'[k].holder = run[r].name => items[k].holder = run[r].name
  <1>1. LoopOK(r) /\ run[r] \in Loops /\ run[r].name \in Nat /\ nextName \in Nat
    BY DEF RInv, LoopInv, Loops, IndInv, TypeOK
  <1> QED
    BY <1>1 DEF Kept, LoopOK

\* A leased row is in the table and outstanding.
LEMMA HeldIsOutstanding ==
    ASSUME IndInv, NEW k \in Keys, items[k].holder # 0
    PROVE  items[k].stored /\ items[k].completed = 0
  BY DEF IndInv, SettledUnleased, Outstanding

\* A step of a loop that stays where it is in its pass.
LEMMA WorkingStep ==
    ASSUME RInv, IndInv', [Next]_vars, UNCHANGED fleet, nextName' \in Nat, NEW r \in Runners, NEW x \in Loops,
           run' = [run EXCEPT ![r] = x], run[r].pc = "working", x.pc = "working",
           x.name = run[r].name, x.erred = run[r].erred,
           x.waiting \cup x.running \cup x.handled \cup x.failed = Batched(r),
           x.waiting \cap (x.running \cup x.handled \cup x.failed) = {},
           x.running \cap (x.handled \cup x.failed) = {}, x.handled \cap x.failed = {},
           x.handled \subseteq worked'[run[r].name]
    PROVE  LoopInv'
  <1>1. LoopInv /\ Kept
    BY QueueKeeps DEF RInv
  <1>2. run'[r] = x
    BY <1>1, LoopStep
  <1>3. /\ LoopOK(r) /\ run[r].name \in Nat /\ nextName \in Nat /\ nextName' >= nextName
        /\ issued'[run[r].name] = issued[run[r].name]
        /\ \A k \in Keys : run[r].name # 0 /\ items'[k].holder = run[r].name => items[k].holder = run[r].name
    BY <1>1, OwnKept DEF InPass
  <1>4. /\ run[r].name \in Names /\ Batched(r) = issued[run[r].name] /\ ~run[r].erred /\ run[r].name < nextName
    BY <1>3 DEF LoopOK, InPass
  <1>5. Batched(r)' = Batched(r) /\ InPass(r)'
    BY <1>2 DEF Batched, InPass
  <1>6. Owes(r)'
    BY <1>2, <1>3, <1>5 DEF LoopOK, Owes
  <1>7. LoopOK(r)'
    BY <1>2, <1>3, <1>4, <1>5, <1>6 DEF LoopOK
  <1> QED
    BY <1>7, OneLoop DEF InPass

LEMMA DispatchInv ==
    ASSUME RInv, IndInv', [Next]_vars, UNCHANGED fleet, NEW r \in Runners, NEW k \in Keys,
           dispatch(r, k) \/ handled(r, k) \/ failed(r, k)
    PROVE  LoopInv'
  <1>1. LoopOK(r) /\ run[r] \in Loops /\ run[r].pc = "working"
    BY DEF RInv, LoopInv, dispatch, handled, failed
  <1>2. /\ run[r].waiting \in SUBSET Keys /\ run[r].running \in SUBSET Keys
        /\ run[r].handled \in SUBSET Keys /\ run[r].failed \in SUBSET Keys
    BY <1>1 DEF Loops
  <1>3. nextName' \in Nat /\ run[r].name \in Names /\ run[r].handled \subseteq worked[run[r].name] /\ TypeOK
    BY <1>1 DEF RInv, IndInv, TypeOK, LoopOK, InPass
  <1>4. /\ run[r].waiting \cap (run[r].running \cup run[r].handled \cup run[r].failed) = {}
        /\ run[r].running \cap (run[r].handled \cup run[r].failed) = {}
        /\ run[r].handled \cap run[r].failed = {}
    BY <1>1 DEF LoopOK
  <1>5. CASE dispatch(r, k)
    <2> DEFINE S == run[r].waiting \ {k}
               T == run[r].running \cup {k}
               x == [run[r] EXCEPT !.waiting = S, !.running = T]
    <2>1. S \in SUBSET Keys /\ T \in SUBSET Keys /\ k \in run[r].waiting
      BY <1>2, <1>5 DEF dispatch
    <2>2. run' = [run EXCEPT ![r] = x] /\ worked' = worked
      BY <1>5 DEF dispatch, vars
    <2> HIDE DEF S, T
    <2>3. x \in Loops
      BY <1>1, <2>1, LoopDispatches
    <2>4. /\ x.pc = "working" /\ x.name = run[r].name /\ x.erred = run[r].erred /\ x.waiting = S /\ x.running = T
          /\ x.handled = run[r].handled /\ x.failed = run[r].failed
      BY <1>1 DEF Loops
    <2> HIDE DEF x
    <2>5. S \cup T \cup run[r].handled \cup run[r].failed = Batched(r)
      BY <2>1 DEF S, T, Batched
    <2>6. /\ S \cap (T \cup run[r].handled \cup run[r].failed) = {}
          /\ T \cap (run[r].handled \cup run[r].failed) = {}
      BY <1>4, <2>1 DEF S, T
    <2> QED
      BY <1>1, <1>3, <1>4, <2>2, <2>3, <2>4, <2>5, <2>6, WorkingStep
  <1>6. CASE handled(r, k)
    <2> DEFINE S == run[r].running \ {k}
               T == run[r].handled \cup {k}
               x == [run[r] EXCEPT !.running = S, !.handled = T]
    <2>1. S \in SUBSET Keys /\ T \in SUBSET Keys /\ k \in run[r].running
      BY <1>2, <1>6 DEF handled
    <2>2. run' = [run EXCEPT ![r] = x] /\ worked'[run[r].name] = worked[run[r].name] \cup {k}
      BY <1>3, <1>6 DEF handled, Work, TypeOK
    <2>3. T \subseteq worked'[run[r].name]
      BY <1>3, <2>2
    <2> HIDE DEF S, T
    <2>4. x \in Loops
      BY <1>1, <2>1, LoopHandles
    <2>5. /\ x.pc = "working" /\ x.name = run[r].name /\ x.erred = run[r].erred /\ x.running = S /\ x.handled = T
          /\ x.waiting = run[r].waiting /\ x.failed = run[r].failed
      BY <1>1 DEF Loops
    <2> HIDE DEF x
    <2>6. run[r].waiting \cup S \cup T \cup run[r].failed = Batched(r)
      BY <2>1 DEF S, T, Batched
    <2>7. /\ run[r].waiting \cap (S \cup T \cup run[r].failed) = {}
          /\ S \cap (T \cup run[r].failed) = {} /\ T \cap run[r].failed = {}
      BY <1>4, <2>1 DEF S, T
    <2> QED
      BY <1>1, <1>3, <2>2, <2>3, <2>4, <2>5, <2>6, <2>7, WorkingStep
  <1>7. CASE failed(r, k)
    <2> DEFINE S == run[r].running \ {k}
               T == run[r].failed \cup {k}
               x == [run[r] EXCEPT !.running = S, !.failed = T]
    <2>1. S \in SUBSET Keys /\ T \in SUBSET Keys /\ k \in run[r].running
      BY <1>2, <1>7 DEF failed
    <2>2. run' = [run EXCEPT ![r] = x] /\ worked' = worked
      BY <1>7 DEF failed, vars
    <2> HIDE DEF S, T
    <2>3. x \in Loops
      BY <1>1, <2>1, LoopFailsOne
    <2>4. /\ x.pc = "working" /\ x.name = run[r].name /\ x.erred = run[r].erred /\ x.running = S /\ x.failed = T
          /\ x.waiting = run[r].waiting /\ x.handled = run[r].handled
      BY <1>1 DEF Loops
    <2> HIDE DEF x
    <2>5. run[r].waiting \cup S \cup run[r].handled \cup T = Batched(r)
      BY <2>1 DEF S, T, Batched
    <2>6. /\ run[r].waiting \cap (S \cup run[r].handled \cup T) = {}
          /\ S \cap (run[r].handled \cup T) = {} /\ run[r].handled \cap T = {}
      BY <1>4, <2>1 DEF S, T
    <2> QED
      BY <1>1, <1>3, <2>2, <2>3, <2>4, <2>5, <2>6, WorkingStep
  <1> QED
    BY <1>5, <1>6, <1>7

LEMMA ExtendLoopInv ==
    ASSUME RInv, IndInv', [Next]_vars, UNCHANGED fleet, NEW r \in Runners, extend(r) \/ extendFails(r)
    PROVE  LoopInv'
  <1> DEFINE x == [run[r] EXCEPT !.beat = now]
  <1>1. LoopOK(r) /\ run[r] \in Loops /\ run[r].pc = "working" /\ now \in Nat
    BY DEF RInv, LoopInv, extend, extendFails, IndInv, TypeOK
  <1>2. run' = [run EXCEPT ![r] = x] /\ worked' = worked
    BY DEF extend, extendFails, Extend, vars
  <1>3. x \in Loops
    BY <1>1, LoopBeats
  <1>4. /\ x.pc = "working" /\ x.name = run[r].name /\ x.erred = run[r].erred /\ x.running = run[r].running
        /\ x.waiting = run[r].waiting /\ x.handled = run[r].handled /\ x.failed = run[r].failed
    BY <1>1 DEF Loops
  <1> HIDE DEF x
  <1>5. nextName' \in Nat /\ run[r].handled \subseteq worked[run[r].name]
    BY <1>1 DEF IndInv, TypeOK, LoopOK, InPass
  <1>6. /\ run[r].waiting \cap (run[r].running \cup run[r].handled \cup run[r].failed) = {}
        /\ run[r].running \cap (run[r].handled \cup run[r].failed) = {}
        /\ run[r].handled \cap run[r].failed = {}
    BY <1>1 DEF LoopOK
  <1> QED
    BY <1>1, <1>2, <1>3, <1>4, <1>5, <1>6, WorkingStep DEF Batched

\* A step of a loop that is recording its pass, or stops after it.
LEMMA RecordStep ==
    ASSUME RInv, IndInv', [Next]_vars, UNCHANGED fleet, NEW r \in Runners, NEW x \in Loops,
           run' = [run EXCEPT ![r] = x], InPass(r), x.pc \in {"complete", "release", "handback", "stopped"},
           x.running = {}, x.name = run[r].name, x.handled \subseteq run[r].handled,
           x.waiting \subseteq run[r].waiting, x.failed \subseteq run[r].failed, x.pc = "complete" => ~x.erred, Owes(r)'
    PROVE  LoopInv'
  <1>1. LoopInv /\ Kept
    BY QueueKeeps DEF RInv
  <1>2. run'[r] = x
    BY <1>1, LoopStep
  <1>3. /\ LoopOK(r) /\ run[r].name \in Nat /\ nextName \in Nat /\ nextName' >= nextName
        /\ issued'[run[r].name] = issued[run[r].name]
        /\ worked[run[r].name] \subseteq worked'[run[r].name]
    BY <1>1, OwnKept
  <1>4. /\ run[r].name \in Names /\ Batched(r) \subseteq issued[run[r].name]
        /\ run[r].handled \subseteq worked[run[r].name] /\ run[r].name < nextName
    BY <1>3 DEF LoopOK
  <1>5. Batched(r)' \subseteq Batched(r)
    BY <1>2 DEF Batched
  <1>6. nextName' \in Nat
    BY DEF IndInv, TypeOK
  <1>7. LoopOK(r)'
    BY <1>2, <1>3, <1>4, <1>5, <1>6 DEF LoopOK
  <1> QED
    BY <1>7, OneLoop

\* A loop that begins, ends between passes, or dies.
LEMMA RestStep ==
    ASSUME RInv, IndInv', [Next]_vars, UNCHANGED fleet, NEW r \in Runners, NEW x \in Loops,
           run' = [run EXCEPT ![r] = x], x.pc \in {"idle", "dead", "stopped"}, x.pc = "stopped" \/ ~x.stopping,
           x.running = {}, x.name = 0
    PROVE  LoopInv'
  <1>1. LoopInv /\ run'[r] = x
    BY LoopStep DEF RInv
  <1>2. nextName' \in Nat /\ nextName' > 0
    BY DEF IndInv, TypeOK
  <1>3. LoopOK(r)' /\ ~InPass(r)'
    BY <1>1, <1>2 DEF LoopOK, InPass, Owes
  <1> QED
    BY <1>3, OneLoop

LEMMA ReturnsInv ==
    ASSUME RInv, IndInv', [Next]_vars, UNCHANGED fleet, NEW r \in Runners, workReturns(r) \/ recordFailedDone(r)
    PROVE  LoopInv'
  <1> DEFINE p == IF run[r].pc = "working" THEN "complete" ELSE "handback"
             x == IF run[r].pc = "working" THEN [run[r] EXCEPT !.pc = "complete", !.beat = 0]
                                           ELSE [run[r] EXCEPT !.pc = "handback"]
  <1>1. /\ LoopInv /\ LoopOK(r) /\ run[r] \in Loops /\ items' = items
        /\ \/ run[r].pc = "working" /\ p = "complete" /\ run[r].running = {}
           \/ run[r].pc = "release" /\ p = "handback" /\ run[r].failed = {}
    BY DEF RInv, LoopInv, workReturns, AllReturned, recordFailedDone, vars
  <1>2. run' = [run EXCEPT ![r] = x]
    BY DEF workReturns, AllReturned, recordFailedDone
  <1>3. x \in Loops
    BY <1>1, LoopGoes, LoopReturns DEF Phases
  <1>4. /\ x.pc = p /\ x.name = run[r].name /\ x.erred = run[r].erred /\ x.running = run[r].running
        /\ x.waiting = run[r].waiting /\ x.handled = run[r].handled /\ x.failed = run[r].failed
    BY <1>1 DEF Loops
  <1> HIDE DEF x, p
  <1>5. run'[r] = x
    BY <1>1, <1>2, <1>3, LoopStep
  <1>6. InPass(r) /\ run[r].running = {} /\ (p = "complete" => ~run[r].erred)
    BY <1>1 DEF InPass, LoopOK
  <1>7. Owes(r)'
    BY <1>1, <1>4, <1>5 DEF LoopOK, Owes, Batched
  <1> QED
    BY <1>1, <1>2, <1>3, <1>4, <1>6, <1>7, RecordStep

LEMMA RecordHandledInv ==
    ASSUME RInv, IndInv', [Next]_vars, UNCHANGED fleet, NEW r \in Runners, recordHandled(r)
    PROVE  LoopInv'
  <1> DEFINE x == [run[r] EXCEPT !.pc = "release"]
  <1>1. LoopInv /\ LoopOK(r) /\ run[r] \in Loops /\ run[r].pc = "complete" /\ IndInv
    BY DEF RInv, LoopInv, recordHandled
  <1>2. run' = [run EXCEPT ![r] = x]
    BY DEF recordHandled
  <1>3. x \in Loops
    BY <1>1, LoopGoes DEF Phases
  <1>4. /\ x.pc = "release" /\ x.name = run[r].name /\ x.erred = run[r].erred /\ x.running = run[r].running
        /\ x.waiting = run[r].waiting /\ x.handled = run[r].handled /\ x.failed = run[r].failed
    BY <1>1 DEF Loops
  <1> HIDE DEF x
  <1>5. run'[r] = x
    BY <1>1, <1>2, <1>3, LoopStep
  <1>6. InPass(r) /\ run[r].running = {}
    BY <1>1 DEF InPass, LoopOK
  <1>7. Kept
    BY <1>1, QueueKeeps
  <1>8. Owes(r)'
    <2> SUFFICES ASSUME run[r].name # 0, ~run[r].erred, NEW k \in Keys, items'[k].holder = run[r].name
                 PROVE  k \in run[r].waiting \cup run[r].failed
      BY <1>4, <1>5 DEF Owes
    <2>1. items[k].holder = run[r].name
      BY <1>7, OwnKept
    <2>2. k \in run[r].waiting \cup run[r].running \cup run[r].handled \cup run[r].failed
      BY <1>1, <2>1 DEF LoopOK, Owes, Batched
    <2>3. ASSUME k \in run[r].handled PROVE FALSE
      <3>1. Matches(items[k], run[r].name)
        BY <1>1, <2>1, HeldIsOutstanding DEF Matches
      <3>2. items'[k] = Completed(items[k])
        BY <2>3, <3>1 DEF recordHandled, CompleteHandled, Complete
      <3>3. items'[k].holder = 0
        BY <1>1, <3>2, CompletedRow DEF IndInv, TypeOK
      <3> QED
        BY <3>3
    <2> QED
      BY <1>6, <2>2, <2>3
  <1> QED
    BY <1>2, <1>3, <1>4, <1>6, <1>8, RecordStep

\* A row the loop still holds is handed back by a Release that names it.
LEMMA ReleaseFrees ==
    ASSUME IndInv, NEW n \in Names, NEW ks \in SUBSET Keys, NEW d \in Delays, Release(n, ks, d),
           NEW k \in ks, items[k].holder = n
    PROVE  items'[k].holder # n
  <1>1. k \in Keys /\ items[k] \in Rows /\ d \in Int /\ n # 0 /\ TypeOK
    <2>1. TypeOK
      BY DEF IndInv
    <2>2. k \in Keys /\ d \in Int /\ n # 0
      BY WorkQueueAssumption DEF Names
    <2> QED
      BY <2>1, <2>2 DEF TypeOK
  <1>2. Matches(items[k], n) /\ items[k].completed = 0
    BY <1>1, HeldIsOutstanding DEF Matches
  <1>3. items'[k] = Released(items[k], d)
    BY <1>1, <1>2 DEF Release
  <1>4. Released(items[k], d).holder = 0
    BY <1>1, ReleasedRow
  <1> QED
    BY <1>1, <1>3, <1>4

LEMMA RecordFailedInv ==
    ASSUME RInv, IndInv', [Next]_vars, UNCHANGED fleet, NEW r \in Runners, NEW group \in Some(run[r].failed),
           recordFailed(r, group)
    PROVE  LoopInv'
  <1> DEFINE S == run[r].failed \ group
             x == [run[r] EXCEPT !.failed = S]
  <1>1. LoopInv /\ LoopOK(r) /\ run[r] \in Loops /\ run[r].pc = "release" /\ IndInv
    BY DEF RInv, LoopInv, recordFailed
  <1>2. run' = [run EXCEPT ![r] = x]
    BY DEF recordFailed
  <1>3. S \in SUBSET Keys /\ S \subseteq run[r].failed /\ group \in SUBSET Keys
    BY <1>1 DEF Loops, Some
  <1> HIDE DEF S
  <1>4. x \in Loops
    BY <1>1, <1>3, LoopFails
  <1>5. /\ x.pc = "release" /\ x.name = run[r].name /\ x.erred = run[r].erred /\ x.running = run[r].running
        /\ x.waiting = run[r].waiting /\ x.handled = run[r].handled /\ x.failed = S
    BY <1>1 DEF Loops
  <1> HIDE DEF x
  <1>6. run'[r] = x
    BY <1>1, <1>2, <1>4, LoopStep
  <1>7. InPass(r) /\ run[r].running = {} /\ run[r].name \in Names
    BY <1>1 DEF InPass, LoopOK
  <1>8. Kept
    BY <1>1, QueueKeeps
  <1>9. Owes(r)'
    <2> SUFFICES ASSUME run[r].name # 0, ~run[r].erred, NEW k \in Keys, items'[k].holder = run[r].name
                 PROVE  k \in run[r].waiting \cup S
      BY <1>5, <1>6 DEF Owes
    <2>1. items[k].holder = run[r].name
      BY <1>8, OwnKept
    <2>2. k \in run[r].waiting \cup run[r].failed
      BY <1>1, <2>1 DEF LoopOK, Owes
    <2>3. k \notin group
      BY <1>1, <1>3, <1>7, <2>1, ReleaseFrees, RunnerConstants DEF recordFailed
    <2> QED
      BY <2>2, <2>3 DEF S
  <1> QED
    BY <1>2, <1>3, <1>4, <1>5, <1>7, <1>9, RecordStep

LEMMA RecordUndispatchedInv ==
    ASSUME RInv, IndInv', [Next]_vars, UNCHANGED fleet, NEW r \in Runners, recordUndispatched(r)
    PROVE  LoopInv'
  <1>1. LoopInv /\ LoopOK(r) /\ run[r] \in Loops /\ run[r].pc = "handback" /\ IndInv
    BY DEF RInv, LoopInv, recordUndispatched
  <1>2. CASE ~run[r].stopping
    <2>1. run' = [run EXCEPT ![r] = Idle]
      BY <1>2 DEF recordUndispatched, EndPass
    <2> QED
      BY <2>1, IdleLoop, RestStep
  <1>3. CASE run[r].stopping
    <2> DEFINE x == Stopped(run[r])
    <2>1. run' = [run EXCEPT ![r] = x]
      BY <1>3 DEF recordUndispatched, EndPass
    <2>2. x \in Loops
      BY <1>1, StoppedLoop
    <2>3. /\ x.pc = "stopped" /\ x.name = run[r].name /\ x.erred = run[r].erred
          /\ x.running = {} /\ x.waiting = {} /\ x.handled = {} /\ x.failed = {}
      BY <1>1, StoppedLoop
    <2> HIDE DEF x
    <2>4. run'[r] = x
      BY <1>1, <2>1, <2>2, LoopStep
    <2>5. InPass(r) /\ run[r].running = {} /\ run[r].name \in Names /\ run[r].waiting \in SUBSET Keys
      BY <1>1 DEF InPass, LoopOK, Loops
    <2>6. Kept
      BY <1>1, QueueKeeps
    <2>7. Owes(r)'
      <3> SUFFICES ASSUME run[r].name # 0, ~run[r].erred, NEW k \in Keys, items'[k].holder = run[r].name
                   PROVE  FALSE
        BY <2>3, <2>4 DEF Owes
      <3>1. items[k].holder = run[r].name
        BY <2>6, OwnKept
      <3>2. k \in run[r].waiting
        BY <1>1, <3>1 DEF LoopOK, Owes
      <3>3. Release(run[r].name, run[r].waiting, 0)
        BY <3>2 DEF recordUndispatched, HandBackUndispatched
      <3> QED
        BY <1>1, <2>5, <3>1, <3>2, <3>3, ReleaseFrees, RunnerConstants
    <2> QED
      BY <2>1, <2>2, <2>3, <2>5, <2>7, RecordStep
  <1> QED
    BY <1>2, <1>3

LEMMA RecordFailsInv ==
    ASSUME RInv, IndInv', [Next]_vars, UNCHANGED fleet, NEW r \in Runners, recordFails(r)
    PROVE  LoopInv'
  <1>1. LoopInv /\ LoopOK(r) /\ run[r] \in Loops
    BY DEF RInv, LoopInv
  <1>2. InPass(r) /\ run[r].running = {}
    BY <1>1 DEF recordFails, InPass, LoopOK
  \* The pass goes on, or ends, having erred.
  <1>3. ASSUME NEW x \in Loops, run' = [run EXCEPT ![r] = x], x.pc \in {"release", "stopped"},
               x.name = run[r].name, x.erred, x.running = {}, x.waiting \subseteq run[r].waiting,
               x.handled \subseteq run[r].handled, x.failed \subseteq run[r].failed
        PROVE  LoopInv'
    <2>1. run'[r] = x
      BY <1>1, <1>3, LoopStep
    <2>2. Owes(r)'
      BY <1>3, <2>1 DEF Owes
    <2> QED
      BY <1>2, <1>3, <2>2, RecordStep
  <1>4. CASE run[r].pc = "complete" /\ run' = [run EXCEPT ![r].pc = "release", ![r].erred = TRUE]
    <2> DEFINE x == [run[r] EXCEPT !.pc = "release", !.erred = TRUE]
    <2>1. x \in Loops
      BY <1>1, LoopErrs DEF Phases
    <2>2. /\ x.pc = "release" /\ x.name = run[r].name /\ x.erred /\ x.running = run[r].running
          /\ x.waiting = run[r].waiting /\ x.handled = run[r].handled /\ x.failed = run[r].failed
      BY <1>1 DEF Loops
    <2>3. run' = [run EXCEPT ![r] = x]
      BY <1>4
    <2> HIDE DEF x
    <2> QED
      BY <1>2, <1>3, <2>1, <2>2, <2>3
  <1>5. ASSUME run[r].pc = "release", NEW group \in Some(run[r].failed),
               run' = [run EXCEPT ![r].failed = @ \ group, ![r].erred = TRUE]
        PROVE  LoopInv'
    <2> DEFINE S == run[r].failed \ group
               x == [run[r] EXCEPT !.failed = S, !.erred = TRUE]
    <2>1. S \in SUBSET Keys /\ S \subseteq run[r].failed
      BY <1>1 DEF Loops
    <2>2. run' = [run EXCEPT ![r] = x]
      BY <1>5
    <2> HIDE DEF S
    <2>3. x \in Loops
      BY <1>1, <2>1, LoopFailsErr
    <2>4. /\ x.pc = run[r].pc /\ x.name = run[r].name /\ x.erred /\ x.running = run[r].running
          /\ x.waiting = run[r].waiting /\ x.handled = run[r].handled /\ x.failed = S
      BY <1>1 DEF Loops
    <2> HIDE DEF x
    <2>5. run'[r] = x
      BY <1>1, <2>2, <2>3, LoopStep
    <2>6. Owes(r)'
      BY <2>4, <2>5 DEF Owes
    <2> QED
      BY <1>2, <1>5, <2>1, <2>2, <2>3, <2>4, <2>6, RecordStep
  <1>6. CASE run' = [run EXCEPT ![r] = IF @.stopping THEN [Stopped(@) EXCEPT !.erred = TRUE] ELSE Idle]
    <2>1. CASE run[r].stopping
      <3> DEFINE x == [Stopped(run[r]) EXCEPT !.erred = TRUE]
      <3>1. x \in Loops
        BY <1>1, StoppedLoop
      <3>2. /\ x.pc = "stopped" /\ x.name = run[r].name /\ x.erred /\ x.running = {}
            /\ x.waiting = {} /\ x.handled = {} /\ x.failed = {}
        BY DEF Stopped, Idle
      <3>3. run' = [run EXCEPT ![r] = x]
        BY <1>6, <2>1
      <3> HIDE DEF x
      <3> QED
        BY <1>3, <3>1, <3>2, <3>3
    <2>2. CASE ~run[r].stopping
      <3>1. run' = [run EXCEPT ![r] = Idle]
        BY <1>6, <2>2
      <3> QED
        BY <3>1, IdleLoop, RestStep
    <2> QED
      BY <2>1, <2>2
  <1> QED
    BY <1>4, <1>5, <1>6 DEF recordFails

LEMMA CancelInv ==
    ASSUME RInv, IndInv', [Next]_vars, UNCHANGED fleet, NEW r \in Runners, Cancel(r)
    PROVE  LoopInv'
  <1> DEFINE p == IF run[r].pc = "idle" THEN "stopped" ELSE run[r].pc
             x == [run[r] EXCEPT !.stopping = TRUE, !.pc = p]
  <1>1. /\ LoopInv /\ LoopOK(r) /\ run[r] \in Loops /\ run[r].pc \in Phases /\ run[r].pc \notin {"stopped", "dead"}
        /\ items' = items /\ worked' = worked
    BY DEF RInv, LoopInv, Loops, Cancel, vars
  <1>2. run' = [run EXCEPT ![r] = x]
    BY DEF Cancel
  <1>3. p \in Phases /\ (run[r].pc = "idle" => p = "stopped") /\ (run[r].pc # "idle" => p = run[r].pc)
    BY <1>1 DEF Phases
  <1> HIDE DEF p
  <1>4. x \in Loops
    BY <1>1, <1>3, LoopStops
  <1>5. /\ x.pc = p /\ x.name = run[r].name /\ x.erred = run[r].erred /\ x.running = run[r].running
        /\ x.waiting = run[r].waiting /\ x.handled = run[r].handled /\ x.failed = run[r].failed
    BY <1>1 DEF Loops
  <1> HIDE DEF x
  <1>6. run'[r] = x
    BY <1>1, <1>2, <1>4, LoopStep
  <1>7. CASE run[r].pc = "idle"
    <2>1. run[r].name = 0 /\ run[r].running = {}
      BY <1>1, <1>7 DEF LoopOK
    <2> QED
      BY <1>2, <1>3, <1>4, <1>5, <1>7, <2>1, RestStep
  <1>8. CASE run[r].pc = "working"
    <2>1. nextName' \in Nat /\ run[r].handled \subseteq worked[run[r].name]
      BY <1>1, <1>8 DEF IndInv, TypeOK, LoopOK, InPass
    <2>2. /\ run[r].waiting \cap (run[r].running \cup run[r].handled \cup run[r].failed) = {}
          /\ run[r].running \cap (run[r].handled \cup run[r].failed) = {}
          /\ run[r].handled \cap run[r].failed = {}
      BY <1>1, <1>8 DEF LoopOK
    <2> QED
      BY <1>1, <1>2, <1>3, <1>4, <1>5, <1>8, <2>1, <2>2, WorkingStep DEF Batched
  <1>9. CASE run[r].pc \in {"complete", "release", "handback"}
    <2>1. InPass(r) /\ run[r].running = {} /\ (run[r].pc = "complete" => ~run[r].erred)
      BY <1>1, <1>9 DEF InPass, LoopOK
    <2>2. Owes(r)'
      BY <1>1, <1>3, <1>5, <1>6, <1>9 DEF LoopOK, Owes, Batched
    <2> QED
      BY <1>2, <1>3, <1>4, <1>5, <1>9, <2>1, <2>2, RecordStep
  <1> QED
    BY <1>1, <1>7, <1>8, <1>9 DEF Phases

LEMMA RestartInv ==
    ASSUME RInv, IndInv', [Next]_vars, UNCHANGED fleet, NEW r \in Runners, Crash(r) \/ Restart(r)
    PROVE  LoopInv'
  <1> DEFINE x == [Idle EXCEPT !.pc = "dead"]
  <1>1. x \in Loops
    BY IdleLoop, LoopGoes DEF Phases
  <1>2. x.pc = "dead" /\ ~x.stopping /\ x.name = 0 /\ x.running = {}
    BY DEF Idle
  <1>3. run' = [run EXCEPT ![r] = x] \/ run' = [run EXCEPT ![r] = Idle]
    BY DEF Crash, Restart
  <1> HIDE DEF x
  <1> QED
    BY <1>1, <1>2, <1>3, IdleLoop, RestStep

-----------------------------------------------------------------------------
LEMMA RInvInit == RInit => RInv
  <1> SUFFICES ASSUME RInit PROVE RInv
    OBVIOUS
  <1>1. IndInv
    BY InitInv DEF RInit
  <1>2. LoopInv
    BY IdleLoop DEF RInit, Init, LoopInv, LoopOK, InPass, Owes
  <1> QED
    BY <1>1, <1>2 DEF RInv

LEMMA RInvNext == RInv /\ [RNext]_rvars => RInv'
  <1> SUFFICES ASSUME RInv, [RNext]_rvars PROVE RInv'
    OBVIOUS
  <1>1. [Next]_vars
    BY UsesQueue
  <1>2. IndInv'
    BY <1>1, NextInv DEF RInv
  <1>3. UNCHANGED fleet
    BY DEF RNext, rvars
  <1>4. ASSUME UNCHANGED run PROVE LoopInv'
    <2>1. IndInv /\ LoopInv /\ Kept
      BY <1>1, QueueKeeps DEF RInv
    <2>2. \A r \in Runners : LoopOK(r)'
      BY <1>2, <1>4, <2>1, OtherLoop
    <2> QED
      BY <1>3, <1>4, <2>1, <2>2 DEF LoopInv, InPass
  <1>5. ASSUME NEW r \in Runners, RunnerStep(r) PROVE LoopInv'
    <2>1. ASSUME NEW locked \in SUBSET Keys, pass(r, locked) PROVE LoopInv'
      BY <1>1, <1>2, <1>3, <2>1, PassInv
    <2>2. ASSUME NEW locked \in SUBSET Keys, passFails(r, locked) PROVE LoopInv'
      BY <1>4, <2>2 DEF passFails
    <2>3. ASSUME NEW k \in Keys, dispatch(r, k) \/ handled(r, k) \/ failed(r, k) PROVE LoopInv'
      BY <1>1, <1>2, <1>3, <2>3, DispatchInv
    <2>4. CASE extend(r) \/ extendFails(r)
      BY <1>1, <1>2, <1>3, <2>4, ExtendLoopInv
    <2>5. CASE workReturns(r) \/ recordFailedDone(r)
      BY <1>1, <1>2, <1>3, <2>5, ReturnsInv
    <2>6. CASE recordHandled(r)
      BY <1>1, <1>2, <1>3, <2>6, RecordHandledInv
    <2>7. ASSUME NEW group \in Some(run[r].failed), recordFailed(r, group) PROVE LoopInv'
      BY <1>1, <1>2, <1>3, <2>7, RecordFailedInv
    <2>8. CASE recordUndispatched(r)
      BY <1>1, <1>2, <1>3, <2>8, RecordUndispatchedInv
    <2>9. CASE recordFails(r)
      BY <1>1, <1>2, <1>3, <2>9, RecordFailsInv
    <2>10. CASE Cancel(r)
      BY <1>1, <1>2, <1>3, <2>10, CancelInv
    <2>11. CASE Crash(r) \/ Restart(r)
      BY <1>1, <1>2, <1>3, <2>11, RestartInv
    <2> QED
      BY <1>5, <2>1, <2>2, <2>3, <2>4, <2>5, <2>6, <2>7, <2>8, <2>9, <2>10, <2>11 DEF RunnerStep
  <1>6. LoopInv'
    <2>1. CASE Environment \/ RTick \/ UNCHANGED rvars
      BY <1>4, <2>1 DEF Environment, RTick, rvars
    <2> QED
      BY <1>5, <2>1 DEF RNext
  <1> QED
    BY <1>2, <1>6 DEF RInv

-----------------------------------------------------------------------------
\* The loops keep their types, and until a pass starts recording, every item
\* its claim handed it is in exactly one of waiting, running, handled and
\* failed.
THEOREM RunnerTypes == RSpec => []RTypeOK
  <1>1. RInv => RTypeOK
    <2> SUFFICES ASSUME RInv PROVE RTypeOK
      OBVIOUS
    <2>1. run \in [Runners -> Loops] /\ \A r \in Runners : LoopOK(r)
      BY DEF RInv, LoopInv
    <2>2. ASSUME NEW r \in Runners, run[r].pc = "working"
          PROVE  LET parts == <<run[r].waiting, run[r].running, run[r].handled, run[r].failed>>
                 IN  /\ UNION {parts[i] : i \in DOMAIN parts} = issued[run[r].name]
                     /\ \A i, j \in DOMAIN parts : i # j => parts[i] \cap parts[j] = {}
      <3> DEFINE parts == <<run[r].waiting, run[r].running, run[r].handled, run[r].failed>>
      <3>1. DOMAIN parts = 1 .. 4
        OBVIOUS
      <3>2. /\ parts[1] = run[r].waiting /\ parts[2] = run[r].running
            /\ parts[3] = run[r].handled /\ parts[4] = run[r].failed
        OBVIOUS
      <3> HIDE DEF parts
      <3>3. LoopOK(r)
        BY <2>1
      <3>4. UNION {parts[i] : i \in DOMAIN parts} = Batched(r)
        BY <3>1, <3>2 DEF Batched
      <3>5. Batched(r) = issued[run[r].name]
        BY <2>2, <3>3 DEF LoopOK, InPass
      <3>6. \A i, j \in DOMAIN parts : i # j => parts[i] \cap parts[j] = {}
        BY <2>2, <3>1, <3>2, <3>3 DEF LoopOK
      <3> QED
        BY <3>4, <3>5, <3>6 DEF parts
    <2> QED
      BY <2>1, <2>2 DEF RTypeOK, Loops
  <1> QED
    BY <1>1, RInvInit, RInvNext, PTL DEF RSpec

\* Every step of a fleet is a legal call of the queue: a runner extends,
\* completes and releases only what its own claim handed it, and completes
\* only what its handler did.
THEOREM RunnersAreCallers == RSpec => RunnersUseQueue
  <1>1. RInit => Init
    BY DEF RInit
  <1> QED
    BY <1>1, UsesQueue, RInvInit, RInvNext, PTL DEF RSpec, Spec, RunnersUseQueue

\* So no two runners of a fleet are ever inside a lease on one item.
THEOREM RunnersExclude == RSpec => []LeaseExclusive
  BY RunnersAreCallers, Exclusion, PTL DEF RunnersUseQueue

\* A runner told to stop that managed its writes leaves nothing leased under
\* its name, whatever it was doing when it was told.
THEOREM StopsClean == RSpec => []CleanShutdown
  <1>1. RInv => CleanShutdown
    BY DEF RInv, LoopInv, LoopOK, Owes, CleanShutdown
  <1> QED
    BY <1>1, RInvInit, RInvNext, PTL DEF RSpec

-----------------------------------------------------------------------------
(* How many items a claim hands out.  The claim order is total, so a batch *)
(* has a last item, and the rest of the batch is before it.                *)

LEMMA ClaimOrder ==
    ASSUME TypeOK, NEW i \in Keys, NEW j \in Keys, NEW k \in Keys
    PROVE  /\ ~Before(j, j)
           /\ Before(i, j) /\ Before(j, k) => Before(i, k)
           /\ j # k => Before(j, k) \/ Before(k, j)
  <1>1. \A l \in Keys : items[l].priority \in Int /\ items[l].available \in Nat /\ l \in Nat
    BY WorkQueueAssumption DEF TypeOK, Rows
  <1> QED
    BY <1>1 DEF Before

\* A batch is never larger than the claim's limit.
LEMMA BatchFits ==
    ASSUME TypeOK, IsFiniteSet(Keys), NEW limit \in Nat, NEW locked \in SUBSET Keys
    PROVE  IsFiniteSet(DueBatch(limit, locked)) /\ Cardinality(DueBatch(limit, locked)) <= limit
  <1> DEFINE free == {k \in Keys \ locked : Due(items[k])}
             P(k) == {j \in free : Before(j, k)}
             rank == [k \in free |-> Cardinality(P(k))]
             T == {k \in free : rank[k] < limit}
  <1>1. DueBatch(limit, locked) = T
    BY DEF DueBatch
  <1>2. free \in SUBSET Keys
    OBVIOUS
  <1> HIDE DEF free
  <1>3. IsFiniteSet(free)
    BY <1>2, FS_Subset
  <1>4. \A k \in free : P(k) \in SUBSET free
    OBVIOUS
  <1>5. \A k \in free, j \in free : j \in P(k) <=> Before(j, k)
    OBVIOUS
  <1> HIDE DEF P
  <1>6. \A k \in free : IsFiniteSet(P(k)) /\ Cardinality(P(k)) \in Nat
    BY <1>3, <1>4, FS_Subset, FS_CardinalityType
  <1>7. \A k \in free : rank[k] = Cardinality(P(k)) /\ rank[k] \in Nat
    BY <1>6
  <1> HIDE DEF rank
  <1>8. T \in SUBSET free /\ IsFiniteSet(T) /\ Cardinality(T) \in Nat
    <2>1. T \in SUBSET free
      OBVIOUS
    <2> HIDE DEF T
    <2> QED
      BY <1>3, <2>1, FS_Subset, FS_CardinalityType
  <1>9. \A k \in T : k \in free /\ k \in Keys /\ rank[k] < limit
    BY <1>2
  <1> HIDE DEF T
  <1>10. CASE T = {}
    <2>1. Cardinality(T) = 0
      BY <1>10, FS_EmptySet
    <2> QED
      BY <1>1, <1>8, <2>1
  <1>11. CASE T # {}
    <2> DEFINE D == {limit - rank[k] : k \in T}
    <2>1. D \in SUBSET Nat /\ D # {}
      <3>1. \A k \in T : limit - rank[k] \in Nat
        BY <1>7, <1>9
      <3> QED
        BY <1>11, <3>1
    <2>2. \A k \in T : limit - rank[k] \in D
      OBVIOUS
    <2>3. \A d \in D : \E m \in T : d = limit - rank[m]
      OBVIOUS
    <2> HIDE DEF D
    <2>4. PICK d \in D : \A e \in D : ~(<<e, d>> \in OpToRel(<, Nat))
      BY <2>1, NatLessThanWellFounded, WFMin
    <2>5. d \in Nat /\ \A e \in D : e \in Nat /\ ~(e < d)
      BY <2>1, <2>4 DEF OpToRel
    <2>6. PICK m \in T : d = limit - rank[m]
      BY <2>3
    <2>7. m \in free /\ m \in Keys /\ rank[m] \in Nat /\ rank[m] < limit
      BY <1>7, <1>9
    <2>8. \A k \in T : rank[k] <= rank[m]
      <3> SUFFICES ASSUME NEW k \in T PROVE rank[k] <= rank[m]
        OBVIOUS
      <3>1. limit - rank[k] \in D /\ rank[k] \in Nat
        BY <1>7, <1>9, <2>2
      <3>2. ~(limit - rank[k] < limit - rank[m])
        BY <2>5, <2>6, <3>1
      <3> QED
        BY <2>7, <3>1, <3>2
    <2>9. T \subseteq P(m) \cup {m}
      <3> SUFFICES ASSUME NEW k \in T, k # m, k \notin P(m) PROVE FALSE
        OBVIOUS
      <3>1. k \in Keys /\ k \in free /\ rank[k] \in Nat
        BY <1>7, <1>9
      <3>2. Before(m, k) /\ ~Before(m, m)
        BY <1>5, <2>7, <3>1, ClaimOrder
      <3>3. \A j \in free : Before(j, m) => Before(j, k)
        BY <1>2, <2>7, <3>1, <3>2, ClaimOrder
      <3>4. P(m) \cup {m} \in SUBSET P(k) /\ m \notin P(m)
        BY <1>4, <1>5, <2>7, <3>1, <3>2, <3>3
      <3>5. Cardinality(P(m) \cup {m}) = rank[m] + 1
        BY <1>6, <1>7, <2>7, <3>4, FS_AddElement
      <3>6. Cardinality(P(m) \cup {m}) <= rank[k]
        BY <1>6, <1>7, <3>1, <3>4, FS_Subset
      <3> QED
        BY <2>7, <2>8, <3>1, <3>5, <3>6
    <2>10. IsFiniteSet(P(m) \cup {m}) /\ Cardinality(P(m) \cup {m}) <= rank[m] + 1
      <3>1. /\ IsFiniteSet(P(m) \cup {m})
            /\ Cardinality(P(m) \cup {m}) = IF m \in P(m) THEN Cardinality(P(m)) ELSE Cardinality(P(m)) + 1
        BY <1>6, <2>7, FS_AddElement
      <3> QED
        BY <1>7, <2>7, <3>1
    <2>11. Cardinality(T) <= Cardinality(P(m) \cup {m}) /\ Cardinality(P(m) \cup {m}) \in Nat
      BY <2>9, <2>10, FS_Subset, FS_CardinalityType
    <2> QED
      BY <1>1, <1>8, <2>7, <2>10, <2>11
  <1> QED
    BY <1>10, <1>11

-----------------------------------------------------------------------------
(* A healthy fleet whose slots cover a batch.                              *)

Healthy == Timely /\ Concurrency >= RunnerBatch

\* The heartbeat is never late; what runs is leased past the next one; and no
\* time has passed while something could still be dispatched.
HeldOK(r) ==
    run[r].pc = "working" =>
        /\ run[r].beat <= now /\ now <= run[r].beat + ExtendInterval
        /\ IsFiniteSet(issued[run[r].name]) /\ Cardinality(issued[run[r].name]) <= RunnerBatch
        /\ \A k \in run[r].running : items[k].holder = run[r].name /\ items[k].lease >= run[r].beat + Lease
        /\ ~run[r].stopping =>
              \A k \in run[r].waiting : items[k].holder = run[r].name /\ items[k].lease >= now + Lease

HeldInv == Healthy => \A r \in Runners : HeldOK(r)

\* A row under an unexpired lease stays with its holder, unless the holder
\* itself reports on it.
LEMMA RowKept ==
    ASSUME RInv, NEW k \in Keys, NEW n \in Names, items[k].holder = n, items[k].lease > now,
           \/ UNCHANGED items
           \/ upsert
           \/ \E locked \in SUBSET Keys : Claim(RunnerBatch, Lease, locked)
           \/ \E m \in Names, ks \in SUBSET Keys : Extend(m, ks, Lease)
           \/ \E m \in Names \ {n}, ks \in SUBSET Keys :
                 Complete(m, ks) \/ Release(m, ks, RetryDelay) \/ Release(m, ks, 0)
           \/ \E doomed \in SUBSET Keys : Reap(doomed)
    PROVE  items'[k].holder = n /\ items'[k].lease >= items[k].lease
  <1>1. IndInv /\ TypeOK
    BY DEF RInv, IndInv
  <1>2. items[k] \in Rows /\ now \in Nat /\ items[k].lease \in Nat /\ n # 0
    BY <1>1 DEF TypeOK, Rows, Names
  <1>3. items[k].stored /\ items[k].completed = 0
    BY <1>1, <1>2, HeldIsOutstanding
  <1>4. ASSUME items'[k] = items[k] PROVE items'[k].holder = n /\ items'[k].lease >= items[k].lease
    BY <1>2, <1>4
  <1>5. CASE upsert
    <2>1. pending[k] \in Entries
      BY <1>1 DEF TypeOK
    <2>2. items'[k] = items[k] \/ items'[k] = Upsert(items[k], pending[k], now)
      BY <1>5 DEF upsert
    <2> QED
      BY <1>2, <1>3, <2>1, <2>2, UpsertRow
  <1>6. ASSUME NEW locked \in SUBSET Keys, Claim(RunnerBatch, Lease, locked)
        PROVE  items'[k].holder = n /\ items'[k].lease >= items[k].lease
    <2>1. ~Due(items[k])
      BY <1>2 DEF Due
    <2>2. k \notin DueBatch(ClaimLimit(RunnerBatch), locked)
      BY <2>1 DEF DueBatch
    <2> QED
      BY <1>4, <1>6, <2>2 DEF Claim, LeaseBatch
  <1>7. ASSUME NEW m \in Names, NEW ks \in SUBSET Keys, Extend(m, ks, Lease)
        PROVE  items'[k].holder = n /\ items'[k].lease >= items[k].lease
    <2>1. items'[k] = items[k] \/ items'[k] = Extended(items[k], Lease)
      BY <1>7 DEF Extend
    <2>2. /\ Extended(items[k], Lease).holder = items[k].holder
          /\ Extended(items[k], Lease).lease = Larger(items[k].lease, now + Lease)
      BY <1>1, <1>2, RunnerConstants, ExtendedRow
    <2>3. Larger(items[k].lease, now + Lease) >= items[k].lease
      BY <1>2, RunnerConstants DEF Larger
    <2> QED
      BY <1>4, <2>1, <2>2, <2>3
  <1>8. ASSUME NEW m \in Names \ {n}, NEW ks \in SUBSET Keys,
               Complete(m, ks) \/ Release(m, ks, RetryDelay) \/ Release(m, ks, 0)
        PROVE  items'[k].holder = n /\ items'[k].lease >= items[k].lease
    <2>1. ~Matches(items[k], m)
      BY DEF Matches
    <2> QED
      BY <1>4, <1>8, <2>1 DEF Complete, Release
  <1>9. ASSUME NEW doomed \in SUBSET Keys, Reap(doomed)
        PROVE  items'[k].holder = n /\ items'[k].lease >= items[k].lease
    <2>1. k \notin doomed
      BY <1>3, <1>9 DEF Reap, Reapable
    <2> QED
      BY <1>4, <1>9, <2>1 DEF Reap
  <1> QED
    BY <1>4, <1>5, <1>6, <1>7, <1>8, <1>9

\* What a loop holds is leased past the present.
LEMMA HeldLeases ==
    ASSUME RInv, NEW r \in Runners, HeldOK(r), run[r].pc = "working"
    PROVE  /\ run[r].name \in Names /\ run[r].running \subseteq Keys /\ run[r].waiting \subseteq Keys
           /\ run[r].beat \in Nat /\ now \in Nat
           /\ \A k \in run[r].running : items[k].holder = run[r].name /\ items[k].lease > now /\ items[k].lease \in Nat
           /\ ~run[r].stopping =>
                 \A k \in run[r].waiting : items[k].holder = run[r].name /\ items[k].lease > now /\ items[k].lease \in Nat
  <1>1. LoopOK(r) /\ run[r] \in Loops /\ TypeOK
    BY DEF RInv, LoopInv, IndInv
  <1>2. /\ run[r].name \in Names /\ run[r].running \subseteq Keys /\ run[r].waiting \subseteq Keys
        /\ run[r].beat \in Nat /\ now \in Nat
    BY <1>1 DEF LoopOK, InPass, Loops, TypeOK
  <1>3. \A k \in Keys : items[k].lease \in Nat
    BY <1>1 DEF TypeOK, Rows
  <1> QED
    BY <1>2, <1>3, RunnerConstants DEF HeldOK

\* A loop that a step does not touch, when nobody reports under its name.
LEMMA OtherHeld ==
    ASSUME RInv, Kept, RInv', now' = now, NEW r \in Runners, HeldOK(r), run'[r] = run[r],
           \A k \in Keys : items[k].holder = run[r].name /\ items[k].lease > now =>
               items'[k].holder = run[r].name /\ items'[k].lease >= items[k].lease
    PROVE  HeldOK(r)'
  <1> SUFFICES ASSUME run[r].pc = "working" PROVE HeldOK(r)'
    BY DEF HeldOK
  <1>1. /\ run[r].name \in Names /\ run[r].running \subseteq Keys /\ run[r].waiting \subseteq Keys
        /\ run[r].beat \in Nat /\ now \in Nat
        /\ \A k \in run[r].running : items[k].holder = run[r].name /\ items[k].lease > now /\ items[k].lease \in Nat
        /\ ~run[r].stopping =>
              \A k \in run[r].waiting : items[k].holder = run[r].name /\ items[k].lease > now /\ items[k].lease \in Nat
    BY HeldLeases
  <1>2. issued'[run[r].name] = issued[run[r].name]
    BY OwnKept DEF InPass
  <1>3. \A k \in Keys : items'[k].lease \in Nat
    BY DEF RInv, IndInv, TypeOK, Rows
  <1> QED
    BY <1>1, <1>2, <1>3, RunnerConstants DEF HeldOK

\* The loops that stand by while r takes a step.
LEMMA OthersHeld ==
    ASSUME RInv, RInv', Healthy, Kept, now' = now, NEW r \in Runners, RunnerStep(r),
           NEW s \in Runners, s # r, HeldOK(s), run'[s] = run[s]
    PROVE  HeldOK(s)'
  <1> SUFFICES ASSUME run[s].pc = "working" PROVE HeldOK(s)'
    BY DEF HeldOK
  <1> DEFINE n == run[s].name
  <1>1. n \in Names /\ LoopOK(r) /\ run[r] \in Loops /\ LoopInv
    BY HeldLeases DEF RInv, LoopInv
  <1>2. InPass(r) => run[r].name \in Names \ {n}
    BY <1>1 DEF LoopInv, LoopOK, InPass
  <1>3. run[r].running \in SUBSET Keys /\ run[r].handled \in SUBSET Keys
        /\ run[r].failed \in SUBSET Keys /\ run[r].waiting \in SUBSET Keys
    BY <1>1 DEF Loops
  <1> HIDE DEF n
  <1>4. \/ UNCHANGED items
        \/ \E locked \in SUBSET Keys : Claim(RunnerBatch, Lease, locked)
        \/ \E m \in Names, ks \in SUBSET Keys : Extend(m, ks, Lease)
        \/ \E m \in Names \ {n}, ks \in SUBSET Keys :
              Complete(m, ks) \/ Release(m, ks, RetryDelay) \/ Release(m, ks, 0)
    <2>1. ASSUME NEW locked \in SUBSET Keys, pass(r, locked) \/ passFails(r, locked)
          PROVE  Claim(RunnerBatch, Lease, locked)
      BY <2>1 DEF pass, passFails, Healthy
    <2>2. ASSUME NEW k \in Keys, dispatch(r, k) \/ handled(r, k) \/ failed(r, k) PROVE UNCHANGED items
      BY <2>2 DEF dispatch, handled, failed, Work, vars
    <2>3. CASE extend(r)
      <3>1. InPass(r)
        BY <2>3 DEF extend, InPass
      <3>2. UNCHANGED items \/ Extend(run[r].name, run[r].running, Lease)
        BY <2>3 DEF extend, vars
      <3> QED
        BY <1>2, <1>3, <3>1, <3>2
    <2>4. CASE recordHandled(r)
      <3>1. InPass(r)
        BY <2>4 DEF recordHandled, InPass
      <3>2. UNCHANGED items \/ Complete(run[r].name, run[r].handled)
        BY <2>4 DEF recordHandled, CompleteHandled, vars
      <3> QED
        BY <1>2, <1>3, <3>1, <3>2
    <2>5. ASSUME NEW group \in Some(run[r].failed), recordFailed(r, group)
          PROVE  \E m \in Names \ {n}, ks \in SUBSET Keys : Release(m, ks, RetryDelay)
      <3>1. InPass(r) /\ group \in SUBSET Keys
        BY <1>3, <2>5 DEF recordFailed, InPass, Some
      <3> QED
        BY <1>2, <2>5, <3>1 DEF recordFailed
    <2>6. CASE recordUndispatched(r)
      <3>1. InPass(r)
        BY <2>6 DEF recordUndispatched, InPass
      <3>2. UNCHANGED items \/ Release(run[r].name, run[r].waiting, 0)
        BY <2>6 DEF recordUndispatched, HandBackUndispatched, vars
      <3> QED
        BY <1>2, <1>3, <3>1, <3>2
    <2>7. CASE extendFails(r) \/ workReturns(r) \/ recordFailedDone(r) \/ recordFails(r)
               \/ Cancel(r) \/ Crash(r) \/ Restart(r)
      BY <2>7 DEF extendFails, workReturns, recordFailedDone, recordFails, Cancel, Crash, Restart, vars
    <2> QED
      BY <2>1, <2>2, <2>3, <2>4, <2>5, <2>6, <2>7 DEF RunnerStep
  <1>5. ASSUME NEW k \in Keys, items[k].holder = n, items[k].lease > now
        PROVE  items'[k].holder = n /\ items'[k].lease >= items[k].lease
    BY <1>1, <1>4, <1>5, RowKept
  <1> QED
    BY <1>5, OtherHeld DEF n

\* The loop that takes the step.
LEMMA ActsHeld ==
    ASSUME RInv, RInv', Healthy, Kept, now' = now, NEW r \in Runners, RunnerStep(r), HeldOK(r)
    PROVE  HeldOK(r)'
  <1> SUFFICES ASSUME run'[r].pc = "working" PROVE HeldOK(r)'
    BY DEF HeldOK
  <1>1. LoopInv /\ LoopOK(r) /\ run[r] \in Loops /\ IndInv /\ TypeOK /\ now \in Nat
    BY DEF RInv, LoopInv, IndInv, TypeOK
  <1>2. ASSUME NEW locked \in SUBSET Keys, pass(r, locked) PROVE HeldOK(r)'
    <2> DEFINE batch == DueBatch(RunnerBatch, locked)
               x == [Idle EXCEPT !.pc = "working", !.name = nextName, !.beat = now, !.waiting = batch]
    <2>1. IsFiniteSet(batch) /\ Cardinality(batch) <= RunnerBatch
      BY <1>1, BatchFits, BatchLimit, RunnerConstants
    <2>2. batch \in SUBSET Keys
      BY DEF DueBatch
    <2>3. run' = [run EXCEPT ![r] = x]
      BY <1>2 DEF pass, Claims
    <2>4. /\ nextName \in Names /\ issued' = [issued EXCEPT ![nextName] = batch]
          /\ \A k \in batch : items'[k] = Leased(items[k], nextName, Lease)
      BY <1>2, <2>2, BatchLimit DEF pass, Claim, LeaseBatch
    <2> HIDE DEF batch
    <2>5. x \in Loops
      BY <1>1, <2>2, <2>4, IdleLoop, LoopBegins DEF Phases, TypeOK
    <2>6. x.name = nextName /\ x.waiting = batch /\ x.running = {} /\ x.beat = now
      BY DEF Idle
    <2> HIDE DEF x
    <2>7. run'[r] = x
      BY <1>1, <2>3, <2>5, LoopStep
    <2>8. issued'[nextName] = batch
      BY <1>1, <2>4 DEF TypeOK
    <2>9. \A k \in batch : items'[k].holder = nextName /\ items'[k].lease = now + Lease
      <3> SUFFICES ASSUME NEW k \in batch PROVE items'[k].holder = nextName /\ items'[k].lease = now + Lease
        OBVIOUS
      <3>1. items[k] \in Rows /\ nextName \in Nat /\ Lease \in Nat
        BY <1>1, <2>2, RunnerConstants DEF TypeOK
      <3>2. Leased(items[k], nextName, Lease).holder = nextName /\ Leased(items[k], nextName, Lease).lease = now + Lease
        BY <1>1, <3>1, LeasedRow
      <3> QED
        BY <2>4, <3>2
    <2> QED
      BY <1>1, <2>1, <2>6, <2>7, <2>8, <2>9, RunnerConstants DEF HeldOK
  \* The other steps that leave the loop working.
  <1>3. ASSUME run[r].pc = "working" PROVE /\ run[r].beat \in Nat /\ issued'[run[r].name] = issued[run[r].name]
                                           /\ run[r].waiting \subseteq Keys /\ run[r].running \subseteq Keys
    BY <1>1, <1>3, OwnKept DEF Loops, InPass
  <1>4. ASSUME NEW k \in Keys, dispatch(r, k) PROVE HeldOK(r)'
    <2>1. /\ items' = items /\ run'[r].name = run[r].name /\ run'[r].beat = run[r].beat
          /\ run'[r].stopping = run[r].stopping /\ ~run[r].stopping /\ run[r].pc = "working"
          /\ run'[r].waiting = run[r].waiting \ {k} /\ run'[r].running = run[r].running \cup {k}
          /\ k \in run[r].waiting
      BY <1>1, <1>4 DEF dispatch, vars, LoopInv, Loops
    <2>2. items[k].holder = run[r].name /\ items[k].lease >= now + Lease /\ run[r].beat <= now
      BY <2>1 DEF HeldOK
    <2>3. items[k].lease \in Nat
      BY <1>1 DEF TypeOK, Rows
    <2>4. items[k].lease >= run[r].beat + Lease
      BY <1>1, <1>3, <2>1, <2>2, <2>3, RunnerConstants
    <2> QED
      BY <1>3, <2>1, <2>2, <2>4 DEF HeldOK
  <1>5. ASSUME NEW k \in Keys, handled(r, k) \/ failed(r, k) PROVE HeldOK(r)'
    <2>1. /\ items' = items /\ run'[r].name = run[r].name /\ run'[r].beat = run[r].beat
          /\ run'[r].stopping = run[r].stopping /\ run[r].pc = "working"
          /\ run'[r].waiting = run[r].waiting /\ run'[r].running = run[r].running \ {k}
      BY <1>1, <1>5 DEF handled, failed, Work, vars, LoopInv, Loops
    <2> QED
      BY <1>3, <2>1 DEF HeldOK
  <1>6. CASE extend(r)
    <2>1. /\ run'[r].name = run[r].name /\ run'[r].beat = now /\ run[r].pc = "working"
          /\ run'[r].stopping = run[r].stopping
          /\ run'[r].waiting = run[r].waiting /\ run'[r].running = run[r].running
      BY <1>1, <1>6 DEF extend, LoopInv, Loops
    <2>2. /\ run[r].name \in Names /\ run[r].name # 0
          /\ \A k \in run[r].running : items[k].holder = run[r].name /\ items[k].lease > now /\ items[k].lease \in Nat
          /\ ~run[r].stopping =>
                \A k \in run[r].waiting : items[k].holder = run[r].name /\ items[k].lease > now /\ items[k].lease \in Nat
      BY <2>1, HeldLeases DEF Names
    <2>3. UNCHANGED items \/ Extend(run[r].name, run[r].running, Lease)
      BY <1>6 DEF extend, vars
    <2>4. run[r].running \in SUBSET Keys
      BY <1>1 DEF Loops
    <2>5. \A k \in Keys : items[k].holder = run[r].name /\ items[k].lease > now =>
              items'[k].holder = run[r].name /\ items'[k].lease >= items[k].lease
      BY <2>2, <2>3, <2>4, RowKept
    <2>6. \A k \in run[r].running : items'[k].lease >= now + Lease
      <3> SUFFICES ASSUME NEW k \in run[r].running PROVE items'[k].lease >= now + Lease
        OBVIOUS
      <3>1. k \in Keys /\ items[k] \in Rows /\ items[k].lease \in Nat
        BY <1>1, <2>4 DEF TypeOK, Rows
      <3>2. Matches(items[k], run[r].name) /\ items[k].completed = 0
        BY <1>1, <2>2, <3>1, HeldIsOutstanding DEF Matches
      <3>3. Extend(run[r].name, run[r].running, Lease)
        BY <1>6 DEF extend
      <3>4. items'[k] = Extended(items[k], Lease)
        BY <3>1, <3>2, <3>3 DEF Extend
      <3>5. Extended(items[k], Lease).lease = Larger(items[k].lease, now + Lease)
        BY <1>1, <3>1, RunnerConstants, ExtendedRow
      <3> QED
        BY <1>1, <3>1, <3>4, <3>5, RunnerConstants DEF Larger
    <2>7. ~run[r].stopping => \A k \in run[r].waiting : items'[k].holder = run[r].name /\ items'[k].lease >= now + Lease
      <3> SUFFICES ASSUME ~run[r].stopping, NEW k \in run[r].waiting
                   PROVE  items'[k].holder = run[r].name /\ items'[k].lease >= now + Lease
        OBVIOUS
      <3>1. k \in Keys /\ items'[k].lease \in Nat /\ items[k].lease \in Nat
        BY <1>1, <1>3, <2>1 DEF RInv, IndInv, TypeOK, Rows
      <3>2. items'[k].holder = run[r].name /\ items'[k].lease >= items[k].lease
        BY <2>2, <2>5, <3>1
      <3>3. items[k].lease >= now + Lease
        BY <2>1 DEF HeldOK
      <3> QED
        BY <1>1, <3>1, <3>2, <3>3, RunnerConstants
    <2>8. \A k \in run[r].running : items'[k].holder = run[r].name
      BY <2>2, <2>4, <2>5
    <2>9. now <= now + ExtendInterval /\ now <= now
      BY <1>1, RunnerConstants
    <2> QED
      BY <1>3, <2>1, <2>6, <2>7, <2>8, <2>9 DEF HeldOK
  <1>7. CASE Cancel(r)
    <2>1. /\ items' = items /\ run'[r].name = run[r].name /\ run'[r].beat = run[r].beat
          /\ run'[r].stopping /\ run[r].pc = "working"
          /\ run'[r].waiting = run[r].waiting /\ run'[r].running = run[r].running
      BY <1>1, <1>7 DEF Cancel, vars, LoopInv, Loops
    <2> QED
      BY <1>3, <2>1 DEF HeldOK
  <1>8. ASSUME \/ \E locked \in SUBSET Keys : passFails(r, locked)
               \/ extendFails(r) \/ workReturns(r) \/ recordHandled(r)
               \/ \E group \in Some(run[r].failed) : recordFailed(r, group)
               \/ recordFailedDone(r) \/ recordUndispatched(r) \/ recordFails(r) \/ Crash(r) \/ Restart(r)
        PROVE  FALSE
    <2>1. /\ ~extendFails(r) /\ ~recordFails(r) /\ ~Crash(r)
          /\ \A locked \in SUBSET Keys : ~passFails(r, locked)
      BY DEF passFails, extendFails, recordFails, Crash, Healthy
    <2>2. ~workReturns(r) /\ ~recordHandled(r) /\ ~recordFailedDone(r)
      BY <1>1 DEF workReturns, recordHandled, recordFailedDone, LoopInv, Loops
    <2>3. \A group \in Some(run[r].failed) : ~recordFailed(r, group)
      BY <1>1 DEF recordFailed, LoopInv, Loops
    <2>4. ~recordUndispatched(r) /\ ~Restart(r)
      BY <1>1, IdleLoop, StoppedLoop DEF recordUndispatched, EndPass, Restart, LoopInv
    <2> QED
      BY <1>8, <2>1, <2>2, <2>3, <2>4
  <1> QED
    BY <1>2, <1>4, <1>5, <1>6, <1>7, <1>8 DEF RunnerStep

\* Time passes only when everything that could be dispatched is running.
LEMMA TickHeld ==
    ASSUME RInv, RInv', Healthy, NEW r \in Runners, HeldOK(r), RTick
    PROVE  HeldOK(r)'
  <1>1. items' = items /\ issued' = issued /\ run' = run /\ now' = now + 1 /\ OnTime(r)
    BY DEF RTick, Tick, Healthy
  <1> SUFFICES ASSUME run[r].pc = "working" PROVE HeldOK(r)'
    BY <1>1 DEF HeldOK
  <1>2. /\ run[r].waiting = {} \/ run[r].stopping \/ Cardinality(run[r].running) >= Concurrency
        /\ now < run[r].beat + ExtendInterval
    BY <1>1 DEF OnTime
  <1>3. LoopOK(r) /\ run[r] \in Loops /\ now \in Nat /\ run[r].beat \in Nat
    BY DEF RInv, LoopInv, IndInv, TypeOK, Loops
  <1>4. ASSUME Cardinality(run[r].running) >= Concurrency PROVE run[r].waiting = {}
    <2>1. /\ run[r].running \subseteq issued[run[r].name] /\ run[r].waiting \subseteq issued[run[r].name]
          /\ run[r].waiting \cap run[r].running = {}
      BY <1>3 DEF LoopOK, InPass, Batched
    <2>2. IsFiniteSet(issued[run[r].name]) /\ Cardinality(issued[run[r].name]) <= RunnerBatch
      BY DEF HeldOK
    <2>3. /\ Cardinality(run[r].running) <= Cardinality(issued[run[r].name])
          /\ Cardinality(issued[run[r].name]) = Cardinality(run[r].running) => issued[run[r].name] = run[r].running
          /\ IsFiniteSet(run[r].running)
      BY <2>1, <2>2, FS_Subset
    <2>4. Cardinality(run[r].running) \in Nat /\ Cardinality(issued[run[r].name]) \in Nat
      BY <2>2, <2>3, FS_CardinalityType
    <2>5. Concurrency \in Nat /\ RunnerBatch \in Nat /\ Concurrency >= RunnerBatch
      BY RunnerConstants, BatchLimit DEF RInv, LoopInv, Concurrency, Healthy
    <2>6. issued[run[r].name] = run[r].running
      BY <1>4, <2>2, <2>3, <2>4, <2>5
    <2> QED
      BY <2>1, <2>6
  <1>5. run[r].waiting = {} \/ run[r].stopping
    BY <1>2, <1>4
  <1>6. run[r].beat <= now + 1 /\ now + 1 <= run[r].beat + ExtendInterval
    BY <1>2, <1>3, RunnerConstants DEF HeldOK
  <1> QED
    BY <1>1, <1>5, <1>6 DEF HeldOK

LEMMA HeldInit == RInit => HeldInv
  BY DEF RInit, HeldInv, HeldOK, Idle

LEMMA HeldNext == RInv /\ RInv' /\ HeldInv /\ [RNext]_rvars => HeldInv'
  <1> SUFFICES ASSUME RInv, RInv', HeldInv, [RNext]_rvars, Healthy', NEW s \in Runners PROVE HeldOK(s)'
    BY DEF HeldInv
  <1>1. Healthy /\ HeldOK(s)
    BY DEF HeldInv, Healthy, Timely, Concurrency, RNext, rvars
  <1>2. Kept
    BY UsesQueue, QueueKeeps DEF RInv
  <1>3. ASSUME NEW r \in Runners, RunnerStep(r) PROVE HeldOK(s)'
    <2>1. now' = now
      BY <1>3 DEF RunnerStep, pass, passFails, Claim, ClaimLost, dispatch, handled, Work, failed, extend, Extend,
         extendFails, workReturns, recordHandled, CompleteHandled, Complete, recordFailed, Release,
         recordFailedDone, recordUndispatched, HandBackUndispatched, recordFails, Cancel, Crash, Restart, vars
    <2>2. s # r => run'[s] = run[s]
      BY <1>3 DEF RInv, LoopInv, RunnerStep, pass, Claims, passFails, dispatch, handled, failed, extend,
         extendFails, workReturns, recordHandled, recordFailed, recordFailedDone, recordUndispatched, EndPass,
         recordFails, Cancel, Crash, Restart
    <2> QED
      BY <1>1, <1>2, <1>3, <2>1, <2>2, OthersHeld, ActsHeld
  <1>4. CASE RTick
    BY <1>1, <1>4, TickHeld
  <1>5. CASE Environment \/ UNCHANGED rvars
    <2>1. now' = now /\ run' = run
      BY <1>5 DEF Environment, Enqueue, upsert, UpsertFails, Reap, rvars, vars
    <2>2. UNCHANGED items \/ upsert \/ \E doomed \in SUBSET Keys : Reap(doomed)
      BY <1>5 DEF Environment, Enqueue, UpsertFails, rvars, vars
    <2>3. ASSUME run[s].pc = "working", NEW k \in Keys, items[k].holder = run[s].name, items[k].lease > now
          PROVE  items'[k].holder = run[s].name /\ items'[k].lease >= items[k].lease
      <3>1. run[s].name \in Names
        BY <1>1, <2>3, HeldLeases
      <3> QED
        BY <2>2, <2>3, <3>1, RowKept
    <2>4. run[s].pc # "working" => HeldOK(s)'
      BY <2>1 DEF HeldOK
    <2> QED
      BY <1>1, <1>2, <2>1, <2>3, <2>4, OtherHeld
  <1> QED
    BY <1>3, <1>4, <1>5 DEF RNext

\* In a healthy fleet whose slots cover a batch, an item whose handler is
\* running is leased to its runner: the heartbeat, a configured half lease at
\* most, always lands before the lease it extends is over.
THEOREM RunningStaysHeld == RSpec => []RunningIsHeld
  <1>1. RInv /\ HeldInv => RunningIsHeld
    <2> SUFFICES ASSUME RInv, HeldInv, Healthy, NEW r \in Runners, NEW k \in run[r].running
                 PROVE  items[k].holder = run[r].name /\ items[k].lease > now
      BY DEF RunningIsHeld, Healthy
    <2>1. run[r].pc = "working"
      BY DEF RInv, LoopInv, LoopOK
    <2> QED
      BY <2>1, HeldLeases DEF HeldInv
  <1> QED
    BY <1>1, RInvInit, RInvNext, HeldInit, HeldNext, PTL DEF RSpec

=============================================================================
