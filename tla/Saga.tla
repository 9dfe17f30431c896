-------------------------------- MODULE Saga --------------------------------
(***************************************************************************)
(* The saga engine: instance rows and their guarded writes                 *)
(* (src/saga/sqlstore.go), the workers that claim, lock and drive them     *)
(* (src/saga/worker.go) and the operator's Resume (src/saga/runner.go).    *)
(*                                                                         *)
(* A claim leases a row and reads it; a pass takes the instance lock and   *)
(* drives the record the CLAIM read, persisting each step as it goes.  The *)
(* lease names nobody, and every write matches the instance and "is it     *)
(* still active", never the lease nor the cursor.                          *)
(*                                                                         *)
(* Time is counted down in whole units: a deadline in the current unit may *)
(* be seen on either side.  Workers are prompt: a free slot is filled and  *)
(* a pass goes from step to step at once; a step takes up to StepTimeout.  *)
(* What takes time is a step, a crash, and waiting for a slot.  Without    *)
(* the optional idempotency manager every execution of a step is real.     *)
(***************************************************************************)
EXTENDS Integers, FiniteSets

CONSTANTS
    Instances,
    Workers,
    Operators,      \* who calls Resume
    Drifted,        \* workers whose registry lacks the definition, or disagrees on its steps
    Steps,          \* the number of steps
    Undoable,       \* the steps that have an Undo
    Delay,          \* Step.Delay, in units
    BatchSize, Concurrency,
    LeaseDuration, LockTTL, AdvanceTimeout, StepTimeout,
    MaxAttempts,    \* Backoff.MaxAttempts
    MaxUndoAttempts,\* CompensationBackoff.MaxAttempts
    RetryDelay,     \* ScheduledDelayFor, whatever the attempt
    MaxFaults,      \* bound: crashes and failed writes
    MaxResumes,     \* bound: Resume calls
    NoWorker

Indexes == 0 .. Steps - 1

\* WorkerConfig.ValidateWithContext.
ConfigValid ==
    /\ BatchSize >= 1 /\ Concurrency >= 1 /\ StepTimeout >= 1
    /\ AdvanceTimeout >= StepTimeout
    /\ LeaseDuration > AdvanceTimeout + StepTimeout
    /\ LockTTL > AdvanceTimeout + StepTimeout

ASSUME SagaAssumption ==
    /\ IsFiniteSet(Instances)
    /\ Drifted \subseteq Workers /\ NoWorker \notin Workers
    /\ {Steps, BatchSize, Concurrency, LeaseDuration, LockTTL, AdvanceTimeout, StepTimeout,
        MaxAttempts, MaxUndoAttempts, RetryDelay, MaxFaults, MaxResumes} \subseteq Nat
    /\ Steps > 0 /\ MaxAttempts > 0 /\ MaxUndoAttempts > 0 /\ RetryDelay > 0
    /\ Undoable \subseteq Indexes
    /\ Delay \in [Indexes -> Nat]
    /\ ConfigValid

VARIABLES
    row,        \* saga_instances
    lock,       \* the instance locks, in the lock service
    job,        \* what each worker is doing with each instance it claimed
    polled,     \* workers whose poll tick of this unit is spent
    faults, resumes,
    click,      \* each operator's Resume call, between its read and its write
    effect      \* history: what the outside world has seen of each step

vars == <<row, lock, job, polled, faults, resumes, click, effect>>

-----------------------------------------------------------------------------
Active == {"running", "compensating"}
Terminal == {"completed", "compensated", "stuck"}
Statuses == {"none", "pruned"} \cup Active \cup Terminal

\* Attempts are only ever compared with a budget, so they are counted up to it.
Cap == IF MaxAttempts > MaxUndoAttempts THEN MaxAttempts ELSE MaxUndoAttempts
Count(n) == IF n < Cap THEN n + 1 ELSE n

\* The columns a worker reads into its Record and writes back.
Records == [status: Statuses, cursor: -1 .. Steps, attempts: 0 .. Cap, resume: {""} \cup Active]
Record(i) == [status |-> row[i].status, cursor |-> row[i].cursor,
              attempts |-> row[i].attempts, resume |-> row[i].resume]
Blank == [status |-> "none", cursor |-> 0, attempts |-> 0, resume |-> ""]

NoJob == [pc |-> "none", inst |-> Blank, left |-> -1, ran |-> 0]
Free == [by |-> NoWorker, ttl |-> 0]
NoClick == [pc |-> "none"]

Init ==
    /\ row = [i \in Instances |-> [status |-> "none", cursor |-> 0, attempts |-> 0, resume |-> "",
                                   due |-> 0, lease |-> 0]]
    /\ lock = [i \in Instances |-> Free]
    /\ job = [w \in Workers |-> [i \in Instances |-> NoJob]]
    /\ polled = {}
    /\ faults = 0 /\ resumes = 0
    /\ click = [o \in Operators |-> NoClick]
    /\ effect = [i \in Instances |-> [s \in Indexes |-> "none"]]

\* start: the first step's delay is the row's first next_attempt.
Start(i) ==
    /\ row[i].status = "none"
    /\ row' = [row EXCEPT ![i].status = "running", ![i].due = Delay[0]]
    /\ UNCHANGED <<lock, job, polled, faults, resumes, click, effect>>

-----------------------------------------------------------------------------
(* cycle: one claim per poll tick, and nothing more until its batch is     *)
(* through.                                                                *)

Claimable == {i \in Instances : row[i].status \in Active /\ row[i].due = 0 /\ row[i].lease = 0}

Claimed(batch) ==
    row' = [i \in Instances |-> IF i \in batch
                                THEN [row[i] EXCEPT !.lease = LeaseDuration, !.attempts = Count(@)]
                                ELSE row[i]]

\* Rows another transaction has locked are skipped, so a batch is any of them.
Batches == {S \in SUBSET Claimable : S # {} /\ Cardinality(S) <= BatchSize}

Polls(w) ==
    /\ w \notin polled /\ \A i \in Instances : job[w][i].pc = "none"
    /\ polled' = polled \cup {w}

\* The records are read back after the increment.
Claim(w, batch) ==
    /\ Polls(w)
    /\ Claimed(batch)
    /\ job' = [job EXCEPT ![w] = [i \in Instances |->
                   IF i \in batch
                   THEN [NoJob EXCEPT !.pc = "queued",
                                      !.inst = [Record(i) EXCEPT !.attempts = Count(@)]]
                   ELSE NoJob]]
    /\ UNCHANGED <<lock, faults, resumes, click, effect>>

\* A claim that commits and whose answer is lost: logged, the leases left to lapse.
ClaimLost(w, batch) ==
    /\ faults < MaxFaults
    /\ Polls(w)
    /\ Claimed(batch)
    /\ faults' = faults + 1
    /\ UNCHANGED <<lock, job, resumes, click, effect>>

InSlot == {"driving", "doing", "undoing"}
SlotFree(w) == Cardinality({i \in Instances : job[w][i].pc \in InSlot}) < Concurrency

EndJob(w, i) == job' = [job EXCEPT ![w][i] = NoJob]

\* The lock service gives a lock up only to its holder.
Unlocked(w, i) == IF lock[i].by = w THEN [lock EXCEPT ![i] = Free] ELSE lock

\* advance: a slot, then the lock, which is taken and not waited for.
advance(w, i) ==
    /\ job[w][i].pc = "queued" /\ SlotFree(w)
    /\ lock[i].by = NoWorker
    /\ lock' = [lock EXCEPT ![i] = [by |-> w, ttl |-> LockTTL]]
    /\ job' = [job EXCEPT ![w][i].pc = "driving", ![w][i].left = AdvanceTimeout]
    /\ UNCHANGED <<row, polled, faults, resumes, click, effect>>

\* Release: by instance id alone, so whoever's lease it is by now.
Release(i) ==
    \/ row' = [row EXCEPT ![i].lease = 0] /\ faults' = faults
    \/ faults < MaxFaults /\ faults' = faults + 1 /\ row' = row

\* advance, contended: the lease is handed back.
contended(w, i) ==
    /\ job[w][i].pc = "queued" /\ SlotFree(w)
    /\ lock[i].by # NoWorker
    /\ Release(i)
    /\ EndJob(w, i)
    /\ UNCHANGED <<lock, polled, resumes, click, effect>>

\* advance, the lock service failed: logged, the lease left to lapse.
lockFails(w, i) ==
    /\ faults < MaxFaults
    /\ job[w][i].pc = "queued" /\ SlotFree(w)
    /\ faults' = faults + 1
    /\ EndJob(w, i)
    /\ UNCHANGED <<row, lock, polled, resumes, click, effect>>

-----------------------------------------------------------------------------
(* persist: Advance and its events in one transaction.  The row must be    *)
(* active still; the lease and the cursor are not asked about.             *)

\* Mutant: the cursor is saved as it was before the step.
AdvancedLate(i, inst, due) ==
    [row EXCEPT ![i].status = inst.status, ![i].resume = inst.resume, ![i].attempts = 0,
                ![i].due = due,
                ![i].lease = IF inst.status \in Terminal \/ due > 0 THEN 0 ELSE @]

\* AdvanceSagaInstance, and AdvanceSagaInstanceAndClearLease when the pass is over.
Advanced(i, inst, due) ==
    [row EXCEPT ![i].status = inst.status, ![i].cursor = inst.cursor, ![i].resume = inst.resume,
                ![i].attempts = 0, ![i].due = due,
                ![i].lease = IF inst.status \in Terminal \/ due > 0 THEN 0 ELSE @]

EndPass(w, i) == EndJob(w, i) /\ lock' = Unlocked(w, i)

\* The write lands, or matches no active row and is refused.
persist(w, i, inst, due, more) ==
    /\ faults' = faults
    /\ row' = IF row[i].status \in Active THEN Advanced(i, inst, due) ELSE row
    /\ IF more /\ row[i].status \in Active
       THEN /\ job' = [job EXCEPT ![w][i] = [@ EXCEPT !.pc = "driving", !.inst = inst, !.ran = 0]]
            /\ lock' = lock
       ELSE EndPass(w, i)

\* The transaction fails, or commits and the answer is lost: the pass ends in
\* an error, the lease is left to lapse.
persistFails(w, i, inst, due) ==
    /\ faults < MaxFaults /\ faults' = faults + 1
    /\ row' = row \/ (row[i].status \in Active /\ row' = Advanced(i, inst, due))
    /\ EndPass(w, i)

Persist(w, i, inst, due, more) == persist(w, i, inst, due, more) \/ persistFails(w, i, inst, due)

\* Mutant: every retry is a first one.
RescheduledAfresh(i, attempts) ==
    IF row[i].status \in Active
    THEN [row EXCEPT ![i].attempts = 0, ![i].due = RetryDelay, ![i].lease = 0]
    ELSE row

\* reschedule: the same guard; the lease goes, the attempts stay.
Rescheduled(i, attempts) ==
    IF row[i].status \in Active
    THEN [row EXCEPT ![i].attempts = attempts, ![i].due = RetryDelay, ![i].lease = 0]
    ELSE row

reschedule(w, i, attempts) ==
    /\ \/ row' = Rescheduled(i, attempts) /\ faults' = faults
       \/ faults < MaxFaults /\ faults' = faults + 1 /\ row' \in {row, Rescheduled(i, attempts)}
    /\ EndPass(w, i)

\* markStuck: where Resume is to put it back is kept beside it.
markStuck(w, i) ==
    LET inst == job[w][i].inst
    IN  Persist(w, i, [inst EXCEPT !.status = "stuck", !.resume = inst.status], 0, FALSE)

-----------------------------------------------------------------------------
(* drive: from step to step until the instance rests.                      *)

Driving(w, i) == job[w][i].pc = "driving"

\* The definition is not this build's, or its steps are not.
drift(w, i) ==
    /\ Driving(w, i) /\ w \in Drifted
    /\ markStuck(w, i)
    /\ UNCHANGED <<polled, resumes, click, effect>>

\* Mutant: the pass has no deadline.
AnyTime(w, i) == Driving(w, i) /\ w \notin Drifted

\* Before the deadline, which falls in the unit where left is 0.
InTime(w, i) == Driving(w, i) /\ w \notin Drifted /\ job[w][i].left >= 0

\* Out of budget: hand the instance back.  The lease is dropped by instance id.
outOfTime(w, i) ==
    /\ Driving(w, i) /\ w \notin Drifted
    /\ job[w][i].left <= 0
    /\ Release(i)
    /\ EndPass(w, i)
    /\ UNCHANGED <<polled, resumes, click, effect>>

Begin(w, i, phase) ==
    /\ InTime(w, i)
    /\ job' = [job EXCEPT ![w][i].pc = phase, ![w][i].ran = 0]
    /\ effect' = [effect EXCEPT ![i][job[w][i].inst.cursor] = "half"]
    /\ UNCHANGED <<row, lock, polled, faults, resumes, click>>

\* runStep: from here on the step may have had part of its effect.
beginDo(w, i) ==
    /\ job[w][i].inst.status = "running"
    /\ Begin(w, i, "doing")

beginUndo(w, i) ==
    /\ job[w][i].inst.status = "compensating" /\ job[w][i].inst.cursor \in Undoable
    /\ Begin(w, i, "undoing")

\* The record with its cursor moved on, in the status that brings it to.
Forward(inst) ==
    [inst EXCEPT !.cursor = @ + 1, !.attempts = 0,
                 !.status = IF inst.cursor + 1 >= Steps THEN "completed" ELSE @]
Backward(inst) ==
    [inst EXCEPT !.cursor = @ - 1, !.attempts = 0,
                 !.status = IF inst.cursor - 1 < 0 THEN "compensated" ELSE @]

\* Undo is optional: a step without one is passed over.
skipUndo(w, i) ==
    LET inst == job[w][i].inst IN
    /\ InTime(w, i)
    /\ inst.status = "compensating" /\ inst.cursor \notin Undoable
    /\ Persist(w, i, Backward(inst), 0, Backward(inst).status \in Active)
    /\ UNCHANGED <<polled, resumes, click, effect>>

didStep(w, i) ==
    LET next == Forward(job[w][i].inst)
        delay == IF next.status = "completed" THEN 0 ELSE Delay[next.cursor]
    IN
    /\ job[w][i].pc = "doing"
    /\ effect' = [effect EXCEPT ![i][job[w][i].inst.cursor] = "done"]
    /\ Persist(w, i, next, delay, next.status \in Active /\ delay = 0)
    /\ UNCHANGED <<polled, resumes, click>>

Attempts(inst) == IF inst.attempts > 1 THEN inst.attempts ELSE 1

\* exhausted: the budget is spent, or the error says not to try again.
Exhausted(inst, budget, unretryable) == unretryable \/ Attempts(inst) >= budget

\* Mutant: compensation starts at the step before the one that failed.
Unwind(inst) ==
    [inst EXCEPT !.status = IF inst.cursor = 0 THEN "compensated" ELSE "compensating",
                 !.cursor = @ - 1, !.attempts = 0]

\* Compensation starts at the step that failed.
Compensating(inst) == [inst EXCEPT !.status = "compensating", !.attempts = 0]

\* failForward: retried later, or unwound from the failed step on.
failForward(w, i, unretryable) ==
    LET inst == job[w][i].inst IN
    /\ job[w][i].pc = "doing"
    /\ IF Exhausted(inst, MaxAttempts, unretryable)
       THEN Persist(w, i, Compensating(inst), 0, TRUE)
       ELSE reschedule(w, i, Attempts(inst))
    /\ UNCHANGED <<polled, resumes, click, effect>>

undidStep(w, i) ==
    LET next == Backward(job[w][i].inst) IN
    /\ job[w][i].pc = "undoing"
    /\ effect' = [effect EXCEPT ![i][job[w][i].inst.cursor] = "undone"]
    /\ Persist(w, i, next, 0, next.status \in Active)
    /\ UNCHANGED <<polled, resumes, click>>

\* An Undo that failed past its budget is an operator's to look at.
undoFailed(w, i, unretryable) ==
    LET inst == job[w][i].inst IN
    /\ job[w][i].pc = "undoing"
    /\ IF Exhausted(inst, MaxUndoAttempts, unretryable)
       THEN markStuck(w, i)
       ELSE reschedule(w, i, Attempts(inst))
    /\ UNCHANGED <<polled, resumes, click, effect>>

-----------------------------------------------------------------------------
\* Mutant: whatever it was doing, forward again.
ResumeRunning(o, i) ==
    /\ resumes < MaxResumes /\ click[o] = NoClick
    /\ row[i].status = "stuck"
    /\ click' = [click EXCEPT ![o] = [pc |-> "read", inst |-> i, to |-> "running"]]
    /\ resumes' = resumes + 1
    /\ UNCHANGED <<row, lock, job, polled, faults, effect>>

\* Resume reads which phase a stuck saga is to go back to ...
Resume(o, i) ==
    /\ resumes < MaxResumes /\ click[o] = NoClick
    /\ row[i].status = "stuck"
    /\ click' = [click EXCEPT ![o] = [pc |-> "read", inst |-> i, to |-> row[i].resume]]
    /\ resumes' = resumes + 1
    /\ UNCHANGED <<row, lock, job, polled, faults, effect>>

\* ... and Requeue puts it there if it is stuck, still or again; or the write fails.
Requeue(o) ==
    LET i == click[o].inst
        requeued == [row EXCEPT ![i].status = click[o].to, ![i].resume = "", ![i].due = 0,
                                ![i].attempts = 0, ![i].lease = 0]
    IN
    /\ click[o] # NoClick
    /\ row' \in IF row[i].status = "stuck" THEN {row, requeued} ELSE {row}
    /\ click' = [click EXCEPT ![o] = NoClick]
    /\ UNCHANGED <<lock, job, polled, faults, resumes, effect>>

\* RetentionTarget.Sweep takes completed and compensated rows only.
Prune(i) ==
    /\ row[i].status \in {"completed", "compensated"}
    /\ row' = [row EXCEPT ![i].status = "pruned"]
    /\ UNCHANGED <<lock, job, polled, faults, resumes, click, effect>>

\* The process dies and is started again; leases and locks are left behind.
Crash(w) ==
    /\ faults < MaxFaults
    /\ \E i \in Instances : job[w][i].pc # "none"
    /\ job' = [job EXCEPT ![w] = [i \in Instances |-> NoJob]]
    /\ faults' = faults + 1
    /\ UNCHANGED <<row, lock, polled, resumes, click, effect>>

-----------------------------------------------------------------------------
Down(n) == IF n > 0 THEN n - 1 ELSE 0

\* Mutant: a step has no timeout.
Unbounded(w, i) == job[w][i].pc \in {"doing", "undoing"}

\* execute: a step's context ends after StepTimeout, and the step with it.
WithinTimeout(w, i) == job[w][i].pc \in {"doing", "undoing"} /\ job[w][i].ran < StepTimeout

\* Nothing that happens at once is pending.
Waiting(w, i) ==
    \/ job[w][i].pc = "none"
    \/ job[w][i].pc = "queued" /\ ~SlotFree(w)
    \/ WithinTimeout(w, i)

Tick ==
    /\ \A w \in Workers, i \in Instances : Waiting(w, i)
    /\ row' = [i \in Instances |-> [row[i] EXCEPT !.due = Down(@), !.lease = Down(@)]]
    /\ lock' = [i \in Instances |-> IF lock[i].ttl <= 1 THEN Free ELSE [lock[i] EXCEPT !.ttl = @ - 1]]
    /\ job' = [w \in Workers |-> [i \in Instances |->
                   [job[w][i] EXCEPT !.left = IF @ >= 0 THEN @ - 1 ELSE @,
                                     !.ran = IF job[w][i].pc \in {"doing", "undoing"} THEN @ + 1 ELSE 0]]]
    /\ polled' = {}
    /\ UNCHANGED <<faults, resumes, click, effect>>

Pass(w, i) ==
    \/ advance(w, i) \/ contended(w, i) \/ lockFails(w, i)
    \/ drift(w, i) \/ outOfTime(w, i)
    \/ beginDo(w, i) \/ beginUndo(w, i) \/ skipUndo(w, i)

Returns(w, i) ==
    \/ didStep(w, i) \/ undidStep(w, i)
    \/ \E unretryable \in BOOLEAN : failForward(w, i, unretryable) \/ undoFailed(w, i, unretryable)

Next ==
    \/ \E i \in Instances : Start(i) \/ Prune(i)
    \/ \E o \in Operators : Requeue(o) \/ \E i \in Instances : Resume(o, i)
    \/ \E w \in Workers, batch \in Batches : Claim(w, batch) \/ ClaimLost(w, batch)
    \/ \E w \in Workers, i \in Instances : Pass(w, i) \/ Returns(w, i)
    \/ \E w \in Workers : Crash(w)
    \/ Tick

Spec == Init /\ [][Next]_vars

\* Workers poll, passes go on, steps return and time passes.  Nobody has to
\* start, resume or prune anything, and no fault has to happen.
Fairness ==
    /\ WF_vars(Tick)
    /\ \A w \in Workers :
        /\ WF_vars(\E batch \in Batches : Claim(w, batch))
        /\ \A i \in Instances : WF_vars(Pass(w, i)) /\ WF_vars(Returns(w, i))

LiveSpec == Spec /\ Fairness

-----------------------------------------------------------------------------
\* Every variable has its type: attempts stay within the budget, a lease and a
\* lock within their durations, and no step runs past StepTimeout.
STypeOK ==
    /\ row \in [Instances -> [status: Statuses, cursor: -1 .. Steps, attempts: 0 .. Cap,
                              resume: {""} \cup Active, due: Nat, lease: 0 .. LeaseDuration]]
    /\ lock \in [Instances -> [by: Workers \cup {NoWorker}, ttl: 0 .. LockTTL]]
    /\ job \in [Workers -> [Instances -> [pc: {"none", "queued"} \cup InSlot, inst: Records,
                                          left: -1 .. AdvanceTimeout, ran: 0 .. StepTimeout]]]
    /\ polled \subseteq Workers
    /\ faults \in 0 .. MaxFaults /\ resumes \in 0 .. MaxResumes
    /\ click \in [Operators -> {NoClick} \cup [pc: {"read"}, inst: Instances, to: Active]]
    /\ effect \in [Instances -> [Indexes -> {"none", "half", "done", "undone"}]]

\* No two workers are inside the same saga's steps: the lease and the lock
\* outlast any pass, and what a crash leaves behind is waited out.
OneDriver ==
    \A i \in Instances, w1, w2 \in Workers :
        job[w1][i].pc \in InSlot /\ job[w2][i].pc \in InSlot => w1 = w2

Clean(i, s) == effect[i][s] \in {"none", "undone"}

\* "Completed" and "compensated" are true of the outside world: a completed
\* saga did every step, and a compensated one left no effect of a step that
\* has an Undo, half-done ones included, whatever crashed or failed on the way.
OutcomeIsTrue ==
    \A i \in Instances :
        /\ row[i].status = "completed" => \A s \in Indexes : effect[i][s] = "done"
        /\ row[i].status = "compensated" => \A s \in Undoable : Clean(i, s)

\* Steps are done in order and undone in reverse order: a Do finds every step
\* before it done, an Undo finds every later step taken back.
InOrder ==
    \A w \in Workers, i \in Instances :
        LET at == job[w][i].inst.cursor IN
        /\ job[w][i].pc = "doing" => \A s \in Indexes : s < at => effect[i][s] = "done"
        /\ job[w][i].pc = "undoing" => \A s \in Undoable : s > at => Clean(i, s)

\* The edges of the package's state diagram, with the stuck of a drifted
\* definition beside them.
Diagram == {<<"none", "running">>, <<"running", "completed">>, <<"running", "compensating">>,
            <<"compensating", "compensated">>, <<"compensating", "stuck">>, <<"running", "stuck">>,
            <<"stuck", "running">>, <<"stuck", "compensating">>,
            <<"completed", "pruned">>, <<"compensated", "pruned">>}

Onward(i) ==
    LET from == row[i] to == row'[i] IN
    /\ from.status # to.status => <<from.status, to.status>> \in Diagram
    /\ from.status = "stuck" /\ to.status # "stuck" => to.status = from.resume
    /\ to.status = "running" => to.cursor >= from.cursor
    /\ to.status = "compensating" => to.cursor <= from.cursor

\* A saga only moves on: the row follows the state diagram, the cursor never
\* goes back while running nor forward while compensating, and Resume returns
\* it to the phase it left.
MovesOnward == [][\A i \in Instances : Onward(i)]_vars

\* Every saga that is running or compensating comes to rest: completed,
\* compensated, or stuck for an operator.
EverySagaRests ==
    \A i \in Instances : row[i].status \in Active ~> row[i].status \notin Active

=============================================================================
