----------------------------- MODULE SagaProofs -----------------------------
(***************************************************************************)
(* Proofs about Saga, for every set of instances, workers and operators,   *)
(* every definition (steps, undos, delays), every configuration the        *)
(* worker's validation lets through, and every number of faults.           *)
(***************************************************************************)
EXTENDS Saga, TLAPS, FiniteSetTheorems

-----------------------------------------------------------------------------
(* What the records hold.                                                  *)

\* A saga that is yet to start, under way, or for Resume to put back is at a step, and a
\* stuck one remembers which phase it left.
AtStep(x) ==
    /\ x.status \in Active \cup {"none", "stuck"} => x.cursor \in Indexes
    /\ x.status = "stuck" => x.resume \in Active

Rows == {r \in [status: Statuses, cursor: -1 .. Steps, attempts: 0 .. Cap,
                resume: {""} \cup Active, due: Nat, lease: 0 .. LeaseDuration] : AtStep(r)}

\* The records a pass may drive, and those it may write.
Driven == {x \in Records : x.status \in Active /\ x.cursor \in Indexes}
Written == {x \in Records : AtStep(x)}

Locks == [by: Workers \cup {NoWorker}, ttl: 0 .. LockTTL]

JobRecords == [pc: {"none", "queued"} \cup InSlot, inst: Records,
               left: -1 .. AdvanceTimeout, ran: 0 .. StepTimeout]
Jobs == {j \in JobRecords : j.pc # "none" => j.inst \in Driven}

LEMMA Constants ==
    /\ NoWorker \notin Workers /\ Drifted \subseteq Workers
    /\ Steps \in Nat /\ Steps > 0
    /\ LeaseDuration \in Nat /\ LockTTL \in Nat /\ AdvanceTimeout \in Nat /\ StepTimeout \in Nat
    /\ MaxAttempts \in Nat /\ MaxUndoAttempts \in Nat /\ RetryDelay \in Nat
    /\ MaxFaults \in Nat /\ MaxResumes \in Nat
    /\ MaxAttempts > 0 /\ MaxUndoAttempts > 0
    /\ Delay \in [Indexes -> Nat]
    /\ LockTTL > AdvanceTimeout + StepTimeout
  BY SagaAssumption DEF ConfigValid

LEMMA Budgets ==
    /\ Cap \in Nat /\ Cap >= 1 /\ 0 \in 0 .. Cap
    /\ \A n \in 0 .. Cap : Count(n) \in 0 .. Cap
    /\ \A x \in Records : Attempts(x) \in 0 .. Cap
  <1>1. Cap \in Nat /\ Cap >= 1
    BY Constants DEF Cap
  <1>2. \A n \in 0 .. Cap : Count(n) \in 0 .. Cap
    BY <1>1 DEF Count
  <1>3. ASSUME NEW x \in Records PROVE Attempts(x) \in 0 .. Cap
    <2>1. x.attempts \in 0 .. Cap
      BY DEF Records
    <2> QED
      BY <1>1, <2>1 DEF Attempts
  <1> QED
    BY <1>1, <1>2, <1>3

LEMMA Durations == 0 \in 0 .. LeaseDuration /\ LeaseDuration \in 0 .. LeaseDuration /\ RetryDelay \in Nat
  BY Constants

LEMMA FirstStep == 0 \in Indexes /\ Indexes \subseteq Int /\ \A s \in Indexes : s \in -1 .. Steps
  BY Constants DEF Indexes

-----------------------------------------------------------------------------
(* What the updates of a row leave.                                        *)

LEMMA RowStarted ==
    ASSUME NEW r \in Rows, r.cursor \in Indexes, NEW due \in Nat
    PROVE  [r EXCEPT !.status = "running", !.due = due] \in Rows
  BY DEF Rows, AtStep, Statuses, Active, Terminal

LEMMA RowPruned == ASSUME NEW r \in Rows PROVE [r EXCEPT !.status = "pruned"] \in Rows
  BY DEF Rows, AtStep, Statuses, Active, Terminal

LEMMA RowClaimed ==
    ASSUME NEW r \in Rows
    PROVE  [r EXCEPT !.lease = LeaseDuration, !.attempts = Count(@)] \in Rows
  <1>1. r.attempts \in 0 .. Cap
    BY DEF Rows
  <1>2. Count(r.attempts) \in 0 .. Cap
    BY <1>1, Budgets
  <1> QED
    BY <1>2, Durations DEF Rows, AtStep

LEMMA RowReleased == ASSUME NEW r \in Rows PROVE [r EXCEPT !.lease = 0] \in Rows
  BY Durations DEF Rows, AtStep

LEMMA RowRescheduled ==
    ASSUME NEW r \in Rows, NEW n \in 0 .. Cap
    PROVE  [r EXCEPT !.attempts = n, !.due = RetryDelay, !.lease = 0] \in Rows
  BY Durations DEF Rows, AtStep

LEMMA RowRequeued ==
    ASSUME NEW r \in Rows, r.status = "stuck", NEW to \in Active
    PROVE  [r EXCEPT !.status = to, !.resume = "", !.due = 0, !.attempts = 0, !.lease = 0] \in Rows
  BY Durations, Budgets DEF Rows, AtStep, Statuses, Active, Terminal

LEMMA RowCounted ==
    ASSUME NEW r \in Rows, NEW due \in Nat, NEW lease \in 0 .. LeaseDuration
    PROVE  [r EXCEPT !.due = due, !.lease = lease] \in Rows
  BY DEF Rows, AtStep

LEMMA RowAdvanced ==
    ASSUME NEW r \in Rows, NEW x \in Written, NEW due \in Nat, NEW lease \in 0 .. LeaseDuration
    PROVE  [r EXCEPT !.status = x.status, !.cursor = x.cursor, !.resume = x.resume,
                     !.attempts = 0, !.due = due, !.lease = lease] \in Rows
  <1>1. /\ x.status \in Statuses /\ x.cursor \in -1 .. Steps /\ x.resume \in {""} \cup Active
        /\ AtStep(x)
    BY DEF Written, Records
  <1>2. 0 \in 0 .. Cap
    BY Budgets
  <1> QED
    BY <1>1, <1>2 DEF Rows, AtStep

-----------------------------------------------------------------------------
(* What the steps make of the record they drive.                           *)

LEMMA ForwardWritten ==
    ASSUME NEW x \in Driven
    PROVE  /\ Forward(x) \in Written
           /\ Forward(x).status \in Active => Forward(x) \in Driven
           /\ Forward(x).status # "completed" => Forward(x).cursor \in Indexes
  <1> DEFINE c == x.cursor + 1
             st == IF x.cursor + 1 >= Steps THEN "completed" ELSE x.status
             y == [x EXCEPT !.cursor = c, !.attempts = 0, !.status = st]
  <1>1. x \in Records /\ x.status \in Active /\ x.cursor \in Indexes
    BY DEF Driven
  <1>2. c \in -1 .. Steps /\ (st # "completed" => c \in Indexes /\ st = x.status)
    BY <1>1, Constants DEF Indexes
  <1>3. st \in Active \cup {"completed"} /\ st # "stuck" /\ st \in Statuses /\ st # "none"
    BY <1>1 DEF Active, Statuses, Terminal
  <1>4. Forward(x) = y
    BY DEF Forward
  <1>5. "completed" \notin Active
    BY DEF Active
  <1> HIDE DEF c, st
  <1>6. y \in Records
    BY <1>1, <1>2, <1>3, Budgets DEF Records
  <1>7. y.cursor = c /\ y.status = st
    BY <1>1 DEF Records
  <1> HIDE DEF y
  <1> QED
    BY <1>2, <1>3, <1>4, <1>5, <1>6, <1>7 DEF Written, Driven, AtStep

LEMMA BackwardWritten ==
    ASSUME NEW x \in Driven
    PROVE  /\ Backward(x) \in Written
           /\ Backward(x).status \in Active => Backward(x) \in Driven
  <1> DEFINE c == x.cursor - 1
             st == IF x.cursor - 1 < 0 THEN "compensated" ELSE x.status
             y == [x EXCEPT !.cursor = c, !.attempts = 0, !.status = st]
  <1>1. x \in Records /\ x.status \in Active /\ x.cursor \in Indexes
    BY DEF Driven
  <1>2. c \in -1 .. Steps /\ (st # "compensated" => c \in Indexes /\ st = x.status)
    BY <1>1, Constants DEF Indexes
  <1>3. st \in Active \cup {"compensated"} /\ st # "stuck" /\ st \in Statuses /\ st # "none"
    BY <1>1 DEF Active, Statuses, Terminal
  <1>4. Backward(x) = y
    BY DEF Backward
  <1>5. "compensated" \notin Active
    BY DEF Active
  <1> HIDE DEF c, st
  <1>6. y \in Records
    BY <1>1, <1>2, <1>3, Budgets DEF Records
  <1>7. y.cursor = c /\ y.status = st
    BY <1>1 DEF Records
  <1> HIDE DEF y
  <1> QED
    BY <1>2, <1>3, <1>4, <1>5, <1>6, <1>7 DEF Written, Driven, AtStep

LEMMA CompensatingWritten ==
    ASSUME NEW x \in Driven
    PROVE  Compensating(x) \in Written /\ Compensating(x) \in Driven
  <1> DEFINE y == [x EXCEPT !.status = "compensating", !.attempts = 0]
  <1>1. x \in Records /\ x.cursor \in Indexes
    BY DEF Driven
  <1>2. y \in Records
    BY <1>1, Budgets DEF Records, Statuses, Active
  <1>3. y.status = "compensating" /\ y.cursor = x.cursor
    BY <1>1 DEF Records
  <1>4. Compensating(x) = y
    BY DEF Compensating
  <1> HIDE DEF y
  <1> QED
    BY <1>1, <1>2, <1>3, <1>4 DEF Written, Driven, AtStep, Active

LEMMA StuckWritten ==
    ASSUME NEW x \in Driven
    PROVE  [x EXCEPT !.status = "stuck", !.resume = x.status] \in Written
  <1> DEFINE y == [x EXCEPT !.status = "stuck", !.resume = x.status]
  <1>1. x \in Records /\ x.cursor \in Indexes /\ x.status \in Active
    BY DEF Driven
  <1>2. y \in Records
    BY <1>1 DEF Records, Statuses, Terminal
  <1>3. y.status = "stuck" /\ y.cursor = x.cursor /\ y.resume = x.status
    BY <1>1 DEF Records
  <1> HIDE DEF y
  <1>4. y \in Written
    BY <1>1, <1>2, <1>3 DEF Written, AtStep
  <1> QED
    BY <1>4 DEF y

-----------------------------------------------------------------------------
(* The invariant.                                                          *)

RowInv == row \in [Instances -> Rows]

\* A worker inside a saga's steps has the instance lock, with the time for
\* the rest of its pass and for one more step still on it, or for the rest of
\* the step that is running.
Holds(w, i) ==
    job[w][i].pc \in InSlot =>
        /\ lock[i].by = w
        /\ job[w][i].left >= 0 => lock[i].ttl >= job[w][i].left + StepTimeout + 1
        /\ job[w][i].pc \in {"doing", "undoing"} => lock[i].ttl >= StepTimeout + 1 - job[w][i].ran

PassInv ==
    /\ lock \in [Instances -> Locks]
    /\ job \in [Workers -> [Instances -> Jobs]]
    /\ \A w \in Workers, i \in Instances : Holds(w, i)

RestInv ==
    /\ polled \subseteq Workers
    /\ faults \in 0 .. MaxFaults /\ resumes \in 0 .. MaxResumes
    /\ click \in [Operators -> {NoClick} \cup [pc: {"read"}, inst: Instances, to: Active]]
    /\ effect \in [Instances -> [Indexes -> {"none", "half", "done", "undone"}]]

SInv == RowInv /\ PassInv /\ RestInv

LEMMA Blanks == NoJob \in Jobs /\ NoJob.pc = "none" /\ Free \in Locks /\ Free.by = NoWorker
  <1>1. Blank \in Records
    BY Budgets, FirstStep DEF Blank, Records, Statuses
  <1>2. -1 \in -1 .. AdvanceTimeout /\ 0 \in 0 .. StepTimeout /\ 0 \in 0 .. LockTTL
    BY Constants
  <1> HIDE DEF Blank
  <1> QED
    BY <1>1, <1>2 DEF NoJob, Jobs, JobRecords, Free, Locks

\* A job's fields.
LEMMA JobFields ==
    ASSUME NEW j \in Jobs
    PROVE  /\ j.pc \in {"none", "queued"} \cup InSlot /\ j.inst \in Records
           /\ j.left \in -1 .. AdvanceTimeout /\ j.ran \in 0 .. StepTimeout
           /\ j.pc # "none" => j.inst \in Driven
  BY DEF Jobs, JobRecords

\* One job and one lock change: the others keep what they hold, because a
\* lock that changes hands was free, or its holder's.
LEMMA OneJob ==
    ASSUME PassInv, NEW w \in Workers, NEW i \in Instances, NEW j \in Jobs,
           job' = [job EXCEPT ![w][i] = j],
           lock' \in [Instances -> Locks],
           \A k \in Instances \ {i} : lock'[k] = lock[k],
           lock'[i] = lock[i] \/ lock[i].by \in {w, NoWorker},
           Holds(w, i)'
    PROVE  PassInv'
  <1>1. job' \in [Workers -> [Instances -> Jobs]]
    BY DEF PassInv
  <1>2. ASSUME NEW v \in Workers, NEW k \in Instances, <<v, k>> # <<w, i>>
        PROVE  Holds(v, k)'
    <2>1. job'[v][k] = job[v][k]
      BY <1>2 DEF PassInv
    <2>2. Holds(v, k)
      BY DEF PassInv
    <2>3. job[v][k].pc \in InSlot => lock'[k] = lock[k]
      BY <1>2, <2>2, Constants DEF Holds
    <2> QED
      BY <2>1, <2>2, <2>3 DEF Holds
  <1> QED
    BY <1>1, <1>2 DEF PassInv

LEMMA JobEnds ==
    ASSUME PassInv, NEW w \in Workers, NEW i \in Instances, EndJob(w, i),
           lock' = lock \/ lock' = Unlocked(w, i)
    PROVE  PassInv'
  <1>1. job' = [job EXCEPT ![w][i] = NoJob]
    BY DEF EndJob
  <1>2. /\ lock' \in [Instances -> Locks]
        /\ \A k \in Instances \ {i} : lock'[k] = lock[k]
        /\ lock'[i] = lock[i] \/ lock[i].by \in {w, NoWorker}
    BY Blanks DEF Unlocked, PassInv
  <1>3. Holds(w, i)'
    <2>1. job'[w][i] = NoJob
      BY <1>1 DEF PassInv
    <2> QED
      BY <2>1, Blanks DEF Holds, InSlot
  <1> QED
    BY <1>1, <1>2, <1>3, Blanks, OneJob

LEMMA PassEnds ==
    ASSUME PassInv, NEW w \in Workers, NEW i \in Instances, EndPass(w, i)
    PROVE  PassInv'
  BY JobEnds DEF EndPass

\* A job's record goes on with the same lock.
LEMMA JobGoes ==
    ASSUME PassInv, NEW w \in Workers, NEW i \in Instances, NEW j \in Jobs,
           job' = [job EXCEPT ![w][i] = j], lock' = lock, Holds(w, i)'
    PROVE  PassInv'
  <1>1. lock' \in [Instances -> Locks]
    BY DEF PassInv
  <1> QED
    BY <1>1, OneJob

-----------------------------------------------------------------------------
(* What a write does to the rows.                                          *)

LEMMA AdvancedRow ==
    ASSUME RowInv, NEW i \in Instances, NEW x \in Written, NEW due \in Nat
    PROVE  Advanced(i, x, due) \in [Instances -> Rows]
  <1> DEFINE lease == IF x.status \in Terminal \/ due > 0 THEN 0 ELSE row[i].lease
             r == [row[i] EXCEPT !.status = x.status, !.cursor = x.cursor, !.resume = x.resume,
                                 !.attempts = 0, !.due = due, !.lease = lease]
  <1>1. row[i] \in Rows
    BY DEF RowInv
  <1>2. lease \in 0 .. LeaseDuration
    BY <1>1, Durations DEF Rows
  <1>3. Advanced(i, x, due) = [row EXCEPT ![i] = r]
    BY <1>1 DEF Advanced, Rows, RowInv
  <1> HIDE DEF lease
  <1>4. r \in Rows
    BY <1>1, <1>2, RowAdvanced
  <1> HIDE DEF r
  <1> QED
    BY <1>3, <1>4 DEF RowInv

LEMMA RescheduledRow ==
    ASSUME RowInv, NEW i \in Instances, NEW n \in 0 .. Cap
    PROVE  Rescheduled(i, n) \in [Instances -> Rows]
  <1> DEFINE r == [row[i] EXCEPT !.attempts = n, !.due = RetryDelay, !.lease = 0]
  <1>1. r \in Rows
    BY RowRescheduled DEF RowInv
  <1>2. Rescheduled(i, n) \in {row, [row EXCEPT ![i] = r]}
    BY DEF Rescheduled
  <1> HIDE DEF r
  <1> QED
    BY <1>1, <1>2 DEF RowInv

LEMMA ReleaseRow ==
    ASSUME RowInv, RestInv, NEW i \in Instances, Release(i)
    PROVE  RowInv' /\ faults' \in 0 .. MaxFaults
  <1> DEFINE r == [row[i] EXCEPT !.lease = 0]
  <1>1. r \in Rows
    BY RowReleased DEF RowInv
  <1>2. row' = row \/ row' = [row EXCEPT ![i] = r]
    BY DEF Release
  <1> HIDE DEF r
  <1>3. RowInv'
    BY <1>1, <1>2 DEF RowInv
  <1>4. faults' \in 0 .. MaxFaults
    BY Constants DEF Release, RestInv
  <1> QED
    BY <1>3, <1>4

LEMMA RescheduleKeeps ==
    ASSUME RowInv, PassInv, RestInv, NEW w \in Workers, NEW i \in Instances, NEW n \in 0 .. Cap,
           reschedule(w, i, n)
    PROVE  RowInv' /\ PassInv' /\ faults' \in 0 .. MaxFaults
  <1>1. row' \in {row, Rescheduled(i, n)} /\ EndPass(w, i)
    BY DEF reschedule
  <1>2. faults' \in 0 .. MaxFaults
    BY Constants DEF reschedule, RestInv
  <1>3. RowInv'
    BY <1>1, RescheduledRow DEF RowInv
  <1> QED
    BY <1>1, <1>2, <1>3, PassEnds

LEMMA PersistKeeps ==
    ASSUME RowInv, PassInv, RestInv, NEW w \in Workers, NEW i \in Instances,
           job[w][i].pc \in InSlot,
           NEW x \in Written, NEW due \in Nat, NEW more \in BOOLEAN, more => x \in Driven,
           Persist(w, i, x, due, more)
    PROVE  RowInv' /\ PassInv' /\ faults' \in 0 .. MaxFaults
  <1>1. row' \in {row, Advanced(i, x, due)}
    BY DEF Persist, persist, persistFails
  <1>2. RowInv'
    BY <1>1, AdvancedRow DEF RowInv
  <1>3. faults' \in 0 .. MaxFaults
    BY Constants DEF Persist, persist, persistFails, RestInv
  <1>4. CASE EndPass(w, i)
    BY <1>2, <1>3, <1>4, PassEnds
  <1>5. CASE /\ more /\ lock' = lock
             /\ job' = [job EXCEPT ![w][i] = [@ EXCEPT !.pc = "driving", !.inst = x, !.ran = 0]]
    <2> DEFINE j == [job[w][i] EXCEPT !.pc = "driving", !.inst = x, !.ran = 0]
    <2>1. job[w][i] \in Jobs /\ Holds(w, i)
      BY DEF PassInv
    <2>2. x \in Driven /\ x \in Records /\ 0 \in 0 .. StepTimeout
      BY <1>5, Constants DEF Driven
    <2>3. j \in Jobs
      BY <2>1, <2>2 DEF Jobs, JobRecords, InSlot
    <2>4. j.pc = "driving" /\ j.left = job[w][i].left
      BY <2>1 DEF Jobs, JobRecords
    <2>5. job' = [job EXCEPT ![w][i] = j]
      BY <1>5
    <2> HIDE DEF j
    <2>6. job'[w][i] = j
      BY <2>5 DEF PassInv
    <2>7. Holds(w, i)'
      BY <1>5, <2>1, <2>4, <2>6 DEF Holds
    <2> QED
      BY <1>2, <1>3, <1>5, <2>3, <2>5, <2>7, JobGoes
  <1> QED
    BY <1>4, <1>5 DEF Persist, persist, persistFails

-----------------------------------------------------------------------------
(* Every step keeps the invariant.                                         *)

LEMMA Begins == Init => SInv
  <1> SUFFICES ASSUME Init PROVE SInv
    OBVIOUS
  <1> DEFINE r == [status |-> "none", cursor |-> 0, attempts |-> 0, resume |-> "", due |-> 0, lease |-> 0]
  <1>1. r \in Rows
    BY Budgets, Durations, FirstStep DEF Rows, AtStep, Statuses, Active
  <1>2. RowInv
    BY <1>1 DEF RowInv, Init
  <1>3. PassInv
    <2>1. lock \in [Instances -> Locks] /\ job \in [Workers -> [Instances -> Jobs]]
      BY Blanks DEF Init
    <2>2. ASSUME NEW w \in Workers, NEW i \in Instances PROVE Holds(w, i)
      <3>1. job[w][i] = NoJob
        BY DEF Init
      <3> QED
        BY <3>1, Blanks DEF Holds, InSlot
    <2> QED
      BY <2>1, <2>2 DEF PassInv
  <1>4. RestInv
    <2>1. polled = {} /\ faults = 0 /\ resumes = 0
      BY DEF Init
    <2>2. click \in [Operators -> {NoClick} \cup [pc: {"read"}, inst: Instances, to: Active]]
      BY DEF Init
    <2>3. effect \in [Instances -> [Indexes -> {"none", "half", "done", "undone"}]]
      BY DEF Init
    <2> QED
      BY <2>1, <2>2, <2>3, Constants DEF RestInv
  <1> QED
    BY <1>2, <1>3, <1>4 DEF SInv

LEMMA PassUnchanged == ASSUME PassInv, UNCHANGED <<lock, job>> PROVE PassInv'
  BY DEF PassInv, Holds

LEMMA StartKeeps == ASSUME SInv, NEW i \in Instances, Start(i) PROVE SInv'
  <1> DEFINE r == [row[i] EXCEPT !.status = "running", !.due = Delay[0]]
  <1>1. Delay[0] \in Nat
    BY Constants, FirstStep
  <1>2. r \in Rows
    <2>1. row[i] \in Rows /\ row[i].cursor \in Indexes
      BY DEF SInv, RowInv, Rows, AtStep, Start
    <2> QED
      BY <1>1, <2>1, RowStarted
  <1>3. row' = [row EXCEPT ![i] = r]
    BY DEF Start
  <1> HIDE DEF r
  <1>4. RowInv'
    BY <1>2, <1>3 DEF SInv, RowInv
  <1>5. PassInv' /\ RestInv'
    BY PassUnchanged DEF SInv, RestInv, Start
  <1> QED
    BY <1>4, <1>5 DEF SInv

LEMMA PruneKeeps == ASSUME SInv, NEW i \in Instances, Prune(i) PROVE SInv'
  <1> DEFINE r == [row[i] EXCEPT !.status = "pruned"]
  <1>1. r \in Rows
    BY RowPruned DEF SInv, RowInv
  <1>2. row' = [row EXCEPT ![i] = r]
    BY DEF Prune
  <1> HIDE DEF r
  <1>3. RowInv'
    BY <1>1, <1>2 DEF SInv, RowInv
  <1>4. PassInv' /\ RestInv'
    BY PassUnchanged DEF SInv, RestInv, Prune
  <1> QED
    BY <1>3, <1>4 DEF SInv

LEMMA ResumeKeeps == ASSUME SInv, NEW o \in Operators, NEW i \in Instances, Resume(o, i) PROVE SInv'
  <1>1. row[i].resume \in Active
    BY DEF SInv, RowInv, Rows, AtStep, Resume
  <1>2. RowInv' /\ PassInv'
    BY PassUnchanged DEF SInv, RowInv, Resume
  <1>3. RestInv'
    BY <1>1, Constants DEF SInv, RestInv, Resume
  <1> QED
    BY <1>2, <1>3 DEF SInv

LEMMA RequeueKeeps == ASSUME SInv, NEW o \in Operators, Requeue(o) PROVE SInv'
  <1> DEFINE i == click[o].inst
             to == click[o].to
             r == [row[i] EXCEPT !.status = to, !.resume = "", !.due = 0, !.attempts = 0, !.lease = 0]
  <1>1. click[o] \in [pc: {"read"}, inst: Instances, to: Active]
    BY DEF SInv, RestInv, Requeue
  <1>2. i \in Instances /\ to \in Active
    BY <1>1
  <1>3. row' = row \/ (row[i].status = "stuck" /\ row' = [row EXCEPT ![i] = r])
    <2>1. row[i] \in Rows
      BY <1>2 DEF SInv, RowInv
    <2>2. [row EXCEPT ![i].status = to, ![i].resume = "", ![i].due = 0, ![i].attempts = 0, ![i].lease = 0]
             = [row EXCEPT ![i] = r]
      BY <2>1, <1>2 DEF Rows, SInv, RowInv
    <2> QED
      BY <2>2 DEF Requeue
  <1>4. UNCHANGED <<lock, job, polled, faults, resumes, effect>> /\ click' = [click EXCEPT ![o] = NoClick]
    BY DEF Requeue
  <1> HIDE DEF i, to
  <1>5. row[i].status = "stuck" => r \in Rows
    BY <1>2, RowRequeued DEF SInv, RowInv
  <1> HIDE DEF r
  <1>6. RowInv'
    BY <1>3, <1>5 DEF SInv, RowInv
  <1>7. PassInv' /\ RestInv'
    BY <1>4, PassUnchanged DEF SInv, RestInv
  <1> QED
    BY <1>6, <1>7 DEF SInv

LEMMA ClaimedRows == ASSUME RowInv, NEW batch, Claimed(batch) PROVE RowInv'
  BY RowClaimed DEF RowInv, Claimed

LEMMA ClaimKeeps == ASSUME SInv, NEW w \in Workers, NEW batch \in Batches, Claim(w, batch) PROVE SInv'
  <1> DEFINE J(i) == [NoJob EXCEPT !.pc = "queued", !.inst = [Record(i) EXCEPT !.attempts = Count(@)]]
             js == [i \in Instances |-> IF i \in batch THEN J(i) ELSE NoJob]
  <1>1. ASSUME NEW i \in batch, i \in Instances PROVE J(i) \in Jobs /\ J(i).pc = "queued"
    <2> DEFINE x == [Record(i) EXCEPT !.attempts = Count(@)]
    <2>1. row[i] \in Rows /\ row[i].status \in Active
      BY DEF SInv, RowInv, Batches, Claimable
    <2>2. Record(i) \in Records /\ Record(i).attempts \in 0 .. Cap /\ Record(i).status \in Active
          /\ Record(i).cursor \in Indexes
      BY <2>1 DEF Record, Records, Rows, AtStep
    <2>3. Count(Record(i).attempts) \in 0 .. Cap
      BY <2>2, Budgets
    <2>4. x \in Driven
      BY <2>2, <2>3 DEF Driven, Records
    <2> HIDE DEF x
    <2>5. J(i) = [NoJob EXCEPT !.pc = "queued", !.inst = x]
      BY DEF x
    <2>6. x \in Records
      BY <2>4 DEF Driven
    <2> QED
      BY <2>4, <2>5, <2>6, Blanks DEF Jobs, JobRecords
  <1>2. js \in [Instances -> Jobs] /\ \A i \in Instances : js[i].pc \notin InSlot
    <2> HIDE DEF J
    <2> QED
      BY <1>1, Blanks DEF InSlot
  <1>3. job' = [job EXCEPT ![w] = js] /\ lock' = lock
    BY DEF Claim
  <1> HIDE DEF js
  <1>4. PassInv'
    <2>1. job' \in [Workers -> [Instances -> Jobs]] /\ lock' \in [Instances -> Locks]
      BY <1>2, <1>3 DEF SInv, PassInv
    <2>2. ASSUME NEW v \in Workers, NEW i \in Instances PROVE Holds(v, i)'
      <3>1. CASE v = w
        BY <3>1, <1>2, <1>3 DEF SInv, PassInv, Holds
      <3>2. CASE v # w
        BY <3>2, <1>3 DEF SInv, PassInv, Holds
      <3> QED
        BY <3>1, <3>2
    <2> QED
      BY <2>1, <2>2 DEF PassInv
  <1>5. RowInv'
    BY ClaimedRows DEF SInv, Claim
  <1>6. RestInv'
    BY DEF SInv, RestInv, Claim, Polls
  <1> QED
    BY <1>4, <1>5, <1>6 DEF SInv

LEMMA ClaimLostKeeps == ASSUME SInv, NEW w \in Workers, NEW batch \in Batches, ClaimLost(w, batch) PROVE SInv'
  <1>1. RowInv'
    BY ClaimedRows DEF SInv, ClaimLost
  <1>2. PassInv'
    BY PassUnchanged DEF SInv, ClaimLost
  <1>3. RestInv'
    BY Constants DEF SInv, RestInv, ClaimLost, Polls
  <1> QED
    BY <1>1, <1>2, <1>3 DEF SInv

LEMMA CrashKeeps == ASSUME SInv, NEW w \in Workers, Crash(w) PROVE SInv'
  <1> DEFINE js == [i \in Instances |-> NoJob]
  <1>1. js \in [Instances -> Jobs] /\ \A i \in Instances : js[i].pc \notin InSlot
    BY Blanks DEF InSlot
  <1>2. job' = [job EXCEPT ![w] = js] /\ lock' = lock
    BY DEF Crash
  <1> HIDE DEF js
  <1>3. job' \in [Workers -> [Instances -> Jobs]] /\ lock' \in [Instances -> Locks]
    BY <1>1, <1>2 DEF SInv, PassInv
  <1>4. ASSUME NEW v \in Workers, NEW i \in Instances PROVE Holds(v, i)'
    <2>1. CASE v = w
      BY <2>1, <1>1, <1>2 DEF SInv, PassInv, Holds
    <2>2. CASE v # w
      BY <2>2, <1>2 DEF SInv, PassInv, Holds
    <2> QED
      BY <2>1, <2>2
  <1>5. RowInv' /\ RestInv'
    BY Constants DEF SInv, RowInv, RestInv, Crash
  <1> QED
    BY <1>3, <1>4, <1>5 DEF SInv, PassInv

\* The pass takes the lock with the whole of its time ahead of it.
LEMMA AdvanceKeeps == ASSUME SInv, NEW w \in Workers, NEW i \in Instances, advance(w, i) PROVE SInv'
  <1> DEFINE j == [job[w][i] EXCEPT !.pc = "driving", !.left = AdvanceTimeout]
             l == [by |-> w, ttl |-> LockTTL]
  <1>1. job[w][i] \in Jobs /\ job[w][i].pc = "queued" /\ lock[i].by = NoWorker
    BY DEF SInv, PassInv, advance
  <1>2. AdvanceTimeout \in -1 .. AdvanceTimeout /\ LockTTL \in 0 .. LockTTL
    BY Constants
  <1>3. j \in Jobs
    BY <1>1, <1>2 DEF Jobs, JobRecords, InSlot
  <1>4. j.pc = "driving" /\ j.left = AdvanceTimeout
    BY <1>1 DEF Jobs, JobRecords
  <1>5. l \in Locks /\ l.by = w /\ l.ttl = LockTTL
    BY <1>2 DEF Locks
  <1>6. job' = [job EXCEPT ![w][i] = j] /\ lock' = [lock EXCEPT ![i] = l]
    BY <1>1 DEF advance, SInv, PassInv, Jobs, JobRecords
  <1> HIDE DEF j, l
  <1>7. job'[w][i] = j /\ lock'[i] = l /\ lock' \in [Instances -> Locks]
        /\ \A k \in Instances \ {i} : lock'[k] = lock[k]
    BY <1>5, <1>6 DEF SInv, PassInv
  <1>8. Holds(w, i)'
    BY <1>4, <1>5, <1>7, Constants DEF Holds
  <1>9. PassInv'
    BY <1>1, <1>3, <1>6, <1>7, <1>8, OneJob DEF SInv
  <1>10. RowInv' /\ RestInv'
    BY DEF SInv, RowInv, RestInv, advance
  <1> QED
    BY <1>9, <1>10 DEF SInv

LEMMA ContendedKeeps == ASSUME SInv, NEW w \in Workers, NEW i \in Instances, contended(w, i) PROVE SInv'
  <1>1. RowInv' /\ faults' \in 0 .. MaxFaults
    BY ReleaseRow DEF SInv, contended
  <1>2. PassInv'
    BY JobEnds DEF SInv, contended
  <1>3. RestInv'
    BY <1>1 DEF SInv, RestInv, contended
  <1> QED
    BY <1>1, <1>2, <1>3 DEF SInv

LEMMA LockFailsKeeps == ASSUME SInv, NEW w \in Workers, NEW i \in Instances, lockFails(w, i) PROVE SInv'
  <1>1. PassInv'
    BY JobEnds DEF SInv, lockFails
  <1>2. RowInv' /\ RestInv'
    BY Constants DEF SInv, RowInv, RestInv, lockFails
  <1> QED
    BY <1>1, <1>2 DEF SInv

LEMMA OutOfTimeKeeps == ASSUME SInv, NEW w \in Workers, NEW i \in Instances, outOfTime(w, i) PROVE SInv'
  <1>1. RowInv' /\ faults' \in 0 .. MaxFaults
    BY ReleaseRow DEF SInv, outOfTime
  <1>2. PassInv'
    BY PassEnds DEF SInv, outOfTime
  <1>3. RestInv'
    BY <1>1 DEF SInv, RestInv, outOfTime
  <1> QED
    BY <1>1, <1>2, <1>3 DEF SInv

\* What a pass drives.
LEMMA DrivenInst ==
    ASSUME SInv, NEW w \in Workers, NEW i \in Instances, job[w][i].pc # "none"
    PROVE  job[w][i].inst \in Driven /\ job[w][i].inst.cursor \in Indexes
  <1>1. job[w][i].inst \in Driven
    BY JobFields DEF SInv, PassInv
  <1> QED
    BY <1>1 DEF Driven

LEMMA EffectKeeps ==
    ASSUME RestInv, NEW i \in Instances, NEW s \in Indexes, NEW e \in {"none", "half", "done", "undone"},
           effect' = [effect EXCEPT ![i][s] = e]
    PROVE  effect' \in [Instances -> [Indexes -> {"none", "half", "done", "undone"}]]
  BY DEF RestInv

LEMMA BeginKeeps ==
    ASSUME SInv, NEW w \in Workers, NEW i \in Instances, NEW phase \in {"doing", "undoing"}, Begin(w, i, phase)
    PROVE  SInv'
  <1> DEFINE j == [job[w][i] EXCEPT !.pc = phase, !.ran = 0]
  <1>1. job[w][i] \in Jobs /\ job[w][i].pc = "driving" /\ job[w][i].left >= 0 /\ Holds(w, i)
    BY DEF SInv, PassInv, Begin, InTime, Driving
  <1>2. 0 \in 0 .. StepTimeout
    BY Constants
  <1>3. j \in Jobs
    BY <1>1, <1>2 DEF Jobs, JobRecords, InSlot
  <1>4. j.pc = phase /\ j.left = job[w][i].left /\ j.ran = 0
    BY <1>1 DEF Jobs, JobRecords
  <1>5. job' = [job EXCEPT ![w][i] = j] /\ lock' = lock
    BY <1>1 DEF Begin, SInv, PassInv, Jobs, JobRecords
  <1> HIDE DEF j
  <1>6. job'[w][i] = j
    BY <1>5 DEF SInv, PassInv
  <1>7. job[w][i].left \in Int /\ lock[i].ttl \in Int
    BY <1>1, JobFields DEF SInv, PassInv, Locks
  <1>8. Holds(w, i)'
    BY <1>1, <1>4, <1>5, <1>6, <1>7, Constants DEF Holds, InSlot
  <1>9. PassInv'
    BY <1>3, <1>5, <1>8, JobGoes DEF SInv
  <1>10. RowInv'
    BY DEF SInv, RowInv, Begin
  <1>11. RestInv'
    <2>1. job[w][i].inst.cursor \in Indexes
      BY <1>1, DrivenInst
    <2>2. effect' \in [Instances -> [Indexes -> {"none", "half", "done", "undone"}]]
      BY <2>1, EffectKeeps DEF SInv, Begin
    <2> QED
      BY <2>2 DEF SInv, RestInv, Begin
  <1> QED
    BY <1>9, <1>10, <1>11 DEF SInv

LEMMA StuckKeeps ==
    ASSUME SInv, NEW w \in Workers, NEW i \in Instances, job[w][i].pc \in InSlot, markStuck(w, i)
    PROVE  RowInv' /\ PassInv' /\ faults' \in 0 .. MaxFaults
  <1> DEFINE inst == job[w][i].inst
             x == [inst EXCEPT !.status = "stuck", !.resume = inst.status]
  <1>1. inst \in Driven
    BY DrivenInst DEF InSlot
  <1>2. Persist(w, i, x, 0, FALSE)
    BY DEF markStuck
  <1> HIDE DEF inst
  <1>3. x \in Written
    BY <1>1, StuckWritten
  <1> HIDE DEF x
  <1>4. 0 \in Nat /\ FALSE \in BOOLEAN
    OBVIOUS
  <1> QED
    BY <1>2, <1>3, <1>4, PersistKeeps DEF SInv

LEMMA DriftKeeps == ASSUME SInv, NEW w \in Workers, NEW i \in Instances, drift(w, i) PROVE SInv'
  <1>1. RowInv' /\ PassInv' /\ faults' \in 0 .. MaxFaults
    BY StuckKeeps DEF drift, Driving, InSlot
  <1> QED
    BY <1>1 DEF SInv, RestInv, drift

\* A step back, with or without an Undo to run.
LEMMA BackKeeps ==
    ASSUME SInv, NEW w \in Workers, NEW i \in Instances, job[w][i].pc \in InSlot,
           Persist(w, i, Backward(job[w][i].inst), 0, Backward(job[w][i].inst).status \in Active)
    PROVE  RowInv' /\ PassInv' /\ faults' \in 0 .. MaxFaults
  <1> DEFINE x == Backward(job[w][i].inst)
             more == x.status \in Active
  <1>1. x \in Written /\ (more => x \in Driven)
    BY DrivenInst, BackwardWritten DEF InSlot
  <1>2. Persist(w, i, x, 0, more) /\ more \in BOOLEAN /\ 0 \in Nat
    OBVIOUS
  <1> HIDE DEF x, more
  <1> QED
    BY <1>1, <1>2, PersistKeeps DEF SInv

LEMMA SkipUndoKeeps == ASSUME SInv, NEW w \in Workers, NEW i \in Instances, skipUndo(w, i) PROVE SInv'
  <1>1. RowInv' /\ PassInv' /\ faults' \in 0 .. MaxFaults
    BY BackKeeps DEF skipUndo, InTime, Driving, InSlot
  <1> QED
    BY <1>1 DEF SInv, RestInv, skipUndo

LEMMA UndidStepKeeps == ASSUME SInv, NEW w \in Workers, NEW i \in Instances, undidStep(w, i) PROVE SInv'
  <1>1. RowInv' /\ PassInv' /\ faults' \in 0 .. MaxFaults
    BY BackKeeps DEF undidStep, InSlot
  <1>2. job[w][i].inst.cursor \in Indexes
    BY DrivenInst DEF undidStep
  <1>3. effect' \in [Instances -> [Indexes -> {"none", "half", "done", "undone"}]]
    BY <1>2, EffectKeeps DEF SInv, undidStep
  <1> QED
    BY <1>1, <1>3 DEF SInv, RestInv, undidStep

LEMMA DidStepKeeps == ASSUME SInv, NEW w \in Workers, NEW i \in Instances, didStep(w, i) PROVE SInv'
  <1> DEFINE x == Forward(job[w][i].inst)
             delay == IF x.status = "completed" THEN 0 ELSE Delay[x.cursor]
             more == x.status \in Active /\ delay = 0
  <1>1. job[w][i].pc = "doing" /\ Persist(w, i, x, delay, more)
    BY DEF didStep
  <1>2. job[w][i].inst \in Driven /\ job[w][i].inst.cursor \in Indexes
    BY <1>1, DrivenInst
  <1>3. x \in Written /\ (more => x \in Driven) /\ (x.status # "completed" => x.cursor \in Indexes)
    BY <1>2, ForwardWritten
  <1> HIDE DEF x
  <1>4. delay \in Nat /\ more \in BOOLEAN
    BY <1>3, Constants
  <1> HIDE DEF delay, more
  <1>5. RowInv' /\ PassInv' /\ faults' \in 0 .. MaxFaults
    BY <1>1, <1>3, <1>4, PersistKeeps DEF SInv, InSlot
  <1>6. effect' \in [Instances -> [Indexes -> {"none", "half", "done", "undone"}]]
    BY <1>2, EffectKeeps DEF SInv, didStep
  <1> QED
    BY <1>5, <1>6 DEF SInv, RestInv, didStep

LEMMA RetryKeeps ==
    ASSUME SInv, NEW w \in Workers, NEW i \in Instances, reschedule(w, i, Attempts(job[w][i].inst))
    PROVE  RowInv' /\ PassInv' /\ faults' \in 0 .. MaxFaults
  <1>1. job[w][i].inst \in Records
    BY JobFields DEF SInv, PassInv
  <1>2. Attempts(job[w][i].inst) \in 0 .. Cap
    BY <1>1, Budgets
  <1> QED
    BY <1>2, RescheduleKeeps DEF SInv

LEMMA FailForwardKeeps ==
    ASSUME SInv, NEW w \in Workers, NEW i \in Instances, NEW u \in BOOLEAN, failForward(w, i, u)
    PROVE  SInv'
  <1> DEFINE x == Compensating(job[w][i].inst)
  <1>1. job[w][i].pc = "doing" /\ (Persist(w, i, x, 0, TRUE) \/ reschedule(w, i, Attempts(job[w][i].inst)))
    BY DEF failForward
  <1>2. x \in Written /\ x \in Driven
    BY <1>1, DrivenInst, CompensatingWritten
  <1> HIDE DEF x
  <1>3. RowInv' /\ PassInv' /\ faults' \in 0 .. MaxFaults
    <2>1. CASE Persist(w, i, x, 0, TRUE)
      BY <1>1, <1>2, <2>1, PersistKeeps DEF SInv, InSlot
    <2>2. CASE reschedule(w, i, Attempts(job[w][i].inst))
      BY <2>2, RetryKeeps
    <2> QED
      BY <1>1, <2>1, <2>2
  <1> QED
    BY <1>3 DEF SInv, RestInv, failForward

LEMMA UndoFailedKeeps ==
    ASSUME SInv, NEW w \in Workers, NEW i \in Instances, NEW u \in BOOLEAN, undoFailed(w, i, u)
    PROVE  SInv'
  <1>1. job[w][i].pc = "undoing" /\ (markStuck(w, i) \/ reschedule(w, i, Attempts(job[w][i].inst)))
    BY DEF undoFailed
  <1>2. RowInv' /\ PassInv' /\ faults' \in 0 .. MaxFaults
    BY <1>1, StuckKeeps, RetryKeeps DEF InSlot
  <1> QED
    BY <1>2 DEF SInv, RestInv, undoFailed

\* Time passes only while steps run within their timeout, so a lock that a
\* worker counts on has the time for the unit that goes.
LEMMA TickKeeps == ASSUME SInv, Tick PROVE SInv'
  <1>1. RowInv'
    <2>1. ASSUME NEW i \in Instances
          PROVE  [row[i] EXCEPT !.due = Down(@), !.lease = Down(@)] \in Rows
      <3>1. row[i] \in Rows /\ row[i].due \in Nat /\ row[i].lease \in 0 .. LeaseDuration
        BY DEF SInv, RowInv, Rows
      <3>2. Down(row[i].due) \in Nat /\ Down(row[i].lease) \in 0 .. LeaseDuration
        BY <3>1, Constants DEF Down
      <3> QED
        BY <3>1, <3>2, RowCounted
    <2> QED
      BY <2>1 DEF RowInv, Tick
  <1> DEFINE L(i) == IF lock[i].ttl <= 1 THEN Free ELSE [lock[i] EXCEPT !.ttl = @ - 1]
             left(w, i) == IF job[w][i].left >= 0 THEN job[w][i].left - 1 ELSE job[w][i].left
             ran(w, i) == IF job[w][i].pc \in {"doing", "undoing"} THEN job[w][i].ran + 1 ELSE 0
             J(w, i) == [job[w][i] EXCEPT !.left = left(w, i), !.ran = ran(w, i)]
  <1>2. lock' = [i \in Instances |-> L(i)] /\ job' = [w \in Workers |-> [i \in Instances |-> J(w, i)]]
    BY DEF Tick
  <1>3. ASSUME NEW i \in Instances
        PROVE  /\ L(i) \in Locks
               /\ lock[i].ttl > 1 => L(i).by = lock[i].by /\ L(i).ttl = lock[i].ttl - 1
    <2>1. lock[i] \in Locks /\ lock[i].ttl \in 0 .. LockTTL
      BY DEF SInv, PassInv, Locks
    <2> QED
      BY <2>1, Blanks, Constants DEF Locks
  <1>4. ASSUME NEW w \in Workers, NEW i \in Instances
        PROVE  /\ J(w, i) \in Jobs /\ J(w, i).pc = job[w][i].pc
               /\ J(w, i).left = left(w, i) /\ J(w, i).ran = ran(w, i)
    <2>1. job[w][i] \in Jobs
      BY DEF SInv, PassInv
    <2>2. Waiting(w, i)
      BY DEF Tick
    <2>3. left(w, i) \in -1 .. AdvanceTimeout
      BY <2>1, JobFields, Constants
    <2>4. ran(w, i) \in 0 .. StepTimeout
      BY <2>1, <2>2, JobFields, Constants DEF Waiting, WithinTimeout
    <2> HIDE DEF left, ran
    <2> QED
      BY <2>1, <2>3, <2>4 DEF Jobs, JobRecords
  <1>5. ASSUME NEW w \in Workers, NEW i \in Instances PROVE Holds(w, i)'
    <2>1. lock'[i] = L(i) /\ job'[w][i] = J(w, i)
      BY <1>2
    <2>2. SUFFICES ASSUME job[w][i].pc \in InSlot
                   PROVE  /\ L(i).by = w
                          /\ left(w, i) >= 0 => L(i).ttl >= left(w, i) + StepTimeout + 1
                          /\ L(i).ttl >= StepTimeout + 1 - ran(w, i)
      <3> HIDE DEF L, J, left, ran
      <3> QED
        BY <1>4, <2>1 DEF Holds
    <2>3. job[w][i].pc \in {"doing", "undoing"} /\ job[w][i].ran < StepTimeout
      BY <2>2 DEF Tick, Waiting, WithinTimeout, InSlot
    <2>4. /\ lock[i].by = w
          /\ job[w][i].left >= 0 => lock[i].ttl >= job[w][i].left + StepTimeout + 1
          /\ lock[i].ttl >= StepTimeout + 1 - job[w][i].ran
      BY <2>2, <2>3 DEF SInv, PassInv, Holds
    <2>5. lock[i].ttl \in Int /\ job[w][i].left \in Int /\ job[w][i].ran \in Int
      BY JobFields DEF SInv, PassInv, Locks
    <2>6. L(i).by = w /\ L(i).ttl = lock[i].ttl - 1
      <3> HIDE DEF L
      <3> QED
        BY <2>3, <2>4, <2>5, <1>3, Constants
    <2> HIDE DEF L
    <2> QED
      BY <2>3, <2>4, <2>5, <2>6, Constants
  <1>6. PassInv'
    <2> HIDE DEF L, J
    <2>1. lock' \in [Instances -> Locks] /\ job' \in [Workers -> [Instances -> Jobs]]
      BY <1>2, <1>3, <1>4
    <2> QED
      BY <1>5, <2>1 DEF PassInv
  <1>7. RestInv'
    BY DEF SInv, RestInv, Tick
  <1> QED
    BY <1>1, <1>6, <1>7 DEF SInv

-----------------------------------------------------------------------------
(* The theorems.                                                           *)

LEMMA PassKeeps == ASSUME SInv, NEW w \in Workers, NEW i \in Instances, Pass(w, i) PROVE SInv'
  <1>1. beginDo(w, i) \/ beginUndo(w, i) => SInv'
    BY BeginKeeps DEF beginDo, beginUndo
  <1> QED
    BY <1>1, AdvanceKeeps, ContendedKeeps, LockFailsKeeps, DriftKeeps, OutOfTimeKeeps, SkipUndoKeeps DEF Pass

LEMMA ReturnsKeeps == ASSUME SInv, NEW w \in Workers, NEW i \in Instances, Returns(w, i) PROVE SInv'
  BY DidStepKeeps, UndidStepKeeps, FailForwardKeeps, UndoFailedKeeps DEF Returns

LEMMA StepKeeps == SInv /\ [Next]_vars => SInv'
  <1> SUFFICES ASSUME SInv, [Next]_vars PROVE SInv'
    OBVIOUS
  <1>1. ASSUME NEW i \in Instances, Start(i) \/ Prune(i) PROVE SInv'
    BY <1>1, StartKeeps, PruneKeeps
  <1>2. ASSUME NEW o \in Operators, Requeue(o) \/ \E i \in Instances : Resume(o, i) PROVE SInv'
    BY <1>2, RequeueKeeps, ResumeKeeps
  <1>3. ASSUME NEW w \in Workers, NEW batch \in Batches, Claim(w, batch) \/ ClaimLost(w, batch) PROVE SInv'
    BY <1>3, ClaimKeeps, ClaimLostKeeps
  <1>4. ASSUME NEW w \in Workers, NEW i \in Instances, Pass(w, i) \/ Returns(w, i) PROVE SInv'
    BY <1>4, PassKeeps, ReturnsKeeps
  <1>5. ASSUME NEW w \in Workers, Crash(w) PROVE SInv'
    BY <1>5, CrashKeeps
  <1>6. CASE Tick
    BY <1>6, TickKeeps
  <1>7. CASE UNCHANGED vars
    BY <1>7, PassUnchanged DEF SInv, RowInv, RestInv, vars
  <1> QED
    BY <1>1, <1>2, <1>3, <1>4, <1>5, <1>6, <1>7 DEF Next

LEMMA SInvariant == Spec => []SInv
  BY Begins, StepKeeps, PTL DEF Spec

\* The rows, the locks and the jobs keep their types: no step outlives its
\* timeout, no pass its own, and a saga under way is always at one of its steps.
THEOREM SagaTypes == Spec => []STypeOK
  <1>1. SInv => STypeOK
    <2> SUFFICES ASSUME SInv PROVE STypeOK
      OBVIOUS
    <2>1. row \in [Instances -> [status: Statuses, cursor: -1 .. Steps, attempts: 0 .. Cap,
                                 resume: {""} \cup Active, due: Nat, lease: 0 .. LeaseDuration]]
      BY DEF SInv, RowInv, Rows
    <2>2. job \in [Workers -> [Instances -> JobRecords]]
      BY DEF SInv, PassInv, Jobs
    <2>3. lock \in [Instances -> Locks]
      BY DEF SInv, PassInv
    <2> QED
      BY <2>1, <2>2, <2>3 DEF SInv, RestInv, STypeOK, JobRecords, Locks
  <1> QED
    BY <1>1, SInvariant, PTL

\* Two workers are never inside one saga's steps, whatever crashed and however
\* many leases lapsed: the lock outlasts the pass that took it, because LockTTL
\* exceeds AdvanceTimeout and StepTimeout together.
THEOREM DrivesAlone == Spec => []OneDriver
  <1>1. SInv => OneDriver
    BY DEF SInv, PassInv, Holds, OneDriver
  <1> QED
    BY <1>1, SInvariant, PTL

-----------------------------------------------------------------------------
(* A deployment with a slot for every instance it claims, and Resume calls *)
(* that do not overlap.  No record waits for a slot there, so the record a *)
(* pass drives is the row's, and the row stays its worker's.               *)

EnoughSlots == BatchSize <= Concurrency
OneOperator == \A o, p \in Operators : o = p

\* What the outside world has seen of the steps, in each phase.
Stands(phase, at, e) ==
    /\ phase = "none" => at = 0 /\ \A s \in Indexes : e[s] = "none"
    /\ phase = "running" => \A s \in Indexes : (s < at => e[s] = "done") /\ (s > at => e[s] = "none")
    /\ phase = "compensating" => \A s \in Undoable : s > at => e[s] \in {"none", "undone"}
    /\ phase = "completed" => \A s \in Indexes : e[s] = "done"
    /\ phase = "compensated" => \A s \in Undoable : e[s] \in {"none", "undone"}

\* A stuck saga stands where the phase it left stood.
StandsAt(i) ==
    /\ row[i].status # "stuck" => Stands(row[i].status, row[i].cursor, effect[i])
    /\ row[i].status = "stuck" => Stands(row[i].resume, row[i].cursor, effect[i])

\* A job's record is the row's, nobody else has one, and the lease runs for as
\* long as the lock.
FreshAt(w, i) ==
    job[w][i].pc # "none" =>
        /\ row[i].status = job[w][i].inst.status /\ row[i].cursor = job[w][i].inst.cursor
        /\ \A v \in Workers \ {w} : job[v][i].pc = "none"
        /\ row[i].lease >= 1
        /\ job[w][i].pc = "queued" => row[i].lease = LeaseDuration
        /\ job[w][i].pc = "doing" => row[i].status = "running"
        /\ job[w][i].pc = "undoing" => row[i].status = "compensating"
        /\ job[w][i].pc \in InSlot /\ job[w][i].left >= 0 =>
              row[i].lease >= job[w][i].left + StepTimeout + 1
        /\ job[w][i].pc \in {"doing", "undoing"} => row[i].lease >= StepTimeout + 1 - job[w][i].ran

\* A Resume call that has read a phase will find the saga as it read it.
ClickAt(o) ==
    click[o] # NoClick =>
        row[click[o].inst].status = "stuck" /\ row[click[o].inst].resume = click[o].to

Busy(w) == {i \in Instances : job[w][i].pc # "none"}

StandInv == \A i \in Instances : StandsAt(i)
FreshInv == \A w \in Workers, i \in Instances : FreshAt(w, i)
ClickInv == \A o \in Operators : ClickAt(o)
CountInv == \A w \in Workers : Cardinality(Busy(w)) <= BatchSize

OInv == SInv /\ StandInv /\ FreshInv /\ ClickInv /\ CountInv

-----------------------------------------------------------------------------
(* The phases and what has been seen of the steps.                         *)

Seen == [Indexes -> {"none", "half", "done", "undone"}]

LEMMA Undos == Undoable \subseteq Indexes
  BY SagaAssumption

\* Nothing is said of the step at the cursor.
LEMMA StandsBegun ==
    ASSUME NEW at \in Indexes, NEW phase \in Active, NEW e, Stands(phase, at, e),
           NEW f, \A s \in Indexes \ {at} : f[s] = e[s]
    PROVE  Stands(phase, at, f)
  BY FirstStep, Undos DEF Stands, Active

LEMMA StandsForward ==
    ASSUME NEW x \in Driven, x.status = "running", NEW e \in Seen, Stands("running", x.cursor, e),
           e[x.cursor] = "done"
    PROVE  Stands(Forward(x).status, Forward(x).cursor, e) /\ Forward(x).status # "stuck"
  <1> DEFINE at == x.cursor
             st == IF at + 1 >= Steps THEN "completed" ELSE "running"
  <1>1. x \in Records /\ at \in Indexes
    BY DEF Driven
  <1>2. Forward(x).status = st /\ Forward(x).cursor = at + 1
    BY <1>1 DEF Forward, Records
  <1>3. ASSUME NEW s \in Indexes
        PROVE  (s < at + 1 => e[s] = "done") /\ (s > at + 1 => e[s] = "none")
    <2>1. s \in Int /\ at \in Int
      BY <1>1, FirstStep
    <2>2. (s < at => e[s] = "done") /\ (s > at => e[s] = "none") /\ (s = at => e[s] = "done")
      BY DEF Stands
    <2> HIDE DEF at
    <2> QED
      BY <2>1, <2>2
  <1>4. at + 1 >= Steps => \A s \in Indexes : e[s] = "done"
    BY <1>1, <1>3, Constants DEF Indexes
  <1> HIDE DEF at
  <1>5. Stands(st, at + 1, e)
    BY <1>3, <1>4 DEF Stands
  <1> QED
    BY <1>2, <1>5

LEMMA StandsBackward ==
    ASSUME NEW x \in Driven, x.status = "compensating", NEW e \in Seen, Stands("compensating", x.cursor, e),
           x.cursor \in Undoable => e[x.cursor] = "undone"
    PROVE  Stands(Backward(x).status, Backward(x).cursor, e) /\ Backward(x).status # "stuck"
  <1> DEFINE at == x.cursor
             st == IF at - 1 < 0 THEN "compensated" ELSE "compensating"
  <1>1. x \in Records /\ at \in Indexes
    BY DEF Driven
  <1>2. Backward(x).status = st /\ Backward(x).cursor = at - 1
    BY <1>1 DEF Backward, Records
  <1>3. ASSUME NEW s \in Undoable, s > at - 1 PROVE e[s] \in {"none", "undone"}
    <2>1. s \in Int /\ at \in Int
      BY <1>1, FirstStep, Undos
    <2>2. (s > at => e[s] \in {"none", "undone"}) /\ (s = at => e[s] = "undone")
      BY DEF Stands
    <2> HIDE DEF at
    <2> QED
      BY <1>3, <2>1, <2>2
  <1>4. at - 1 < 0 => \A s \in Undoable : e[s] \in {"none", "undone"}
    BY <1>1, <1>3, Undos DEF Indexes
  <1> HIDE DEF at
  <1>5. Stands(st, at - 1, e)
    BY <1>3, <1>4 DEF Stands
  <1> QED
    BY <1>2, <1>5

LEMMA StandsCompensating ==
    ASSUME NEW x \in Driven, NEW e \in Seen, x.status = "running", Stands("running", x.cursor, e)
    PROVE  /\ Stands(Compensating(x).status, Compensating(x).cursor, e)
           /\ Compensating(x).status = "compensating" /\ Compensating(x).cursor = x.cursor
  <1>1. x \in Records
    BY DEF Driven
  <1>2. Compensating(x).status = "compensating" /\ Compensating(x).cursor = x.cursor
    BY <1>1 DEF Compensating, Records
  <1>3. Stands("compensating", x.cursor, e)
    BY Undos DEF Stands
  <1> QED
    BY <1>2, <1>3

-----------------------------------------------------------------------------
(* A record that has a slot waiting for it is not left to wait.            *)

LEMMA SlotAtOnce ==
    ASSUME OInv, EnoughSlots, NEW w \in Workers, NEW i \in Instances, job[w][i].pc = "queued"
    PROVE  SlotFree(w)
  <1> DEFINE S == {k \in Instances : job[w][k].pc \in InSlot}
             B == Busy(w)
  <1>1. S \subseteq B \ {i} /\ i \in B /\ B \subseteq Instances
    BY DEF InSlot, Busy
  <1>2. IsFiniteSet(B)
    BY <1>1, SagaAssumption, FS_Subset
  <1>3. Cardinality(B) <= BatchSize
    BY DEF OInv, CountInv
  <1> HIDE DEF S, B
  <1>4. IsFiniteSet(B \ {i}) /\ Cardinality(B \ {i}) = Cardinality(B) - 1
    BY <1>1, <1>2, FS_RemoveElement
  <1>5. IsFiniteSet(S) /\ Cardinality(S) <= Cardinality(B \ {i})
    BY <1>1, <1>4, FS_Subset
  <1>6. Cardinality(S) \in Nat /\ Cardinality(B) \in Nat /\ BatchSize \in Nat /\ Concurrency \in Nat
    BY <1>2, <1>5, FS_CardinalityType, SagaAssumption
  <1>7. Cardinality(S) < Concurrency
    BY <1>3, <1>4, <1>5, <1>6 DEF EnoughSlots
  <1> QED
    BY <1>7 DEF S, SlotFree

\* A worker's jobs only become fewer between its claims.
LEMMA CountKeeps ==
    ASSUME CountInv, \A w \in Workers : Busy(w)' \subseteq Busy(w)
    PROVE  CountInv'
  <1> SUFFICES ASSUME NEW w \in Workers PROVE Cardinality(Busy(w)') <= BatchSize
    BY DEF CountInv
  <1> DEFINE B == Busy(w)
             C == Busy(w)'
  <1>1. IsFiniteSet(B)
    <2>1. B \subseteq Instances
      BY DEF Busy
    <2> QED
      BY <2>1, SagaAssumption, FS_Subset
  <1>2. C \subseteq B /\ Cardinality(B) <= BatchSize
    BY DEF CountInv
  <1> HIDE DEF B, C
  <1>3. Cardinality(C) <= Cardinality(B) /\ Cardinality(C) \in Nat /\ Cardinality(B) \in Nat
    BY <1>1, <1>2, FS_Subset, FS_CardinalityType
  <1>4. Cardinality(C) <= BatchSize
    BY <1>2, <1>3, SagaAssumption
  <1> QED
    BY <1>4 DEF C

-----------------------------------------------------------------------------
(* A worker's step on one of its jobs.                                     *)

\* Only this job and this instance change.
Only(w, i) ==
    /\ \A k \in Instances \ {i} : row'[k] = row[k] /\ effect'[k] = effect[k]
    /\ \A v \in Workers, k \in Instances : <<v, k>> # <<w, i>> => job'[v][k] = job[v][k]
    /\ click' = click

LEMMA JobStep ==
    ASSUME OInv, SInv', NEW w \in Workers, NEW i \in Instances, job[w][i].pc # "none",
           Only(w, i), FreshAt(w, i)', StandsAt(i)'
    PROVE  OInv'
  <1>1. job[w][i].inst \in Driven /\ FreshAt(w, i)
    BY DrivenInst DEF OInv, FreshInv
  <1>2. row[i].status \in Active /\ \A v \in Workers \ {w} : job[v][i].pc = "none"
    BY <1>1 DEF FreshAt, Driven
  <1>3. StandInv'
    <2>1. ASSUME NEW k \in Instances, k # i PROVE StandsAt(k)'
      BY <2>1 DEF OInv, StandInv, StandsAt, Only
    <2> QED
      BY <2>1 DEF StandInv
  <1>4. FreshInv'
    <2>1. ASSUME NEW v \in Workers, NEW k \in Instances, k # i PROVE FreshAt(v, k)'
      <3>1. row'[k] = row[k] /\ \A u \in Workers : job'[u][k] = job[u][k]
        BY <2>1 DEF Only
      <3>2. FreshAt(v, k)
        BY DEF OInv, FreshInv
      <3> QED
        BY <3>1, <3>2 DEF FreshAt
    <2>2. ASSUME NEW v \in Workers, v # w PROVE FreshAt(v, i)'
      BY <1>2, <2>2 DEF FreshAt, Only
    <2> QED
      BY <2>1, <2>2 DEF FreshInv
  <1>5. ClickInv'
    <2>1. ASSUME NEW o \in Operators, click[o] # NoClick PROVE row'[click[o].inst] = row[click[o].inst]
      <3>1. click[o].inst \in Instances
        BY <2>1 DEF OInv, SInv, RestInv
      <3>2. click[o].inst # i
        BY <1>2, <2>1 DEF OInv, ClickInv, ClickAt, Active
      <3> QED
        BY <3>1, <3>2 DEF Only
    <2> QED
      BY <2>1 DEF OInv, ClickInv, ClickAt, Only
  <1>6. CountInv'
    <2>1. ASSUME NEW v \in Workers PROVE Busy(v)' \subseteq Busy(v)
      BY DEF Only, Busy
    <2> QED
      BY <2>1, CountKeeps DEF OInv
  <1> QED
    BY <1>3, <1>4, <1>5, <1>6 DEF OInv

\* The job ends, and the row stands as it stood.
LEMMA JobOver ==
    ASSUME OInv, SInv', NEW w \in Workers, NEW i \in Instances, job[w][i].pc # "none",
           EndJob(w, i), click' = click, effect' = effect,
           \A k \in Instances \ {i} : row'[k] = row[k],
           row'[i].status = row[i].status, row'[i].cursor = row[i].cursor, row'[i].resume = row[i].resume
    PROVE  OInv'
  <1>1. /\ \A v \in Workers, k \in Instances : <<v, k>> # <<w, i>> => job'[v][k] = job[v][k]
        /\ job'[w][i] = NoJob
    BY DEF EndJob, OInv, SInv, PassInv
  <1>2. Only(w, i)
    BY <1>1 DEF Only
  <1>3. FreshAt(w, i)'
    BY <1>1, Blanks DEF FreshAt
  <1>4. StandsAt(i)'
    BY DEF OInv, StandInv, StandsAt
  <1> QED
    BY <1>2, <1>3, <1>4, JobStep

\* What a Release and a reschedule leave of the row.
LEMMA ReleaseLeaves ==
    ASSUME SInv, NEW i \in Instances, Release(i)
    PROVE  /\ \A k \in Instances \ {i} : row'[k] = row[k]
           /\ row'[i].status = row[i].status /\ row'[i].cursor = row[i].cursor /\ row'[i].resume = row[i].resume
  <1> DEFINE r == [row[i] EXCEPT !.lease = 0]
  <1>1. row \in [Instances -> Rows] /\ row[i] \in Rows
    BY DEF SInv, RowInv
  <1>2. row' = row \/ row' = [row EXCEPT ![i] = r]
    BY DEF Release
  <1>3. r.status = row[i].status /\ r.cursor = row[i].cursor /\ r.resume = row[i].resume
    BY <1>1 DEF Rows
  <1> HIDE DEF r
  <1> QED
    BY <1>1, <1>2, <1>3

LEMMA RescheduleLeaves ==
    ASSUME SInv, NEW w \in Workers, NEW i \in Instances, NEW n, reschedule(w, i, n)
    PROVE  /\ \A k \in Instances \ {i} : row'[k] = row[k]
           /\ row'[i].status = row[i].status /\ row'[i].cursor = row[i].cursor /\ row'[i].resume = row[i].resume
  <1> DEFINE r == [row[i] EXCEPT !.attempts = n, !.due = RetryDelay, !.lease = 0]
  <1>1. row \in [Instances -> Rows] /\ row[i] \in Rows
    BY DEF SInv, RowInv
  <1>2. row' = row \/ row' = [row EXCEPT ![i] = r]
    BY DEF reschedule, Rescheduled
  <1>3. r.status = row[i].status /\ r.cursor = row[i].cursor /\ r.resume = row[i].resume
    BY <1>1 DEF Rows
  <1> HIDE DEF r
  <1> QED
    BY <1>1, <1>2, <1>3

\* What a persisted transition leaves of the row.
LEMMA AdvancedLeaves ==
    ASSUME SInv, NEW i \in Instances, NEW x \in Written, NEW due \in Nat, row' = Advanced(i, x, due)
    PROVE  /\ \A k \in Instances \ {i} : row'[k] = row[k]
           /\ row'[i].status = x.status /\ row'[i].cursor = x.cursor /\ row'[i].resume = x.resume
           /\ x.status \in Active /\ due = 0 => row'[i].lease = row[i].lease
  <1> DEFINE lease == IF x.status \in Terminal \/ due > 0 THEN 0 ELSE row[i].lease
             r == [row[i] EXCEPT !.status = x.status, !.cursor = x.cursor, !.resume = x.resume,
                                 !.attempts = 0, !.due = due, !.lease = lease]
  <1>1. row[i] \in Rows
    BY DEF SInv, RowInv
  <1>2. row' = [row EXCEPT ![i] = r]
    BY <1>1 DEF Advanced, Rows, SInv, RowInv
  <1>3. x.status \in Active /\ due = 0 => lease = row[i].lease
    BY DEF Active, Terminal
  <1> HIDE DEF lease
  <1>4. r.status = x.status /\ r.cursor = x.cursor /\ r.resume = x.resume /\ r.lease = lease
    BY <1>1 DEF Rows
  <1> HIDE DEF r
  <1>5. row'[i] = r /\ \A k \in Instances \ {i} : row'[k] = row[k]
    BY <1>2 DEF SInv, RowInv
  <1> QED
    BY <1>3, <1>4, <1>5

LEMMA PersistStep ==
    ASSUME OInv, SInv', NEW w \in Workers, NEW i \in Instances, job[w][i].pc \in InSlot,
           NEW x \in Written, NEW due \in Nat, NEW more \in BOOLEAN,
           more => x.status \in Active /\ due = 0,
           Persist(w, i, x, due, more),
           click' = click, \A k \in Instances \ {i} : effect'[k] = effect[k],
           x.status # "stuck" => Stands(x.status, x.cursor, effect'[i]),
           x.status = "stuck" => Stands(x.resume, x.cursor, effect'[i]),
           Stands(row[i].status, row[i].cursor, effect'[i])
    PROVE  OInv'
  <1>1. job[w][i].pc # "none" /\ FreshAt(w, i) /\ job[w][i] \in Jobs
    BY DEF InSlot, OInv, FreshInv, SInv, PassInv
  <1>2. job[w][i].inst \in Driven /\ row[i].status = job[w][i].inst.status
    BY <1>1, DrivenInst DEF FreshAt, OInv
  <1>3. row[i].status \in Active /\ row[i].status # "stuck"
    BY <1>2 DEF Driven, Active
  <1>4. \/ row' = row /\ EndPass(w, i)
        \/ row' = Advanced(i, x, due) /\ EndPass(w, i)
        \/ /\ row' = Advanced(i, x, due) /\ more
           /\ job' = [job EXCEPT ![w][i] = [@ EXCEPT !.pc = "driving", !.inst = x, !.ran = 0]]
    BY <1>3 DEF Persist, persist, persistFails
  <1>5. /\ \A k \in Instances \ {i} : row'[k] = row[k]
        /\ row' # row => /\ row'[i].status = x.status /\ row'[i].cursor = x.cursor
                         /\ row'[i].resume = x.resume
                         /\ more => row'[i].lease = row[i].lease
    <2>1. CASE row' = row
      BY <2>1
    <2>2. CASE row' = Advanced(i, x, due)
      BY <2>2, AdvancedLeaves DEF OInv
    <2> QED
      BY <1>4, <2>1, <2>2
  <1>6. StandsAt(i)'
    <2>1. CASE row' = row
      BY <1>3, <2>1 DEF StandsAt
    <2>2. CASE row' # row
      BY <1>5, <2>2 DEF StandsAt
    <2> QED
      BY <2>1, <2>2
  <1>7. CASE EndPass(w, i)
    <2>1. /\ \A v \in Workers, k \in Instances : <<v, k>> # <<w, i>> => job'[v][k] = job[v][k]
          /\ job'[w][i] = NoJob
      BY <1>7 DEF EndPass, EndJob, OInv, SInv, PassInv
    <2>2. Only(w, i)
      BY <1>5, <2>1 DEF Only
    <2>3. FreshAt(w, i)'
      BY <2>1, Blanks DEF FreshAt
    <2> QED
      BY <1>1, <1>6, <2>2, <2>3, JobStep
  <1>8. CASE /\ row' = Advanced(i, x, due) /\ more
             /\ job' = [job EXCEPT ![w][i] = [@ EXCEPT !.pc = "driving", !.inst = x, !.ran = 0]]
    <2> DEFINE j == [job[w][i] EXCEPT !.pc = "driving", !.inst = x, !.ran = 0]
    <2>1. j.pc = "driving" /\ j.left = job[w][i].left /\ j.inst = x
      BY <1>1 DEF Jobs, JobRecords
    <2>2. job' = [job EXCEPT ![w][i] = j]
      BY <1>8
    <2> HIDE DEF j
    <2>3. /\ \A v \in Workers, k \in Instances : <<v, k>> # <<w, i>> => job'[v][k] = job[v][k]
          /\ job'[w][i] = j
      BY <2>2 DEF OInv, SInv, PassInv
    <2>4. row'[i].status = x.status /\ row'[i].cursor = x.cursor /\ row'[i].lease = row[i].lease
      BY <1>8, AdvancedLeaves DEF OInv
    <2>5. FreshAt(w, i)'
      BY <1>1, <2>1, <2>3, <2>4 DEF FreshAt, InSlot
    <2>6. Only(w, i)
      BY <1>5, <2>3 DEF Only
    <2> QED
      BY <1>1, <1>6, <2>5, <2>6, JobStep
  <1> QED
    BY <1>4, <1>7, <1>8

\* The record of a job inside a step, beside the row it came from.
LEMMA JobStands ==
    ASSUME OInv, NEW w \in Workers, NEW i \in Instances, job[w][i].pc # "none"
    PROVE  /\ job[w][i].inst \in Driven
           /\ row[i].status = job[w][i].inst.status /\ row[i].cursor = job[w][i].inst.cursor
           /\ row[i].status \in Active /\ row[i].cursor \in Indexes
           /\ Stands(row[i].status, row[i].cursor, effect[i])
           /\ effect[i] \in Seen
  <1>1. job[w][i].inst \in Driven
    BY DrivenInst DEF OInv
  <1>2. row[i].status = job[w][i].inst.status /\ row[i].cursor = job[w][i].inst.cursor
    BY DEF OInv, FreshInv, FreshAt
  <1>3. row[i].status \in Active /\ row[i].cursor \in Indexes
    BY <1>1, <1>2 DEF Driven
  <1>4. Stands(row[i].status, row[i].cursor, effect[i])
    BY <1>3 DEF OInv, StandInv, StandsAt, Active
  <1>5. effect[i] \in Seen
    BY DEF OInv, SInv, RestInv, Seen
  <1> QED
    BY <1>1, <1>2, <1>3, <1>4, <1>5

-----------------------------------------------------------------------------
(* Every step of such a deployment keeps the stronger invariant.           *)

LEMMA AdvanceFresh == ASSUME OInv, SInv', NEW w \in Workers, NEW i \in Instances, advance(w, i) PROVE OInv'
  <1> DEFINE j == [job[w][i] EXCEPT !.pc = "driving", !.left = AdvanceTimeout]
  <1>1. job[w][i] \in Jobs /\ job[w][i].pc = "queued" /\ FreshAt(w, i)
    BY DEF OInv, SInv, PassInv, advance, FreshInv
  <1>2. j.pc = "driving" /\ j.left = AdvanceTimeout /\ j.inst = job[w][i].inst
    BY <1>1 DEF Jobs, JobRecords
  <1>3. job' = [job EXCEPT ![w][i] = j] /\ row' = row /\ effect' = effect /\ click' = click
    <2>1. job \in [Workers -> [Instances -> JobRecords]]
      BY DEF OInv, SInv, PassInv, Jobs
    <2>2. job' = [job EXCEPT ![w][i] = j]
      BY <2>1 DEF advance, JobRecords
    <2> QED
      BY <2>2 DEF advance
  <1> HIDE DEF j
  <1>4. /\ \A v \in Workers, k \in Instances : <<v, k>> # <<w, i>> => job'[v][k] = job[v][k]
        /\ job'[w][i] = j
    BY <1>3 DEF OInv, SInv, PassInv
  <1>5. LeaseDuration >= AdvanceTimeout + StepTimeout + 1
    BY SagaAssumption DEF ConfigValid
  <1>6. FreshAt(w, i)'
    BY <1>1, <1>2, <1>3, <1>4, <1>5 DEF FreshAt
  <1>7. StandsAt(i)'
    BY <1>3 DEF OInv, StandInv, StandsAt
  <1>8. Only(w, i)
    BY <1>3, <1>4 DEF Only
  <1> QED
    BY <1>1, <1>6, <1>7, <1>8, JobStep

LEMMA ContendedFresh ==
    ASSUME OInv, SInv', NEW w \in Workers, NEW i \in Instances, contended(w, i)
    PROVE  OInv'
  BY ReleaseLeaves, JobOver DEF contended, OInv

LEMMA LockFailsFresh ==
    ASSUME OInv, SInv', NEW w \in Workers, NEW i \in Instances, lockFails(w, i)
    PROVE  OInv'
  BY JobOver DEF lockFails

LEMMA OutOfTimeFresh ==
    ASSUME OInv, SInv', NEW w \in Workers, NEW i \in Instances, outOfTime(w, i)
    PROVE  OInv'
  BY ReleaseLeaves, JobOver DEF outOfTime, Driving, EndPass, OInv

LEMMA RetryFresh ==
    ASSUME OInv, SInv', NEW w \in Workers, NEW i \in Instances, job[w][i].pc # "none",
           reschedule(w, i, Attempts(job[w][i].inst)), click' = click, effect' = effect
    PROVE  OInv'
  <1>1. EndJob(w, i)
    BY DEF reschedule, EndPass
  <1> QED
    BY <1>1, RescheduleLeaves, JobOver DEF OInv

LEMMA BeginFresh ==
    ASSUME OInv, SInv', NEW w \in Workers, NEW i \in Instances,
           beginDo(w, i) \/ beginUndo(w, i)
    PROVE  OInv'
  <1>1. PICK phase \in {"doing", "undoing"} :
            /\ Begin(w, i, phase)
            /\ phase = "doing" => job[w][i].inst.status = "running"
            /\ phase = "undoing" => job[w][i].inst.status = "compensating"
    BY DEF beginDo, beginUndo
  <1> DEFINE j == [job[w][i] EXCEPT !.pc = phase, !.ran = 0]
             at == job[w][i].inst.cursor
  <1>2. job[w][i] \in Jobs /\ job[w][i].pc = "driving" /\ job[w][i].left >= 0 /\ FreshAt(w, i)
    BY <1>1 DEF OInv, SInv, PassInv, Begin, InTime, Driving, FreshInv
  <1>3. j.pc = phase /\ j.left = job[w][i].left /\ j.inst = job[w][i].inst /\ j.ran = 0
    BY <1>2 DEF Jobs, JobRecords
  <1>4. /\ job' = [job EXCEPT ![w][i] = j] /\ row' = row /\ click' = click
        /\ effect' = [effect EXCEPT ![i][at] = "half"]
    <2>1. job \in [Workers -> [Instances -> JobRecords]]
      BY DEF OInv, SInv, PassInv, Jobs
    <2>2. job' = [job EXCEPT ![w][i] = j]
      BY <1>1, <2>1 DEF Begin, JobRecords
    <2> QED
      BY <1>1, <2>2 DEF Begin
  <1> HIDE DEF j
  <1>5. /\ \A v \in Workers, k \in Instances : <<v, k>> # <<w, i>> => job'[v][k] = job[v][k]
        /\ job'[w][i] = j
    BY <1>4 DEF OInv, SInv, PassInv
  <1>6. job[w][i].left \in Int /\ row[i].lease \in Int
    <2>1. row[i].lease \in 0 .. LeaseDuration
      BY DEF OInv, SInv, RowInv, Rows
    <2>2. job[w][i].left \in -1 .. AdvanceTimeout
      BY <1>2, JobFields
    <2> QED
      BY <2>1, <2>2, Constants
  <1>7. FreshAt(w, i)'
    BY <1>1, <1>2, <1>3, <1>4, <1>5, <1>6, Constants DEF FreshAt, InSlot
  <1>8. /\ at = row[i].cursor /\ at \in Indexes /\ row[i].status \in Active
        /\ Stands(row[i].status, row[i].cursor, effect[i]) /\ effect[i] \in Seen
    BY <1>2, JobStands
  <1> HIDE DEF at
  <1>9. effect'[i] = [effect[i] EXCEPT ![at] = "half"] /\ \A k \in Instances \ {i} : effect'[k] = effect[k]
    BY <1>4 DEF OInv, SInv, RestInv
  <1>10. StandsAt(i)'
    <2>1. \A k \in Indexes \ {at} : effect'[i][k] = effect[i][k]
      BY <1>8, <1>9 DEF Seen
    <2>2. Stands(row[i].status, row[i].cursor, effect'[i])
      BY <1>8, <2>1, StandsBegun
    <2> QED
      BY <1>4, <1>8, <2>2 DEF StandsAt, Active
  <1>11. Only(w, i)
    BY <1>4, <1>5, <1>9 DEF Only
  <1> QED
    BY <1>2, <1>7, <1>10, <1>11, JobStep

LEMMA StuckFresh ==
    ASSUME OInv, SInv', NEW w \in Workers, NEW i \in Instances, job[w][i].pc \in InSlot,
           markStuck(w, i), click' = click, effect' = effect
    PROVE  OInv'
  <1> DEFINE inst == job[w][i].inst
             x == [inst EXCEPT !.status = "stuck", !.resume = inst.status]
  <1>1. /\ inst \in Driven /\ row[i].status = inst.status /\ row[i].cursor = inst.cursor
        /\ Stands(row[i].status, row[i].cursor, effect[i])
    BY JobStands DEF InSlot
  <1>2. Persist(w, i, x, 0, FALSE)
    BY DEF markStuck
  <1> HIDE DEF inst
  <1>3. x \in Written
    BY <1>1, StuckWritten
  <1>4. x.status = "stuck" /\ x.resume = inst.status /\ x.cursor = inst.cursor
    BY <1>1 DEF Driven, Records
  <1> HIDE DEF x
  <1>5. 0 \in Nat /\ FALSE \in BOOLEAN
    OBVIOUS
  <1> QED
    BY <1>1, <1>2, <1>3, <1>4, <1>5, PersistStep

LEMMA DriftFresh == ASSUME OInv, SInv', NEW w \in Workers, NEW i \in Instances, drift(w, i) PROVE OInv'
  BY StuckFresh DEF drift, Driving, InSlot

LEMMA SkipUndoFresh == ASSUME OInv, SInv', NEW w \in Workers, NEW i \in Instances, skipUndo(w, i) PROVE OInv'
  <1> DEFINE inst == job[w][i].inst
             x == Backward(inst)
             more == x.status \in Active
  <1>1. /\ job[w][i].pc \in InSlot /\ inst.status = "compensating" /\ inst.cursor \notin Undoable
        /\ Persist(w, i, x, 0, more) /\ click' = click /\ effect' = effect
    BY DEF skipUndo, InTime, Driving, InSlot
  <1>2. /\ inst \in Driven /\ row[i].status = inst.status /\ row[i].cursor = inst.cursor
        /\ Stands(row[i].status, row[i].cursor, effect[i]) /\ effect[i] \in Seen
    BY <1>1, JobStands DEF InSlot
  <1> HIDE DEF inst
  <1>3. x \in Written /\ Stands(x.status, x.cursor, effect[i]) /\ x.status # "stuck"
    BY <1>1, <1>2, BackwardWritten, StandsBackward
  <1>4. 0 \in Nat /\ more \in BOOLEAN /\ (more => x.status \in Active)
    OBVIOUS
  <1> HIDE DEF x, more
  <1> QED
    BY <1>1, <1>2, <1>3, <1>4, PersistStep

LEMMA UndidStepFresh ==
    ASSUME OInv, SInv', NEW w \in Workers, NEW i \in Instances, undidStep(w, i)
    PROVE  OInv'
  <1> DEFINE inst == job[w][i].inst
             x == Backward(inst)
             more == x.status \in Active
             at == inst.cursor
  <1>1. /\ job[w][i].pc = "undoing" /\ job[w][i].pc \in InSlot
        /\ Persist(w, i, x, 0, more) /\ click' = click
        /\ effect' = [effect EXCEPT ![i][at] = "undone"]
    BY DEF undidStep, InSlot
  <1>2. /\ inst \in Driven /\ row[i].status = inst.status /\ row[i].cursor = at
        /\ row[i].status \in Active /\ at \in Indexes
        /\ Stands(row[i].status, row[i].cursor, effect[i]) /\ effect[i] \in Seen
    BY <1>1, JobStands
  <1>3. inst.status = "compensating"
    BY <1>1, <1>2 DEF OInv, FreshInv, FreshAt
  <1> HIDE DEF at
  <1>4. /\ effect'[i] = [effect[i] EXCEPT ![at] = "undone"] /\ \A k \in Instances \ {i} : effect'[k] = effect[k]
    BY <1>1 DEF OInv, SInv, RestInv
  <1>5. /\ effect'[i] \in Seen /\ effect'[i][at] = "undone"
        /\ \A k \in Indexes \ {at} : effect'[i][k] = effect[i][k]
    BY <1>2, <1>4 DEF Seen
  <1>6. Stands(row[i].status, row[i].cursor, effect'[i])
    BY <1>2, <1>5, StandsBegun
  <1>7. x \in Written /\ Stands(x.status, x.cursor, effect'[i]) /\ x.status # "stuck"
    <2>1. inst.cursor = at
      BY DEF at
    <2> HIDE DEF inst
    <2> QED
      BY <1>2, <1>3, <1>5, <1>6, <2>1, BackwardWritten, StandsBackward
  <1>8. 0 \in Nat /\ more \in BOOLEAN /\ (more => x.status \in Active)
    OBVIOUS
  <1> HIDE DEF x, more, inst
  <1> QED
    BY <1>1, <1>4, <1>6, <1>7, <1>8, PersistStep

LEMMA DidStepFresh == ASSUME OInv, SInv', NEW w \in Workers, NEW i \in Instances, didStep(w, i) PROVE OInv'
  <1> DEFINE inst == job[w][i].inst
             x == Forward(inst)
             delay == IF x.status = "completed" THEN 0 ELSE Delay[x.cursor]
             more == x.status \in Active /\ delay = 0
             at == inst.cursor
  <1>1. /\ job[w][i].pc = "doing" /\ job[w][i].pc \in InSlot
        /\ Persist(w, i, x, delay, more) /\ click' = click
        /\ effect' = [effect EXCEPT ![i][at] = "done"]
    BY DEF didStep, InSlot
  <1>2. /\ inst \in Driven /\ row[i].status = inst.status /\ row[i].cursor = at
        /\ row[i].status \in Active /\ at \in Indexes
        /\ Stands(row[i].status, row[i].cursor, effect[i]) /\ effect[i] \in Seen
    BY <1>1, JobStands
  <1>3. inst.status = "running"
    BY <1>1, <1>2 DEF OInv, FreshInv, FreshAt
  <1>4. x.status # "completed" => x.cursor \in Indexes
    BY <1>2, ForwardWritten
  <1> HIDE DEF at
  <1>5. /\ effect'[i] = [effect[i] EXCEPT ![at] = "done"] /\ \A k \in Instances \ {i} : effect'[k] = effect[k]
    BY <1>1 DEF OInv, SInv, RestInv
  <1>6. /\ effect'[i] \in Seen /\ effect'[i][at] = "done"
        /\ \A k \in Indexes \ {at} : effect'[i][k] = effect[i][k]
    BY <1>2, <1>5 DEF Seen
  <1>7. Stands(row[i].status, row[i].cursor, effect'[i])
    BY <1>2, <1>6, StandsBegun
  <1>8. x \in Written /\ Stands(x.status, x.cursor, effect'[i]) /\ x.status # "stuck"
    <2>1. inst.cursor = at
      BY DEF at
    <2> HIDE DEF inst
    <2> QED
      BY <1>2, <1>3, <1>6, <1>7, <2>1, ForwardWritten, StandsForward
  <1> HIDE DEF x, inst
  <1>9. delay \in Nat /\ more \in BOOLEAN /\ (more => x.status \in Active /\ delay = 0)
    BY <1>4, Constants
  <1> HIDE DEF delay, more
  <1> QED
    BY <1>1, <1>5, <1>7, <1>8, <1>9, PersistStep

LEMMA FailForwardFresh ==
    ASSUME OInv, SInv', NEW w \in Workers, NEW i \in Instances, NEW u \in BOOLEAN, failForward(w, i, u)
    PROVE  OInv'
  <1> DEFINE inst == job[w][i].inst
             x == Compensating(inst)
  <1>1. /\ job[w][i].pc = "doing" /\ job[w][i].pc \in InSlot
        /\ Persist(w, i, x, 0, TRUE) \/ reschedule(w, i, Attempts(inst))
        /\ click' = click /\ effect' = effect
    BY DEF failForward, InSlot
  <1>2. /\ inst \in Driven /\ row[i].status = inst.status /\ row[i].cursor = inst.cursor
        /\ Stands(row[i].status, row[i].cursor, effect[i]) /\ effect[i] \in Seen
    BY <1>1, JobStands
  <1>3. inst.status = "running"
    BY <1>1, <1>2 DEF OInv, FreshInv, FreshAt
  <1>4. CASE reschedule(w, i, Attempts(inst))
    BY <1>1, <1>4, RetryFresh
  <1>5. CASE Persist(w, i, x, 0, TRUE)
    <2> HIDE DEF inst
    <2>1. /\ x \in Written /\ Stands(x.status, x.cursor, effect[i])
          /\ x.status \in Active /\ x.status # "stuck"
      BY <1>2, <1>3, CompensatingWritten, StandsCompensating DEF Active
    <2>2. 0 \in Nat /\ TRUE \in BOOLEAN
      OBVIOUS
    <2> HIDE DEF x
    <2> QED
      BY <1>1, <1>2, <1>5, <2>1, <2>2, PersistStep
  <1> QED
    BY <1>1, <1>4, <1>5

LEMMA UndoFailedFresh ==
    ASSUME OInv, SInv', NEW w \in Workers, NEW i \in Instances, NEW u \in BOOLEAN, undoFailed(w, i, u)
    PROVE  OInv'
  <1>1. /\ job[w][i].pc = "undoing" /\ job[w][i].pc \in InSlot
        /\ markStuck(w, i) \/ reschedule(w, i, Attempts(job[w][i].inst))
        /\ click' = click /\ effect' = effect
    BY DEF undoFailed, InSlot
  <1> QED
    BY <1>1, StuckFresh, RetryFresh

\* Nobody has a job on a saga that is not under way.
LEMMA NoJobs ==
    ASSUME OInv, NEW i \in Instances, row[i].status \notin Active \/ row[i].lease = 0
    PROVE  \A w \in Workers : job[w][i].pc = "none"
  <1> SUFFICES ASSUME NEW w \in Workers, job[w][i].pc # "none" PROVE FALSE
    OBVIOUS
  <1>1. row[i].status \in Active
    BY JobStands
  <1>2. row[i].lease >= 1
    BY DEF OInv, FreshInv, FreshAt
  <1> QED
    BY <1>1, <1>2

\* A row that nobody has a job on changes.
LEMMA RowStep ==
    ASSUME OInv, NEW i \in Instances, \A w \in Workers : job[w][i].pc = "none",
           job' = job, effect' = effect, \A k \in Instances \ {i} : row'[k] = row[k],
           StandsAt(i)'
    PROVE  StandInv' /\ FreshInv' /\ CountInv'
  <1>1. StandInv'
    <2>1. ASSUME NEW k \in Instances, k # i PROVE StandsAt(k)'
      BY <2>1 DEF OInv, StandInv, StandsAt
    <2> QED
      BY <2>1 DEF StandInv
  <1>2. FreshInv'
    <2>1. ASSUME NEW v \in Workers, NEW k \in Instances, k # i PROVE FreshAt(v, k)'
      BY <2>1 DEF OInv, FreshInv, FreshAt
    <2>2. ASSUME NEW v \in Workers PROVE FreshAt(v, i)'
      BY DEF FreshAt
    <2> QED
      BY <2>1, <2>2 DEF FreshInv
  <1>3. CountInv'
    BY CountKeeps DEF OInv, Busy
  <1> QED
    BY <1>1, <1>2, <1>3

LEMMA ClickedInst == ASSUME SInv, NEW o \in Operators, click[o] # NoClick PROVE click[o].inst \in Instances
  BY DEF SInv, RestInv

LEMMA ClicksKeep ==
    ASSUME OInv, click' = click,
           \A k \in Instances : row[k].status = "stuck" =>
               row'[k].status = row[k].status /\ row'[k].resume = row[k].resume
    PROVE  ClickInv'
  <1> SUFFICES ASSUME NEW o \in Operators, click[o] # NoClick PROVE ClickAt(o)'
    BY DEF ClickInv, ClickAt
  <1>1. click[o].inst \in Instances /\ ClickAt(o)
    BY ClickedInst DEF OInv, ClickInv
  <1> QED
    BY <1>1 DEF ClickAt

LEMMA StartFresh == ASSUME OInv, SInv', NEW i \in Instances, Start(i) PROVE OInv'
  <1>1. /\ row[i].status = "none" /\ job' = job /\ effect' = effect /\ click' = click
        /\ \A k \in Instances \ {i} : row'[k] = row[k]
    BY DEF Start, OInv, SInv, RowInv
  <1>2. row'[i].status = "running" /\ row'[i].cursor = row[i].cursor
    BY DEF Start, OInv, SInv, RowInv, Rows
  <1>3. \A w \in Workers : job[w][i].pc = "none"
    BY <1>1, NoJobs DEF Active
  <1>4. row[i].cursor = 0 /\ \A s \in Indexes : effect[i][s] = "none"
    BY <1>1 DEF OInv, StandInv, StandsAt, Stands
  <1>5. StandsAt(i)'
    <2>1. \A s \in Indexes : s >= 0
      BY DEF Indexes
    <2>2. Stands("running", 0, effect[i])
      BY <1>4, <2>1, FirstStep DEF Stands
    <2> QED
      BY <1>1, <1>2, <1>4, <2>2 DEF StandsAt
  <1>6. ClickInv'
    BY <1>1, ClicksKeep
  <1> QED
    BY <1>1, <1>3, <1>5, <1>6, RowStep DEF OInv

LEMMA PruneFresh == ASSUME OInv, SInv', NEW i \in Instances, Prune(i) PROVE OInv'
  <1>1. /\ row[i].status \in {"completed", "compensated"} /\ job' = job /\ effect' = effect /\ click' = click
        /\ \A k \in Instances \ {i} : row'[k] = row[k]
    BY DEF Prune, OInv, SInv, RowInv
  <1>2. row'[i].status = "pruned"
    BY DEF Prune, OInv, SInv, RowInv, Rows
  <1>3. \A w \in Workers : job[w][i].pc = "none"
    BY <1>1, NoJobs DEF Active
  <1>4. StandsAt(i)'
    BY <1>2 DEF StandsAt, Stands
  <1>5. ClickInv'
    BY <1>1, ClicksKeep
  <1> QED
    BY <1>1, <1>3, <1>4, <1>5, RowStep DEF OInv

LEMMA ResumeFresh == ASSUME OInv, SInv', NEW o \in Operators, NEW i \in Instances, Resume(o, i) PROVE OInv'
  <1> DEFINE c == [pc |-> "read", inst |-> i, to |-> row[i].resume]
  <1>1. /\ row[i].status = "stuck" /\ row' = row /\ job' = job /\ effect' = effect
        /\ click' = [click EXCEPT ![o] = c]
    BY DEF Resume
  <1>2. c.inst = i /\ c.to = row[i].resume
    OBVIOUS
  <1> HIDE DEF c
  <1>3. click'[o] = c /\ \A p \in Operators \ {o} : click'[p] = click[p]
    BY <1>1 DEF OInv, SInv, RestInv
  <1>4. ClickInv'
    <2>1. ClickAt(o)'
      BY <1>1, <1>2, <1>3 DEF ClickAt
    <2>2. ASSUME NEW p \in Operators, p # o PROVE ClickAt(p)'
      BY <1>1, <1>3, <2>2 DEF OInv, ClickInv, ClickAt
    <2> QED
      BY <2>1, <2>2 DEF ClickInv
  <1>5. StandInv' /\ FreshInv' /\ CountInv'
    BY <1>1 DEF OInv, StandInv, StandsAt, FreshInv, FreshAt, CountInv, Busy
  <1> QED
    BY <1>4, <1>5 DEF OInv

\* What a Requeue leaves, when the saga is as its Resume read it.
LEMMA RequeueLeaves ==
    ASSUME OInv, NEW o \in Operators, Requeue(o), NEW i \in Instances, i = click[o].inst
    PROVE  /\ row[i].status = "stuck" /\ row[i].resume \in Active /\ row[i].cursor \in Int
           /\ \A k \in Instances \ {i} : row'[k] = row[k]
           /\ row' = row \/ (row'[i].status = row[i].resume /\ row'[i].cursor = row[i].cursor)
  <1> DEFINE r == [row[i] EXCEPT !.status = click[o].to, !.resume = "", !.due = 0, !.attempts = 0, !.lease = 0]
  <1>1. row[i].status = "stuck" /\ row[i].resume = click[o].to
    BY DEF OInv, ClickInv, ClickAt, Requeue
  <1>2. row \in [Instances -> Rows] /\ row[i] \in Rows
    BY DEF OInv, SInv, RowInv
  <1>3. row[i].resume \in Active /\ row[i].cursor \in Indexes
    BY <1>1, <1>2 DEF Rows, AtStep
  <1>4. [row EXCEPT ![i].status = click[o].to, ![i].resume = "", ![i].due = 0, ![i].attempts = 0, ![i].lease = 0]
           = [row EXCEPT ![i] = r]
    BY <1>2 DEF Rows
  <1>5. row' = row \/ row' = [row EXCEPT ![i] = r]
    BY <1>4 DEF Requeue
  <1>6. r.status = click[o].to /\ r.cursor = row[i].cursor
    BY <1>2 DEF Rows
  <1> HIDE DEF r
  <1>7. row' = row \/ (row'[i] = r /\ \A k \in Instances \ {i} : row'[k] = row[k])
    BY <1>2, <1>5
  <1> QED
    BY <1>1, <1>3, <1>6, <1>7, FirstStep

LEMMA RequeueFresh == ASSUME OInv, SInv', OneOperator, NEW o \in Operators, Requeue(o) PROVE OInv'
  <1>0. PICK i \in Instances : i = click[o].inst
    BY ClickedInst DEF OInv, Requeue
  <1>1. /\ row[i].status = "stuck" /\ row[i].resume \in Active
        /\ \A k \in Instances \ {i} : row'[k] = row[k]
        /\ row' = row \/ (row'[i].status = row[i].resume /\ row'[i].cursor = row[i].cursor)
    BY <1>0, RequeueLeaves
  <1>2. job' = job /\ effect' = effect
    BY DEF Requeue
  <1>3. click' = [click EXCEPT ![o] = NoClick]
    BY DEF Requeue
  <1>4. \A w \in Workers : job[w][i].pc = "none"
    BY <1>1, NoJobs DEF Active
  <1>6. StandsAt(i)'
    <2>1. StandsAt(i)
      BY <1>1 DEF OInv, StandInv
    <2>2. CASE row' = row
      BY <1>2, <2>1, <2>2 DEF StandsAt
    <2>3. CASE row'[i].status = row[i].resume /\ row'[i].cursor = row[i].cursor
      BY <1>1, <1>2, <2>1, <2>3 DEF StandsAt, Active
    <2> QED
      BY <1>1, <2>2, <2>3
  <1>7. ClickInv'
    <2>1. \A p \in Operators : p = o /\ click'[p] = NoClick
      BY <1>3 DEF OneOperator, OInv, SInv, RestInv
    <2> QED
      BY <2>1 DEF ClickInv, ClickAt
  <1> QED
    BY <1>1, <1>2, <1>4, <1>6, <1>7, RowStep DEF OInv

\* The steps that leave every row in its phase.
SamePhases ==
    \A k \in Instances : row'[k].status = row[k].status /\ row'[k].cursor = row[k].cursor
                         /\ row'[k].resume = row[k].resume

LEMMA PhasesKeep ==
    ASSUME OInv, SamePhases, effect' = effect, click' = click
    PROVE  StandInv' /\ ClickInv'
  <1>1. ASSUME NEW k \in Instances PROVE StandsAt(k)'
    BY DEF OInv, StandInv, StandsAt, SamePhases
  <1>2. ClickInv'
    BY ClicksKeep DEF SamePhases
  <1> QED
    BY <1>1, <1>2 DEF StandInv

LEMMA ClaimedLeaves ==
    ASSUME SInv, NEW batch, Claimed(batch)
    PROVE  /\ SamePhases
           /\ \A i \in Instances : i \in batch => row'[i].lease = LeaseDuration
           /\ \A i \in Instances : i \notin batch => row'[i] = row[i]
  <1>1. ASSUME NEW i \in Instances, i \in batch
        PROVE  /\ row'[i].status = row[i].status /\ row'[i].cursor = row[i].cursor
               /\ row'[i].resume = row[i].resume /\ row'[i].lease = LeaseDuration
    <2>1. row'[i] = [row[i] EXCEPT !.lease = LeaseDuration, !.attempts = Count(@)]
      BY <1>1 DEF Claimed
    <2>2. row[i] \in Rows
      BY DEF SInv, RowInv
    <2> QED
      BY <2>1, <2>2 DEF Rows
  <1>2. ASSUME NEW i \in Instances, i \notin batch PROVE row'[i] = row[i]
    BY <1>2 DEF Claimed
  <1> QED
    BY <1>1, <1>2 DEF SamePhases

\* What is claimed was nobody's.
LEMMA BatchUnheld ==
    ASSUME OInv, NEW batch \in Batches
    PROVE  /\ batch \subseteq Instances /\ Cardinality(batch) <= BatchSize
           /\ \A i \in batch, w \in Workers : job[w][i].pc = "none"
  <1>1. batch \subseteq Instances /\ Cardinality(batch) <= BatchSize /\ \A i \in batch : row[i].lease = 0
    BY DEF Batches, Claimable
  <1> QED
    BY <1>1, NoJobs

LEMMA ClaimLostFresh ==
    ASSUME OInv, SInv', NEW w \in Workers, NEW batch \in Batches, ClaimLost(w, batch)
    PROVE  OInv'
  <1>1. Claimed(batch) /\ job' = job /\ effect' = effect /\ click' = click
    BY DEF ClaimLost
  <1>2. StandInv' /\ ClickInv'
    BY <1>1, ClaimedLeaves, PhasesKeep DEF OInv
  <1>3. ASSUME NEW v \in Workers, NEW k \in Instances PROVE FreshAt(v, k)'
    <2>1. CASE k \in batch
      BY <1>1, <2>1, BatchUnheld DEF FreshAt
    <2>2. CASE k \notin batch
      <3>1. row'[k] = row[k] /\ FreshAt(v, k)
        BY <1>1, <2>2, ClaimedLeaves DEF OInv, FreshInv
      <3> QED
        BY <1>1, <3>1 DEF FreshAt
    <2> QED
      BY <2>1, <2>2
  <1>4. CountInv'
    BY <1>1, CountKeeps DEF OInv, Busy
  <1> QED
    BY <1>2, <1>3, <1>4 DEF OInv, FreshInv

LEMMA CrashFresh == ASSUME OInv, SInv', NEW w \in Workers, Crash(w) PROVE OInv'
  <1>1. /\ row' = row /\ effect' = effect /\ click' = click
        /\ \A k \in Instances : job'[w][k] = NoJob
        /\ \A v \in Workers \ {w}, k \in Instances : job'[v][k] = job[v][k]
    BY DEF Crash, OInv, SInv, PassInv
  <1>2. StandInv' /\ ClickInv'
    BY <1>1, PhasesKeep DEF SamePhases
  <1>3. ASSUME NEW v \in Workers, NEW k \in Instances PROVE FreshAt(v, k)'
    <2>1. CASE v = w
      BY <1>1, <2>1, Blanks DEF FreshAt
    <2>2. CASE v # w
      <3>1. job'[v][k] = job[v][k] /\ \A u \in Workers : job'[u][k] \in {job[u][k], NoJob}
        BY <1>1, <2>2
      <3>2. FreshAt(v, k)
        BY DEF OInv, FreshInv
      <3> QED
        BY <1>1, <3>1, <3>2, Blanks DEF FreshAt
    <2> QED
      BY <2>1, <2>2
  <1>4. CountInv'
    <2>1. ASSUME NEW v \in Workers PROVE Busy(v)' \subseteq Busy(v)
      BY <1>1, Blanks DEF Busy
    <2> QED
      BY <2>1, CountKeeps DEF OInv
  <1> QED
    BY <1>2, <1>3, <1>4 DEF OInv, FreshInv

LEMMA ClaimFresh == ASSUME OInv, SInv', NEW w \in Workers, NEW batch \in Batches, Claim(w, batch) PROVE OInv'
  <1> DEFINE J(i) == [NoJob EXCEPT !.pc = "queued", !.inst = [Record(i) EXCEPT !.attempts = Count(@)]]
  <1>1. /\ Claimed(batch) /\ effect' = effect /\ click' = click
        /\ \A k \in Instances : job'[w][k] = IF k \in batch THEN J(k) ELSE NoJob
        /\ \A v \in Workers \ {w}, k \in Instances : job'[v][k] = job[v][k]
    BY DEF Claim, OInv, SInv, PassInv
  <1>2. ASSUME NEW k \in Instances
        PROVE  J(k).pc = "queued" /\ J(k).inst.status = row[k].status /\ J(k).inst.cursor = row[k].cursor
    BY DEF NoJob, Record
  <1> HIDE DEF J
  <1>3. StandInv' /\ ClickInv'
    BY <1>1, ClaimedLeaves, PhasesKeep DEF OInv
  <1>4. ASSUME NEW v \in Workers, NEW k \in Instances PROVE FreshAt(v, k)'
    <2>1. CASE k \in batch
      <3>1. /\ row'[k].status = row[k].status /\ row'[k].cursor = row[k].cursor
            /\ row'[k].lease = LeaseDuration
        BY <1>1, <2>1, ClaimedLeaves DEF SamePhases, OInv
      <3>2. \A u \in Workers \ {w} : job'[u][k].pc = "none"
        BY <1>1, <2>1, BatchUnheld
      <3>3. LeaseDuration >= 1
        BY SagaAssumption DEF ConfigValid
      <3>4. CASE v = w
        <4>1. job'[w][k] = J(k)
          BY <1>1, <2>1
        <4> QED
          BY <1>2, <3>1, <3>2, <3>3, <3>4, <4>1 DEF FreshAt, InSlot
      <3>5. CASE v # w
        BY <3>2, <3>5 DEF FreshAt
      <3> QED
        BY <3>4, <3>5
    <2>2. CASE k \notin batch
      <3>1. row'[k] = row[k] /\ FreshAt(v, k) /\ job'[w][k] = NoJob
        BY <1>1, <2>2, ClaimedLeaves DEF OInv, FreshInv
      <3>2. CASE v = w
        BY <3>1, <3>2, Blanks DEF FreshAt
      <3>3. CASE v # w
        <4>1. job'[v][k] = job[v][k] /\ \A u \in Workers : job'[u][k] \in {job[u][k], NoJob}
          BY <1>1, <3>1, <3>3
        <4> QED
          BY <3>1, <4>1, Blanks DEF FreshAt
      <3> QED
        BY <3>2, <3>3
    <2> QED
      BY <2>1, <2>2
  <1>5. CountInv'
    <2>1. Busy(w)' = batch
      <3>1. batch \subseteq Instances
        BY BatchUnheld
      <3> QED
        BY <1>1, <1>2, <3>1, Blanks DEF Busy
    <2>2. \A v \in Workers \ {w} : Busy(v)' = Busy(v)
      BY <1>1 DEF Busy
    <2> QED
      BY <2>1, <2>2, BatchUnheld DEF OInv, CountInv
  <1> QED
    BY <1>3, <1>4, <1>5 DEF OInv, FreshInv

\* Time passes while steps run, and nothing waits for a slot.
LEMMA TickFresh == ASSUME OInv, SInv', EnoughSlots, Tick PROVE OInv'
  <1>1. ASSUME NEW k \in Instances
        PROVE  /\ row'[k].status = row[k].status /\ row'[k].cursor = row[k].cursor
               /\ row'[k].resume = row[k].resume /\ row'[k].lease = Down(row[k].lease)
               /\ row[k].lease \in Nat
    <2>1. row'[k] = [row[k] EXCEPT !.due = Down(@), !.lease = Down(@)]
      BY DEF Tick
    <2>2. row[k] \in Rows
      BY DEF OInv, SInv, RowInv
    <2>3. row[k].lease \in 0 .. LeaseDuration
      BY <2>2 DEF Rows
    <2>4. row[k].lease \in Nat
      BY <2>3, Constants
    <2> QED
      BY <2>1, <2>2, <2>4 DEF Rows
  <1>2. effect' = effect /\ click' = click
    BY DEF Tick
  <1>3. StandInv' /\ ClickInv'
    BY <1>1, <1>2, PhasesKeep DEF SamePhases
  <1>4. ASSUME NEW v \in Workers, NEW k \in Instances
        PROVE  /\ job'[v][k].pc = job[v][k].pc /\ job'[v][k].inst = job[v][k].inst
               /\ job'[v][k].left = IF job[v][k].left >= 0 THEN job[v][k].left - 1 ELSE job[v][k].left
               /\ job[v][k].pc \in {"doing", "undoing"} => job'[v][k].ran = job[v][k].ran + 1
    <2>1. job[v][k] \in Jobs
      BY DEF OInv, SInv, PassInv
    <2>2. job'[v][k] = [job[v][k] EXCEPT !.left = IF @ >= 0 THEN @ - 1 ELSE @,
                            !.ran = IF job[v][k].pc \in {"doing", "undoing"} THEN @ + 1 ELSE 0]
      BY DEF Tick
    <2> QED
      BY <2>1, <2>2 DEF Jobs, JobRecords
  <1>5. ASSUME NEW v \in Workers, NEW k \in Instances PROVE FreshAt(v, k)'
    <2> SUFFICES ASSUME job[v][k].pc # "none" PROVE FreshAt(v, k)'
      BY <1>4 DEF FreshAt
    <2>1. Waiting(v, k)
      BY DEF Tick
    <2>2. job[v][k].pc \in {"doing", "undoing"} /\ job[v][k].ran < StepTimeout
      BY <2>1, SlotAtOnce DEF Waiting, WithinTimeout
    <2>3. FreshAt(v, k)
      BY DEF OInv, FreshInv
    <2>4. job[v][k].left \in Int /\ job[v][k].ran \in Int
      <3>1. job[v][k].left \in -1 .. AdvanceTimeout /\ job[v][k].ran \in 0 .. StepTimeout
        BY JobFields DEF OInv, SInv, PassInv
      <3> QED
        BY <3>1, Constants
    <2>5. row[k].lease >= StepTimeout + 1 - job[v][k].ran /\ row'[k].lease = row[k].lease - 1
      <3>1. row[k].lease >= StepTimeout + 1 - job[v][k].ran
        BY <2>2, <2>3 DEF FreshAt
      <3> QED
        BY <1>1, <2>2, <2>4, <3>1, Constants DEF Down
    <2>6. /\ row'[k].lease >= 1
          /\ row'[k].lease >= StepTimeout + 1 - job'[v][k].ran
          /\ job'[v][k].left >= 0 => row'[k].lease >= job'[v][k].left + StepTimeout + 1
      <3>1. job[v][k].left >= 0 => row[k].lease >= job[v][k].left + StepTimeout + 1
        BY <2>2, <2>3 DEF FreshAt, InSlot
      <3>2. row[k].lease \in Nat /\ job'[v][k].ran = job[v][k].ran + 1
        BY <1>1, <1>4, <2>2
      <3>3. job'[v][k].left = IF job[v][k].left >= 0 THEN job[v][k].left - 1 ELSE job[v][k].left
        BY <1>4
      <3> QED
        BY <2>2, <2>4, <2>5, <3>1, <3>2, <3>3, Constants
    <2>7. \A u \in Workers \ {v} : job'[u][k].pc = "none"
      BY <1>4, <2>3 DEF FreshAt
    <2> QED
      BY <1>1, <1>4, <2>2, <2>3, <2>6, <2>7 DEF FreshAt
  <1>6. CountInv'
    <2>1. ASSUME NEW v \in Workers PROVE Busy(v)' \subseteq Busy(v)
      BY <1>4 DEF Busy
    <2> QED
      BY <2>1, CountKeeps DEF OInv
  <1> QED
    BY <1>3, <1>5, <1>6 DEF OInv, FreshInv

LEMMA OBegins == Init => OInv
  <1> SUFFICES ASSUME Init PROVE OInv
    OBVIOUS
  <1>1. StandInv
    BY FirstStep DEF StandInv, StandsAt, Stands, Init
  <1>2. \A w \in Workers, i \in Instances : job[w][i].pc = "none"
    BY Blanks DEF Init
  <1>3. FreshInv
    BY <1>2 DEF FreshInv, FreshAt
  <1>4. ClickInv
    BY DEF ClickInv, ClickAt, Init
  <1>5. CountInv
    <2>1. ASSUME NEW w \in Workers PROVE Cardinality(Busy(w)) <= BatchSize
      <3>1. Busy(w) = {}
        BY <1>2 DEF Busy
      <3> QED
        BY <3>1, FS_EmptySet, SagaAssumption
    <2> QED
      BY <2>1 DEF CountInv
  <1> QED
    BY <1>1, <1>3, <1>4, <1>5, Begins DEF OInv

LEMMA OPass == ASSUME OInv, SInv', NEW w \in Workers, NEW i \in Instances, Pass(w, i) PROVE OInv'
  BY BeginFresh, AdvanceFresh, ContendedFresh, LockFailsFresh, DriftFresh, OutOfTimeFresh, SkipUndoFresh DEF Pass

LEMMA OReturns == ASSUME OInv, SInv', NEW w \in Workers, NEW i \in Instances, Returns(w, i) PROVE OInv'
  BY DidStepFresh, UndidStepFresh, FailForwardFresh, UndoFailedFresh DEF Returns

LEMMA OStep == ASSUME EnoughSlots, OneOperator PROVE OInv /\ [Next]_vars => OInv'
  <1> SUFFICES ASSUME OInv, [Next]_vars PROVE OInv'
    OBVIOUS
  <1>0. SInv'
    BY StepKeeps DEF OInv
  <1>1. ASSUME NEW i \in Instances, Start(i) \/ Prune(i) PROVE OInv'
    BY <1>0, <1>1, StartFresh, PruneFresh
  <1>2. ASSUME NEW o \in Operators, Requeue(o) \/ \E i \in Instances : Resume(o, i) PROVE OInv'
    BY <1>0, <1>2, RequeueFresh, ResumeFresh
  <1>3. ASSUME NEW w \in Workers, NEW batch \in Batches, Claim(w, batch) \/ ClaimLost(w, batch) PROVE OInv'
    BY <1>0, <1>3, ClaimFresh, ClaimLostFresh
  <1>4. ASSUME NEW w \in Workers, NEW i \in Instances, Pass(w, i) \/ Returns(w, i) PROVE OInv'
    BY <1>0, <1>4, OPass, OReturns
  <1>5. ASSUME NEW w \in Workers, Crash(w) PROVE OInv'
    BY <1>0, <1>5, CrashFresh
  <1>6. CASE Tick
    BY <1>0, <1>6, TickFresh
  <1>7. CASE UNCHANGED vars
    BY <1>0, <1>7 DEF OInv, StandInv, StandsAt, FreshInv, FreshAt, ClickInv, ClickAt, CountInv, Busy, vars
  <1> QED
    BY <1>1, <1>2, <1>3, <1>4, <1>5, <1>6, <1>7 DEF Next

LEMMA OInvariant == ASSUME EnoughSlots, OneOperator PROVE Spec => []OInv
  <1>1. OInv /\ [Next]_vars => OInv'
    BY OStep
  <1> QED
    BY <1>1, OBegins, PTL DEF Spec

\* Where every claimed instance has a slot and Resume calls do not overlap, a
\* completed saga did every step and a compensated one left no effect behind,
\* for any definition, any number of workers (drifted ones too) and of faults.
THEOREM OutcomesAreTrue == ASSUME EnoughSlots, OneOperator PROVE Spec => []OutcomeIsTrue
  <1>1. OInv => OutcomeIsTrue
    BY DEF OInv, StandInv, StandsAt, Stands, OutcomeIsTrue, Clean
  <1> QED
    BY <1>1, OInvariant, PTL

\* Under the same conditions steps are done in order and taken back in reverse.
THEOREM StepsInOrder == ASSUME EnoughSlots, OneOperator PROVE Spec => []InOrder
  <1>1. OInv => InOrder
    <2> SUFFICES ASSUME OInv, NEW w \in Workers, NEW i \in Instances, job[w][i].pc \in {"doing", "undoing"}
                 PROVE  LET at == job[w][i].inst.cursor IN
                        /\ job[w][i].pc = "doing" => \A s \in Indexes : s < at => effect[i][s] = "done"
                        /\ job[w][i].pc = "undoing" => \A s \in Undoable : s > at => Clean(i, s)
      BY DEF InOrder
    <2>1. /\ row[i].cursor = job[w][i].inst.cursor
          /\ Stands(row[i].status, row[i].cursor, effect[i])
      BY JobStands
    <2>2. /\ job[w][i].pc = "doing" => row[i].status = "running"
          /\ job[w][i].pc = "undoing" => row[i].status = "compensating"
      BY DEF OInv, FreshInv, FreshAt
    <2> QED
      BY <2>1, <2>2 DEF Stands, Clean
  <1> QED
    BY <1>1, OInvariant, PTL

-----------------------------------------------------------------------------
(* The row follows the state diagram.                                      *)

LEMMA SameOnward ==
    ASSUME SInv, NEW i \in Instances, row'[i].status = row[i].status, row'[i].cursor = row[i].cursor
    PROVE  Onward(i)
  <1>1. row[i].cursor \in Int
    <2>1. row[i].cursor \in -1 .. Steps
      BY DEF SInv, RowInv, Rows
    <2> QED
      BY <2>1, Constants
  <1> QED
    BY <1>1 DEF Onward

LEMMA PersistOnward ==
    ASSUME OInv, NEW w \in Workers, NEW i \in Instances, job[w][i].pc # "none",
           NEW x \in Written, NEW due \in Nat, NEW more, Persist(w, i, x, due, more),
           row[i].status = x.status \/ <<row[i].status, x.status>> \in Diagram,
           x.status = "running" => x.cursor >= row[i].cursor,
           x.status = "compensating" => x.cursor <= row[i].cursor
    PROVE  \A k \in Instances : Onward(k)
  <1>1. row[i].status \in Active
    BY JobStands
  <1>2. row' = row \/ row' = Advanced(i, x, due)
    BY DEF Persist, persist, persistFails
  <1>3. CASE row' = row
    BY <1>3, SameOnward DEF OInv
  <1>4. CASE row' = Advanced(i, x, due)
    <2>1. /\ \A k \in Instances \ {i} : row'[k] = row[k]
          /\ row'[i].status = x.status /\ row'[i].cursor = x.cursor
      BY <1>4, AdvancedLeaves DEF OInv
    <2>2. Onward(i)
      BY <1>1, <2>1 DEF Onward, Active
    <2>3. ASSUME NEW k \in Instances, k # i PROVE Onward(k)
      BY <2>1, <2>3, SameOnward DEF OInv
    <2> QED
      BY <2>2, <2>3
  <1> QED
    BY <1>2, <1>3, <1>4

\* Where each transition leads.
LEMMA ForwardEdge ==
    ASSUME NEW x \in Driven, x.status = "running"
    PROVE  /\ Forward(x).status \in {"running", "completed"} /\ Forward(x).cursor >= x.cursor
  <1>1. x \in Records /\ x.cursor \in Int
    BY FirstStep DEF Driven
  <1>2. Forward(x).cursor = x.cursor + 1
    BY <1>1 DEF Forward, Records
  <1>3. Forward(x).status \in {"running", "completed"}
    BY <1>1 DEF Forward, Records
  <1> QED
    BY <1>1, <1>2, <1>3

LEMMA BackwardEdge ==
    ASSUME NEW x \in Driven, x.status = "compensating"
    PROVE  /\ Backward(x).status \in {"compensating", "compensated"} /\ Backward(x).cursor <= x.cursor
  <1>1. x \in Records /\ x.cursor \in Int
    BY FirstStep DEF Driven
  <1>2. Backward(x).cursor = x.cursor - 1
    BY <1>1 DEF Backward, Records
  <1>3. Backward(x).status \in {"compensating", "compensated"}
    BY <1>1 DEF Backward, Records
  <1> QED
    BY <1>1, <1>2, <1>3

LEMMA SamePhasesOnward == ASSUME SInv, SamePhases PROVE \A k \in Instances : Onward(k)
  BY SameOnward DEF SamePhases

LEMMA ReleaseOnward == ASSUME SInv, NEW i \in Instances, Release(i) PROVE \A k \in Instances : Onward(k)
  BY ReleaseLeaves, SameOnward

LEMMA RescheduleOnward ==
    ASSUME SInv, NEW w \in Workers, NEW i \in Instances, NEW n, reschedule(w, i, n)
    PROVE  \A k \in Instances : Onward(k)
  BY RescheduleLeaves, SameOnward

LEMMA StuckOnward ==
    ASSUME OInv, NEW w \in Workers, NEW i \in Instances, job[w][i].pc # "none", markStuck(w, i)
    PROVE  \A k \in Instances : Onward(k)
  <1> DEFINE inst == job[w][i].inst
             x == [inst EXCEPT !.status = "stuck", !.resume = inst.status]
  <1>1. inst \in Driven /\ row[i].status \in Active
    BY JobStands
  <1>2. Persist(w, i, x, 0, FALSE)
    BY DEF markStuck
  <1> HIDE DEF inst
  <1>3. x \in Written /\ x.status = "stuck"
    BY <1>1, StuckWritten DEF Driven, Records
  <1> HIDE DEF x
  <1>4. <<row[i].status, x.status>> \in Diagram
    BY <1>1, <1>3 DEF Diagram, Active
  <1>5. 0 \in Nat
    OBVIOUS
  <1> QED
    BY <1>2, <1>3, <1>4, <1>5, PersistOnward

LEMMA BackOnward ==
    ASSUME OInv, NEW w \in Workers, NEW i \in Instances, job[w][i].pc # "none",
           job[w][i].inst.status = "compensating",
           Persist(w, i, Backward(job[w][i].inst), 0, Backward(job[w][i].inst).status \in Active)
    PROVE  \A k \in Instances : Onward(k)
  <1> DEFINE x == Backward(job[w][i].inst)
             more == x.status \in Active
  <1>1. /\ job[w][i].inst \in Driven /\ row[i].status = job[w][i].inst.status
        /\ row[i].cursor = job[w][i].inst.cursor
    BY JobStands
  <1>2. x \in Written /\ x.status \in {"compensating", "compensated"} /\ x.cursor <= row[i].cursor
    BY <1>1, BackwardWritten, BackwardEdge
  <1> HIDE DEF x
  <1>3. row[i].status = x.status \/ <<row[i].status, x.status>> \in Diagram
    BY <1>1, <1>2 DEF Diagram
  <1>4. 0 \in Nat /\ Persist(w, i, x, 0, more)
    BY DEF x
  <1> HIDE DEF more
  <1> QED
    BY <1>2, <1>3, <1>4, PersistOnward

LEMMA DidStepOnward ==
    ASSUME OInv, NEW w \in Workers, NEW i \in Instances, didStep(w, i)
    PROVE  \A k \in Instances : Onward(k)
  <1> DEFINE x == Forward(job[w][i].inst)
             delay == IF x.status = "completed" THEN 0 ELSE Delay[x.cursor]
             more == x.status \in Active /\ delay = 0
  <1>1. job[w][i].pc = "doing" /\ Persist(w, i, x, delay, more)
    BY DEF didStep
  <1>2. /\ job[w][i].inst \in Driven /\ row[i].status = job[w][i].inst.status
        /\ row[i].cursor = job[w][i].inst.cursor
    BY <1>1, JobStands
  <1>3. row[i].status = "running"
    BY <1>1 DEF OInv, FreshInv, FreshAt
  <1>4. x \in Written /\ x.status \in {"running", "completed"} /\ x.cursor >= row[i].cursor
    BY <1>2, <1>3, ForwardWritten, ForwardEdge
  <1>5. x.status # "completed" => x.cursor \in Indexes
    BY <1>2, ForwardWritten
  <1> HIDE DEF x
  <1>6. row[i].status = x.status \/ <<row[i].status, x.status>> \in Diagram
    BY <1>3, <1>4 DEF Diagram
  <1>7. delay \in Nat
    BY <1>5, Constants
  <1> HIDE DEF delay, more
  <1> QED
    BY <1>1, <1>4, <1>6, <1>7, PersistOnward

LEMMA FailForwardOnward ==
    ASSUME OInv, NEW w \in Workers, NEW i \in Instances, NEW u, failForward(w, i, u)
    PROVE  \A k \in Instances : Onward(k)
  <1> DEFINE x == Compensating(job[w][i].inst)
  <1>1. job[w][i].pc = "doing" /\ (Persist(w, i, x, 0, TRUE) \/ reschedule(w, i, Attempts(job[w][i].inst)))
    BY DEF failForward
  <1>2. /\ job[w][i].inst \in Driven /\ row[i].status = job[w][i].inst.status
        /\ row[i].cursor = job[w][i].inst.cursor /\ row[i].cursor \in Indexes
        /\ Stands(row[i].status, row[i].cursor, effect[i]) /\ effect[i] \in Seen
    BY <1>1, JobStands
  <1>3. row[i].status = "running"
    BY <1>1 DEF OInv, FreshInv, FreshAt
  <1>4. x \in Written /\ x.status = "compensating" /\ x.cursor = row[i].cursor
    BY <1>2, <1>3, CompensatingWritten, StandsCompensating
  <1> HIDE DEF x
  <1>5. CASE Persist(w, i, x, 0, TRUE)
    <2>1. <<row[i].status, x.status>> \in Diagram
      BY <1>3, <1>4 DEF Diagram
    <2>2. x.cursor <= row[i].cursor /\ 0 \in Nat
      BY <1>2, <1>4, FirstStep
    <2> QED
      BY <1>1, <1>4, <1>5, <2>1, <2>2, PersistOnward
  <1>6. CASE reschedule(w, i, Attempts(job[w][i].inst))
    BY <1>6, RescheduleOnward DEF OInv
  <1> QED
    BY <1>1, <1>5, <1>6

LEMMA PassOnward ==
    ASSUME OInv, NEW w \in Workers, NEW i \in Instances, Pass(w, i)
    PROVE  \A k \in Instances : Onward(k)
  <1>1. CASE advance(w, i) \/ lockFails(w, i) \/ beginDo(w, i) \/ beginUndo(w, i)
    <2>1. row' = row
      BY <1>1 DEF advance, lockFails, beginDo, beginUndo, Begin
    <2> QED
      BY <2>1, SameOnward DEF OInv
  <1>2. CASE contended(w, i) \/ outOfTime(w, i)
    BY <1>2, ReleaseOnward DEF contended, outOfTime, OInv
  <1>3. CASE drift(w, i)
    BY <1>3, StuckOnward DEF drift, Driving
  <1>4. CASE skipUndo(w, i)
    BY <1>4, BackOnward DEF skipUndo, InTime, Driving
  <1> QED
    BY <1>1, <1>2, <1>3, <1>4 DEF Pass

LEMMA ReturnsOnward ==
    ASSUME OInv, NEW w \in Workers, NEW i \in Instances, Returns(w, i)
    PROVE  \A k \in Instances : Onward(k)
  <1>1. CASE undidStep(w, i)
    <2>1. Persist(w, i, Backward(job[w][i].inst), 0, Backward(job[w][i].inst).status \in Active)
      BY <1>1 DEF undidStep
    <2>2. job[w][i].pc = "undoing"
      BY <1>1 DEF undidStep
    <2>3. job[w][i].inst.status = "compensating"
      BY <2>2 DEF OInv, FreshInv, FreshAt
    <2> QED
      BY <2>1, <2>2, <2>3, BackOnward
  <1>2. ASSUME NEW u \in BOOLEAN, undoFailed(w, i, u) PROVE \A k \in Instances : Onward(k)
    <2>1. job[w][i].pc = "undoing" /\ (markStuck(w, i) \/ reschedule(w, i, Attempts(job[w][i].inst)))
      BY <1>2 DEF undoFailed
    <2> QED
      BY <2>1, StuckOnward, RescheduleOnward DEF OInv
  <1> QED
    BY <1>1, <1>2, DidStepOnward, FailForwardOnward DEF Returns

LEMMA RequeueOnward ==
    ASSUME OInv, NEW o \in Operators, Requeue(o)
    PROVE  \A k \in Instances : Onward(k)
  <1>1. PICK i \in Instances : i = click[o].inst
    BY ClickedInst DEF OInv, Requeue
  <1>4. /\ row[i].status = "stuck" /\ row[i].resume \in Active /\ row[i].cursor \in Int
        /\ \A k \in Instances \ {i} : row'[k] = row[k]
        /\ row' = row \/ (row'[i].status = row[i].resume /\ row'[i].cursor = row[i].cursor)
    BY <1>1, RequeueLeaves
  <1>5. CASE row' = row
    BY <1>5, SameOnward DEF OInv
  <1>6. CASE row'[i].status = row[i].resume /\ row'[i].cursor = row[i].cursor
    <2>1. Onward(i)
      BY <1>4, <1>6 DEF Onward, Diagram, Active
    <2>2. ASSUME NEW k \in Instances, k # i PROVE Onward(k)
      BY <1>4, <2>2, SameOnward DEF OInv
    <2> QED
      BY <2>1, <2>2
  <1> QED
    BY <1>4, <1>5, <1>6

LEMMA EdgeOnward ==
    ASSUME SInv, NEW i \in Instances, Start(i) \/ Prune(i)
    PROVE  \A k \in Instances : Onward(k)
  <1>1. \A k \in Instances \ {i} : row'[k] = row[k]
    BY DEF Start, Prune, SInv, RowInv
  <1>2. /\ row'[i].cursor = row[i].cursor
        /\ <<row[i].status, row'[i].status>> \in
              {<<"none", "running">>, <<"completed", "pruned">>, <<"compensated", "pruned">>}
    BY DEF Start, Prune, SInv, RowInv, Rows
  <1>3. row[i].cursor \in Int
    <2>1. row[i].cursor \in -1 .. Steps
      BY DEF SInv, RowInv, Rows
    <2> QED
      BY <2>1, Constants
  <1>4. Onward(i)
    BY <1>2, <1>3 DEF Onward, Diagram
  <1>5. ASSUME NEW k \in Instances, k # i PROVE Onward(k)
    BY <1>1, <1>5, SameOnward
  <1> QED
    BY <1>4, <1>5

LEMMA NextOnward == ASSUME OInv, Next PROVE \A k \in Instances : Onward(k)
  <1> DEFINE G == \A k \in Instances : Onward(k)
  <1>1. ASSUME NEW i \in Instances, Start(i) \/ Prune(i) PROVE G
    BY <1>1, EdgeOnward DEF OInv
  <1>2. ASSUME NEW o \in Operators, Requeue(o) \/ \E i \in Instances : Resume(o, i) PROVE G
    <2>1. CASE Requeue(o)
      BY <2>1, RequeueOnward
    <2>2. ASSUME NEW i \in Instances, Resume(o, i) PROVE G
      <3>1. row' = row
        BY <2>2 DEF Resume
      <3> QED
        BY <3>1, SameOnward DEF OInv
    <2> QED
      BY <1>2, <2>1, <2>2
  <1>3. ASSUME NEW w \in Workers, NEW batch \in Batches, Claim(w, batch) \/ ClaimLost(w, batch) PROVE G
    BY <1>3, ClaimedLeaves, SamePhasesOnward DEF Claim, ClaimLost, OInv
  <1>4. ASSUME NEW w \in Workers, NEW i \in Instances, Pass(w, i) \/ Returns(w, i) PROVE G
    BY <1>4, PassOnward, ReturnsOnward
  <1>5. ASSUME NEW w \in Workers, Crash(w) PROVE G
    <2>1. row' = row
      BY <1>5 DEF Crash
    <2> QED
      BY <2>1, SameOnward DEF OInv
  <1>6. ASSUME Tick PROVE G
    <2>1. ASSUME NEW k \in Instances PROVE row'[k].status = row[k].status /\ row'[k].cursor = row[k].cursor
      <3>1. row'[k] = [row[k] EXCEPT !.due = Down(@), !.lease = Down(@)] /\ row[k] \in Rows
        BY <1>6 DEF Tick, OInv, SInv, RowInv
      <3> QED
        BY <3>1 DEF Rows
    <2> QED
      BY <2>1, SameOnward DEF OInv
  <1> HIDE DEF G
  <1>7. G
    BY <1>1, <1>2, <1>3, <1>4, <1>5, <1>6 DEF Next
  <1> QED
    BY <1>7 DEF G

\* Under the same conditions a saga only moves on: its row follows the state
\* diagram, the cursor never goes back while running nor forward while
\* compensating, and Resume returns it to the phase it left.
THEOREM CursorsMoveOnward == ASSUME EnoughSlots, OneOperator PROVE Spec => MovesOnward
  <1> DEFINE A == \A i \in Instances : Onward(i)
  <1>1. OInv /\ [Next]_vars => [A]_vars
    BY NextOnward
  <1>2. MovesOnward <=> [][A]_vars
    BY DEF MovesOnward
  <1>3. Spec => []OInv
    BY OInvariant
  <1> HIDE DEF A
  <1> QED
    BY <1>1, <1>2, <1>3, PTL DEF Spec

=============================================================================
