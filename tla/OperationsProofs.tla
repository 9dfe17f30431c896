-------------------------- MODULE OperationsProofs --------------------------
(***************************************************************************)
(* Proofs about Operations, for every set of operations and workers, every *)
(* configuration the code accepts and every fleet.                         *)
(***************************************************************************)
EXTENDS Operations, TLAPS

-----------------------------------------------------------------------------
(* Types, those of the slots and of the history included.                  *)

States == Active \cup Terminal \cup {"none", "reaped"}
Rows == [state: States, lease: Epoch .. Lease, age: Nat, cancel: BOOLEAN]
Items == [on: BOOLEAN, holder: Workers \cup {NoWorker}, lease: 0 .. Lease,
          avail: Nat, attempts: 0 .. MaxAttempts]
Steps == {"idle", "claimed", "running", "closing", "settle", "handback", "complete"}
Verdicts == Terminal \cup {"none", "abandon", "retry"}
Returned == {"done", "stopped", "retryable", "fatal", "unknown", "oversized"}
Slots == [pc: Steps, op: Ops \cup {NoWorker}, attempts: 0 .. MaxAttempts, write: 0 .. Lease,
          beat: Nat, elapsed: Nat, cancelled: BOOLEAN, lost: BOOLEAN, outcome: Returned,
          verdict: Verdicts, stopping: BOOLEAN]
Entries == [by: Workers \cup {NoWorker}, how: Returned \cup {"none"}]

TypeInv ==
    /\ fleet \in Fleets
    /\ row \in [Ops -> Rows]
    /\ item \in [Ops -> Items]
    /\ work \in [Workers -> Slots]
    /\ offering \in [Ops -> Int]
    /\ stranded \subseteq Ops
    /\ faults \in 0 .. MaxFaults
    /\ owner \in [Ops -> Workers \cup {NoWorker}]
    /\ record \in [Ops -> Entries]
    /\ asked \in [Ops -> BOOLEAN]
    /\ errors \in [Ops -> Nat]
    /\ \A w \in Workers : work[w].pc # "idle" => work[w].op \in Ops

LEMMA Numbers ==
    /\ Lease \in Nat /\ Lease > 0
    /\ ProgressInterval \in Nat /\ ProgressInterval > 0 /\ 2 * ProgressInterval <= Lease
    /\ RetryDelay \in Nat /\ MaxAttempts \in Nat /\ MaxAttempts > 0
    /\ RecoverAfter \in Nat /\ RecoverAfter > 0 /\ Retention \in Nat
    /\ StartDelays \subseteq Nat
    /\ NoWorker \notin Workers
    /\ Epoch \in Int /\ Epoch < 0
  BY OperationsAssumption DEF WorkerConfig, Config, Epoch

LEMMA FleetType ==
    ASSUME fleet \in Fleets
    PROVE  /\ MaxFaults \in Nat /\ MaxWork \in Nat /\ MinWork \in Nat /\ MaxWait \in Nat
           /\ Timely \in BOOLEAN /\ Outcomes \subseteq Returned
  BY OperationsAssumption DEF MaxFaults, MaxWork, MinWork, MaxWait, Timely, Outcomes, Returned

LEMMA TypeInit == OInit => TypeInv
  <1> SUFFICES ASSUME OInit PROVE TypeInv
    OBVIOUS
  <1>1. NoOperation \in Rows
    BY Numbers DEF NoOperation, Rows, States
  <1>2. NoItem \in Items
    BY Numbers DEF NoItem, Items
  <1>3. Idle \in Slots
    BY Numbers DEF Idle, Slots, Steps, Verdicts, Returned
  <1>4. \A w \in Workers : work[w].pc = "idle"
    BY DEF OInit, Idle
  <1> QED
    BY <1>1, <1>2, <1>3, <1>4, FleetType DEF OInit, TypeInv, Entries


-----------------------------------------------------------------------------
(* What the records' updates leave.                                        *)

LEMMA RowReap == ASSUME NEW r \in Rows, NEW st \in States PROVE [r EXCEPT !.state = st] \in Rows
  BY DEF Rows

LEMMA RowFlush == ASSUME NEW r \in Rows, NEW n \in Epoch .. Lease PROVE [r EXCEPT !.lease = n] \in Rows
  BY DEF Rows

LEMMA RowAsk == ASSUME NEW r \in Rows PROVE [r EXCEPT !.cancel = TRUE] \in Rows
  BY DEF Rows

LEMMA RowMove ==
    ASSUME NEW r \in Rows, NEW st \in States, NEW n \in Epoch .. Lease
    PROVE  [r EXCEPT !.state = st, !.lease = n] \in Rows
  BY DEF Rows

LEMMA RowTick ==
    ASSUME NEW r \in Rows, NEW n \in Epoch .. Lease, NEW age \in Nat
    PROVE  [r EXCEPT !.lease = n, !.age = age] \in Rows
  BY DEF Rows

LEMMA RowEnd == ASSUME NEW r \in Rows, NEW st \in States, NEW n \in Epoch .. Lease, NEW age \in Nat
   PROVE [r EXCEPT !.state = st, !.lease = n, !.age = age] \in Rows
  BY DEF Rows

LEMMA RowCancel == ASSUME NEW r \in Rows, NEW st \in States, NEW n \in Epoch .. Lease, NEW age \in Nat
   PROVE [r EXCEPT !.cancel = TRUE, !.state = st, !.lease = n, !.age = age] \in Rows
  BY DEF Rows

LEMMA ItemSooner == ASSUME NEW it \in Items, NEW av \in Nat PROVE [it EXCEPT !.avail = av] \in Items
  BY DEF Items

LEMMA ItemOffer ==
    ASSUME NEW it \in Items, NEW av \in Nat
    PROVE  [it EXCEPT !.on = TRUE, !.avail = av] \in Items
  BY DEF Items

LEMMA ItemTick ==
    ASSUME NEW it \in Items, NEW n \in 0 .. Lease, NEW av \in Nat
    PROVE  [it EXCEPT !.lease = n, !.avail = av] \in Items
  BY DEF Items

LEMMA ItemClaim == ASSUME NEW it \in Items, NEW h \in Workers \cup {NoWorker}, NEW n \in 0 .. Lease,
    NEW a \in 0 .. MaxAttempts
   PROVE [it EXCEPT !.holder = h, !.lease = n, !.attempts = a] \in Items
  BY DEF Items

LEMMA ItemBack == ASSUME NEW it \in Items, NEW h \in Workers \cup {NoWorker}, NEW n \in 0 .. Lease,
    NEW av \in Nat
   PROVE [it EXCEPT !.holder = h, !.lease = n, !.avail = av] \in Items
  BY DEF Items

LEMMA SlotGoes == ASSUME NEW s \in Slots, NEW p \in Steps PROVE [s EXCEPT !.pc = p] \in Slots
  BY DEF Slots

LEMMA SlotBegins ==
    ASSUME NEW s \in Slots, NEW p \in Steps, NEW n \in 0 .. Lease
    PROVE  [s EXCEPT !.pc = p, !.write = n, !.elapsed = 0] \in Slots
  BY DEF Slots

LEMMA SlotClaims == ASSUME NEW s \in Slots, NEW p \in Steps, NEW o \in Ops, NEW a \in 0 .. MaxAttempts
   PROVE [s EXCEPT !.pc = p, !.op = o, !.attempts = a] \in Slots
  BY DEF Slots

LEMMA SlotBeats == ASSUME NEW s \in Slots, NEW bt \in Nat PROVE [s EXCEPT !.beat = bt] \in Slots
  BY DEF Slots

LEMMA SlotLearns == ASSUME NEW s \in Slots, NEW l \in BOOLEAN, NEW c \in BOOLEAN
   PROVE [s EXCEPT !.lost = l, !.cancelled = c] \in Slots
  BY DEF Slots

LEMMA SlotReturns == ASSUME NEW s \in Slots, NEW out \in Returned, NEW p \in Steps, NEW v \in Verdicts
   PROVE [s EXCEPT !.outcome = out, !.pc = p, !.verdict = v] \in Slots
  BY DEF Slots

LEMMA SlotSettles ==
    ASSUME NEW s \in Slots, NEW p \in Steps, NEW v \in Verdicts
    PROVE  [s EXCEPT !.pc = p, !.verdict = v] \in Slots
  BY DEF Slots

LEMMA SlotStops == ASSUME NEW s \in Slots PROVE [s EXCEPT !.stopping = TRUE] \in Slots
  BY DEF Slots

LEMMA SlotRuns == ASSUME NEW s \in Slots, NEW n \in 0 .. Lease, NEW e \in Nat, NEW bt \in Nat
   PROVE [s EXCEPT !.write = n, !.elapsed = e, !.beat = bt] \in Slots
  BY DEF Slots

LEMMA SlotStep ==
    ASSUME TypeInv, NEW w \in Workers, NEW s \in Slots, s.pc # "idle" => s.op \in Ops,
           work' = [work EXCEPT ![w] = s]
    PROVE  /\ work' \in [Workers -> Slots]
           /\ \A v \in Workers : work'[v].pc # "idle" => work'[v].op \in Ops
  BY DEF TypeInv

LEMMA Constructed ==
    /\ Idle \in Slots /\ Idle.pc = "idle"
    /\ NoItem \in Items
    /\ NoOperation \in Rows
    /\ [NoOperation EXCEPT !.state = "pending"] \in Rows
  <1>1. Idle \in Slots /\ Idle.pc = "idle"
    BY Numbers DEF Idle, Slots, Steps, Verdicts, Returned
  <1>2. NoItem \in Items
    BY Numbers DEF NoItem, Items
  <1>3. NoOperation \in Rows
    BY Numbers DEF NoOperation, Rows, States
  <1>4. [NoOperation EXCEPT !.state = "pending"] \in Rows
    BY <1>3, RowReap DEF States, Active
  <1> QED
    BY <1>1, <1>2, <1>3, <1>4

LEMMA OfferedItem ==
    ASSUME NEW it \in Items, NEW d \in Nat
    PROVE  Offered(it, d) \in Items
  <1>1. CASE it.on
    <2> DEFINE av == IF it.avail <= d THEN it.avail ELSE d
    <2>1. av \in Nat
      BY DEF Items
    <2>2. Offered(it, d) = [it EXCEPT !.avail = av]
      BY <1>1 DEF Offered
    <2> HIDE DEF av
    <2> QED
      BY <2>1, <2>2, ItemSooner
  <1>2. CASE ~it.on
    <2>1. Offered(it, d) = [NoItem EXCEPT !.on = TRUE, !.avail = d]
      BY <1>2 DEF Offered
    <2> QED
      BY <2>1, Constructed, ItemOffer
  <1> QED
    BY <1>1, <1>2

LEMMA BegunRow ==
    ASSUME NEW r \in Rows
    PROVE  /\ Begun(r) \in Rows
           /\ Begun(r).state = "running" /\ Begun(r).lease = Lease /\ Begun(r).cancel = r.cancel
  <1>1. "running" \in States /\ Lease \in Epoch .. Lease
    BY Numbers DEF States, Active
  <1>2. Begun(r) \in Rows
    BY <1>1, RowMove DEF Begun
  <1>3. Begun(r).state = "running" /\ Begun(r).lease = Lease /\ Begun(r).cancel = r.cancel
    BY DEF Begun, Rows
  <1> QED
    BY <1>2, <1>3

LEMMA FlushedRow ==
    ASSUME NEW r \in Rows
    PROVE  /\ Flushed(r) \in Rows
           /\ Flushed(r).state = r.state /\ Flushed(r).cancel = r.cancel
           /\ Flushed(r).lease = IF r.state = "running" THEN Lease ELSE r.lease
  <1>1. Lease \in Epoch .. Lease
    BY Numbers
  <1>2. Flushed(r) \in Rows
    BY <1>1, RowFlush DEF Flushed
  <1>3. Flushed(r).state = r.state /\ Flushed(r).cancel = r.cancel
    BY DEF Flushed, Rows
  <1>4. Flushed(r).lease = IF r.state = "running" THEN Lease ELSE r.lease
    BY DEF Flushed, Rows, Held
  <1> QED
    BY <1>2, <1>3, <1>4

LEMMA LearnSlot ==
    ASSUME TypeInv, NEW w \in Workers, work[w].op \in Ops, NEW s \in Slots
    PROVE  /\ Learn(w, s) \in Slots
           /\ Learn(w, s).pc = s.pc /\ Learn(w, s).op = s.op /\ Learn(w, s).write = s.write
           /\ Learn(w, s).beat = s.beat /\ Learn(w, s).outcome = s.outcome
           /\ Learn(w, s).attempts = s.attempts /\ Learn(w, s).elapsed = s.elapsed
           /\ Learn(w, s).stopping = s.stopping
           /\ Learn(w, s).cancelled = (s.cancelled \/ row[work[w].op].state # "running" \/ row[work[w].op].cancel)
           /\ Learn(w, s).lost = (s.lost \/ row[work[w].op].state # "running")
  <1> DEFINE r == row[work[w].op]
             l == s.lost \/ ~Held(r)
             c == s.cancelled \/ ~Held(r) \/ r.cancel
  <1>1. l \in BOOLEAN /\ c \in BOOLEAN
    BY DEF TypeInv, Slots, Rows, Held
  <1>2. Learn(w, s) = [s EXCEPT !.lost = l, !.cancelled = c]
    BY DEF Learn
  <1>3. l = (s.lost \/ r.state # "running") /\ c = (s.cancelled \/ r.state # "running" \/ r.cancel)
    BY DEF Held
  <1> HIDE DEF l, c
  <1>4. Learn(w, s) \in Slots
    BY <1>1, <1>2, SlotLearns
  <1>5. Learn(w, s).lost = l /\ Learn(w, s).cancelled = c
    BY <1>2 DEF Slots
  <1>6. /\ Learn(w, s).pc = s.pc /\ Learn(w, s).op = s.op /\ Learn(w, s).write = s.write
        /\ Learn(w, s).beat = s.beat /\ Learn(w, s).outcome = s.outcome
        /\ Learn(w, s).attempts = s.attempts /\ Learn(w, s).elapsed = s.elapsed
        /\ Learn(w, s).stopping = s.stopping
    BY <1>2 DEF Slots
  <1> QED
    BY <1>3, <1>4, <1>5, <1>6

LEMMA VerdictType == ASSUME NEW s \in Slots PROVE Verdict(s) \in Verdicts
  BY DEF Verdict, Verdicts, Terminal, Slots

-----------------------------------------------------------------------------
(* Every action keeps the types.                                           *)

LEMMA TypeService ==
    ASSUME TypeInv, NEW o \in Ops,
           \/ \E d \in StartDelays : Start(o, d)
           \/ StartInTransaction(o) \/ enqueue(o) \/ EnqueueLost(o) \/ Enqueue(o)
           \/ RequestCancel(o) \/ Reap(o)
    PROVE  TypeInv'
  <1>1. ASSUME NEW d \in StartDelays, Start(o, d) PROVE TypeInv'
    BY <1>1, Constructed, Numbers DEF TypeInv, Start, MaxFaults
  <1>2. CASE StartInTransaction(o)
    BY <1>2, Constructed DEF TypeInv, StartInTransaction, MaxFaults, history
  <1>3. CASE enqueue(o)
    <2>1. offering[o] \in Nat /\ item[o] \in Items
      BY <1>3 DEF enqueue, TypeInv
    <2>2. Offered(item[o], offering[o]) \in Items
      BY <2>1, OfferedItem
    <2> QED
      BY <1>3, <2>2 DEF TypeInv, enqueue, MaxFaults, history
  <1>4. CASE EnqueueLost(o)
    BY <1>4, FleetType DEF TypeInv, EnqueueLost, MaxFaults, history
  <1>5. CASE Enqueue(o)
    <2>1. Offered(item[o], 0) \in Items
      BY OfferedItem DEF TypeInv
    <2> QED
      BY <1>5, <2>1, FleetType DEF TypeInv, Enqueue, MaxFaults, history
  <1>6. CASE RequestCancel(o)
    <2>1. row[o] \in Rows
      BY DEF TypeInv
    <2>2. Epoch \in Epoch .. Lease /\ "cancelled" \in States
      BY Numbers DEF States, Terminal
    <2>3. /\ [row[o] EXCEPT !.cancel = TRUE, !.state = "cancelled", !.lease = Epoch, !.age = 0] \in Rows
          /\ [row[o] EXCEPT !.cancel = TRUE] \in Rows
      BY <2>1, <2>2, RowCancel, RowAsk
    <2>4. row' \in [Ops -> Rows]
      BY <1>6, <2>3 DEF RequestCancel, TypeInv
    <2>5. asked' \in [Ops -> BOOLEAN]
      BY <1>6 DEF RequestCancel, TypeInv
    <2> QED
      BY <1>6, <2>4, <2>5 DEF TypeInv, RequestCancel, MaxFaults
  <1>7. CASE Reap(o)
    <2>1. [row[o] EXCEPT !.state = "reaped"] \in Rows
      BY RowReap DEF TypeInv, States
    <2> QED
      BY <1>7, <2>1 DEF TypeInv, Reap, MaxFaults, history
  <1> QED
    BY <1>1, <1>2, <1>3, <1>4, <1>5, <1>6, <1>7

LEMMA TypeSweep ==
    ASSUME TypeInv, Recover \/ RecoverEnqueues
    PROVE  TypeInv'
  <1>1. CASE Recover
    BY <1>1 DEF TypeInv, Recover, MaxFaults, history
  <1>2. CASE RecoverEnqueues
    <2>1. \A o \in Ops : Offered(item[o], 0) \in Items
      BY OfferedItem DEF TypeInv
    <2> QED
      BY <1>2, <2>1 DEF TypeInv, RecoverEnqueues, MaxFaults, history
  <1> QED
    BY <1>1, <1>2

LEMMA TypeClaim ==
    ASSUME TypeInv, NEW w \in Workers, NEW o \in Ops, Claim(w, o)
    PROVE  TypeInv'
  <1> DEFINE a == IF item[o].attempts < MaxAttempts THEN item[o].attempts + 1 ELSE item[o].attempts
             it == [item[o] EXCEPT !.holder = w, !.lease = Lease, !.attempts = a]
             s == [Idle EXCEPT !.pc = "claimed", !.op = o, !.attempts = item'[o].attempts]
  <1>1. item[o] \in Items /\ Lease \in 0 .. Lease
    BY Numbers DEF TypeInv
  <1>2. a \in 0 .. MaxAttempts
    BY <1>1, Numbers DEF Items
  <1>3. item' = [item EXCEPT ![o] = it]
    BY DEF Claim
  <1> HIDE DEF a
  <1>4. it \in Items
    BY <1>1, <1>2, ItemClaim
  <1> HIDE DEF it
  <1>5. item' \in [Ops -> Items] /\ item'[o].attempts \in 0 .. MaxAttempts
    BY <1>3, <1>4 DEF TypeInv, Items
  <1>6. s \in Slots
    BY <1>5, Constructed, SlotClaims DEF Steps
  <1>7. s.op = o
    BY Constructed DEF Slots
  <1>8. work' = [work EXCEPT ![w] = s]
    BY DEF Claim
  <1> HIDE DEF s
  <1>9. work' \in [Workers -> Slots] /\ \A v \in Workers : work'[v].pc # "idle" => work'[v].op \in Ops
    BY <1>6, <1>7, <1>8, SlotStep
  <1> QED
    BY <1>5, <1>9 DEF TypeInv, Claim, MaxFaults, history

LEMMA TypeExecute ==
    ASSUME TypeInv, NEW w \in Workers, execute(w) \/ executeFails(w)
    PROVE  TypeInv'
  <1> DEFINE run == [work[w] EXCEPT !.pc = "running", !.write = Lease, !.elapsed = 0]
             end == [work[w] EXCEPT !.pc = "complete", !.write = Lease, !.elapsed = 0]
  <1>1. work[w] \in Slots /\ work[w].op \in Ops /\ Lease \in 0 .. Lease
    BY Numbers DEF TypeInv, execute, executeFails
  <1>2. run \in Slots /\ end \in Slots
    BY <1>1, SlotBegins DEF Steps
  <1>3. run.op = work[w].op /\ end.op = work[w].op
    BY <1>1 DEF Slots
  <1>4. work' = [work EXCEPT ![w] = run] \/ work' = [work EXCEPT ![w] = end]
    BY DEF execute, executeFails
  <1> HIDE DEF run, end
  <1>5. work' \in [Workers -> Slots] /\ \A v \in Workers : work'[v].pc # "idle" => work'[v].op \in Ops
    BY <1>1, <1>2, <1>3, <1>4, SlotStep
  <1>6. Begun(row[work[w].op]) \in Rows
    BY <1>1, BegunRow DEF TypeInv
  <1>7. row' \in [Ops -> Rows] /\ owner' \in [Ops -> Workers \cup {NoWorker}]
    BY <1>1, <1>6 DEF TypeInv, execute, executeFails
  <1>8. faults' \in 0 .. MaxFaults
    BY FleetType DEF TypeInv, execute, executeFails
  <1> QED
    BY <1>5, <1>7, <1>8 DEF TypeInv, execute, executeFails, MaxFaults

LEMMA TypeFlush ==
    ASSUME TypeInv, NEW w \in Workers, flush(w)
    PROVE  TypeInv'
  <1> DEFINE s == [work[w] EXCEPT !.beat = 0]
  <1>1. work[w] \in Slots /\ work[w].op \in Ops
    BY DEF TypeInv, flush
  <1>2. s \in Slots
    BY <1>1, SlotBeats
  <1>3. s.op = work[w].op
    BY <1>1 DEF Slots
  <1>4. work' = [work EXCEPT ![w] = Learn(w, s)]
    BY DEF flush
  <1> HIDE DEF s
  <1>5. Learn(w, s) \in Slots /\ Learn(w, s).op = work[w].op
    BY <1>1, <1>2, <1>3, LearnSlot
  <1>6. work' \in [Workers -> Slots] /\ \A v \in Workers : work'[v].pc # "idle" => work'[v].op \in Ops
    BY <1>1, <1>4, <1>5, SlotStep
  <1>7. row' \in [Ops -> Rows]
    BY <1>1, FlushedRow DEF TypeInv, flush
  <1> QED
    BY <1>6, <1>7 DEF TypeInv, flush, MaxFaults, history

LEMMA TypeReturns ==
    ASSUME TypeInv, NEW w \in Workers, NEW outcome \in Outcomes, RunnerReturns(w, outcome)
    PROVE  TypeInv'
  <1> DEFINE p == IF outcome = "unknown" THEN "settle" ELSE "closing"
             v == IF outcome = "unknown" THEN "failed" ELSE work[w].verdict
             s == [work[w] EXCEPT !.outcome = outcome, !.pc = p, !.verdict = v]
  <1>1. work[w] \in Slots /\ work[w].op \in Ops /\ outcome \in Returned
    BY FleetType DEF TypeInv, RunnerReturns
  <1>2. p \in Steps /\ v \in Verdicts
    BY <1>1 DEF Steps, Verdicts, Slots, Terminal
  <1>3. work' = [work EXCEPT ![w] = s]
    BY DEF RunnerReturns
  <1> HIDE DEF p, v
  <1>4. s \in Slots
    BY <1>1, <1>2, SlotReturns
  <1>5. s.op = work[w].op
    BY <1>1 DEF Slots
  <1> HIDE DEF s
  <1>6. work' \in [Workers -> Slots] /\ \A u \in Workers : work'[u].pc # "idle" => work'[u].op \in Ops
    BY <1>1, <1>3, <1>4, <1>5, SlotStep
  <1>7. errors' \in [Ops -> Nat]
    BY DEF RunnerReturns, TypeInv
  <1> QED
    BY <1>6, <1>7 DEF TypeInv, RunnerReturns, MaxFaults

LEMMA TypeClose ==
    ASSUME TypeInv, NEW w \in Workers, close(w) \/ flushFails(w)
    PROVE  TypeInv'
  <1>1. work[w] \in Slots
    BY DEF TypeInv
  <1>2. CASE close(w)
    <2> DEFINE told == Learn(w, work[w])
               s == [told EXCEPT !.pc = "settle", !.verdict = Verdict(told)]
    <2>1. work[w].op \in Ops
      BY <1>2 DEF TypeInv, close
    <2>2. told \in Slots /\ told.op = work[w].op
      BY <1>1, <2>1, LearnSlot
    <2>3. work' = [work EXCEPT ![w] = s]
      BY <1>2 DEF close
    <2> HIDE DEF told
    <2>4. s \in Slots
      BY <2>2, VerdictType, SlotSettles DEF Steps
    <2>5. s.op = work[w].op
      BY <2>2 DEF Slots
    <2> HIDE DEF s
    <2>6. work' \in [Workers -> Slots] /\ \A u \in Workers : work'[u].pc # "idle" => work'[u].op \in Ops
      BY <2>1, <2>3, <2>4, <2>5, SlotStep
    <2>7. row' \in [Ops -> Rows]
      BY <1>2, <2>1, FlushedRow DEF TypeInv, close
    <2> QED
      BY <1>2, <2>6, <2>7 DEF TypeInv, close, MaxFaults, history
  <1>3. CASE flushFails(w)
    <2> DEFINE s == [work[w] EXCEPT !.pc = "settle", !.verdict = Verdict(work[w])]
               t == [work[w] EXCEPT !.beat = 0]
    <2>1. s \in Slots /\ t \in Slots
      BY <1>1, VerdictType, SlotSettles, SlotBeats DEF Steps
    <2>2. s.op = work[w].op /\ t.op = work[w].op /\ work[w].op \in Ops
      BY <1>1, <1>3 DEF Slots, TypeInv, flushFails
    <2>3. work' = [work EXCEPT ![w] = s] \/ work' = [work EXCEPT ![w] = t]
      BY <1>3 DEF flushFails
    <2> HIDE DEF s, t
    <2>4. work' \in [Workers -> Slots] /\ \A u \in Workers : work'[u].pc # "idle" => work'[u].op \in Ops
      BY <2>1, <2>2, <2>3, SlotStep
    <2> QED
      BY <1>3, <2>4, FleetType DEF TypeInv, flushFails, MaxFaults, history
  <1> QED
    BY <1>2, <1>3

LEMMA TypeSettle ==
    ASSUME TypeInv, NEW w \in Workers, Finish(w) \/ Release(w) \/ abandon(w)
    PROVE  TypeInv'
  <1> DEFINE o == work[w].op
             s(p) == [work[w] EXCEPT !.pc = p]
  <1>1. work[w] \in Slots /\ o \in Ops /\ row[o] \in Rows
    BY DEF TypeInv, Finish, Release, abandon
  <1>2. s("complete") \in Slots /\ s("handback") \in Slots
    BY <1>1, SlotGoes DEF Steps
  <1>3. s("complete").op = o /\ s("handback").op = o
    BY <1>1 DEF Slots
  <1>4. work' = [work EXCEPT ![w] = s("complete")] \/ work' = [work EXCEPT ![w] = s("handback")]
    BY DEF Finish, Release, abandon
  <1>5. work' \in [Workers -> Slots] /\ \A u \in Workers : work'[u].pc # "idle" => work'[u].op \in Ops
    <2> HIDE DEF o, s
    <2> QED
      BY <1>1, <1>2, <1>3, <1>4, SlotStep
  <1>6. CASE Finish(w)
    <2>1. work[w].verdict \in States /\ Epoch \in Epoch .. Lease
      BY <1>6, Numbers DEF Finish, States
    <2>2. [row[o] EXCEPT !.state = work[w].verdict, !.lease = Epoch, !.age = 0] \in Rows
      BY <1>1, <2>1, RowEnd
    <2>3. row' \in [Ops -> Rows]
      BY <1>6, <2>2 DEF Finish, TypeInv
    <2>4. record' \in [Ops -> Entries]
      <3>1. [by |-> w, how |-> work[w].outcome] \in Entries
        BY <1>1 DEF Entries, Slots
      <3> QED
        BY <1>6, <3>1 DEF Finish, TypeInv
    <2> QED
      BY <1>5, <1>6, <2>3, <2>4 DEF TypeInv, Finish, MaxFaults
  <1>7. CASE Release(w)
    <2>1. "pending" \in States /\ Epoch \in Epoch .. Lease
      BY Numbers DEF States, Active
    <2>2. [row[o] EXCEPT !.state = "pending", !.lease = Epoch] \in Rows
      BY <1>1, <2>1, RowMove
    <2> QED
      BY <1>5, <1>7, <2>2 DEF TypeInv, Release, MaxFaults, history
  <1>8. CASE abandon(w)
    BY <1>5, <1>8 DEF TypeInv, abandon, MaxFaults, history
  <1> QED
    BY <1>6, <1>7, <1>8

LEMMA TypeEnds ==
    ASSUME TypeInv, NEW w \in Workers,
           HandBack(w) \/ complete(w) \/ Undispatched(w) \/ Crash(w) \/ Stop(w) \/ writeFails(w)
    PROVE  TypeInv'
  <1>1. work[w] \in Slots /\ work[w].op \in Ops /\ item[work[w].op] \in Items
    BY DEF TypeInv, HandBack, complete, Undispatched, Crash, Stop, writeFails
  <1>2. CASE work' = [work EXCEPT ![w] = Idle]
    <2>1. work' \in [Workers -> Slots] /\ \A u \in Workers : work'[u].pc # "idle" => work'[u].op \in Ops
      BY <1>2, Constructed, SlotStep
    <2>2. [item[work[w].op] EXCEPT !.holder = NoWorker, !.lease = 0, !.avail = RetryDelay] \in Items
      <3>1. NoWorker \in Workers \cup {NoWorker} /\ 0 \in 0 .. Lease /\ RetryDelay \in Nat
        BY Numbers
      <3> QED
        BY <1>1, <3>1, ItemBack
    <2>3. item' \in [Ops -> Items]
      BY <1>1, <2>2, Constructed DEF TypeInv, HandBack, complete, Undispatched, Crash, Stop, writeFails
    <2>4. faults' \in 0 .. MaxFaults
      BY FleetType DEF TypeInv, HandBack, complete, Undispatched, Crash, Stop, writeFails
    <2> QED
      BY <2>1, <2>3, <2>4
         DEF TypeInv, HandBack, complete, Undispatched, Crash, Stop, writeFails, MaxFaults, history
  <1>3. CASE Stop(w)
    <2> DEFINE s == [work[w] EXCEPT !.stopping = TRUE]
    <2>1. s \in Slots
      BY <1>1, SlotStops
    <2>2. s.op = work[w].op
      BY <1>1 DEF Slots
    <2>3. work' = [work EXCEPT ![w] = s]
      BY <1>3 DEF Stop
    <2> HIDE DEF s
    <2>4. work' \in [Workers -> Slots] /\ \A u \in Workers : work'[u].pc # "idle" => work'[u].op \in Ops
      BY <1>1, <2>1, <2>2, <2>3, SlotStep
    <2> QED
      BY <1>3, <2>4, FleetType DEF TypeInv, Stop, MaxFaults, history
  <1>4. CASE writeFails(w)
    <2> DEFINE p == IF work[w].verdict = "retry" THEN "handback" ELSE "complete"
               s == [work[w] EXCEPT !.pc = p]
    <2>1. work' = [work EXCEPT ![w] = s] \/ work' = [work EXCEPT ![w] = Idle]
      BY <1>4 DEF writeFails
    <2>2. p \in Steps
      BY DEF Steps
    <2> HIDE DEF p
    <2>3. s \in Slots
      BY <1>1, <2>2, SlotGoes
    <2>4. s.op = work[w].op
      BY <1>1 DEF Slots
    <2> HIDE DEF s
    <2>5. work' \in [Workers -> Slots] /\ \A u \in Workers : work'[u].pc # "idle" => work'[u].op \in Ops
      BY <1>1, <2>1, <2>3, <2>4, Constructed, SlotStep
    <2> QED
      BY <1>4, <2>5, FleetType DEF TypeInv, writeFails, MaxFaults, history
  <1> QED
    BY <1>2, <1>3, <1>4 DEF HandBack, complete, Undispatched, Crash

LEMMA TypeTick ==
    ASSUME TypeInv, Tick
    PROVE  TypeInv'
  <1>1. row' \in [Ops -> Rows]
    <2> SUFFICES ASSUME NEW o \in Ops PROVE row'[o] \in Rows
      BY DEF Tick
    <2> DEFINE n == Down(row[o].lease, Epoch)
               age == Up(row[o].age, Later(RecoverAfter, Retention))
    <2>1. row[o] \in Rows
      BY DEF TypeInv
    <2>2. n \in Epoch .. Lease /\ age \in Nat
      BY <2>1, Numbers DEF Rows, Down, Up, Later
    <2>3. row'[o] = row[o] \/ row'[o] = [row[o] EXCEPT !.lease = n, !.age = age]
      BY DEF Tick
    <2> HIDE DEF n, age
    <2> QED
      BY <2>1, <2>2, <2>3, RowTick
  <1>2. item' \in [Ops -> Items]
    <2> SUFFICES ASSUME NEW o \in Ops PROVE item'[o] \in Items
      BY DEF Tick
    <2> DEFINE n == Down(item[o].lease, 0)
               av == Down(item[o].avail, 0)
    <2>1. item[o] \in Items
      BY DEF TypeInv
    <2>2. n \in 0 .. Lease /\ av \in Nat
      BY <2>1, Numbers DEF Items, Down
    <2>3. item'[o] = [item[o] EXCEPT !.lease = n, !.avail = av]
      BY DEF Tick
    <2> HIDE DEF n, av
    <2> QED
      BY <2>1, <2>2, <2>3, ItemTick
  <1>3. \A w \in Workers : work'[w] \in Slots /\ (work'[w].pc # "idle" => work'[w].op \in Ops)
    <2> SUFFICES ASSUME NEW w \in Workers
                 PROVE  work'[w] \in Slots /\ (work'[w].pc # "idle" => work'[w].op \in Ops)
      OBVIOUS
    <2> DEFINE n == Down(work[w].write, 0)
               e == CASE work[w].pc = "claimed" -> Up(work[w].elapsed, MaxWait)
                      [] work[w].pc = "running" -> Up(work[w].elapsed, MaxWork)
                      [] OTHER -> work[w].elapsed
               bt == IF Timely /\ work[w].pc = "running" THEN Up(work[w].beat, ProgressInterval) ELSE work[w].beat
    <2>1. work[w] \in Slots /\ (work[w].pc # "idle" => work[w].op \in Ops)
      BY DEF TypeInv
    <2>2. n \in 0 .. Lease /\ e \in Nat /\ bt \in Nat
      <3>1. work[w].elapsed \in Nat /\ work[w].beat \in Nat /\ work[w].write \in 0 .. Lease
        BY <2>1 DEF Slots
      <3>2. \A k \in Nat : Up(k, MaxWait) \in Nat /\ Up(k, MaxWork) \in Nat /\ Up(k, ProgressInterval) \in Nat
        BY DEF Up
      <3>3. n \in 0 .. Lease
        BY <3>1, Numbers DEF Down
      <3>4. e \in Nat
        <4>1. CASE work[w].pc = "claimed"
          BY <3>1, <3>2, <4>1
        <4>2. CASE work[w].pc = "running"
          BY <3>1, <3>2, <4>2
        <4>3. CASE work[w].pc \notin {"claimed", "running"}
          BY <3>1, <4>3
        <4> QED
          BY <4>1, <4>2, <4>3
      <3>5. bt \in Nat
        <4>1. CASE Timely /\ work[w].pc = "running"
          BY <3>1, <3>2, <4>1, Numbers
        <4>2. CASE ~(Timely /\ work[w].pc = "running")
          BY <3>1, <4>2, Zenon
        <4> QED
          BY <4>1, <4>2
      <3> QED
        BY <3>3, <3>4, <3>5
    <2>3. work'[w] = [work[w] EXCEPT !.write = n, !.elapsed = e, !.beat = bt]
      BY DEF Tick
    <2> HIDE DEF n, e, bt
    <2>4. work'[w] \in Slots
      <3>1. [work[w] EXCEPT !.write = n, !.elapsed = e, !.beat = bt] \in Slots
        BY <2>1, <2>2, SlotRuns
      <3> QED
        BY <2>3, <3>1
    <2>5. work'[w].pc = work[w].pc /\ work'[w].op = work[w].op
      BY <2>1, <2>3 DEF Slots
    <2> QED
      BY <2>1, <2>4, <2>5
  <1>4. work' \in [Workers -> Slots]
    BY <1>3 DEF Tick
  <1> QED
    BY <1>1, <1>2, <1>3, <1>4 DEF TypeInv, Tick, MaxFaults

LEMMA TypeNext == TypeInv /\ [ONext]_ovars => TypeInv'
  <1> SUFFICES ASSUME TypeInv, [ONext]_ovars PROVE TypeInv'
    OBVIOUS
  <1>1. CASE UNCHANGED ovars
    BY <1>1 DEF TypeInv, ovars, MaxFaults
  <1>2. CASE ONext
    BY <1>2, TypeService, TypeSweep, TypeClaim, TypeExecute, TypeFlush, TypeReturns, TypeClose,
       TypeSettle, TypeEnds, TypeTick
       DEF ONext, WorkerStep, Faulty
  <1> QED
    BY <1>1, <1>2

\* The table, the queue's items and the slots keep their types.
THEOREM OperationsTypes == OSafety => []OTypeOK
  <1>1. TypeInv => OTypeOK
    BY DEF TypeInv, OTypeOK, Rows, States, Items
  <1> QED
    BY <1>1, TypeInit, TypeNext, PTL DEF OSafety

-----------------------------------------------------------------------------
(* What Begin and the clock do, field by field.                            *)

\* w has begun o: the row is running under a full lease, and w owns it.
Took(w, o) ==
    /\ row[o].state \in Active /\ row[o].lease <= 0
    /\ row'[o].state = "running" /\ row'[o].lease = Lease /\ row'[o].cancel = row[o].cancel
    /\ owner'[o] = w
    /\ \A p \in Ops \ {o} : row'[p] = row[p] /\ owner'[p] = owner[p]

LEMMA Executes ==
    ASSUME TypeInv, NEW w \in Workers, execute(w) \/ executeFails(w)
    PROVE  /\ work[w].pc = "claimed" /\ work[w].op \in Ops
           /\ \A v \in Workers \ {w} : work'[v] = work[v]
           /\ work'[w].op = work[w].op /\ work'[w].beat = work[w].beat /\ work'[w].write = Lease
           /\ \/ work'[w].pc = "running" /\ Took(w, work[w].op)
              \/ work'[w].pc = "complete" /\ Took(w, work[w].op)
              \/ work'[w].pc = "complete" /\ UNCHANGED <<row, owner>>
           /\ UNCHANGED <<fleet, record, asked>>
  <1> DEFINE o == work[w].op
  <1>1. work[w].pc = "claimed" /\ o \in Ops /\ row[o] \in Rows
    BY DEF TypeInv, execute, executeFails
  <1>2. ASSUME row' = [row EXCEPT ![o] = Begun(@)], owner' = [owner EXCEPT ![o] = w], Beginable(row[o])
        PROVE  Took(w, o)
    BY <1>1, <1>2, BegunRow DEF Took, TypeInv, Beginable
  <1>3. /\ \A v \in Workers \ {w} : work'[v] = work[v]
        /\ work'[w].op = o /\ work'[w].beat = work[w].beat /\ work'[w].write = Lease
    BY DEF TypeInv, Slots, execute, executeFails
  <1>4. \/ work'[w].pc = "running" /\ Took(w, o)
        \/ work'[w].pc = "complete" /\ Took(w, o)
        \/ work'[w].pc = "complete" /\ UNCHANGED <<row, owner>>
    <2>1. CASE execute(w) /\ Beginable(row[o])
      <3>1. work'[w].pc = "running"
        BY <2>1 DEF TypeInv, Slots, execute
      <3> QED
        BY <1>2, <2>1, <3>1 DEF execute
    <2>2. CASE execute(w) /\ ~Beginable(row[o])
      BY <2>2 DEF TypeInv, Slots, execute
    <2>3. CASE executeFails(w)
      <3>1. work'[w].pc = "complete"
        BY <2>3 DEF TypeInv, Slots, executeFails
      <3> QED
        BY <1>2, <2>3, <3>1 DEF executeFails
    <2> QED
      BY <2>1, <2>2, <2>3
  <1> QED
    BY <1>1, <1>3, <1>4 DEF execute, executeFails

LEMMA Returns ==
    ASSUME TypeInv, NEW w \in Workers, NEW outcome \in Outcomes, RunnerReturns(w, outcome)
    PROVE  /\ work[w].pc = "running" /\ work[w].op \in Ops
           /\ \A v \in Workers \ {w} : work'[v] = work[v]
           /\ work'[w].op = work[w].op /\ work'[w].beat = work[w].beat /\ work'[w].write = work[w].write
           /\ work'[w].outcome = outcome
           /\ work'[w].pc \in {"closing", "settle"}
           /\ work'[w].pc = "settle" => outcome = "unknown"
           /\ UNCHANGED <<fleet, row, owner, record, asked>>
  <1> DEFINE p == IF outcome = "unknown" THEN "settle" ELSE "closing"
             v == IF outcome = "unknown" THEN "failed" ELSE work[w].verdict
             s == [work[w] EXCEPT !.outcome = outcome, !.pc = p, !.verdict = v]
  <1>1. work[w] \in Slots /\ work[w].pc = "running" /\ work[w].op \in Ops
    BY DEF TypeInv, RunnerReturns
  <1>2. p \in {"closing", "settle"} /\ (p = "settle" => outcome = "unknown")
    OBVIOUS
  <1>3. work' = [work EXCEPT ![w] = s] /\ work \in [Workers -> Slots]
    BY DEF RunnerReturns, TypeInv
  <1> HIDE DEF p, v
  <1>4. s.op = work[w].op /\ s.beat = work[w].beat /\ s.write = work[w].write /\ s.outcome = outcome /\ s.pc = p
    BY <1>1 DEF Slots
  <1> HIDE DEF s
  <1>5. work'[w] = s /\ \A u \in Workers \ {w} : work'[u] = work[u]
    BY <1>3
  <1> QED
    BY <1>1, <1>2, <1>4, <1>5 DEF RunnerReturns

LEMMA Closes ==
    ASSUME TypeInv, NEW w \in Workers, close(w)
    PROVE  /\ work[w].pc = "closing" /\ work[w].op \in Ops
           /\ \A v \in Workers \ {w} : work'[v] = work[v]
           /\ work'[w].op = work[w].op /\ work'[w].beat = work[w].beat /\ work'[w].write = work[w].write
           /\ work'[w].pc = "settle"
           /\ row[work[w].op].state = "running" /\ row[work[w].op].cancel =>
                 work'[w].verdict \in {"cancelled", "abandon"}
           /\ row' = [row EXCEPT ![work[w].op] = Flushed(@)]
           /\ UNCHANGED <<fleet, owner, record, asked>>
  <1> DEFINE told == Learn(w, work[w])
             s == [told EXCEPT !.pc = "settle", !.verdict = Verdict(told)]
             o == work[w].op
  <1>1. work[w] \in Slots /\ work[w].pc = "closing" /\ o \in Ops
    BY DEF TypeInv, close
  <1>2. /\ told \in Slots /\ told.op = o /\ told.beat = work[w].beat /\ told.write = work[w].write
        /\ row[o].state = "running" /\ row[o].cancel => told.cancelled
    BY <1>1, LearnSlot
  <1>3. work' = [work EXCEPT ![w] = s] /\ work \in [Workers -> Slots]
    BY DEF close, TypeInv
  <1>4. told.cancelled => Verdict(told) \in {"cancelled", "abandon"}
    BY DEF Verdict
  <1> HIDE DEF told
  <1>5. s.op = told.op /\ s.beat = told.beat /\ s.write = told.write /\ s.pc = "settle" /\ s.verdict = Verdict(told)
    BY <1>2 DEF Slots
  <1> HIDE DEF s
  <1>6. work'[w] = s /\ \A u \in Workers \ {w} : work'[u] = work[u]
    BY <1>3
  <1> QED
    BY <1>1, <1>2, <1>4, <1>5, <1>6 DEF close, history

LEMMA Ticks ==
    ASSUME TypeInv, Tick
    PROVE  /\ Timely => KeepsUp
           /\ \A o \in Ops :
                 /\ row'[o].state = row[o].state /\ row'[o].cancel = row[o].cancel
                 /\ row'[o].lease = row[o].lease \/ row'[o].lease = row[o].lease - 1
           /\ \A w \in Workers :
                 /\ work'[w].pc = work[w].pc /\ work'[w].op = work[w].op
                 /\ work'[w].verdict = work[w].verdict /\ work'[w].outcome = work[w].outcome
                 /\ work'[w].write = Down(work[w].write, 0)
                 /\ work[w].pc # "running" => work'[w].beat = work[w].beat
                 /\ work[w].pc = "running" /\ Timely => work'[w].beat = Up(work[w].beat, ProgressInterval)
           /\ UNCHANGED <<fleet, owner, record, asked>>
  <1>1. ASSUME NEW o \in Ops
        PROVE  /\ row'[o].state = row[o].state /\ row'[o].cancel = row[o].cancel
               /\ row'[o].lease = row[o].lease \/ row'[o].lease = row[o].lease - 1
    BY Numbers DEF Tick, TypeInv, Rows, Down
  <1>2. ASSUME NEW w \in Workers
        PROVE  /\ work'[w].pc = work[w].pc /\ work'[w].op = work[w].op
               /\ work'[w].verdict = work[w].verdict /\ work'[w].outcome = work[w].outcome
               /\ work'[w].write = Down(work[w].write, 0)
               /\ work[w].pc # "running" => work'[w].beat = work[w].beat
               /\ work[w].pc = "running" /\ Timely => work'[w].beat = Up(work[w].beat, ProgressInterval)
    BY DEF Tick, TypeInv, Slots
  <1> QED
    BY <1>1, <1>2 DEF Tick

-----------------------------------------------------------------------------
(* A terminal operation stays terminal.                                    *)

\* Once an operation is terminal no straggler, retry, cancellation or sweep
\* changes its state; only retention removes it.
THEOREM TerminalStays == OSafety => TerminalIsFinal
  <1> DEFINE Final == \A o \in Ops : row[o].state \in Terminal => row'[o].state \in {row[o].state, "reaped"}
  <1>1. TypeInv /\ [ONext]_ovars => [Final]_ovars
    <2> SUFFICES ASSUME TypeInv, ONext, NEW p \in Ops, row[p].state \in Terminal
                 PROVE  row'[p].state \in {row[p].state, "reaped"}
      BY DEF ovars
    <2>0. ~(row[p].state \in Active \cup {"none"})
      BY DEF Active, Terminal
    <2>1. ASSUME NEW o \in Ops,
                 (\E d \in StartDelays : Start(o, d)) \/ StartInTransaction(o) \/ RequestCancel(o) \/ Reap(o)
          PROVE  row'[p].state \in {row[p].state, "reaped"}
      <3>1. CASE (\E d \in StartDelays : Start(o, d)) \/ StartInTransaction(o) \/ RequestCancel(o)
        <4>1. o # p
          BY <2>0, <3>1 DEF Start, StartInTransaction, RequestCancel
        <4>2. row'[p] = row[p]
          BY <3>1, <4>1 DEF TypeInv, Start, StartInTransaction, RequestCancel
        <4> QED
          BY <4>2
      <3>2. CASE Reap(o)
        BY <3>2 DEF TypeInv, Rows, Reap
      <3> QED
        BY <2>1, <3>1, <3>2
    <2>2. ASSUME NEW w \in Workers, execute(w) \/ executeFails(w)
          PROVE  row'[p].state \in {row[p].state, "reaped"}
      BY <2>0, <2>2, Executes DEF Took
    <2>3. ASSUME NEW w \in Workers, flush(w) \/ close(w)
          PROVE  row'[p].state \in {row[p].state, "reaped"}
      BY <2>3, FlushedRow DEF TypeInv, flush, close
    <2>4. ASSUME NEW w \in Workers, Finish(w) \/ Release(w)
          PROVE  row'[p].state \in {row[p].state, "reaped"}
      BY <2>0, <2>4 DEF TypeInv, Rows, Finish, Release, Finishable, Held, Active
    <2>5. CASE Tick
      BY <2>5, Ticks
    <2>6. CASE UNCHANGED row
      BY <2>6
    <2> QED
      BY <2>1, <2>2, <2>3, <2>4, <2>5, <2>6
         DEF ONext, WorkerStep, Faulty, enqueue, EnqueueLost, Enqueue, Recover, RecoverEnqueues, Claim,
             Undispatched, RunnerReturns, flushFails, abandon, HandBack, complete, writeFails, Stop, Crash
  <1>2. TerminalIsFinal <=> [][Final]_ovars
    BY DEF TerminalIsFinal
  <1> HIDE DEF Final
  <1> QED
    BY <1>1, <1>2, TypeInit, TypeNext, PTL DEF OSafety

-----------------------------------------------------------------------------
(* A straggler records nothing over its successor.                         *)

\* A slot whose write deadline has not passed owns its row, which is running
\* under a lease that reaches the deadline.
Fence ==
    \A w \in Workers : Executing(w) /\ work[w].write > 0 =>
        /\ owner[work[w].op] = w
        /\ row[work[w].op].state = "running"
        /\ row[work[w].op].lease >= work[w].write

\* An outcome is recorded of nothing that is still to run.
Settled == \A o \in Ops : record[o].by # NoWorker => row[o].state \in Terminal \cup {"reaped"}

OwnerInv == Fence /\ Settled /\ RecordedByOwner

LEMMA OwnerInit == OInit => OwnerInv
  BY DEF OInit, OwnerInv, Fence, Settled, RecordedByOwner, Executing, Idle, NoOperation, Terminal

LEMMA OwnerService ==
    ASSUME TypeInv, OwnerInv, NEW o \in Ops,
           \/ \E d \in StartDelays : Start(o, d)
           \/ StartInTransaction(o) \/ RequestCancel(o) \/ Reap(o)
    PROVE  OwnerInv'
  <1> USE DEF OwnerInv, Fence, Settled, RecordedByOwner, Executing, Active, Terminal
  <1>1. ASSUME NEW d \in StartDelays, Start(o, d) PROVE OwnerInv'
    BY <1>1 DEF TypeInv, Start, NoOperation, Rows
  <1>2. CASE StartInTransaction(o)
    BY <1>2 DEF TypeInv, StartInTransaction, NoOperation, Rows, history
  <1>3. CASE RequestCancel(o)
    BY <1>3, Numbers DEF TypeInv, RequestCancel, Rows
  <1>4. CASE Reap(o)
    BY <1>4 DEF TypeInv, Reap, Rows, history
  <1> QED
    BY <1>1, <1>2, <1>3, <1>4

LEMMA OwnerExecute ==
    ASSUME TypeInv, OwnerInv, NEW w \in Workers, execute(w) \/ executeFails(w)
    PROVE  OwnerInv'
  <1> DEFINE o == work[w].op
  <1>1. /\ work[w].pc = "claimed" /\ o \in Ops
        /\ \A v \in Workers \ {w} : work'[v] = work[v]
        /\ work'[w].op = o /\ work'[w].write = Lease
        /\ record' = record
    BY Executes
  <1>2. CASE Took(w, o)
    \* Nobody in time has o: its lease has lapsed.
    <2>1. ASSUME NEW v \in Workers, v # w, Executing(v), work[v].write > 0 PROVE work[v].op # o
      <3>1. row[work[v].op].lease >= work[v].write
        BY <2>1 DEF OwnerInv, Fence
      <3>2. work[v].write \in Int /\ row[o].lease \in Int
        BY <1>1, Numbers DEF TypeInv, Slots, Rows
      <3> QED
        BY <1>2, <2>1, <3>1, <3>2 DEF Took
    <2>2. Fence'
      <3> SUFFICES ASSUME NEW v \in Workers, Executing(v)', work'[v].write > 0
                   PROVE  /\ owner'[work'[v].op] = v
                          /\ row'[work'[v].op].state = "running"
                          /\ row'[work'[v].op].lease >= work'[v].write
        BY DEF Fence
      <3>1. CASE v = w
        BY <1>1, <1>2, <3>1, Numbers DEF Took
      <3>2. CASE v # w
        <4>1. work'[v] = work[v] /\ Executing(v) /\ work[v].op \in Ops
          BY <1>1, <3>2 DEF Executing, TypeInv
        <4>2. work[v].op # o
          BY <2>1, <3>2, <4>1
        <4> QED
          BY <1>2, <4>1, <4>2 DEF Took, OwnerInv, Fence
      <3> QED
        BY <3>1, <3>2
    <2>3. Settled' /\ RecordedByOwner'
      <3>1. record[o].by = NoWorker
        BY <1>1, <1>2 DEF OwnerInv, Settled, Took, Active, Terminal
      <3> QED
        BY <1>1, <1>2, <3>1 DEF OwnerInv, Settled, RecordedByOwner, Took, Terminal
    <2> QED
      BY <2>2, <2>3 DEF OwnerInv
  <1>3. CASE work'[w].pc = "complete" /\ UNCHANGED <<row, owner>>
    BY <1>1, <1>3 DEF OwnerInv, Fence, Settled, RecordedByOwner, Executing
  <1> QED
    BY <1>2, <1>3, Executes

LEMMA OwnerRuns ==
    ASSUME TypeInv, OwnerInv, NEW w \in Workers,
           flush(w) \/ close(w) \/ flushFails(w) \/ (\E outcome \in Outcomes : RunnerReturns(w, outcome))
    PROVE  OwnerInv'
  <1> USE DEF OwnerInv, Fence, Settled, RecordedByOwner, Executing, Terminal
  <1>1. CASE flush(w)
    BY <1>1, Numbers DEF TypeInv, flush, Flushed, Held, Learn, Slots, Rows, history
  <1>2. CASE close(w)
    BY <1>2, Numbers DEF TypeInv, close, Flushed, Held, Learn, Slots, Rows, history
  <1>3. CASE flushFails(w)
    <2>1. /\ \A v \in Workers \ {w} : work'[v] = work[v]
          /\ work[w].pc \in {"running", "closing"}
          /\ work'[w].op = work[w].op /\ work'[w].write = work[w].write
      BY <1>3 DEF TypeInv, flushFails, Slots
    <2> QED
      BY <1>3, <2>1 DEF flushFails, history
  <1>4. ASSUME NEW outcome \in Outcomes, RunnerReturns(w, outcome) PROVE OwnerInv'
    BY <1>4, Returns
  <1> QED
    BY <1>1, <1>2, <1>3, <1>4

LEMMA OwnerSettles ==
    ASSUME TypeInv, OwnerInv, NEW w \in Workers, Finish(w) \/ Release(w) \/ abandon(w)
    PROVE  OwnerInv'
  <1> USE DEF OwnerInv, Fence, Settled, RecordedByOwner, Executing, Active, Terminal
  <1>1. CASE Finish(w)
    BY <1>1, Numbers DEF TypeInv, Finish, InTime, Finishable, Slots, Rows, Entries
  <1>2. CASE Release(w)
    BY <1>2, Numbers DEF TypeInv, Release, InTime, Held, Slots, Rows, history
  <1>3. CASE abandon(w)
    BY <1>3 DEF TypeInv, abandon, Slots, history
  <1> QED
    BY <1>1, <1>2, <1>3

\* A slot that claims, ends, stops or is freed executes nothing that it did not
\* execute before.
LEMMA SlotEnds ==
    ASSUME TypeInv, NEW w \in Workers,
           \/ \E o \in Ops : Claim(w, o)
           \/ HandBack(w) \/ complete(w) \/ Undispatched(w) \/ writeFails(w) \/ Stop(w) \/ Crash(w)
    PROVE  /\ \A v \in Workers \ {w} : work'[v] = work[v]
           /\ Executing(w)' =>
                 /\ work'[w].pc = work[w].pc /\ work'[w].op = work[w].op
                 /\ work'[w].write = work[w].write /\ work'[w].beat = work[w].beat
                 /\ work'[w].verdict = work[w].verdict /\ work'[w].outcome = work[w].outcome
           /\ work'[w].pc = "claimed" => work'[w].beat = 0 \/ (work[w].pc = "claimed" /\ work'[w].beat = work[w].beat)
           /\ UNCHANGED <<fleet, row, owner, record, asked>>
  <1>1. UNCHANGED <<fleet, row, owner, record, asked>>
    BY DEF Claim, HandBack, complete, Undispatched, writeFails, Stop, Crash, history
  <1>2. ASSUME NEW o \in Ops, Claim(w, o)
        PROVE  work'[w].pc = "claimed" /\ work'[w].beat = 0 /\ \A v \in Workers \ {w} : work'[v] = work[v]
    BY <1>2 DEF TypeInv, Claim, Idle
  <1>3. ASSUME work' = [work EXCEPT ![w] = Idle]
        PROVE  work'[w].pc = "idle" /\ \A v \in Workers \ {w} : work'[v] = work[v]
    BY <1>3, Constructed DEF TypeInv
  <1>4. ASSUME writeFails(w), work' # [work EXCEPT ![w] = Idle]
        PROVE  work'[w].pc \in {"handback", "complete"} /\ \A v \in Workers \ {w} : work'[v] = work[v]
    BY <1>4 DEF TypeInv, writeFails, Slots
  <1>5. ASSUME Stop(w)
        PROVE  /\ work'[w].pc = work[w].pc /\ work'[w].op = work[w].op
               /\ work'[w].write = work[w].write /\ work'[w].beat = work[w].beat
               /\ work'[w].verdict = work[w].verdict /\ work'[w].outcome = work[w].outcome
               /\ \A v \in Workers \ {w} : work'[v] = work[v]
    BY <1>5 DEF TypeInv, Stop, Slots
  <1>6. \/ work' = [work EXCEPT ![w] = Idle] \/ (\E o \in Ops : Claim(w, o)) \/ Stop(w)
        \/ writeFails(w) /\ work' # [work EXCEPT ![w] = Idle]
    BY DEF HandBack, complete, Undispatched, Crash
  <1> QED
    BY <1>1, <1>2, <1>3, <1>4, <1>5, <1>6 DEF Executing

LEMMA OwnerEnds ==
    ASSUME TypeInv, OwnerInv, NEW w \in Workers,
           \/ \E o \in Ops : Claim(w, o)
           \/ HandBack(w) \/ complete(w) \/ Undispatched(w) \/ writeFails(w) \/ Stop(w) \/ Crash(w)
    PROVE  OwnerInv'
  BY SlotEnds DEF OwnerInv, Fence, Settled, RecordedByOwner, Executing

LEMMA OwnerTick == ASSUME TypeInv, OwnerInv, Tick PROVE OwnerInv'
  <1>1. Fence'
    <2> SUFFICES ASSUME NEW w \in Workers, Executing(w)', work'[w].write > 0
                 PROVE  /\ owner'[work'[w].op] = w
                        /\ row'[work'[w].op].state = "running"
                        /\ row'[work'[w].op].lease >= work'[w].write
      BY DEF Fence
    <2>1. /\ work'[w].pc = work[w].pc /\ work'[w].op = work[w].op /\ owner' = owner
          /\ work'[w].write = Down(work[w].write, 0)
      BY Ticks
    <2>2. work[w].op \in Ops /\ Executing(w) /\ work[w].write \in Nat
      BY <2>1, Numbers DEF TypeInv, Executing, Slots
    <2>3. work[w].write > 0 /\ work'[w].write = work[w].write - 1
      BY <2>1, <2>2 DEF Down
    <2>4. /\ owner[work[w].op] = w /\ row[work[w].op].state = "running"
          /\ row[work[w].op].lease >= work[w].write
      BY <2>2, <2>3 DEF OwnerInv, Fence
    <2>5. /\ row'[work[w].op].state = row[work[w].op].state
          /\ \/ row'[work[w].op].lease = row[work[w].op].lease
             \/ row'[work[w].op].lease = row[work[w].op].lease - 1
      BY <2>2, Ticks
    <2>6. row[work[w].op].lease \in Int
      BY <2>2, Numbers DEF TypeInv, Rows
    <2> QED
      BY <2>1, <2>2, <2>3, <2>4, <2>5, <2>6
  <1>2. Settled' /\ RecordedByOwner'
    BY Ticks DEF OwnerInv, Settled, RecordedByOwner
  <1> QED
    BY <1>1, <1>2 DEF OwnerInv

LEMMA OwnerNext == TypeInv /\ OwnerInv /\ [ONext]_ovars => OwnerInv'
  <1> SUFFICES ASSUME TypeInv, OwnerInv, [ONext]_ovars PROVE OwnerInv'
    OBVIOUS
  <1>1. CASE UNCHANGED <<row, work, owner, record>>
    BY <1>1 DEF OwnerInv, Fence, Settled, RecordedByOwner, Executing
  <1>2. CASE ~UNCHANGED <<row, work, owner, record>>
    BY <1>2, OwnerService, OwnerExecute, OwnerRuns, OwnerSettles, OwnerEnds, OwnerTick
       DEF ONext, WorkerStep, Faulty, ovars, enqueue, EnqueueLost, Enqueue, Recover, RecoverEnqueues, history
  <1> QED
    BY <1>1, <1>2

\* An outcome on the row was written by the worker that began the operation
\* last, although Finish matches any active row: the deadline of its writes
\* runs out no later than the lease it began the row under.
THEOREM OwnerRecords == OSafety => []RecordedByOwner
  <1>1. OwnerInv => RecordedByOwner
    BY DEF OwnerInv
  <1> QED
    BY <1>1, TypeInit, TypeNext, OwnerInit, OwnerNext, PTL DEF OSafety

-----------------------------------------------------------------------------
(* In a fleet that keeps up, an operation has one executor.                *)

\* What a slot executes it owns, and the row's lease and the time since the
\* last flush make up a whole lease: the flushes come before the lease is out.
Prompt ==
    Timely => \A w \in Workers :
        /\ work[w].pc = "claimed" => work[w].beat = 0
        /\ Executing(w) => /\ work[w].beat <= ProgressInterval
                           /\ owner[work[w].op] = w
                           /\ row[work[w].op].state = "running"
                           /\ row[work[w].op].lease + work[w].beat >= Lease

LEMMA PromptInit == OInit => Prompt
  BY DEF OInit, Prompt, Executing, Idle

LEMMA PromptService ==
    ASSUME TypeInv, Prompt, NEW o \in Ops,
           \/ \E d \in StartDelays : Start(o, d)
           \/ StartInTransaction(o) \/ RequestCancel(o) \/ Reap(o)
    PROVE  Prompt'
  <1> USE DEF Prompt, Timely, Executing, Active, Terminal
  <1>1. ASSUME NEW d \in StartDelays, Start(o, d) PROVE Prompt'
    BY <1>1 DEF TypeInv, Start, Rows
  <1>2. CASE StartInTransaction(o)
    BY <1>2 DEF TypeInv, StartInTransaction, Rows, history
  <1>3. CASE RequestCancel(o)
    BY <1>3, Numbers DEF TypeInv, RequestCancel, Rows
  <1>4. CASE Reap(o)
    BY <1>4 DEF TypeInv, Reap, Rows, history
  <1> QED
    BY <1>1, <1>2, <1>3, <1>4

\* Begin is refused while another slot executes: that slot's flushes keep more
\* than half of the lease ahead of it.
LEMMA PromptExecute ==
    ASSUME TypeInv, Prompt, NEW w \in Workers, execute(w) \/ executeFails(w)
    PROVE  Prompt'
  <1> DEFINE o == work[w].op
  <1> SUFFICES ASSUME Timely PROVE Prompt'
    BY Executes DEF Prompt, Timely
  <1>1. /\ work[w].pc = "claimed" /\ o \in Ops
        /\ \A v \in Workers \ {w} : work'[v] = work[v]
        /\ work'[w].op = o /\ work'[w].beat = work[w].beat
    BY Executes
  <1>2. CASE Took(w, o)
    <2>1. ASSUME NEW v \in Workers, Executing(v) PROVE work[v].op # o
      <3>1. row[work[v].op].lease + work[v].beat >= Lease /\ work[v].beat <= ProgressInterval
        BY <2>1 DEF Prompt
      <3>2. work[v].beat \in Int /\ row[o].lease \in Int
        BY <1>1, Numbers DEF TypeInv, Slots, Rows
      <3> QED
        BY <1>2, <3>1, <3>2, Numbers DEF Took
    <2> SUFFICES ASSUME NEW v \in Workers
                 PROVE  /\ work'[v].pc = "claimed" => work'[v].beat = 0
                        /\ Executing(v)' => /\ work'[v].beat <= ProgressInterval
                                            /\ owner'[work'[v].op] = v
                                            /\ row'[work'[v].op].state = "running"
                                            /\ row'[work'[v].op].lease + work'[v].beat >= Lease
      BY DEF Prompt
    <2>2. CASE v = w
      <3>1. work'[v].beat = 0
        BY <1>1, <2>2 DEF Prompt
      <3> QED
        BY <1>1, <1>2, <2>2, <3>1, Numbers DEF Took
    <2>3. CASE v # w
      <3>1. work'[v] = work[v]
        BY <1>1, <2>3
      <3>2. ASSUME Executing(v)' PROVE work[v].op \in Ops /\ work[v].op # o /\ Executing(v)
        BY <2>1, <3>1, <3>2 DEF Executing, TypeInv
      <3> QED
        BY <1>2, <3>1, <3>2 DEF Took, Prompt
    <2> QED
      BY <2>2, <2>3
  <1>3. CASE work'[w].pc = "complete" /\ UNCHANGED <<row, owner>>
    BY <1>1, <1>3 DEF Prompt, Executing
  <1> QED
    BY <1>2, <1>3, Executes

LEMMA PromptRuns ==
    ASSUME TypeInv, Prompt, NEW w \in Workers,
           flush(w) \/ close(w) \/ flushFails(w) \/ (\E outcome \in Outcomes : RunnerReturns(w, outcome))
    PROVE  Prompt'
  <1> USE DEF Prompt, Timely, Executing
  <1>1. CASE flush(w)
    BY <1>1, Numbers DEF TypeInv, flush, Flushed, Held, Learn, Slots, Rows, history
  <1>2. CASE close(w)
    <2>1. \A o \in Ops : row'[o].state = row[o].state /\ (row'[o].lease = row[o].lease \/ row'[o].lease = Lease)
      BY <1>2, Closes, FlushedRow DEF TypeInv
    <2>2. \A v \in Workers : work[v].beat \in Nat /\ (work[v].pc # "idle" => work[v].op \in Ops)
      BY DEF TypeInv, Slots
    <2> QED
      BY <1>2, <2>1, <2>2, Closes, Numbers
  <1>3. CASE flushFails(w)
    BY <1>3 DEF flushFails
  <1>4. ASSUME NEW outcome \in Outcomes, RunnerReturns(w, outcome) PROVE Prompt'
    BY <1>4, Returns
  <1> QED
    BY <1>1, <1>2, <1>3, <1>4

LEMMA PromptSettles ==
    ASSUME TypeInv, Prompt, NEW w \in Workers, Finish(w) \/ Release(w) \/ abandon(w)
    PROVE  Prompt'
  <1> USE DEF Prompt, Timely, Executing
  <1>1. CASE Finish(w)
    BY <1>1 DEF TypeInv, Finish, Slots, Rows
  <1>2. CASE Release(w)
    BY <1>2 DEF TypeInv, Release, Slots, Rows, history
  <1>3. CASE abandon(w)
    BY <1>3 DEF TypeInv, abandon, Slots, history
  <1> QED
    BY <1>1, <1>2, <1>3

LEMMA PromptEnds ==
    ASSUME TypeInv, Prompt, NEW w \in Workers,
           \/ \E o \in Ops : Claim(w, o)
           \/ HandBack(w) \/ complete(w) \/ Undispatched(w) \/ writeFails(w) \/ Stop(w) \/ Crash(w)
    PROVE  Prompt'
  BY SlotEnds DEF Prompt, Timely, Executing

\* The clock of a fleet that keeps up does not move past a flush that is due.
LEMMA PromptTick == ASSUME TypeInv, Prompt, Tick PROVE Prompt'
  <1> SUFFICES ASSUME Timely, NEW w \in Workers
               PROVE  /\ work'[w].pc = "claimed" => work'[w].beat = 0
                      /\ Executing(w)' => /\ work'[w].beat <= ProgressInterval
                                          /\ owner'[work'[w].op] = w
                                          /\ row'[work'[w].op].state = "running"
                                          /\ row'[work'[w].op].lease + work'[w].beat >= Lease
    BY Ticks DEF Prompt, Timely
  <1>1. /\ work'[w].pc = work[w].pc /\ work'[w].op = work[w].op /\ owner' = owner
        /\ work[w].pc = "running" => work'[w].beat = Up(work[w].beat, ProgressInterval)
        /\ KeepsUp
    BY Ticks
  <1>2. work[w].pc \in {"idle", "claimed", "running"} /\ (work[w].pc = "running" => work[w].beat < ProgressInterval)
    BY <1>1 DEF KeepsUp
  <1>3. CASE work[w].pc = "running"
    <2>1. work'[w].beat = work[w].beat + 1
      BY <1>1, <1>2, <1>3 DEF Up
    <2>2. work[w].op \in Ops
      BY <1>3 DEF TypeInv
    <2>3. /\ row'[work[w].op].state = row[work[w].op].state
          /\ \/ row'[work[w].op].lease = row[work[w].op].lease
             \/ row'[work[w].op].lease = row[work[w].op].lease - 1
      BY <2>2, Ticks
    <2>4. work[w].beat \in Nat /\ row[work[w].op].lease \in Int
      BY <2>2, Numbers DEF TypeInv, Slots, Rows
    <2>5. /\ owner[work[w].op] = w /\ row[work[w].op].state = "running"
          /\ row[work[w].op].lease + work[w].beat >= Lease
      BY <1>3 DEF Prompt, Executing
    <2> QED
      BY <1>1, <1>2, <1>3, <2>1, <2>3, <2>4, <2>5, Numbers
  <1>4. CASE work[w].pc = "claimed"
    BY <1>1, <1>4, Ticks DEF Prompt, Executing
  <1> QED
    BY <1>1, <1>2, <1>3, <1>4 DEF Executing

LEMMA PromptNext == TypeInv /\ Prompt /\ [ONext]_ovars => Prompt'
  <1> SUFFICES ASSUME TypeInv, Prompt, [ONext]_ovars PROVE Prompt'
    OBVIOUS
  <1>1. CASE UNCHANGED <<fleet, row, work, owner>>
    BY <1>1 DEF Prompt, Timely, Executing
  <1>2. CASE ~UNCHANGED <<fleet, row, work, owner>>
    BY <1>2, PromptService, PromptExecute, PromptRuns, PromptSettles, PromptEnds, PromptTick
       DEF ONext, WorkerStep, Faulty, ovars, enqueue, EnqueueLost, Enqueue, Recover, RecoverEnqueues, history
  <1> QED
    BY <1>1, <1>2

\* In a fleet that keeps up no second claim, recovery or late item begins an
\* operation that is being executed, whatever crashes and writes are lost.
THEOREM ExecutesAlone == OSafety => []SoleExecutor
  <1>1. TypeInv /\ Prompt => SoleExecutor
    BY DEF Prompt, SoleExecutor
  <1> QED
    BY <1>1, TypeInit, TypeNext, PromptInit, PromptNext, PTL DEF OSafety

-----------------------------------------------------------------------------
(* In a fleet that keeps up, cancellation beats the Runner's return.       *)

\* An operation that was asked to stop says so on its row, and no slot is about
\* to record that its Runner succeeded or failed.
AskedInv ==
    /\ \A o \in Ops : asked[o] => row[o].cancel /\ row[o].state # "none"
    /\ \A w \in Workers : work[w].pc = "settle" /\ asked[work[w].op] =>
           work[w].verdict \in {"cancelled", "abandon"} \/ work[w].outcome = "unknown"
    /\ \A o \in Ops : asked[o] /\ row[o].state \in Terminal =>
           row[o].state = "cancelled" \/ record[o].how = "unknown"

CancelInv == Timely => AskedInv

LEMMA CancelInit == OInit => CancelInv
  BY DEF OInit, CancelInv, AskedInv, Idle

\* A slot that is about to record is the operation's only executor, so a
\* Runner that a cancellation finds running is another operation's.
LEMMA CancelService ==
    ASSUME TypeInv, Prompt, CancelInv, NEW o \in Ops,
           \/ \E d \in StartDelays : Start(o, d)
           \/ StartInTransaction(o) \/ RequestCancel(o) \/ Reap(o)
    PROVE  CancelInv'
  <1> SUFFICES ASSUME Timely, AskedInv PROVE AskedInv'
    BY DEF CancelInv, Timely, Start, StartInTransaction, RequestCancel, Reap
  <1> USE DEF AskedInv, Active, Terminal
  <1>1. ASSUME NEW d \in StartDelays, Start(o, d) PROVE AskedInv'
    BY <1>1 DEF TypeInv, Start, Rows
  <1>2. CASE StartInTransaction(o)
    BY <1>2 DEF TypeInv, StartInTransaction, Rows, history
  <1>3. CASE RequestCancel(o)
    <2>1. /\ \A p \in Ops \ {o} : row'[p] = row[p] /\ asked'[p] = asked[p]
          /\ row'[o].cancel /\ row'[o].state \in {"running", "cancelled"}
          /\ row[o].state \in Active
          /\ UNCHANGED <<work, record>>
      BY <1>3 DEF TypeInv, RequestCancel, Rows
    <2>2. asked'[o] => asked[o] \/ \E v \in Workers : work[v].pc = "running" /\ work[v].op = o
      BY <1>3 DEF TypeInv, RequestCancel
    <2>3. ASSUME NEW w \in Workers, work[w].pc = "settle", work[w].op = o, asked'[o] PROVE asked[o]
      BY <2>2, <2>3 DEF Prompt, Executing
    <2>4. \A w \in Workers : work[w].pc = "settle" => work[w].op \in Ops
      BY DEF TypeInv
    <2> QED
      BY <2>1, <2>3, <2>4
  <1>4. CASE Reap(o)
    BY <1>4 DEF TypeInv, Reap, Rows, history
  <1> QED
    BY <1>1, <1>2, <1>3, <1>4

LEMMA CancelExecute ==
    ASSUME TypeInv, CancelInv, NEW w \in Workers, execute(w) \/ executeFails(w)
    PROVE  CancelInv'
  <1> SUFFICES ASSUME Timely, AskedInv PROVE AskedInv'
    BY Executes DEF CancelInv, Timely
  <1>1. CASE Took(w, work[w].op)
    BY <1>1, Executes DEF Took, AskedInv, Terminal
  <1>2. CASE UNCHANGED row
    BY <1>2, Executes DEF AskedInv
  <1> QED
    BY <1>1, <1>2, Executes

LEMMA CancelRuns ==
    ASSUME TypeInv, Prompt, CancelInv, NEW w \in Workers,
           flush(w) \/ close(w) \/ flushFails(w) \/ (\E outcome \in Outcomes : RunnerReturns(w, outcome))
    PROVE  CancelInv'
  <1>1. CASE flush(w)
    <2>1. /\ \A v \in Workers \ {w} : work'[v] = work[v]
          /\ work'[w].pc = "running" /\ work[w].op \in Ops
      BY <1>1 DEF TypeInv, flush, Learn, Slots
    <2>2. \A o \in Ops : row'[o].state = row[o].state /\ row'[o].cancel = row[o].cancel
      BY <1>1, FlushedRow DEF TypeInv, flush
    <2> QED
      BY <1>1, <2>1, <2>2 DEF CancelInv, AskedInv, Timely, flush, history
  <1>2. CASE close(w)
    <2>1. \A o \in Ops : row'[o].state = row[o].state /\ row'[o].cancel = row[o].cancel
      BY <1>2, Closes, FlushedRow DEF TypeInv
    <2>2. Timely => row[work[w].op].state = "running"
      BY <1>2, Closes DEF Prompt, Executing
    <2> QED
      BY <1>2, <2>1, <2>2, Closes DEF CancelInv, AskedInv, Timely
  <1>3. CASE flushFails(w)
    BY <1>3 DEF flushFails, CancelInv, Timely
  <1>4. ASSUME NEW outcome \in Outcomes, RunnerReturns(w, outcome) PROVE CancelInv'
    BY <1>4, Returns DEF CancelInv, AskedInv, Timely
  <1> QED
    BY <1>1, <1>2, <1>3, <1>4

LEMMA CancelSettles ==
    ASSUME TypeInv, CancelInv, NEW w \in Workers, Finish(w) \/ Release(w) \/ abandon(w)
    PROVE  CancelInv'
  <1> SUFFICES ASSUME Timely, AskedInv PROVE AskedInv'
    BY DEF CancelInv, Timely, Finish, Release, abandon
  <1> USE DEF AskedInv, Terminal
  <1>1. CASE Finish(w)
    BY <1>1 DEF TypeInv, Finish, Finishable, Active, Slots, Rows, Entries
  <1>2. CASE Release(w)
    BY <1>2 DEF TypeInv, Release, Slots, Rows, history
  <1>3. CASE abandon(w)
    BY <1>3 DEF TypeInv, abandon, Slots, history
  <1> QED
    BY <1>1, <1>2, <1>3

LEMMA CancelEnds ==
    ASSUME TypeInv, CancelInv, NEW w \in Workers,
           \/ \E o \in Ops : Claim(w, o)
           \/ HandBack(w) \/ complete(w) \/ Undispatched(w) \/ writeFails(w) \/ Stop(w) \/ Crash(w)
    PROVE  CancelInv'
  BY SlotEnds DEF CancelInv, AskedInv, Timely, Executing

LEMMA CancelNext == TypeInv /\ Prompt /\ CancelInv /\ [ONext]_ovars => CancelInv'
  <1> SUFFICES ASSUME TypeInv, Prompt, CancelInv, [ONext]_ovars PROVE CancelInv'
    OBVIOUS
  <1>1. CASE UNCHANGED <<fleet, row, work, record, asked>>
    BY <1>1 DEF CancelInv, AskedInv, Timely
  <1>2. CASE ~UNCHANGED <<fleet, row, work, record, asked>>
    <2>1. ASSUME Tick PROVE CancelInv'
      BY <2>1, Ticks DEF CancelInv, AskedInv, Timely, TypeInv
    <2> QED
      BY <1>2, <2>1, CancelService, CancelExecute, CancelRuns, CancelSettles, CancelEnds
         DEF ONext, WorkerStep, Faulty, ovars, enqueue, EnqueueLost, Enqueue, Recover, RecoverEnqueues, history
  <1> QED
    BY <1>1, <1>2

\* In a fleet that keeps up, an operation that was asked to stop before its
\* Runner returned is recorded as cancelled whatever the Runner returned; only a
\* kind nobody registers fails instead.
THEOREM CancelBeats == OSafety => []CancelBeatsOutcome
  <1>1. CancelInv => CancelBeatsOutcome
    BY DEF CancelInv, AskedInv, CancelBeatsOutcome
  <1> QED
    BY <1>1, TypeInit, TypeNext, PromptInit, PromptNext, CancelInit, CancelNext, PTL DEF OSafety

-----------------------------------------------------------------------------
(* Only a fault starts the budget of attempts over.                        *)

Brisk == Timely /\ MaxWait + MaxWork < Lease /\ "oversized" \notin Outcomes

Budget == MaxAttempts * (1 + MaxFaults - faults)

\* How far the slot that holds an operation's item has got with it.
Stage(o) ==
    IF item[o].holder \in Workers /\ work[item[o].holder].op = o THEN work[item[o].holder].pc ELSE "idle"

\* The errors that an operation's Runners may still return, without a fault,
\* before it is failed: none once it is over; what its item has left while that
\* item leads to it; and all of them again where the item is, or may yet be,
\* retired under an operation that is not over.
Allowance(state, on, attempts, stage) ==
    IF state \notin Active THEN 0
    ELSE IF stage = "running" THEN MaxAttempts - attempts + 1
    ELSE IF stage \in {"closing", "settle"} THEN MaxAttempts - attempts
    ELSE IF state = "running" \/ stage = "complete" \/ ~on THEN MaxAttempts
    ELSE IF stage = "claimed" THEN MaxAttempts - attempts + 1
    ELSE IF attempts < MaxAttempts THEN MaxAttempts - attempts ELSE 1

Left(o) == Allowance(row[o].state, item[o].on, item[o].attempts, Stage(o))

\* A slot that is in the middle of something holds its item, with time left on
\* its lease, which has run since the claim, and before the deadline of its writes,
\* which is a lease from the end of the wait; and it will record an outcome or a
\* retry that the count allows.
Keeps(w) ==
    work[w].pc # "idle" =>
        /\ item[work[w].op].on /\ item[work[w].op].holder = w
        /\ item[work[w].op].attempts = work[w].attempts /\ work[w].attempts > 0
        /\ work[w].pc = "claimed" =>
              work[w].elapsed <= MaxWait /\ item[work[w].op].lease + work[w].elapsed >= Lease
        /\ work[w].pc # "claimed" =>
              /\ work[w].elapsed <= MaxWork
              /\ item[work[w].op].lease + MaxWait + work[w].elapsed >= Lease
              /\ work[w].write + work[w].elapsed >= Lease
        /\ ~work[w].lost /\ work[w].outcome # "oversized"
        /\ work[w].pc = "settle" =>
              \/ work[w].verdict \in Terminal
              \/ work[w].verdict = "retry" /\ work[w].attempts < MaxAttempts

Fits(o) ==
    /\ row[o].state = "pending" => row[o].lease <= 0
    /\ row[o].state = "none" => errors[o] = 0
    /\ errors[o] + Left(o) <= Budget

BudgetInv == Brisk => (\A w \in Workers : Keeps(w)) /\ (\A o \in Ops : Fits(o))

LEMMA BudgetInit == OInit => BudgetInv
  <1> SUFFICES ASSUME OInit PROVE (\A w \in Workers : Keeps(w)) /\ (\A o \in Ops : Fits(o))
    BY DEF BudgetInv
  <1>1. ASSUME NEW w \in Workers PROVE Keeps(w)
    BY <1>1 DEF OInit, Keeps, Idle
  <1>2. ASSUME NEW o \in Ops PROVE Fits(o)
    <2>1. row[o].state = "none" /\ errors[o] = 0 /\ faults = MaxFaults /\ fleet \in Fleets
      BY <1>2 DEF OInit, NoOperation
    <2>2. Left(o) = 0
      BY <2>1 DEF Left, Allowance, Active
    <2>3. Budget \in Nat
      BY <2>1, FleetType, Numbers DEF Budget
    <2> QED
      BY <2>1, <2>2, <2>3 DEF Fits
  <1> QED
    BY <1>1, <1>2

\* Each fault adds one budget, and there is one to begin with.
LEMMA Product == ASSUME NEW m \in Nat, NEW k \in Nat PROVE m * k \in Nat /\ m * (k + 1) = m * k + m
  OBVIOUS

LEMMA Spent ==
    ASSUME NEW n \in Nat, NEW f \in 0 .. n
    PROVE  /\ MaxAttempts * (1 + n - f) \in Nat /\ MaxAttempts * (1 + n - f) >= MaxAttempts
           /\ f > 0 => MaxAttempts * (1 + n - (f - 1)) = MaxAttempts * (1 + n - f) + MaxAttempts
  <1> DEFINE k == n - f
  <1>1. k \in Nat /\ k + 1 \in Nat /\ 1 + n - f = k + 1 /\ 1 + n - (f - 1) = (k + 1) + 1
    OBVIOUS
  <1> HIDE DEF k
  <1>2. /\ MaxAttempts * k \in Nat /\ MaxAttempts * (k + 1) = MaxAttempts * k + MaxAttempts
        /\ MaxAttempts * ((k + 1) + 1) = MaxAttempts * (k + 1) + MaxAttempts
    BY <1>1, Product, Numbers
  <1> QED
    BY <1>1, <1>2, Numbers

LEMMA BudgetGrows ==
    ASSUME TypeInv, TypeInv', UNCHANGED fleet
    PROVE  /\ Budget \in Nat /\ Budget' \in Nat /\ Budget' >= MaxAttempts
           /\ faults' = faults => Budget' = Budget
           /\ faults' = faults - 1 => Budget' = Budget + MaxAttempts
  <1>1. MaxFaults \in Nat /\ faults \in 0 .. MaxFaults /\ MaxFaults' = MaxFaults
    BY FleetType DEF TypeInv, MaxFaults
  <1>2. faults' \in 0 .. MaxFaults
    BY DEF TypeInv, MaxFaults
  <1>3. Budget' = MaxAttempts * (1 + MaxFaults - faults')
    BY <1>1 DEF Budget
  <1>4. faults' = faults - 1 => faults > 0
    BY <1>1, <1>2
  <1> QED
    BY <1>1, <1>2, <1>3, <1>4, Spent DEF Budget

LEMMA AllowanceBound ==
    ASSUME NEW state, NEW on, NEW attempts \in 0 .. MaxAttempts, NEW stage,
           stage \in {"claimed", "running"} => attempts > 0
    PROVE  Allowance(state, on, attempts, stage) \in 0 .. MaxAttempts
  BY Numbers DEF Allowance

\* The slot that holds the item of an operation is the only one busy with it.
LEMMA Busy ==
    ASSUME TypeInv, Brisk, BudgetInv, NEW w \in Workers, work[w].pc # "idle"
    PROVE  /\ work[w].op \in Ops /\ Keeps(w) /\ Stage(work[w].op) = work[w].pc
           /\ item[work[w].op].lease > 0 /\ (work[w].pc # "claimed" => InTime(w))
           /\ \A v \in Workers \ {w} : work[v].pc # "idle" => work[v].op # work[w].op
  <1>1. work[w].op \in Ops /\ \A v \in Workers : Keeps(v)
    BY DEF TypeInv, BudgetInv
  <1>2. Stage(work[w].op) = work[w].pc
    BY <1>1 DEF Keeps, Stage
  <1>3. work[w].elapsed \in Nat /\ work[w].write \in Int /\ item[work[w].op].lease \in Int
        /\ MaxWork \in Nat /\ MaxWait \in Nat
    BY <1>1, FleetType, Numbers DEF TypeInv, Slots, Items
  <1>4. item[work[w].op].lease > 0 /\ (work[w].pc # "claimed" => InTime(w))
    BY <1>1, <1>3, Numbers DEF Keeps, Brisk, InTime
  <1> QED
    BY <1>1, <1>2, <1>4 DEF Keeps

\* An operation is as it was.
LEMMA FitsStill ==
    ASSUME TypeInv, TypeInv', UNCHANGED fleet, NEW o \in Ops, Fits(o), Stage(o)' = Stage(o),
           row'[o].state = row[o].state, row'[o].lease <= row[o].lease \/ row[o].state # "pending",
           item'[o].on = item[o].on, item'[o].attempts = item[o].attempts,
           errors'[o] = errors[o], faults' \in {faults, faults - 1}
    PROVE  Fits(o)'
  <1>1. errors[o] \in Nat /\ row[o].lease \in Int /\ row'[o].lease \in Int
    BY Numbers DEF TypeInv, Rows
  <1>2. Left(o)' = Left(o)
    BY DEF Left
  <1>3. item[o].attempts \in 0 .. MaxAttempts
    BY DEF TypeInv, Items
  <1>4. Left(o) \in Int
    BY <1>3, Numbers DEF Left, Allowance
  <1> QED
    BY <1>1, <1>2, <1>4, BudgetGrows, Numbers DEF Fits

\* After a fault there is a whole budget to spend.
LEMMA FitsFault ==
    ASSUME TypeInv, TypeInv', UNCHANGED fleet, NEW o \in Ops, Fits(o), 
           Stage(o) \in {"claimed", "running"} => item[o].attempts > 0,
           Stage(o)' \in {"claimed", "running"} => item'[o].attempts > 0,
           row'[o].state = "pending" => row'[o].lease <= 0, row'[o].state = "none" => row[o].state = "none",
           errors'[o] = errors[o], faults' = faults - 1
    PROVE  Fits(o)'
  <1>1. errors[o] \in Nat /\ item[o].attempts \in 0 .. MaxAttempts /\ item'[o].attempts \in 0 .. MaxAttempts
    BY DEF TypeInv, Items
  <1>2. Left(o) \in 0 .. MaxAttempts
    BY <1>1, AllowanceBound DEF Left
  <1>3. Left(o)' \in 0 .. MaxAttempts
    BY <1>1, AllowanceBound DEF Left
  <1> QED
    BY <1>1, <1>2, <1>3, BudgetGrows, Numbers DEF Fits

\* A step of one slot, about one operation.
LEMMA OneSlot ==
    ASSUME TypeInv, TypeInv', Brisk, BudgetInv, UNCHANGED fleet, NEW w \in Workers, NEW o \in Ops,
           \A v \in Workers \ {w} : work'[v] = work[v] /\ (work[v].pc # "idle" => work[v].op # o),
           work[w].pc = "idle" \/ work[w].op = o, work'[w].pc = "idle" \/ work'[w].op = o,
           \A p \in Ops \ {o} : row'[p] = row[p] /\ item'[p] = item[p] /\ errors'[p] = errors[p],
           faults' \in {faults, faults - 1}, Keeps(w)', Fits(o)'
    PROVE  BudgetInv'
  <1>1. ASSUME NEW v \in Workers PROVE Keeps(v)'
    <2>1. CASE v # w
      <3>1. work'[v] = work[v] /\ Keeps(v) /\ (work[v].pc # "idle" => work[v].op \in Ops \ {o})
        BY <2>1 DEF BudgetInv, TypeInv
      <3>2. MaxWork' = MaxWork /\ MaxWait' = MaxWait
        BY DEF MaxWork, MaxWait
      <3> QED
        BY <3>1, <3>2 DEF Keeps
    <2> QED
      BY <2>1
  <1>2. ASSUME NEW p \in Ops PROVE Fits(p)'
    <2>1. CASE p # o
      <3>1. row'[p] = row[p] /\ item'[p] = item[p] /\ errors'[p] = errors[p] /\ Fits(p)
        BY <2>1 DEF BudgetInv
      <3>2. Stage(p)' = Stage(p)
        BY <2>1, <3>1 DEF Stage
      <3>3. row[p].lease \in Int
        BY Numbers DEF TypeInv, Rows
      <3> QED
        BY <3>1, <3>2, <3>3, FitsStill
    <2> QED
      BY <2>1
  <1> QED
    BY <1>1, <1>2 DEF BudgetInv

LEMMA OwnSlot ==
    ASSUME TypeInv, TypeInv', Brisk, BudgetInv, UNCHANGED fleet, NEW w \in Workers, NEW o \in Ops,
           work[w].pc # "idle", o = work[w].op,
           \A v \in Workers \ {w} : work'[v] = work[v], work'[w].pc = "idle" \/ work'[w].op = o,
           \A p \in Ops \ {o} : row'[p] = row[p] /\ item'[p] = item[p] /\ errors'[p] = errors[p],
           faults' \in {faults, faults - 1}, Keeps(w)', Fits(o)'
    PROVE  BudgetInv'
  <1>1. \A v \in Workers \ {w} : work[v].pc # "idle" => work[v].op # o
    BY Busy
  <1> QED
    BY <1>1, OneSlot

LEMMA OfferedKeeps ==
    ASSUME NEW it \in Items, NEW d \in Nat
    PROVE  /\ Offered(it, d).on
           /\ it.on => /\ Offered(it, d).holder = it.holder /\ Offered(it, d).lease = it.lease
                       /\ Offered(it, d).attempts = it.attempts
           /\ ~it.on => Offered(it, d).holder = NoWorker /\ Offered(it, d).attempts = 0
  BY DEF Offered, Items, NoItem

\* The service and the sweep: no slot moves, and an item that is offered again
\* keeps its count and its lease.
LEMMA BudgetOffers ==
    ASSUME TypeInv, TypeInv', Brisk, BudgetInv, UNCHANGED <<fleet, work, errors>>, faults' \in {faults, faults - 1},
           \A p \in Ops : item'[p] = item[p] \/ \E d \in Nat : item'[p] = Offered(item[p], d),
           \A p \in Ops :
              \/ row'[p].state = row[p].state /\ (row[p].state = "pending" => row'[p].lease = row[p].lease)
              \/ row'[p].state \in Terminal \cup {"reaped"}
              \/ row[p].state = "none" /\ row'[p].state = "pending" /\ row'[p].lease <= 0
    PROVE  BudgetInv'
  <1>1. ASSUME NEW p \in Ops
        PROVE  /\ item[p] \in Items /\ item'[p] \in Items
               /\ item[p].on => /\ item'[p].on /\ item'[p].holder = item[p].holder
                                /\ item'[p].lease = item[p].lease /\ item'[p].attempts = item[p].attempts
               /\ ~item[p].on => item'[p] = item[p] \/ (item'[p].holder = NoWorker /\ item'[p].attempts = 0)
    BY OfferedKeeps DEF TypeInv
  <1>2. ASSUME NEW v \in Workers PROVE Keeps(v)'
    <2>1. Keeps(v) /\ (work[v].pc # "idle" => work[v].op \in Ops) /\ MaxWork' = MaxWork /\ MaxWait' = MaxWait
      BY DEF BudgetInv, TypeInv, MaxWork, MaxWait
    <2> QED
      BY <1>1, <2>1 DEF Keeps
  <1>3. ASSUME NEW p \in Ops PROVE Fits(p)'
    <2>1. /\ Fits(p) /\ errors[p] \in Nat /\ errors'[p] = errors[p] /\ row[p].lease \in Int /\ row'[p].lease \in Int
          /\ item[p].attempts \in 0 .. MaxAttempts /\ item'[p].attempts \in 0 .. MaxAttempts
      BY <1>1, Numbers DEF BudgetInv, TypeInv, Rows, Items
    <2>2. CASE item[p].on /\ row'[p].state = row[p].state /\ (row[p].state = "pending" => row'[p].lease = row[p].lease)
      <3>1. Stage(p)' = Stage(p)
        BY <1>1, <2>2 DEF Stage
      <3>2. item'[p].attempts = item[p].attempts /\ item'[p].on /\ item[p].on
        BY <1>1, <2>2
      <3>3. item[p].on \in BOOLEAN /\ item'[p].on \in BOOLEAN
        BY <1>1 DEF Items
      <3>4. item'[p].on = item[p].on
        BY <3>2, <3>3, Zenon
      <3>5. row'[p].lease <= row[p].lease \/ row[p].state # "pending"
        BY <2>1, <2>2
      <3> QED
        BY <2>1, <2>2, <3>1, <3>2, <3>4, <3>5, FitsStill
    <2>3. CASE ~item[p].on /\ row'[p].state = row[p].state /\ (row[p].state = "pending" => row'[p].lease = row[p].lease)
      <3>1. Stage(p) = "idle"
        BY <2>3 DEF Stage, BudgetInv, Keeps
      <3>2. Stage(p)' = "idle"
        BY <1>1, <2>3, <3>1, Numbers DEF Stage
      <3>3. Left(p)' = Left(p) /\ Left(p) \in Int
        BY <1>1, <2>3, <3>1, <3>2, Numbers DEF Left, Allowance, Active
      <3> QED
        BY <2>1, <2>3, <3>3, BudgetGrows, Numbers DEF Fits
    <2>4. CASE row'[p].state \in Terminal \cup {"reaped"}
      <3>1. Left(p)' = 0 /\ row'[p].state # "pending" /\ row'[p].state # "none"
        BY <2>4 DEF Left, Allowance, Active, Terminal
      <3>2. Left(p) \in Nat
        <4>1. Stage(p) \in {"claimed", "running"} => item[p].attempts > 0
          BY DEF Stage, BudgetInv, Keeps
        <4> QED
          BY <2>1, <4>1, AllowanceBound, Numbers DEF Left
      <3> QED
        BY <2>1, <3>1, <3>2, BudgetGrows, Numbers DEF Fits
    <2>5. CASE row[p].state = "none" /\ row'[p].state = "pending" /\ row'[p].lease <= 0
      <3>1. Stage(p)' \in {"claimed", "running"} => item'[p].attempts > 0
        BY <1>2 DEF Stage, Keeps
      <3>2. Left(p)' \in 0 .. MaxAttempts
        BY <2>1, <3>1, AllowanceBound DEF Left
      <3>3. errors'[p] = 0
        BY <2>1, <2>5 DEF Fits
      <3> QED
        BY <2>5, <3>2, <3>3, BudgetGrows, Numbers DEF Fits
    <2> QED
      BY <2>2, <2>3, <2>4, <2>5
  <1> QED
    BY <1>2, <1>3 DEF BudgetInv

LEMMA BudgetService ==
    ASSUME TypeInv, TypeInv', Brisk, BudgetInv, NEW o \in Ops,
           \/ \E d \in StartDelays : Start(o, d)
           \/ StartInTransaction(o) \/ enqueue(o) \/ EnqueueLost(o) \/ Enqueue(o) \/ RequestCancel(o) \/ Reap(o)
    PROVE  BudgetInv'
  <1>1. CASE (\E d \in StartDelays : Start(o, d)) \/ StartInTransaction(o)
    <2>1. /\ \A p \in Ops \ {o} : row'[p] = row[p]
          /\ row[o].state = "none" /\ row'[o].state = "pending" /\ row'[o].lease <= 0
      BY <1>1, Numbers DEF TypeInv, Start, StartInTransaction, NoOperation
    <2>2. UNCHANGED <<fleet, work, errors, faults, item>>
      BY <1>1 DEF Start, StartInTransaction, history
    <2> QED
      BY <2>1, <2>2, BudgetOffers
  <1>2. CASE enqueue(o) \/ EnqueueLost(o) \/ Enqueue(o)
    <2>1. \A p \in Ops : item'[p] = item[p] \/ \E d \in Nat : item'[p] = Offered(item[p], d)
      BY <1>2 DEF TypeInv, enqueue, EnqueueLost, Enqueue
    <2>2. UNCHANGED <<fleet, work, errors, row>> /\ faults' \in {faults, faults - 1}
      BY <1>2 DEF enqueue, EnqueueLost, Enqueue, history
    <2> QED
      BY <2>1, <2>2, BudgetOffers
  <1>3. CASE RequestCancel(o) \/ Reap(o)
    <2>1. /\ \A p \in Ops \ {o} : row'[p] = row[p]
          /\ \/ row'[o].state = row[o].state /\ row[o].state = "running"
             \/ row'[o].state \in Terminal \cup {"reaped"}
      <3>1. CASE RequestCancel(o) /\ row[o].state = "pending"
        BY <3>1 DEF TypeInv, RequestCancel, Rows, Terminal
      <3>2. CASE RequestCancel(o) /\ row[o].state # "pending"
        BY <3>2 DEF TypeInv, RequestCancel, Rows, Active
      <3>3. CASE Reap(o)
        BY <3>3 DEF TypeInv, Reap, Rows
      <3> QED
        BY <1>3, <3>1, <3>2, <3>3
    <2>2. UNCHANGED <<fleet, work, errors, faults, item>>
      BY <1>3 DEF RequestCancel, Reap, history
    <2>3. \A p \in Ops : \/ row'[p].state = row[p].state /\ (row[p].state = "pending" => row'[p].lease = row[p].lease)
                         \/ row'[p].state \in Terminal \cup {"reaped"}
      BY <2>1
    <2> QED
      BY <2>2, <2>3, BudgetOffers
  <1> QED
    BY <1>1, <1>2, <1>3

LEMMA BudgetSweep ==
    ASSUME TypeInv, TypeInv', Brisk, BudgetInv, Recover \/ RecoverEnqueues
    PROVE  BudgetInv'
  <1>1. \A p \in Ops : item'[p] = item[p] \/ \E d \in Nat : item'[p] = Offered(item[p], d)
    BY DEF TypeInv, Recover, RecoverEnqueues
  <1>2. UNCHANGED <<fleet, work, errors, faults, row>>
    BY DEF Recover, RecoverEnqueues, history
  <1> QED
    BY <1>1, <1>2, BudgetOffers

\* A claim takes only an item whose lease is out, which no busy slot's is.
LEMMA BudgetClaim ==
    ASSUME TypeInv, TypeInv', Brisk, BudgetInv, NEW w \in Workers, NEW o \in Ops, Claim(w, o)
    PROVE  BudgetInv'
  <1> DEFINE a == IF item[o].attempts < MaxAttempts THEN item[o].attempts + 1 ELSE item[o].attempts
  <1>1. item[o] \in Items /\ item[o].attempts \in 0 .. MaxAttempts /\ a \in 1 .. MaxAttempts
    BY Numbers DEF TypeInv, Items
  <1>2. /\ item[o].on /\ item[o].lease <= 0 /\ work[w].pc = "idle"
        /\ item' = [item EXCEPT ![o] = [item[o] EXCEPT !.holder = w, !.lease = Lease, !.attempts = a]]
        /\ UNCHANGED <<fleet, row, faults, errors>>
    BY DEF Claim, Claimable, history
  <1>3. item'[o].on /\ item'[o].holder = w /\ item'[o].lease = Lease /\ item'[o].attempts = a
    BY <1>1, <1>2 DEF TypeInv, Items
  <1>4. \A p \in Ops \ {o} : item'[p] = item[p]
    BY <1>2 DEF TypeInv
  <1> HIDE DEF a
  <1>5. /\ \A v \in Workers \ {w} : work'[v] = work[v]
        /\ work'[w].pc = "claimed" /\ work'[w].op = o /\ work'[w].attempts = a /\ work'[w].elapsed = 0
        /\ ~work'[w].lost /\ work'[w].outcome = "done"
    BY <1>3 DEF TypeInv, Claim, Idle
  <1>6. \A v \in Workers : work[v].pc # "idle" => work[v].op # o
    <2> SUFFICES ASSUME NEW v \in Workers, work[v].pc # "idle", work[v].op = o PROVE FALSE
      OBVIOUS
    <2>1. item[work[v].op].lease > 0
      BY Busy
    <2>2. item[o].lease \in Int
      BY <1>1, Numbers DEF Items
    <2> QED
      BY <1>2, <2>1, <2>2
  <1>7. Stage(o) = "idle" /\ Stage(o)' = "claimed"
    BY <1>3, <1>5, <1>6 DEF Stage
  <1>8. Keeps(w)'
    <2>1. MaxWait' = MaxWait /\ MaxWait \in Nat
      BY <1>2, FleetType DEF TypeInv, MaxWait
    <2> QED
      BY <1>1, <1>3, <1>5, <2>1, Numbers DEF Keeps
  <1>9. Left(o)' <= Left(o) /\ Left(o) \in Int /\ Left(o)' \in Int
    BY <1>1, <1>2, <1>3, <1>7, Numbers DEF Left, Allowance, a
  <1>10. Fits(o)'
    <2>1. Fits(o) /\ errors[o] \in Nat /\ UNCHANGED <<row, errors, faults>>
      BY <1>2 DEF BudgetInv, TypeInv
    <2> QED
      BY <1>2, <1>9, <2>1, BudgetGrows DEF Fits
  <1> QED
    BY <1>2, <1>4, <1>5, <1>6, <1>8, <1>10, OneSlot

LEMMA BudgetExecute ==
    ASSUME TypeInv, TypeInv', Prompt, Brisk, BudgetInv, NEW w \in Workers, NEW o \in Ops,
           o = work[w].op, execute(w) \/ executeFails(w)
    PROVE  BudgetInv'
  <1>1. /\ work[w].pc = "claimed" /\ o \in Ops /\ work[w] \in Slots /\ row[o] \in Rows
        /\ UNCHANGED <<fleet, item, errors>>
    BY DEF TypeInv, execute, executeFails
  <1>2. Keeps(w) /\ Fits(o) /\ Stage(o) = "claimed"
    BY <1>1, Busy DEF BudgetInv
  <1>3. /\ \A v \in Workers \ {w} : work'[v] = work[v]
        /\ work'[w].op = o /\ work'[w].write = Lease /\ work'[w].pc \in {"running", "complete"}
        /\ \A p \in Ops \ {o} : row'[p] = row[p]
        /\ row'[o] = row[o] \/ (row[o].state \in Active /\ row'[o].state = "running")
    BY <1>1, Executes DEF Took
  <1>4. /\ work'[w].attempts = work[w].attempts /\ work'[w].elapsed = 0
        /\ work'[w].lost = work[w].lost /\ work'[w].outcome = work[w].outcome
    BY <1>1 DEF TypeInv, Slots, execute, executeFails
  <1>5. /\ item[o].attempts \in 0 .. MaxAttempts /\ work[w].elapsed \in Nat
        /\ item[o].lease \in Nat /\ MaxWork \in Nat /\ MaxWait \in Nat
        /\ MaxWork' = MaxWork /\ MaxWait' = MaxWait /\ errors[o] \in Nat
    BY <1>1, FleetType, Numbers DEF TypeInv, Items, Slots, MaxWork, MaxWait
  <1>6. Keeps(w)'
    <2>1. item[o].on /\ item[o].holder = w /\ item[o].attempts = work[w].attempts /\ work[w].attempts > 0
      BY <1>1, <1>2 DEF Keeps
    <2>2. work[w].elapsed <= MaxWait /\ item[o].lease + work[w].elapsed >= Lease
      BY <1>1, <1>2 DEF Keeps
    <2>3. ~work[w].lost /\ work[w].outcome # "oversized"
      BY <1>1, <1>2 DEF Keeps
    <2>4. item[o].lease + MaxWait + 0 >= Lease /\ Lease + 0 >= Lease /\ 0 <= MaxWork
      BY <1>5, <2>2, Numbers
    <2> QED
      BY <1>1, <1>3, <1>4, <1>5, <2>1, <2>2, <2>3, <2>4 DEF Keeps
  <1>7. Stage(o)' = work'[w].pc /\ item[o].attempts > 0
    BY <1>1, <1>2, <1>3 DEF Keeps, Stage
  <1>8. CASE executeFails(w)
    <2>1. faults' = faults - 1
      BY <1>8 DEF executeFails
    <2> QED
      BY <1>1, <1>2, <1>3, <1>6, <1>7, <2>1, FitsFault, OwnSlot DEF Fits
  <1>9. CASE execute(w)
    <2>1. faults' = faults
      BY <1>9 DEF execute
    <2>2. /\ Beginable(row[o]) => work'[w].pc = "running" /\ row'[o].state = "running"
          /\ ~Beginable(row[o]) => work'[w].pc = "complete" /\ row'[o] = row[o]
      BY <1>1, <1>9, BegunRow DEF TypeInv, Slots, execute
    <2>3. row[o].state = "pending" => Beginable(row[o])
      BY <1>2 DEF Fits, Beginable, Active
    <2>4. item[o].on
      BY <1>1, <1>2 DEF Keeps
    <2>5. Left(o)' <= Left(o) /\ Left(o) \in Int /\ Left(o)' \in Int
      <3>1. CASE Beginable(row[o])
        <4>1. row[o].state \in Active /\ row'[o].state = "running" /\ Stage(o)' = "running" /\ Stage(o) = "claimed"
          BY <1>2, <1>7, <2>2, <3>1 DEF Beginable
        <4> QED
          BY <1>1, <1>5, <1>7, <2>4, <4>1, Numbers DEF Left, Allowance, Active
      <3>2. CASE ~Beginable(row[o])
        <4>1. row[o].state # "pending" /\ row'[o] = row[o] /\ Stage(o)' = "complete" /\ Stage(o) = "claimed"
          BY <1>2, <1>7, <2>2, <2>3, <3>2
        <4> QED
          BY <1>1, <1>5, <1>7, <2>4, <4>1, Numbers DEF Left, Allowance, Active
      <3> QED
        BY <3>1, <3>2
    <2>6. Fits(o)'
      <3>1. row'[o].state = "pending" => row'[o].lease <= 0
        BY <1>2, <1>3 DEF Fits
      <3>2. row'[o].state = "none" => errors'[o] = 0
        BY <1>1, <1>2, <1>3 DEF Fits
      <3> QED
        BY <1>1, <1>2, <1>5, <2>1, <2>5, <3>1, <3>2, BudgetGrows DEF Fits
    <2> QED
      BY <1>1, <1>3, <1>6, <2>1, <2>6, OwnSlot
  <1> QED
    BY <1>8, <1>9

\* What the Runner's slot learns and returns: the errors grow by one where the
\* allowance shrinks by one.
LEMMA BudgetRuns ==
    ASSUME TypeInv, TypeInv', Prompt, Brisk, BudgetInv, NEW w \in Workers, NEW o \in Ops,
           o = work[w].op, flush(w) \/ close(w) \/ \E outcome \in Outcomes : RunnerReturns(w, outcome)
    PROVE  BudgetInv'
  <1>1. /\ work[w].pc \in {"running", "closing"} /\ o \in Ops /\ work[w] \in Slots /\ work \in [Workers -> Slots]
        /\ UNCHANGED <<fleet, item, faults>>
    BY DEF TypeInv, flush, close, RunnerReturns, history
  <1>2. Keeps(w) /\ Fits(o) /\ Stage(o) = work[w].pc /\ row[o].state = "running" /\ row[o] \in Rows
    BY <1>1, Busy DEF BudgetInv, Prompt, Brisk, Executing, TypeInv
  <1>3. \A p \in Ops \ {o} : row'[p] = row[p] /\ errors'[p] = errors[p]
    BY <1>1 DEF TypeInv, flush, close, RunnerReturns, history
  <1>4. row'[o].state = "running"
    BY <1>1, <1>2, FlushedRow DEF TypeInv, flush, close, RunnerReturns
  <1>5. /\ item[o].attempts \in 0 .. MaxAttempts /\ work[w].elapsed \in Nat /\ work[w].attempts \in 0 .. MaxAttempts
        /\ MaxWork' = MaxWork /\ MaxWait' = MaxWait /\ errors[o] \in Nat
    BY <1>1 DEF TypeInv, Items, Slots, MaxWork, MaxWait
  <1>6. /\ item[o].on /\ item[o].holder = w /\ item[o].attempts = work[w].attempts /\ work[w].attempts > 0
        /\ work[w].elapsed <= MaxWork /\ item[o].lease + MaxWait + work[w].elapsed >= Lease
        /\ work[w].write + work[w].elapsed >= Lease
        /\ ~work[w].lost /\ work[w].outcome # "oversized"
    BY <1>1, <1>2 DEF Keeps
  \* The slot goes on with the same item.
  <1>7. ASSUME NEW s \in Slots, work' = [work EXCEPT ![w] = s], s.op = o, s.attempts = work[w].attempts,
               s.elapsed = work[w].elapsed, s.write = work[w].write, ~s.lost, s.outcome # "oversized",
               s.pc \in {"running", "closing", "settle"}, work[w].pc = "closing" => s.pc = "settle",
               s.pc = "settle" => s.verdict \in Terminal \/ (s.verdict = "retry" /\ s.attempts < MaxAttempts),
               errors'[o] = errors[o] \/ (work[w].pc = "running" /\ s.pc # "running" /\ errors'[o] = errors[o] + 1)
        PROVE  BudgetInv'
    <2>1. work'[w] = s /\ \A v \in Workers \ {w} : work'[v] = work[v]
      BY <1>1, <1>7
    <2>2. Keeps(w)'
      BY <1>1, <1>5, <1>6, <1>7, <2>1 DEF Keeps
    <2>3. Stage(o)' = s.pc
      BY <1>1, <1>6, <1>7, <2>1 DEF Stage
    <2>4. errors'[o] + Left(o)' <= errors[o] + Left(o)
      <3>1. /\ Left(o) = Allowance("running", item[o].on, item[o].attempts, work[w].pc)
            /\ Left(o)' = Allowance("running", item[o].on, item[o].attempts, s.pc)
        BY <1>1, <1>2, <1>4, <2>3 DEF Left
      <3> QED
        BY <1>1, <1>5, <1>7, <3>1, Numbers DEF Allowance, Active
    <2>5. Left(o) \in Int /\ Left(o)' \in Int
      BY <1>1, <1>5, Numbers DEF Left, Allowance
    <2>6. Fits(o)'
      <3>1. errors'[o] \in Nat
        BY <1>1 DEF TypeInv
      <3> QED
        BY <1>1, <1>2, <1>4, <1>5, <2>4, <2>5, <3>1, BudgetGrows DEF Fits
    <2> QED
      BY <1>1, <1>3, <1>7, <2>1, <2>2, <2>6, OwnSlot
  <1>8. CASE flush(w)
    <2> DEFINE b == [work[w] EXCEPT !.beat = 0]
    <2>1. b \in Slots /\ b.pc = "running" /\ b.op = o /\ b.attempts = work[w].attempts /\ b.elapsed = work[w].elapsed
          /\ b.write = work[w].write /\ b.lost = work[w].lost /\ b.outcome = work[w].outcome
      BY <1>1, <1>8 DEF Slots, flush
    <2>2. work' = [work EXCEPT ![w] = Learn(w, b)] /\ errors' = errors /\ work[w].pc = "running"
      BY <1>8 DEF flush, history
    <2> HIDE DEF b
    <2>3. /\ Learn(w, b) \in Slots
          /\ Learn(w, b).pc = b.pc /\ Learn(w, b).op = b.op /\ Learn(w, b).write = b.write
          /\ Learn(w, b).outcome = b.outcome
          /\ Learn(w, b).attempts = b.attempts /\ Learn(w, b).elapsed = b.elapsed
          /\ Learn(w, b).lost = (b.lost \/ row[o].state # "running")
      BY <1>1, <2>1, LearnSlot
    <2>4. ~Learn(w, b).lost
      BY <1>2, <1>6, <2>1, <2>3
    <2> QED
      BY <1>6, <1>7, <2>1, <2>2, <2>3, <2>4
  <1>9. CASE close(w)
    <2> DEFINE told == Learn(w, work[w])
               s == [told EXCEPT !.pc = "settle", !.verdict = Verdict(told)]
    <2>1. /\ told \in Slots /\ told.op = o /\ told.write = work[w].write /\ told.outcome = work[w].outcome
          /\ told.attempts = work[w].attempts /\ told.elapsed = work[w].elapsed /\ ~told.lost
      BY <1>1, <1>2, <1>6, LearnSlot
    <2>2. work' = [work EXCEPT ![w] = s] /\ errors' = errors
      BY <1>9 DEF close, history
    <2> HIDE DEF told
    <2>3. Verdict(told) \in Terminal \/ (Verdict(told) = "retry" /\ told.attempts < MaxAttempts)
      BY <2>1 DEF Verdict, Terminal
    <2>4. Verdict(told) \in Verdicts
      BY <2>1, VerdictType
    <2>5. /\ s \in Slots /\ s.op = told.op /\ s.write = told.write /\ s.outcome = told.outcome
          /\ s.attempts = told.attempts /\ s.elapsed = told.elapsed /\ s.lost = told.lost
          /\ s.pc = "settle" /\ s.verdict = Verdict(told)
      BY <2>1, <2>4 DEF Slots, Steps
    <2> HIDE DEF s
    <2> QED
      BY <1>6, <1>7, <2>1, <2>2, <2>3, <2>5
  <1>10. ASSUME NEW outcome \in Outcomes, RunnerReturns(w, outcome) PROVE BudgetInv'
    <2> DEFINE p == IF outcome = "unknown" THEN "settle" ELSE "closing"
               v == IF outcome = "unknown" THEN "failed" ELSE work[w].verdict
               s == [work[w] EXCEPT !.outcome = outcome, !.pc = p, !.verdict = v]
    <2>1. /\ outcome \in Returned /\ outcome # "oversized" /\ work[w].pc = "running"
          /\ p \in {"closing", "settle"} /\ (p = "settle" => v = "failed")
      BY <1>10, FleetType DEF TypeInv, Brisk, RunnerReturns
    <2>2. work' = [work EXCEPT ![w] = s]
      BY <1>10 DEF RunnerReturns
    <2>3. errors'[o] = errors[o] \/ errors'[o] = errors[o] + 1
      BY <1>1, <1>10 DEF TypeInv, RunnerReturns
    <2>4. v \in Verdicts /\ p \in Steps
      BY <1>1 DEF Slots, Verdicts, Terminal, Steps
    <2> HIDE DEF p, v
    <2>5. /\ s \in Slots /\ s.op = o /\ s.write = work[w].write /\ s.outcome = outcome
          /\ s.attempts = work[w].attempts /\ s.elapsed = work[w].elapsed /\ s.lost = work[w].lost
          /\ s.pc = p /\ s.verdict = v
      BY <1>1, <2>1, <2>4, SlotReturns DEF Slots
    <2> HIDE DEF s
    <2>6. "failed" \in Terminal
      BY DEF Terminal
    <2> QED
      BY <1>6, <1>7, <2>1, <2>2, <2>3, <2>5, <2>6
  <1> QED
    BY <1>8, <1>9, <1>10

\* An outcome lands, so the operation is over; a retry leaves the item's count to
\* go on from.
LEMMA BudgetSettles ==
    ASSUME TypeInv, TypeInv', Prompt, Brisk, BudgetInv, NEW w \in Workers, NEW o \in Ops,
           o = work[w].op, Finish(w) \/ Release(w) \/ abandon(w)
    PROVE  BudgetInv'
  <1>1. /\ work[w].pc = "settle" /\ work[w] \in Slots /\ work \in [Workers -> Slots]
        /\ row \in [Ops -> Rows] /\ row[o] \in Rows
        /\ UNCHANGED <<fleet, item, faults, errors>>
    BY DEF TypeInv, Finish, Release, abandon, history
  <1>2. Keeps(w) /\ Fits(o) /\ Stage(o) = "settle" /\ row[o].state = "running" /\ InTime(w)
    BY <1>1, Busy DEF BudgetInv, Prompt, Brisk, Executing
  <1>3. ~abandon(w)
    BY <1>1, <1>2 DEF Keeps, abandon, Terminal
  <1>4. /\ item[o].attempts \in 0 .. MaxAttempts /\ errors[o] \in Nat
        /\ MaxWork' = MaxWork /\ MaxWait' = MaxWait
    BY <1>1 DEF TypeInv, Items, MaxWork, MaxWait
  <1>5. /\ item[o].on /\ item[o].holder = w /\ item[o].attempts = work[w].attempts
        /\ work[w].outcome # "oversized"
        /\ work[w].verdict = "retry" => work[w].attempts < MaxAttempts
    BY <1>1, <1>2 DEF Keeps, Terminal
  <1>6. ASSUME NEW p \in {"complete", "handback"}, work' = [work EXCEPT ![w].pc = p]
        PROVE  /\ \A v \in Workers \ {w} : work'[v] = work[v]
               /\ work'[w].pc = p /\ work'[w].op = o /\ Keeps(w)' /\ Stage(o)' = p
    <2> DEFINE s == [work[w] EXCEPT !.pc = p]
    <2>1. /\ s.pc = p /\ s.op = o /\ s.attempts = work[w].attempts /\ s.elapsed = work[w].elapsed
          /\ s.write = work[w].write /\ s.lost = work[w].lost /\ s.outcome = work[w].outcome
      BY <1>1 DEF Slots
    <2>2. work' = [work EXCEPT ![w] = s]
      BY <1>6
    <2> HIDE DEF s
    <2>3. work'[w] = s /\ \A v \in Workers \ {w} : work'[v] = work[v]
      BY <1>1, <2>2
    <2>4. Keeps(w)'
      BY <1>1, <1>2, <1>4, <2>1, <2>3 DEF Keeps
    <2>5. Stage(o)' = p
      BY <1>1, <1>5, <2>1, <2>3 DEF Stage
    <2> QED
      BY <2>1, <2>3, <2>4, <2>5
  <1>7. Left(o) = MaxAttempts - item[o].attempts
    BY <1>2 DEF Left, Allowance, Active
  <1>8. CASE Finish(w)
    <2>1. work' = [work EXCEPT ![w].pc = "complete"]
      BY <1>8 DEF Finish
    <2>2. row'[o].state \in Terminal /\ \A p \in Ops \ {o} : row'[p] = row[p]
      BY <1>1, <1>2, <1>5, <1>8 DEF Finish, Finishable, Active, Rows
    <2>3. Left(o)' = 0 /\ row'[o].state # "pending" /\ row'[o].state # "none"
      BY <2>2 DEF Left, Allowance, Active, Terminal
    <2>4. Fits(o)'
      BY <1>1, <1>2, <1>4, <1>7, <2>3, BudgetGrows, Numbers DEF Fits
    <2> QED
      BY <1>1, <1>6, <2>1, <2>2, <2>4, OwnSlot
  <1>9. CASE Release(w)
    <2>1. work' = [work EXCEPT ![w].pc = "handback"] /\ work[w].verdict = "retry"
      BY <1>9 DEF Release
    <2>2. row'[o].state = "pending" /\ row'[o].lease <= 0 /\ \A p \in Ops \ {o} : row'[p] = row[p]
      BY <1>1, <1>2, <1>9, Numbers DEF Release, Held, Rows
    <2>3. Left(o)' = Left(o)
      BY <1>1, <1>4, <1>5, <1>6, <1>7, <2>1, <2>2, Numbers DEF Left, Allowance, Active
    <2>4. Fits(o)'
      BY <1>1, <1>2, <1>4, <1>7, <2>2, <2>3, BudgetGrows, Numbers DEF Fits
    <2> QED
      BY <1>1, <1>6, <2>1, <2>2, <2>4, OwnSlot
  <1> QED
    BY <1>3, <1>8, <1>9

\* A slot lets go of its item, which it hands back, retires or leaves to lapse.
LEMMA BudgetEnds ==
    ASSUME TypeInv, TypeInv', Brisk, BudgetInv, NEW w \in Workers, NEW o \in Ops,
           o = work[w].op, Undispatched(w) \/ HandBack(w) \/ complete(w)
    PROVE  BudgetInv'
  <1>1. /\ work[w].pc \in {"claimed", "handback", "complete"}
        /\ work' = [work EXCEPT ![w] = Idle] /\ work \in [Workers -> Slots]
        /\ item \in [Ops -> Items] /\ item[o] \in Items
        /\ UNCHANGED <<fleet, row, faults, errors>>
    BY DEF TypeInv, Undispatched, HandBack, complete, history
  <1>2. Keeps(w) /\ Fits(o) /\ Stage(o) = work[w].pc /\ (work[w].pc # "claimed" => InTime(w))
    BY <1>1, Busy DEF BudgetInv
  <1>3. work'[w].pc = "idle" /\ \A v \in Workers \ {w} : work'[v] = work[v]
    BY <1>1, Constructed
  <1>4. Keeps(w)'
    BY <1>3 DEF Keeps
  <1>5. /\ item[o].attempts \in 0 .. MaxAttempts /\ errors[o] \in Nat
        /\ item[o].on /\ item[o].holder = w /\ item[o].attempts > 0
    BY <1>1, <1>2 DEF TypeInv, Items, Keeps
  <1>6. \A p \in Ops \ {o} : item'[p] = item[p]
    BY <1>1 DEF Undispatched, HandBack, complete
  <1>7. \/ work[w].pc = "complete" /\ ~item'[o].on /\ item'[o].holder = NoWorker
        \/ /\ work[w].pc # "complete" /\ item'[o].on
           /\ item'[o].attempts = item[o].attempts /\ item'[o].holder \in {w, NoWorker}
    <2>1. CASE Undispatched(w)
      BY <1>5, <2>1 DEF Undispatched
    <2>2. CASE HandBack(w)
      <3>1. item'[o] = [item[o] EXCEPT !.holder = NoWorker, !.lease = 0, !.avail = RetryDelay]
        BY <1>1, <1>2, <1>5, <2>2 DEF HandBack
      <3>2. work[w].pc = "handback"
        BY <2>2 DEF HandBack
      <3> QED
        BY <1>1, <1>5, <3>1, <3>2 DEF Items
    <2>3. CASE complete(w)
      <3>1. item'[o] = NoItem /\ work[w].pc = "complete"
        BY <1>1, <1>2, <1>5, <2>3 DEF complete
      <3> QED
        BY <3>1 DEF NoItem
    <2> QED
      BY <2>1, <2>2, <2>3
  <1>8. Stage(o)' = "idle"
    BY <1>3, <1>7, Numbers DEF Stage
  <1>9. item'[o].attempts \in 0 .. MaxAttempts
    BY DEF TypeInv, Items
  <1>10. Left(o)' <= Left(o) /\ Left(o) \in Int /\ Left(o)' \in Int
    <2>1. /\ Left(o) = Allowance(row[o].state, item[o].on, item[o].attempts, work[w].pc)
          /\ Left(o)' = Allowance(row[o].state, item'[o].on, item'[o].attempts, "idle")
      BY <1>1, <1>2, <1>8 DEF Left
    <2> QED
      BY <1>1, <1>5, <1>7, <1>9, <2>1, Numbers DEF Allowance, Active
  <1>11. Fits(o)'
    BY <1>1, <1>2, <1>5, <1>10, BudgetGrows DEF Fits
  <1> QED
    BY <1>1, <1>3, <1>4, <1>6, <1>11, OwnSlot

\* A crash, a stop or a failed write costs a fault, which pays for it.
LEMMA BudgetFaults ==
    ASSUME TypeInv, TypeInv', Brisk, BudgetInv, NEW w \in Workers, NEW o \in Ops,
           o = work[w].op, writeFails(w) \/ Stop(w) \/ Crash(w)
    PROVE  BudgetInv'
  <1>1. /\ work[w].pc # "idle" /\ work[w] \in Slots /\ work \in [Workers -> Slots]
        /\ UNCHANGED <<fleet, row, item, errors>> /\ faults' = faults - 1
    BY DEF TypeInv, writeFails, Stop, Crash, history
  <1>2. Keeps(w) /\ Fits(o) /\ Stage(o) = work[w].pc
    BY <1>1, Busy DEF BudgetInv
  <1>3. \/ work' = [work EXCEPT ![w] = Idle]
        \/ \E s \in Slots : /\ work' = [work EXCEPT ![w] = s]
                            /\ s.op = o /\ s.attempts = work[w].attempts /\ s.elapsed = work[w].elapsed
                            /\ s.write = work[w].write /\ s.lost = work[w].lost /\ s.outcome = work[w].outcome
                            /\ \/ s.pc = work[w].pc /\ s.verdict = work[w].verdict
                               \/ work[w].pc = "settle" /\ s.pc \in {"handback", "complete"}
    <2>1. CASE Crash(w)
      BY <2>1 DEF Crash
    <2>2. CASE Stop(w)
      <3> DEFINE s == [work[w] EXCEPT !.stopping = TRUE]
      <3>1. /\ s \in Slots /\ s.op = o /\ s.attempts = work[w].attempts /\ s.elapsed = work[w].elapsed
            /\ s.write = work[w].write /\ s.lost = work[w].lost /\ s.outcome = work[w].outcome
            /\ s.pc = work[w].pc /\ s.verdict = work[w].verdict
        BY <1>1 DEF Slots
      <3>2. work' = [work EXCEPT ![w] = s]
        BY <2>2 DEF Stop
      <3> HIDE DEF s
      <3> QED
        BY <3>1, <3>2
    <2>3. CASE writeFails(w) /\ work' # [work EXCEPT ![w] = Idle]
      <3> DEFINE p == IF work[w].verdict = "retry" THEN "handback" ELSE "complete"
                 s == [work[w] EXCEPT !.pc = p]
      <3>1. p \in {"handback", "complete"} /\ p \in Steps
        BY DEF Steps
      <3>2. work' = [work EXCEPT ![w] = s] /\ work[w].pc = "settle"
        BY <2>3 DEF writeFails
      <3> HIDE DEF p
      <3>3. /\ s \in Slots /\ s.op = o /\ s.attempts = work[w].attempts /\ s.elapsed = work[w].elapsed
            /\ s.write = work[w].write /\ s.lost = work[w].lost /\ s.outcome = work[w].outcome /\ s.pc = p
        BY <1>1, <3>1 DEF Slots
      <3> HIDE DEF s
      <3> QED
        BY <3>1, <3>2, <3>3
    <2> QED
      BY <2>1, <2>2, <2>3
  <1>4. /\ \A v \in Workers \ {w} : work'[v] = work[v]
        /\ work'[w].pc = "idle" \/ work'[w].op = o
        /\ Keeps(w)'
    <2>1. CASE work' = [work EXCEPT ![w] = Idle]
      BY <1>1, <2>1, Constructed DEF Keeps
    <2>2. ASSUME NEW s \in Slots, work' = [work EXCEPT ![w] = s],
                 s.op = o, s.attempts = work[w].attempts, s.elapsed = work[w].elapsed,
                 s.write = work[w].write, s.lost = work[w].lost, s.outcome = work[w].outcome,
                 \/ s.pc = work[w].pc /\ s.verdict = work[w].verdict
                 \/ work[w].pc = "settle" /\ s.pc \in {"handback", "complete"}
          PROVE  /\ \A v \in Workers \ {w} : work'[v] = work[v]
                 /\ work'[w].op = o /\ Keeps(w)'
      <3>1. work'[w] = s /\ \A v \in Workers \ {w} : work'[v] = work[v]
        BY <1>1, <2>2
      <3>2. MaxWork' = MaxWork /\ MaxWait' = MaxWait
        BY <1>1 DEF MaxWork, MaxWait
      <3>3. Keeps(w)'
        BY <1>1, <1>2, <2>2, <3>1, <3>2 DEF Keeps
      <3> QED
        BY <2>2, <3>1, <3>3
    <2> QED
      BY <1>3, <2>1, <2>2
  <1>5. item[o].holder = w /\ item[o].attempts > 0
    BY <1>1, <1>2 DEF Keeps
  <1>6. Fits(o)'
    BY <1>1, <1>2, <1>5, FitsFault DEF Fits
  <1> QED
    BY <1>1, <1>4, <1>6, OwnSlot

\* The clock waits for slots and Runners only, and the two together are shorter
\* than the lease.
LEMMA BudgetTick == ASSUME TypeInv, TypeInv', Brisk, BudgetInv, Tick PROVE BudgetInv'
  <1>1. /\ KeepsUp /\ UNCHANGED <<fleet, faults, errors>>
        /\ MaxWork' = MaxWork /\ MaxWork \in Nat /\ MaxWait' = MaxWait /\ MaxWait \in Nat
    BY FleetType DEF Tick, Brisk, MaxWork, MaxWait, TypeInv
  <1>2. ASSUME NEW o \in Ops
        PROVE  /\ item[o] \in Items
               /\ item'[o].on = item[o].on /\ item'[o].holder = item[o].holder /\ item'[o].attempts = item[o].attempts
               /\ item'[o].lease = Down(item[o].lease, 0)
    <2>1. item[o] \in Items
      BY DEF TypeInv
    <2>2. item'[o] = [item[o] EXCEPT !.lease = Down(@, 0), !.avail = Down(@, 0)]
      BY DEF Tick
    <2> QED
      BY <2>1, <2>2 DEF Items
  <1>3. ASSUME NEW w \in Workers
        PROVE  /\ work'[w].pc = work[w].pc /\ work'[w].op = work[w].op /\ work'[w].attempts = work[w].attempts
               /\ work'[w].lost = work[w].lost /\ work'[w].outcome = work[w].outcome
               /\ work'[w].write = Down(work[w].write, 0)
               /\ work[w].pc = "claimed" => work'[w].elapsed = Up(work[w].elapsed, MaxWait)
               /\ work[w].pc = "running" => work'[w].elapsed = Up(work[w].elapsed, MaxWork)
    <2> DEFINE e == CASE work[w].pc = "claimed" -> Up(work[w].elapsed, MaxWait)
                      [] work[w].pc = "running" -> Up(work[w].elapsed, MaxWork)
                      [] OTHER -> work[w].elapsed
    <2>1. work[w] \in Slots
      BY DEF TypeInv
    <2>2. \E bt : work'[w] = [work[w] EXCEPT !.write = Down(@, 0), !.elapsed = e, !.beat = bt]
      BY DEF Tick
    <2>3. /\ work[w].pc = "claimed" => e = Up(work[w].elapsed, MaxWait)
          /\ work[w].pc = "running" => e = Up(work[w].elapsed, MaxWork)
      OBVIOUS
    <2> HIDE DEF e
    <2> QED
      BY <2>1, <2>2, <2>3 DEF Slots
  <1>4. ASSUME NEW w \in Workers PROVE Keeps(w)'
    <2> SUFFICES ASSUME work[w].pc # "idle" PROVE Keeps(w)'
      BY <1>3 DEF Keeps
    <2>1. /\ work[w].op \in Ops /\ Keeps(w)
          /\ \/ work[w].pc = "claimed" /\ work[w].elapsed < MaxWait
             \/ work[w].pc = "running" /\ work[w].elapsed < MaxWork
      BY <1>1 DEF KeepsUp, TypeInv, BudgetInv
    <2>2. /\ work[w].elapsed \in Nat /\ work[w].write \in Nat /\ item[work[w].op].lease \in Nat
      BY <2>1, Numbers DEF TypeInv, Slots, Items
    <2>3. work'[w].elapsed = work[w].elapsed + 1
      BY <1>3, <2>1 DEF Up
    <2>4. work'[w].write >= work[w].write - 1 /\ work'[w].write \in Int
      BY <1>3, <2>2 DEF Down
    <2>5. item'[work[w].op].lease >= item[work[w].op].lease - 1 /\ item'[work[w].op].lease \in Int
      BY <1>2, <2>1, <2>2 DEF Down
    <2> QED
      BY <1>1, <1>2, <1>3, <2>1, <2>2, <2>3, <2>4, <2>5, Numbers DEF Keeps
  <1>5. ASSUME NEW o \in Ops PROVE Fits(o)'
    <2>1. Stage(o)' = Stage(o)
      BY <1>2, <1>3 DEF Stage
    <2>2. Fits(o) /\ row[o].lease \in Int /\ row'[o].state = row[o].state
          /\ (row'[o].lease = row[o].lease \/ row'[o].lease = row[o].lease - 1)
      BY Ticks, Numbers DEF BudgetInv, TypeInv, Rows
    <2>3. row'[o].lease <= row[o].lease
      BY <2>2
    <2> QED
      BY <1>1, <1>2, <2>1, <2>2, <2>3, FitsStill
  <1> QED
    BY <1>4, <1>5 DEF BudgetInv

LEMMA BudgetNext == TypeInv /\ TypeInv' /\ Prompt /\ BudgetInv /\ [ONext]_ovars => BudgetInv'
  <1> SUFFICES ASSUME TypeInv, TypeInv', Prompt, BudgetInv, [ONext]_ovars PROVE BudgetInv'
    OBVIOUS
  <1>1. UNCHANGED fleet
    <2>1. ASSUME NEW o \in Ops,
                 \/ \E d \in StartDelays : Start(o, d)
                 \/ StartInTransaction(o) \/ enqueue(o) \/ EnqueueLost(o) \/ Enqueue(o) \/ RequestCancel(o) \/ Reap(o)
          PROVE  UNCHANGED fleet
      BY <2>1 DEF Start, StartInTransaction, enqueue, EnqueueLost, Enqueue, RequestCancel, Reap
    <2>2. ASSUME NEW w \in Workers, WorkerStep(w) PROVE UNCHANGED fleet
      BY <2>2 DEF WorkerStep, Claim, execute, Undispatched, flush, RunnerReturns, close, Finish, Release,
         abandon, HandBack, complete
    <2>3. ASSUME NEW w \in Workers, Faulty(w) PROVE UNCHANGED fleet
      BY <2>3 DEF Faulty, executeFails, flushFails, writeFails, Stop, Crash
    <2>4. CASE Recover \/ RecoverEnqueues \/ Tick \/ UNCHANGED ovars
      BY <2>4 DEF Recover, RecoverEnqueues, Tick, ovars
    <2> QED
      BY <2>1, <2>2, <2>3, <2>4 DEF ONext
  <1>2. CASE ~Brisk
    BY <1>1, <1>2 DEF BudgetInv, Brisk, Timely, MaxWork, MaxWait, Outcomes
  <1>3. CASE Brisk /\ UNCHANGED ovars
    BY <1>3 DEF BudgetInv, Brisk, Timely, MaxWork, MaxWait, Outcomes, Keeps, Fits, Left, Stage, Budget, MaxFaults, ovars
  <1>4. ASSUME Brisk, NEW w \in Workers, WorkerStep(w) \/ Faulty(w) PROVE BudgetInv'
    <2>1. ~flushFails(w)
      BY <1>4 DEF flushFails, Brisk
    <2>2. ASSUME NEW o \in Ops, Claim(w, o) PROVE BudgetInv'
      BY <1>4, <2>2, BudgetClaim
    <2>3. ASSUME ~\E o \in Ops : Claim(w, o) PROVE BudgetInv'
      <3>1. work[w].op \in Ops
        BY <1>4, <2>1, <2>3 DEF TypeInv, WorkerStep, Faulty, execute, Undispatched, flush, RunnerReturns, close,
           Finish, Release, abandon, HandBack, complete, executeFails, writeFails, Stop, Crash
      <3> QED
        BY <1>4, <2>1, <2>3, <3>1, BudgetExecute, BudgetRuns, BudgetSettles, BudgetEnds, BudgetFaults
           DEF WorkerStep, Faulty
    <2> QED
      BY <2>2, <2>3
  <1> QED
    BY <1>2, <1>3, <1>4, BudgetService, BudgetSweep, BudgetTick DEF ONext

\* In a fleet that keeps up, when an item's wait for a slot and its run together
\* are shorter than the lease and results are of an accepted size, the Runners of
\* an operation return at most MaxAttempts retryable errors, and MaxAttempts more
\* for each fault, however often the sweep or a caller offers the operation again.
THEOREM BudgetHolds == OSafety => []BudgetPerFault
  <1>1. TypeInv /\ BudgetInv => BudgetPerFault
    <2> SUFFICES ASSUME TypeInv, BudgetInv, Brisk, NEW o \in Ops PROVE errors[o] <= Budget
      BY DEF BudgetPerFault, Brisk, Budget
    <2>1. /\ Fits(o) /\ errors[o] \in Nat /\ item[o].attempts \in 0 .. MaxAttempts
          /\ Stage(o) \in {"claimed", "running"} => item[o].attempts > 0
      BY DEF BudgetInv, TypeInv, Items, Stage, Keeps
    <2>2. Left(o) \in Nat
      BY <2>1, AllowanceBound, Numbers DEF Left
    <2>3. Budget \in Nat
      <3>1. MaxFaults \in Nat /\ faults \in 0 .. MaxFaults
        BY FleetType DEF TypeInv
      <3> QED
        BY <3>1, Spent DEF Budget
    <2> QED
      BY <2>1, <2>2, <2>3 DEF Fits
  <1> QED
    BY <1>1, TypeInit, TypeNext, PromptInit, PromptNext, BudgetInit, BudgetNext, PTL DEF OSafety

=============================================================================
