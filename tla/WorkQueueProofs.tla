--------------------------- MODULE WorkQueueProofs ---------------------------
(***************************************************************************)
(* Proofs about WorkQueue, for every set of keys, delays, leases and       *)
(* limits, every ceiling, and every number of claims.                      *)
(***************************************************************************)
EXTENDS WorkQueue, TLAPS

\* mergeEntries and the ON CONFLICT clause are one rule: for every row, every
\* two entries and every instant, one flush of the merged entry leaves what
\* two flushes leave.
THEOREM MergeAgreesWithConflict ==
    ASSUME NEW row \in Rows, NEW a \in Entries, NEW b \in Entries, NEW t \in Nat
    PROVE  Upsert(Upsert(row, a, t), b, t) = Upsert(row, mergeEntries(a, b), t)
  <1> DEFINE once  == Upsert(row, mergeEntries(a, b), t)
             twice == Upsert(Upsert(row, a, t), b, t)
  <1>1. CASE ~row.stored
    <2>1. Upsert(row, a, t) = [NoRow EXCEPT !.stored = TRUE,
                                            !.priority = a.priority,
                                            !.available = t + a.delay]
      BY <1>1 DEF Upsert
    <2>2. once.priority = twice.priority /\ once.available = twice.available
      BY <1>1, <2>1 DEF Upsert, mergeEntries, NoRow, Entries, Larger, Smaller
    <2>3. once = [stored |-> TRUE, priority |-> once.priority, attempts |-> 0,
                  available |-> once.available, lease |-> 0, holder |-> 0, completed |-> 0]
      BY <1>1 DEF Upsert, NoRow
    <2>4. twice = [stored |-> TRUE, priority |-> twice.priority, attempts |-> 0,
                   available |-> twice.available, lease |-> 0, holder |-> 0, completed |-> 0]
      BY <2>1 DEF Upsert, NoRow
    <2> HIDE DEF once, twice
    <2>5. once = twice
      BY <2>2, <2>3, <2>4
    <2> QED
      BY <2>5 DEF once, twice
  <1>2. CASE row.stored /\ row.completed = 0
    <2>1. Upsert(row, a, t) = [row EXCEPT !.priority = Larger(@, a.priority),
                                          !.available = Smaller(@, t + a.delay)]
      BY <1>2 DEF Upsert, Rows
    <2>2. once.priority = twice.priority /\ once.available = twice.available
      BY <1>2, <2>1 DEF Upsert, mergeEntries, Rows, Entries, Larger, Smaller
    <2> QED
      BY <1>2, <2>1, <2>2 DEF Upsert, mergeEntries, Rows, Entries
  <1>3. CASE row.stored /\ row.completed # 0
    <2>1. Upsert(row, a, t) = [row EXCEPT !.priority = Larger(@, a.priority),
                                          !.available = t + a.delay,
                                          !.attempts = 0,
                                          !.completed = 0]
      BY <1>3 DEF Upsert, Rows
    <2>2. once.priority = twice.priority /\ once.available = twice.available
      BY <1>3, <2>1 DEF Upsert, mergeEntries, Rows, Entries, Larger, Smaller
    <2> QED
      BY <1>3, <2>1, <2>2 DEF Upsert, mergeEntries, Rows, Entries
  <1> QED
    BY <1>1, <1>2, <1>3 DEF Rows

-----------------------------------------------------------------------------
(* What each row transformer leaves of a row.                              *)

LEMMA RowMerge ==
    ASSUME NEW row \in Rows, NEW pr \in Int, NEW at \in Nat, NEW tries \in Nat
    PROVE  [row EXCEPT !.priority = pr, !.available = at,
                       !.attempts = tries, !.completed = 0] \in Rows
  BY DEF Rows

LEMMA RowHandBack ==
    ASSUME NEW row \in Rows, NEW at \in Nat
    PROVE  [row EXCEPT !.lease = 0, !.holder = 0, !.available = at] \in Rows
  BY DEF Rows

LEMMA UpsertRow ==
    ASSUME NEW row \in Rows, NEW e \in Entries, NEW t \in Nat
    PROVE  /\ Upsert(row, e, t) \in Rows
           /\ Outstanding(Upsert(row, e, t))
           /\ row.stored => /\ Upsert(row, e, t).lease = row.lease
                            /\ Upsert(row, e, t).holder = row.holder
           /\ ~row.stored => /\ Upsert(row, e, t).lease = 0
                             /\ Upsert(row, e, t).holder = 0
           /\ Upsert(row, e, t).attempts =
                  IF Outstanding(row) THEN row.attempts ELSE 0
  <1> DEFINE at == IF row.completed = 0 THEN Smaller(row.available, t + e.delay)
                                        ELSE t + e.delay
             pr == Larger(row.priority, e.priority)
             tries == IF row.completed = 0 THEN row.attempts ELSE 0
  <1>1. /\ at \in Nat
        /\ pr \in Int
        /\ tries \in Nat
        /\ t + e.delay \in Nat
        /\ e.priority \in Int
    BY DEF Rows, Entries, Larger, Smaller
  <1>2. CASE row.stored
    <2>1. Upsert(row, e, t) = [row EXCEPT !.priority = pr, !.available = at,
                                          !.attempts = tries, !.completed = 0]
      BY <1>2 DEF Upsert
    <2> HIDE DEF at, pr, tries
    <2>2. Upsert(row, e, t).attempts = tries
      BY <2>1, <1>1 DEF Rows
    <2>3. Upsert(row, e, t) \in Rows
      <3>1. [row EXCEPT !.priority = pr, !.available = at,
                        !.attempts = tries, !.completed = 0] \in Rows
        BY <1>1, RowMerge
      <3> QED
        BY <2>1, <3>1, Zenon
    <2>4. /\ Upsert(row, e, t).stored = row.stored
          /\ Upsert(row, e, t).completed = 0
          /\ Upsert(row, e, t).lease = row.lease
          /\ Upsert(row, e, t).holder = row.holder
      BY <2>1, <1>1 DEF Rows
    <2> QED
      BY <1>2, <2>2, <2>3, <2>4 DEF Outstanding, tries
  <1>3. CASE ~row.stored
    <2> DEFINE a == t + e.delay
    <2>1. Upsert(row, e, t) = [NoRow EXCEPT !.stored = TRUE, !.priority = e.priority,
                                            !.available = a]
      BY <1>3 DEF Upsert
    <2>2. a \in Nat
      BY <1>1
    <2> HIDE DEF a
    <2> QED
      BY <1>1, <1>3, <2>1, <2>2 DEF NoRow, Rows, Outstanding
  <1> QED
    BY <1>2, <1>3 DEF Rows

LEMMA LeasedRow ==
    ASSUME TypeOK, NEW row \in Rows, NEW n \in Nat, NEW lease \in Nat
    PROVE  /\ Leased(row, n, lease) \in Rows
           /\ Leased(row, n, lease).stored = row.stored
           /\ Leased(row, n, lease).completed = row.completed
           /\ Leased(row, n, lease).lease = now + lease
           /\ Leased(row, n, lease).holder = n
           /\ Leased(row, n, lease).attempts = row.attempts + 1
  <1> DEFINE horizon == now + lease
             tries == row.attempts + 1
  <1>1. horizon \in Nat /\ tries \in Nat
    BY DEF Rows, TypeOK
  <1>2. Leased(row, n, lease) = [row EXCEPT !.lease = horizon, !.holder = n, !.attempts = tries]
    BY DEF Leased
  <1> HIDE DEF horizon, tries
  <1>3. /\ Leased(row, n, lease) \in Rows
        /\ Leased(row, n, lease).stored = row.stored
        /\ Leased(row, n, lease).completed = row.completed
        /\ Leased(row, n, lease).lease = horizon
        /\ Leased(row, n, lease).holder = n
        /\ Leased(row, n, lease).attempts = tries
    BY <1>1, <1>2 DEF Rows
  <1> QED
    BY <1>3 DEF horizon, tries

LEMMA ExtendedRow ==
    ASSUME TypeOK, NEW row \in Rows, NEW lease \in Nat
    PROVE  /\ Extended(row, lease) \in Rows
           /\ Extended(row, lease).stored = row.stored
           /\ Extended(row, lease).completed = row.completed
           /\ Extended(row, lease).lease = Larger(row.lease, now + lease)
           /\ Extended(row, lease).holder = row.holder
           /\ Extended(row, lease).attempts = row.attempts
  <1> DEFINE horizon == Larger(row.lease, now + lease)
  <1>1. horizon \in Nat
    BY DEF Rows, TypeOK, Larger
  <1>2. Extended(row, lease) = [row EXCEPT !.lease = horizon]
    BY DEF Extended
  <1> HIDE DEF horizon
  <1>3. /\ Extended(row, lease) \in Rows
        /\ Extended(row, lease).stored = row.stored
        /\ Extended(row, lease).completed = row.completed
        /\ Extended(row, lease).lease = horizon
        /\ Extended(row, lease).holder = row.holder
        /\ Extended(row, lease).attempts = row.attempts
    BY <1>1, <1>2 DEF Rows
  <1> QED
    BY <1>3 DEF horizon

LEMMA CompletedRow ==
    ASSUME TypeOK, NEW row \in Rows
    PROVE  /\ Completed(row) \in Rows
           /\ Completed(row).stored = row.stored
           /\ Completed(row).completed = now
           /\ Completed(row).lease = 0
           /\ Completed(row).holder = 0
           /\ Completed(row).attempts = row.attempts
  BY DEF Completed, Rows, TypeOK

LEMMA ReleasedRow ==
    ASSUME TypeOK, NEW row \in Rows, NEW delay \in Int
    PROVE  /\ Released(row, delay) \in Rows
           /\ Released(row, delay).stored = row.stored
           /\ Released(row, delay).completed = row.completed
           /\ Released(row, delay).lease = 0
           /\ Released(row, delay).holder = 0
           /\ Released(row, delay).attempts = row.attempts
  <1> DEFINE at == now + Larger(delay, 0)
  <1>1. at \in Nat
    BY DEF TypeOK, Larger
  <1>2. Released(row, delay) = [row EXCEPT !.lease = 0, !.holder = 0, !.available = at]
    BY DEF Released
  <1> HIDE DEF at
  <1>3. Released(row, delay) \in Rows
    BY <1>1, <1>2, RowHandBack, Zenon
  <1>4. /\ Released(row, delay).stored = row.stored
        /\ Released(row, delay).completed = row.completed
        /\ Released(row, delay).lease = 0
        /\ Released(row, delay).holder = 0
        /\ Released(row, delay).attempts = row.attempts
    BY <1>1, <1>2 DEF Rows
  <1> QED
    BY <1>3, <1>4

LEMMA RequeuedRow ==
    ASSUME TypeOK, NEW row \in Rows
    PROVE  /\ Requeued(row) \in Rows
           /\ Requeued(row).stored = row.stored
           /\ Requeued(row).completed = row.completed
           /\ Requeued(row).lease = row.lease
           /\ Requeued(row).holder = row.holder
           /\ Requeued(row).attempts = 0
  BY DEF Requeued, Rows, TypeOK

LEMMA AbsentRow == /\ NoRow \in Rows
                   /\ ~NoRow.stored /\ NoRow.completed = 0
                   /\ NoRow.lease = 0 /\ NoRow.holder = 0 /\ NoRow.attempts = 0
  BY DEF NoRow, Rows

-----------------------------------------------------------------------------
(* Type correctness.                                                       *)

LEMMA InitType == Init => TypeOK
  BY WorkQueueAssumption DEF Init, TypeOK, Rows, NoRow, Entries, NoEntry, Names

LEMMA MergeType ==
    ASSUME NEW a \in Entries, NEW b \in Entries
    PROVE  mergeEntries(a, b) \in Entries
  BY DEF mergeEntries, Entries, Larger, Smaller

LEMMA NextType == TypeOK /\ [Next]_vars => TypeOK'
  <1> SUFFICES ASSUME TypeOK, [Next]_vars PROVE TypeOK'
    OBVIOUS
  <1> USE WorkQueueAssumption
  <1>1. ASSUME NEW k \in Keys, NEW p \in Priorities, NEW d \in Delays, Enqueue(k, p, d)
        PROVE  TypeOK'
    <2> DEFINE entry == [waiting |-> TRUE, priority |-> p, delay |-> Larger(d, 0)]
    <2>1. entry \in Entries
      BY DEF Entries, Larger
    <2>2. pending' \in [Keys -> Entries]
      <3>1. mergeEntries(pending[k], entry) \in Entries
        BY <2>1, MergeType DEF TypeOK
      <3> QED
        BY <1>1, <2>1, <3>1 DEF Enqueue, TypeOK
    <2> QED
      BY <1>1, <2>2 DEF Enqueue, TypeOK
  <1>2. CASE upsert
    <2>1. items' \in [Keys -> Rows]
      BY <1>2, UpsertRow DEF upsert, TypeOK
    <2>2. NoEntry \in Entries
      BY DEF NoEntry, Entries
    <2> QED
      BY <1>2, <2>1, <2>2 DEF upsert, TypeOK
  <1>3. CASE UpsertFails
    BY <1>3 DEF UpsertFails, TypeOK, NoEntry, Entries
  <1>4. ASSUME NEW batch \in SUBSET Keys, NEW lease \in Leases, LeaseBatch(batch, lease)
        PROVE  /\ items' \in [Keys -> Rows]
               /\ handed' \in [Keys -> Nat]
               /\ latest' \in [Keys -> Nat]
               /\ nextName' \in Nat \ {0}
    <2>1. lease \in Nat /\ nextName \in Nat
      BY <1>4 DEF LeaseBatch, TypeOK
    <2>2. items' \in [Keys -> Rows]
      BY <1>4, <2>1, LeasedRow DEF LeaseBatch, TypeOK
    <2> QED
      BY <1>4, <2>2 DEF LeaseBatch, TypeOK
  <1>5. ASSUME NEW limit \in Limits, NEW lease \in Leases, NEW locked \in SUBSET Keys,
               Claim(limit, lease, locked)
        PROVE  TypeOK'
    <2> DEFINE batch == DueBatch(ClaimLimit(limit), locked)
    <2>1. batch \in SUBSET Keys
      BY DEF DueBatch
    <2>2. LeaseBatch(batch, lease)
      BY <1>5 DEF Claim
    <2>3. until' \in [Names -> [Keys -> Nat]]
      BY <1>5, <2>2 DEF Claim, LeaseBatch, TypeOK
    <2> QED
      BY <1>4, <1>5, <2>1, <2>2, <2>3 DEF Claim, TypeOK
  <1>6. ASSUME NEW limit \in Limits, NEW lease \in Leases, NEW locked \in SUBSET Keys,
               ClaimLost(limit, lease, locked)
        PROVE  TypeOK'
    <2>1. DueBatch(ClaimLimit(limit), locked) \in SUBSET Keys
      BY DEF DueBatch
    <2> QED
      BY <1>4, <1>6, <2>1 DEF ClaimLost, TypeOK
  <1>7. ASSUME NEW n \in Names, NEW k \in Keys, Work(n, k)
        PROVE  TypeOK'
    BY <1>7 DEF Work, TypeOK
  <1>8. ASSUME NEW n \in Names, NEW ks \in Some(issued[n]), NEW lease \in Leases, Extend(n, ks, lease)
        PROVE  TypeOK'
    <2>1. items' \in [Keys -> Rows]
      <3>1. lease > 0
        BY <1>8 DEF Extend
      <3>2. lease \in Nat
        BY <3>1
      <3> QED
        BY <1>8, <3>2, ExtendedRow DEF Extend, TypeOK
    <2>2. until' \in [Names -> [Keys -> Nat]]
      BY <1>8 DEF Extend, TypeOK, Larger
    <2> QED
      BY <1>8, <2>1, <2>2 DEF Extend, TypeOK
  <1>9. ASSUME NEW n \in Names, NEW ks, GivesUp(n, ks)
        PROVE  until' \in [Names -> [Keys -> Nat]]
    BY <1>9 DEF GivesUp, TypeOK
  <1>10. ASSUME NEW n \in Names, NEW ks \in Some(worked[n]), Complete(n, ks)
         PROVE  TypeOK'
    BY <1>9, <1>10, CompletedRow DEF Complete, TypeOK
  <1>11. ASSUME NEW n \in Names, NEW ks \in Some(issued[n]), NEW d \in Delays, Release(n, ks, d)
         PROVE  TypeOK'
    <2>1. items' \in [Keys -> Rows]
      BY <1>11, ReleasedRow DEF Release, TypeOK
    <2> QED
      BY <1>9, <1>11, <2>1 DEF Release, TypeOK
  <1>12. ASSUME NEW ks \in Some(Keys), Remove(ks)
         PROVE  TypeOK'
    <2>1. items' \in [Keys -> Rows]
      BY <1>12, AbsentRow DEF Remove, TypeOK
    <2>2. severed' \in [Names -> SUBSET Keys]
      BY <1>12 DEF Remove, TypeOK, Some
    <2> QED
      BY <1>12, <2>1, <2>2 DEF Remove, TypeOK
  <1>13. ASSUME NEW ks \in Some(Keys), Requeue(ks)
         PROVE  TypeOK'
    BY <1>13, RequeuedRow DEF Requeue, TypeOK
  <1>14. ASSUME NEW doomed \in SUBSET Keys, Reap(doomed)
         PROVE  TypeOK'
    BY <1>14, AbsentRow DEF Reap, TypeOK
  <1>15. CASE Tick
    BY <1>15 DEF Tick, TypeOK
  <1>16. CASE UNCHANGED vars
    BY <1>16 DEF vars, TypeOK
  <1> QED
    BY <1>1, <1>2, <1>3, <1>5, <1>6, <1>7, <1>8, <1>10, <1>11, <1>12, <1>13,
       <1>14, <1>15, <1>16 DEF Next

\* Every reachable state is well typed.
THEOREM TypeCorrect == Spec => []TypeOK
  <1>1. Init => TypeOK
    BY InitType
  <1>2. TypeOK /\ [Next]_vars => TypeOK'
    BY NextType
  <1> QED
    BY <1>1, <1>2, PTL DEF Spec
-----------------------------------------------------------------------------
(* The safety invariants, by induction: one lemma per group of actions.    *)

LEMMA InitInv == Init => IndInv
  <1> SUFFICES ASSUME Init PROVE IndInv
    OBVIOUS
  <1> USE WorkQueueAssumption
  <1>1. TypeOK
    BY InitType
  <1>2. NamesFresh /\ SettledUnleased /\ HolderIsLatest
    BY AbsentRow DEF Init, NamesFresh, SettledUnleased, HolderIsLatest
  <1>3. AttemptsCounted /\ CompletedByLatest /\ CeilingHolds
    BY AbsentRow DEF Init, AttemptsCounted, CompletedByLatest, CeilingHolds
  <1>4. LeaseHonoured
    BY DEF Init, LeaseHonoured
  <1> QED
    BY <1>1, <1>2, <1>3, <1>4 DEF IndInv

\* The batcher's flush restarts only rows nobody can be holding.
LEMMA UpsertInv == IndInv /\ TypeOK' /\ upsert => IndInv'
  <1> SUFFICES ASSUME IndInv, TypeOK', upsert PROVE IndInv'
    OBVIOUS
  <1> USE WorkQueueAssumption
  <1>1. \A k \in Keys : \/ items'[k] = items[k] /\ handed'[k] = handed[k]
                        \/ /\ items'[k] = Upsert(items[k], pending[k], now)
                           /\ handed'[k] = IF Outstanding(items[k]) THEN handed[k] ELSE 0
    BY DEF upsert, IndInv, TypeOK
  <1>2. /\ now' = now /\ nextName' = nextName /\ issued' = issued /\ until' = until
        /\ worked' = worked /\ severed' = severed /\ latest' = latest
    BY DEF upsert
  <1>3. \A k \in Keys : items[k] \in Rows /\ pending[k] \in Entries /\ now \in Nat
    BY DEF IndInv, TypeOK
  <1>4. ASSUME NEW k \in Keys
        PROVE  /\ items'[k].holder = items[k].holder
               /\ items'[k].lease = items[k].lease
               /\ Outstanding(items[k]) => Outstanding(items'[k])
               /\ items'[k] # items[k] => Outstanding(items'[k])
               /\ items'[k].stored => handed'[k] = items'[k].attempts
    <2>1. CASE items'[k] = items[k] /\ handed'[k] = handed[k]
      BY <2>1 DEF IndInv, AttemptsCounted
    <2>2. CASE /\ items'[k] = Upsert(items[k], pending[k], now)
               /\ handed'[k] = IF Outstanding(items[k]) THEN handed[k] ELSE 0
      <3>1. items[k] \in Rows
        BY <1>3
      <3>2. Outstanding(items[k]) => handed[k] = items[k].attempts
        BY DEF IndInv, AttemptsCounted, Outstanding
      <3>3. ~items[k].stored => items[k].holder = 0 /\ items[k].lease = 0
        BY DEF IndInv, SettledUnleased, Outstanding
      <3> QED
        BY <1>3, <2>2, <3>1, <3>2, <3>3, UpsertRow
    <2> QED
      BY <1>1, <2>1, <2>2
  <1>5. NamesFresh'
    BY <1>2, <1>4 DEF IndInv, NamesFresh
  <1>6. SettledUnleased' /\ HolderIsLatest'
    BY <1>2, <1>4 DEF IndInv, SettledUnleased, HolderIsLatest
  <1>7. AttemptsCounted'
    BY <1>4 DEF AttemptsCounted
  <1>8. LeaseHonoured'
    BY <1>2, <1>4 DEF IndInv, LeaseHonoured
  <1>9. CompletedByLatest'
    <2> SUFFICES ASSUME NEW k \in Keys, items'[k].completed > 0
                 PROVE  latest'[k] \in Names /\ k \in worked'[latest'[k]]
      BY DEF CompletedByLatest
    <2>1. items'[k] = items[k]
      BY <1>4 DEF Outstanding
    <2> QED
      BY <1>2, <2>1 DEF IndInv, CompletedByLatest
  <1>10. CeilingHolds'
    <2>1. \A k \in Keys : handed'[k] = handed[k] \/ handed'[k] = 0
      BY <1>1, Zenon
    <2> QED
      BY <2>1 DEF IndInv, CeilingHolds
  <1> QED
    BY <1>5, <1>6, <1>7, <1>8, <1>9, <1>10 DEF IndInv

\* A claim takes only rows whose lease has run out, so no caller that still
\* counts on a lease loses it.
LEMMA LeaseBatchInv ==
    ASSUME IndInv, TypeOK', NEW lease \in Leases, NEW batch \in SUBSET Keys,
           \A k \in batch : Due(items[k]),
           LeaseBatch(batch, lease),
           now' = now, worked' = worked, severed' = severed,
           \/ issued' = issued /\ until' = until
           \/ /\ issued' = [issued EXCEPT ![nextName] = batch]
              /\ until' = [until EXCEPT ![nextName] =
                              [k \in Keys |-> IF k \in batch THEN now + lease ELSE 0]]
    PROVE  IndInv'
  <1> USE WorkQueueAssumption
  <1>1. lease \in Nat /\ nextName \in Names /\ nextName' = nextName + 1
    BY DEF LeaseBatch
  <1>2. nextName \in Nat \ {0} /\ now \in Nat
    BY DEF IndInv, TypeOK
  <1>3. ASSUME NEW k \in Keys, k \notin batch
        PROVE  items'[k] = items[k] /\ handed'[k] = handed[k] /\ latest'[k] = latest[k]
    BY <1>3 DEF LeaseBatch
  <1>4. ASSUME NEW k \in batch
        PROVE  /\ items[k] \in Rows
               /\ items'[k] \in Rows
               /\ Outstanding(items'[k])
               /\ items'[k].holder = nextName
               /\ items'[k].lease = now + lease
               /\ items'[k].attempts = items[k].attempts + 1
               /\ handed'[k] = handed[k] + 1
               /\ latest'[k] = nextName
    <2>1. items[k] \in Rows /\ Outstanding(items[k])
      BY DEF IndInv, TypeOK, Due
    <2>2. items'[k] = Leased(items[k], nextName, lease)
      BY DEF LeaseBatch
    <2>3. handed'[k] = handed[k] + 1 /\ latest'[k] = nextName
      BY DEF LeaseBatch
    <2>4. TypeOK
      BY DEF IndInv
    <2>5. /\ items'[k] \in Rows
          /\ items'[k].stored = items[k].stored
          /\ items'[k].completed = items[k].completed
          /\ items'[k].lease = now + lease
          /\ items'[k].holder = nextName
          /\ items'[k].attempts = items[k].attempts + 1
      <3> DEFINE r == items[k]
      <3>1. r \in Rows /\ nextName \in Nat /\ lease \in Nat
        BY <1>1, <1>2, <2>1
      <3>2. items'[k] = Leased(r, nextName, lease)
        BY <2>2
      <3>3. r.stored = items[k].stored /\ r.completed = items[k].completed
            /\ r.attempts = items[k].attempts
        OBVIOUS
      <3> HIDE DEF r
      <3>4. /\ Leased(r, nextName, lease) \in Rows
            /\ Leased(r, nextName, lease).stored = r.stored
            /\ Leased(r, nextName, lease).completed = r.completed
            /\ Leased(r, nextName, lease).lease = now + lease
            /\ Leased(r, nextName, lease).holder = nextName
            /\ Leased(r, nextName, lease).attempts = r.attempts + 1
        BY <2>4, <3>1, LeasedRow
      <3> QED
        BY <3>2, <3>3, <3>4
    <2> QED
      BY <2>1, <2>3, <2>5 DEF Outstanding
  <1>5. \A n \in Names : n # nextName => until'[n] = until[n] /\ issued'[n] = issued[n]
    BY DEF IndInv, TypeOK
  <1>6. NamesFresh'
    <2>1. ASSUME NEW n \in Names, n >= nextName'
          PROVE  issued'[n] = {} /\ \A k \in Keys : until'[n][k] = 0
      <3>1. n # nextName /\ n >= nextName
        BY <1>1, <1>2, <2>1 DEF Names
      <3> QED
        BY <1>5, <3>1 DEF IndInv, NamesFresh
    <2>2. ASSUME NEW k \in Keys
          PROVE  items'[k].holder < nextName' /\ items'[k].holder \in {0} \cup Names
      <3>1. CASE k \in batch
        BY <1>1, <1>2, <1>4, <3>1
      <3>2. CASE k \notin batch
        <4>1. items[k].holder \in Nat /\ items[k].holder < nextName
          BY DEF IndInv, TypeOK, Rows, NamesFresh
        <4>2. items'[k].holder < nextName'
          BY <1>1, <1>2, <1>3, <3>2, <4>1
        <4>3. items'[k].holder \in {0} \cup Names
          BY <1>3, <3>2 DEF IndInv, NamesFresh
        <4> QED
          BY <4>2, <4>3
      <3> QED
        BY <3>1, <3>2
    <2> QED
      BY <2>1, <2>2 DEF NamesFresh
  <1>7. SettledUnleased' /\ HolderIsLatest'
    BY <1>3, <1>4 DEF IndInv, SettledUnleased, HolderIsLatest
  <1>8. AttemptsCounted'
    <2> SUFFICES ASSUME NEW k \in Keys, items'[k].stored
                 PROVE  handed'[k] = items'[k].attempts
      BY DEF AttemptsCounted
    <2>1. CASE k \in batch
      <3>1. handed[k] = items[k].attempts
        BY <2>1 DEF IndInv, AttemptsCounted, Due, Outstanding
      <3> QED
        BY <1>4, <2>1, <3>1
    <2>2. CASE k \notin batch
      BY <1>3, <2>2 DEF IndInv, AttemptsCounted
    <2> QED
      BY <2>1, <2>2
  <1>9. LeaseHonoured'
    <2> SUFFICES ASSUME NEW n \in Names, NEW k \in Keys, until'[n][k] > now', k \notin severed'[n]
                 PROVE  /\ Outstanding(items'[k])
                        /\ items'[k].holder = n
                        /\ items'[k].lease >= until'[n][k]
      BY DEF LeaseHonoured
    <2>1. CASE n # nextName
      <3>1. until[n][k] > now /\ k \notin severed[n] /\ until'[n][k] = until[n][k]
        BY <1>5, <2>1
      <3>2. Outstanding(items[k]) /\ items[k].holder = n /\ items[k].lease >= until[n][k]
        BY <3>1 DEF IndInv, LeaseHonoured
      <3>3. k \notin batch
        <4>1. items[k].lease \in Nat /\ until[n][k] \in Nat
          BY DEF IndInv, TypeOK, Rows
        <4> QED
          BY <1>2, <3>1, <3>2, <4>1 DEF Due
      <3> QED
        BY <1>3, <3>1, <3>2, <3>3
    <2>2. CASE n = nextName
      <3>1. until[n][k] = 0
        <4>1. NamesFresh
          BY Zenon DEF IndInv
        <4>2. n >= nextName
          BY <1>2, <2>2
        <4> QED
          BY <4>1, <4>2, Zenon DEF NamesFresh
      <3>2. k \in batch /\ until'[n][k] = now + lease
        <4>1. CASE until' = until
          BY <1>2, <3>1, <4>1
        <4>2. CASE until' = [until EXCEPT ![nextName] =
                              [j \in Keys |-> IF j \in batch THEN now + lease ELSE 0]]
          <5>1. until'[n] = [j \in Keys |-> IF j \in batch THEN now + lease ELSE 0]
            BY <1>1, <2>2, <4>2 DEF IndInv, TypeOK
          <5> QED
            BY <1>2, <5>1
        <4> QED
          BY <4>1, <4>2
      <3>3. Outstanding(items'[k]) /\ items'[k].holder = n /\ items'[k].lease = now + lease
        BY <1>4, <2>2, <3>2
      <3> QED
        BY <1>1, <1>2, <3>2, <3>3
    <2> QED
      BY <2>1, <2>2
  <1>10. CompletedByLatest'
    <2> SUFFICES ASSUME NEW k \in Keys, items'[k].completed > 0
                 PROVE  latest'[k] \in Names /\ k \in worked'[latest'[k]]
      BY DEF CompletedByLatest
    <2>1. k \notin batch
      BY <1>4 DEF Outstanding
    <2> QED
      BY <1>3, <2>1 DEF IndInv, CompletedByLatest
  <1>11. CeilingHolds'
    <2> SUFFICES ASSUME MaxAttempts > 0, NEW k \in Keys
                 PROVE  handed'[k] <= MaxAttempts
      BY DEF CeilingHolds
    <2>1. CASE k \in batch
      <3>1. handed[k] = items[k].attempts
        BY <2>1 DEF IndInv, AttemptsCounted, Due, Outstanding
      <3>2. items[k].attempts < MaxAttempts /\ items[k].attempts \in Nat
        BY <1>4, <2>1 DEF Due, Rows
      <3> QED
        BY <1>4, <2>1, <3>1, <3>2
    <2>2. CASE k \notin batch
      BY <1>3, <2>2 DEF IndInv, CeilingHolds
    <2> QED
      BY <2>1, <2>2
  <1> QED
    BY <1>6, <1>7, <1>8, <1>9, <1>10, <1>11 DEF IndInv

\* Extending only pushes out a lease the caller's name is on.
LEMMA ExtendInv ==
    ASSUME IndInv, TypeOK', NEW n \in Names, NEW ks \in SUBSET Keys, NEW lease \in Leases,
           Extend(n, ks, lease)
    PROVE  IndInv'
  <1> USE WorkQueueAssumption
  <1>1. lease > 0
    BY DEF Extend
  <1>2. /\ now' = now /\ nextName' = nextName /\ issued' = issued /\ worked' = worked
        /\ severed' = severed /\ handed' = handed /\ latest' = latest
    BY DEF Extend
  <1>3. lease \in Nat /\ now \in Nat /\ TypeOK
    BY <1>1 DEF IndInv, TypeOK
  <1> DEFINE held == {k \in ks : Matches(items[k], n) /\ items[k].completed = 0}
  <1>4. ASSUME NEW k \in Keys
        PROVE  items'[k] = IF k \in held THEN Extended(items[k], lease) ELSE items[k]
    BY DEF Extend
  <1>5. ASSUME NEW m \in Names, NEW k \in Keys
        PROVE  until'[m][k] = IF m = n /\ k \in held THEN Larger(until[m][k], now + lease)
                                                     ELSE until[m][k]
    <2>1. until' = [until EXCEPT ![n] = [j \in Keys |->
                        IF j \in held THEN Larger(until[n][j], now + lease) ELSE until[n][j]]]
      BY DEF Extend
    <2> HIDE DEF held
    <2> QED
      BY <1>3, <2>1 DEF TypeOK
  <1>6. ASSUME NEW k \in Keys
        PROVE  /\ items'[k].stored = items[k].stored
               /\ items'[k].completed = items[k].completed
               /\ items'[k].holder = items[k].holder
               /\ items'[k].attempts = items[k].attempts
               /\ items'[k].lease = IF k \in held THEN Larger(items[k].lease, now + lease)
                                                  ELSE items[k].lease
    <2> DEFINE r == items[k]
    <2>1. r \in Rows
      BY <1>3 DEF TypeOK
    <2>2. items'[k] = IF k \in held THEN Extended(r, lease) ELSE r
      BY <1>4
    <2> HIDE DEF r
    <2>3. /\ Extended(r, lease).stored = r.stored
          /\ Extended(r, lease).completed = r.completed
          /\ Extended(r, lease).lease = Larger(r.lease, now + lease)
          /\ Extended(r, lease).holder = r.holder
          /\ Extended(r, lease).attempts = r.attempts
      BY <1>3, <2>1, ExtendedRow
    <2> HIDE DEF held
    <2>4. /\ items'[k].stored = r.stored
          /\ items'[k].completed = r.completed
          /\ items'[k].holder = r.holder
          /\ items'[k].attempts = r.attempts
          /\ items'[k].lease = IF k \in held THEN Larger(r.lease, now + lease) ELSE r.lease
      BY <2>2, <2>3
    <2> QED
      BY <2>4 DEF r
  <1>7. \A k \in Keys : k \in held => Outstanding(items[k]) /\ items[k].holder = n
    BY DEF Matches, Outstanding
  <1> HIDE DEF held
  <1>8. NamesFresh'
    <2>1. ASSUME NEW m \in Names, m >= nextName'
          PROVE  issued'[m] = {} /\ \A k \in Keys : until'[m][k] = 0
      <3>1. ASSUME NEW k \in Keys PROVE until'[m][k] = 0
        <4>1. ~(m = n /\ k \in held)
          <5>1. items[k].holder \in Nat /\ items[k].holder < nextName /\ nextName \in Nat
            BY <1>3 DEF IndInv, NamesFresh, TypeOK, Rows
          <5> QED
            BY <1>2, <1>7, <2>1, <5>1 DEF Names
        <4> QED
          BY <1>2, <1>5, <2>1, <4>1 DEF IndInv, NamesFresh
      <3> QED
        BY <1>2, <2>1, <3>1 DEF IndInv, NamesFresh
    <2>2. \A k \in Keys : items'[k].holder < nextName' /\ items'[k].holder \in {0} \cup Names
      BY <1>2, <1>6 DEF IndInv, NamesFresh
    <2> QED
      BY <2>1, <2>2 DEF NamesFresh
  <1>9. SettledUnleased'
    <2> SUFFICES ASSUME NEW k \in Keys, ~Outstanding(items'[k])
                 PROVE  /\ items'[k].holder = 0 /\ items'[k].lease = 0
                        /\ ~items'[k].stored => items'[k].completed = 0
      BY DEF SettledUnleased
    <2>1. ~Outstanding(items[k]) /\ k \notin held
      BY <1>6, <1>7 DEF Outstanding
    <2> QED
      BY <1>6, <2>1 DEF IndInv, SettledUnleased
  <1>10. HolderIsLatest' /\ AttemptsCounted' /\ CompletedByLatest' /\ CeilingHolds'
    BY <1>2, <1>6 DEF IndInv, HolderIsLatest, AttemptsCounted, CompletedByLatest, CeilingHolds
  <1>11. LeaseHonoured'
    <2> SUFFICES ASSUME NEW m \in Names, NEW k \in Keys, until'[m][k] > now', k \notin severed'[m]
                 PROVE  /\ Outstanding(items'[k])
                        /\ items'[k].holder = m
                        /\ items'[k].lease >= until'[m][k]
      BY DEF LeaseHonoured
    <2>1. Outstanding(items'[k]) <=> Outstanding(items[k])
      BY <1>6 DEF Outstanding
    <2>2. /\ items[k].lease \in Nat /\ until[m][k] \in Nat
      BY <1>3 DEF TypeOK, Rows
    <2>3. until[m][k] > now => /\ Outstanding(items[k])
                               /\ items[k].holder = m
                               /\ items[k].lease >= until[m][k]
      BY <1>2 DEF IndInv, LeaseHonoured
    <2>4. CASE k \in held /\ m = n
      <3>1. items'[k].lease >= until'[m][k]
        <4>1. CASE until[m][k] > now
          BY <1>3, <1>5, <1>6, <2>2, <2>3, <2>4, <4>1 DEF Larger
        <4>2. CASE ~(until[m][k] > now)
          BY <1>3, <1>5, <1>6, <2>2, <2>4, <4>2 DEF Larger
        <4> QED
          BY <4>1, <4>2
      <3> QED
        BY <1>6, <1>7, <2>1, <2>4, <3>1
    <2>5. CASE ~(k \in held /\ m = n)
      <3>1. until'[m][k] = until[m][k] /\ until[m][k] > now
        BY <1>2, <1>5, <2>5
      <3>2. k \notin held
        BY <1>7, <2>3, <2>5, <3>1
      <3> QED
        BY <1>6, <2>1, <2>3, <3>1, <3>2
    <2> QED
      BY <2>4, <2>5
  <1> QED
    BY <1>8, <1>9, <1>10, <1>11 DEF IndInv

\* A completion or a release clears the row only where the caller's name is
\* on it, and the caller stops counting on its lease with the same call.
LEMMA OutcomeInv ==
    ASSUME IndInv, TypeOK', NEW n \in Names, NEW ks \in SUBSET Keys,
           now' = now, nextName' = nextName, issued' = issued, worked' = worked,
           severed' = severed, handed' = handed, latest' = latest,
           GivesUp(n, ks),
           NEW done \in SUBSET ks,
           \A k \in Keys : k \notin done => items'[k] = items[k],
           \A k \in done : /\ Matches(items[k], n)
                           /\ items'[k].stored = items[k].stored
                           /\ items'[k].lease = 0
                           /\ items'[k].holder = 0
                           /\ items'[k].attempts = items[k].attempts
                           /\ items'[k].completed > 0 => k \in worked[n] \/ items[k].completed > 0
    PROVE  IndInv'
  <1> USE WorkQueueAssumption
  <1>1. TypeOK /\ \A k \in Keys : items[k] \in Rows /\ items'[k] \in Rows
    BY DEF IndInv, TypeOK
  <1>2. \A m \in Names, k \in Keys : until'[m][k] = IF m = n /\ k \in ks THEN 0 ELSE until[m][k]
    BY <1>1 DEF GivesUp, TypeOK
  <1>3. NamesFresh'
    <2>1. \A k \in Keys : items'[k].holder < nextName' /\ items'[k].holder \in {0} \cup Names
      <3>1. nextName \in Nat \ {0}
        BY <1>1 DEF TypeOK
      <3> QED
        BY <3>1 DEF IndInv, NamesFresh
    <2>2. \A m \in Names : m >= nextName' =>
              issued'[m] = {} /\ \A k \in Keys : until'[m][k] = 0
      BY <1>2 DEF IndInv, NamesFresh
    <2> QED
      BY <2>1, <2>2 DEF NamesFresh
  <1>4. SettledUnleased'
    <2> SUFFICES ASSUME NEW k \in Keys, ~Outstanding(items'[k])
                 PROVE  /\ items'[k].holder = 0 /\ items'[k].lease = 0
                        /\ ~items'[k].stored => items'[k].completed = 0
      BY DEF SettledUnleased
    <2>1. CASE k \in done
      BY <2>1 DEF Matches
    <2>2. CASE k \notin done
      BY <2>2 DEF IndInv, SettledUnleased
    <2> QED
      BY <2>1, <2>2
  <1>5. HolderIsLatest' /\ AttemptsCounted' /\ CeilingHolds'
    BY DEF IndInv, HolderIsLatest, AttemptsCounted, CeilingHolds
  <1>6. CompletedByLatest'
    <2> SUFFICES ASSUME NEW k \in Keys, items'[k].completed > 0
                 PROVE  latest'[k] \in Names /\ k \in worked'[latest'[k]]
      BY DEF CompletedByLatest
    <2>1. CASE k \notin done \/ items[k].completed > 0
      BY <2>1 DEF IndInv, CompletedByLatest
    <2>2. CASE k \in done /\ ~(items[k].completed > 0)
      <3>1. items[k].holder = n /\ n # 0
        BY <2>2 DEF Matches, Names
      <3> QED
        BY <2>2, <3>1 DEF IndInv, HolderIsLatest
    <2> QED
      BY <2>1, <2>2
  <1>7. LeaseHonoured'
    <2> SUFFICES ASSUME NEW m \in Names, NEW k \in Keys, until'[m][k] > now', k \notin severed'[m]
                 PROVE  /\ Outstanding(items'[k])
                        /\ items'[k].holder = m
                        /\ items'[k].lease >= until'[m][k]
      BY DEF LeaseHonoured
    <2>1. ~(m = n /\ k \in ks) /\ until'[m][k] = until[m][k]
      <3>1. now \in Nat /\ until'[m][k] > now
        BY <1>1 DEF TypeOK
      <3>2. until'[m][k] = IF m = n /\ k \in ks THEN 0 ELSE until[m][k]
        BY <1>2
      <3> QED
        BY <3>1, <3>2
    <2>2. Outstanding(items[k]) /\ items[k].holder = m /\ items[k].lease >= until[m][k]
      BY <2>1 DEF IndInv, LeaseHonoured
    <2>3. k \notin done
      BY <2>1, <2>2 DEF Matches
    <2> QED
      BY <2>1, <2>2, <2>3
  <1> QED
    BY <1>3, <1>4, <1>5, <1>6, <1>7 DEF IndInv

LEMMA CompleteInv ==
    ASSUME IndInv, TypeOK', NEW n \in Names, NEW ks \in SUBSET worked[n], Complete(n, ks)
    PROVE  IndInv'
  <1> DEFINE done == {k \in ks : Matches(items[k], n)}
  <1>1. TypeOK /\ worked[n] \subseteq Keys
    BY DEF IndInv, TypeOK
  <1>2. \A k \in Keys : k \notin done => items'[k] = items[k]
    BY DEF Complete
  <1>3. ASSUME NEW k \in done
        PROVE  /\ Matches(items[k], n)
               /\ items'[k].stored = items[k].stored
               /\ items'[k].lease = 0
               /\ items'[k].holder = 0
               /\ items'[k].attempts = items[k].attempts
               /\ items'[k].completed > 0 => k \in worked[n] \/ items[k].completed > 0
    <2>1. items'[k] = Completed(items[k]) /\ items[k] \in Rows
      BY <1>1 DEF Complete, TypeOK
    <2> QED
      BY <1>1, <2>1, CompletedRow
  <1>4. /\ now' = now /\ nextName' = nextName /\ issued' = issued /\ worked' = worked
        /\ severed' = severed /\ handed' = handed /\ latest' = latest /\ GivesUp(n, ks)
    BY DEF Complete
  <1>5. done \in SUBSET ks /\ ks \in SUBSET Keys
    BY <1>1
  <1> HIDE DEF done
  <1> QED
    BY <1>2, <1>3, <1>4, <1>5, OutcomeInv

LEMMA ReleaseInv ==
    ASSUME IndInv, TypeOK', NEW n \in Names, NEW ks \in SUBSET Keys, NEW d \in Delays,
           Release(n, ks, d)
    PROVE  IndInv'
  <1> DEFINE done == {k \in ks : Matches(items[k], n) /\ items[k].completed = 0}
  <1>1. TypeOK /\ d \in Int
    BY WorkQueueAssumption DEF IndInv
  <1>2. \A k \in Keys : k \notin done => items'[k] = items[k]
    BY DEF Release
  <1>3. ASSUME NEW k \in done
        PROVE  /\ Matches(items[k], n)
               /\ items'[k].stored = items[k].stored
               /\ items'[k].lease = 0
               /\ items'[k].holder = 0
               /\ items'[k].attempts = items[k].attempts
               /\ items'[k].completed > 0 => k \in worked[n] \/ items[k].completed > 0
    <2>1. items'[k] = Released(items[k], d) /\ items[k] \in Rows
      BY <1>1 DEF Release, TypeOK
    <2> QED
      BY <1>1, <2>1, ReleasedRow
  <1>4. /\ now' = now /\ nextName' = nextName /\ issued' = issued /\ worked' = worked
        /\ severed' = severed /\ handed' = handed /\ latest' = latest /\ GivesUp(n, ks)
    BY DEF Release
  <1>5. done \in SUBSET ks
    OBVIOUS
  <1> HIDE DEF done
  <1> QED
    BY <1>2, <1>3, <1>4, <1>5, OutcomeInv

\* Rows that go away: under Remove the claims on them are severed, and Reap
\* takes only rows nobody holds.
LEMMA VanishInv ==
    ASSUME IndInv, TypeOK', NEW ks \in SUBSET Keys,
           now' = now, nextName' = nextName, issued' = issued, until' = until,
           worked' = worked, latest' = latest,
           \A k \in Keys : items'[k] = IF k \in ks THEN NoRow ELSE items[k],
           \A k \in Keys : handed'[k] = handed[k] \/ (k \in ks /\ handed'[k] = 0),
           \A m \in Names : severed[m] \subseteq severed'[m],
           \A m \in Names, k \in ks :
              Outstanding(items[k]) /\ items[k].holder = m => k \in severed'[m]
    PROVE  IndInv'
  <1> USE WorkQueueAssumption
  <1>1. NamesFresh'
    <2>1. nextName \in Nat \ {0}
      BY DEF IndInv, TypeOK
    <2> QED
      BY <2>1, AbsentRow DEF IndInv, NamesFresh
  <1>2. SettledUnleased' /\ HolderIsLatest'
    BY AbsentRow DEF IndInv, SettledUnleased, HolderIsLatest
  <1>3. AttemptsCounted' /\ CompletedByLatest'
    <2>1. \A k \in Keys : k \notin ks => items'[k] = items[k] /\ handed'[k] = handed[k]
      OBVIOUS
    <2>2. \A k \in ks : ~items'[k].stored /\ items'[k].completed = 0
      BY AbsentRow
    <2>3. AttemptsCounted'
      BY <2>1, <2>2 DEF IndInv, AttemptsCounted
    <2>4. CompletedByLatest'
      BY <2>1, <2>2 DEF IndInv, CompletedByLatest
    <2> QED
      BY <2>3, <2>4
  <1>4. CeilingHolds'
    <2>1. \A k \in Keys : handed'[k] = handed[k] \/ handed'[k] = 0
      OBVIOUS
    <2> QED
      BY <2>1 DEF IndInv, CeilingHolds
  <1>5. LeaseHonoured'
    <2> SUFFICES ASSUME NEW m \in Names, NEW k \in Keys, until'[m][k] > now', k \notin severed'[m]
                 PROVE  /\ Outstanding(items'[k])
                        /\ items'[k].holder = m
                        /\ items'[k].lease >= until'[m][k]
      BY DEF LeaseHonoured
    <2>1. Outstanding(items[k]) /\ items[k].holder = m /\ items[k].lease >= until[m][k]
      BY DEF IndInv, LeaseHonoured
    <2>2. k \notin ks
      BY <2>1
    <2> QED
      BY <2>1, <2>2
  <1> QED
    BY <1>1, <1>2, <1>3, <1>4, <1>5 DEF IndInv

LEMMA RemoveInv ==
    ASSUME IndInv, TypeOK', NEW ks \in SUBSET Keys, Remove(ks)
    PROVE  IndInv'
  <1>2. \A m \in Names, k \in ks : items[k].holder = m => k \in severed'[m]
    BY DEF Remove
  <1>3. /\ now' = now /\ nextName' = nextName /\ issued' = issued /\ until' = until
        /\ worked' = worked /\ latest' = latest
        /\ \A k \in Keys : items'[k] = IF k \in ks THEN NoRow ELSE items[k]
        /\ \A k \in Keys : handed'[k] = handed[k] \/ (k \in ks /\ handed'[k] = 0)
        /\ \A m \in Names : severed[m] \subseteq severed'[m]
    BY DEF Remove
  <1> QED
    BY <1>2, <1>3, VanishInv

LEMMA ReapInv ==
    ASSUME IndInv, TypeOK', NEW doomed \in SUBSET Keys, Reap(doomed)
    PROVE  IndInv'
  <1>1. \A k \in doomed : ~Outstanding(items[k])
    <2> SUFFICES ASSUME NEW k \in doomed PROVE items[k].completed # 0
      BY DEF Outstanding
    <2>1. Reapable(items[k]) /\ items[k] \in Rows
      BY DEF Reap, IndInv, TypeOK
    <2> QED
      BY <2>1 DEF Reapable, Rows
  <1>2. /\ now' = now /\ nextName' = nextName /\ issued' = issued /\ until' = until
        /\ worked' = worked /\ latest' = latest
        /\ \A k \in Keys : items'[k] = IF k \in doomed THEN NoRow ELSE items[k]
        /\ \A k \in Keys : handed'[k] = handed[k] \/ (k \in doomed /\ handed'[k] = 0)
        /\ \A m \in Names : severed[m] \subseteq severed'[m]
    BY DEF Reap
  <1> QED
    BY <1>1, <1>2, VanishInv

LEMMA RequeueInv ==
    ASSUME IndInv, TypeOK', NEW ks \in SUBSET Keys, Requeue(ks)
    PROVE  IndInv'
  <1> USE WorkQueueAssumption
  <1>1. /\ now' = now /\ nextName' = nextName /\ issued' = issued /\ until' = until
        /\ worked' = worked /\ severed' = severed /\ latest' = latest
    BY DEF Requeue
  <1>2. ASSUME NEW k \in Keys
        PROVE  /\ items'[k].stored = items[k].stored
               /\ items'[k].completed = items[k].completed
               /\ items'[k].holder = items[k].holder
               /\ items'[k].lease = items[k].lease
               /\ \/ items'[k].attempts = items[k].attempts /\ handed'[k] = handed[k]
                  \/ items'[k].attempts = 0 /\ handed'[k] = 0
    <2>1. CASE k \in ks /\ Outstanding(items[k])
      <3>1. items'[k] = Requeued(items[k]) /\ handed'[k] = 0
        BY <2>1 DEF Requeue
      <3>2. TypeOK /\ items[k] \in Rows
        BY DEF IndInv, TypeOK
      <3> QED
        BY <3>1, <3>2, RequeuedRow
    <2>2. CASE ~(k \in ks /\ Outstanding(items[k]))
      BY <2>2 DEF Requeue
    <2> QED
      BY <2>1, <2>2
  <1>3. NamesFresh' /\ SettledUnleased' /\ HolderIsLatest'
    BY <1>1, <1>2 DEF IndInv, NamesFresh, SettledUnleased, HolderIsLatest, Outstanding
  <1>4. AttemptsCounted' /\ CompletedByLatest'
    BY <1>1, <1>2 DEF IndInv, AttemptsCounted, CompletedByLatest
  <1>5. CeilingHolds'
    BY <1>2 DEF IndInv, CeilingHolds
  <1>6. LeaseHonoured'
    BY <1>1, <1>2 DEF IndInv, LeaseHonoured, Outstanding
  <1> QED
    BY <1>3, <1>4, <1>5, <1>6 DEF IndInv

\* Steps that leave the table and its claims alone.
LEMMA QuietInv ==
    ASSUME IndInv, TypeOK', items' = items, nextName' = nextName, issued' = issued,
           until' = until, severed' = severed, handed' = handed, latest' = latest,
           now' >= now, \A n \in Names : worked[n] \subseteq worked'[n]
    PROVE  IndInv'
  <1>1. NamesFresh' /\ SettledUnleased' /\ HolderIsLatest' /\ AttemptsCounted' /\ CeilingHolds'
    BY DEF IndInv, NamesFresh, SettledUnleased, HolderIsLatest, AttemptsCounted, CeilingHolds
  <1>2. CompletedByLatest'
    BY DEF IndInv, CompletedByLatest
  <1>3. LeaseHonoured'
    <2>1. \A n \in Names, k \in Keys : until[n][k] > now' => until[n][k] > now
      BY DEF IndInv, TypeOK
    <2> QED
      BY <2>1 DEF IndInv, LeaseHonoured
  <1> QED
    BY <1>1, <1>2, <1>3 DEF IndInv

LEMMA NextInv == IndInv /\ [Next]_vars => IndInv'
  <1> SUFFICES ASSUME IndInv, [Next]_vars PROVE IndInv'
    OBVIOUS
  <1>1. TypeOK /\ TypeOK'
    BY NextType DEF IndInv
  <1>2. now \in Nat
    BY <1>1 DEF TypeOK
  <1>3. ASSUME NEW k \in Keys, NEW p \in Priorities, NEW d \in Delays, Enqueue(k, p, d)
        PROVE  IndInv'
    BY <1>1, <1>2, <1>3, QuietInv DEF Enqueue
  <1>4. CASE upsert
    BY <1>1, <1>4, UpsertInv
  <1>5. CASE UpsertFails
    BY <1>1, <1>2, <1>5, QuietInv DEF UpsertFails
  <1>6. ASSUME NEW limit \in Limits, NEW lease \in Leases, NEW locked \in SUBSET Keys,
               Claim(limit, lease, locked) \/ ClaimLost(limit, lease, locked)
        PROVE  IndInv'
    <2> DEFINE batch == DueBatch(ClaimLimit(limit), locked)
    <2>1. batch \in SUBSET Keys /\ \A k \in batch : Due(items[k])
      BY DEF DueBatch
    <2>2. /\ LeaseBatch(batch, lease)
          /\ now' = now /\ worked' = worked /\ severed' = severed
          /\ \/ issued' = issued /\ until' = until
             \/ /\ issued' = [issued EXCEPT ![nextName] = batch]
                /\ until' = [until EXCEPT ![nextName] =
                                [k \in Keys |-> IF k \in batch THEN now + lease ELSE 0]]
      BY <1>6 DEF Claim, ClaimLost
    <2> HIDE DEF batch
    <2> QED
      BY <1>1, <2>1, <2>2, LeaseBatchInv
  <1>7. ASSUME NEW n \in Names, NEW k \in Keys, Work(n, k)
        PROVE  IndInv'
    <2>1. \A m \in Names : worked[m] \subseteq worked'[m]
      BY <1>1, <1>7 DEF Work, TypeOK
    <2> QED
      BY <1>1, <1>2, <1>7, <2>1, QuietInv DEF Work
  <1>8. ASSUME NEW n \in Names, NEW ks \in Some(issued[n]), NEW lease \in Leases, Extend(n, ks, lease)
        PROVE  IndInv'
    <2>1. ks \in SUBSET Keys
      BY <1>1 DEF Some, TypeOK
    <2> QED
      BY <1>1, <1>8, <2>1, ExtendInv
  <1>9. ASSUME NEW n \in Names, NEW ks \in Some(worked[n]), Complete(n, ks)
        PROVE  IndInv'
    BY <1>1, <1>9, CompleteInv DEF Some
  <1>10. ASSUME NEW n \in Names, NEW ks \in Some(issued[n]), NEW d \in Delays, Release(n, ks, d)
         PROVE  IndInv'
    <2>1. ks \in SUBSET Keys
      BY <1>1 DEF Some, TypeOK
    <2> QED
      BY <1>1, <1>10, <2>1, ReleaseInv
  <1>11. ASSUME NEW ks \in Some(Keys), Remove(ks)
         PROVE  IndInv'
    BY <1>1, <1>11, RemoveInv DEF Some
  <1>12. ASSUME NEW ks \in Some(Keys), Requeue(ks)
         PROVE  IndInv'
    BY <1>1, <1>12, RequeueInv DEF Some
  <1>13. ASSUME NEW doomed \in SUBSET Keys, Reap(doomed)
         PROVE  IndInv'
    BY <1>1, <1>13, ReapInv
  <1>14. CASE Tick
    BY <1>1, <1>2, <1>14, QuietInv DEF Tick
  <1>15. CASE UNCHANGED vars
    BY <1>1, <1>2, <1>15, QuietInv DEF vars
  <1> QED
    BY <1>3, <1>4, <1>5, <1>6, <1>7, <1>8, <1>9, <1>10, <1>11, <1>12, <1>13, <1>14, <1>15 DEF Next

\* The inductive invariant holds in every reachable state.
THEOREM Inductive == Spec => []IndInv
  BY InitInv, NextInv, PTL DEF Spec

\* A caller inside its lease holds the item, for every fleet and schedule.
THEOREM LeaseSafety == Spec => []LeaseHonoured
  <1>1. IndInv => LeaseHonoured
    BY DEF IndInv
  <1> QED
    BY <1>1, Inductive, PTL

\* No two callers are inside a lease on one item.
THEOREM Exclusion == Spec => []LeaseExclusive
  <1>1. IndInv => LeaseExclusive
    BY DEF IndInv, LeaseHonoured, LeaseExclusive
  <1> QED
    BY <1>1, Inductive, PTL

\* A completed item was worked by the last claim that leased it.
THEOREM CompletionSafety == Spec => []CompletedByLatest
  <1>1. IndInv => CompletedByLatest
    BY DEF IndInv
  <1> QED
    BY <1>1, Inductive, PTL

\* The attempt ceiling bounds the claims between two restarts.
THEOREM CeilingSafety == Spec => []CeilingHolds
  <1>1. IndInv => CeilingHolds
    BY DEF IndInv
  <1> QED
    BY <1>1, Inductive, PTL

-----------------------------------------------------------------------------
(* The queue implements FencedQueue.                                       *)

LEMMA MoveRows ==
    ASSUME NEW ks \in SUBSET Keys, NEW s, NEW o,
           \A k \in Keys : k \notin ks =>
              JobOf(items'[k]) = JobOf(items[k]) /\ items'[k].holder = items[k].holder,
           \A k \in ks : JobOf(items'[k]) = s /\ items'[k].holder = o
    PROVE  Fenced!Move(ks, s, o)
  BY DEF Fenced!Move

LEMMA JobCases ==
    ASSUME NEW row \in Rows
    PROVE  /\ ~row.stored => JobOf(row) = "absent"
           /\ row.stored /\ row.completed > 0 => JobOf(row) = "done"
           /\ Outstanding(row) /\ row.holder # 0 => JobOf(row) = "held"
           /\ Outstanding(row) /\ row.holder = 0 => JobOf(row) = "waiting"
           /\ Outstanding(row) \/ ~row.stored \/ row.completed > 0
  BY DEF JobOf, Outstanding, Rows

LEMMA RefineInit == Init => Fenced!FInit
  <1> SUFFICES ASSUME Init PROVE Fenced!FInit
    OBVIOUS
  <1>1. \A k \in Keys : JobOf(items[k]) = "absent" /\ items[k].holder = 0
    BY AbsentRow, JobCases DEF Init
  <1> QED
    BY <1>1 DEF Fenced!FInit, Init

\* A step that keeps every row's job and holder is a stuttering step.
LEMMA RefineQuiet ==
    ASSUME nextName' = nextName,
           \A k \in Keys : /\ JobOf(items'[k]) = JobOf(items[k])
                           /\ items'[k].holder = items[k].holder
    PROVE  UNCHANGED Fenced!fvars
  BY DEF Fenced!fvars

LEMMA RefineNext == IndInv /\ IndInv' /\ [Next]_vars => [Fenced!FNext]_(Fenced!fvars)
  <1> SUFFICES ASSUME IndInv, IndInv', [Next]_vars PROVE Fenced!FNext \/ UNCHANGED Fenced!fvars
    OBVIOUS
  <1> USE WorkQueueAssumption
  <1>1. /\ TypeOK /\ now \in Nat \ {0} /\ nextName \in Nat \ {0}
        /\ \A k \in Keys : items[k] \in Rows /\ items'[k] \in Rows
    BY DEF IndInv, TypeOK
  <1>2. ASSUME items' = items, nextName' = nextName
        PROVE  UNCHANGED Fenced!fvars
    BY <1>2, RefineQuiet
  <1>3. CASE upsert
    <2> DEFINE ks == {k \in Keys : pending[k].waiting /\ ~Outstanding(items[k])}
    <2>1. \A k \in Keys : items'[k] = IF pending[k].waiting
                                      THEN Upsert(items[k], pending[k], now) ELSE items[k]
      BY <1>3 DEF upsert
    <2>2. ASSUME NEW k \in ks
          PROVE  /\ JobOf(items[k]) \in {"absent", "done"}
                 /\ JobOf(items'[k]) = "waiting" /\ items'[k].holder = 0
      <3> DEFINE r == items[k]
                 e == pending[k]
      <3>1. r \in Rows /\ e \in Entries /\ ~Outstanding(r) /\ r.holder = 0 /\ now \in Nat
        BY <1>1 DEF IndInv, SettledUnleased, TypeOK
      <3>2. items'[k] = Upsert(r, e, now)
        BY <2>1
      <3> HIDE DEF r, e
      <3>3. Outstanding(items'[k]) /\ items'[k].holder = 0 /\ items'[k] \in Rows
        BY <3>1, <3>2, UpsertRow
      <3>4. JobOf(r) \in {"absent", "done"}
        BY <3>1, JobCases
      <3> QED
        BY <3>3, <3>4, JobCases DEF r
    <2>3. ASSUME NEW k \in Keys, k \notin ks
          PROVE  JobOf(items'[k]) = JobOf(items[k]) /\ items'[k].holder = items[k].holder
      <3>1. CASE ~pending[k].waiting
        BY <2>1, <3>1
      <3>2. CASE pending[k].waiting
        <4> DEFINE r == items[k]
                   e == pending[k]
        <4>1. r \in Rows /\ e \in Entries /\ Outstanding(r) /\ now \in Nat
          BY <1>1, <2>3, <3>2 DEF TypeOK
        <4>2. items'[k] = Upsert(r, e, now)
          BY <2>1, <3>2
        <4> HIDE DEF r, e
        <4>3. Outstanding(items'[k]) /\ items'[k].holder = r.holder /\ items'[k] \in Rows
          BY <4>1, <4>2, UpsertRow DEF Outstanding
        <4>4. JobOf(items'[k]) = JobOf(r)
          BY <4>1, <4>3, JobCases
        <4> QED
          BY <4>3, <4>4 DEF r
      <3> QED
        BY <3>1, <3>2
    <2>4. ks \in SUBSET Keys
      OBVIOUS
    <2> HIDE DEF ks
    <2>5. Fenced!Move(ks, "waiting", 0)
      BY <2>2, <2>3, <2>4, MoveRows
    <2>6. Fenced!Offer(ks)
      BY <1>3, <2>2, <2>4, <2>5 DEF Fenced!Offer, upsert
    <2> QED
      BY <2>4, <2>6 DEF Fenced!FNext, Fenced!Offer
  <1>4. ASSUME NEW batch \in SUBSET Keys, NEW lease \in Leases,
               \A k \in batch : Due(items[k]), LeaseBatch(batch, lease)
        PROVE  Fenced!FNext
    <2>1. lease \in Nat
      BY <1>4 DEF LeaseBatch
    <2>2. \A k \in Keys : k \notin batch => items'[k] = items[k]
      BY <1>4 DEF LeaseBatch
    <2>3. ASSUME NEW k \in batch
          PROVE  /\ JobOf(items[k]) \in {"waiting", "held"}
                 /\ JobOf(items'[k]) = "held" /\ items'[k].holder = nextName
      <3> DEFINE r == items[k]
      <3>1. r \in Rows /\ Outstanding(r) /\ nextName \in Nat \ {0}
        BY <1>1, <1>4 DEF Due
      <3>2. items'[k] = Leased(r, nextName, lease)
        BY <1>4 DEF LeaseBatch
      <3> HIDE DEF r
      <3>3. /\ items'[k] \in Rows /\ items'[k].stored = r.stored
            /\ items'[k].completed = r.completed /\ items'[k].holder = nextName
        <4>1. /\ Leased(r, nextName, lease) \in Rows
              /\ Leased(r, nextName, lease).stored = r.stored
              /\ Leased(r, nextName, lease).completed = r.completed
              /\ Leased(r, nextName, lease).holder = nextName
          <5>1. nextName \in Nat /\ r \in Rows
            BY <3>1
          <5>2. TypeOK
            BY <1>1
          <5> QED
            BY <2>1, <5>1, <5>2, LeasedRow
        <4> QED
          BY <3>2, <4>1
      <3>4. JobOf(items'[k]) = "held"
        BY <3>1, <3>3, JobCases DEF Outstanding
      <3>5. JobOf(r) \in {"waiting", "held"}
        BY <3>1, JobCases
      <3> QED
        BY <3>3, <3>4, <3>5 DEF r
    <2>4. Fenced!Move(batch, "held", nextName)
      BY <2>2, <2>3 DEF Fenced!Move
    <2>5. Fenced!Take(batch)
      BY <1>4, <2>3, <2>4 DEF Fenced!Take, LeaseBatch
    <2> QED
      BY <2>5 DEF Fenced!FNext
  <1>5. ASSUME NEW limit \in Limits, NEW lease \in Leases, NEW locked \in SUBSET Keys,
               Claim(limit, lease, locked) \/ ClaimLost(limit, lease, locked)
        PROVE  Fenced!FNext
    <2> DEFINE batch == DueBatch(ClaimLimit(limit), locked)
    <2>1. batch \in SUBSET Keys /\ \A k \in batch : Due(items[k])
      BY DEF DueBatch
    <2>2. LeaseBatch(batch, lease)
      BY <1>5 DEF Claim, ClaimLost
    <2> HIDE DEF batch
    <2> QED
      BY <1>4, <2>1, <2>2
  <1>6. ASSUME NEW n \in Names, NEW ks \in SUBSET Keys, NEW lease \in Leases, Extend(n, ks, lease)
        PROVE  UNCHANGED Fenced!fvars
    <2>1. lease > 0
      BY <1>6 DEF Extend
    <2>2. lease \in Nat
      BY <2>1
    <2>3. ASSUME NEW k \in Keys
          PROVE  JobOf(items'[k]) = JobOf(items[k]) /\ items'[k].holder = items[k].holder
      <3> DEFINE r == items[k]
      <3>1. r \in Rows
        BY <1>1
      <3>2. items'[k] = r \/ items'[k] = Extended(r, lease)
        BY <1>6 DEF Extend
      <3> HIDE DEF r
      <3>3. /\ items'[k].stored = r.stored
            /\ items'[k].completed = r.completed /\ items'[k].holder = r.holder
        <4>1. /\ Extended(r, lease).stored = r.stored
              /\ Extended(r, lease).completed = r.completed
              /\ Extended(r, lease).holder = r.holder
          BY <1>1, <2>2, <3>1, ExtendedRow
        <4> QED
          BY <3>2, <4>1
      <3>4. JobOf(items'[k]) = JobOf(r)
        BY <3>3 DEF JobOf, Outstanding
      <3> QED
        BY <3>3, <3>4 DEF r
    <2> QED
      BY <1>6, <2>3, RefineQuiet DEF Extend
  <1>7. ASSUME NEW n \in Names, NEW ks \in SUBSET Keys, NEW k \in ks, Matches(items[k], n)
        PROVE  /\ JobOf(items[k]) = "held" /\ items[k].holder = n
               /\ n \in 1 .. (nextName - 1)
    <2>1. items[k].holder = n /\ n # 0 /\ n \in Nat
      BY <1>7 DEF Matches, Names
    <2>2. Outstanding(items[k])
      BY <2>1 DEF IndInv, SettledUnleased
    <2>3. items[k].holder < nextName
      BY DEF IndInv, NamesFresh
    <2>4. JobOf(items[k]) = "held"
      BY <1>1, <2>1, <2>2, JobCases
    <2> QED
      BY <1>1, <2>1, <2>3, <2>4
  <1>8. ASSUME NEW n \in Names, NEW ks \in SUBSET Keys, Complete(n, ks)
        PROVE  Fenced!FNext \/ UNCHANGED Fenced!fvars
    <2> DEFINE done == {k \in ks : Matches(items[k], n)}
    <2>1. \A k \in Keys : items'[k] = IF k \in done THEN Completed(items[k]) ELSE items[k]
      BY <1>8 DEF Complete
    <2>2. ASSUME NEW k \in done
          PROVE  JobOf(items'[k]) = "done" /\ items'[k].holder = 0
      <3>1. /\ items'[k].stored /\ items'[k].completed = now /\ items'[k].holder = 0
        BY <1>1, <2>1, CompletedRow DEF Matches
      <3> QED
        BY <1>1, <3>1, JobCases
    <2>3. done \in SUBSET Keys /\ \A k \in done : k \in ks /\ Matches(items[k], n)
      OBVIOUS
    <2> HIDE DEF done
    <2>4. Fenced!Move(done, "done", 0)
      BY <2>1, <2>2, <2>3, MoveRows
    <2>5. CASE done = {}
      BY <1>2, <1>8, <2>1, <2>5, RefineQuiet DEF Complete
    <2>6. CASE done # {}
      <3>1. n \in 1 .. (nextName - 1)
        BY <1>7, <2>3, <2>6
      <3>2. Fenced!Finish(done, n)
        BY <1>7, <1>8, <2>3, <2>4 DEF Fenced!Finish, Complete
      <3> QED
        BY <2>3, <3>1, <3>2 DEF Fenced!FNext, Fenced!Finish
    <2> QED
      BY <2>5, <2>6
  <1>9. ASSUME NEW n \in Names, NEW ks \in SUBSET Keys, NEW d \in Delays, Release(n, ks, d)
        PROVE  Fenced!FNext \/ UNCHANGED Fenced!fvars
    <2> DEFINE done == {k \in ks : Matches(items[k], n) /\ items[k].completed = 0}
    <2>1. \A k \in Keys : items'[k] = IF k \in done THEN Released(items[k], d) ELSE items[k]
      BY <1>9 DEF Release
    <2>2. ASSUME NEW k \in done
          PROVE  JobOf(items'[k]) = "waiting" /\ items'[k].holder = 0
      <3>1. d \in Int
        OBVIOUS
      <3>2. /\ items'[k].stored /\ items'[k].completed = 0 /\ items'[k].holder = 0
        <4> DEFINE r == items[k]
        <4>1. r \in Rows /\ r.stored /\ r.completed = 0 /\ items'[k] = Released(r, d)
          BY <1>1, <2>1 DEF Matches
        <4> HIDE DEF r
        <4>2. /\ Released(r, d).stored = r.stored
              /\ Released(r, d).completed = r.completed
              /\ Released(r, d).holder = 0
          BY <1>1, <3>1, <4>1, ReleasedRow
        <4> QED
          BY <4>1, <4>2
      <3> QED
        BY <1>1, <3>2, JobCases DEF Outstanding
    <2>3. done \in SUBSET Keys /\ \A k \in done : k \in ks /\ Matches(items[k], n)
      OBVIOUS
    <2> HIDE DEF done
    <2>4. Fenced!Move(done, "waiting", 0)
      BY <2>1, <2>2, <2>3, MoveRows
    <2>5. CASE done = {}
      BY <1>9, <2>1, <2>5, RefineQuiet DEF Release
    <2>6. CASE done # {}
      <3>1. n \in 1 .. (nextName - 1)
        BY <1>7, <2>3, <2>6
      <3>2. Fenced!HandBack(done, n)
        BY <1>7, <1>9, <2>3, <2>4 DEF Fenced!HandBack, Release
      <3> QED
        BY <2>3, <3>1, <3>2 DEF Fenced!FNext, Fenced!HandBack
    <2> QED
      BY <2>5, <2>6
  <1>10. ASSUME NEW ks \in SUBSET Keys, nextName' = nextName,
                items' = [k \in Keys |-> IF k \in ks THEN NoRow ELSE items[k]]
         PROVE  Fenced!FNext
    <2>1. \A k \in ks : JobOf(items'[k]) = "absent" /\ items'[k].holder = 0
      BY <1>10, AbsentRow, JobCases
    <2>2. Fenced!Move(ks, "absent", 0)
      BY <1>10, <2>1, MoveRows
    <2> QED
      BY <1>10, <2>2 DEF Fenced!FNext, Fenced!Drop
  <1>11. ASSUME NEW ks \in SUBSET Keys, Requeue(ks)
         PROVE  UNCHANGED Fenced!fvars
    <2>1. ASSUME NEW k \in Keys
          PROVE  JobOf(items'[k]) = JobOf(items[k]) /\ items'[k].holder = items[k].holder
      <3> DEFINE r == items[k]
      <3>1. r \in Rows
        BY <1>1
      <3>2. items'[k] = r \/ items'[k] = Requeued(r)
        BY <1>11 DEF Requeue
      <3> HIDE DEF r
      <3>3. /\ items'[k].stored = r.stored
            /\ items'[k].completed = r.completed /\ items'[k].holder = r.holder
        BY <1>1, <3>1, <3>2, RequeuedRow
      <3>4. JobOf(items'[k]) = JobOf(r)
        BY <3>3 DEF JobOf, Outstanding
      <3> QED
        BY <3>3, <3>4 DEF r
    <2> QED
      BY <1>11, <2>1, RefineQuiet DEF Requeue
  <1>12. CASE Next
    <2>1. ASSUME NEW k \in Keys, NEW p \in Priorities, NEW d \in Delays, Enqueue(k, p, d)
          PROVE  UNCHANGED Fenced!fvars
      BY <1>2, <2>1 DEF Enqueue
    <2>2. ASSUME UpsertFails PROVE UNCHANGED Fenced!fvars
      BY <1>2, <2>2 DEF UpsertFails
    <2>3. ASSUME NEW n \in Names, NEW k \in Keys, Work(n, k)
          PROVE  UNCHANGED Fenced!fvars
      BY <1>2, <2>3 DEF Work
    <2>4. ASSUME Tick PROVE UNCHANGED Fenced!fvars
      BY <1>2, <2>4 DEF Tick
    <2>5. ASSUME NEW n \in Names
          PROVE  Some(issued[n]) \subseteq SUBSET Keys /\ Some(worked[n]) \subseteq SUBSET Keys
      BY <1>1 DEF Some, TypeOK
    <2>6. ASSUME NEW ks \in Some(Keys), Remove(ks)
          PROVE  Fenced!FNext
      BY <1>10, <2>6 DEF Remove, Some
    <2>7. ASSUME NEW ks \in SUBSET Keys, Reap(ks)
          PROVE  Fenced!FNext
      BY <1>10, <2>7 DEF Reap
    <2>8. Some(Keys) \subseteq SUBSET Keys
      BY DEF Some
    <2> QED
      BY <1>3, <1>5, <1>6, <1>8, <1>9, <1>11, <1>12, <2>1, <2>2, <2>3, <2>4, <2>5, <2>6, <2>7, <2>8
         DEF Next
  <1>13. CASE UNCHANGED vars
    BY <1>2, <1>13 DEF vars
  <1> QED
    BY <1>12, <1>13

\* The queue, with its clock, leases, batcher, operators and reaper, implements
\* the untimed contract of FencedQueue.
THEOREM Refinement == Spec => ImplementsFencedQueue
  <1>1. Init => Fenced!FInit
    BY RefineInit
  <1>2. IndInv /\ IndInv' /\ [Next]_vars => [Fenced!FNext]_(Fenced!fvars)
    BY RefineNext
  <1> QED
    BY <1>1, <1>2, Inductive, PTL DEF Spec, ImplementsFencedQueue, Fenced!FSpec

\* Merging two enqueues in the batcher leaves the row that two flushes would,
\* for every row the table can hold and every entry that can be waiting.
THEOREM MergeSafety == Spec => []MergeAgrees
  <1>1. TypeOK => MergeAgrees
    <2> SUFFICES ASSUME TypeOK, NEW k \in Keys, NEW p \in Priorities, NEW d \in Delays
                 PROVE  LET next == [waiting |-> TRUE, priority |-> p, delay |-> Larger(d, 0)]
                        IN  Upsert(Upsert(items[k], pending[k], now), next, now)
                                = Upsert(items[k], mergeEntries(pending[k], next), now)
      BY DEF MergeAgrees
    <2> DEFINE next == [waiting |-> TRUE, priority |-> p, delay |-> Larger(d, 0)]
    <2>1. p \in Int /\ Larger(d, 0) \in Nat
      BY WorkQueueAssumption DEF Larger
    <2>2. next \in Entries
      BY <2>1 DEF Entries
    <2>3. items[k] \in Rows /\ pending[k] \in Entries /\ now \in Nat
      BY DEF TypeOK
    <2> HIDE DEF next
    <2>4. Upsert(Upsert(items[k], pending[k], now), next, now)
              = Upsert(items[k], mergeEntries(pending[k], next), now)
      BY <2>2, <2>3, MergeAgreesWithConflict
    <2> QED
      BY <2>4 DEF next
  <1> QED
    BY <1>1, TypeCorrect, PTL

=============================================================================
