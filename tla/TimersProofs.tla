---------------------------- MODULE TimersProofs ----------------------------
(***************************************************************************)
(* Proofs about Timers, for every set of keys, workers and instants, every *)
(* plan of Schedule calls, both families of dialects, and every number of  *)
(* faults.                                                                 *)
(***************************************************************************)
EXTENDS Timers, TLAPS

-----------------------------------------------------------------------------
(* What the records' updates leave.                                        *)

Runs == Instants \cup {Later}
Holders == Workers \cup {Nobody, Orphan}

LEMMA Constants ==
    /\ MaxAttempts \in Nat /\ MaxFaults \in Nat
    /\ Nobody \notin Workers /\ Orphan \notin Workers /\ Nobody # Orphan
    /\ NoRow \notin Records
  BY TimersAssumption

LEMMA NewRow ==
    ASSUME NEW i \in Instants, NEW by \in Holders, NEW leased \in BOOLEAN, NEW n \in Nat, NEW moved \in Nat
    PROVE  [run |-> i, asked |-> i, arrived |-> FALSE, by |-> by, leased |-> leased,
            attempts |-> 0, fired |-> FALSE, call |-> n, moved |-> moved, done |-> 0] \in Records
  BY Constants DEF Records, Holders

LEMMA RowArrives == ASSUME NEW r \in Records PROVE [r EXCEPT !.arrived = TRUE] \in Records
  BY DEF Records

LEMMA RowLapses == ASSUME NEW r \in Records PROVE [r EXCEPT !.leased = FALSE] \in Records
  BY DEF Records

LEMMA RowOrphaned == ASSUME NEW r \in Records, NEW by \in Holders PROVE [r EXCEPT !.by = by] \in Records
  BY DEF Records, Holders

LEMMA RowClaimed ==
    ASSUME NEW r \in Records, NEW by \in Holders, NEW n \in 0 .. MaxAttempts
    PROVE  [r EXCEPT !.leased = TRUE, !.by = by, !.attempts = n] \in Records
  BY DEF Records, Holders

LEMMA RowFired ==
    ASSUME NEW r \in Records, NEW by \in Holders, NEW n \in Nat
    PROVE  [r EXCEPT !.fired = TRUE, !.leased = FALSE, !.by = by, !.done = n] \in Records
  BY DEF Records, Holders

LEMMA RowReleased ==
    ASSUME NEW r \in Records, NEW i \in Runs, NEW by \in Holders
    PROVE  [r EXCEPT !.run = i, !.arrived = FALSE, !.leased = FALSE, !.by = by] \in Records
  BY DEF Records, Holders, Runs

LEMMA HoldingLate == ASSUME NEW h \in Holdings PROVE [h EXCEPT !.late = TRUE] \in Holdings
  BY DEF Holdings

LEMMA HoldingGoes ==
    ASSUME NEW h \in Holdings, NEW st \in {"claimed", "running", "fired", "failed"}
    PROVE  [h EXCEPT !.st = st] \in Holdings
  BY DEF Holdings

-----------------------------------------------------------------------------
(* What the steps do to the rows and to the batches.                       *)

TypeInv == TTypeOK /\ DOMAIN work = Workers

\* The batches lose firings, or their firings go on.
Goes ==
    /\ DOMAIN work' = Workers
    /\ \A w \in Workers :
        /\ DOMAIN work'[w] \subseteq DOMAIN work[w]
        /\ \A k \in DOMAIN work'[w] :
              /\ work'[w][k] \in Holdings
              /\ work'[w][k].call = work[w][k].call /\ work'[w][k].run = work[w][k].run
              /\ work[w][k].late => work'[w][k].late

LEMMA Drops ==
    ASSUME TypeInv, NEW w \in Workers, NEW S, work' = Drop(w, S)
    PROVE  Goes /\ DOMAIN work'[w] = DOMAIN work[w] \ S
  <1>1. DOMAIN work' = Workers /\ \A x \in Workers \ {w} : work'[x] = work[x]
    BY DEF TypeInv, Drop
  <1>2. work'[w] = [k \in DOMAIN work[w] \ S |-> work[w][k]]
    BY DEF TypeInv, Drop
  <1>3. DOMAIN work'[w] = DOMAIN work[w] \ S /\ \A k \in DOMAIN work'[w] : work'[w][k] = work[w][k]
    BY <1>2
  <1> QED
    BY <1>1, <1>3 DEF Goes, TypeInv, TTypeOK

LEMMA Advances ==
    ASSUME TypeInv, NEW w \in Workers, NEW k \in DOMAIN work[w], NEW st \in {"claimed", "running", "fired", "failed"},
           work' = [work EXCEPT ![w][k].st = st]
    PROVE  Goes
  <1> DEFINE h == [work[w][k] EXCEPT !.st = st]
             b == [work[w] EXCEPT ![k] = h]
  <1>1. h \in Holdings /\ work[w][k] \in Holdings
    BY HoldingGoes DEF TypeInv, TTypeOK
  <1>2. h.call = work[w][k].call /\ h.run = work[w][k].run /\ h.late = work[w][k].late
    BY <1>1 DEF Holdings
  <1>3. work' = [work EXCEPT ![w] = b]
    OBVIOUS
  <1> HIDE DEF h
  <1>4. /\ DOMAIN b = DOMAIN work[w] /\ b[k] = h /\ \A l \in DOMAIN work[w] \ {k} : b[l] = work[w][l]
    OBVIOUS
  <1> HIDE DEF b
  <1>5. DOMAIN work' = Workers /\ work'[w] = b /\ \A x \in Workers \ {w} : work'[x] = work[x]
    BY <1>3 DEF TypeInv
  <1> QED
    BY <1>1, <1>2, <1>4, <1>5 DEF Goes, TypeInv, TTypeOK

LEMMA Schedules ==
    ASSUME TypeInv, NEW k \in Keys, NEW i \in Instants, Schedule(k, i)
    PROVE  /\ row' = [row EXCEPT ![k] = row'[k]] /\ row'[k] \in Records
           /\ calls' = [calls EXCEPT ![k] = calls[k] + 1]
           /\ row'[k].run = i /\ ~row'[k].arrived /\ ~row'[k].fired /\ row'[k].call = calls[k] + 1
           /\ Moves(k, i) => row'[k].by = Nobody /\ row'[k].moved = calls[k] + 1
           /\ ~Moves(k, i) => /\ There(k) /\ row[k].run = i
                              /\ row'[k].by = row[k].by /\ row'[k].leased = row[k].leased
                              /\ row'[k].moved = row[k].moved
           /\ UNCHANGED <<plan, split, arrived, work, doomed, faults>>
  <1> DEFINE by == IF Moves(k, i) THEN Nobody ELSE row[k].by
             leased == ~Moves(k, i) /\ row[k].leased
             n == calls[k] + 1
             moved == IF Moves(k, i) THEN n ELSE row[k].moved
             r == [run |-> i, asked |-> i, arrived |-> FALSE, by |-> by, leased |-> leased,
                   attempts |-> 0, fired |-> FALSE, call |-> n, moved |-> moved, done |-> 0]
  <1>1. ~Moves(k, i) => There(k) /\ row[k] \in Records /\ row[k].run = i
    BY DEF Moves, There, TypeInv, TTypeOK
  <1>2. n \in Nat
    BY DEF TypeInv, TTypeOK
  <1>3. by \in Holders /\ leased \in BOOLEAN /\ moved \in Nat
    BY <1>1, <1>2 DEF Records, Holders
  <1>4. row' = [row EXCEPT ![k] = r]
    BY DEF Schedule, Upsert
  <1>5. /\ Moves(k, i) => by = Nobody /\ moved = n
        /\ ~Moves(k, i) => by = row[k].by /\ leased = row[k].leased /\ moved = row[k].moved
    BY <1>1 DEF Records
  <1> HIDE DEF by, leased, moved, n
  <1>6. r \in Records
    BY <1>2, <1>3, NewRow
  <1>7. r.run = i /\ ~r.arrived /\ ~r.fired /\ r.call = n /\ r.by = by /\ r.moved = moved /\ r.leased = leased
    OBVIOUS
  <1> HIDE DEF r
  <1>8. row'[k] = r
    BY <1>4 DEF TypeInv, TTypeOK
  <1> USE DEF n
  <1> QED
    BY <1>1, <1>4, <1>5, <1>6, <1>7, <1>8 DEF Schedule

LEMMA Lapses ==
    ASSUME TypeInv, NEW k \in Keys, Lapse(k)
    PROVE  /\ Goes
           /\ There(k) /\ row'[k] \in Records /\ ~row'[k].leased
           /\ \A l \in Keys \ {k} : row'[l] = row[l]
           /\ \A f \in {"run", "arrived", "by", "fired", "call", "moved", "done"} : row'[k][f] = row[k][f]
           /\ \A w \in Workers : w = row[k].by /\ k \in DOMAIN work[w] => work'[w][k].late
           /\ row' \in [Keys -> Records \cup {NoRow}]
           /\ UNCHANGED <<plan, split, calls, arrived, doomed, faults>>
  <1> DEFINE r == [row[k] EXCEPT !.leased = FALSE]
             b(w) == [work[w] EXCEPT ![k].late = TRUE]
  <1>1. There(k) /\ row[k] \in Records
    BY DEF Lapse, There, TypeInv, TTypeOK
  <1>2. r \in Records /\ ~r.leased /\ \A f \in {"run", "arrived", "by", "fired", "call", "moved", "done"} : r[f] = row[k][f]
    BY <1>1, RowLapses DEF Records
  <1>3. row' = [row EXCEPT ![k] = r]
    BY DEF Lapse
  <1>4. work' = [w \in Workers |-> IF row[k].by = w /\ k \in DOMAIN work[w] THEN b(w) ELSE work[w]]
    BY DEF Lapse
  <1>5. ASSUME NEW w \in Workers, k \in DOMAIN work[w]
        PROVE  /\ DOMAIN b(w) = DOMAIN work[w] /\ \A l \in DOMAIN work[w] \ {k} : b(w)[l] = work[w][l]
               /\ b(w)[k] \in Holdings /\ b(w)[k].late
               /\ b(w)[k].call = work[w][k].call /\ b(w)[k].run = work[w][k].run
    <2> DEFINE h == [work[w][k] EXCEPT !.late = TRUE]
    <2>1. work[w][k] \in Holdings /\ h \in Holdings
      BY <1>5, HoldingLate DEF TypeInv, TTypeOK
    <2>2. h.late /\ h.call = work[w][k].call /\ h.run = work[w][k].run
      BY <2>1 DEF Holdings
    <2>3. b(w) = [work[w] EXCEPT ![k] = h]
      OBVIOUS
    <2> HIDE DEF h
    <2>4. DOMAIN b(w) = DOMAIN work[w] /\ b(w)[k] = h /\ \A l \in DOMAIN work[w] \ {k} : b(w)[l] = work[w][l]
      BY <1>5, <2>3
    <2> HIDE DEF b
    <2> QED
      BY <2>1, <2>2, <2>4
  <1> HIDE DEF r, b
  <1>6. Goes
    BY <1>4, <1>5 DEF Goes, TypeInv, TTypeOK
  <1> QED
    BY <1>1, <1>2, <1>3, <1>4, <1>5, <1>6 DEF Lapse, TypeInv, TTypeOK

\* A claim leases what is due under the worker's name, hands the worker what
\* each row said, and leaves the rows of its last claim without a name.
ClaimsBatch(w, B) ==
    /\ row' = [k \in Keys |->
                IF k \in B THEN [row[k] EXCEPT !.leased = TRUE, !.by = w, !.attempts = @ + 1]
                ELSE IF There(k) /\ row[k].by = w THEN [row[k] EXCEPT !.by = Orphan] ELSE row[k]]
    /\ work' = [work EXCEPT ![w] =
                [k \in B |-> [run |-> row[k].run, call |-> row[k].call, st |-> "claimed", late |-> FALSE]]]

LEMMA Claims ==
    ASSUME TypeInv, NEW w \in Workers, NEW B \in Batches, ClaimsBatch(w, B)
    PROVE  /\ B \subseteq Keys /\ \A k \in B : Due(k)
           /\ DOMAIN work' = Workers /\ DOMAIN work'[w] = B /\ \A x \in Workers \ {w} : work'[x] = work[x]
           /\ \A k \in B : work'[w][k] \in Holdings /\ work'[w][k].call = row[k].call /\ work'[w][k].run = row[k].run
           /\ \A k \in Keys :
                 /\ There(k) => row'[k] \in Records
                 /\ ~There(k) => row'[k] = row[k]
                 /\ There(k) => \A f \in {"run", "arrived", "fired", "call", "moved", "done"} : row'[k][f] = row[k][f]
           /\ \A k \in B : row'[k].by = w /\ row'[k].leased
           /\ \A k \in Keys \ B : /\ There(k) => row'[k].leased = row[k].leased
                                  /\ row[k].by # w => row'[k] = row[k]
                                  /\ There(k) /\ row[k].by = w => row'[k].by = Orphan
  <1> DEFINE c(k) == [row[k] EXCEPT !.leased = TRUE, !.by = w, !.attempts = @ + 1]
             o(k) == [row[k] EXCEPT !.by = Orphan]
             h(k) == [run |-> row[k].run, call |-> row[k].call, st |-> "claimed", late |-> FALSE]
  <1>1. B \subseteq Keys /\ \A k \in B : Due(k) /\ There(k) /\ row[k] \in Records
    BY DEF Batches, Due, There, TypeInv, TTypeOK
  <1>2. ASSUME NEW k \in B
        PROVE  /\ c(k) \in Records /\ c(k).by = w /\ c(k).leased
               /\ \A f \in {"run", "arrived", "fired", "call", "moved", "done"} : c(k)[f] = row[k][f]
    <2>1. row[k] \in Records /\ w \in Holders /\ row[k].attempts + 1 \in 0 .. MaxAttempts
      <3>1. row[k] \in Records /\ w \in Holders /\ row[k].attempts < MaxAttempts
        BY <1>1 DEF Holders, Due
      <3>2. row[k].attempts \in 0 .. MaxAttempts
        BY <3>1 DEF Records
      <3> QED
        BY <3>1, <3>2, Constants
    <2>2. c(k) = [row[k] EXCEPT !.leased = TRUE, !.by = w, !.attempts = row[k].attempts + 1]
      BY <2>1 DEF Records
    <2>3. c(k) \in Records
      BY <2>1, <2>2, RowClaimed
    <2> QED
      BY <2>1, <2>3 DEF Records
  <1>3. ASSUME NEW k \in Keys, There(k)
        PROVE  /\ o(k) \in Records /\ o(k).by = Orphan /\ o(k).leased = row[k].leased
               /\ \A f \in {"run", "arrived", "fired", "call", "moved", "done"} : o(k)[f] = row[k][f]
    <2>1. row[k] \in Records /\ Orphan \in Holders
      BY <1>3 DEF There, TypeInv, TTypeOK, Holders
    <2>2. o(k) \in Records
      BY <2>1, RowOrphaned
    <2> QED
      BY <2>1, <2>2 DEF Records
  <1>4. ASSUME NEW k \in B PROVE h(k) \in Holdings /\ h(k).call = row[k].call /\ h(k).run = row[k].run
    BY <1>1 DEF Holdings, Records
  <1> HIDE DEF c, o, h
  <1>5. row' = [k \in Keys |-> IF k \in B THEN c(k) ELSE IF There(k) /\ row[k].by = w THEN o(k) ELSE row[k]]
    BY DEF c, o, ClaimsBatch
  <1>6. work' = [work EXCEPT ![w] = [k \in B |-> h(k)]]
    BY DEF h, ClaimsBatch
  <1>7. /\ DOMAIN work' = Workers /\ DOMAIN work'[w] = B /\ \A x \in Workers \ {w} : work'[x] = work[x]
        /\ \A k \in B : work'[w][k] = h(k)
    BY <1>6 DEF TypeInv
  <1>8. \A k \in Keys : There(k) => row[k] \in Records
    BY DEF There, TypeInv, TTypeOK
  <1>9. \A k \in B : row'[k] = c(k)
    BY <1>1, <1>5
  <1>10. \A k \in Keys \ B : row'[k] = IF There(k) /\ row[k].by = w THEN o(k) ELSE row[k]
    BY <1>5
  <1>11. ASSUME NEW k \in Keys
         PROVE  /\ There(k) => row'[k] \in Records
                /\ ~There(k) => row'[k] = row[k]
                /\ There(k) => \A f \in {"run", "arrived", "fired", "call", "moved", "done"} : row'[k][f] = row[k][f]
    <2>1. CASE k \in B
      BY <1>1, <1>2, <1>9, <2>1
    <2>2. CASE k \notin B
      BY <1>3, <1>8, <1>10, <2>2
    <2> QED
      BY <2>1, <2>2
  <1>12. ASSUME NEW k \in Keys \ B
         PROVE  /\ There(k) => row'[k].leased = row[k].leased
                /\ row[k].by # w => row'[k] = row[k]
                /\ There(k) /\ row[k].by = w => row'[k].by = Orphan
    BY <1>3, <1>10
  <1> QED
    BY <1>1, <1>2, <1>4, <1>7, <1>9, <1>11, <1>12

\* An outcome write takes the rows its claim still holds.
LEMMA Completes ==
    ASSUME TypeInv, NEW w \in Workers, complete(w)
    PROVE  /\ Goes /\ DOMAIN work'[w] = DOMAIN work[w] \ Firings(w, "fired")
           /\ \A k \in Keys :
                 \/ row'[k] = row[k]
                 \/ /\ k \in Firings(w, "fired") /\ There(k) /\ row[k].by = w
                    /\ row'[k] \in Records /\ row'[k].by = Nobody /\ row'[k].fired
                    /\ row'[k].done = work[w][k].call
                    /\ \A f \in {"run", "arrived", "call", "moved"} : row'[k][f] = row[k][f]
           /\ row' \in [Keys -> Records \cup {NoRow}]
           /\ UNCHANGED <<plan, split, calls, arrived, doomed, faults>>
  <1> DEFINE x(k) == [row[k] EXCEPT !.fired = TRUE, !.leased = FALSE, !.by = Nobody, !.done = work[w][k].call]
  <1>1. Goes /\ DOMAIN work'[w] = DOMAIN work[w] \ Firings(w, "fired")
    BY Drops DEF complete
  <1>2. ASSUME NEW k \in Keys, k \in Firings(w, "fired"), Held(w, k)
        PROVE  /\ There(k) /\ row[k].by = w
               /\ x(k) \in Records /\ x(k).by = Nobody /\ x(k).fired /\ x(k).done = work[w][k].call
               /\ \A f \in {"run", "arrived", "call", "moved"} : x(k)[f] = row[k][f]
    <2>1. There(k) /\ row[k].by = w /\ row[k] \in Records
      BY <1>2 DEF Held, There, TypeInv, TTypeOK
    <2>2. Nobody \in Holders /\ work[w][k].call \in Nat
      BY <1>2 DEF Holders, Firings, TypeInv, TTypeOK, Holdings
    <2>3. x(k) \in Records
      BY ONLY <2>1, <2>2, RowFired
    <2> QED
      BY <2>1, <2>3 DEF Records
  <1>3. row' = [k \in Keys |-> IF k \in Firings(w, "fired") /\ Held(w, k) THEN x(k) ELSE row[k]]
    BY DEF complete
  <1> HIDE DEF x
  <1>4. row' \in [Keys -> Records \cup {NoRow}]
    BY <1>2, <1>3 DEF TypeInv, TTypeOK
  <1> QED
    BY <1>1, <1>2, <1>3, <1>4 DEF complete

LEMMA Releases ==
    ASSUME TypeInv, NEW w \in Workers, release(w)
    PROVE  /\ Goes
           /\ \A k \in Keys :
                 \/ row'[k] = row[k]
                 \/ /\ k \in Firings(w, "failed") /\ There(k) /\ row[k].by = w /\ k \notin DOMAIN work'[w]
                    /\ row'[k] \in Records /\ row'[k].by = Nobody /\ row'[k].run = Later
                    /\ ~row[k].fired /\ ~row'[k].fired /\ ~row'[k].arrived
                    /\ \A f \in {"call", "moved"} : row'[k][f] = row[k][f]
           /\ row' \in [Keys -> Records \cup {NoRow}]
           /\ UNCHANGED <<plan, split, calls, arrived, doomed, faults>>
  <1> DEFINE x(k) == [row[k] EXCEPT !.run = Later, !.arrived = FALSE, !.leased = FALSE, !.by = Nobody]
  <1>0. PICK group \in SUBSET Firings(w, "failed") :
           /\ row' = [k \in Keys |-> IF k \in group /\ Held(w, k) /\ ~row[k].fired THEN x(k) ELSE row[k]]
           /\ work' = Drop(w, group)
    BY DEF release
  <1>1. Goes /\ DOMAIN work'[w] = DOMAIN work[w] \ group
    BY <1>0, Drops
  <1>2. ASSUME NEW k \in Keys, Held(w, k), ~row[k].fired
        PROVE  /\ There(k) /\ row[k].by = w
               /\ x(k) \in Records /\ x(k).by = Nobody /\ x(k).run = Later /\ ~x(k).fired /\ ~x(k).arrived
               /\ \A f \in {"call", "moved"} : x(k)[f] = row[k][f]
    <2>1. There(k) /\ row[k].by = w /\ row[k] \in Records
      BY <1>2 DEF Held, There, TypeInv, TTypeOK
    <2>2. Nobody \in Holders /\ Later \in Runs
      BY DEF Holders, Runs
    <2>3. x(k) \in Records
      BY ONLY <2>1, <2>2, RowReleased
    <2> QED
      BY <1>2, <2>1, <2>3 DEF Records
  <1> HIDE DEF x
  <1>3. row' \in [Keys -> Records \cup {NoRow}]
    BY <1>0, <1>2 DEF TypeInv, TTypeOK
  <1> QED
    BY <1>0, <1>1, <1>2, <1>3 DEF release

\* A shutdown, a failed outcome write or a crash only drops firings, and a
\* handler's progress is the worker's own.
LEMMA BatchSteps ==
    ASSUME TypeInv, NEW w \in Workers,
           \/ \E k \in Keys : dispatch(w, k) \/ handle(w, k)
           \/ shutdown(w) \/ completeFails(w) \/ releaseFails(w) \/ Crash(w)
    PROVE  Goes /\ faults' \in 0 .. MaxFaults /\ UNCHANGED <<plan, split, row, calls, arrived, doomed>>
  <1>1. faults' \in 0 .. MaxFaults
    BY Constants DEF TypeInv, TTypeOK, Fault, dispatch, handle, shutdown, completeFails, releaseFails, Crash
  <1>2. UNCHANGED <<plan, split, row, calls, arrived, doomed>>
    BY DEF dispatch, handle, shutdown, completeFails, releaseFails, Crash
  <1>3. ASSUME NEW k \in Keys, dispatch(w, k) \/ handle(w, k) PROVE Goes
    <2>1. k \in DOMAIN work[w]
      BY <1>3 DEF dispatch, handle, Firings
    <2>2. PICK st \in {"claimed", "running", "fired", "failed"} : work' = [work EXCEPT ![w][k].st = st]
      BY <1>3 DEF dispatch, handle
    <2> QED
      BY <2>1, <2>2, Advances
  <1>4. ASSUME shutdown(w) \/ completeFails(w) PROVE Goes
    BY <1>4, Drops DEF shutdown, completeFails
  <1>5. ASSUME releaseFails(w) PROVE Goes
    <2>1. PICK group \in SUBSET Firings(w, "failed") : work' = Drop(w, group)
      BY <1>5 DEF releaseFails
    <2> QED
      BY <2>1, Drops
  <1>6. ASSUME Crash(w) PROVE Goes
    <2>1. DOMAIN work' = Workers /\ work'[w] = Free /\ \A x \in Workers \ {w} : work'[x] = work[x]
      BY <1>6 DEF Crash, TypeInv
    <2>2. DOMAIN Free = {}
      BY DEF Free
    <2>3. \A x \in Workers : DOMAIN work'[x] = {} \/ work'[x] = work[x]
      BY <2>1, <2>2
    <2>4. \A x \in Workers : \A k \in DOMAIN work[x] : work[x][k] \in Holdings
      BY DEF TypeInv, TTypeOK
    <2> SUFFICES ASSUME NEW x \in Workers, NEW k \in DOMAIN work'[x]
                 PROVE  /\ k \in DOMAIN work[x] /\ work'[x][k] \in Holdings
                        /\ work'[x][k].call = work[x][k].call /\ work'[x][k].run = work[x][k].run
                        /\ work[x][k].late => work'[x][k].late
      BY <2>1 DEF Goes
    <2> QED
      BY <2>3, <2>4
  <1> QED
    BY <1>1, <1>2, <1>3, <1>4, <1>5, <1>6

LEMMA Reaps ==
    ASSUME TypeInv, reapSelect \/ reapDelete \/ Reap
    PROVE  /\ \A k \in Keys : row'[k] = row[k] \/ (row'[k] = NoRow /\ There(k) /\ row[k].fired)
           /\ row' \in [Keys -> Records \cup {NoRow}] /\ doomed' \subseteq Keys
           /\ UNCHANGED <<plan, split, calls, arrived, work, faults>>
  BY DEF reapSelect, reapDelete, Reap, StillReapable, Fired, TypeInv, TTypeOK


-----------------------------------------------------------------------------
(* The types hold.                                                         *)

LEMMA TypeInit == Init => TypeInv
  <1> SUFFICES ASSUME Init PROVE TypeInv
    OBVIOUS
  <1>1. DOMAIN work = Workers /\ \A w \in Workers : DOMAIN work[w] = {}
    BY DEF Init, Free
  <1> QED
    BY <1>1, Constants DEF Init, TypeInv, TTypeOK

\* Rows are only made by Schedule, and everything else leaves what is there.
LEMMA Arrivals ==
    ASSUME TypeInv, NEW k \in Keys, ArriveLater(k)
    PROVE  /\ There(k) /\ row[k].run = Later /\ row'[k] \in Records
           /\ \A f \in {"run", "by", "leased", "fired", "call", "moved", "done"} : row'[k][f] = row[k][f]
           /\ \A l \in Keys \ {k} : row'[l] = row[l]
           /\ row' \in [Keys -> Records \cup {NoRow}]
           /\ UNCHANGED <<plan, split, calls, arrived, work, doomed, faults>>
  <1> DEFINE r == [row[k] EXCEPT !.arrived = TRUE]
  <1>1. There(k) /\ row[k].run = Later /\ row[k] \in Records
    BY DEF ArriveLater, There, TypeInv, TTypeOK
  <1>2. r \in Records /\ \A f \in {"run", "by", "leased", "fired", "call", "moved", "done"} : r[f] = row[k][f]
    BY <1>1, RowArrives DEF Records
  <1>3. row' = [row EXCEPT ![k] = r]
    BY DEF ArriveLater
  <1> HIDE DEF r
  <1> QED
    BY <1>1, <1>2, <1>3 DEF ArriveLater, TypeInv, TTypeOK

LEMMA TypeGoes ==
    ASSUME TypeInv, Goes, row' \in [Keys -> Records \cup {NoRow}], faults' \in 0 .. MaxFaults,
           UNCHANGED <<plan, split, calls, arrived, doomed>>
    PROVE  TypeInv'
  BY DEF TypeInv, TTypeOK, Goes

LEMMA TypeNext == TypeInv /\ [Next]_vars => TypeInv'
  <1> SUFFICES ASSUME TypeInv, [Next]_vars PROVE TypeInv'
    OBVIOUS
  <1>1. CASE UNCHANGED vars
    BY <1>1 DEF TypeInv, TTypeOK, vars
  <1>2. ASSUME NEW k \in Keys, NEW i \in Instants, Schedule(k, i) PROVE TypeInv'
    <2>1. row' \in [Keys -> Records \cup {NoRow}] /\ calls' \in [Keys -> Nat]
      BY <1>2, Schedules DEF TypeInv, TTypeOK
    <2>2. UNCHANGED <<plan, split, arrived, work, doomed, faults>>
      BY <1>2 DEF Schedule
    <2> QED
      BY <2>1, <2>2 DEF TypeInv, TTypeOK
  <1>3. ASSUME NEW k \in Keys, Cancel(k) PROVE TypeInv'
    BY <1>3 DEF Cancel, TypeInv, TTypeOK
  <1>4. ASSUME NEW k \in Keys, ArriveLater(k) PROVE TypeInv'
    BY <1>4, Arrivals DEF TypeInv, TTypeOK
  <1>5. ASSUME NEW k \in Keys, Lapse(k) PROVE TypeInv'
    <2>1. faults' \in 0 .. MaxFaults
      BY <1>5, Lapses DEF TypeInv, TTypeOK
    <2> QED
      BY <1>5, <2>1, Lapses, TypeGoes
  <1>6. ASSUME NEW i \in Instants, Arrive(i) PROVE TypeInv'
    BY <1>6 DEF Arrive, TypeInv, TTypeOK
  <1>7. ASSUME NEW w \in Workers, Claim(w) PROVE TypeInv'
    <2>1. PICK B \in Batches : ClaimsBatch(w, B)
      BY <1>7 DEF Claim, ClaimsBatch
    <2>2. row' \in [Keys -> Records \cup {NoRow}]
      <3>1. \A k \in Keys : row'[k] \in Records \cup {NoRow}
        BY <2>1, Claims DEF TypeInv, TTypeOK
      <3>2. row' = [k \in Keys |-> row'[k]]
        BY <2>1 DEF ClaimsBatch
      <3> QED
        BY <3>1, <3>2
    <2>3. DOMAIN work' = Workers /\
          \A x \in Workers : DOMAIN work'[x] \subseteq Keys /\ \A k \in DOMAIN work'[x] : work'[x][k] \in Holdings
      BY <2>1, Claims DEF TypeInv, TTypeOK
    <2> QED
      BY <1>7, <2>2, <2>3 DEF Claim, TypeInv, TTypeOK
  <1>8. ASSUME NEW w \in Workers, complete(w) \/ release(w) PROVE TypeInv'
    <2>1. faults' \in 0 .. MaxFaults
      BY <1>8, Completes, Releases DEF TypeInv, TTypeOK
    <2> QED
      BY <1>8, <2>1, Completes, Releases, TypeGoes
  <1>9. ASSUME NEW w \in Workers,
               \/ \E k \in Keys : dispatch(w, k) \/ handle(w, k)
               \/ shutdown(w) \/ completeFails(w) \/ releaseFails(w) \/ Crash(w)
        PROVE  TypeInv'
    <2>1. row' \in [Keys -> Records \cup {NoRow}]
      BY <1>9, BatchSteps DEF TypeInv, TTypeOK
    <2> QED
      BY <1>9, <2>1, BatchSteps, TypeGoes
  <1>10. CASE reapSelect \/ reapDelete \/ Reap
    BY <1>10, Reaps DEF TypeInv, TTypeOK
  <1> QED
    BY <1>1, <1>2, <1>3, <1>4, <1>5, <1>6, <1>7, <1>8, <1>9, <1>10 DEF Next, Pass

\* Every variable keeps its type, and no row is claimed more often than
\* MaxAttempts between two Schedule calls.
THEOREM TimersTypes == Spec => []TTypeOK
  <1>1. TypeInv => TTypeOK
    BY DEF TypeInv
  <1> QED
    BY <1>1, TypeInit, TypeNext, PTL DEF Spec

-----------------------------------------------------------------------------
(* What the rows and the firings know of each other.                       *)

\* A row was last moved by a call that has been made, and a row that says it
\* fired was completed by a firing that was handed that call or a later one.
RowInv ==
    \A k \in Keys : There(k) =>
        /\ row[k].moved <= row[k].call /\ row[k].call <= calls[k]
        /\ row[k].arrived => row[k].run = Later
        /\ row[k].fired => row[k].done >= row[k].moved /\ (row[k].run = Later \/ row[k].run \in arrived)

\* The firing that a row names was handed the row as it was last moved, when
\* its instant had arrived; and a firing in time whose timer was not moved
\* since is the one that the row names, under a lease.
HoldInv ==
    \A w \in Workers : \A k \in DOMAIN work[w] :
        /\ work[w][k].call <= calls[k]
        /\ There(k) /\ row[k].by = w =>
              work[w][k].call >= row[k].moved /\ (row[k].run = Later \/ row[k].run \in arrived)
        /\ There(k) /\ ~work[w][k].late /\ work[w][k].call >= row[k].moved =>
              row[k].by = w /\ row[k].leased

Inv == TypeInv /\ RowInv /\ HoldInv

LEMMA InvInit == Init => Inv
  <1> SUFFICES ASSUME Init PROVE Inv
    OBVIOUS
  <1>1. \A w \in Workers : DOMAIN work[w] = {}
    BY DEF Init, Free
  <1> QED
    BY <1>1, TypeInit DEF Init, Inv, RowInv, HoldInv, There

LEMMA Facts ==
    ASSUME TypeInv
    PROVE  /\ \A k \in Keys : calls[k] \in Nat /\ (There(k) => row[k] \in Records)
           /\ \A k \in Keys : There(k) => row[k].moved \in Nat /\ row[k].call \in Nat /\ row[k].done \in Nat
           /\ \A w \in Workers : \A k \in DOMAIN work[w] : k \in Keys /\ work[w][k].call \in Nat
  BY DEF TypeInv, TTypeOK, There, Records, Holdings

LEMMA InvSchedules == ASSUME Inv, NEW k \in Keys, NEW i \in Instants, Schedule(k, i) PROVE RowInv' /\ HoldInv'
  <1>1. TypeInv /\ RowInv /\ HoldInv
    BY DEF Inv
  <1>2. \A l \in Keys \ {k} : row'[l] = row[l] /\ calls'[l] = calls[l]
    BY <1>1, Schedules DEF TypeInv, TTypeOK
  <1>3. calls'[k] = calls[k] + 1
    BY <1>1, Schedules DEF TypeInv, TTypeOK
  <1>4. UNCHANGED <<arrived, work>>
    BY <1>1, Schedules
  <1>5. RowInv'
    <2> SUFFICES ASSUME NEW l \in Keys, There(l)'
                 PROVE  /\ row'[l].moved <= row'[l].call /\ row'[l].call <= calls'[l]
                        /\ row'[l].arrived => row'[l].run = Later
                        /\ row'[l].fired =>
                              row'[l].done >= row'[l].moved /\ (row'[l].run = Later \/ row'[l].run \in arrived')
      BY DEF RowInv
    <2>1. CASE l = k
      <3>1. row'[k].moved <= calls[k] + 1
        BY <1>1, Schedules, Facts DEF RowInv
      <3> QED
        BY <1>1, <1>3, <2>1, <3>1, Schedules, Facts
    <2>2. CASE l # k
      BY <1>1, <1>2, <1>4, <2>2 DEF RowInv, There
    <2> QED
      BY <2>1, <2>2
  <1>6. HoldInv'
    <2> SUFFICES ASSUME NEW w \in Workers, NEW l \in DOMAIN work[w]
                 PROVE  /\ work[w][l].call <= calls'[l]
                        /\ There(l)' /\ row'[l].by = w =>
                              work[w][l].call >= row'[l].moved /\ (row'[l].run = Later \/ row'[l].run \in arrived)
                        /\ There(l)' /\ ~work[w][l].late /\ work[w][l].call >= row'[l].moved =>
                              row'[l].by = w /\ row'[l].leased
      BY <1>4 DEF HoldInv
    <2>0. l \in Keys /\ work[w][l].call \in Nat /\ calls[l] \in Nat /\ work[w][l].call <= calls[l]
      BY <1>1, Facts DEF HoldInv
    <2>1. CASE l = k /\ Moves(k, i)
      BY <1>1, <1>3, <2>0, <2>1, Schedules, Constants
    <2>2. CASE l = k /\ ~Moves(k, i)
      BY <1>1, <1>3, <2>0, <2>2, Schedules DEF HoldInv
    <2>3. CASE l # k
      BY <1>1, <1>2, <2>0, <2>3 DEF HoldInv, There
    <2> QED
      BY <2>1, <2>2, <2>3
  <1> QED
    BY <1>5, <1>6

\* Steps that move no row to another schedule, and give no worker a firing.
LEMMA InvGoes ==
    ASSUME Inv, Goes, UNCHANGED calls, arrived \subseteq arrived',
           \A k \in Keys :
              \/ row'[k] = row[k]
              \/ row'[k] = NoRow
              \/ There(k) /\ (row'[k].arrived => row'[k].run = Later)
                 /\ row'[k].call = row[k].call /\ row'[k].moved = row[k].moved
                 /\ row'[k].fired = row[k].fired /\ row'[k].done = row[k].done
                 /\ row'[k].run = row[k].run /\ row'[k].by = row[k].by
                 /\ (row'[k].leased = row[k].leased
                     \/ \A w \in Workers : w = row[k].by /\ k \in DOMAIN work[w] => work'[w][k].late)
    PROVE  RowInv' /\ HoldInv'
  <1>1. TypeInv /\ RowInv /\ HoldInv
    BY DEF Inv
  <1>2. RowInv'
    BY <1>1 DEF RowInv, There
  <1>3. HoldInv'
    <2> SUFFICES ASSUME NEW w \in Workers, NEW k \in DOMAIN work'[w]
                 PROVE  /\ work'[w][k].call <= calls'[k]
                        /\ There(k)' /\ row'[k].by = w =>
                              work'[w][k].call >= row'[k].moved /\ (row'[k].run = Later \/ row'[k].run \in arrived')
                        /\ There(k)' /\ ~work'[w][k].late /\ work'[w][k].call >= row'[k].moved =>
                              row'[k].by = w /\ row'[k].leased
      BY DEF HoldInv
    <2>1. /\ k \in DOMAIN work[w] /\ k \in Keys
          /\ work'[w][k].call = work[w][k].call /\ (work[w][k].late => work'[w][k].late)
      BY <1>1, Facts DEF Goes
    <2> QED
      BY <1>1, <2>1 DEF HoldInv, There
  <1> QED
    BY <1>2, <1>3

\* A claim takes only what no firing in time and not overtaken by a move has.
LEMMA InvClaims == ASSUME Inv, NEW w \in Workers, Claim(w) PROVE RowInv' /\ HoldInv'
  <1>1. TypeInv /\ RowInv /\ HoldInv
    BY DEF Inv
  <1>2. PICK B \in Batches : ClaimsBatch(w, B)
    BY DEF Claim, ClaimsBatch
  <1>3. UNCHANGED <<calls, arrived>>
    BY DEF Claim
  <1>4. RowInv'
    BY <1>1, <1>2, <1>3, Claims DEF RowInv, There
  <1>5. HoldInv'
    <2> SUFFICES ASSUME NEW x \in Workers, NEW k \in DOMAIN work'[x]
                 PROVE  /\ work'[x][k].call <= calls[k]
                        /\ There(k)' /\ row'[k].by = x =>
                              work'[x][k].call >= row'[k].moved /\ (row'[k].run = Later \/ row'[k].run \in arrived)
                        /\ There(k)' /\ ~work'[x][k].late /\ work'[x][k].call >= row'[k].moved =>
                              row'[k].by = x /\ row'[k].leased
      BY <1>3 DEF HoldInv
    <2>1. CASE x = w
      <3>1. k \in B /\ k \in Keys /\ Due(k) /\ There(k) /\ work'[w][k].call = row[k].call
        BY <1>1, <1>2, <2>1, Claims DEF Due
      <3>2. row'[k].by = w /\ row'[k].leased /\ row'[k].moved = row[k].moved /\ row'[k].run = row[k].run
        BY <1>1, <1>2, <3>1, Claims
      <3>3. row[k].run = Later \/ row[k].run \in arrived
        BY <1>1, <3>1 DEF RowInv, Due, Arrived
      <3>4. row[k].call <= calls[k] /\ row[k].moved <= row[k].call
        BY <1>1, <3>1 DEF RowInv
      <3>5. row[k].call \in Nat /\ row[k].moved \in Nat
        BY <1>1, <3>1, Facts
      <3> QED
        BY <2>1, <3>1, <3>2, <3>3, <3>4, <3>5
    <2>2. CASE x # w
      <3>1. work'[x] = work[x] /\ k \in DOMAIN work[x] /\ k \in Keys
        BY <1>1, <1>2, <2>2, Claims, Facts
      <3>2. CASE k \in B
        <4>1. There(k) /\ ~row[k].leased
          BY <1>1, <1>2, <3>2, Claims DEF Due
        <4>2. row'[k].by = w /\ row'[k].moved = row[k].moved
          BY <1>1, <1>2, <3>1, <3>2, <4>1, Claims
        <4> QED
          BY <1>1, <2>2, <3>1, <4>1, <4>2 DEF HoldInv
      <3>3. CASE k \notin B /\ row[k].by # w
        <4>1. row'[k] = row[k]
          BY <1>1, <1>2, <3>1, <3>3, Claims
        <4> QED
          BY <1>1, <3>1, <4>1 DEF HoldInv, There
      <3>4. CASE k \notin B /\ row[k].by = w
        <4>1. ~There(k) => ~There(k)'
          BY <1>1, <1>2, <3>1, Claims DEF There
        <4>2. There(k) => row'[k].by = Orphan /\ row'[k].moved = row[k].moved
          BY <1>1, <1>2, <3>1, <3>4, Claims
        <4> QED
          BY <1>1, <2>2, <3>1, <3>4, <4>1, <4>2, Constants DEF HoldInv
      <3> QED
        BY <3>2, <3>3, <3>4
    <2> QED
      BY <2>1, <2>2
  <1> QED
    BY <1>4, <1>5

\* An outcome is written of the firing that the row names, which leaves the
\* batch with it.
LEMMA InvOutcomes == ASSUME Inv, NEW w \in Workers, complete(w) \/ release(w) PROVE RowInv' /\ HoldInv'
  <1>1. TypeInv /\ RowInv /\ HoldInv
    BY DEF Inv
  <1>2. Goes /\ UNCHANGED <<calls, arrived>>
    BY <1>1, Completes, Releases
  <1>3. ASSUME NEW k \in Keys, row'[k] # row[k]
        PROVE  /\ There(k) /\ row[k].by = w /\ k \in DOMAIN work[w] /\ k \notin DOMAIN work'[w]
               /\ row'[k].by = Nobody /\ row'[k].call = row[k].call /\ row'[k].moved = row[k].moved
               /\ \/ row'[k].fired /\ row'[k].done = work[w][k].call /\ row'[k].run = row[k].run
                     /\ row'[k].arrived = row[k].arrived
                  \/ ~row'[k].fired /\ ~row'[k].arrived
    <2>1. CASE complete(w)
      BY <1>1, <1>3, <2>1, Completes DEF Firings
    <2>2. CASE release(w)
      BY <1>1, <1>3, <2>2, Releases DEF Firings
    <2> QED
      BY <2>1, <2>2
  <1>4. RowInv'
    <2> SUFFICES ASSUME NEW k \in Keys, There(k)'
                 PROVE  /\ row'[k].moved <= row'[k].call /\ row'[k].call <= calls[k]
                        /\ row'[k].arrived => row'[k].run = Later
                        /\ row'[k].fired =>
                              row'[k].done >= row'[k].moved /\ (row'[k].run = Later \/ row'[k].run \in arrived)
      BY <1>2 DEF RowInv
    <2>1. CASE row'[k] = row[k]
      BY <1>1, <2>1 DEF RowInv, There
    <2>2. CASE row'[k] # row[k]
      BY <1>1, <1>3, <2>2 DEF RowInv, HoldInv
    <2> QED
      BY <2>1, <2>2
  <1>5. HoldInv'
    <2> SUFFICES ASSUME NEW x \in Workers, NEW k \in DOMAIN work'[x]
                 PROVE  /\ work'[x][k].call <= calls[k]
                        /\ There(k)' /\ row'[k].by = x =>
                              work'[x][k].call >= row'[k].moved /\ (row'[k].run = Later \/ row'[k].run \in arrived)
                        /\ There(k)' /\ ~work'[x][k].late /\ work'[x][k].call >= row'[k].moved =>
                              row'[k].by = x /\ row'[k].leased
      BY <1>2 DEF HoldInv
    <2>1. /\ k \in DOMAIN work[x] /\ k \in Keys
          /\ work'[x][k].call = work[x][k].call /\ (work[x][k].late => work'[x][k].late)
      BY <1>1, <1>2, Facts DEF Goes
    <2>2. CASE row'[k] = row[k]
      BY <1>1, <2>1, <2>2 DEF HoldInv, There
    <2>3. CASE row'[k] # row[k]
      BY <1>1, <1>3, <2>1, <2>3, Constants DEF HoldInv
    <2> QED
      BY <2>2, <2>3
  <1> QED
    BY <1>4, <1>5

LEMMA StaysGoes == ASSUME TypeInv, UNCHANGED work PROVE Goes
  BY DEF TypeInv, TTypeOK, Goes

LEMMA InvNext == Inv /\ [Next]_vars => Inv'
  <1> SUFFICES ASSUME Inv, [Next]_vars PROVE RowInv' /\ HoldInv'
    BY TypeNext DEF Inv
  <1>1. TypeInv
    BY DEF Inv
  <1>2. CASE UNCHANGED vars
    BY <1>1, <1>2, StaysGoes, InvGoes DEF vars
  <1>3. ASSUME NEW k \in Keys, Cancel(k) PROVE RowInv' /\ HoldInv'
    <2>1. Goes
      BY <1>1, <1>3, StaysGoes DEF Cancel
    <2>2. \A l \in Keys : row'[l] = row[l] \/ row'[l] = NoRow
      BY <1>1, <1>3 DEF Cancel, TypeInv, TTypeOK
    <2> QED
      BY <1>3, <2>1, <2>2, InvGoes DEF Cancel
  <1>4. ASSUME NEW k \in Keys, ArriveLater(k) PROVE RowInv' /\ HoldInv'
    <2>1. Goes
      BY <1>1, <1>4, StaysGoes DEF ArriveLater
    <2> QED
      BY <1>1, <1>4, <2>1, Arrivals, InvGoes
  <1>5. ASSUME NEW k \in Keys, Lapse(k) PROVE RowInv' /\ HoldInv'
    <2>1. row'[k].arrived => row'[k].run = Later
      BY <1>1, <1>5, Lapses DEF Inv, RowInv
    <2> QED
      BY <1>1, <1>5, <2>1, Lapses, InvGoes
  <1>6. ASSUME NEW i \in Instants, Arrive(i) PROVE RowInv' /\ HoldInv'
    <2>1. Goes
      BY <1>1, <1>6, StaysGoes DEF Arrive
    <2> QED
      BY <1>6, <2>1, InvGoes DEF Arrive
  <1>7. ASSUME NEW w \in Workers,
               \/ \E k \in Keys : dispatch(w, k) \/ handle(w, k)
               \/ shutdown(w) \/ completeFails(w) \/ releaseFails(w) \/ Crash(w)
        PROVE  RowInv' /\ HoldInv'
    BY <1>1, <1>7, BatchSteps, InvGoes
  <1>8. CASE reapSelect \/ reapDelete \/ Reap
    <2>1. Goes
      BY <1>1, <1>8, StaysGoes, Reaps
    <2> QED
      BY <1>1, <1>8, <2>1, Reaps, InvGoes
  <1> QED
    BY <1>2, <1>3, <1>4, <1>5, <1>6, <1>7, <1>8, InvSchedules, InvClaims, InvOutcomes DEF Next, Pass

\* A timer that was moved while it was being fired stands: no firing of an
\* earlier schedule marks it fired, however late its Complete.
THEOREM MovedStands == Spec => []MovedTimerStands
  <1>1. Inv => MovedTimerStands
    BY DEF Inv, RowInv, MovedTimerStands, Fired
  <1> QED
    BY <1>1, InvInit, InvNext, PTL DEF Spec

\* Two workers run the handler of one timer at once only if it was moved in
\* between or one of them has outlived its lease.
THEOREM FiresAlone == Spec => []OneFirer
  <1>1. Inv => OneFirer
    BY DEF Inv, HoldInv, OneFirer, Firings
  <1> QED
    BY <1>1, InvInit, InvNext, PTL DEF Spec

\* A firing's outcome is written by the claim that holds the row, and says
\* what its handler returned.
THEOREM HolderWrites == Spec => HolderDecides
  <1> DEFINE A == \A k \in Keys :
                     There(k) /\ row[k].by # Nobody /\ row'[k] # NoRow /\ row'[k].by = Nobody
                         /\ row'[k].call = row[k].call
                     => /\ row[k].by \in Workers /\ k \in DOMAIN work[row[k].by]
                        /\ work[row[k].by][k].st = IF row'[k].fired THEN "fired" ELSE "failed"
  <1>1. Inv /\ [Next]_vars => [A]_vars
    <2> SUFFICES ASSUME Inv, Next, NEW k \in Keys, There(k), row[k].by # Nobody,
                        row'[k] # NoRow, row'[k].by = Nobody, row'[k].call = row[k].call
                 PROVE  /\ row[k].by \in Workers /\ k \in DOMAIN work[row[k].by]
                        /\ work[row[k].by][k].st = IF row'[k].fired THEN "fired" ELSE "failed"
      OBVIOUS
    <2>1. TypeInv /\ row'[k] # row[k]
      BY DEF Inv
    <2>2. ASSUME NEW w \in Workers, complete(w) \/ release(w)
          PROVE  /\ row[k].by \in Workers /\ k \in DOMAIN work[row[k].by]
                 /\ work[row[k].by][k].st = IF row'[k].fired THEN "fired" ELSE "failed"
      BY <2>1, <2>2, Completes, Releases DEF Firings
    <2>3. ASSUME NEW l \in Keys, NEW i \in Instants, Schedule(l, i) PROVE FALSE
      <3>1. l = k
        BY <2>1, <2>3 DEF Schedule, TypeInv, TTypeOK
      <3>2. row'[k].call = calls[k] + 1 /\ row[k].call <= calls[k]
        BY <2>1, <2>3, <3>1, Schedules DEF Inv, RowInv
      <3> QED
        BY <2>1, <3>2, Facts
    <2>4. ASSUME NEW l \in Keys, Cancel(l) \/ ArriveLater(l) \/ Lapse(l) PROVE FALSE
      <3>1. CASE Cancel(l)
        BY <2>1, <3>1 DEF Cancel, TypeInv, TTypeOK
      <3>2. CASE ArriveLater(l)
        BY <2>1, <3>2, Arrivals
      <3>3. CASE Lapse(l)
        BY <2>1, <3>3, Lapses
      <3> QED
        BY <2>4, <3>1, <3>2, <3>3
    <2>5. ASSUME NEW w \in Workers, Claim(w) PROVE FALSE
      <3>1. PICK B \in Batches : ClaimsBatch(w, B)
        BY <2>5 DEF Claim, ClaimsBatch
      <3> QED
        BY <2>1, <3>1, Claims, Constants
    <2>6. ASSUME NEW w \in Workers,
                 \/ \E l \in Keys : dispatch(w, l) \/ handle(w, l)
                 \/ shutdown(w) \/ completeFails(w) \/ releaseFails(w) \/ Crash(w)
          PROVE  FALSE
      BY <2>1, <2>6, BatchSteps
    <2>7. CASE reapSelect \/ reapDelete \/ Reap
      BY <2>1, <2>7, Reaps
    <2>8. ASSUME NEW i \in Instants, Arrive(i) PROVE FALSE
      BY <2>1, <2>8 DEF Arrive
    <2> QED
      BY <2>2, <2>3, <2>4, <2>5, <2>6, <2>7, <2>8 DEF Next, Pass
  <1>2. HolderDecides <=> [][A]_vars
    BY DEF HolderDecides
  <1> HIDE DEF A
  <1> QED
    BY <1>1, <1>2, InvInit, InvNext, PTL DEF Spec

\* A timer that has not fired is deleted by Cancel and by nothing else: one
\* restarted between a reaper's read and its delete survives.
THEOREM OnlyFiredGo == Spec => OnlyFiredReaped
  <1> DEFINE A == \A k \in Keys : There(k) /\ row'[k] = NoRow => row[k].fired \/ Cancel(k)
  <1>1. TypeInv /\ [Next]_vars => [A]_vars
    <2> SUFFICES ASSUME TypeInv, Next, NEW k \in Keys, There(k), row'[k] = NoRow, ~Cancel(k)
                 PROVE  row[k].fired
      OBVIOUS
    <2>1. row'[k] # row[k] /\ row'[k] \notin Records
      BY Constants DEF There
    <2>2. ASSUME NEW l \in Keys, Cancel(l) PROVE FALSE
      BY <2>1, <2>2 DEF Cancel, TypeInv, TTypeOK
    <2>3. ASSUME NEW l \in Keys, NEW i \in Instants, Schedule(l, i) PROVE FALSE
      <3>1. l = k
        BY <2>1, <2>3 DEF Schedule, TypeInv, TTypeOK
      <3> QED
        BY <2>1, <2>3, <3>1, Schedules
    <2>4. ASSUME NEW l \in Keys, ArriveLater(l) \/ Lapse(l) PROVE FALSE
      BY <2>1, <2>4, Arrivals, Lapses
    <2>5. ASSUME NEW w \in Workers, Claim(w) PROVE FALSE
      <3>1. PICK B \in Batches : ClaimsBatch(w, B)
        BY <2>5 DEF Claim, ClaimsBatch
      <3> QED
        BY <2>1, <3>1, Claims
    <2>6. ASSUME NEW w \in Workers, complete(w) \/ release(w) PROVE FALSE
      BY <2>1, <2>6, Completes, Releases
    <2>7. ASSUME NEW w \in Workers,
                 \/ \E l \in Keys : dispatch(w, l) \/ handle(w, l)
                 \/ shutdown(w) \/ completeFails(w) \/ releaseFails(w) \/ Crash(w)
          PROVE  FALSE
      BY <2>1, <2>7, BatchSteps
    <2>8. ASSUME NEW i \in Instants, Arrive(i) PROVE FALSE
      BY <2>1, <2>8 DEF Arrive
    <2>9. CASE reapSelect \/ reapDelete \/ Reap
      BY <2>1, <2>9, Reaps
    <2> QED
      BY <2>2, <2>3, <2>4, <2>5, <2>6, <2>7, <2>8, <2>9 DEF Next, Pass
  <1>2. OnlyFiredReaped <=> [][A]_vars
    BY DEF OnlyFiredReaped
  <1> HIDE DEF A
  <1> QED
    BY <1>1, <1>2, TypeInit, TypeNext, PTL DEF Spec
====================
