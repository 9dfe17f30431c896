------------------------------ MODULE WorkQueue ------------------------------
(***************************************************************************)
(* The durable, lease-based work queue of src/workqueue: one logical queue *)
(* (Config.Name) of the table work_queue_items, the group-commit batcher   *)
(* in front of Enqueue, and every operation of Queue.  Each operation      *)
(* commits as one statement (Postgres) or as one transaction under row     *)
(* locks (MySQL, SQLite), so each is one action.                           *)
(*                                                                         *)
(* The callers are left open: the Items a Claim handed out may be worked,  *)
(* extended, completed or released at any later time, any number of times, *)
(* by a process that is slow, paused or long past its lease.  The loop     *)
(* that this package ships around these operations is in WorkQueueRunner.  *)
(*                                                                         *)
(* Every instant is read off the database's clock, `now'; 0 is the epoch.  *)
(* enqueued_at and last_error are written and never read back by any       *)
(* operation, and are left out.                                            *)
(***************************************************************************)
EXTENDS Integers, FiniteSets

CONSTANTS
    Keys,           \* encoded item keys; the table orders them, so numbers
    Priorities,     \* the priorities callers enqueue with
    Delays,         \* the delays callers enqueue and release with
    Leases,         \* the lease durations callers claim and extend with
    Limits,         \* the limits callers claim with
    MaxAttempts,    \* Config.MaxAttempts; 0 is unlimited
    MaxClaimBatch,  \* Config.MaxClaimBatch
    ReapBatchSize,  \* Config.ReapBatchSize
    Retention,      \* Config.Retention
    MaxClaims,      \* bound: how many claims are ever made
    MaxTime         \* bound: how far the clock runs

ASSUME WorkQueueAssumption ==
    /\ Keys \subseteq Nat
    /\ Priorities \subseteq Int
    /\ Delays \subseteq Int
    /\ Leases \subseteq Int
    /\ Limits \subseteq Int
    /\ MaxAttempts \in Nat
    /\ MaxClaimBatch \in Nat \ {0}
    /\ ReapBatchSize \in Nat \ {0}
    /\ Retention \in Nat
    /\ MaxClaims \in Nat
    /\ MaxTime \in Nat

VARIABLES
    now,        \* the database's clock
    items,      \* the table: the row of each key
    pending,    \* the batcher: the merged entry waiting for the next flush
    nextName,   \* the name the next claim will mint
    issued,     \* by claim name: the keys of the Items handed to its caller
    until,      \* by claim name and key: the lease its caller counts on, or 0
    worked,     \* by claim name: the keys whose work its caller has done
    severed,    \* history: the keys Removed from under the claim
    handed,     \* history: claims of the key since it was last restarted
    latest      \* history: the last claim to lease the key, or 0

vars == <<now, items, pending, nextName, issued, until, worked, severed, handed, latest>>

-----------------------------------------------------------------------------
Names == 1 .. MaxClaims

Rows == [stored: BOOLEAN, priority: Int, attempts: Nat, available: Nat,
         lease: Nat, holder: Nat, completed: Nat]

Entries == [waiting: BOOLEAN, priority: Int, delay: Nat]

NoRow == [stored |-> FALSE, priority |-> 0, attempts |-> 0, available |-> 0,
          lease |-> 0, holder |-> 0, completed |-> 0]

NoEntry == [waiting |-> FALSE, priority |-> 0, delay |-> 0]

Larger(a, b) == IF a >= b THEN a ELSE b
Smaller(a, b) == IF a <= b THEN a ELSE b

Outstanding(row) == row.stored /\ row.completed = 0

Init ==
    /\ now = 1
    /\ items = [k \in Keys |-> NoRow]
    /\ pending = [k \in Keys |-> NoEntry]
    /\ nextName = 1
    /\ issued = [n \in Names |-> {}]
    /\ until = [n \in Names |-> [k \in Keys |-> 0]]
    /\ worked = [n \in Names |-> {}]
    /\ severed = [n \in Names |-> {}]
    /\ handed = [k \in Keys |-> 0]
    /\ latest = [k \in Keys |-> 0]

-----------------------------------------------------------------------------
(* Enqueue: entries join the batch, and the batch lands as one upsert.     *)

\* Mutant: the batch keeps the later of two delays.
mergeEntriesLater(existing, incoming) ==
    [existing EXCEPT !.priority = Larger(@, incoming.priority),
                     !.delay = Larger(@, incoming.delay)]

mergeEntries(existing, incoming) ==
    [existing EXCEPT !.priority = Larger(@, incoming.priority),
                     !.delay = Smaller(@, incoming.delay)]

\* Mutant: every enqueue restarts the attempt count.
UpsertRestarts(row, entry, t) ==
    [row EXCEPT !.stored = TRUE,
                !.priority = Larger(@, entry.priority),
                !.available = IF Outstanding(row) THEN Smaller(@, t + entry.delay)
                                                  ELSE t + entry.delay,
                !.attempts = 0,
                !.completed = 0]

\* What the ON CONFLICT clause makes of one entry at instant t.
Upsert(row, entry, t) ==
    IF ~row.stored
    THEN [NoRow EXCEPT !.stored = TRUE,
                       !.priority = entry.priority,
                       !.available = t + entry.delay]
    ELSE [row EXCEPT !.priority = Larger(@, entry.priority),
                     !.available = IF row.completed = 0
                                   THEN Smaller(@, t + entry.delay)
                                   ELSE t + entry.delay,
                     !.attempts = IF row.completed = 0 THEN @ ELSE 0,
                     !.completed = 0]

\* Mutant: a negative delay is not clamped.
EnqueueUnclamped(k, priority, delay) ==
    /\ pending' = [pending EXCEPT ![k] =
                      [waiting |-> TRUE, priority |-> priority, delay |-> delay]]
    /\ UNCHANGED <<now, items, nextName, issued, until, worked, severed, handed, latest>>

Enqueue(k, priority, delay) ==
    LET entry == [waiting |-> TRUE, priority |-> priority, delay |-> Larger(delay, 0)]
    IN  /\ pending' = [pending EXCEPT ![k] =
                          IF @.waiting THEN mergeEntries(@, entry) ELSE entry]
        /\ UNCHANGED <<now, items, nextName, issued, until, worked, severed, handed, latest>>

\* The batcher's write.
upsert ==
    LET batch == {k \in Keys : pending[k].waiting}
    IN  /\ batch # {}
        /\ items' = [k \in Keys |-> IF k \in batch
                                    THEN Upsert(items[k], pending[k], now)
                                    ELSE items[k]]
        /\ handed' = [k \in Keys |-> IF k \in batch /\ ~Outstanding(items[k])
                                     THEN 0 ELSE handed[k]]
        /\ pending' = [k \in Keys |-> NoEntry]
        /\ UNCHANGED <<now, nextName, issued, until, worked, severed, latest>>

\* The write fails for good, or the process dies holding the batch: every
\* waiter gets an error, or is gone.
UpsertFails ==
    /\ \E k \in Keys : pending[k].waiting
    /\ pending' = [k \in Keys |-> NoEntry]
    /\ UNCHANGED <<now, items, nextName, issued, until, worked, severed, handed, latest>>

-----------------------------------------------------------------------------
(* Claim.                                                                  *)

\* Mutant: a leased row is due.
DueLeased(row) ==
    /\ Outstanding(row)
    /\ row.available <= now
    /\ MaxAttempts <= 0 \/ row.attempts < MaxAttempts

Due(row) ==
    /\ Outstanding(row)
    /\ row.lease <= now
    /\ row.available <= now
    /\ MaxAttempts <= 0 \/ row.attempts < MaxAttempts

\* ORDER BY priority DESC, available_at, item_key
Before(j, k) ==
    LET a == items[j]
        b == items[k]
    IN  \/ a.priority > b.priority
        \/ a.priority = b.priority /\ a.available < b.available
        \/ a.priority = b.priority /\ a.available = b.available /\ j < k

\* The first `limit' due rows among those no concurrent transaction has
\* locked: the LIMIT applies above SKIP LOCKED.
DueBatch(limit, locked) ==
    LET free == {k \in Keys \ locked : Due(items[k])}
    IN  {k \in free : Cardinality({j \in free : Before(j, k)}) < limit}

ClaimLimit(limit) ==
    IF limit <= 0 \/ limit > MaxClaimBatch THEN MaxClaimBatch ELSE limit

Leased(row, name, lease) ==
    [row EXCEPT !.lease = now + lease, !.holder = name, !.attempts = @ + 1]

\* The claim statement, under a name of its own.
LeaseBatch(batch, lease) ==
    /\ lease > 0
    /\ nextName \in Names
    /\ batch # {}
    /\ items' = [k \in Keys |-> IF k \in batch
                                THEN Leased(items[k], nextName, lease)
                                ELSE items[k]]
    /\ handed' = [k \in Keys |-> IF k \in batch THEN handed[k] + 1 ELSE handed[k]]
    /\ latest' = [k \in Keys |-> IF k \in batch THEN nextName ELSE latest[k]]
    /\ nextName' = nextName + 1

Claim(limit, lease, locked) ==
    LET batch == DueBatch(ClaimLimit(limit), locked)
    IN  /\ LeaseBatch(batch, lease)
        /\ issued' = [issued EXCEPT ![nextName] = batch]
        /\ until' = [until EXCEPT ![nextName] =
                        [k \in Keys |-> IF k \in batch THEN now + lease ELSE 0]]
        /\ UNCHANGED <<now, pending, worked, severed>>

\* A claim that commits and whose rows reach nobody: an attempt whose answer
\* was lost before a retry, a batch that would not decode, a process that
\* died.  The rows stay leased under a name no Item carries.
ClaimLost(limit, lease, locked) ==
    /\ LeaseBatch(DueBatch(ClaimLimit(limit), locked), lease)
    /\ UNCHANGED <<now, pending, issued, until, worked, severed>>

-----------------------------------------------------------------------------
(* What a claim's caller reports.                                          *)

\* Mutant: a row is addressed by its key alone.
MatchesKey(row, name) == row.stored

\* A row is addressed by its key and the claim holding it together.
Matches(row, name) == row.stored /\ row.holder = name

\* The caller's own work, between the claim and the report.
Work(name, k) ==
    /\ k \in issued[name] \ worked[name]
    /\ worked' = [worked EXCEPT ![name] = @ \cup {k}]
    /\ UNCHANGED <<now, items, pending, nextName, issued, until, severed, handed, latest>>

\* Mutant: an extension may pull a lease in.
ExtendedShort(row, lease) == [row EXCEPT !.lease = now + lease]

Extended(row, lease) == [row EXCEPT !.lease = Larger(@, now + lease)]

Extend(name, ks, lease) ==
    LET held == {k \in ks : Matches(items[k], name) /\ items[k].completed = 0}
    IN  /\ lease > 0
        /\ items' = [k \in Keys |-> IF k \in held
                                    THEN Extended(items[k], lease)
                                    ELSE items[k]]
        /\ until' = [until EXCEPT ![name] = [k \in Keys |->
                        IF k \in held THEN Larger(@[k], now + lease) ELSE @[k]]]
        /\ UNCHANGED <<now, pending, nextName, issued, worked, severed, handed, latest>>

\* Once it has reported, a caller no longer counts on its lease.
GivesUp(name, ks) ==
    until' = [until EXCEPT ![name] = [k \in Keys |-> IF k \in ks THEN 0 ELSE @[k]]]

Completed(row) == [row EXCEPT !.completed = now, !.lease = 0, !.holder = 0]

Complete(name, ks) ==
    /\ items' = [k \in Keys |-> IF k \in ks /\ Matches(items[k], name)
                                THEN Completed(items[k])
                                ELSE items[k]]
    /\ GivesUp(name, ks)
    /\ UNCHANGED <<now, pending, nextName, issued, worked, severed, handed, latest>>

Released(row, delay) ==
    [row EXCEPT !.lease = 0, !.holder = 0, !.available = now + Larger(delay, 0)]

Release(name, ks, delay) ==
    /\ items' = [k \in Keys |->
                    IF k \in ks /\ Matches(items[k], name) /\ items[k].completed = 0
                    THEN Released(items[k], delay)
                    ELSE items[k]]
    /\ GivesUp(name, ks)
    /\ UNCHANGED <<now, pending, nextName, issued, worked, severed, handed, latest>>

-----------------------------------------------------------------------------
(* The operator's writes, and the reaper.                                  *)

Remove(ks) ==
    /\ items' = [k \in Keys |-> IF k \in ks THEN NoRow ELSE items[k]]
    /\ severed' = [n \in Names |-> severed[n] \cup {k \in ks : items[k].holder = n}]
    /\ handed' = [k \in Keys |-> IF k \in ks THEN 0 ELSE handed[k]]
    /\ UNCHANGED <<now, pending, nextName, issued, until, worked, latest>>

Requeued(row) == [row EXCEPT !.attempts = 0, !.available = now]

Requeue(ks) ==
    LET revived == {k \in ks : Outstanding(items[k])}
    IN  /\ items' = [k \in Keys |-> IF k \in revived
                                    THEN Requeued(items[k])
                                    ELSE items[k]]
        /\ handed' = [k \in Keys |-> IF k \in revived THEN 0 ELSE handed[k]]
        /\ UNCHANGED <<now, pending, nextName, issued, until, worked, severed, latest>>

Reapable(row) == row.stored /\ row.completed > 0 /\ row.completed < now - Retention

\* One pass of the reaper: SKIP LOCKED below a limit, so any small batch.
Reap(doomed) ==
    /\ doomed # {}
    /\ \A k \in doomed : Reapable(items[k])
    /\ Cardinality(doomed) <= ReapBatchSize
    /\ items' = [k \in Keys |-> IF k \in doomed THEN NoRow ELSE items[k]]
    /\ UNCHANGED <<now, pending, nextName, issued, until, worked, severed, handed, latest>>

Tick ==
    /\ now < MaxTime
    /\ now' = now + 1
    /\ UNCHANGED <<items, pending, nextName, issued, until, worked, severed, handed, latest>>

\* A call that names no item returns before it reaches the database.
Some(S) == (SUBSET S) \ {{}}

Next ==
    \/ \E k \in Keys, p \in Priorities, d \in Delays : Enqueue(k, p, d)
    \/ upsert
    \/ UpsertFails
    \/ \E limit \in Limits, lease \in Leases, locked \in SUBSET Keys :
          Claim(limit, lease, locked) \/ ClaimLost(limit, lease, locked)
    \/ \E n \in Names, k \in Keys : Work(n, k)
    \/ \E n \in Names : \E ks \in Some(issued[n]), lease \in Leases : Extend(n, ks, lease)
    \/ \E n \in Names : \E ks \in Some(worked[n]) : Complete(n, ks)
    \/ \E n \in Names : \E ks \in Some(issued[n]), d \in Delays : Release(n, ks, d)
    \/ \E ks \in Some(Keys) : Remove(ks)
    \/ \E ks \in Some(Keys) : Requeue(ks)
    \/ \E doomed \in SUBSET Keys : Reap(doomed)
    \/ Tick

Spec == Init /\ [][Next]_vars

-----------------------------------------------------------------------------
(* Properties.                                                             *)

\* The job a row stands for: a lapsed lease nobody took is still held.
JobOf(row) ==
    CASE ~row.stored -> "absent"
      [] row.stored /\ row.completed > 0 -> "done"
      [] Outstanding(row) /\ row.holder # 0 -> "held"
      [] Outstanding(row) /\ row.holder = 0 -> "waiting"

Fenced == INSTANCE FencedQueue WITH
            job <- [k \in Keys |-> JobOf(items[k])],
            owner <- [k \in Keys |-> items[k].holder],
            next <- nextName

\* The queue implements the untimed contract: names are never reused, only
\* the name on the row settles it, and a completed item restarts only through
\* Enqueue.
ImplementsFencedQueue == Fenced!FSpec

\* The table, the batch and the claims keep their types: no instant is before
\* the epoch, whatever delays callers pass, and every claim is named once.
TypeOK ==
    /\ now \in Nat \ {0}
    /\ items \in [Keys -> Rows]
    /\ pending \in [Keys -> Entries]
    /\ nextName \in Nat \ {0}
    /\ issued \in [Names -> SUBSET Keys]
    /\ until \in [Names -> [Keys -> Nat]]
    /\ worked \in [Names -> SUBSET Keys]
    /\ severed \in [Names -> SUBSET Keys]
    /\ handed \in [Keys -> Nat]
    /\ latest \in [Keys -> Nat]

\* A caller still inside the lease it counts on holds the item: its name is
\* on the row, the row is outstanding, and the row's lease reaches at least as
\* far as the caller believes, whatever other claims, stragglers, enqueues and
\* requeues have done since (Claim's lease test, Extend's GREATEST, and the
\* leased_by match of Complete and Release).  Only Remove severs it.
LeaseHonoured ==
    \A n \in Names, k \in Keys :
        until[n][k] > now /\ k \notin severed[n] =>
            /\ Outstanding(items[k])
            /\ items[k].holder = n
            /\ items[k].lease >= until[n][k]

\* Two callers are never both inside a lease on one item (unless an operator
\* removed it from under one of them).
LeaseExclusive ==
    \A m, n \in Names, k \in Keys :
        /\ until[m][k] > now /\ k \notin severed[m]
        /\ until[n][k] > now /\ k \notin severed[n]
        => m = n

\* An item recorded as completed was worked by the last claim that leased it:
\* a straggler's late Complete never retires an item a second worker is still
\* working on (workqueue/doc.go, "What is not a price is the item being
\* recorded wrong").
CompletedByLatest ==
    \A k \in Keys : items[k].completed > 0 =>
        latest[k] \in Names /\ k \in worked[latest[k]]

\* The attempt ceiling is a ceiling: an item is never claimed more than
\* MaxAttempts times without a Requeue, a completion followed by a new
\* Enqueue, or a Remove in between, however often it is enqueued again,
\* released or left to lapse.
CeilingHolds ==
    MaxAttempts > 0 => \A k \in Keys : handed[k] <= MaxAttempts

\* The facts the two properties above need to be inductive: names not yet
\* minted have been given to nobody; a completed or absent row is unleased; the
\* name on a row is the last claim's; the attempts column counts the claims.
NamesFresh ==
    /\ \A n \in Names : n >= nextName =>
          issued[n] = {} /\ \A k \in Keys : until[n][k] = 0
    /\ \A k \in Keys : items[k].holder < nextName /\ items[k].holder \in {0} \cup Names

SettledUnleased ==
    \A k \in Keys : ~Outstanding(items[k]) =>
        items[k].holder = 0 /\ items[k].lease = 0 /\ (~items[k].stored => items[k].completed = 0)

HolderIsLatest ==
    \A k \in Keys : items[k].holder # 0 => items[k].holder = latest[k]

AttemptsCounted ==
    \A k \in Keys : items[k].stored => handed[k] = items[k].attempts

IndInv ==
    /\ TypeOK
    /\ NamesFresh
    /\ SettledUnleased
    /\ HolderIsLatest
    /\ AttemptsCounted
    /\ LeaseHonoured
    /\ CompletedByLatest
    /\ CeilingHolds

\* mergeEntries agrees with the ON CONFLICT clause on every row the table can
\* hold: folding two entries into one flush leaves the row two flushes at the
\* same instant would.
MergeAgrees ==
    \A k \in Keys, p \in Priorities, d \in Delays :
        pending[k].waiting =>
            LET next == [waiting |-> TRUE, priority |-> p, delay |-> Larger(d, 0)]
            IN  Upsert(Upsert(items[k], pending[k], now), next, now)
                    = Upsert(items[k], mergeEntries(pending[k], next), now)
=============================================================================
