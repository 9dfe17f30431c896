------------------------------- MODULE Outbox -------------------------------
(***************************************************************************)
(* The transactional outbox: rows written on the caller's transaction      *)
(* (src/outbox/outbox.go) and a fleet of relays that claim, publish and    *)
(* retire them (src/outbox/relay.go, outbox/internal/queries).             *)
(*                                                                         *)
(* Messages are numbered by id.  A message takes its created_at when it is *)
(* enqueued and becomes visible when its transaction commits, so a message *)
(* may appear behind one that was stamped after it.                        *)
(*                                                                         *)
(* A claim's name is minted per claim.  The rows of a relay's current      *)
(* claim carry the relay; those of a claim nobody speaks for any more      *)
(* carry Orphan.  Time is counted down; a relay overtaken by time in the   *)
(* middle of a cycle (paused, or slow) is one of the faults.               *)
(***************************************************************************)
EXTENDS Naturals, FiniteSets

CONSTANTS
    Messages,       \* ids
    Keyings,        \* the ways to give the messages keys, "" for none
    Created,        \* created_at, one instant per Enqueue
    Transactions,   \* which messages commit together
    Relays,
    BatchSize, LeaseDuration, Backoff,
    MaxAttempts,    \* Backoff.MaxAttempts
    MaxSkew,        \* how far a writer's clock may run ahead of the relays'
    MaxFaults,      \* bound: crashes, pauses, failed writes
    MaxReleases,    \* bound: operator releases
    Nobody, Orphan

ASSUME OutboxAssumption ==
    /\ Messages \subseteq Nat
    /\ \A key \in Keyings : DOMAIN key = Messages
    /\ Created \in [Messages -> Nat]
    /\ UNION Transactions = Messages
    /\ \A s, t \in Transactions : s # t => s \cap t = {}
    /\ {BatchSize, LeaseDuration, MaxAttempts, Backoff} \subseteq Nat \ {0}
    /\ {MaxSkew, MaxFaults, MaxReleases} \subseteq Nat
    /\ Nobody \notin Relays /\ Orphan \notin Relays /\ Nobody # Orphan

VARIABLES
    key,        \* Message.Key of each message
    row,        \* outbox_messages
    relay,      \* each relay's cycle
    faults, releases,
    broker,     \* history: the messages the broker has accepted
    gaveUp      \* history: the messages that were ever quarantined

vars == <<key, row, relay, faults, releases, broker, gaveUp>>

-----------------------------------------------------------------------------
\* "Earlier" is (created_at, id).
Earlier(m, n) == Created[m] < Created[n] \/ (Created[m] = Created[n] /\ m < n)
SameKey(m, n) == key[m] # "" /\ key[m] = key[n]

Idle == [pc |-> "idle", batch |-> {}, sent |-> {}, accepted |-> FALSE, unseen |-> {}]

Init ==
    /\ key \in Keyings
    /\ row = [m \in Messages |-> [st |-> "open", due |-> 0, lease |-> 0, by |-> Nobody, attempts |-> 0]]
    /\ relay = [r \in Relays |-> Idle]
    /\ faults = 0 /\ releases = 0
    /\ broker = {} /\ gaveUp = {}

\* Enqueue, EnqueueDerived: one insert per message on the caller's executor;
\* all of them are visible when that transaction commits, due at created_at.  A
\* transaction that rolls back is one that stays open for good.
Commit(tx, skew) ==
    /\ \A m \in tx : row[m].st = "open"
    /\ row' = [m \in Messages |-> IF m \in tx THEN [row[m] EXCEPT !.st = "pending", !.due = skew]
                                              ELSE row[m]]
    /\ UNCHANGED <<key, relay, faults, releases, broker, gaveUp>>

-----------------------------------------------------------------------------
(* claim: candidates by a read, then the ones of them that are still free. *)

\* claimableRowState.
FreeRow(m) == row[m].st = "pending" /\ row[m].due = 0 /\ row[m].lease = 0

\* Mutant: "earlier" is created_at alone.
ClaimableByStamp == {m \in Messages :
    FreeRow(m) /\ \A p \in Messages : SameKey(p, m) /\ Created[p] < Created[m] => row[p].st # "pending"}

\* Mutant: a quarantined message goes on blocking its key.
ClaimableBehindNone == {m \in Messages :
    FreeRow(m) /\ \A p \in Messages : SameKey(p, m) /\ Earlier(p, m) => row[p].st \notin {"pending", "quarantined"}}

\* selectClaimable: and no earlier message of its key is pending.
Claimable == {m \in Messages :
    FreeRow(m) /\ \A p \in Messages : SameKey(p, m) /\ Earlier(p, m) => row[p].st # "pending"}

Uncommitted == {m \in Messages : row[m].st = "open"}

\* Rows another relay has locked are passed over, so a batch is any of them.
selectClaimable(r, ids) ==
    /\ relay[r].pc = "idle"
    /\ ids \subseteq Claimable /\ ids # {} /\ Cardinality(ids) <= BatchSize
    /\ relay' = [relay EXCEPT ![r].pc = "selected", ![r].batch = ids, ![r].unseen = Uncommitted]
    /\ UNCHANGED <<key, row, faults, releases, broker, gaveUp>>

StillFree(r) == {m \in relay[r].batch : FreeRow(m)}

\* The rows of r's earlier claim carry a name nobody presents again.
Forgotten(r, m) == IF row[m].by = r THEN [row[m] EXCEPT !.by = Orphan] ELSE row[m]

\* Attempts are only compared with MaxAttempts, so they are counted up to it.
Count(n) == IF n < MaxAttempts THEN n + 1 ELSE n

Leased(r, by) ==
    row' = [m \in Messages |->
                IF m \in StillFree(r)
                THEN [row[m] EXCEPT !.lease = LeaseDuration, !.by = by, !.attempts = Count(@)]
                ELSE Forgotten(r, m)]

\* ClaimOutboxMessages and FetchClaimedOutboxMessages: lease what is free, read it back by name.
claim(r) ==
    /\ relay[r].pc = "selected"
    /\ Leased(r, r)
    /\ relay' = [relay EXCEPT
           ![r] = IF StillFree(r) = {} THEN Idle
                  ELSE [@ EXCEPT !.pc = "publishing", !.batch = StillFree(r)]]
    /\ UNCHANGED <<key, faults, releases, broker, gaveUp>>

\* The transaction rolls back, or commits and the answer is lost.
claimFails(r) ==
    /\ relay[r].pc = "selected" /\ faults < MaxFaults
    /\ Leased(r, Orphan) \/ row' = row
    /\ relay' = [relay EXCEPT ![r] = Idle]
    /\ faults' = faults + 1
    /\ UNCHANGED <<key, releases, broker, gaveUp>>

-----------------------------------------------------------------------------
(* publish: one message at a time, in order.                               *)

Publishing(r) == relay[r].pc = "publishing" /\ relay[r].batch # {}
Head(r) == CHOOSE m \in relay[r].batch : \A n \in relay[r].batch : m = n \/ Earlier(m, n)

\* The broker takes the message; the relay may never hear of it.
accept(r) ==
    /\ Publishing(r) /\ ~relay[r].accepted
    /\ broker' = broker \cup {Head(r)}
    /\ relay' = [relay EXCEPT ![r].accepted = TRUE]
    /\ UNCHANGED <<key, row, faults, releases, gaveUp>>

published(r) ==
    /\ Publishing(r) /\ relay[r].accepted
    /\ relay' = [relay EXCEPT ![r].batch = @ \ {Head(r)}, ![r].accepted = FALSE, ![r].sent = @ \cup {Head(r)}]
    /\ UNCHANGED <<key, row, faults, releases, broker, gaveUp>>

\* Mutant: the failure is recorded whoever holds the row.
AnyHolder(r, m) == row[m].st = "pending"
Holds(r, m) == row[m].by = r

\* RecordOutboxMessageFailure: the lease goes, the retry is scheduled, and the
\* message is quarantined once its attempts are spent.  While the claim is r's,
\* the count it read back is the row's.
Failed(m) ==
    [row[m] EXCEPT !.lease = 0, !.by = Nobody, !.due = Backoff,
                   !.st = IF row[m].attempts >= MaxAttempts THEN "quarantined" ELSE @]

\* The publish returned an error, whatever the broker did with it.
recordFailure(r) ==
    LET m == Head(r) IN
    /\ Publishing(r)
    /\ relay' = [relay EXCEPT ![r].batch = @ \ {m}, ![r].accepted = FALSE]
    /\ \/ /\ row' = IF Holds(r, m) THEN [row EXCEPT ![m] = Failed(m)] ELSE row
          /\ faults' = faults
       \/ row' = row /\ faults < MaxFaults /\ faults' = faults + 1
    /\ gaveUp' = IF row'[m].st = "quarantined" THEN gaveUp \cup {m} ELSE gaveUp
    /\ UNCHANGED <<key, releases, broker>>

\* Mutant: the whole claim is retired, failures and all.
RetireHeld(r) == {m \in Messages : row[m].by = r \/ m \in relay[r].sent}
Retired(r) == {m \in relay[r].sent : row[m].by = r}

\* MarkOutboxMessagesPublished: what was sent and is still this claim's.
markPublished(r) ==
    /\ relay[r].pc = "publishing" /\ relay[r].batch = {}
    /\ relay' = [relay EXCEPT ![r] = Idle]
    /\ \/ /\ row' = [m \in Messages |->
                        IF m \in Retired(r)
                        THEN [row[m] EXCEPT !.st = "published", !.lease = 0, !.by = Nobody]
                        ELSE Forgotten(r, m)]
          /\ faults' = faults
       \/ /\ row' = [m \in Messages |-> Forgotten(r, m)]
          /\ relay[r].sent # {} /\ faults < MaxFaults /\ faults' = faults + 1
    /\ UNCHANGED <<key, releases, broker, gaveUp>>

-----------------------------------------------------------------------------
\* Release: the operator's way back out of the quarantine; the count stays.
Release(m) ==
    /\ releases < MaxReleases
    /\ row[m].st = "quarantined"
    /\ row' = [row EXCEPT ![m].st = "pending", ![m].due = 0]
    /\ releases' = releases + 1
    /\ UNCHANGED <<key, relay, faults, broker, gaveUp>>

\* reapQuarantined, past QuarantineRetention.  What reapPublished deletes no
\* statement and no property reads again: "published" stands for it, too.
Reap(m) ==
    /\ row[m].st = "quarantined"
    /\ row' = [row EXCEPT ![m].st = "discarded"]
    /\ UNCHANGED <<key, relay, faults, releases, broker, gaveUp>>

Crash(r) ==
    /\ relay[r].pc # "idle" /\ faults < MaxFaults
    /\ relay' = [relay EXCEPT ![r] = Idle]
    /\ row' = [m \in Messages |-> Forgotten(r, m)]
    /\ faults' = faults + 1
    /\ UNCHANGED <<key, releases, broker, gaveUp>>

Down(n) == IF n > 0 THEN n - 1 ELSE 0

\* A cycle takes no time unless its relay is paused.
Tick ==
    /\ IF \A r \in Relays : relay[r].pc = "idle" THEN faults' = faults
                                                 ELSE faults < MaxFaults /\ faults' = faults + 1
    /\ row' = [m \in Messages |-> [row[m] EXCEPT !.due = Down(@), !.lease = Down(@)]]
    /\ UNCHANGED <<key, relay, releases, broker, gaveUp>>

Cycle(r) ==
    \/ \E ids \in SUBSET Claimable : selectClaimable(r, ids)
    \/ claim(r) \/ accept(r) \/ published(r) \/ markPublished(r)

Next ==
    \/ \E tx \in Transactions, skew \in 0 .. MaxSkew : Commit(tx, skew)
    \/ \E r \in Relays : Cycle(r) \/ claimFails(r) \/ recordFailure(r) \/ Crash(r)
    \/ \E m \in Messages : Release(m) \/ Reap(m)
    \/ Tick

Spec == Init /\ [][Next]_vars

\* Relays poll and go on with what they claimed, and time passes.
Fairness == WF_vars(Tick) /\ \A r \in Relays : WF_vars(Cycle(r) \/ recordFailure(r))

LiveSpec == Spec /\ Fairness

-----------------------------------------------------------------------------
\* A message whose row says published is on the broker, and no message of a
\* transaction that has not committed is.
NothingLost ==
    \A m \in Messages :
        /\ row[m].st = "published" => m \in broker
        /\ row[m].st = "open" => m \notin broker

\* While a claim's lease runs, only its own relay retires, fails or hands back
\* what it holds: a straggler's writes do not touch it.
HolderDecides ==
    [][\A m \in Messages, r \in Relays :
          row[m].by = r /\ row[m].lease > 0 /\ row'[m].by # r => relay'[r] # relay[r]]_vars

\* Messages of one key reach the broker in (created_at, id) order, whatever
\* relays crash or stall: none is first delivered before an earlier one, but
\* for those that were quarantined once or had not committed when it was
\* selected.
KeyOrder ==
    [][\A n \in broker' \ broker, r \in Relays, m \in Messages :
          relay'[r].accepted /\ ~relay[r].accepted /\ SameKey(m, n) /\ Earlier(m, n)
              => m \in broker \cup gaveUp \cup relay[r].unseen]_vars

\* Every committed message comes to be published or quarantined.
EveryMessageSettles ==
    \A m \in Messages : row[m].st = "pending" ~> row[m].st # "pending"

\* What Message.Key says: "At most one message per key is ever in flight".
OnePerKeyInFlight ==
    \A m, n \in Messages : SameKey(m, n) /\ row[m].lease > 0 /\ row[n].lease > 0 => m = n

=============================================================================
