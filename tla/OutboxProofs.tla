---------------------------- MODULE OutboxProofs ----------------------------
(***************************************************************************)
(* Proofs about Outbox, for every set of messages and relays, every keying *)
(* of the messages, every way they share transactions, every configuration *)
(* and every number of faults.                                             *)
(***************************************************************************)
EXTENDS Outbox, WellFoundedInduction, TLAPS

-----------------------------------------------------------------------------
(* The first message of a batch.                                           *)

\* A set of instants, or of ids, has a least one.
LEMMA Least ==
    ASSUME NEW S \in SUBSET Nat, S # {}
    PROVE  \E x \in S : \A y \in S : x <= y
  <1>1. PICK x \in S : \A y \in S : ~(<<y, x>> \in OpToRel(<, Nat))
    BY NatLessThanWellFounded, WFMin
  <1>2. \A y \in S : ~(y < x)
    BY <1>1 DEF OpToRel
  <1> QED
    BY <1>2

First(S) == CHOOSE m \in S : \A n \in S : m = n \/ Earlier(m, n)

\* (created_at, id) has a least element in every batch: publish starts with
\* a message of its batch.
LEMMA FirstOfBatch ==
    ASSUME NEW S \in SUBSET Messages, S # {}
    PROVE  First(S) \in S
  <1> DEFINE C == {Created[m] : m \in S}
  <1>1. \A m \in S : m \in Nat /\ Created[m] \in Nat
    BY OutboxAssumption
  <1>2. PICK c \in C : \A d \in C : c <= d
    BY <1>1, Least
  <1> DEFINE T == {m \in S : Created[m] = c}
  <1>3. PICK m \in T : \A n \in T : m <= n
    BY <1>1, Least
  <1>4. \A n \in S : m = n \/ Earlier(m, n)
    BY <1>1, <1>2, <1>3 DEF Earlier
  <1> QED
    BY <1>3, <1>4 DEF First

-----------------------------------------------------------------------------
(* Types.                                                                  *)

States == {"open", "pending", "published", "quarantined", "discarded"}
Holders == Relays \cup {Nobody, Orphan}
Rows == [st: States, due: Nat, lease: Nat, by: Holders, attempts: Nat]
Cycles == [pc: {"idle", "selected", "publishing"}, batch: SUBSET Messages, sent: SUBSET Messages,
           accepted: BOOLEAN, unseen: SUBSET Messages]

TypeInv ==
    /\ row \in [Messages -> Rows]
    /\ relay \in [Relays -> Cycles]
    /\ broker \subseteq Messages
    /\ gaveUp \subseteq Messages

LEMMA Numbers ==
    /\ {BatchSize, LeaseDuration, MaxAttempts, Backoff, MaxSkew} \subseteq Nat
    /\ Nobody \notin Relays /\ Orphan \notin Relays /\ Nobody # Orphan
    /\ \A tx \in Transactions : tx \subseteq Messages
  BY OutboxAssumption

LEMMA HeadIsFirst == \A r : Head(r) = First(relay[r].batch)
  BY DEF Head, First

LEMMA HeadInBatch ==
    ASSUME TypeInv, NEW r \in Relays, Publishing(r)
    PROVE  Head(r) \in relay[r].batch /\ Head(r) \in Messages
  <1>1. relay[r].batch \in SUBSET Messages /\ relay[r].batch # {}
    BY DEF TypeInv, Cycles, Publishing
  <1> QED
    BY <1>1, HeadIsFirst, FirstOfBatch

LEMMA TypeInit == Init => TypeInv
  BY DEF Init, TypeInv, Idle, Rows, Cycles, States, Holders

-----------------------------------------------------------------------------
(* What the records' updates leave.                                        *)

LEMMA RowMoves == ASSUME NEW x \in Rows, NEW st \in States PROVE [x EXCEPT !.st = st] \in Rows
  BY DEF Rows

LEMMA RowSchedules ==
    ASSUME NEW x \in Rows, NEW st \in States, NEW due \in Nat
    PROVE  [x EXCEPT !.st = st, !.due = due] \in Rows
  BY DEF Rows

LEMMA RowHeld == ASSUME NEW x \in Rows, NEW by \in Holders PROVE [x EXCEPT !.by = by] \in Rows
  BY DEF Rows

LEMMA RowLeases ==
    ASSUME NEW x \in Rows, NEW lease \in Nat, NEW by \in Holders, NEW n \in Nat
    PROVE  [x EXCEPT !.lease = lease, !.by = by, !.attempts = n] \in Rows
  BY DEF Rows

LEMMA RowFails ==
    ASSUME NEW x \in Rows, NEW lease \in Nat, NEW by \in Holders, NEW due \in Nat, NEW st \in States
    PROVE  [x EXCEPT !.lease = lease, !.by = by, !.due = due, !.st = st] \in Rows
  BY DEF Rows

LEMMA RowRetires ==
    ASSUME NEW x \in Rows, NEW st \in States, NEW lease \in Nat, NEW by \in Holders
    PROVE  [x EXCEPT !.st = st, !.lease = lease, !.by = by] \in Rows
  BY DEF Rows

LEMMA RowTicks ==
    ASSUME NEW x \in Rows, NEW due \in Nat, NEW lease \in Nat
    PROVE  [x EXCEPT !.due = due, !.lease = lease] \in Rows
  BY DEF Rows

LEMMA CycleSelects ==
    ASSUME NEW c \in Cycles, NEW ids \in SUBSET Messages, NEW open \in SUBSET Messages
    PROVE  [c EXCEPT !.pc = "selected", !.batch = ids, !.unseen = open] \in Cycles
  BY DEF Cycles

LEMMA CycleClaims ==
    ASSUME NEW c \in Cycles, NEW ids \in SUBSET Messages
    PROVE  [c EXCEPT !.pc = "publishing", !.batch = ids] \in Cycles
  BY DEF Cycles

LEMMA CycleSends ==
    ASSUME NEW c \in Cycles, NEW ids \in SUBSET Messages, NEW sent \in SUBSET Messages
    PROVE  [c EXCEPT !.batch = ids, !.accepted = FALSE, !.sent = sent] \in Cycles
  BY DEF Cycles

LEMMA CycleFails ==
    ASSUME NEW c \in Cycles, NEW ids \in SUBSET Messages
    PROVE  [c EXCEPT !.batch = ids, !.accepted = FALSE] \in Cycles
  BY DEF Cycles

LEMMA CycleAccepts == ASSUME NEW c \in Cycles PROVE [c EXCEPT !.accepted = TRUE] \in Cycles
  BY DEF Cycles

LEMMA IdleCycle == Idle \in Cycles
  BY DEF Idle, Cycles

LEMMA ForgottenRow ==
    ASSUME TypeInv, NEW r \in Relays, NEW m \in Messages
    PROVE  /\ Forgotten(r, m) \in Rows
           /\ Forgotten(r, m).st = row[m].st
           /\ row[m].by # r => Forgotten(r, m) = row[m]
  BY RowHeld DEF TypeInv, Forgotten, Holders, Rows

LEMMA LeasedRows ==
    ASSUME TypeInv, NEW r \in Relays, NEW by \in {r, Orphan}, Leased(r, by)
    PROVE  /\ row' \in [Messages -> Rows]
           /\ \A m \in Messages : row'[m].st = row[m].st
           /\ \A m \in Messages : row[m].by # r /\ row[m].lease > 0 => row'[m] = row[m]
  <1> DEFINE L(m) == [row[m] EXCEPT !.lease = LeaseDuration, !.by = by, !.attempts = Count(@)]
  <1>1. row' = [m \in Messages |-> IF m \in StillFree(r) THEN L(m) ELSE Forgotten(r, m)]
    BY DEF Leased
  <1>2. ASSUME NEW m \in Messages PROVE L(m) \in Rows /\ L(m).st = row[m].st
    <2>1. row[m] \in Rows /\ LeaseDuration \in Nat /\ by \in Holders /\ MaxAttempts \in Nat
      BY Numbers DEF TypeInv, Holders
    <2>2. Count(row[m].attempts) \in Nat
      BY <2>1 DEF Count, Rows
    <2>3. L(m) = [row[m] EXCEPT !.lease = LeaseDuration, !.by = by, !.attempts = Count(row[m].attempts)]
      BY <2>1 DEF Rows
    <2>4. L(m) \in Rows
      BY <2>1, <2>2, <2>3, RowLeases
    <2> QED
      BY <2>1, <2>4 DEF Rows
  <1>3. \A m \in StillFree(r) : row[m].lease = 0
    BY DEF StillFree, FreeRow
  <1> HIDE DEF L
  <1> QED
    BY <1>1, <1>2, <1>3, ForgottenRow

LEMMA FailedRow ==
    ASSUME TypeInv, NEW m \in Messages
    PROVE  /\ Failed(m) \in Rows
           /\ Failed(m).st \in {row[m].st, "quarantined"}
  <1> DEFINE st == IF row[m].attempts >= MaxAttempts THEN "quarantined" ELSE row[m].st
             x == [row[m] EXCEPT !.lease = 0, !.by = Nobody, !.due = Backoff, !.st = st]
  <1>1. row[m] \in Rows /\ Backoff \in Nat /\ 0 \in Nat /\ Nobody \in Holders
    BY Numbers DEF TypeInv, Holders
  <1>2. st \in States /\ st \in {row[m].st, "quarantined"}
    BY <1>1 DEF Rows, States
  <1>3. /\ row[m].attempts >= MaxAttempts => st = "quarantined"
        /\ ~(row[m].attempts >= MaxAttempts) => st = row[m].st
    OBVIOUS
  <1> HIDE DEF st
  <1>4. Failed(m) = x
    BY <1>1, <1>3 DEF Failed, Rows
  <1>5. x \in Rows
    BY ONLY <1>1, <1>2, RowFails
  <1>6. x.st = st
    BY <1>1 DEF Rows
  <1> HIDE DEF x
  <1> QED
    BY <1>2, <1>4, <1>5, <1>6

-----------------------------------------------------------------------------
(* The types hold.                                                         *)

LEMMA TypeWriters ==
    ASSUME TypeInv,
           \/ \E tx \in Transactions, skew \in 0 .. MaxSkew : Commit(tx, skew)
           \/ \E m \in Messages : Release(m) \/ Reap(m)
           \/ Tick
    PROVE  TypeInv'
  <1>1. \A m \in Messages : row[m] \in Rows /\ row[m].due \in Nat /\ row[m].lease \in Nat
    BY DEF TypeInv, Rows
  <1>2. ASSUME NEW tx \in Transactions, NEW skew \in 0 .. MaxSkew, Commit(tx, skew) PROVE TypeInv'
    <2>1. skew \in Nat /\ "pending" \in States
      BY Numbers DEF States
    <2>2. row' \in [Messages -> Rows]
      BY <1>1, <1>2, <2>1, RowSchedules DEF Commit
    <2> QED
      BY <1>2, <2>2 DEF TypeInv, Commit
  <1>3. ASSUME NEW m \in Messages, Release(m) PROVE TypeInv'
    <2> DEFINE x == [row[m] EXCEPT !.st = "pending", !.due = 0]
    <2>1. x \in Rows
      BY <1>1, RowSchedules DEF States
    <2>2. row' = [row EXCEPT ![m] = x]
      BY <1>3 DEF Release
    <2> HIDE DEF x
    <2> QED
      BY <1>3, <2>1, <2>2 DEF TypeInv, Release
  <1>4. ASSUME NEW m \in Messages, Reap(m) PROVE TypeInv'
    <2> DEFINE x == [row[m] EXCEPT !.st = "discarded"]
    <2>1. x \in Rows
      BY <1>1, RowMoves DEF States
    <2>2. row' = [row EXCEPT ![m] = x]
      BY <1>4 DEF Reap
    <2> HIDE DEF x
    <2> QED
      BY <1>4, <2>1, <2>2 DEF TypeInv, Reap
  <1>5. CASE Tick
    <2> DEFINE x(m) == [row[m] EXCEPT !.due = Down(row[m].due), !.lease = Down(row[m].lease)]
    <2>1. \A m \in Messages : Down(row[m].due) \in Nat /\ Down(row[m].lease) \in Nat
      BY <1>1 DEF Down
    <2>2. \A m \in Messages : x(m) \in Rows
      BY <1>1, <2>1, RowTicks
    <2>3. row' = [m \in Messages |-> x(m)]
      <3>1. \A m \in Messages : [row[m] EXCEPT !.due = Down(@), !.lease = Down(@)] = x(m)
        BY <1>1 DEF Rows
      <3> QED
        BY <1>5, <3>1 DEF Tick
    <2> HIDE DEF x
    <2>4. row' \in [Messages -> Rows]
      BY <2>2, <2>3
    <2>5. UNCHANGED <<relay, broker, gaveUp>>
      BY <1>5 DEF Tick
    <2> QED
      BY <2>4, <2>5 DEF TypeInv
  <1> QED
    BY <1>2, <1>3, <1>4, <1>5

LEMMA TypeClaims ==
    ASSUME TypeInv, NEW r \in Relays,
           (\E ids \in SUBSET Claimable : selectClaimable(r, ids)) \/ claim(r) \/ claimFails(r) \/ Crash(r)
    PROVE  TypeInv'
  <1>1. relay[r] \in Cycles
    BY DEF TypeInv
  <1>2. ASSUME NEW ids \in SUBSET Claimable, selectClaimable(r, ids) PROVE TypeInv'
    <2> DEFINE c == [relay[r] EXCEPT !.pc = "selected", !.batch = ids, !.unseen = Uncommitted]
    <2>1. c \in Cycles
      <3>1. ids \in SUBSET Messages /\ Uncommitted \in SUBSET Messages
        BY DEF Claimable, Uncommitted
      <3> QED
        BY <1>1, <3>1, CycleSelects
    <2>2. relay' = [relay EXCEPT ![r] = c]
      BY <1>2 DEF selectClaimable
    <2> HIDE DEF c
    <2> QED
      BY <1>2, <2>1, <2>2 DEF TypeInv, selectClaimable
  <1>3. CASE claim(r)
    <2> DEFINE c == [relay[r] EXCEPT !.pc = "publishing", !.batch = StillFree(r)]
    <2>1. c \in Cycles
      <3>1. StillFree(r) \in SUBSET Messages
        BY <1>1 DEF StillFree, Cycles
      <3> QED
        BY <1>1, <3>1, CycleClaims
    <2>2. relay' = [relay EXCEPT ![r] = IF StillFree(r) = {} THEN Idle ELSE c]
      BY <1>3 DEF claim
    <2> HIDE DEF c
    <2> QED
      BY <1>3, <2>1, <2>2, IdleCycle, LeasedRows DEF TypeInv, claim
  <1>4. CASE claimFails(r)
    BY <1>4, IdleCycle, LeasedRows DEF TypeInv, claimFails
  <1>5. CASE Crash(r)
    BY <1>5, IdleCycle, ForgottenRow DEF TypeInv, Crash
  <1> QED
    BY <1>2, <1>3, <1>4, <1>5

LEMMA TypePublishes ==
    ASSUME TypeInv, NEW r \in Relays, accept(r) \/ published(r) \/ recordFailure(r) \/ markPublished(r)
    PROVE  TypeInv'
  <1>1. relay[r] \in Cycles /\ relay[r].batch \in SUBSET Messages /\ relay[r].sent \in SUBSET Messages
    BY DEF TypeInv, Cycles
  <1>2. CASE accept(r)
    BY <1>1, <1>2, HeadInBatch, CycleAccepts DEF TypeInv, accept
  <1>3. CASE published(r)
    <2> DEFINE c == [relay[r] EXCEPT !.batch = relay[r].batch \ {Head(r)}, !.accepted = FALSE,
                                     !.sent = relay[r].sent \cup {Head(r)}]
    <2>1. c \in Cycles
      <3>1. relay[r].batch \ {Head(r)} \in SUBSET Messages /\ relay[r].sent \cup {Head(r)} \in SUBSET Messages
        BY <1>1, <1>3, HeadInBatch DEF published
      <3> QED
        BY ONLY <1>1, <3>1, CycleSends
    <2>2. relay' = [relay EXCEPT ![r] = c]
      BY <1>1, <1>3 DEF published, Cycles
    <2> HIDE DEF c
    <2> QED
      BY <1>3, <2>1, <2>2 DEF TypeInv, published
  <1>4. CASE recordFailure(r)
    <2> DEFINE c == [relay[r] EXCEPT !.batch = relay[r].batch \ {Head(r)}, !.accepted = FALSE]
    <2>1. c \in Cycles
      <3>1. relay[r].batch \ {Head(r)} \in SUBSET Messages
        BY <1>1
      <3> QED
        BY ONLY <1>1, <3>1, CycleFails
    <2>2. relay' = [relay EXCEPT ![r] = c]
      BY <1>1, <1>4 DEF recordFailure, Cycles
    <2>3. Head(r) \in Messages
      BY <1>4, HeadInBatch DEF recordFailure
    <2> HIDE DEF c
    <2>4. row' \in [Messages -> Rows] /\ gaveUp' \subseteq Messages
      BY <1>4, <2>3, FailedRow DEF TypeInv, recordFailure
    <2> QED
      BY <1>4, <2>1, <2>2, <2>4 DEF TypeInv, recordFailure
  <1>5. CASE markPublished(r)
    <2> DEFINE x(m) == [row[m] EXCEPT !.st = "published", !.lease = 0, !.by = Nobody]
    <2>1. \A m \in Messages : x(m) \in Rows
      <3>1. \A m \in Messages : row[m] \in Rows
        BY DEF TypeInv
      <3>2. "published" \in States /\ 0 \in Nat /\ Nobody \in Holders
        BY DEF States, Holders
      <3> QED
        BY <3>1, <3>2, RowRetires
    <2>2. \/ row' = [m \in Messages |-> IF m \in Retired(r) THEN x(m) ELSE Forgotten(r, m)]
          \/ row' = [m \in Messages |-> Forgotten(r, m)]
      BY <1>5 DEF markPublished
    <2> HIDE DEF x
    <2>3. row' \in [Messages -> Rows]
      BY <2>1, <2>2, ForgottenRow
    <2> QED
      BY <1>5, <2>3, IdleCycle DEF TypeInv, markPublished
  <1> QED
    BY <1>2, <1>3, <1>4, <1>5

LEMMA TypeNext == TypeInv /\ [Next]_vars => TypeInv'
  <1> SUFFICES ASSUME TypeInv, [Next]_vars PROVE TypeInv'
    OBVIOUS
  <1>1. CASE UNCHANGED vars
    BY <1>1 DEF TypeInv, vars
  <1> QED
    BY <1>1, TypeWriters, TypeClaims, TypePublishes DEF Next, Cycle


-----------------------------------------------------------------------------
(* Nothing is lost, and the messages of one key keep their order.          *)

\* A batch and what was sent of it are committed messages, what was sent is on
\* the broker, an acceptance nobody has heard of yet is the head's, and whatever
\* left the table unpublished was quarantined once.
SentInv ==
    /\ \A m \in Messages : row[m].st \in {"quarantined", "discarded"} => m \in gaveUp
    /\ \A r \in Relays :
          /\ \A m \in relay[r].batch : row[m].st # "open"
          /\ relay[r].sent \subseteq broker
          /\ relay[r].accepted => relay[r].pc = "publishing" /\ First(relay[r].batch) \in broker

\* What precedes a selected message under its key is on the broker already,
\* was quarantined, or had not committed when the message was selected.
OrderInv ==
    \A r \in Relays : \A n \in relay[r].batch, m \in Messages :
        SameKey(m, n) /\ Earlier(m, n) => m \in broker \cup gaveUp \cup relay[r].unseen

Inv == TypeInv /\ NothingLost /\ SentInv /\ OrderInv

LEMMA InvInit == Init => Inv
  BY TypeInit DEF Init, Inv, NothingLost, SentInv, OrderInv, Idle

\* The steps that move no row between the states and no message to the broker.
LEMMA Quiet ==
    ASSUME Inv, TypeInv', UNCHANGED <<key, broker, gaveUp>>,
           \A m \in Messages : row'[m].st = row[m].st,
           \A r \in Relays :
              \/ relay'[r] = relay[r] \/ relay'[r] = Idle
              \/ /\ relay'[r].batch \subseteq relay[r].batch /\ relay'[r].sent \subseteq broker
                 /\ relay'[r].unseen = relay[r].unseen /\ ~relay'[r].accepted
    PROVE  Inv'
  <1>1. NothingLost'
    BY DEF Inv, NothingLost
  <1>2. ASSUME NEW r \in Relays
        PROVE  /\ relay'[r].batch \subseteq relay[r].batch /\ relay'[r].batch \subseteq Messages
               /\ relay'[r].sent \subseteq broker
               /\ relay'[r].unseen = relay[r].unseen \/ relay'[r].batch = {}
               /\ relay'[r].accepted => relay'[r] = relay[r]
    <2>1. relay[r].batch \subseteq Messages /\ relay[r].sent \subseteq broker
      BY DEF Inv, TypeInv, Cycles, SentInv
    <2> QED
      BY <2>1 DEF Idle
  <1>3. SentInv'
    BY <1>2 DEF Inv, SentInv
  <1>4. OrderInv'
    BY <1>2 DEF Inv, OrderInv, SameKey
  <1> QED
    BY <1>1, <1>3, <1>4 DEF Inv

\* A transaction commits, an operator releases or retention discards: a message
\* that comes back or appears behind a selected one is among those it may pass.
LEMMA InvWriters ==
    ASSUME Inv,
           \/ \E tx \in Transactions, skew \in 0 .. MaxSkew : Commit(tx, skew)
           \/ \E m \in Messages : Release(m) \/ Reap(m)
           \/ Tick
    PROVE  Inv'
  <1>1. TypeInv /\ TypeInv'
    BY TypeWriters DEF Inv
  <1>2. ASSUME NEW m \in Messages
        PROVE  /\ row'[m].st # row[m].st =>
                     \/ row[m].st = "open" /\ row'[m].st = "pending"
                     \/ row[m].st = "quarantined" /\ row'[m].st \in {"pending", "discarded"}
    <2>1. ASSUME NEW tx \in Transactions, NEW skew \in 0 .. MaxSkew, Commit(tx, skew)
          PROVE  row'[m].st # row[m].st => row[m].st = "open" /\ row'[m].st = "pending"
      BY <1>1, <2>1 DEF Commit, TypeInv, Rows
    <2>2. ASSUME NEW n \in Messages, Release(n) \/ Reap(n)
          PROVE  row'[m].st # row[m].st => row[m].st = "quarantined" /\ row'[m].st \in {"pending", "discarded"}
      BY <1>1, <2>2 DEF Release, Reap, TypeInv, Rows
    <2>3. CASE Tick
      BY <1>1, <2>3 DEF Tick, TypeInv, Rows
    <2> QED
      BY <2>1, <2>2, <2>3
  <1>3. UNCHANGED <<key, relay, broker, gaveUp>>
    BY DEF Commit, Release, Reap, Tick
  <1>4. NothingLost'
    BY <1>2, <1>3 DEF Inv, NothingLost
  <1>5. SentInv'
    <2>1. \A r \in Relays : relay[r].batch \subseteq Messages
      BY <1>1 DEF TypeInv, Cycles
    <2> QED
      BY <1>2, <1>3, <2>1 DEF Inv, SentInv
  <1>6. OrderInv'
    BY <1>3 DEF Inv, OrderInv, SameKey
  <1> QED
    BY <1>1, <1>4, <1>5, <1>6 DEF Inv

\* At the moment of its selection everything before a message under its key is
\* open, published, quarantined or discarded.
LEMMA InvSelects ==
    ASSUME Inv, NEW r \in Relays, NEW ids \in SUBSET Claimable, selectClaimable(r, ids)
    PROVE  Inv'
  <1>1. TypeInv /\ TypeInv'
    BY TypeClaims DEF Inv
  <1>2. /\ \A q \in Relays \ {r} : relay'[q] = relay[q]
        /\ relay'[r].batch = ids /\ relay'[r].unseen = Uncommitted /\ relay'[r].sent = relay[r].sent
        /\ ~relay'[r].accepted
    <2>1. ~relay[r].accepted
      BY DEF Inv, SentInv, selectClaimable
    <2> QED
      BY <1>1, <2>1 DEF selectClaimable, TypeInv, Cycles
  <1>3. UNCHANGED <<key, row, broker, gaveUp>>
    BY DEF selectClaimable
  <1>4. NothingLost' /\ SentInv'
    BY <1>2, <1>3 DEF Inv, NothingLost, SentInv, Claimable, FreeRow
  <1>5. ASSUME NEW n \in ids, NEW m \in Messages, SameKey(m, n), Earlier(m, n)
        PROVE  m \in broker \cup gaveUp \cup Uncommitted
    <2>1. row[m].st # "pending" /\ row[m].st \in States
      BY <1>1, <1>5 DEF Claimable, TypeInv, Rows
    <2> QED
      BY <2>1 DEF Inv, NothingLost, SentInv, States, Uncommitted
  <1>6. OrderInv'
    BY <1>2, <1>3, <1>5 DEF Inv, OrderInv, SameKey
  <1> QED
    BY <1>1, <1>4, <1>6 DEF Inv

LEMMA InvClaims ==
    ASSUME Inv, NEW r \in Relays, claim(r) \/ claimFails(r) \/ Crash(r)
    PROVE  Inv'
  <1>1. TypeInv /\ TypeInv'
    BY TypeClaims DEF Inv
  <1>2. UNCHANGED <<key, broker, gaveUp>> /\ \A m \in Messages : row'[m].st = row[m].st
    BY <1>1, LeasedRows, ForgottenRow DEF claim, claimFails, Crash
  <1>3. CASE claim(r)
    <2>1. ~relay[r].accepted /\ relay[r].sent \subseteq broker /\ StillFree(r) \subseteq relay[r].batch
      BY <1>3 DEF Inv, SentInv, claim, StillFree
    <2>2. /\ \A q \in Relays \ {r} : relay'[q] = relay[q]
          /\ \/ relay'[r] = Idle
             \/ /\ relay'[r].batch = StillFree(r) /\ relay'[r].unseen = relay[r].unseen
                /\ relay'[r].sent = relay[r].sent /\ ~relay'[r].accepted
      BY <1>1, <1>3, <2>1 DEF claim, TypeInv, Cycles
    <2> QED
      BY <1>1, <1>2, <2>1, <2>2, Quiet
  <1>4. CASE claimFails(r) \/ Crash(r)
    <2>1. \A q \in Relays : relay'[q] = relay[q] \/ relay'[q] = Idle
      BY <1>1, <1>4 DEF claimFails, Crash, TypeInv
    <2> QED
      BY <1>1, <1>2, <2>1, Quiet
  <1> QED
    BY <1>3, <1>4

LEMMA InvAccepts == ASSUME Inv, NEW r \in Relays, accept(r) PROVE Inv'
  <1>1. TypeInv /\ TypeInv'
    BY TypePublishes DEF Inv
  <1>2. Head(r) \in relay[r].batch /\ Head(r) \in Messages /\ Head(r) = First(relay[r].batch)
    BY <1>1, HeadInBatch, HeadIsFirst DEF accept
  <1>3. /\ \A q \in Relays \ {r} : relay'[q] = relay[q]
        /\ relay'[r].batch = relay[r].batch /\ relay'[r].sent = relay[r].sent
        /\ relay'[r].unseen = relay[r].unseen /\ relay'[r].pc = "publishing"
    BY <1>1 DEF accept, Publishing, TypeInv, Cycles
  <1>4. broker' = broker \cup {Head(r)} /\ UNCHANGED <<key, row, gaveUp>>
    BY DEF accept
  <1>5. NothingLost'
    BY <1>2, <1>4 DEF Inv, NothingLost, SentInv
  <1>6. SentInv'
    BY <1>2, <1>3, <1>4 DEF Inv, SentInv
  <1>7. OrderInv'
    BY <1>3, <1>4 DEF Inv, OrderInv, SameKey
  <1> QED
    BY <1>1, <1>5, <1>6, <1>7 DEF Inv

LEMMA InvPublished == ASSUME Inv, NEW r \in Relays, published(r) PROVE Inv'
  <1>1. TypeInv /\ TypeInv'
    BY TypePublishes DEF Inv
  <1>2. Head(r) \in broker
    BY HeadIsFirst DEF Inv, SentInv, published
  <1>3. /\ \A q \in Relays \ {r} : relay'[q] = relay[q]
        /\ relay'[r].batch \subseteq relay[r].batch /\ relay'[r].sent = relay[r].sent \cup {Head(r)}
        /\ relay'[r].unseen = relay[r].unseen /\ ~relay'[r].accepted
    BY <1>1 DEF published, TypeInv, Cycles
  <1>4. relay[r].sent \subseteq broker
    BY DEF Inv, SentInv
  <1>5. UNCHANGED <<key, row, broker, gaveUp>>
    BY DEF published
  <1> QED
    BY <1>1, <1>2, <1>3, <1>4, <1>5, Quiet

LEMMA InvFails == ASSUME Inv, NEW r \in Relays, recordFailure(r) PROVE Inv'
  <1> DEFINE m == Head(r)
  <1>1. TypeInv /\ TypeInv'
    BY TypePublishes DEF Inv
  <1>2. m \in relay[r].batch /\ m \in Messages /\ row[m].st # "open"
    BY <1>1, HeadInBatch DEF recordFailure, Inv, SentInv
  <1>3. /\ \A q \in Relays \ {r} : relay'[q] = relay[q]
        /\ relay'[r].batch \subseteq relay[r].batch /\ relay'[r].sent = relay[r].sent
        /\ relay'[r].unseen = relay[r].unseen /\ ~relay'[r].accepted
    BY <1>1 DEF recordFailure, TypeInv, Cycles
  <1>4. /\ \A n \in Messages \ {m} : row'[n] = row[n]
        /\ row'[m].st \in {row[m].st, "quarantined"}
    BY <1>1, <1>2, FailedRow DEF recordFailure, TypeInv
  <1>5. /\ UNCHANGED <<key, broker>>
        /\ gaveUp \subseteq gaveUp' /\ (row'[m].st = "quarantined" => m \in gaveUp')
    BY DEF recordFailure
  <1> HIDE DEF m
  <1>6. NothingLost'
    BY <1>2, <1>4, <1>5 DEF Inv, NothingLost
  <1>7. SentInv'
    <2>1. \A q \in Relays : relay'[q].batch \subseteq relay[q].batch /\ relay[q].batch \subseteq Messages
      BY <1>1, <1>3 DEF TypeInv, Cycles
    <2>2. \A n \in Messages : row[n].st # "open" => row'[n].st # "open"
      BY <1>4
    <2> QED
      BY <1>3, <1>4, <1>5, <2>1, <2>2 DEF Inv, SentInv
  <1>8. OrderInv'
    BY <1>3, <1>5 DEF Inv, OrderInv, SameKey
  <1> QED
    BY <1>1, <1>6, <1>7, <1>8 DEF Inv

LEMMA InvMarks == ASSUME Inv, NEW r \in Relays, markPublished(r) PROVE Inv'
  <1>1. TypeInv /\ TypeInv'
    BY TypePublishes DEF Inv
  <1>2. \A q \in Relays : relay'[q] = relay[q] \/ relay'[q] = Idle
    BY <1>1 DEF markPublished, TypeInv
  <1>3. \A m \in Messages : row'[m].st = row[m].st \/ (m \in relay[r].sent /\ row'[m].st = "published")
    <2>1. \A m \in Messages : row[m] \in Rows /\ Forgotten(r, m).st = row[m].st
      BY <1>1, ForgottenRow DEF TypeInv
    <2>2. \A m \in Messages : [row[m] EXCEPT !.st = "published", !.lease = 0, !.by = Nobody].st = "published"
      BY <2>1 DEF Rows
    <2> QED
      BY <2>1, <2>2 DEF markPublished, Retired
  <1>4. relay[r].sent \subseteq broker
    BY DEF Inv, SentInv
  <1>5. UNCHANGED <<key, broker, gaveUp>>
    BY DEF markPublished
  <1>6. NothingLost'
    BY <1>3, <1>4, <1>5 DEF Inv, NothingLost
  <1>7. SentInv'
    <2>1. \A q \in Relays : relay[q].batch \subseteq Messages
      BY <1>1 DEF TypeInv, Cycles
    <2> QED
      BY <1>2, <1>3, <1>5, <2>1 DEF Inv, SentInv, Idle
  <1>8. OrderInv'
    <2>1. \A q \in Relays : relay'[q] = relay[q] \/ relay'[q].batch = {}
      BY <1>2 DEF Idle
    <2> QED
      BY <1>5, <2>1 DEF Inv, OrderInv, SameKey
  <1> QED
    BY <1>1, <1>6, <1>7, <1>8 DEF Inv

LEMMA InvNext == Inv /\ [Next]_vars => Inv'
  <1> SUFFICES ASSUME Inv, [Next]_vars PROVE Inv'
    OBVIOUS
  <1>1. CASE UNCHANGED vars
    BY <1>1 DEF Inv, TypeInv, NothingLost, SentInv, OrderInv, SameKey, vars
  <1> QED
    BY <1>1, InvWriters, InvSelects, InvClaims, InvAccepts, InvPublished, InvFails, InvMarks DEF Next, Cycle

\* A message whose row says published is on the broker, and none of an
\* uncommitted transaction is, whatever crashes, stalls and lost writes.
THEOREM NothingIsLost == Spec => []NothingLost
  <1>1. Inv => NothingLost
    BY DEF Inv
  <1> QED
    BY <1>1, InvInit, InvNext, PTL DEF Spec

\* Messages of one key are first accepted in (created_at, id) order, but for
\* those that were quarantined once or were not committed at the selection.
THEOREM KeysInOrder == Spec => KeyOrder
  <1> DEFINE A == \A n \in broker' \ broker, r \in Relays, m \in Messages :
                     relay'[r].accepted /\ ~relay[r].accepted /\ SameKey(m, n) /\ Earlier(m, n)
                         => m \in broker \cup gaveUp \cup relay[r].unseen
  <1>1. Inv /\ [Next]_vars => [A]_vars
    <2> SUFFICES ASSUME Inv, Next, NEW n \in broker' \ broker, NEW r \in Relays, NEW m \in Messages,
                        relay'[r].accepted, ~relay[r].accepted, SameKey(m, n), Earlier(m, n)
                 PROVE  m \in broker \cup gaveUp \cup relay[r].unseen
      OBVIOUS
    <2>1. PICK q \in Relays : accept(q)
      BY DEF Next, Cycle, Commit, selectClaimable, claim, claimFails, published, recordFailure, markPublished,
             Release, Reap, Crash, Tick
    <2>2. q = r
      BY <2>1 DEF accept, Inv, TypeInv
    <2>3. n = Head(r) /\ n \in relay[r].batch
      BY <2>1, <2>2, HeadInBatch DEF accept, Inv
    <2> QED
      BY <2>3 DEF Inv, OrderInv
  <1>2. KeyOrder <=> [][A]_vars
    BY DEF KeyOrder
  <1> HIDE DEF A
  <1> QED
    BY <1>1, <1>2, InvInit, InvNext, PTL DEF Spec

\* While a claim's lease runs, only a step of its own relay takes a row from
\* it: no straggler's retirement, failure or claim does.
THEOREM HolderAlone == Spec => HolderDecides
  <1> DEFINE A == \A m \in Messages, r \in Relays :
                     row[m].by = r /\ row[m].lease > 0 /\ row'[m].by # r => relay'[r] # relay[r]
  <1>1. TypeInv /\ [Next]_vars => [A]_vars
    <2> SUFFICES ASSUME TypeInv, Next, NEW m \in Messages, NEW r \in Relays,
                        row[m].by = r, row[m].lease > 0, row'[m].by # r
                 PROVE  relay'[r] # relay[r]
      OBVIOUS
    <2>1. \A n \in Messages : row[n] \in Rows
      BY DEF TypeInv
    <2>2. CASE \/ \E tx \in Transactions, skew \in 0 .. MaxSkew : Commit(tx, skew)
               \/ \E n \in Messages : Release(n) \/ Reap(n)
               \/ Tick
      <3>1. ASSUME NEW tx \in Transactions, NEW skew \in 0 .. MaxSkew, Commit(tx, skew) PROVE row'[m].by = row[m].by
        BY <2>1, <3>1 DEF Commit, Rows
      <3>2. ASSUME NEW n \in Messages, Release(n) \/ Reap(n) PROVE row'[m].by = row[m].by
        BY <2>1, <3>2 DEF Release, Reap, TypeInv, Rows
      <3>3. CASE Tick
        BY <2>1, <3>3 DEF Tick, Rows
      <3> QED
        BY <2>2, <3>1, <3>2, <3>3
    <2>3. ASSUME NEW q \in Relays, claim(q) \/ claimFails(q) \/ Crash(q) \/ markPublished(q)
          PROVE  relay'[r] # relay[r]
      <3>1. relay'[q] # relay[q]
        <4>1. CASE claim(q)
          <5>1. relay'[q].pc # "selected"
            BY <4>1 DEF TypeInv, Cycles, Idle, claim
          <5> QED
            BY <4>1, <5>1 DEF claim
        <4>2. CASE claimFails(q) \/ Crash(q) \/ markPublished(q)
          <5>1. relay'[q] = Idle /\ relay[q].pc # "idle"
            BY <4>2 DEF TypeInv, claimFails, Crash, markPublished
          <5> QED
            BY <5>1 DEF Idle
        <4> QED
          BY <2>3, <4>1, <4>2
      <3>2. q # r => row'[m] = row[m]
        <4>1. ASSUME q # r PROVE Forgotten(q, m) = row[m] /\ m \notin Retired(q)
          BY <4>1, ForgottenRow DEF Retired
        <4> QED
          BY <2>3, <4>1, LeasedRows DEF claim, claimFails, Crash, markPublished
      <3> QED
        BY <3>1, <3>2
    <2>4. ASSUME NEW q \in Relays, recordFailure(q) PROVE relay'[r] # relay[r]
      <3>1. Head(q) \in relay[q].batch /\ Head(q) \in Messages
        BY <2>4, HeadInBatch DEF recordFailure
      <3>2. relay'[q].batch = relay[q].batch \ {Head(q)}
        BY <2>4 DEF recordFailure, TypeInv, Cycles
      <3>3. q = r
        BY <2>4, <3>1 DEF recordFailure, Holds, TypeInv
      <3> QED
        BY <3>1, <3>2, <3>3
    <2>5. ASSUME NEW q \in Relays,
                 (\E ids \in SUBSET Claimable : selectClaimable(q, ids)) \/ accept(q) \/ published(q)
          PROVE  row' = row
      BY <2>5 DEF selectClaimable, accept, published
    <2> QED
      BY <2>2, <2>3, <2>4, <2>5 DEF Next, Cycle
  <1>2. HolderDecides <=> [][A]_vars
    BY DEF HolderDecides
  <1> HIDE DEF A
  <1> QED
    BY <1>1, <1>2, TypeInit, TypeNext, PTL DEF Spec
====================
