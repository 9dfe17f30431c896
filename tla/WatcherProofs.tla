---------------------------- MODULE WatcherProofs ----------------------------
(***************************************************************************)
(* Proofs about Watcher, for every set of operations and callers, every    *)
(* limit and every number of revisions.                                    *)
(***************************************************************************)
EXTENDS Watcher, FiniteSetTheorems, TLAPS

-----------------------------------------------------------------------------
(* Types.                                                                  *)

Rows == [rev: Revisions, fin: Revisions, reaped: BOOLEAN]
Steps == {"idle", "read", "refused", "subscribed", "waiting", "retire", "finish", "over"}
Watches == [pc: Steps, op: Ops \cup {None}, snap: Revisions]
Subs == [in: BOOLEAN, sent: Revisions, buf: Revisions, done: BOOLEAN]
Phases == {"rest", "reading", "read", "pushing", "retire", "finish"}
Passes == [pc: Phases, ids: SUBSET Ops, op: Ops \cup {None}, snap: Revisions,
           subs: SUBSET Callers, sub: Callers \cup {None}]

TypeInv ==
    /\ limit \in 1 .. MaxLimit
    /\ table \in [Ops -> Rows]
    /\ floor \in [Ops -> Revisions]
    /\ call \in [Callers -> Watches]
    /\ sub \in [Callers -> Subs]
    /\ gone \subseteq Callers /\ got \in [Callers -> Revisions]
    /\ sweep \in Passes
    /\ closed \in BOOLEAN

\* The registry is finite and within the limit.
FitInv == IsFiniteSet(Registered) /\ Cardinality(Registered) <= limit

LEMMA Constants == MaxLimit \in Nat /\ MaxRevision \in Nat /\ MaxRevision > 0 /\ None \notin Callers
  BY WatcherAssumption

LEMMA RevisionNat == \A r \in Revisions : r \in Nat
  BY Constants DEF Revisions

LEMMA ZeroRevision == 0 \in Revisions
  BY Constants DEF Revisions

-----------------------------------------------------------------------------
(* What the records' updates leave.                                        *)

LEMMA RowWrites == ASSUME NEW x \in Rows, NEW r \in Revisions PROVE [x EXCEPT !.rev = r] \in Rows
  BY DEF Rows

LEMMA RowEnds ==
    ASSUME NEW x \in Rows, NEW r \in Revisions, NEW f \in Revisions
    PROVE  [x EXCEPT !.rev = r, !.fin = f] \in Rows
  BY DEF Rows

LEMMA RowReaped == ASSUME NEW x \in Rows PROVE [x EXCEPT !.reaped = TRUE] \in Rows
  BY DEF Rows

LEMMA WatchGoes == ASSUME NEW x \in Watches, NEW p \in Steps PROVE [x EXCEPT !.pc = p] \in Watches
  BY DEF Watches

LEMMA WatchPushed ==
    ASSUME NEW x \in Watches, NEW p \in Steps, NEW r \in Revisions
    PROVE  [x EXCEPT !.pc = p, !.snap = r] \in Watches
  BY DEF Watches

LEMMA WatchReads == ASSUME NEW o \in Ops, NEW r \in Revisions PROVE [pc |-> "read", op |-> o, snap |-> r] \in Watches
  BY DEF Watches, Steps

LEMMA WatchRefused == Refused \in Watches /\ Refused.pc = "refused"
  BY ZeroRevision DEF Watches, Steps, Refused

LEMMA SubIn == ASSUME NEW s \in Subs, NEW b \in BOOLEAN PROVE [s EXCEPT !.in = b] \in Subs
  BY DEF Subs

LEMMA SubDone == ASSUME NEW s \in Subs PROVE [s EXCEPT !.done = TRUE] \in Subs
  BY DEF Subs

LEMMA SubPushed ==
    ASSUME NEW s \in Subs, NEW r \in Revisions, NEW b \in Revisions
    PROVE  [s EXCEPT !.sent = r, !.buf = b] \in Subs
  BY DEF Subs

LEMMA SubRead == ASSUME NEW s \in Subs, NEW b \in Revisions PROVE [s EXCEPT !.buf = b] \in Subs
  BY DEF Subs

LEMMA PassStarts ==
    ASSUME NEW S \in SUBSET Ops, NEW p \in Phases
    PROVE  /\ [Resting EXCEPT !.ids = S, !.pc = p] \in Passes
           /\ [Resting EXCEPT !.ids = S, !.pc = p].pc = p
           /\ [Resting EXCEPT !.ids = S, !.pc = p].subs = {}
  <1>1. Resting \in Passes
    BY ZeroRevision DEF Resting, Passes, Phases
  <1> QED
    BY <1>1 DEF Passes, Resting

LEMMA PassGoes == ASSUME NEW x \in Passes, NEW p \in Phases PROVE [x EXCEPT !.pc = p] \in Passes
  BY DEF Passes

LEMMA PassReads ==
    ASSUME NEW x \in Passes, NEW p \in Phases, NEW S \in SUBSET Ops, NEW o \in Ops, NEW r \in Revisions
    PROVE  [x EXCEPT !.pc = p, !.ids = S, !.op = o, !.snap = r] \in Passes
  BY DEF Passes

LEMMA PassPushes ==
    ASSUME NEW x \in Passes, NEW p \in Phases, NEW S \in SUBSET Callers
    PROVE  [x EXCEPT !.pc = p, !.subs = S] \in Passes
  BY DEF Passes

LEMMA PassRetires ==
    ASSUME NEW x \in Passes, NEW p \in Phases, NEW S \in SUBSET Callers, NEW c \in Callers \cup {None}
    PROVE  [x EXCEPT !.pc = p, !.subs = S, !.sub = c] \in Passes
  BY DEF Passes

LEMMA OnwardPass ==
    ASSUME NEW S \in SUBSET Ops
    PROVE  Onward(S) \in Passes /\ Onward(S).pc \in {"rest", "reading"} /\ Onward(S).subs = {}
  <1> DEFINE p == IF S = {} THEN "rest" ELSE "reading"
             x == [Resting EXCEPT !.ids = S, !.pc = p]
  <1>1. p \in Phases /\ p \in {"rest", "reading"}
    BY DEF Phases
  <1>2. Onward(S) = x
    BY DEF Onward
  <1> HIDE DEF p
  <1>3. x \in Passes /\ x.pc = p /\ x.subs = {}
    BY <1>1, PassStarts
  <1> HIDE DEF x
  <1> QED
    BY <1>1, <1>2, <1>3

LEMMA NextSubPass ==
    ASSUME TypeInv, NEW S \in SUBSET Callers
    PROVE  /\ NextSub(S) \in Passes
           /\ \/ NextSub(S).pc \in {"rest", "reading"} /\ NextSub(S).subs = {}
              \/ /\ NextSub(S).pc = "pushing" /\ NextSub(S).subs = S
                 /\ NextSub(S).op = sweep.op /\ NextSub(S).snap = sweep.snap
  <1> DEFINE x == [sweep EXCEPT !.pc = "pushing", !.subs = S, !.sub = None]
  <1>1. sweep \in Passes /\ sweep.ids \in SUBSET Ops
    BY DEF TypeInv, Passes
  <1>2. x \in Passes
    BY <1>1, PassRetires DEF Phases
  <1>3. x.pc = "pushing" /\ x.subs = S /\ x.op = sweep.op /\ x.snap = sweep.snap
    BY <1>1 DEF Passes
  <1>4. NextSub(S) = IF S = {} THEN Onward(sweep.ids) ELSE x
    BY DEF NextSub
  <1> HIDE DEF x
  <1> QED
    BY <1>1, <1>2, <1>3, <1>4, OnwardPass

LEMMA PushSub ==
    ASSUME TypeInv, NEW c \in Callers, NEW rev \in Revisions
    PROVE  /\ push(c, rev) \in Subs /\ push(c, rev).in = sub[c].in /\ push(c, rev).done = sub[c].done
           /\ \/ push(c, rev) = sub[c] /\ (sub[c].done \/ rev <= sub[c].sent)
              \/ /\ ~sub[c].done /\ rev > sub[c].sent
                 /\ push(c, rev).sent = rev /\ push(c, rev).buf = rev
  <1> DEFINE x == [sub[c] EXCEPT !.sent = rev, !.buf = rev]
  <1>1. sub[c] \in Subs
    BY DEF TypeInv
  <1>2. x \in Subs /\ x.in = sub[c].in /\ x.done = sub[c].done /\ x.sent = rev /\ x.buf = rev
    BY <1>1, SubPushed DEF Subs
  <1>3. sub[c].sent \in Nat /\ rev \in Nat
    BY <1>1, RevisionNat DEF Subs
  <1>4. push(c, rev) = IF sub[c].done \/ rev <= sub[c].sent THEN sub[c] ELSE x
    BY DEF push
  <1> HIDE DEF x
  <1> QED
    BY <1>1, <1>2, <1>3, <1>4

LEMMA ReadRevisions ==
    ASSUME TypeInv, NEW o \in Ops, NEW rev \in Reads(o) \cup {0}
    PROVE  rev \in Revisions /\ rev <= table[o].rev
  <1>1. floor[o] \in Nat /\ table[o].rev \in Revisions /\ table[o].rev \in Nat
    BY RevisionNat DEF TypeInv, Rows
  <1> QED
    BY <1>1, Constants DEF Reads, Revisions

-----------------------------------------------------------------------------
(* The invariant.                                                          *)

\* The caller is gone, the Watcher is closed, or the newest snapshot the
\* subscription was given is the terminal one.
Told(c) == c \in gone \/ closed \/ Terminal(call[c].op, sub[c].sent)

\* The terminal revision is the last, and no replica is ahead of the row.
TableInv ==
    \A o \in Ops :
        /\ table[o].fin = 0 => table[o].rev < MaxRevision
        /\ table[o].fin # 0 => table[o].fin = table[o].rev
        /\ floor[o] <= table[o].rev

\* The newest snapshot given is received or waiting, and nothing ends a
\* subscription before it is Told.
CallOK(c) ==
    /\ call[c].pc = "read" \/ Watched(c) => call[c].op \in Ops /\ call[c].snap <= table[call[c].op].rev
    /\ Watched(c) => sub[c].sent <= table[call[c].op].rev
    /\ ~Watched(c) => ~sub[c].in /\ ~sub[c].done /\ sub[c].sent = 0
    /\ sub[c].buf # 0 => sub[c].sent = sub[c].buf
    /\ sub[c].buf = 0 => sub[c].sent = got[c]
    /\ got[c] <= sub[c].sent
    /\ sub[c].done \/ call[c].pc \in {"retire", "finish"} => Told(c)

CallInv == \A c \in Callers : CallOK(c)

\* What the loop pushes is a snapshot of what its subscribers watch, and it
\* retires only who is Told.
SweepInv ==
    /\ sweep.pc \in {"read", "pushing", "retire", "finish"} =>
          sweep.op \in Ops /\ sweep.snap <= table[sweep.op].rev
    /\ sweep.pc \in {"rest", "reading"} => sweep.subs = {}
    /\ \A c \in sweep.subs : Watched(c) /\ call[c].op = sweep.op
    /\ sweep.pc \in {"retire", "finish"} =>
          sweep.sub \in Callers /\ Watched(sweep.sub) /\ call[sweep.sub].op = sweep.op /\ Told(sweep.sub)

Inv == TypeInv /\ TableInv /\ CallInv /\ SweepInv

LEMMA TypeInit == Init => TypeInv
  <1> SUFFICES ASSUME Init PROVE TypeInv
    OBVIOUS
  <1>1. Resting \in Passes
    BY ZeroRevision DEF Resting, Passes, Phases
  <1>2. NoSub \in Subs /\ [rev |-> 0, fin |-> 0, reaped |-> FALSE] \in Rows
        /\ [pc |-> "idle", op |-> None, snap |-> 0] \in Watches
    BY ZeroRevision DEF NoSub, Subs, Rows, Watches, Steps
  <1> QED
    BY <1>1, <1>2, ZeroRevision DEF Init, TypeInv

LEMMA InvInit == Init => Inv
  <1> SUFFICES ASSUME Init PROVE Inv
    OBVIOUS
  <1>1. TypeInv
    BY TypeInit
  <1>2. TableInv
    BY Constants DEF Init, TableInv
  <1>3. CallInv
    BY DEF Init, CallInv, CallOK, Watched, NoSub
  <1>4. SweepInv
    BY DEF Init, SweepInv, Resting
  <1> QED
    BY <1>1, <1>2, <1>3, <1>4 DEF Inv

-----------------------------------------------------------------------------
(* What stays.                                                             *)

LEMMA CallStep ==
    ASSUME TypeInv, NEW c \in Callers, NEW x \in Watches, call' = [call EXCEPT ![c] = x]
    PROVE  call' \in [Callers -> Watches] /\ call'[c] = x /\ \A d \in Callers \ {c} : call'[d] = call[d]
  BY DEF TypeInv

LEMMA SubStep ==
    ASSUME TypeInv, NEW c \in Callers, NEW x \in Subs, sub' = [sub EXCEPT ![c] = x]
    PROVE  sub' \in [Callers -> Subs] /\ sub'[c] = x /\ \A d \in Callers \ {c} : sub'[d] = sub[d]
  BY DEF TypeInv

\* A caller that a step does not touch.
LEMMA OtherCaller ==
    ASSUME CallInv, NEW d \in Callers, call'[d] = call[d], sub'[d] = sub[d], got'[d] = got[d],
           UNCHANGED table, gone \subseteq gone', closed => closed'
    PROVE  CallOK(d)' /\ (Told(d) => Told(d)')
  BY DEF CallInv, CallOK, Watched, Told, Terminal

\* The loop, in the steps of others: whoever it is busy with stays watched,
\* and stays Told.
LEMMA LoopStays ==
    ASSUME Inv, UNCHANGED <<sweep, table>>,
           \A c \in Callers : Watched(c) => Watched(c)' /\ call'[c].op = call[c].op,
           \A c \in Callers : Watched(c) /\ Told(c) => Told(c)'
    PROVE  SweepInv'
  <1>1. sweep.subs \subseteq Callers
    BY DEF Inv, TypeInv, Passes
  <1> QED
    BY <1>1 DEF Inv, SweepInv

\* A snapshot of the row is no newer than a terminal one.
LEMMA PushKeepsTold ==
    ASSUME Inv, NEW c \in Callers, Watched(c), NEW rev \in Revisions, rev <= table[call[c].op].rev
    PROVE  /\ Terminal(call[c].op, sub[c].sent) => push(c, rev) = sub[c]
           /\ Terminal(call[c].op, rev) => sub[c].done \/ Terminal(call[c].op, push(c, rev).sent)
           /\ push(c, rev).sent <= table[call[c].op].rev
  <1> DEFINE o == call[c].op
  <1>1. o \in Ops /\ sub[c].sent <= table[o].rev
    BY DEF Inv, CallInv, CallOK
  <1>2. sub[c].sent \in Nat /\ rev \in Nat /\ table[o].rev \in Nat /\ table[o].fin \in Nat
    BY <1>1, RevisionNat DEF Inv, TypeInv, Subs, Rows
  <1>3. table[o].fin # 0 => table[o].fin = table[o].rev
    BY <1>1 DEF Inv, TableInv
  <1>4. TypeInv
    BY DEF Inv
  <1> HIDE DEF o
  <1>5. \/ push(c, rev) = sub[c] /\ (sub[c].done \/ rev <= sub[c].sent)
        \/ ~sub[c].done /\ rev > sub[c].sent /\ push(c, rev).sent = rev
    BY <1>4, PushSub
  <1> USE DEF o
  <1> QED
    BY <1>1, <1>2, <1>3, <1>5 DEF Terminal

-----------------------------------------------------------------------------
(* The row's life.                                                         *)

LEMMA InvTable ==
    ASSUME Inv, NEW o \in Ops, Write(o) \/ ReapRow(o) \/ CatchUp(o)
    PROVE  Inv'
  <1>1. TypeInv /\ TableInv /\ CallInv /\ SweepInv
    BY DEF Inv
  <1>2. UNCHANGED <<limit, call, sub, gone, got, sweep, closed>>
    BY DEF Write, ReapRow, CatchUp, watcher
  <1>3. /\ table[o] \in Rows /\ table[o].rev \in Revisions /\ table[o].rev \in Nat /\ floor[o] \in Nat
        /\ table[o].fin \in Nat
    BY <1>1, RevisionNat DEF TypeInv, Rows
  <1>4. /\ table' \in [Ops -> Rows] /\ floor' \in [Ops -> Revisions]
        /\ \A p \in Ops \ {o} : table'[p] = table[p] /\ floor'[p] = floor[p]
        /\ table'[o].rev >= table[o].rev
        /\ table[o].fin # 0 => table'[o].rev = table[o].rev /\ table'[o].fin = table[o].fin
        /\ table'[o].fin = 0 => table'[o].rev < MaxRevision
        /\ table'[o].fin # 0 => table'[o].fin = table'[o].rev
        /\ floor'[o] <= table'[o].rev
    <2>1. CASE Write(o) /\ table' = [table EXCEPT ![o].rev = @ + 1]
      <3> DEFINE x == [table[o] EXCEPT !.rev = table[o].rev + 1]
      <3>1. table[o].fin = 0 /\ table[o].rev < MaxRevision /\ floor[o] <= table[o].rev
        BY <1>1, <2>1 DEF Write, TableInv
      <3>2. table[o].rev + 1 \in Revisions
        BY <1>3, <3>1, Constants DEF Revisions
      <3>3. x \in Rows /\ x.rev = table[o].rev + 1 /\ x.fin = table[o].fin
        BY <1>3, <3>2, RowWrites DEF Rows
      <3>4. table' = [table EXCEPT ![o] = x] /\ floor' = floor
        BY <2>1 DEF Write
      <3>5. table'[o].rev < MaxRevision
        <4>1. table[o].rev + 1 < MaxRevision
          <5>1. CASE table[o].rev + 1 < MaxRevision
            BY <5>1
          <5>2. CASE table' = [table EXCEPT ![o].rev = @ + 1, ![o].fin = table[o].rev + 1]
            <6>1. table'[o].fin = table[o].rev + 1
              BY <1>1, <1>3, <5>2 DEF TypeInv, Rows
            <6>2. table'[o].fin = 0
              BY <1>1, <3>1, <3>3, <3>4 DEF TypeInv
            <6> QED
              BY <1>3, <6>1, <6>2
          <5> QED
            BY <2>1, <5>1, <5>2 DEF Write
        <4> HIDE DEF x
        <4> QED
          BY <1>1, <3>3, <3>4, <4>1 DEF TypeInv
      <3> HIDE DEF x
      <3> QED
        BY <1>1, <1>3, <3>1, <3>3, <3>4, <3>5 DEF TypeInv
    <2>2. CASE Write(o) /\ table' = [table EXCEPT ![o].rev = @ + 1, ![o].fin = table[o].rev + 1]
      <3> DEFINE x == [table[o] EXCEPT !.rev = table[o].rev + 1, !.fin = table[o].rev + 1]
      <3>1. table[o].fin = 0 /\ table[o].rev < MaxRevision /\ floor[o] <= table[o].rev
        BY <1>1, <2>2 DEF Write, TableInv
      <3>2. table[o].rev + 1 \in Revisions
        BY <1>3, <3>1, Constants DEF Revisions
      <3>3. x \in Rows /\ x.rev = table[o].rev + 1 /\ x.fin = table[o].rev + 1
        BY <1>3, <3>2, RowEnds DEF Rows
      <3>4. table' = [table EXCEPT ![o] = x] /\ floor' = floor
        BY <2>2 DEF Write
      <3> HIDE DEF x
      <3> QED
        BY <1>1, <1>3, <3>1, <3>3, <3>4 DEF TypeInv
    <2>3. CASE ReapRow(o)
      <3> DEFINE x == [table[o] EXCEPT !.reaped = TRUE]
      <3>1. x \in Rows /\ x.rev = table[o].rev /\ x.fin = table[o].fin
        BY <1>3, RowReaped DEF Rows
      <3>2. table' = [table EXCEPT ![o] = x] /\ floor' = floor
        BY <2>3 DEF ReapRow
      <3> HIDE DEF x
      <3> QED
        BY <1>1, <1>3, <3>1, <3>2 DEF TypeInv, TableInv
    <2>4. CASE CatchUp(o)
      BY <1>1, <1>3, <2>4 DEF CatchUp, TypeInv, TableInv
    <2> QED
      BY <2>1, <2>2, <2>3, <2>4 DEF Write
  <1>5. TypeInv' /\ TableInv'
    BY <1>1, <1>2, <1>4 DEF TypeInv, TableInv
  <1>6. \A p \in Ops : table[p].rev \in Nat /\ table'[p].rev \in Nat /\ table'[p].rev >= table[p].rev
    BY <1>1, <1>4, <1>5, RevisionNat DEF TypeInv, Rows
  <1>7. \A p \in Ops : \A r : Terminal(p, r) => Terminal(p, r)'
    BY <1>4 DEF Terminal
  <1>8. CallInv'
    <2> SUFFICES ASSUME NEW c \in Callers PROVE CallOK(c)'
      BY DEF CallInv
    <2>1. CallOK(c)
      BY <1>1 DEF CallInv
    <2>2. call[c].snap \in Nat /\ sub[c].sent \in Nat
      BY <1>1, RevisionNat DEF TypeInv, Watches, Subs
    <2>3. Told(c) /\ (call[c].op \in Ops) => Told(c)'
      BY <1>2, <1>7 DEF Told
    <2> QED
      BY <1>2, <1>6, <2>1, <2>2, <2>3 DEF CallOK, Watched
  <1>9. SweepInv'
    <2>1. sweep.snap \in Nat /\ sweep.subs \subseteq Callers
      BY <1>1, RevisionNat DEF TypeInv, Passes
    <2>2. \A c \in Callers : Told(c) /\ call[c].op \in Ops => Told(c)'
      BY <1>2, <1>7 DEF Told
    <2>3. \A c \in Callers : Watched(c) <=> Watched(c)'
      BY <1>2 DEF Watched
    <2> QED
      BY <1>1, <1>2, <1>6, <2>1, <2>2, <2>3 DEF SweepInv
  <1> QED
    BY <1>5, <1>8, <1>9 DEF Inv

-----------------------------------------------------------------------------
(* Watch, its goroutine and its caller.                                    *)

\* A step of one caller.
LEMMA OneCaller ==
    ASSUME Inv, NEW c \in Callers, TypeInv', UNCHANGED <<table, floor, sweep>>,
           gone \subseteq gone', closed => closed',
           \A d \in Callers \ {c} : call'[d] = call[d] /\ sub'[d] = sub[d] /\ got'[d] = got[d],
           CallOK(c)', Watched(c) => Watched(c)' /\ call'[c].op = call[c].op,
           Watched(c) /\ Told(c) => Told(c)'
    PROVE  Inv'
  <1>1. CallInv /\ TableInv
    BY DEF Inv
  <1>2. \A d \in Callers \ {c} : CallOK(d)' /\ (Told(d) => Told(d)')
    BY <1>1, OtherCaller
  <1>3. CallInv'
    BY <1>2 DEF CallInv
  <1>4. \A d \in Callers : Watched(d) => Watched(d)' /\ call'[d].op = call[d].op
    BY DEF Watched
  <1>5. SweepInv'
    BY <1>2, <1>4, LoopStays
  <1>6. TableInv'
    BY <1>1 DEF TableInv
  <1> QED
    BY <1>3, <1>5, <1>6 DEF Inv

LEMMA InvWatch ==
    ASSUME Inv, NEW c \in Callers, NEW o \in Ops, Watch(c, o)
    PROVE  Inv'
  <1>1. TypeInv /\ CallOK(c)
    BY DEF Inv, CallInv
  <1>2. PICK rev \in Reads(o) \cup {0} :
            call' = [call EXCEPT ![c] = IF rev = 0 THEN Refused ELSE [pc |-> "read", op |-> o, snap |-> rev]]
    BY DEF Watch
  <1>3. rev \in Revisions /\ rev <= table[o].rev
    BY <1>1, ReadRevisions
  <1> DEFINE r == [pc |-> "read", op |-> o, snap |-> rev]
             x == IF rev = 0 THEN Refused ELSE r
  <1>4. r \in Watches /\ r.pc = "read" /\ r.op = o /\ r.snap = rev
    BY <1>3, WatchReads
  <1> HIDE DEF r
  <1>5. x \in Watches /\ (x.pc = "refused" \/ (x.pc = "read" /\ x.op = o /\ x.snap = rev))
    BY <1>4, WatchRefused
  <1>6. call' = [call EXCEPT ![c] = x]
    BY <1>2 DEF r
  <1> HIDE DEF x
  <1>7. call' \in [Callers -> Watches] /\ call'[c] = x /\ \A d \in Callers \ {c} : call'[d] = call[d]
    BY <1>1, <1>5, <1>6, CallStep
  <1>8. UNCHANGED <<limit, table, floor, sub, gone, got, sweep, closed>> /\ call[c].pc = "idle"
    BY DEF Watch
  <1>9. ~Watched(c) /\ ~Watched(c)' /\ (Told(c)' => TRUE)
    BY <1>5, <1>7, <1>8 DEF Watched
  <1>10. CallOK(c)'
    BY <1>1, <1>3, <1>5, <1>7, <1>8, <1>9 DEF CallOK
  <1>11. TypeInv'
    BY <1>1, <1>7, <1>8 DEF TypeInv
  <1> QED
    BY <1>7, <1>8, <1>9, <1>10, <1>11, OneCaller

LEMMA InvSubscribe ==
    ASSUME Inv, NEW c \in Callers, subscribe(c)
    PROVE  Inv'
  <1>1. TypeInv /\ CallOK(c)
    BY DEF Inv, CallInv
  <1>2. UNCHANGED <<limit, table, floor, gone, got, sweep, closed>> /\ call[c].pc = "read"
    BY DEF subscribe
  <1>3. ~Watched(c)
    BY <1>2 DEF Watched
  <1>4. CASE call' = [call EXCEPT ![c] = Refused] /\ UNCHANGED sub
    <2>1. call' \in [Callers -> Watches] /\ call'[c] = Refused /\ \A d \in Callers \ {c} : call'[d] = call[d]
      BY <1>1, <1>4, WatchRefused, CallStep
    <2>2. CallOK(c)'
      BY <1>1, <1>2, <1>3, <1>4, <2>1, WatchRefused DEF CallOK, Watched
    <2>3. TypeInv'
      BY <1>1, <1>2, <1>4, <2>1 DEF TypeInv
    <2> QED
      BY <1>2, <1>3, <1>4, <2>1, <2>2, <2>3, OneCaller
  <1>5. CASE Goto(c, "subscribed") /\ sub' = [sub EXCEPT ![c].in = TRUE]
    <2> DEFINE x == [call[c] EXCEPT !.pc = "subscribed"]
               s == [sub[c] EXCEPT !.in = TRUE]
    <2>1. call[c] \in Watches /\ sub[c] \in Subs
      BY <1>1 DEF TypeInv
    <2>2. x \in Watches /\ x.pc = "subscribed" /\ x.op = call[c].op /\ x.snap = call[c].snap
      BY <2>1, WatchGoes DEF Watches, Steps
    <2>3. s \in Subs /\ s.sent = sub[c].sent /\ s.buf = sub[c].buf /\ s.done = sub[c].done
      BY <2>1, SubIn DEF Subs
    <2>4. call' = [call EXCEPT ![c] = x] /\ sub' = [sub EXCEPT ![c] = s]
      BY <1>5 DEF Goto
    <2> HIDE DEF x, s
    <2>5. call' \in [Callers -> Watches] /\ call'[c] = x /\ \A d \in Callers \ {c} : call'[d] = call[d]
      BY <1>1, <2>2, <2>4, CallStep
    <2>6. sub' \in [Callers -> Subs] /\ sub'[c] = s /\ \A d \in Callers \ {c} : sub'[d] = sub[d]
      BY <1>1, <2>3, <2>4, SubStep
    <2>7. call[c].op \in Ops /\ sub[c].sent = 0 /\ table[call[c].op].rev \in Nat
      BY <1>1, <1>2, <1>3, RevisionNat DEF CallOK, TypeInv, Rows
    <2>8. CallOK(c)'
      BY <1>1, <1>2, <1>3, <2>2, <2>3, <2>5, <2>6, <2>7 DEF CallOK, Watched
    <2>9. TypeInv'
      BY <1>1, <1>2, <2>5, <2>6 DEF TypeInv
    <2> QED
      BY <1>2, <1>3, <2>5, <2>6, <2>8, <2>9, OneCaller
  <1> QED
    BY <1>4, <1>5 DEF subscribe

LEMMA InvPushFirst ==
    ASSUME Inv, NEW c \in Callers, pushFirst(c)
    PROVE  Inv'
  <1>1. TypeInv /\ CallOK(c)
    BY DEF Inv, CallInv
  <1>2. UNCHANGED <<limit, table, floor, gone, got, sweep, closed>> /\ call[c].pc = "subscribed"
    BY DEF pushFirst
  <1>3. Watched(c) /\ call[c].op \in Ops /\ call[c].snap <= table[call[c].op].rev
    BY <1>1, <1>2 DEF Watched, CallOK
  <1> DEFINE p == IF Terminal(call[c].op, call[c].snap) THEN "retire" ELSE "waiting"
             x == [call[c] EXCEPT !.pc = p, !.snap = 0]
             s == push(c, call[c].snap)
  <1>4. call' = [call EXCEPT ![c] = x] /\ sub' = [sub EXCEPT ![c] = s]
    BY DEF pushFirst
  <1>5. /\ p \in Steps /\ p \in {"retire", "waiting"}
        /\ p = "retire" => Terminal(call[c].op, call[c].snap)
    BY DEF Steps
  <1> HIDE DEF p
  <1>6. call[c] \in Watches /\ call[c].snap \in Revisions
    BY <1>1 DEF TypeInv, Watches
  <1>7. x \in Watches /\ x.pc = p /\ x.op = call[c].op /\ x.snap = 0
    BY <1>5, <1>6, ZeroRevision, WatchPushed DEF Watches
  <1> HIDE DEF x
  <1>8. /\ Terminal(call[c].op, sub[c].sent) => s = sub[c]
        /\ Terminal(call[c].op, call[c].snap) => sub[c].done \/ Terminal(call[c].op, s.sent)
        /\ s.sent <= table[call[c].op].rev
    BY <1>3, <1>6, PushKeepsTold
  <1>9. /\ s \in Subs /\ s.in = sub[c].in /\ s.done = sub[c].done
        /\ \/ s = sub[c]
           \/ ~sub[c].done /\ call[c].snap > sub[c].sent /\ s.sent = call[c].snap /\ s.buf = call[c].snap
    BY <1>1, <1>6, PushSub
  <1> HIDE DEF s
  <1>10. call' \in [Callers -> Watches] /\ call'[c] = x /\ \A d \in Callers \ {c} : call'[d] = call[d]
    BY <1>1, <1>4, <1>7, CallStep
  <1>11. sub' \in [Callers -> Subs] /\ sub'[c] = s /\ \A d \in Callers \ {c} : sub'[d] = sub[d]
    BY <1>1, <1>4, <1>9, SubStep
  <1>12. Told(c) => Told(c)'
    BY <1>2, <1>7, <1>8, <1>10, <1>11 DEF Told, Terminal
  <1>13. Watched(c)' /\ call'[c].op = call[c].op
    BY <1>5, <1>7, <1>10 DEF Watched
  <1>14. s.done \/ p = "retire" => Told(c)'
    <2>1. sub[c].done => Told(c)'
      BY <1>1, <1>12 DEF CallOK
    <2>2. Terminal(call[c].op, s.sent) => Told(c)'
      BY <1>2, <1>7, <1>10, <1>11 DEF Told, Terminal
    <2> QED
      BY <1>5, <1>8, <1>9, <2>1, <2>2
  <1>15. sub[c].sent \in Nat /\ call[c].snap \in Nat /\ got[c] \in Nat /\ table[call[c].op].rev \in Nat
    BY <1>1, <1>3, <1>6, RevisionNat DEF TypeInv, Subs, Rows
  <1>16. CallOK(c)'
    BY <1>1, <1>2, <1>3, <1>5, <1>7, <1>8, <1>9, <1>10, <1>11, <1>13, <1>14, <1>15 DEF CallOK
  <1>17. TypeInv'
    BY <1>1, <1>2, <1>10, <1>11 DEF TypeInv
  <1> QED
    BY <1>2, <1>10, <1>11, <1>12, <1>13, <1>16, <1>17, OneCaller

LEMMA InvRetire ==
    ASSUME Inv, NEW c \in Callers, retire(c)
    PROVE  Inv'
  <1>1. TypeInv /\ CallOK(c)
    BY DEF Inv, CallInv
  <1>2. UNCHANGED <<limit, table, floor, gone, got, sweep, closed>>
    BY DEF retire
  <1>3. call[c] \in Watches /\ sub[c] \in Subs
    BY <1>1 DEF TypeInv
  <1>4. PICK p \in {"finish", "over"}, s \in Subs :
            /\ Goto(c, p) /\ sub' = [sub EXCEPT ![c] = s]
            /\ s.sent = sub[c].sent /\ s.buf = sub[c].buf
            /\ Watched(c) /\ Told(c)
    <2>1. CASE /\ call[c].pc = "retire" \/ (call[c].pc = "waiting" /\ Woken(c))
               /\ unsubscribe(c) /\ Goto(c, "finish")
      <3> DEFINE s == [sub[c] EXCEPT !.in = FALSE]
      <3>1. s \in Subs /\ s.sent = sub[c].sent /\ s.buf = sub[c].buf
        BY <1>3, SubIn DEF Subs
      <3>2. sub' = [sub EXCEPT ![c] = s]
        BY <2>1 DEF unsubscribe
      <3>3. Watched(c)
        BY <2>1 DEF Watched
      <3>4. Told(c)
        BY <1>1, <2>1 DEF CallOK, Woken, Told
      <3> HIDE DEF s
      <3> QED
        BY <2>1, <3>1, <3>2, <3>3, <3>4
    <2>2. CASE call[c].pc = "finish" /\ finish(c) /\ Goto(c, "over")
      <3> DEFINE s == [sub[c] EXCEPT !.done = TRUE]
      <3>1. s \in Subs /\ s.sent = sub[c].sent /\ s.buf = sub[c].buf
        BY <1>3, SubDone DEF Subs
      <3>2. sub' = [sub EXCEPT ![c] = s]
        BY <2>2 DEF finish
      <3>3. Watched(c)
        BY <2>2 DEF Watched
      <3>4. Told(c)
        BY <1>1, <2>2 DEF CallOK
      <3> HIDE DEF s
      <3> QED
        BY <2>2, <3>1, <3>2, <3>3, <3>4
    <2> QED
      BY <2>1, <2>2 DEF retire
  <1> DEFINE x == [call[c] EXCEPT !.pc = p]
  <1>5. x \in Watches /\ x.pc = p /\ x.op = call[c].op /\ x.snap = call[c].snap
    BY <1>3, WatchGoes DEF Watches, Steps
  <1>6. call' = [call EXCEPT ![c] = x]
    BY <1>4 DEF Goto
  <1> HIDE DEF x
  <1>7. call' \in [Callers -> Watches] /\ call'[c] = x /\ \A d \in Callers \ {c} : call'[d] = call[d]
    BY <1>1, <1>5, <1>6, CallStep
  <1>8. sub' \in [Callers -> Subs] /\ sub'[c] = s /\ \A d \in Callers \ {c} : sub'[d] = sub[d]
    BY <1>1, <1>4, SubStep
  <1>9. Told(c)' /\ Watched(c)'
    BY <1>2, <1>4, <1>5, <1>7, <1>8 DEF Told, Watched, Terminal
  <1>10. CallOK(c)'
    BY <1>1, <1>2, <1>4, <1>5, <1>7, <1>8, <1>9 DEF CallOK
  <1>11. TypeInv'
    BY <1>1, <1>2, <1>7, <1>8 DEF TypeInv
  <1> QED
    BY <1>2, <1>5, <1>7, <1>8, <1>9, <1>10, <1>11, OneCaller

LEMMA InvReceive ==
    ASSUME Inv, NEW c \in Callers, receive(c)
    PROVE  Inv'
  <1>1. TypeInv /\ CallOK(c)
    BY DEF Inv, CallInv
  <1> DEFINE s == [sub[c] EXCEPT !.buf = 0]
  <1>2. sub[c] \in Subs /\ sub[c].buf \in Revisions /\ sub[c].sent \in Nat
    BY <1>1, RevisionNat DEF TypeInv, Subs
  <1>3. s \in Subs /\ s.in = sub[c].in /\ s.sent = sub[c].sent /\ s.buf = 0 /\ s.done = sub[c].done
    BY <1>2, ZeroRevision, SubRead DEF Subs
  <1>4. sub' = [sub EXCEPT ![c] = s]
    BY DEF receive
  <1> HIDE DEF s
  <1>5. sub' \in [Callers -> Subs] /\ sub'[c] = s /\ \A d \in Callers \ {c} : sub'[d] = sub[d]
    BY <1>1, <1>3, <1>4, SubStep
  <1>6. /\ got' \in [Callers -> Revisions] /\ got'[c] = sub[c].buf
        /\ \A d \in Callers \ {c} : got'[d] = got[d]
    BY <1>1, <1>2 DEF receive, TypeInv
  <1>7. UNCHANGED <<limit, table, floor, call, gone, sweep, closed>> /\ sub[c].buf # 0
    BY DEF receive
  <1>8. (Told(c) <=> Told(c)') /\ (Watched(c) <=> Watched(c)')
    BY <1>3, <1>5, <1>7 DEF Told, Watched, Terminal
  <1>9. CallOK(c)'
    BY <1>1, <1>2, <1>3, <1>5, <1>6, <1>7, <1>8 DEF CallOK
  <1>10. TypeInv'
    BY <1>1, <1>5, <1>6, <1>7 DEF TypeInv
  <1> QED
    BY <1>5, <1>6, <1>7, <1>8, <1>9, <1>10, OneCaller

\* A caller that leaves and a Watcher that is closed only add to who is Told.
LEMMA InvLeaveClose ==
    ASSUME Inv, Close \/ \E c \in Callers : leave(c)
    PROVE  Inv'
  <1>1. TypeInv /\ TableInv /\ CallInv
    BY DEF Inv
  <1>2. /\ UNCHANGED <<limit, table, floor, call, sub, got, sweep>>
        /\ gone \subseteq gone' /\ gone' \subseteq Callers /\ (closed => closed') /\ closed' \in BOOLEAN
    BY <1>1 DEF Close, leave, TypeInv
  <1>3. \A c \in Callers : CallOK(c)' /\ (Told(c) => Told(c)') /\ (Watched(c) => Watched(c)')
    BY <1>1, <1>2, OtherCaller DEF Watched
  <1>4. SweepInv'
    BY <1>2, <1>3, LoopStays
  <1> QED
    BY <1>1, <1>2, <1>3, <1>4 DEF Inv, TypeInv, TableInv, CallInv

-----------------------------------------------------------------------------
(* The loop.                                                               *)

\* A step that moves the loop and nothing else.
LEMMA LoopMoves ==
    ASSUME Inv, UNCHANGED <<limit, table, floor, call, sub, gone, got, closed>>, sweep' \in Passes, SweepInv'
    PROVE  Inv'
  <1>1. TypeInv /\ TableInv /\ CallInv
    BY DEF Inv
  <1>2. \A c \in Callers : CallOK(c)'
    BY <1>1, OtherCaller
  <1> QED
    BY <1>1, <1>2 DEF Inv, TypeInv, TableInv, CallInv

LEMMA InvOnward ==
    ASSUME Inv, UNCHANGED <<limit, table, floor, call, sub, gone, got, closed>>,
           NEW S \in SUBSET Ops, sweep' = Onward(S)
    PROVE  Inv'
  <1>1. sweep' \in Passes /\ sweep'.pc \in {"rest", "reading"} /\ sweep'.subs = {}
    BY OnwardPass
  <1>2. SweepInv'
    BY <1>1 DEF SweepInv
  <1> QED
    BY <1>1, <1>2, LoopMoves

LEMMA InvReading ==
    ASSUME Inv,
           watchedByScope \/ sweepSubscribers \/ \E o \in Ops : getMany(o) \/ getManyFails(o)
    PROVE  Inv'
  <1>1. TypeInv /\ CallInv /\ SweepInv
    BY DEF Inv
  <1>2. sweep \in Passes /\ sweep.ids \in SUBSET Ops /\ sweep.subs \in SUBSET Callers /\ sweep.snap \in Revisions
    BY <1>1 DEF TypeInv, Passes
  <1>3. UNCHANGED <<limit, table, floor, call, sub, gone, got, closed>>
    BY DEF watchedByScope, sweepSubscribers, getMany, getManyFails
  <1>4. \A c \in Registered : Watched(c) /\ call[c].op \in Ops
    BY <1>1 DEF CallInv, CallOK, Registered
  <1>5. CASE watchedByScope
    <2> DEFINE S == {call[c].op : c \in Registered}
    <2>1. S \in SUBSET Ops
      BY <1>4
    <2>2. sweep' = [Resting EXCEPT !.ids = S, !.pc = "reading"]
      BY <1>5 DEF watchedByScope, Resting
    <2> HIDE DEF S
    <2>3. sweep' \in Passes /\ sweep'.pc = "reading" /\ sweep'.subs = {}
      BY <2>1, <2>2, PassStarts DEF Phases
    <2>4. SweepInv'
      BY <2>3 DEF SweepInv
    <2> QED
      BY <1>3, <2>3, <2>4, LoopMoves
  <1>6. CASE sweepSubscribers
    <2> DEFINE S == subscribersOf(sweep.op)
               x == [sweep EXCEPT !.pc = "pushing", !.subs = S]
    <2>1. S \in SUBSET Callers /\ \A c \in S : Watched(c) /\ call[c].op = sweep.op
      BY <1>4 DEF subscribersOf, Registered
    <2> HIDE DEF S
    <2>2. x \in Passes /\ x.pc = "pushing" /\ x.subs = S /\ x.op = sweep.op /\ x.snap = sweep.snap
      BY <1>2, <2>1, PassPushes DEF Phases, Passes
    <2>3. sweep' = Onward(sweep.ids) \/ sweep' = x
      BY <1>6 DEF sweepSubscribers, S
    <2> HIDE DEF x
    <2>4. ASSUME sweep' = x PROVE Inv'
      <3>1. sweep.op \in Ops /\ sweep.snap <= table[sweep.op].rev
        BY <1>1, <1>6 DEF sweepSubscribers, SweepInv
      <3>2. \A c \in S : Watched(c)' /\ call'[c].op = sweep.op
        BY <1>3, <2>1 DEF Watched
      <3>3. SweepInv'
        BY <1>3, <2>2, <2>4, <3>1, <3>2 DEF SweepInv
      <3> QED
        BY <1>3, <2>2, <2>4, <3>3, LoopMoves
    <2> QED
      BY <1>2, <1>3, <2>3, <2>4, InvOnward
  <1>7. ASSUME NEW o \in Ops, getMany(o) PROVE Inv'
    <2>1. PICK rev \in Reads(o) :
              sweep' = IF rev = 0 THEN Onward(sweep.ids \ {o})
                       ELSE [sweep EXCEPT !.pc = "read", !.ids = @ \ {o}, !.op = o, !.snap = rev]
      BY <1>7 DEF getMany
    <2>2. rev \in Revisions /\ rev <= table[o].rev
      BY <1>1, ReadRevisions
    <2> DEFINE S == sweep.ids \ {o}
               x == [sweep EXCEPT !.pc = "read", !.ids = S, !.op = o, !.snap = rev]
    <2>3. S \in SUBSET Ops
      BY <1>2
    <2>4. sweep' = Onward(S) \/ sweep' = x
      BY <2>1
    <2> HIDE DEF S
    <2>5. x \in Passes
      BY <1>2, <2>2, <2>3, PassReads DEF Phases
    <2>6. x.pc = "read" /\ x.subs = sweep.subs /\ x.op = o /\ x.snap = rev
      BY <1>2 DEF Passes
    <2> HIDE DEF x
    <2>7. ASSUME sweep' = x PROVE Inv'
      <3>1. sweep.subs = {}
        BY <1>1, <1>7 DEF getMany, SweepInv
      <3>2. SweepInv'
        BY <1>3, <2>2, <2>6, <2>7, <3>1 DEF SweepInv
      <3> QED
        BY <1>3, <2>5, <2>7, <3>2, LoopMoves
    <2> QED
      BY <1>3, <2>3, <2>4, <2>7, InvOnward
  <1>8. ASSUME NEW o \in Ops, getManyFails(o) PROVE Inv'
    <2>1. sweep' = Onward(sweep.ids \ {o}) /\ sweep.ids \ {o} \in SUBSET Ops
      BY <1>2, <1>8 DEF getManyFails
    <2> QED
      BY <1>3, <2>1, InvOnward
  <1> QED
    BY <1>5, <1>6, <1>7, <1>8

\* The loop's steps on a subscription c: what it does to c, and where it is
\* afterwards.
LEMMA LoopTouches ==
    ASSUME Inv, NEW c \in Callers, NEW s \in Subs, sub' = [sub EXCEPT ![c] = s],
           UNCHANGED <<limit, table, floor, call, gone, got, closed>>,
           Watched(c), Told(c) => Told(c)',
           s.sent <= table[call[c].op].rev,
           s.buf # 0 => s.sent = s.buf, s.buf = 0 => s.sent = got[c], got[c] <= s.sent,
           s.done => Told(c)',
           sweep' \in Passes, SweepInv'
    PROVE  Inv'
  <1>1. TypeInv /\ TableInv /\ CallInv /\ CallOK(c)
    BY DEF Inv, CallInv
  <1>2. sub' \in [Callers -> Subs] /\ sub'[c] = s /\ \A d \in Callers \ {c} : sub'[d] = sub[d]
    BY <1>1, SubStep
  <1>3. \A d \in Callers \ {c} : CallOK(d)'
    BY <1>1, <1>2, OtherCaller
  <1>4. Watched(c)'
    BY DEF Watched
  <1>5. CallOK(c)'
    BY <1>1, <1>2, <1>4 DEF CallOK
  <1>6. CallInv'
    BY <1>3, <1>5 DEF CallInv
  <1>7. TypeInv' /\ TableInv'
    BY <1>1, <1>2 DEF TypeInv, TableInv
  <1> QED
    BY <1>6, <1>7 DEF Inv

\* Where the loop is once it is done with a subscription.
LEMMA LoopNext ==
    ASSUME Inv, NEW S \in SUBSET Callers, S \subseteq sweep.subs, sweep' = NextSub(S),
           sweep.pc \in {"pushing", "finish"}, UNCHANGED <<table, call>>
    PROVE  sweep' \in Passes /\ SweepInv'
  <1>1. TypeInv /\ SweepInv
    BY DEF Inv
  <1>2. /\ sweep' \in Passes
        /\ \/ sweep'.pc \in {"rest", "reading"} /\ sweep'.subs = {}
           \/ sweep'.pc = "pushing" /\ sweep'.subs = S /\ sweep'.op = sweep.op /\ sweep'.snap = sweep.snap
    BY <1>1, NextSubPass
  <1>3. sweep.op \in Ops /\ sweep.snap <= table[sweep.op].rev
    BY <1>1 DEF SweepInv
  <1>4. \A c \in S : Watched(c)' /\ call'[c].op = sweep.op
    BY <1>1 DEF SweepInv, Watched
  <1> QED
    BY <1>2, <1>3, <1>4 DEF SweepInv

LEMMA InvSweepPush ==
    ASSUME Inv, NEW c \in Callers, sweepPush(c)
    PROVE  Inv'
  <1>1. TypeInv /\ CallOK(c) /\ SweepInv
    BY DEF Inv, CallInv
  <1>2. sweep \in Passes /\ sweep.snap \in Revisions /\ sweep.subs \in SUBSET Callers
    BY <1>1 DEF TypeInv, Passes
  <1>3. UNCHANGED <<limit, table, floor, call, gone, got, closed>> /\ sweep.pc = "pushing" /\ c \in sweep.subs
    BY DEF sweepPush
  <1>4. /\ Watched(c) /\ call[c].op = sweep.op /\ sweep.op \in Ops /\ sweep.snap <= table[sweep.op].rev
        /\ \A d \in sweep.subs : Watched(d) /\ call[d].op = sweep.op
    BY <1>1, <1>3 DEF SweepInv
  <1> DEFINE s == push(c, sweep.snap)
             S == sweep.subs \ {c}
             x == [sweep EXCEPT !.pc = "retire", !.subs = S, !.sub = c]
  <1>5. sub' = [sub EXCEPT ![c] = s]
    BY DEF sweepPush
  <1>6. sweep' = IF Terminal(sweep.op, sweep.snap) THEN x ELSE NextSub(S)
    BY DEF sweepPush
  <1>7. /\ Terminal(call[c].op, sub[c].sent) => s = sub[c]
        /\ Terminal(call[c].op, sweep.snap) => sub[c].done \/ Terminal(call[c].op, s.sent)
        /\ s.sent <= table[call[c].op].rev
    BY <1>2, <1>4, PushKeepsTold
  <1>8. /\ s \in Subs /\ s.done = sub[c].done
        /\ \/ s = sub[c]
           \/ ~sub[c].done /\ sweep.snap > sub[c].sent /\ s.sent = sweep.snap /\ s.buf = sweep.snap
    BY <1>1, <1>2, PushSub
  <1> HIDE DEF s
  <1>9. S \in SUBSET Callers /\ S \subseteq sweep.subs
    BY <1>2
  <1> HIDE DEF S
  <1>10. x \in Passes
    BY <1>2, <1>9, PassRetires DEF Phases
  <1>11. x.pc = "retire" /\ x.subs = S /\ x.sub = c /\ x.op = sweep.op /\ x.snap = sweep.snap
    BY <1>2 DEF Passes
  <1> HIDE DEF x
  <1>12. sub'[c] = s
    BY <1>1, <1>5, <1>8, SubStep
  <1>13. Told(c) => Told(c)'
    BY <1>3, <1>7, <1>12 DEF Told, Terminal
  <1>14. sub[c].done \/ Terminal(call[c].op, s.sent) => Told(c)'
    <2>1. sub[c].done => Told(c)'
      BY <1>1, <1>13 DEF CallOK
    <2>2. Terminal(call[c].op, s.sent) => Told(c)'
      BY <1>3, <1>12 DEF Told, Terminal
    <2> QED
      BY <2>1, <2>2
  <1>15. sweep' \in Passes /\ SweepInv'
    <2>1. ASSUME Terminal(sweep.op, sweep.snap) PROVE sweep' \in Passes /\ SweepInv'
      <3>1. sweep' = x
        BY <1>6, <2>1
      <3>2. Told(c)'
        BY <1>4, <1>7, <1>14, <2>1
      <3>3. Watched(c)' /\ call'[c].op = sweep.op /\ \A d \in S : Watched(d)' /\ call'[d].op = sweep.op
        BY <1>3, <1>4, <1>9 DEF Watched
      <3> QED
        BY <1>3, <1>4, <1>10, <1>11, <3>1, <3>2, <3>3 DEF SweepInv
    <2>2. ASSUME ~Terminal(sweep.op, sweep.snap) PROVE sweep' \in Passes /\ SweepInv'
      <3>1. sweep' = NextSub(S)
        BY <1>6, <2>2
      <3> QED
        BY <1>3, <1>9, <3>1, LoopNext
    <2> QED
      BY <2>1, <2>2
  <1>16. sub[c].sent \in Nat /\ sweep.snap \in Nat /\ got[c] \in Nat
    BY <1>1, <1>2, RevisionNat DEF TypeInv, Subs
  <1>17. (s.buf # 0 => s.sent = s.buf) /\ (s.buf = 0 => s.sent = got[c]) /\ got[c] <= s.sent
    BY <1>1, <1>8, <1>16 DEF CallOK
  <1>18. s.done => Told(c)'
    BY <1>8, <1>14
  <1> QED
    BY <1>3, <1>4, <1>5, <1>7, <1>8, <1>13, <1>15, <1>17, <1>18, LoopTouches

LEMMA InvSweepRetire ==
    ASSUME Inv, sweepRetire
    PROVE  Inv'
  <1>1. TypeInv /\ CallInv /\ SweepInv
    BY DEF Inv
  <1>2. UNCHANGED <<limit, table, floor, call, gone, got, closed>> /\ sweep.pc \in {"retire", "finish"}
    BY DEF sweepRetire
  <1>3. PICK c \in Callers : c = sweep.sub
    BY <1>1, <1>2 DEF SweepInv
  <1>4. /\ Watched(c) /\ call[c].op = sweep.op /\ Told(c) /\ sweep.op \in Ops /\ sweep.snap <= table[sweep.op].rev
        /\ \A d \in sweep.subs : Watched(d) /\ call[d].op = sweep.op
    BY <1>1, <1>2, <1>3 DEF SweepInv
  <1>5. sweep \in Passes /\ sweep.subs \in SUBSET Callers /\ sub[c] \in Subs /\ CallOK(c)
    BY <1>1 DEF TypeInv, Passes, CallInv
  <1>6. PICK s \in Subs :
            /\ sub' = [sub EXCEPT ![c] = s] /\ s.sent = sub[c].sent /\ s.buf = sub[c].buf
            /\ \/ sweep.pc = "retire" /\ sweep' = [sweep EXCEPT !.pc = "finish"]
               \/ sweep.pc = "finish" /\ sweep' = NextSub(sweep.subs)
    <2>1. CASE sweep.pc = "retire" /\ unsubscribe(sweep.sub) /\ sweep' = [sweep EXCEPT !.pc = "finish"]
      <3> DEFINE s == [sub[c] EXCEPT !.in = FALSE]
      <3>1. s \in Subs /\ s.sent = sub[c].sent /\ s.buf = sub[c].buf
        BY <1>5, SubIn DEF Subs
      <3>2. sub' = [sub EXCEPT ![c] = s]
        BY <1>3, <2>1 DEF unsubscribe
      <3> HIDE DEF s
      <3> QED
        BY <2>1, <3>1, <3>2
    <2>2. CASE sweep.pc = "finish" /\ finish(sweep.sub) /\ sweep' = NextSub(sweep.subs)
      <3> DEFINE s == [sub[c] EXCEPT !.done = TRUE]
      <3>1. s \in Subs /\ s.sent = sub[c].sent /\ s.buf = sub[c].buf
        BY <1>5, SubDone DEF Subs
      <3>2. sub' = [sub EXCEPT ![c] = s]
        BY <1>3, <2>2 DEF finish
      <3> HIDE DEF s
      <3> QED
        BY <2>2, <3>1, <3>2
    <2> QED
      BY <2>1, <2>2 DEF sweepRetire
  <1>7. sub'[c] = s
    BY <1>1, <1>6, SubStep
  <1>8. Told(c)' /\ Watched(c)'
    BY <1>2, <1>4, <1>6, <1>7 DEF Told, Terminal, Watched
  <1>9. sweep' \in Passes /\ SweepInv'
    <2>1. ASSUME sweep.pc = "retire", sweep' = [sweep EXCEPT !.pc = "finish"] PROVE sweep' \in Passes /\ SweepInv'
      <3>1. sweep' \in Passes
        BY <1>5, <2>1, PassGoes DEF Phases
      <3>2. /\ sweep'.pc = "finish" /\ sweep'.subs = sweep.subs /\ sweep'.sub = c
            /\ sweep'.op = sweep.op /\ sweep'.snap = sweep.snap
        BY <1>3, <1>5, <2>1 DEF Passes
      <3>3. call'[c].op = sweep.op /\ \A d \in sweep.subs : Watched(d)' /\ call'[d].op = sweep.op
        BY <1>2, <1>4 DEF Watched
      <3> QED
        BY <1>2, <1>4, <1>8, <3>1, <3>2, <3>3 DEF SweepInv
    <2>2. ASSUME sweep.pc = "finish", sweep' = NextSub(sweep.subs) PROVE sweep' \in Passes /\ SweepInv'
      BY <1>2, <1>5, <2>2, LoopNext
    <2> QED
      BY <1>6, <2>1, <2>2
  <1>10. /\ s.sent <= table[call[c].op].rev /\ got[c] <= s.sent
         /\ s.buf # 0 => s.sent = s.buf
         /\ s.buf = 0 => s.sent = got[c]
    BY <1>4, <1>5, <1>6 DEF CallOK
  <1> QED
    BY <1>2, <1>4, <1>6, <1>8, <1>9, <1>10, LoopTouches

-----------------------------------------------------------------------------
LEMMA InvNext == Inv /\ [Next]_wvars => Inv'
  <1> SUFFICES ASSUME Inv, [Next]_wvars PROVE Inv'
    OBVIOUS
  <1>1. ASSUME NEW o \in Ops, Write(o) \/ ReapRow(o) \/ CatchUp(o) PROVE Inv'
    BY <1>1, InvTable
  <1>2. ASSUME NEW c \in Callers, Calls(c) PROVE Inv'
    BY <1>2, InvSubscribe, InvPushFirst, InvRetire DEF Calls
  <1>3. ASSUME NEW c \in Callers, NEW o \in Ops, Watch(c, o) PROVE Inv'
    BY <1>3, InvWatch
  <1>4. ASSUME NEW c \in Callers, receive(c) PROVE Inv'
    BY <1>4, InvReceive
  <1>5. CASE Close \/ \E c \in Callers : leave(c)
    BY <1>5, InvLeaveClose
  <1>6. CASE watchedByScope \/ sweepSubscribers \/ \E o \in Ops : getMany(o) \/ getManyFails(o)
    BY <1>6, InvReading
  <1>7. ASSUME NEW c \in Callers, sweepPush(c) PROVE Inv'
    BY <1>7, InvSweepPush
  <1>8. CASE sweepRetire
    BY <1>8, InvSweepRetire
  <1>9. CASE UNCHANGED wvars
    <2>1. UNCHANGED <<limit, table, floor, call, sub, gone, got, sweep, closed>>
      BY <1>9 DEF wvars
    <2>2. sweep \in Passes
      BY DEF Inv, TypeInv
    <2>3. SweepInv'
      BY <2>1, LoopStays DEF Watched, Told, Terminal
    <2> QED
      BY <2>1, <2>2, <2>3, LoopMoves
  <1> QED
    BY <1>1, <1>2, <1>3, <1>4, <1>5, <1>6, <1>7, <1>8, <1>9 DEF Next, Sweeps

-----------------------------------------------------------------------------
(* The limit.  A step adds at most one subscription, and only below it.    *)

LEMMA FitInit == Init => FitInv
  <1> SUFFICES ASSUME Init PROVE FitInv
    OBVIOUS
  <1>1. Registered = {}
    BY DEF Init, Registered, NoSub
  <1>2. limit \in Nat
    BY Constants DEF Init
  <1> QED
    BY <1>1, <1>2, FS_EmptySet DEF FitInv

\* A registry that loses subscriptions, or none.
LEMMA FitShrinks ==
    ASSUME Inv, FitInv, UNCHANGED limit, Registered' \subseteq Registered
    PROVE  FitInv'
  <1>1. IsFiniteSet(Registered') /\ Cardinality(Registered') <= Cardinality(Registered)
    BY FS_Subset DEF FitInv
  <1>2. Cardinality(Registered') \in Nat /\ Cardinality(Registered) \in Nat /\ limit \in Nat
    BY <1>1, Constants, FS_CardinalityType DEF FitInv, Inv, TypeInv
  <1> QED
    BY <1>1, <1>2 DEF FitInv

\* The steps that leave every subscription as it is, or retire one.
LEMMA RegistryShrinks ==
    ASSUME Inv, [Next]_wvars, \A c \in Callers : ~subscribe(c)
    PROVE  Registered' \subseteq Registered
  <1>1. TypeInv
    BY DEF Inv
  <1>2. \A c \in Callers : sub[c] \in Subs
    BY <1>1 DEF TypeInv
  <1>3. ASSUME UNCHANGED sub PROVE Registered' \subseteq Registered
    BY <1>3 DEF Registered
  <1>4. ASSUME NEW c \in Callers, NEW s \in Subs, sub' = [sub EXCEPT ![c] = s], s.in => sub[c].in
        PROVE  Registered' \subseteq Registered
    <2>1. sub'[c] = s /\ \A d \in Callers \ {c} : sub'[d] = sub[d]
      BY <1>1, <1>4, SubStep
    <2> QED
      BY <1>4, <2>1 DEF Registered
  <1>5. ASSUME NEW c \in Callers, unsubscribe(c) PROVE Registered' \subseteq Registered
    <2> DEFINE s == [sub[c] EXCEPT !.in = FALSE]
    <2>1. s \in Subs /\ s.in = FALSE
      BY <1>2, SubIn DEF Subs
    <2>2. sub' = [sub EXCEPT ![c] = s]
      BY <1>5 DEF unsubscribe
    <2> HIDE DEF s
    <2> QED
      BY <1>4, <2>1, <2>2
  <1>6. ASSUME NEW c \in Callers, finish(c) PROVE Registered' \subseteq Registered
    <2> DEFINE s == [sub[c] EXCEPT !.done = TRUE]
    <2>1. s \in Subs /\ s.in = sub[c].in
      BY <1>2, SubDone DEF Subs
    <2>2. sub' = [sub EXCEPT ![c] = s]
      BY <1>6 DEF finish
    <2> HIDE DEF s
    <2> QED
      BY <1>4, <2>1, <2>2
  <1>7. ASSUME NEW c \in Callers, NEW rev \in Revisions, sub' = [sub EXCEPT ![c] = push(c, rev)]
        PROVE  Registered' \subseteq Registered
    <2>1. push(c, rev) \in Subs /\ push(c, rev).in = sub[c].in
      BY <1>1, PushSub
    <2> QED
      BY <1>4, <1>7, <2>1
  <1>8. ASSUME NEW c \in Callers, receive(c) PROVE Registered' \subseteq Registered
    <2> DEFINE s == [sub[c] EXCEPT !.buf = 0]
    <2>1. s \in Subs /\ s.in = sub[c].in
      BY <1>2, ZeroRevision, SubRead DEF Subs
    <2>2. sub' = [sub EXCEPT ![c] = s]
      BY <1>8 DEF receive
    <2> HIDE DEF s
    <2> QED
      BY <1>4, <2>1, <2>2
  <1>9. ASSUME NEW c \in Callers, pushFirst(c) PROVE Registered' \subseteq Registered
    <2>1. call[c].snap \in Revisions
      BY <1>1 DEF TypeInv, Watches
    <2> QED
      BY <1>7, <1>9, <2>1 DEF pushFirst
  <1>10. ASSUME NEW c \in Callers, sweepPush(c) PROVE Registered' \subseteq Registered
    <2>1. sweep.snap \in Revisions
      BY <1>1 DEF TypeInv, Passes
    <2> QED
      BY <1>7, <1>10, <2>1 DEF sweepPush
  <1>11. ASSUME NEW c \in Callers, retire(c) PROVE Registered' \subseteq Registered
    BY <1>5, <1>6, <1>11 DEF retire
  <1>12. CASE sweepRetire
    <2>1. sweep.sub \in Callers
      BY <1>12 DEF sweepRetire, Inv, SweepInv
    <2> QED
      BY <1>5, <1>6, <1>12, <2>1 DEF sweepRetire
  <1>13. \/ UNCHANGED sub \/ sweepRetire
         \/ \E c \in Callers : receive(c) \/ pushFirst(c) \/ sweepPush(c) \/ retire(c)
    BY DEF Next, wvars, Write, ReapRow, CatchUp, watcher, getMany, getManyFails, Calls, leave, Watch, Sweeps,
           watchedByScope, sweepSubscribers, Close
  <1> QED
    BY <1>3, <1>8, <1>9, <1>10, <1>11, <1>12, <1>13

LEMMA FitNext == Inv /\ FitInv /\ [Next]_wvars => FitInv'
  <1> SUFFICES ASSUME Inv, FitInv, [Next]_wvars PROVE FitInv'
    OBVIOUS
  <1>1. UNCHANGED limit
    BY DEF Next, wvars, Write, ReapRow, CatchUp, getMany, getManyFails, Calls, subscribe, pushFirst, retire,
           receive, leave, Watch, Sweeps, watchedByScope, sweepSubscribers, sweepPush, sweepRetire, Close
  <1>2. ASSUME NEW c \in Callers, subscribe(c) PROVE FitInv'
    <2>1. CASE UNCHANGED sub
      BY <1>1, <2>1 DEF FitInv, Registered
    <2>2. CASE sub' = [sub EXCEPT ![c].in = TRUE] /\ ~(Cardinality(Registered) >= limit)
      <3> DEFINE s == [sub[c] EXCEPT !.in = TRUE]
      <3>1. s \in Subs /\ s.in /\ TypeInv
        BY SubIn DEF Inv, TypeInv, Subs
      <3>2. sub' = [sub EXCEPT ![c] = s]
        BY <2>2
      <3> HIDE DEF s
      <3>3. sub'[c] = s /\ \A d \in Callers \ {c} : sub'[d] = sub[d]
        BY <3>1, <3>2, SubStep
      <3>4. Registered' = Registered \cup {c}
        BY <3>1, <3>3 DEF Registered
      <3>5. /\ IsFiniteSet(Registered \cup {c})
            /\ Cardinality(Registered \cup {c}) <= Cardinality(Registered) + 1
        <4>1. /\ IsFiniteSet(Registered \cup {c})
              /\ \/ Cardinality(Registered \cup {c}) = Cardinality(Registered)
                 \/ Cardinality(Registered \cup {c}) = Cardinality(Registered) + 1
          BY FS_AddElement DEF FitInv
        <4>2. Cardinality(Registered) \in Nat
          BY FS_CardinalityType DEF FitInv
        <4> QED
          BY <4>1, <4>2
      <3>6. Cardinality(Registered) \in Nat /\ Cardinality(Registered \cup {c}) \in Nat /\ limit \in Nat
        BY <3>1, <3>5, Constants, FS_CardinalityType DEF FitInv, TypeInv
      <3> QED
        BY <1>1, <2>2, <3>4, <3>5, <3>6 DEF FitInv
    <2> QED
      BY <1>2, <2>1, <2>2 DEF subscribe
  <1>3. CASE \A c \in Callers : ~subscribe(c)
    BY <1>1, <1>3, RegistryShrinks, FitShrinks
  <1> QED
    BY <1>2, <1>3

-----------------------------------------------------------------------------
\* Every variable keeps its type, and the registry never holds more than
\* MaxSubscriptions: subscribe counts and adds under one lock, and nothing
\* else adds.
THEOREM WatcherTypes == Spec => []WTypeOK
  <1>1. Inv /\ FitInv => WTypeOK
    BY DEF Inv, FitInv, TypeInv, WTypeOK, Rows, Watches, Steps, Subs, Phases, Passes
  <1> QED
    BY <1>1, InvInit, FitInit, InvNext, FitNext, PTL DEF Spec

\* A channel is closed on a caller that is still there, by a Watcher that was
\* not closed, only once the terminal snapshot is in it or was received: the
\* goroutine, Watch itself and the loop all retire a subscription, and none
\* of them can be first without it.
THEOREM ClosesWithOutcome == Spec => []ClosedWithOutcome
  <1>1. Inv => ClosedWithOutcome
    <2> SUFFICES ASSUME Inv, NEW c \in Callers, sub[c].done, c \notin gone, ~closed
                 PROVE  Terminal(call[c].op, IF sub[c].buf # 0 THEN sub[c].buf ELSE got[c])
      BY DEF ClosedWithOutcome
    <2>1. CallOK(c)
      BY DEF Inv, CallInv
    <2>2. Terminal(call[c].op, sub[c].sent)
      BY <2>1 DEF CallOK, Told
    <2> QED
      BY <2>1, <2>2 DEF CallOK
  <1> QED
    BY <1>1, InvInit, InvNext, PTL DEF Spec

\* A caller's snapshots only get newer: push drops what is not newer than the
\* last one given, and what waits in the channel is the last one given.
THEOREM SnapshotsGetNewer == Spec => OnlyNewer
  <1> DEFINE A == \A c \in Callers : got'[c] # got[c] => got'[c] > got[c]
  <1>1. Inv /\ [Next]_wvars => [A]_wvars
    <2> SUFFICES ASSUME Inv, [Next]_wvars, ~UNCHANGED wvars PROVE A
      OBVIOUS
    <2>1. ASSUME NEW c \in Callers, receive(c) PROVE A
      <3>1. got'[c] = sub[c].buf /\ \A d \in Callers \ {c} : got'[d] = got[d]
        BY <2>1 DEF receive, Inv, TypeInv
      <3>2. got[c] <= sub[c].buf /\ got[c] \in Nat /\ sub[c].buf \in Nat
        BY <2>1, RevisionNat DEF receive, Inv, CallInv, CallOK, TypeInv, Subs
      <3> QED
        BY <3>1, <3>2
    <2>2. CASE UNCHANGED got
      BY <2>2
    <2>3. UNCHANGED got \/ \E c \in Callers : receive(c)
      BY DEF Next, wvars, Write, ReapRow, CatchUp, watcher, getMany, getManyFails, Calls, subscribe, pushFirst,
             retire, leave, Watch, Sweeps, watchedByScope, sweepSubscribers, sweepPush, sweepRetire, Close
    <2> QED
      BY <2>1, <2>2, <2>3
  <1>2. OnlyNewer <=> [][A]_wvars
    BY DEF OnlyNewer
  <1> HIDE DEF A
  <1> QED
    BY <1>1, <1>2, InvInit, InvNext, PTL DEF Spec

=============================================================================
