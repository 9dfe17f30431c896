------------------------------- MODULE Watcher -------------------------------
(***************************************************************************)
(* src/operations/watcher.go: subscriptions to operation rows.  A Watch    *)
(* call reads the row, subscribes and pushes what it read, while a loop    *)
(* sweeps the watched rows, pushes what changed and retires what ended,    *)
(* and a goroutine per subscription retires it when its caller goes away.  *)
(* Each takes one mutex at a time, so they interleave between the steps    *)
(* here; retire is two of them.                                            *)
(*                                                                         *)
(* Of an operation the watcher sees its revision and whether it is         *)
(* terminal.  Every write of the row is a new revision, and the terminal   *)
(* one is the last (Operations).  Reads go to replicas: they answer with   *)
(* any revision from the one every replica has reached up to the newest,   *)
(* in any order.                                                           *)
(***************************************************************************)
EXTENDS Naturals, FiniteSets

CONSTANTS
    Ops,
    Callers,            \* each makes one Watch call
    MaxLimit,           \* bound: the largest limit tried
    MaxRevision,        \* bound: the terminal revision at the latest
    None

ASSUME WatcherAssumption ==
    /\ MaxLimit \in Nat \ {0} /\ MaxRevision \in Nat \ {0}
    /\ None \notin Ops /\ None \notin Callers

VARIABLES
    limit,  \* WatcherConfig.MaxSubscriptions
    table,  \* the row: its revision, 0 before it is there; the terminal one, 0 before; is it reaped?
    floor,  \* what every replica has seen of it
    call,   \* each Watch call, and then its goroutine
    sub,    \* each call's subscription
    gone,   \* callers whose context is done
    got,    \* the newest revision each caller has received
    sweep,  \* the loop
    closed  \* Watcher.closed and Watcher.done, which Close sets together

wvars == <<limit, table, floor, call, sub, gone, got, sweep, closed>>

-----------------------------------------------------------------------------
Terminal(o, rev) == rev # 0 /\ rev = table[o].fin

NoSub == [in |-> FALSE, sent |-> 0, buf |-> 0, done |-> FALSE]
Refused == [pc |-> "refused", op |-> None, snap |-> 0]
Resting == [pc |-> "rest", ids |-> {}, op |-> None, snap |-> 0, subs |-> {}, sub |-> None]

Init ==
    /\ limit \in 1 .. MaxLimit
    /\ table = [o \in Ops |-> [rev |-> 0, fin |-> 0, reaped |-> FALSE]]
    /\ floor = [o \in Ops |-> 0]
    /\ call = [c \in Callers |-> [pc |-> "idle", op |-> None, snap |-> 0]]
    /\ sub = [c \in Callers |-> NoSub]
    /\ gone = {}
    /\ got = [c \in Callers |-> 0]
    /\ sweep = Resting
    /\ closed = FALSE

watcher == <<call, sub, gone, got, sweep, closed>>

\* The row's own life, as Operations has it.
Write(o) ==
    /\ table[o].fin = 0
    /\ \/ table[o].rev + 1 < MaxRevision /\ table' = [table EXCEPT ![o].rev = @ + 1]
       \/ table[o].rev > 0 /\ table' = [table EXCEPT ![o].rev = @ + 1, ![o].fin = table[o].rev + 1]
    /\ UNCHANGED <<limit, floor, watcher>>

ReapRow(o) ==
    /\ table[o].fin # 0 /\ ~table[o].reaped
    /\ table' = [table EXCEPT ![o].reaped = TRUE]
    /\ UNCHANGED <<limit, floor, watcher>>

CatchUp(o) ==
    /\ floor[o] < table[o].rev
    /\ floor' = [floor EXCEPT ![o] = table[o].rev]
    /\ UNCHANGED <<limit, table, watcher>>

\* What a read may answer; 0 is no row.
Reads(o) == floor[o] .. table[o].rev \cup (IF table[o].reaped THEN {0} ELSE {})

-----------------------------------------------------------------------------
(* The subscription and the registry of them.                              *)

Registered == {c \in Callers : sub[c].in}
subscribersOf(o) == {c \in Registered : call[c].op = o}

\* Mutant: whatever is pushed last wins.
pushAny(c, rev) ==
    IF sub[c].done THEN sub[c] ELSE [sub[c] EXCEPT !.sent = rev, !.buf = rev]

\* push: only what is newer, in place of what was not received yet.
push(c, rev) ==
    IF sub[c].done \/ rev <= sub[c].sent THEN sub[c]
    ELSE [sub[c] EXCEPT !.sent = rev, !.buf = rev]

unsubscribe(c) == sub' = [sub EXCEPT ![c].in = FALSE]
finish(c) == sub' = [sub EXCEPT ![c].done = TRUE]

Goto(c, pc) == call' = [call EXCEPT ![c].pc = pc]

-----------------------------------------------------------------------------
(* Watch.                                                                  *)

\* A read that fails is an error to the caller, like a row that is not there.
Watch(c, o) ==
    /\ call[c].pc = "idle"
    /\ \E rev \in Reads(o) \cup {0} :
        call' = [call EXCEPT ![c] = IF rev = 0 THEN Refused ELSE [pc |-> "read", op |-> o, snap |-> rev]]
    /\ UNCHANGED <<limit, table, floor, sub, gone, got, sweep, closed>>

\* Mutant: one place too many.
subscribePast(c) ==
    /\ call[c].pc = "read"
    /\ IF closed \/ Cardinality(Registered) > limit
       THEN call' = [call EXCEPT ![c] = Refused] /\ UNCHANGED sub
       ELSE Goto(c, "subscribed") /\ sub' = [sub EXCEPT ![c].in = TRUE]
    /\ UNCHANGED <<limit, table, floor, gone, got, sweep, closed>>

\* ErrWatcherClosed, ErrTooManyWatchers, or a place in the registry.
subscribe(c) ==
    /\ call[c].pc = "read"
    /\ IF closed \/ Cardinality(Registered) >= limit
       THEN call' = [call EXCEPT ![c] = Refused] /\ UNCHANGED sub
       ELSE Goto(c, "subscribed") /\ sub' = [sub EXCEPT ![c].in = TRUE]
    /\ UNCHANGED <<limit, table, floor, gone, got, sweep, closed>>

\* The first snapshot; a terminal one is also the last.
pushFirst(c) ==
    /\ call[c].pc = "subscribed"
    /\ sub' = [sub EXCEPT ![c] = push(c, call[c].snap)]
    /\ call' = [call EXCEPT ![c].pc = IF Terminal(call[c].op, call[c].snap) THEN "retire" ELSE "waiting",
                           ![c].snap = 0]
    /\ UNCHANGED <<limit, table, floor, gone, got, sweep, closed>>

\* Mutant: the goroutine does not hear of Close.
WokenByCaller(c) == c \in gone \/ sub[c].done

\* What wakes the goroutine: the context, the Watcher, or a sweep that was first.
Woken(c) == c \in gone \/ closed \/ sub[c].done

\* retire: a terminal Watch's own, or the goroutine's once it wakes.
retire(c) ==
    /\ \/ /\ call[c].pc = "retire" \/ (call[c].pc = "waiting" /\ Woken(c))
          /\ unsubscribe(c) /\ Goto(c, "finish")
       \/ call[c].pc = "finish" /\ finish(c) /\ Goto(c, "over")
    /\ UNCHANGED <<limit, table, floor, gone, got, sweep, closed>>

\* The caller reads its channel, or goes away.
receive(c) ==
    /\ call[c].pc \in {"waiting", "retire", "finish", "over"} /\ sub[c].buf # 0
    /\ got' = [got EXCEPT ![c] = sub[c].buf]
    /\ sub' = [sub EXCEPT ![c].buf = 0]
    /\ UNCHANGED <<limit, table, floor, call, gone, sweep, closed>>

leave(c) ==
    /\ call[c].pc = "waiting" /\ c \notin gone
    /\ gone' = gone \cup {c}
    /\ UNCHANGED <<limit, table, floor, call, sub, got, sweep, closed>>

-----------------------------------------------------------------------------
(* sweep: a snapshot of what is watched, a read per scope (one operation   *)
(* stands for a scope), a snapshot of its subscribers, and to each of them *)
(* a push and, at the end, a retirement.                                   *)

watchedByScope ==
    /\ sweep.pc = "rest" /\ ~closed /\ Registered # {}
    /\ sweep' = [Resting EXCEPT !.pc = "reading", !.ids = {call[c].op : c \in Registered}]
    /\ UNCHANGED <<limit, table, floor, call, sub, gone, got, closed>>

\* On to the next operation, or to rest.
Onward(ids) == [Resting EXCEPT !.ids = ids, !.pc = IF ids = {} THEN "rest" ELSE "reading"]

getMany(o) ==
    /\ sweep.pc = "reading" /\ o \in sweep.ids
    /\ \E rev \in Reads(o) :
        sweep' = IF rev = 0 THEN Onward(sweep.ids \ {o})
                 ELSE [sweep EXCEPT !.pc = "read", !.ids = @ \ {o}, !.op = o, !.snap = rev]
    /\ UNCHANGED <<limit, table, floor, call, sub, gone, got, closed>>

getManyFails(o) ==
    /\ sweep.pc = "reading" /\ o \in sweep.ids
    /\ sweep' = Onward(sweep.ids \ {o})
    /\ UNCHANGED <<limit, table, floor, call, sub, gone, got, closed>>

sweepSubscribers ==
    /\ sweep.pc = "read"
    /\ sweep' = IF subscribersOf(sweep.op) = {} THEN Onward(sweep.ids)
                ELSE [sweep EXCEPT !.pc = "pushing", !.subs = subscribersOf(sweep.op)]
    /\ UNCHANGED <<limit, table, floor, call, sub, gone, got, closed>>

\* Done with one subscriber.
NextSub(subs) == IF subs = {} THEN Onward(sweep.ids) ELSE [sweep EXCEPT !.pc = "pushing", !.subs = subs, !.sub = None]

\* Mutant: a terminal snapshot is pushed like any other.
sweepOnlyPushes(c) ==
    /\ sweep.pc = "pushing" /\ c \in sweep.subs
    /\ sub' = [sub EXCEPT ![c] = push(c, sweep.snap)]
    /\ sweep' = NextSub(sweep.subs \ {c})
    /\ UNCHANGED <<limit, table, floor, call, gone, got, closed>>

\* Mutant: a terminal snapshot retires the subscription and is not pushed.
sweepOnlyRetires(c) ==
    /\ sweep.pc = "pushing" /\ c \in sweep.subs
    /\ IF Terminal(sweep.op, sweep.snap)
       THEN sweep' = [sweep EXCEPT !.pc = "retire", !.subs = @ \ {c}, !.sub = c] /\ UNCHANGED sub
       ELSE sub' = [sub EXCEPT ![c] = push(c, sweep.snap)] /\ sweep' = NextSub(sweep.subs \ {c})
    /\ UNCHANGED <<limit, table, floor, call, gone, got, closed>>

sweepPush(c) ==
    /\ sweep.pc = "pushing" /\ c \in sweep.subs
    /\ sub' = [sub EXCEPT ![c] = push(c, sweep.snap)]
    /\ sweep' = IF Terminal(sweep.op, sweep.snap)
                THEN [sweep EXCEPT !.pc = "retire", !.subs = @ \ {c}, !.sub = c]
                ELSE NextSub(sweep.subs \ {c})
    /\ UNCHANGED <<limit, table, floor, call, gone, got, closed>>

sweepRetire ==
    /\ \/ /\ sweep.pc = "retire" /\ unsubscribe(sweep.sub)
          /\ sweep' = [sweep EXCEPT !.pc = "finish"]
       \/ /\ sweep.pc = "finish" /\ finish(sweep.sub)
          /\ sweep' = NextSub(sweep.subs)
    /\ UNCHANGED <<limit, table, floor, call, gone, got, closed>>

Close ==
    /\ ~closed /\ closed' = TRUE
    /\ UNCHANGED <<limit, table, floor, call, sub, gone, got, sweep>>

-----------------------------------------------------------------------------
Sweeps ==
    \/ watchedByScope \/ sweepSubscribers \/ sweepRetire
    \/ \E o \in Ops : getMany(o)
    \/ \E c \in Callers : sweepPush(c)

Calls(c) == subscribe(c) \/ pushFirst(c) \/ retire(c)

Next ==
    \/ \E o \in Ops : Write(o) \/ ReapRow(o) \/ CatchUp(o) \/ getManyFails(o)
    \/ \E c \in Callers : Calls(c) \/ receive(c) \/ leave(c) \/ \E o \in Ops : Watch(c, o)
    \/ Sweeps
    \/ Close

\* The loop polls, a read that is tried again and again succeeds in the end,
\* goroutines run, and replicas catch up (each of those takes finitely many
\* steps, so that one condition serves them all).  Nobody has to receive, to
\* leave or to close.
Fairness ==
    /\ WF_wvars(Sweeps)
    /\ \A o \in Ops : SF_wvars(getMany(o))
    /\ WF_wvars((\E c \in Callers : Calls(c)) \/ (\E o \in Ops : CatchUp(o)))

Spec == Init /\ [][Next]_wvars /\ Fairness

-----------------------------------------------------------------------------
Revisions == 0 .. MaxRevision + 1

\* Every variable has its type, and there are never more subscriptions than
\* the limit allows.
WTypeOK ==
    /\ limit \in 1 .. MaxLimit /\ Cardinality(Registered) <= limit
    /\ table \in [Ops -> [rev: Revisions, fin: Revisions, reaped: BOOLEAN]]
    /\ floor \in [Ops -> Revisions]
    /\ call \in [Callers -> [pc: {"idle", "read", "refused", "subscribed", "waiting", "retire", "finish", "over"},
                             op: Ops \cup {None}, snap: Revisions]]
    /\ sub \in [Callers -> [in: BOOLEAN, sent: Revisions, buf: Revisions, done: BOOLEAN]]
    /\ gone \subseteq Callers /\ got \in [Callers -> Revisions]
    /\ sweep \in [pc: {"rest", "reading", "read", "pushing", "retire", "finish"}, ids: SUBSET Ops,
                  op: Ops \cup {None}, snap: Revisions, subs: SUBSET Callers, sub: Callers \cup {None}]
    /\ closed \in BOOLEAN

\* A caller's snapshots only get newer, however Watch's own push, the sweeps
\* and lagging replicas interleave.
OnlyNewer == [][\A c \in Callers : got'[c] # got[c] => got'[c] > got[c]]_wvars

\* A channel is closed on a caller that is still there, by a Watcher that was
\* not closed, only with the terminal snapshot received or waiting in it.
ClosedWithOutcome ==
    \A c \in Callers :
        sub[c].done /\ c \notin gone /\ ~closed =>
            Terminal(call[c].op, IF sub[c].buf # 0 THEN sub[c].buf ELSE got[c])

\* The caller was given a place, now or earlier.
Watched(c) == call[c].pc \in {"subscribed", "waiting", "retire", "finish", "over"}
Ended(c) == sub[c].done /\ ~sub[c].in /\ call[c].pc = "over"

\* A caller that goes away, or a Watcher that is closed, leaves nothing
\* behind: the registration, the channel and the goroutine all end.
NothingLeaks == []<>(\A c \in Callers : c \in gone \/ (closed /\ Watched(c)) => Ended(c))

\* Whoever watches an operation that ends is told so: its channel closes,
\* unless the row is reaped first.
EndReachesWatcher ==
    []<>(\A c \in Callers, o \in Ops :
            call[c].op = o /\ Watched(c) /\ table[o].fin # 0 => sub[c].done \/ table[o].reaped)

=============================================================================
