------------------------------ MODULE Committer ------------------------------
(***************************************************************************)
(* The central committer of a base (pkg/c2db/route.go, commitCoordinator)  *)
(* and the calls that feed it (pkg/c2db/engine.go: lockWriter, syncWAL,    *)
(* applyCallDurability, syncBarrier; tx.go).                               *)
(*                                                                         *)
(* One goroutine serves every shard.  A write that leaves its journal      *)
(* unflushed registers the shard with a deadline (markWindow) and rings    *)
(* "wake", a channel of one slot.  The goroutine sleeps until the nearest  *)
(* deadline, collects the shards that are due, and flushes them one after  *)
(* the other, each under its walMu.  A writer holds walMu from lockWriter  *)
(* to unlockWriter, a transaction from Begin to Commit or Rollback.        *)
(*                                                                         *)
(* Time is counted in ticks; a deadline is the number of ticks left.       *)
(***************************************************************************)
EXTENDS Integers, FiniteSets

CONSTANTS
    Shards,
    NoShard,
    Windows,     \* the windows that a call may ask for (WithDurability)
    Default,     \* commitCoordinator.window
    CoalesceN,   \* walCoalesceN
    MaxFaults,   \* bound: flushes that fail
    Ops          \* the calls of the workload

ASSUME CommitterAssumption ==
    /\ IsFiniteSet(Shards) /\ NoShard \notin Shards
    /\ Windows \subseteq Nat \ {0} /\ Default \in Nat \ {0}
    /\ CoalesceN \in Nat \ {0} /\ MaxFaults \in Nat
    /\ Ops \subseteq {"put", "windowed", "now", "replicated", "tx", "rollback", "sync", "close"}

VARIABLES
    walMu,       \* who holds Shard.walMu
    unflushed,   \* Shard.unflushed
    owed,        \* an acknowledged write that needs local durability is not durable
    limit,       \* ticks left of the shortest window an owed write was promised
    left,        \* commitCoordinator.pending: ticks left, None when not registered
    ringing,     \* writers between the registration and signal()
    wake,        \* the slot of the channel is taken
    cpc, timer, due, at,  \* the goroutine: position, timer, due shards, current one
    stop,        \* close(c.stop)
    open,        \* Shard.wal # nil
    faults

shardVars == <<walMu, unflushed, owed, limit, open>>
runVars == <<cpc, timer, due, at>>
vars == <<shardVars, left, ringing, wake, runVars, stop, faults>>

None == -1
Registered == {s \in Shards : left[s] # None}

\* The types; a deadline never goes below zero.
TypeOK ==
    /\ walMu \in [Shards -> {"free", "writer", "tx", "committer"}]
    /\ unflushed \in [Shards -> 0 .. CoalesceN - 1]
    /\ owed \in [Shards -> BOOLEAN] /\ open \in [Shards -> BOOLEAN]
    /\ limit \in [Shards -> Nat] /\ left \in [Shards -> Nat \cup {None}]
    /\ ringing \subseteq Shards /\ wake \in BOOLEAN
    /\ cpc \in {"wait", "next", "timer", "flush", "lock", "locked", "stopped"}
    /\ timer \in Nat /\ due \subseteq Shards /\ at \in Shards \cup {NoShard}
    /\ stop \in BOOLEAN /\ faults \in 0 .. MaxFaults

Init ==
    /\ walMu = [s \in Shards |-> "free"] /\ unflushed = [s \in Shards |-> 0]
    /\ owed = [s \in Shards |-> FALSE] /\ limit = [s \in Shards |-> 0]
    /\ left = [s \in Shards |-> None] /\ ringing = {} /\ wake = FALSE
    /\ cpc = "wait" /\ timer = 0 /\ due = {} /\ at = NoShard
    /\ stop = FALSE /\ open = [s \in Shards |-> TRUE] /\ faults = 0

\* A tick of the clock; a wait is never negative.
Elapse(n) == IF n > 0 THEN n - 1 ELSE n
Tick ==
    /\ timer > 0 \/ \E s \in Shards : left[s] > 0 \/ limit[s] > 0
    /\ left' = [s \in Shards |-> Elapse(left[s])]
    /\ limit' = [s \in Shards |-> Elapse(limit[s])]
    /\ timer' = Elapse(timer)
    /\ UNCHANGED <<walMu, unflushed, owed, open, ringing, wake, cpc, due, at, stop, faults>>

-----------------------------------------------------------------------------
(* Writers.  lockWriter, the append and the publication are one step; the  *)
(* registration and signal() are two.                                      *)

\* flushWAL: nothing is owed any more.
Flushed(s) ==
    /\ unflushed' = [unflushed EXCEPT ![s] = 0]
    /\ owed' = [owed EXCEPT ![s] = FALSE] /\ limit' = [limit EXCEPT ![s] = 0]

\* markWindow: a nearer deadline replaces the one that stands, a later one does not.
Deadline(s, w) == IF left[s] = None \/ w < left[s] THEN w ELSE left[s]

\* syncWAL registers the shard with the committer for the window w.
Marks(s, w) ==
    /\ unflushed' = [unflushed EXCEPT ![s] = @ + 1]
    /\ owed' = [owed EXCEPT ![s] = TRUE]
    /\ limit' = [limit EXCEPT ![s] = IF owed[s] /\ @ < w THEN @ ELSE w]
    /\ left' = [left EXCEPT ![s] = Deadline(s, w)]
    /\ ringing' = ringing \cup {s} /\ walMu' = [walMu EXCEPT ![s] = "writer"]

CanLock(s) == walMu[s] = "free" /\ open[s]

\* A Put under the policy of the base: the group is full, or the shard is marked.
PutDefault(s) ==
    /\ CanLock(s) /\ "put" \in Ops
    /\ IF unflushed[s] + 1 >= CoalesceN
       THEN Flushed(s) /\ UNCHANGED <<left, ringing, walMu>>
       ELSE Marks(s, Default)
    /\ UNCHANGED <<open, wake, runVars, stop, faults>>

\* WithDurability(CommitWindowed(w)): the number of writes does not matter (the
\* guard on the counter is a bound of the model, here and below).
PutWindowed(s, w) ==
    /\ CanLock(s) /\ "windowed" \in Ops /\ unflushed[s] + 1 < CoalesceN
    /\ Marks(s, w)
    /\ UNCHANGED <<open, wake, runVars, stop, faults>>

\* WithDurability(CommitImmediate): flushed, and the shard leaves the register.
PutNow(s) ==
    /\ CanLock(s) /\ "now" \in Ops
    /\ Flushed(s) /\ left' = [left EXCEPT ![s] = None]
    /\ UNCHANGED <<walMu, open, ringing, wake, runVars, stop, faults>>

\* WithDurability(CommitReplicated) with a sink: counted, never registered.
PutReplicated(s) ==
    /\ CanLock(s) /\ "replicated" \in Ops /\ unflushed[s] + 1 < CoalesceN
    /\ unflushed' = [unflushed EXCEPT ![s] = @ + 1]
    /\ UNCHANGED <<walMu, owed, limit, open, left, ringing, wake, runVars, stop, faults>>

\* Mutant of Signal: the channel is only rung for the first shard.
SignalOnce(s) ==
    /\ s \in ringing
    /\ wake' = (wake \/ Registered = {s}) /\ ringing' = ringing \ {s}
    /\ walMu' = [walMu EXCEPT ![s] = "free"]
    /\ UNCHANGED <<unflushed, owed, limit, open, left, runVars, stop, faults>>

\* signal(), then unlockWriter.
Signal(s) ==
    /\ s \in ringing
    /\ wake' = TRUE /\ ringing' = ringing \ {s}
    /\ walMu' = [walMu EXCEPT ![s] = "free"]
    /\ UNCHANGED <<unflushed, owed, limit, open, left, runVars, stop, faults>>

\* syncBarrier, for DB.Sync: the register is left alone.
Sync(s) ==
    /\ CanLock(s) /\ "sync" \in Ops
    /\ Flushed(s)
    /\ UNCHANGED <<walMu, open, left, ringing, wake, runVars, stop, faults>>

\* Begin: walMu is kept; the writes inside (groupDepth > 0) register nothing.
TxBegin(s) ==
    /\ CanLock(s) /\ "tx" \in Ops
    /\ walMu' = [walMu EXCEPT ![s] = "tx"]
    /\ UNCHANGED <<unflushed, owed, limit, open, left, ringing, wake, runVars, stop, faults>>

\* Commit of a transaction that wrote: the journal is flushed.
TxCommit(s) ==
    /\ walMu[s] = "tx"
    /\ Flushed(s) /\ walMu' = [walMu EXCEPT ![s] = "free"]
    /\ UNCHANGED <<open, left, ringing, wake, runVars, stop, faults>>

\* Rollback: abortGroup zeroes the counter, nothing is flushed.
TxRollback(s) ==
    /\ walMu[s] = "tx" /\ "rollback" \in Ops
    /\ unflushed' = [unflushed EXCEPT ![s] = 0] /\ walMu' = [walMu EXCEPT ![s] = "free"]
    /\ UNCHANGED <<owed, limit, open, left, ringing, wake, runVars, stop, faults>>

-----------------------------------------------------------------------------
(* The goroutine: run and flushDue.                                        *)

\* The outer select.
CWake ==
    /\ cpc = "wait" /\ wake
    /\ wake' = FALSE /\ cpc' = "next"
    /\ UNCHANGED <<shardVars, left, ringing, timer, due, at, stop, faults>>

\* nextDeadline, and the timer.
CNext ==
    /\ cpc = "next"
    /\ IF Registered = {} THEN cpc' = "wait" /\ UNCHANGED timer
       ELSE /\ cpc' = "timer"
            /\ \E s \in Registered :
                  /\ \A t \in Registered : left[s] <= left[t]
                  /\ timer' = left[s]
    /\ UNCHANGED <<shardVars, left, ringing, wake, due, at, stop, faults>>

\* The inner select: a ring, or the timer.
CTimerWake ==
    /\ cpc = "timer" /\ wake
    /\ wake' = FALSE /\ cpc' = "next" /\ timer' = 0
    /\ UNCHANGED <<shardVars, left, ringing, due, at, stop, faults>>

\* flushDue collects the shards whose deadline has passed.
CTimerFires ==
    /\ cpc = "timer" /\ timer = 0
    /\ due' = {s \in Shards : left[s] = 0} /\ cpc' = "flush"
    /\ UNCHANGED <<shardVars, left, ringing, wake, timer, at, stop, faults>>

\* It goes on with one of them, and waits for its walMu.
CPick(s) ==
    /\ cpc = "flush" /\ s \in due
    /\ at' = s /\ due' = due \ {s} /\ cpc' = "lock"
    /\ UNCHANGED <<shardVars, left, ringing, wake, timer, stop, faults>>

CLock ==
    /\ cpc = "lock" /\ walMu[at] = "free"
    /\ walMu' = [walMu EXCEPT ![at] = "committer"] /\ cpc' = "locked"
    /\ UNCHANGED <<unflushed, owed, limit, open, left, ringing, wake, timer, due, at, stop, faults>>

CUnlocks == walMu' = [walMu EXCEPT ![at] = "free"] /\ cpc' = "flush" /\ at' = NoShard

\* The shard is flushed when its counter says so, and leaves the register.
CFlush ==
    /\ cpc = "locked"
    /\ IF open[at] /\ unflushed[at] > 0 THEN Flushed(at) ELSE UNCHANGED <<unflushed, owed, limit>>
    /\ left' = [left EXCEPT ![at] = None]
    /\ CUnlocks
    /\ UNCHANGED <<open, ringing, wake, timer, due, stop, faults>>

\* Mutant of CFlushFails: the shard leaves the register all the same.
CFlushFailsGone ==
    /\ cpc = "locked" /\ open[at] /\ unflushed[at] > 0 /\ faults < MaxFaults
    /\ faults' = faults + 1
    /\ left' = [left EXCEPT ![at] = None]
    /\ CUnlocks
    /\ UNCHANGED <<unflushed, owed, limit, open, ringing, wake, timer, due, stop>>

\* The flush fails: a new deadline.
CFlushFails ==
    /\ cpc = "locked" /\ open[at] /\ unflushed[at] > 0 /\ faults < MaxFaults
    /\ faults' = faults + 1
    /\ left' = [left EXCEPT ![at] = Default]
    /\ CUnlocks
    /\ UNCHANGED <<unflushed, owed, limit, open, ringing, wake, timer, due, stop>>

\* Mutant of CDone: back to the outer select.
CDoneSleeps ==
    /\ cpc = "flush" /\ due = {}
    /\ cpc' = "wait"
    /\ UNCHANGED <<shardVars, left, ringing, wake, timer, due, at, stop, faults>>

CDone ==
    /\ cpc = "flush" /\ due = {}
    /\ cpc' = "next"
    /\ UNCHANGED <<shardVars, left, ringing, wake, timer, due, at, stop, faults>>

\* Mutant of CStop: the inner select does not look at stop.
CStopOuter ==
    /\ cpc = "wait" /\ stop
    /\ cpc' = "stopped" /\ timer' = 0
    /\ UNCHANGED <<shardVars, left, ringing, wake, due, at, stop, faults>>

\* Both selects look at stop.
CStop ==
    /\ cpc \in {"wait", "timer"} /\ stop
    /\ cpc' = "stopped" /\ timer' = 0
    /\ UNCHANGED <<shardVars, left, ringing, wake, due, at, stop, faults>>

-----------------------------------------------------------------------------
(* DB.Close: stopWait, then Shard.Close for every shard.  Shard.Close      *)
(* takes no lock: the application has ended its own calls on the shard.    *)

StopWait ==
    /\ ~stop /\ "close" \in Ops
    /\ stop' = TRUE
    /\ UNCHANGED <<shardVars, left, ringing, wake, runVars, faults>>

CloseShard(s) ==
    /\ cpc = "stopped" /\ CanLock(s)
    /\ Flushed(s) /\ open' = [open EXCEPT ![s] = FALSE]
    /\ UNCHANGED <<walMu, left, ringing, wake, runVars, stop, faults>>

\* Every shard is closed.
Closed == (\A s \in Shards : ~open[s]) /\ UNCHANGED vars

WriterNext(s) ==
    \/ PutDefault(s)
    \/ \E w \in Windows : PutWindowed(s, w)
    \/ PutNow(s)
    \/ PutReplicated(s)
    \/ Signal(s)
    \/ Sync(s)
    \/ TxBegin(s)
    \/ TxCommit(s)
    \/ TxRollback(s)
    \/ CloseShard(s)

CommitterNext ==
    \/ CWake \/ CNext \/ CTimerWake \/ CTimerFires
    \/ \E s \in Shards : CPick(s)
    \/ CLock \/ CFlush \/ CFlushFails \/ CDone \/ CStop

Next == Tick \/ (\E s \in Shards : WriterNext(s)) \/ CommitterNext \/ StopWait \/ Closed

Spec == Init /\ [][Next]_vars

(* The scheduler runs every goroutine; a select with several ready cases   *)
(* and a contended mutex are strongly fair (Go picks the case at random    *)
(* and hands a starved mutex over); time goes on; DB.Close goes on.        *)
Fairness ==
    /\ WF_vars(Tick) /\ WF_vars(CWake) /\ WF_vars(CNext)
    /\ SF_vars(CTimerFires) /\ SF_vars(CStop) /\ SF_vars(CLock)
    /\ WF_vars(\E s \in Shards : CPick(s))
    /\ WF_vars(CFlush \/ CFlushFails) /\ WF_vars(CDone)
    /\ \A s \in Shards : WF_vars(Signal(s)) /\ SF_vars(CloseShard(s))

\* The application may keep a transaction open for ever ...
OpenTxSpec == Spec /\ Fairness

\* ... or end every transaction.
FairSpec == OpenTxSpec /\ \A s \in Shards : WF_vars(TxCommit(s) \/ TxRollback(s))

-----------------------------------------------------------------------------
(* Properties.                                                             *)

\* A shard that owes durability is in the register: neither a failed flush, nor a
\* flush that races a write, nor a call that flushes by itself makes the committer
\* forget it (flushDue, markWindow, unmark).
NeverForgotten == \A s \in Shards : owed[s] /\ open[s] => left[s] # None

\* As long as no flush has failed, the deadline in the register is never later than
\* the window promised to any write that is still owed, whatever windows the other
\* calls on the shard asked for (markWindow: "ne relâche jamais une échéance acquise").
DeadlineKept == faults = 0 => \A s \in Shards : owed[s] /\ open[s] => left[s] <= limit[s]

\* No ring is lost: when the channel is empty and nobody is about to ring, the
\* goroutine does not sleep past the deadline of a registered shard, and does not
\* sleep without a timer while one is registered (signal drops a ring when the slot is taken).
NoOversleep ==
    ~wake /\ ringing = {} =>
        /\ cpc = "timer" => \A s \in Registered : timer <= left[s]
        /\ cpc = "wait" => Registered = {}

\* Every write that was promised local durability gets it, failing flushes included
\* (README: the window bounds the loss), unless a Rollback zeroes the counter that
\* flushDue consults.
WindowHonoured == \A s \in Shards : owed[s] ~> (~owed[s] \/ unflushed[s] = 0)

\* The same for the writes of a shard that no transaction holds.
WindowElsewhere == \A s \in Shards : owed[s] ~> (~owed[s] \/ walMu[s] = "tx")

\* stopWait returns: the goroutine sees stop whatever it is doing.
StopEnds == stop ~> cpc = "stopped"

=============================================================================
