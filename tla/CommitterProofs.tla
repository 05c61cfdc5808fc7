--------------------------- MODULE CommitterProofs ---------------------------
(***************************************************************************)
(* The committer for any number of shards, any windows and any clock.      *)
(* NoOversleep is inductive with the types; NeverForgotten and             *)
(* DeadlineKept need that the counter that flushDue consults is positive   *)
(* wherever durability is owed, which a Rollback breaks.                   *)
(***************************************************************************)
EXTENDS Committer, TLAPS

\* The shard that the goroutine works on.
AtShard == cpc \in {"lock", "locked"} => at \in Shards

TypeInv == TypeOK /\ AtShard

LEMMA TypeInit == Init => TypeInv
<1>1. 0 \in 0 .. CoalesceN - 1 /\ 0 \in Nat /\ 0 \in 0 .. MaxFaults
  BY CommitterAssumption
<1> QED BY <1>1, Zenon DEF Init, TypeInv, TypeOK, AtShard

\* A flush keeps the types of what it resets.
LEMMA FlushedTypes ==
    ASSUME TypeOK, NEW s \in Shards, Flushed(s)
    PROVE  /\ unflushed' \in [Shards -> 0 .. CoalesceN - 1]
           /\ owed' \in [Shards -> BOOLEAN] /\ limit' \in [Shards -> Nat]
<1>1. unflushed' \in [Shards -> 0 .. CoalesceN - 1] /\ limit' \in [Shards -> Nat]
  BY CommitterAssumption DEF TypeOK, Flushed
<1>2. owed' \in [Shards -> BOOLEAN]
  BY Zenon DEF TypeOK, Flushed
<1> QED BY <1>1, <1>2

LEMMA ElapseNat == \A n \in Nat \cup {None} : Elapse(n) \in Nat \cup {None} /\ (n \in Nat => Elapse(n) \in Nat)
BY DEF Elapse, None

LEMMA TypeWriter == ASSUME TypeInv, NEW s \in Shards, WriterNext(s) PROVE TypeInv'
<1> USE CommitterAssumption DEF TypeInv, TypeOK, AtShard, shardVars, runVars, None
<1>m. ASSUME NEW w \in Nat, Marks(s, w), unflushed[s] + 1 < CoalesceN, UNCHANGED <<open, wake, runVars, stop, faults>>
      PROVE TypeInv'
  BY <1>m DEF Marks, Deadline
<1>1. CASE PutDefault(s)
  <2>1. CASE unflushed[s] + 1 >= CoalesceN
    BY <1>1, <2>1, FlushedTypes DEF PutDefault
  <2>2. CASE ~(unflushed[s] + 1 >= CoalesceN)
    BY <1>1, <1>m, <2>2 DEF PutDefault
  <2> QED BY <2>1, <2>2
<1>2. ASSUME NEW w \in Windows, PutWindowed(s, w) PROVE TypeInv'
  BY <1>2, <1>m DEF PutWindowed
<1>3. CASE PutNow(s)
  BY <1>3 DEF PutNow, Flushed
<1>4. CASE PutReplicated(s)
  BY <1>4 DEF PutReplicated
<1>5. CASE Signal(s)
  BY <1>5 DEF Signal
<1>6. CASE Sync(s)
  BY <1>6 DEF Sync, Flushed
<1>7. CASE TxCommit(s)
  BY <1>7, FlushedTypes DEF TxCommit
<1>8. CASE TxBegin(s) \/ TxRollback(s)
  BY <1>8 DEF TxBegin, TxRollback
<1>9. CASE CloseShard(s)
  BY <1>9 DEF CloseShard, Flushed
<1> QED BY <1>1, <1>2, <1>3, <1>4, <1>5, <1>6, <1>7, <1>8, <1>9 DEF WriterNext

LEMMA TypeCommitter == ASSUME TypeInv, CommitterNext PROVE TypeInv'
<1> USE CommitterAssumption DEF TypeInv, TypeOK, AtShard, shardVars, runVars, None
<1>1. CASE CWake \/ CDone
  BY <1>1, Zenon DEF CWake, CDone
<1>7. CASE CTimerWake \/ CStop
  <2>1. 0 \in Nat
    OBVIOUS
  <2> QED BY <1>7, <2>1, Zenon DEF CTimerWake, CStop
<1>8. CASE CTimerFires
  BY <1>8, Zenon DEF CTimerFires
<1>2. CASE CNext
  BY <1>2 DEF CNext, Registered
<1>3. ASSUME NEW s \in Shards, CPick(s) PROVE TypeInv'
  BY <1>3 DEF CPick
<1>4. CASE CLock
  BY <1>4 DEF CLock
<1>5. CASE CFlush
  <2>1. /\ unflushed' \in [Shards -> 0 .. CoalesceN - 1]
        /\ owed' \in [Shards -> BOOLEAN] /\ limit' \in [Shards -> Nat]
    <3>1. CASE open[at] /\ unflushed[at] > 0
      BY <1>5, <3>1, FlushedTypes DEF CFlush
    <3>2. CASE ~(open[at] /\ unflushed[at] > 0)
      BY <1>5, <3>2 DEF CFlush
    <3> QED BY <3>1, <3>2
  <2> QED BY <1>5, <2>1 DEF CFlush, CUnlocks
<1>6. CASE CFlushFails
  BY <1>6 DEF CFlushFails, CUnlocks
<1> QED BY <1>1, <1>2, <1>3, <1>4, <1>5, <1>6, <1>7, <1>8 DEF CommitterNext

LEMMA TypeNext == TypeInv /\ [Next]_vars => TypeInv'
<1> SUFFICES ASSUME TypeInv, [Next]_vars PROVE TypeInv'
  OBVIOUS
<1>1. CASE Tick
  BY <1>1, ElapseNat DEF Tick, TypeInv, TypeOK, AtShard
<1>2. CASE StopWait
  BY <1>2 DEF StopWait, TypeInv, TypeOK, AtShard, shardVars, runVars
<1>3. CASE Closed \/ UNCHANGED vars
  BY <1>3 DEF Closed, vars, TypeInv, TypeOK, AtShard, shardVars, runVars
<1> QED BY <1>1, <1>2, <1>3, TypeWriter, TypeCommitter DEF Next

-----------------------------------------------------------------------------
(* The rings.                                                              *)

\* The two halves of NoOversleep, on the state as it is.
LEMMA AwakeNext == TypeInv /\ NoOversleep /\ [Next]_vars => NoOversleep'
<1> SUFFICES ASSUME TypeInv, NoOversleep, [Next]_vars PROVE NoOversleep'
  OBVIOUS
<1> USE DEF TypeInv, TypeOK, NoOversleep, Registered, shardVars, runVars, None
<1>1. CASE Tick
  BY <1>1 DEF Tick, Elapse
<1>2. ASSUME NEW s \in Shards, WriterNext(s) PROVE NoOversleep'
  <2>m. ASSUME NEW w, Marks(s, w) PROVE NoOversleep'
    BY <2>m DEF Marks
  <2>1. CASE PutDefault(s)
    BY <2>1, <2>m DEF PutDefault
  <2>2. ASSUME NEW w \in Windows, PutWindowed(s, w) PROVE NoOversleep'
    BY <2>2, <2>m DEF PutWindowed
  <2>3. CASE PutNow(s)
    BY <2>3 DEF PutNow
  <2>4. CASE Signal(s)
    BY <2>4 DEF Signal
  <2>5. CASE PutReplicated(s) \/ Sync(s) \/ TxBegin(s) \/ TxCommit(s) \/ TxRollback(s) \/ CloseShard(s)
    BY <2>5 DEF PutReplicated, Sync, TxBegin, TxCommit, TxRollback, CloseShard
  <2> QED BY <1>2, <2>1, <2>2, <2>3, <2>4, <2>5 DEF WriterNext
<1>3. CASE CommitterNext
  <2>1. CASE CNext
    BY <2>1 DEF CNext
  <2>2. CASE CWake \/ CTimerWake \/ CTimerFires \/ CLock \/ CFlush \/ CFlushFails \/ CDone \/ CStop
             \/ \E s \in Shards : CPick(s)
    BY <2>2 DEF CWake, CTimerWake, CTimerFires, CPick, CLock, CFlush, CFlushFails, CUnlocks, CDone, CStop
  <2> QED BY <1>3, <2>1, <2>2 DEF CommitterNext
<1>4. CASE StopWait \/ Closed \/ UNCHANGED vars
  BY <1>4 DEF StopWait, Closed, vars
<1> QED BY <1>1, <1>2, <1>3, <1>4 DEF Next

\* No ring of markWindow is lost, for any shards, windows and workload.
THEOREM Awake == Spec => []NoOversleep
<1>1. Init => NoOversleep BY DEF Init, NoOversleep, Registered, None
<1> QED BY <1>1, TypeInit, TypeNext, AwakeNext, PTL DEF Spec

-----------------------------------------------------------------------------
(* The register.                                                           *)

\* Wherever durability is owed, flushDue will find the shard, in time, and its counter
\* will tell it to flush.
Kept(s) ==
    owed[s] => /\ open[s] /\ unflushed[s] > 0 /\ left[s] # None
               /\ faults = 0 => left[s] <= limit[s]

RegInv == \A s \in Shards : Kept(s)

LEMMA RegWriter ==
    ASSUME "rollback" \notin Ops, TypeInv, RegInv, NEW s \in Shards, WriterNext(s)
    PROVE RegInv'
<1> USE CommitterAssumption DEF TypeInv, TypeOK, RegInv, Kept, shardVars, runVars, None
<1>m. ASSUME NEW w \in Nat, Marks(s, w), open[s], UNCHANGED <<open, faults>> PROVE RegInv'
  BY <1>m DEF Marks, Deadline
<1>f. ASSUME Flushed(s), UNCHANGED faults, \A t \in Shards \ {s} : left'[t] = left[t] /\ open'[t] = open[t]
      PROVE RegInv'
  BY <1>f DEF Flushed
<1>1. CASE PutDefault(s)
  BY <1>1, <1>m, <1>f DEF PutDefault, CanLock
<1>2. ASSUME NEW w \in Windows, PutWindowed(s, w) PROVE RegInv'
  BY <1>2, <1>m DEF PutWindowed, CanLock
<1>3. CASE PutNow(s)
  BY <1>3, <1>f DEF PutNow
<1>4. CASE PutReplicated(s)
  BY <1>4 DEF PutReplicated
<1>5. CASE Signal(s) \/ TxBegin(s)
  BY <1>5 DEF Signal, TxBegin
<1>6. CASE Sync(s) \/ TxCommit(s) \/ CloseShard(s)
  BY <1>6, <1>f DEF Sync, TxCommit, CloseShard
<1>7. CASE TxRollback(s)
  BY <1>7 DEF TxRollback
<1> QED BY <1>1, <1>2, <1>3, <1>4, <1>5, <1>6, <1>7 DEF WriterNext

LEMMA RegCommitter == ASSUME TypeInv, RegInv, CommitterNext PROVE RegInv'
<1> USE CommitterAssumption DEF TypeInv, TypeOK, AtShard, RegInv, Kept, shardVars, runVars, None
<1>1. CASE CFlush
  BY <1>1 DEF CFlush, Flushed
<1>2. CASE CFlushFails
  BY <1>2 DEF CFlushFails
<1>3. CASE CWake \/ CNext \/ CTimerWake \/ CTimerFires \/ CLock \/ CDone \/ CStop \/ \E s \in Shards : CPick(s)
  BY <1>3 DEF CWake, CNext, CTimerWake, CTimerFires, CPick, CLock, CDone, CStop
<1> QED BY <1>1, <1>2, <1>3 DEF CommitterNext

LEMMA RegNext == ASSUME "rollback" \notin Ops PROVE TypeInv /\ RegInv /\ [Next]_vars => RegInv'
<1> SUFFICES ASSUME TypeInv, RegInv, [Next]_vars PROVE RegInv'
  OBVIOUS
<1>1. CASE Tick
  BY <1>1 DEF Tick, Elapse, TypeInv, TypeOK, RegInv, Kept, None
<1>2. CASE StopWait \/ Closed \/ UNCHANGED vars
  BY <1>2 DEF StopWait, Closed, vars, shardVars, RegInv, Kept
<1> QED BY <1>1, <1>2, RegWriter, RegCommitter DEF Next

\* Without Rollback, a shard that owes durability is registered, with a deadline not
\* later than any window it promised: for any shards, windows and interleaving.
THEOREM Remembered == ASSUME "rollback" \notin Ops PROVE Spec => [](NeverForgotten /\ DeadlineKept)
<1>1. Init => RegInv BY DEF Init, RegInv, Kept
<1>2. RegInv => NeverForgotten /\ DeadlineKept BY DEF RegInv, Kept, NeverForgotten, DeadlineKept
<1> QED BY <1>1, <1>2, TypeInit, TypeNext, RegNext, PTL DEF Spec

=============================================================================
