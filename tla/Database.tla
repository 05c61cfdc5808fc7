------------------------------ MODULE Database ------------------------------
(***************************************************************************)
(* A base over several shards and its locks: routing, lots, transactions,  *)
(* batches, barriers, the committer and the replication wait               *)
(* (pkg/c2db/route.go, replication.go, c2ql.go, tx.go, engine.go).         *)
(*                                                                         *)
(* A goroutine is a client, or the job of a batch on one shard.  db.mu is  *)
(* Go's RWMutex: a waiting Lock keeps new readers out.  The lock of a      *)
(* shard is writeMu, tried (busyTimeout is 0), then walMu, waited for; the *)
(* owner takes it again by counting.  A critical section of db.mu in which *)
(* nothing waits is one step.  What a shard journals is a count of writes: *)
(* those logged, durable, acknowledged and published to the replicas.      *)
(***************************************************************************)
EXTENDS Naturals, FiniteSets, FiniteSetsExt

CONSTANTS
    Clients, Shards, None,
    Modes,         \* the commit policies to explore: "windowed", "replicated"
    Openings,      \* the shards that reads have opened, to begin with
    Calls,         \* the calls clients make
    MaxCalls,      \* bound on the calls
    OwnerCalls,    \* whether the owner of a transaction calls the base, and a lot runs
                   \* beside a call that waits for its shards under db.mu
    CloseShared    \* whether Close runs beside calls that leave db.mu before they end

Flusher == <<"committer">>    \* the goroutine of the committer

ASSUME DatabaseAssumption ==
    /\ None \notin Clients \cup Shards \cup (Clients \X Shards) \cup {Flusher}
    /\ Clients \cap (Clients \X Shards) = {} /\ Shards \cap {"none", "idle", "stopped"} = {}
    /\ Modes \subseteq {"windowed", "replicated"} /\ MaxCalls \in Nat
    /\ Calls \subseteq {"put", "putWindow", "tx", "batch", "lot", "sync", "checkpoint", "close"}
    /\ Openings \subseteq SUBSET Shards
    /\ {OwnerCalls, CloseShared} \subseteq BOOLEAN

VARIABLES
    mode,         \* commitPolicy.Mode
    db,           \* db.mu and the fields it guards
    shard,        \* of each shard, its lock, its group and its counts
    client,       \* the call of each client
    job,          \* the jobs of a client's batch, per shard
    committer,    \* "none", "idle", or the shard it flushes; "stopped"
    published,    \* the replication sequence of the base
    acked,        \* what the quorum has acknowledged
    calls

vars == <<mode, db, shard, client, job, committer, published, acked, calls>>

NewShard == [open |-> FALSE, wmu |-> None, wal |-> None, owner |-> None, depth |-> 0,
             group |-> 0, marked |-> FALSE, logged |-> 0, durable |-> 0, ok |-> 0, out |-> 0, seq |-> 0,
             dropped |-> FALSE]    \* whether acknowledged writes left the journal before a flush
Idle == [pc |-> "idle", kind |-> "none", s |-> None, then |-> "none", after |-> "none", from |-> 0,
         todo |-> {}, list |-> {}, tx |-> None, goal |-> <<>>]

Init ==
    /\ mode \in Modes
    /\ db = [writer |-> None, readers |-> {}, waiting |-> {}, lot |-> FALSE, closed |-> FALSE]
    /\ \E opened \in Openings : shard = [s \in Shards |-> [NewShard EXCEPT !.open = s \in opened]]
    /\ client = [c \in Clients |-> Idle]
    /\ job = [c \in Clients |-> [s \in Shards |-> "none"]]
    /\ committer = IF mode = "replicated" THEN "none" ELSE "idle"
    /\ published = 0 /\ acked = 0 /\ calls = 0

-----------------------------------------------------------------------------
(* Locks.                                                                  *)

Call(c, y) == client' = [client EXCEPT ![c] = y]
SetShard(s, x) == shard' = [shard EXCEPT ![s] = x]
To(c, pc) == Call(c, [client[c] EXCEPT !.pc = pc])

\* between two calls; an open transaction stays
Between(c) == [Idle EXCEPT !.tx = client[c].tx, !.from = client[c].from]
Return(c) == Call(c, Between(c))

\* execLotKV, or another call, when a shard is refused: a lot ends with its first error
OpFails(c) ==
    IF client[c].kind = "lot"
    THEN Call(c, [client[c] EXCEPT !.pc = "lotRun", !.todo = {}, !.then = "failed"])
    ELSE Return(c)

MayRead == db.writer = None /\ db.waiting = {}
MayLock(c) == db.writer = None /\ db.readers = {}

\* db.mu.Lock waits
Want(c, pc) ==
    /\ db' = [db EXCEPT !.waiting = @ \cup {c}]
    /\ To(c, pc)
    /\ UNCHANGED <<mode, shard, job, committer, published, acked, calls>>

\* lockWriter up to walMu
Lock1(c) ==
    LET s == client[c].s
    IN  /\ client[c].pc = "lock1"
        /\ IF shard[s].owner = c
             THEN /\ SetShard(s, [shard[s] EXCEPT !.depth = @ + 1])
                  /\ To(c, client[c].after)
             ELSE /\ shard[s].wmu = None
                  /\ SetShard(s, [shard[s] EXCEPT !.wmu = c])
                  /\ To(c, "lock2")
        /\ UNCHANGED <<mode, db, job, committer, published, acked, calls>>

Lock2(c) ==
    LET s == client[c].s
    IN  /\ client[c].pc = "lock2" /\ shard[s].wal = None
        /\ SetShard(s, [shard[s] EXCEPT !.wal = c, !.owner = c, !.depth = 1])
        /\ To(c, client[c].after)
        /\ UNCHANGED <<mode, db, job, committer, published, acked, calls>>

\* Mutant of Busy: db.mu stays read-locked.
BusyReading(c) ==
    LET s == client[c].s
    IN  /\ client[c].pc = "lock1" /\ shard[s].owner # c /\ shard[s].wmu # None
        /\ IF client[c].kind = "lot" /\ client[c].after = "lotGroup"
             THEN Call(c, [client[c] EXCEPT !.pc = "lotFail", !.todo = {}])
             ELSE OpFails(c)
        /\ db' = [db EXCEPT !.writer = IF @ = c THEN None ELSE @]
        /\ UNCHANGED <<mode, shard, job, committer, published, acked, calls>>
\* ErrWriterBusy: a lot that is locking its shards ends with the locks it has; a
\* GetShard under db.mu gives db.mu back; a Checkpoint gives up its read lock.
Busy(c) ==
    LET s == client[c].s
    IN  /\ client[c].pc = "lock1" /\ shard[s].owner # c /\ shard[s].wmu # None
        /\ IF client[c].kind = "lot" /\ client[c].after = "lotGroup"
             THEN Call(c, [client[c] EXCEPT !.pc = "lotFail", !.todo = {}])
             ELSE OpFails(c)
        /\ db' = [db EXCEPT !.writer = IF @ = c THEN None ELSE @, !.readers = @ \ {c}]
        /\ UNCHANGED <<mode, shard, job, committer, published, acked, calls>>

\* Mutant of Unlocked: writeMu is not given back.
UnlockedHalf(x) ==
    IF x.depth > 1 THEN [x EXCEPT !.depth = @ - 1]
    ELSE [x EXCEPT !.depth = 0, !.owner = None, !.wal = None]
\* unlockWriter
Unlocked(x) ==
    IF x.depth > 1 THEN [x EXCEPT !.depth = @ - 1]
    ELSE [x EXCEPT !.depth = 0, !.owner = None, !.wal = None, !.wmu = None]

\* Mutant of Flushed: the flush forgets the last write.
FlushedShort(x) == [x EXCEPT !.durable = IF x.logged > 0 THEN x.logged - 1 ELSE 0, !.marked = FALSE]
\* flushWAL
Flushed(x) == [x EXCEPT !.durable = x.logged, !.marked = FALSE]

\* checkpointLocked, Close: the pages of the heap are written too, with what the journal lost
Saved(x) == [Flushed(x) EXCEPT !.dropped = FALSE]

\* leaveGroup
Left(x) == IF x.group = 1 THEN [Flushed(x) EXCEPT !.group = 0] ELSE [x EXCEPT !.group = @ - 1]

-----------------------------------------------------------------------------
(* GetShard.                                                               *)

GetFast(c) ==
    LET s == client[c].s
    IN  /\ client[c].pc = "get" /\ MayRead
        /\ IF db.closed THEN OpFails(c)
           ELSE IF ~shard[s].open THEN To(c, "getWant")
           ELSE IF db.lot /\ shard[s].group = 0
                THEN Call(c, [client[c] EXCEPT !.pc = "lock1", !.after = "enter"])
           ELSE To(c, client[c].then)
        /\ UNCHANGED <<mode, db, shard, job, committer, published, acked, calls>>

GetWant(c) == client[c].pc = "getWant" /\ Want(c, "getSlow")

\* under db.mu: the shard is opened, unless another call did
GetSlow(c) ==
    LET s == client[c].s
    IN  /\ client[c].pc = "getSlow" /\ MayLock(c)
        /\ IF db.lot /\ ~db.closed /\ shard[s].group = 0
             THEN /\ Call(c, [client[c] EXCEPT !.pc = "lock1", !.after = "enter"])
                  /\ db' = [db EXCEPT !.waiting = @ \ {c}, !.writer = c]
             ELSE /\ IF db.closed THEN OpFails(c) ELSE To(c, client[c].then)
                  /\ db' = [db EXCEPT !.waiting = @ \ {c}]
        /\ IF db.closed THEN UNCHANGED shard ELSE SetShard(s, [shard[s] EXCEPT !.open = TRUE])
        /\ UNCHANGED <<mode, job, committer, published, acked, calls>>

\* enterGroup on behalf of a lot, with the lock kept
Enter(c) ==
    /\ client[c].pc = "enter"
    /\ SetShard(client[c].s, [shard[client[c].s] EXCEPT !.group = @ + 1])
    /\ db' = [db EXCEPT !.writer = IF @ = c THEN None ELSE @]
    /\ To(c, client[c].then)
    /\ UNCHANGED <<mode, job, committer, published, acked, calls>>

-----------------------------------------------------------------------------
(* Put.                                                                    *)

Quiet == \A d \in Clients : client[d].kind \in {"none", "checkpoint"} /\ client[d].tx = None
MayCall(c, call) ==
    /\ call \in Calls /\ calls < MaxCalls
    /\ client[c].pc = "idle" /\ (client[c].tx = None \/ OwnerCalls)
    /\ OwnerCalls \/ \A d \in Clients \ {c} : {call, client[d].kind} # {"lot", "putWindow"}
    /\ CloseShared \/ call = "checkpoint" \/ \A d \in Clients \ {c} : client[d].kind # "close"
Called == calls' = calls + 1

StartPut(c, s) ==
    /\ MayCall(c, "put") /\ Called
    /\ Call(c, [Between(c) EXCEPT !.kind = "put", !.pc = "get", !.s = s, !.then = "putLock"])
    /\ UNCHANGED <<mode, db, shard, job, committer, published, acked>>

\* WithCommitWindowed: ensureCommitter first
StartPutWindow(c, s) ==
    /\ MayCall(c, "putWindow") /\ Called
    /\ db' = [db EXCEPT !.waiting = @ \cup {c}]
    /\ Call(c, [Between(c) EXCEPT !.kind = "putWindow", !.pc = "ensureWant", !.s = s, !.then = "putLock"])
    /\ UNCHANGED <<mode, shard, job, committer, published, acked>>

EnsureStart(c) ==
    /\ client[c].pc = "ensureWant" /\ MayLock(c)
    /\ db' = [db EXCEPT !.waiting = @ \ {c}, !.writer = IF db.closed THEN None ELSE c]
    /\ committer' = IF committer = "none" /\ ~db.closed THEN "idle" ELSE committer
    /\ Call(c, [client[c] EXCEPT !.pc = IF db.closed THEN "get" ELSE "ensure",
                               !.todo = {s \in Shards : shard[s].open}])
    /\ UNCHANGED <<mode, shard, job, published, acked, calls>>

\* the walMu of each open shard in turn, db.mu held
EnsureShard(c, s) ==
    /\ client[c].pc = "ensure" /\ s \in client[c].todo /\ shard[s].wal = None
    /\ Call(c, [client[c] EXCEPT !.todo = @ \ {s}])
    /\ UNCHANGED <<mode, db, shard, job, committer, published, acked, calls>>
EnsureEnd(c) ==
    /\ client[c].pc = "ensure" /\ client[c].todo = {}
    /\ db' = [db EXCEPT !.writer = None]
    /\ To(c, "get")
    /\ UNCHANGED <<mode, shard, job, committer, published, acked, calls>>

PutLock(c) ==
    /\ client[c].pc = "putLock"
    /\ Call(c, [client[c] EXCEPT !.pc = "lock1", !.after = "write"])
    /\ UNCHANGED <<mode, db, shard, job, committer, published, acked, calls>>

\* one write: the journal, the committer's mark, the replicas
Logs(x, kind) ==
    [x EXCEPT !.logged = @ + 1, !.seq = published + 1, !.out = @ + 1,
              !.marked = @ \/ (x.group = 0 /\ committer # "none" /\ (kind = "putWindow" \/ mode = "windowed"))]

\* putBody, syncWAL, replicate, then the lock back; a write of a lot is
\* acknowledged with the lot
Write(c) ==
    LET s == client[c].s
        x == Unlocked(Logs(shard[s], client[c].kind))
    IN  /\ client[c].pc = "write"
        /\ SetShard(s, IF client[c].kind = "lot" THEN x ELSE [x EXCEPT !.ok = x.logged])
        /\ published' = published + 1
        /\ IF client[c].kind = "lot" THEN To(c, "lotRun") ELSE Return(c)
        /\ UNCHANGED <<mode, db, job, committer, acked, calls>>

-----------------------------------------------------------------------------
(* Transactions: the lock is held from Begin to Commit or Rollback.  An    *)
(* empty transaction is only rolled back here; Journal has its Commit.     *)

StartTx(c, s) ==
    /\ MayCall(c, "tx") /\ client[c].tx = None /\ Called
    /\ Call(c, [Idle EXCEPT !.kind = "tx", !.pc = "get", !.s = s, !.then = "txLock"])
    /\ UNCHANGED <<mode, db, shard, job, committer, published, acked>>

TxLock(c) ==
    /\ client[c].pc = "txLock"
    /\ Call(c, [client[c] EXCEPT !.pc = "lock1", !.after = "begin"])
    /\ UNCHANGED <<mode, db, shard, job, committer, published, acked, calls>>

Begin(c) ==
    LET s == client[c].s
    IN  /\ client[c].pc = "begin"
        /\ IF shard[s].group > 0
             THEN SetShard(s, Unlocked(shard[s])) /\ Return(c)
             ELSE /\ SetShard(s, [shard[s] EXCEPT !.group = 1])
                  /\ Call(c, [Idle EXCEPT !.tx = s, !.from = shard[s].logged])
        /\ UNCHANGED <<mode, db, job, committer, published, acked, calls>>

\* txPut: journaled; the replicas are not told
TxPut(c) ==
    /\ client[c].pc = "idle" /\ client[c].tx # None
    /\ shard[client[c].tx].logged = client[c].from
    /\ SetShard(client[c].tx, [shard[client[c].tx] EXCEPT !.logged = @ + 1])
    /\ UNCHANGED <<mode, db, client, job, committer, published, acked, calls>>

Commit(c) ==
    LET s == client[c].tx
    IN  /\ client[c].pc = "idle" /\ s # None
        /\ shard[s].logged > client[c].from
        /\ SetShard(s, [Unlocked(Left(shard[s])) EXCEPT !.ok = shard[s].logged])
        /\ Call(c, Idle)
        /\ UNCHANGED <<mode, db, job, committer, published, acked, calls>>

\* abortGroup empties the pack and forgets what was not flushed: with the writes of
\* the transaction, those that earlier calls had acknowledged
Rollback(c) ==
    LET s == client[c].tx
    IN  /\ client[c].pc = "idle" /\ s # None
        /\ SetShard(s, [Unlocked(shard[s]) EXCEPT !.group = 0, !.logged = client[c].from,
                                                 !.dropped = @ \/ shard[s].ok > shard[s].durable])
        /\ Call(c, Idle)
        /\ UNCHANGED <<mode, db, job, committer, published, acked, calls>>

-----------------------------------------------------------------------------
(* PutBatch over several shards: one goroutine per shard.                  *)

StartBatch(c, ss) ==
    /\ MayCall(c, "batch") /\ Called
    /\ Cardinality(ss) > 1
    /\ Call(c, [Between(c) EXCEPT !.kind = "batch", !.pc = "batchGet", !.todo = ss, !.list = ss])
    /\ UNCHANGED <<mode, db, shard, job, committer, published, acked>>

BatchGet(c, s) ==
    /\ client[c].pc = "batchGet" /\ s \in client[c].todo
    /\ Call(c, [client[c] EXCEPT !.pc = "get", !.s = s, !.then = "batchGet", !.todo = @ \ {s}])
    /\ UNCHANGED <<mode, db, shard, job, committer, published, acked, calls>>
BatchGo(c) ==
    /\ client[c].pc = "batchGet" /\ client[c].todo = {}
    /\ job' = [job EXCEPT ![c] = [s \in Shards |-> IF s \in client[c].list THEN "ready" ELSE "none"]]
    /\ To(c, "batchWait")
    /\ UNCHANGED <<mode, db, shard, committer, published, acked, calls>>

\* a job is the goroutine <<c, s>>
JobLock(c, s) ==
    /\ job[c][s] = "ready"
    /\ IF shard[s].wmu = None
         THEN job' = [job EXCEPT ![c][s] = "wal"] /\ SetShard(s, [shard[s] EXCEPT !.wmu = <<c, s>>])
         ELSE job' = [job EXCEPT ![c][s] = "failed"] /\ UNCHANGED shard
    /\ UNCHANGED <<mode, db, client, committer, published, acked, calls>>
JobWal(c, s) ==
    /\ job[c][s] = "wal" /\ shard[s].wal = None
    /\ job' = [job EXCEPT ![c][s] = "locked"]
    /\ SetShard(s, [shard[s] EXCEPT !.wal = <<c, s>>, !.owner = <<c, s>>, !.depth = 1])
    /\ UNCHANGED <<mode, db, client, committer, published, acked, calls>>
\* putBatchLocked: the part of the batch is durable when it returns, unless an earlier
\* Put left its pack open (EndPack); it is never marked, and is counted as acknowledged
\* as soon as it is written
BatchPart(x) == [Logs(x, "batch") EXCEPT !.marked = x.marked, !.ok = x.logged + 1]
PackOpen(x) == x.logged > x.durable
JobWrite(c, s) ==
    /\ job[c][s] = "locked"
    /\ job' = [job EXCEPT ![c][s] = "done"]
    /\ LET x == shard[s]
           y == BatchPart(x)
       IN  \/ SetShard(s, Unlocked(Flushed(y)))
           \/ PackOpen(x) /\ SetShard(s, Unlocked(y))
    /\ published' = published + 1
    /\ UNCHANGED <<mode, db, client, committer, acked, calls>>

\* wg.Wait
BatchEnd(c) ==
    /\ client[c].pc = "batchWait"
    /\ \A s \in client[c].list : job[c][s] \in {"done", "failed"}
    /\ job' = [job EXCEPT ![c] = [s \in Shards |-> "none"]]
    /\ Return(c)
    /\ UNCHANGED <<mode, db, shard, committer, published, acked, calls>>

-----------------------------------------------------------------------------
(* A lot (DB.ExecC2QL): every open shard is locked and grouped, the        *)
(* operations run through GetShard, the groups are closed.                 *)

StartLot(c) ==
    /\ MayCall(c, "lot") /\ client[c].tx = None /\ Called
    /\ db' = [db EXCEPT !.waiting = @ \cup {c}]
    /\ Call(c, [Idle EXCEPT !.kind = "lot", !.pc = "lotWant"])
    /\ UNCHANGED <<mode, shard, job, committer, published, acked>>

LotList(c) ==
    /\ client[c].pc = "lotWant" /\ MayLock(c)
    /\ db' = [db EXCEPT !.waiting = @ \ {c}, !.lot = TRUE]
    /\ LET open == IF db.closed THEN {} ELSE {s \in Shards : shard[s].open}
       IN  Call(c, [client[c] EXCEPT !.pc = "lotLock", !.todo = open, !.list = open])
    /\ UNCHANGED <<mode, shard, job, committer, published, acked, calls>>
LotLock(c, s) ==
    /\ client[c].pc = "lotLock" /\ s \in client[c].todo
    /\ Call(c, [client[c] EXCEPT !.pc = "lock1", !.after = "lotGroup", !.s = s, !.todo = @ \ {s}])
    /\ UNCHANGED <<mode, db, shard, job, committer, published, acked, calls>>
LotGroup(c) ==
    /\ client[c].pc = "lotGroup"
    /\ SetShard(client[c].s, [shard[client[c].s] EXCEPT !.group = @ + 1])
    /\ To(c, "lotLock")
    /\ UNCHANGED <<mode, db, job, committer, published, acked, calls>>
LotStart(c) ==
    /\ client[c].pc = "lotLock" /\ client[c].todo = {}
    /\ Call(c, [client[c] EXCEPT !.pc = "lotRun", !.todo = Shards])
    /\ UNCHANGED <<mode, db, shard, job, committer, published, acked, calls>>

\* an operation of the lot, on any shard; bound: one on each
LotOp(c, s) ==
    /\ client[c].pc = "lotRun" /\ s \in client[c].todo
    /\ Call(c, [client[c] EXCEPT !.pc = "get", !.s = s, !.then = "putLock", !.todo = @ \ {s}])
    /\ UNCHANGED <<mode, db, shard, job, committer, published, acked, calls>>

\* leaveGroup and unlockWriter on the listed shards, then lotGroup; the writes are
\* acknowledged unless an operation failed
LotEnd(c) ==
    /\ client[c].pc = "lotRun"
    /\ shard' = [s \in Shards |-> IF s \in client[c].list THEN Unlocked(Left(shard[s])) ELSE shard[s]]
    /\ db' = [db EXCEPT !.waiting = @ \cup {c}]
    /\ Call(c, [client[c] EXCEPT !.pc = "lotClear",
                               !.todo = IF client[c].then = "failed" THEN {} ELSE client[c].list])
    /\ UNCHANGED <<mode, job, committer, published, acked, calls>>
LotFail(c) == client[c].pc = "lotFail" /\ Want(c, "lotClear")
LotClear(c) ==
    /\ client[c].pc = "lotClear" /\ MayLock(c)
    /\ db' = [db EXCEPT !.waiting = @ \ {c}, !.lot = FALSE]
    /\ shard' = [s \in Shards |-> IF s \in client[c].todo
                                  THEN [shard[s] EXCEPT !.ok = Max({shard[s].ok, shard[s].durable})] ELSE shard[s]]
    /\ Return(c)
    /\ UNCHANGED <<mode, job, committer, published, acked, calls>>

-----------------------------------------------------------------------------
(* Barriers.                                                               *)

\* Sync: the open shards, then for each the replicas and the journal
StartSync(c) ==
    /\ MayCall(c, "sync") /\ Called /\ MayRead /\ ~db.closed
    /\ Call(c, [Between(c) EXCEPT !.kind = "sync", !.pc = "sync", !.todo = {s \in Shards : shard[s].open},
                                    !.goal = [s \in Shards |-> [n |-> shard[s].ok, seq |-> shard[s].seq]]])
    /\ UNCHANGED <<mode, db, shard, job, committer, published, acked>>

\* Mutant of SyncAck: the quorum is not waited for.
SyncAckEarly(c, s) ==
    /\ client[c].pc = "sync" /\ s \in client[c].todo
    /\ Call(c, [client[c] EXCEPT !.pc = "syncWal", !.s = s])
    /\ UNCHANGED <<mode, db, shard, job, committer, published, acked, calls>>
\* WaitAck on the last sequence of the shard, then syncBarrier
SyncAck(c, s) ==
    /\ client[c].pc = "sync" /\ s \in client[c].todo
    /\ mode = "replicated" => acked >= shard[s].seq
    /\ Call(c, [client[c] EXCEPT !.pc = "syncWal", !.s = s])
    /\ UNCHANGED <<mode, db, shard, job, committer, published, acked, calls>>
SyncShard(c) ==
    LET s == client[c].s
    IN  /\ client[c].pc = "syncWal" /\ shard[s].wal = None
        /\ SetShard(s, Flushed(shard[s]))
        /\ Call(c, [client[c] EXCEPT !.pc = "sync", !.todo = @ \ {s}])
        /\ UNCHANGED <<mode, db, job, committer, published, acked, calls>>
SyncEnd(c) ==
    /\ client[c].pc = "sync" /\ client[c].todo = {}
    /\ Return(c)
    /\ UNCHANGED <<mode, db, shard, job, committer, published, acked, calls>>

\* the quorum acknowledges what was published: external
Ack ==
    /\ mode = "replicated" /\ acked < published
    /\ acked' = published
    /\ UNCHANGED <<mode, db, shard, client, job, committer, published, calls>>

\* DB.Checkpoint, DB.Compact: db.mu is read-locked over every shard
StartCheckpoint(c) ==
    /\ MayCall(c, "checkpoint") /\ Called /\ MayRead /\ ~db.closed
    /\ db' = [db EXCEPT !.readers = @ \cup {c}]
    /\ Call(c, [Between(c) EXCEPT !.kind = "checkpoint", !.pc = "ckpt", !.todo = {s \in Shards : shard[s].open}])
    /\ UNCHANGED <<mode, shard, job, committer, published, acked>>
CheckpointShard(c, s) ==
    /\ client[c].pc = "ckpt" /\ s \in client[c].todo
    /\ Call(c, [client[c] EXCEPT !.pc = "lock1", !.after = "ckptDo", !.s = s, !.todo = @ \ {s}])
    /\ UNCHANGED <<mode, db, shard, job, committer, published, acked, calls>>
CheckpointDo(c) ==
    /\ client[c].pc = "ckptDo"
    /\ SetShard(client[c].s, Unlocked(Saved(shard[client[c].s])))
    /\ To(c, "ckpt")
    /\ UNCHANGED <<mode, db, job, committer, published, acked, calls>>
CheckpointEnd(c) ==
    /\ client[c].pc = "ckpt" /\ client[c].todo = {}
    /\ db' = [db EXCEPT !.readers = @ \ {c}]
    /\ Return(c)
    /\ UNCHANGED <<mode, shard, job, committer, published, acked, calls>>

-----------------------------------------------------------------------------
(* The committer, and Close.                                               *)

CommitterWal(s) ==
    /\ committer = "idle" /\ shard[s].marked /\ shard[s].wal = None
    /\ committer' = s
    /\ SetShard(s, [shard[s] EXCEPT !.wal = Flusher])
    /\ UNCHANGED <<mode, db, client, job, published, acked, calls>>
CommitterFlush ==
    /\ committer \in Shards
    /\ SetShard(committer, [Flushed(shard[committer]) EXCEPT !.wal = None])
    /\ committer' = "idle"
    /\ UNCHANGED <<mode, db, client, job, published, acked, calls>>

StartClose(c) ==
    /\ MayCall(c, "close") /\ client[c].tx = None /\ Called
    /\ CloseShared \/ Quiet
    /\ db' = [db EXCEPT !.waiting = @ \cup {c}]
    /\ Call(c, [Idle EXCEPT !.kind = "close", !.pc = "closeWant"])
    /\ UNCHANGED <<mode, shard, job, committer, published, acked>>

\* Mutant of CloseStop: Close does not wait for the readers of db.mu.
CloseStopAtOnce(c) ==
    /\ client[c].pc = "closeWant" /\ db.writer = None /\ committer \notin Shards
    /\ db' = [db EXCEPT !.waiting = @ \ {c}, !.writer = IF db.closed THEN None ELSE c]
    /\ committer' = IF db.closed THEN committer ELSE "stopped"
    /\ IF db.closed THEN Return(c) ELSE To(c, "closing")
    /\ UNCHANGED <<mode, shard, job, published, acked, calls>>
\* stopWait: the committer has no shard in hand; it waits for the walMu of a
\* marked shard if it got that far
CloseStop(c) ==
    /\ client[c].pc = "closeWant" /\ MayLock(c) /\ committer \notin Shards
    /\ db' = [db EXCEPT !.waiting = @ \ {c}, !.writer = IF db.closed THEN None ELSE c]
    /\ committer' = IF db.closed THEN committer ELSE "stopped"
    /\ IF db.closed THEN Return(c) ELSE To(c, "closing")
    /\ UNCHANGED <<mode, shard, job, published, acked, calls>>

\* Shard.Close of every shard, without a lock
CloseShards(c) ==
    /\ client[c].pc = "closing"
    /\ shard' = [s \in Shards |-> IF shard[s].open THEN [Saved(shard[s]) EXCEPT !.open = FALSE] ELSE shard[s]]
    /\ db' = [db EXCEPT !.writer = None, !.closed = TRUE]
    /\ Return(c)
    /\ UNCHANGED <<mode, job, committer, published, acked, calls>>

-----------------------------------------------------------------------------
Starts(c) ==
    \/ \E s \in Shards : StartPut(c, s) \/ StartPutWindow(c, s) \/ StartTx(c, s)
    \/ \E ss \in SUBSET Shards : StartBatch(c, ss)
    \/ StartLot(c) \/ StartSync(c) \/ StartCheckpoint(c) \/ StartClose(c)
TxSteps(c) == TxPut(c) \/ Commit(c) \/ Rollback(c)
Steps(c) ==
    \/ Lock1(c) \/ Lock2(c) \/ Busy(c) \/ GetFast(c) \/ GetWant(c) \/ GetSlow(c) \/ Enter(c)
    \/ EnsureStart(c) \/ EnsureEnd(c) \/ PutLock(c) \/ Write(c) \/ TxLock(c) \/ Begin(c)
    \/ BatchGo(c) \/ BatchEnd(c)
    \/ LotList(c) \/ LotGroup(c) \/ LotStart(c) \/ LotEnd(c) \/ LotFail(c) \/ LotClear(c)
    \/ SyncShard(c) \/ SyncEnd(c) \/ CheckpointDo(c) \/ CheckpointEnd(c)
    \/ CloseStop(c) \/ CloseShards(c)
    \/ \E s \in Shards :
          \/ EnsureShard(c, s) \/ BatchGet(c, s) \/ JobLock(c, s) \/ JobWal(c, s) \/ JobWrite(c, s)
          \/ LotLock(c, s) \/ SyncAck(c, s) \/ CheckpointShard(c, s)
Commits == (\E s \in Shards : CommitterWal(s)) \/ CommitterFlush

Next ==
    \/ Ack \/ Commits
    \/ \E c \in Clients : Starts(c) \/ TxSteps(c) \/ Steps(c) \/ \E s \in Shards : LotOp(c, s)

\* Every goroutine that can run does; the quorum answers; a lot and a
\* transaction end.  No fairness makes a client begin a call.
Fairness ==
    /\ WF_vars(Ack) /\ WF_vars(Commits)
    /\ \A c \in Clients : WF_vars(Steps(c)) /\ WF_vars(Commit(c) \/ Rollback(c))

Spec == Init /\ [][Next]_vars
FairSpec == Spec /\ Fairness

-----------------------------------------------------------------------------
Goroutines == Clients \cup (Clients \X Shards)

\* The types, and the writer lock as one: its owner holds both mutexes and
\* counts its entries.
TypeOK ==
    /\ db.writer \in Clients \cup {None} /\ db.readers \subseteq Clients
    /\ db.writer # None => db.readers = {}
    /\ \A s \in Shards :
          /\ shard[s].durable <= shard[s].logged /\ shard[s].ok <= shard[s].logged
          /\ shard[s].owner # None => shard[s].wmu = shard[s].owner /\ shard[s].wal = shard[s].owner
          /\ (shard[s].depth > 0) = (shard[s].owner # None)
          /\ shard[s].wmu \in Goroutines \cup {None}

\* The shards whose lock a client holds, and those it holds for the call or
\* the transaction in progress.
Held(c) == {s \in Shards : shard[s].wmu = c}
InHand(c) ==
    (Shards \cap {client[c].tx}) \cup
    CASE client[c].kind = "lot" -> Shards
      [] client[c].pc \in {"lock2", "enter", "write", "begin", "ckptDo"} -> {client[c].s}
      [] OTHER -> {}
Kept(c) == Held(c) \ InHand(c)

\* A goroutine between two calls holds no lock: none of the base, and of the
\* shards only the one of its transaction, or one grouped under a lot.
LocksReturned ==
    \A c \in Clients : client[c].pc = "idle" =>
        /\ c \notin db.waiting \cup db.readers \cup {db.writer}
        /\ \A s \in Kept(c) : shard[s].group > 0

\* A lot gives every lock back: no call ends with the lock of a shard.
LotReturnsLocks == \A c \in Clients : Kept(c) = {}

\* Sync is a barrier: when it returns, every write acknowledged before it
\* began, by whatever call, is durable, unless a Rollback dropped it from the
\* journal before.
SyncDurable ==
    \A c \in Clients : client[c].pc = "sync" /\ client[c].todo = {} =>
        \A s \in Shards : shard[s].dropped \/ shard[s].durable >= client[c].goal[s].n

\* No acknowledged write leaves the journal before it is durable.
AcknowledgedKept == \A s \in Shards : ~shard[s].dropped

\* Under CommitReplicated the quorum has acknowledged what the shards had
\* published when Sync began.
SyncReplicated ==
    mode = "replicated" =>
        \A c \in Clients : client[c].pc = "sync" /\ client[c].todo = {} =>
            \A s \in Shards : acked >= client[c].goal[s].seq

\* Every write acknowledged before Sync was published to the replicas: the
\* engine publishes every record of the journal.
SyncReplicatesAll ==
    mode = "replicated" =>
        \A c \in Clients : client[c].pc = "sync" /\ client[c].todo = {} =>
            \A s \in Shards : shard[s].out >= client[c].goal[s].n

\* No goroutine works on a shard that was closed: no call, no job of a batch,
\* no transaction, not the committer.
NoUseAfterClose ==
    \A s \in Shards : db.closed \/ ~shard[s].open =>
        /\ committer # s
        /\ \A c \in Clients :
              /\ client[c].tx # s /\ job[c][s] # "locked"
              /\ client[c].s = s => client[c].pc \notin {"enter", "write", "begin", "ckptDo", "lotGroup"}

\* Every call ends: no cycle between db.mu, the locks of the shards, the
\* committer and the replicas, unless a lot left with the lock of a shard.
CallsEnd ==
    \A c \in Clients : (client[c].pc # "idle") ~>
        (client[c].pc = "idle" \/ \E d \in Clients : Kept(d) # {})
=============================================================================
