------------------------------- MODULE Journal -------------------------------
(***************************************************************************)
(* The journal of a shard (pkg/c2db/wal.go), block by block, with the way  *)
(* the shard drives it (pkg/c2db/engine.go, tx.go): autonomous writes that *)
(* share an open pack, batches, transactions, group commit, checkpoints,   *)
(* truncation, crash, reopening and repair.                                *)
(*                                                                         *)
(* A record goes from "pending" (the open pack) to the quantum buffer,     *)
(* from there to the device, and the device is only durable after          *)
(* fdatasync.  The holder of the writer lock also holds walMu, so every    *)
(* call is one step here, except where a crash in its middle matters: the  *)
(* block writes of a truncation and of a repair are steps of their own.    *)
(***************************************************************************)
EXTENDS Integers, Sequences, FiniteSets, SequencesExt

CONSTANTS
    MaxLBA,      \* blocks of wal.img
    Quantum,     \* walQuantumLBAs
    PackCap,     \* records that fit a block
    Chunks,      \* blocks of an oversized record
    CoalesceN,   \* walCoalesceN
    MaxRec,      \* bound: records appended
    MaxChecks,   \* bound: checkpoints the workload asks for
    MaxCrash,    \* bound: crashes
    Ops,         \* the calls of the workload
    CrashAt,     \* the positions where a crash may hit
    PowerLoss    \* TRUE: each block not synced may be lost

AllOps == {"put", "big", "now", "batch", "batchfail", "tx", "rollback", "emptytx", "full",
           "checkpoint", "compact", "sync", "window", "close", "repair"}

ASSUME JournalAssumption ==
    /\ {MaxLBA, Quantum, PackCap, Chunks, CoalesceN} \subseteq Nat \ {0}
    /\ {MaxRec, MaxChecks, MaxCrash} \subseteq Nat
    /\ Ops \subseteq AllOps
    /\ CrashAt \subseteq {"idle", "tx", "batch", "checkpoint", "truncate", "repair"}
    /\ PowerLoss \in BOOLEAN

VARIABLES
    j,           \* the WAL struct and its device
    unflushed,   \* Shard.unflushed
    groupDepth,  \* Shard.groupDepth
    pc,          \* where the holder of the writer lock is
    back,        \* the positions to go back to, innermost first
    call,        \* the append that a truncation interrupts
    script,      \* the block writes left of a truncation or of a repair
    ck,          \* the checkpoint under way: Wal.Checkpoint's check, and what follows it
    tx,          \* the open transaction or batch
    last,        \* number of the last record
    txOf,        \* record -> its transaction (0: autonomous), part of its payload
    acked,       \* autonomous records whose call returned without an error
    promised,    \* records that Sync, WithDurability(CommitImmediate) or Commit declared durable
    batched,     \* records of the batches that returned without an error
    inHeap,      \* records whose effect is durable in data.img
    published,   \* records whose effect is in the published heap
    txs,         \* history: the transactions that ended
    checks, crashes

flagVars == <<unflushed, groupDepth>>
workVars == <<tx, last, txOf>>
bookVars == <<acked, promised, batched, inHeap, published, txs>>
boundVars == <<checks, crashes>>
vars == <<j, flagVars, pc, back, call, script, ck, workVars, bookVars, boundVars>>

LBAs == 0 .. MaxLBA - 1
Recs == 1 .. MaxRec

(* Blocks: never written or zeroed; a checkpoint; a pack of records; a     *)
(* piece of an oversized record.  The RecTxCommit of transaction t is -t.  *)
Null == [kind |-> "null", recs |-> <<>>, part |-> 0]
Check == [kind |-> "check", recs |-> <<>>, part |-> 0]
Pack(s) == [kind |-> "pack", recs |-> s, part |-> 0]
Chunk(r, i) == [kind |-> "chunk", recs |-> <<r>>, part |-> i]
IsCheck(b) == b.kind = "check"

NoCk == [lba |-> 0, cut |-> "no"]
NoTx == [recs |-> {}, live |-> {}, mutated |-> FALSE, id |-> 0, next |-> 0]

-----------------------------------------------------------------------------
(* The WAL struct.  Each operator below returns the struct after the call. *)

NewWAL == [disk |-> [l \in LBAs |-> Null], alt |-> [l \in LBAs |-> {Null}],
           next |-> 0, qLBA |-> 0, qCount |-> 0, qBuf |-> [i \in 1 .. Quantum |-> Null],
           pending |-> <<>>, packDepth |-> 0,
           checkLBA |-> 0, hasCheck |-> FALSE, synced |-> FALSE]

\* dev.Write: visible at once, in doubt until the barrier.
DevWrite(w, lba, blocks) ==
    LET at(l) == l \in lba .. lba + Len(blocks) - 1 IN
    [w EXCEPT
        !.disk = [l \in LBAs |-> IF at(l) THEN blocks[l - lba + 1] ELSE @[l]],
        !.alt = [l \in LBAs |-> IF at(l) THEN @[l] \cup {blocks[l - lba + 1]} ELSE @[l]]]

\* dev.Flush
DevFlush(w) == [w EXCEPT !.alt = [l \in LBAs |-> {w.disk[l]}]]

FlushQuantum(w) ==
    IF w.qCount = 0 THEN w
    ELSE [DevWrite(w, w.qLBA, SubSeq(w.qBuf, 1, w.qCount))
             EXCEPT !.qCount = 0, !.qLBA = w.next, !.synced = FALSE]

\* writeOne, when there is room.
WriteOne(w, b) ==
    LET v == [w EXCEPT !.qLBA = IF w.qCount = 0 THEN w.next ELSE @,
                       !.qBuf[w.qCount + 1] = b, !.qCount = @ + 1,
                       !.next = @ + 1, !.synced = FALSE]
    IN IF v.qCount = Quantum THEN FlushQuantum(v) ELSE v

FlushPending(w) ==
    IF w.pending = <<>> THEN w ELSE [WriteOne(w, Pack(w.pending)) EXCEPT !.pending = <<>>]

\* Mutant of Flush: the barrier of the device is forgotten.
FlushNoBarrier(w) == [FlushQuantum(FlushPending(w)) EXCEPT !.synced = TRUE]

\* Wal.Flush
Flush(w) == [DevFlush(FlushQuantum(FlushPending(w))) EXCEPT !.synced = TRUE]

\* appendPacked, when there is room.
AppendPacked(w, r) ==
    LET v == IF Len(w.pending) >= PackCap THEN FlushPending(w) ELSE w
    IN [v EXCEPT !.pending = Append(@, r)]

\* writeChunked
WriteChunks(w, r) ==
    LET after[i \in 0 .. Chunks] == IF i = 0 THEN w ELSE WriteOne(after[i - 1], Chunk(r, i))
    IN after[Chunks]

\* Mutant of AppendRec: an oversized record overtakes the open pack.
AppendRecOvertakes(w, r, big) ==
    IF big THEN WriteChunks(w, r)
    ELSE IF w.packDepth > 0 THEN AppendPacked(w, r) ELSE WriteOne(w, Pack(<<r>>))

\* Append: an oversized record after the open pack, any other in the pack if there is one.
AppendRec(w, r, big) ==
    IF big THEN WriteChunks(FlushPending(w), r)
    ELSE IF w.packDepth > 0 THEN AppendPacked(w, r) ELSE WriteOne(w, Pack(<<r>>))

\* The struct as the test for room finds it: a checkpoint and an oversized record
\* flush the pack first, and so does a record that no longer fits the pack.
BeforeRoom(w, alone) == IF alone \/ Len(w.pending) >= PackCap THEN FlushPending(w) ELSE w

\* Mutant of HasRoom: off by one at the end of the log.
HasRoomLate(w, n, alone) == BeforeRoom(w, alone).next + n <= MaxLBA + 1

\* Whether n blocks are left, at the entry of Append and once the pack is flushed.
HasRoom(w, n, alone) == w.next < MaxLBA /\ BeforeRoom(w, alone).next + n <= MaxLBA

EnsurePack(w) == IF w.packDepth = 0 THEN [w EXCEPT !.packDepth = 1] ELSE w
BeginPack(w) == [w EXCEPT !.packDepth = @ + 1]
LeavePack(w) == [w EXCEPT !.packDepth = IF @ > 0 THEN @ - 1 ELSE 0]

EndPack(w) == IF w.packDepth <= 1 THEN Flush(LeavePack(w)) ELSE LeavePack(w)

DiscardPack(w) == LeavePack([w EXCEPT !.pending = <<>>, !.qCount = 0, !.next = w.qLBA])

RollbackTo(w, n) ==
    LET v == [w EXCEPT !.pending = <<>>]
    IN LeavePack(IF n \in w.qLBA .. w.next
                 THEN [v EXCEPT !.next = n, !.qCount = n - w.qLBA] ELSE v)

\* NeedsRecycle
NeedsRecycle(w) == w.next >= MaxLBA \div 2

-----------------------------------------------------------------------------
(* compactTo: the tail that starts at checkLBA is moved to the front, a    *)
(* checkpoint is put before it, the rest is zeroed, in this order.         *)

TruncReady(w) == FlushQuantum(FlushPending(w))
Src(w) == IF w.checkLBA > w.next THEN w.next ELSE w.checkLBA
NTail(w) == w.next - Src(w)
FirstIsCheck(w) == NTail(w) > 0 /\ IsCheck(w.disk[Src(w)])
NKeep(w) == IF FirstIsCheck(w) THEN NTail(w) ELSE NTail(w) + 1

Write(l, b) == [lba |-> l, block |-> b]
TruncScript(w) ==
    [i \in 1 .. NTail(w) |-> Write(i - 1, w.disk[Src(w) + i - 1])]
    \o (IF FirstIsCheck(w) THEN <<>>
        ELSE [k \in 1 .. NTail(w) |-> Write(NTail(w) - k + 1, w.disk[Src(w) + NTail(w) - k])])
    \o <<Write(0, Check)>>
    \o [i \in 1 .. (IF w.next > NKeep(w) THEN w.next - NKeep(w) ELSE 0) |-> Write(NKeep(w) + i - 1, Null)]

\* compactTo is only called with a checkpoint, and refuses a tail with no room before it.
CanTruncate(w) == w.hasCheck /\ (FirstIsCheck(TruncReady(w)) \/ NTail(TruncReady(w)) < MaxLBA)

\* A truncation begins; the writer then goes on at position p.
StartTruncate(w, p, rest) ==
    LET v == TruncReady(w) IN
    /\ j' = [v EXCEPT !.next = NKeep(v), !.checkLBA = 0]
    /\ script' = TruncScript(v)
    /\ pc' = "truncate" /\ back' = <<p>> \o rest

\* One block of a truncation or of a repair.
WriteStep ==
    /\ pc \in {"truncate", "repair"} /\ script # <<>>
    /\ j' = DevWrite(j, Head(script).lba, <<Head(script).block>>)
    /\ script' = Tail(script)
    /\ UNCHANGED <<flagVars, pc, back, call, ck, workVars, bookVars, boundVars>>

\* dev.Flush, and back to the caller.
TruncateDone ==
    /\ pc = "truncate" /\ script = <<>>
    /\ j' = DevFlush(j)
    /\ pc' = Head(back) /\ back' = Tail(back)
    /\ UNCHANGED <<flagVars, call, script, ck, workVars, bookVars, boundVars>>

-----------------------------------------------------------------------------
(* Appends, as every caller makes them: there is room, or the log is       *)
(* truncated first, or the call fails with "wal full".                     *)

\* The append c runs, for the first time or after the truncation it asked for.
Runs(c) == call \in {"none", c}
Blocks(big) == IF big THEN Chunks ELSE 1

AppendTruncates(c, w, n, alone) ==
    /\ call = "none" /\ ~HasRoom(w, n, alone) /\ CanTruncate(w)
    /\ call' = c
    /\ StartTruncate(w, pc, back)
    /\ UNCHANGED <<flagVars, ck, workVars, bookVars, boundVars>>

\* What a call that finds no room leaves: compactTo, tried in vain, flushed the buffers.
Refused(w, alone) == IF w.hasCheck THEN TruncReady(w) ELSE BeforeRoom(w, alone)

AppendRefused(c, w, n, alone) ==
    /\ Runs(c) /\ ~HasRoom(w, n, alone)
    /\ call = c \/ ~CanTruncate(w)
    /\ call' = "none"

AppendGoesOn(c, w, n, alone) ==
    /\ Runs(c) /\ HasRoom(w, n, alone)
    /\ call' = "none"

NewRec == last + 1
TakeRec(t) == last' = NewRec /\ txOf' = [txOf EXCEPT ![NewRec] = t]

-----------------------------------------------------------------------------
(* Autonomous writes: Put, Delete, Mut.  "now" is a Put with               *)
(* WithDurability(CommitImmediate), "big" one with an oversized record.    *)

\* syncWAL: nothing inside a group, a flush for "now" or for a full group.
SyncWAL(w, o) ==
    IF groupDepth > 0 THEN [w |-> w, n |-> unflushed]
    ELSE IF o = "now" \/ unflushed + 1 >= CoalesceN THEN [w |-> Flush(w), n |-> 0]
    ELSE [w |-> w, n |-> unflushed + 1]

\* applyCallDurability
CallDurability(s, o) ==
    IF o # "now" \/ (s.n = 0 /\ s.w.pending = <<>> /\ s.w.qCount = 0) THEN s
    ELSE [w |-> Flush(s.w), n |-> 0]

Put(o) ==
    /\ pc = "idle" /\ o \in Ops \cap {"put", "big", "now"} /\ last < MaxRec
    /\ LET w == EnsurePack(j)
           big == o = "big"
           s == CallDurability(SyncWAL(AppendRec(w, NewRec, big), o), o)
       IN \/ AppendTruncates(o, w, Blocks(big), big)
          \/ /\ AppendRefused(o, w, Blocks(big), big)
             /\ j' = Refused(w, big)
             /\ UNCHANGED <<flagVars, workVars, pc, back, script, ck, bookVars, boundVars>>
          \/ /\ AppendGoesOn(o, w, Blocks(big), big)
             /\ j' = s.w /\ unflushed' = s.n
             /\ TakeRec(0)
             /\ published' = published \cup {NewRec}
             /\ acked' = acked \cup {NewRec}
             /\ promised' = IF o = "now" THEN promised \cup {NewRec} ELSE promised
             /\ UNCHANGED <<groupDepth, pc, back, script, ck, tx, batched, inHeap, txs, boundVars>>

\* committer.flushDue: the window of the shard is over.
WindowFlush ==
    /\ pc = "idle" /\ call = "none" /\ "window" \in Ops /\ unflushed > 0
    /\ j' = Flush(j) /\ unflushed' = 0
    /\ UNCHANGED <<groupDepth, pc, back, call, script, ck, workVars, bookVars, boundVars>>

\* syncBarrier, for DB.Sync
Sync ==
    /\ pc = "idle" /\ call = "none" /\ "sync" \in Ops
    /\ IF unflushed = 0 /\ j.pending = <<>> /\ j.qCount = 0
       THEN UNCHANGED <<j, unflushed>>
       ELSE j' = Flush(j) /\ unflushed' = 0
    /\ promised' = promised \cup acked
    /\ UNCHANGED <<groupDepth, pc, back, call, script, ck, workVars,
                   acked, batched, inHeap, published, txs, boundVars>>

-----------------------------------------------------------------------------
(* PutBatch: its own pack, one record after the other.                     *)

BatchBegin ==
    /\ pc = "idle" /\ call = "none" /\ "batch" \in Ops /\ last < MaxRec
    /\ j' = BeginPack(j) /\ pc' = "batch" /\ tx' = NoTx
    /\ UNCHANGED <<flagVars, back, call, script, ck, last, txOf, bookVars, boundVars>>

\* The batch gives up: DiscardPack, then fail().
BatchGivesUp(w) ==
    /\ j' = DiscardPack(w) /\ pc' = "idle" /\ tx' = NoTx
    /\ UNCHANGED <<flagVars, back, script, ck, last, txOf, bookVars, boundVars>>

BatchAppend ==
    /\ pc = "batch" /\ last < MaxRec
    /\ \/ AppendTruncates("append", j, 1, FALSE)
       \/ AppendRefused("append", j, 1, FALSE) /\ BatchGivesUp(Refused(j, FALSE))
       \/ /\ AppendGoesOn("append", j, 1, FALSE)
          /\ j' = AppendRec(j, NewRec, FALSE) /\ TakeRec(0)
          /\ tx' = [tx EXCEPT !.recs = @ \cup {NewRec}]
          /\ UNCHANGED <<flagVars, pc, back, script, ck, bookVars, boundVars>>

\* applyInsertVer fails on the record just appended.
BatchFail ==
    /\ pc = "batch" /\ call = "none" /\ "batchfail" \in Ops /\ tx.recs # {}
    /\ BatchGivesUp(j) /\ UNCHANGED call

-----------------------------------------------------------------------------
(* Checkpoints: the pager first (the barrier of data.img), then the mark   *)
(* in the log, then the truncation the caller wants.                       *)

\* ck.cut: "half" (checkpointLocked), "no" (tryAutoCompact), "yes" (Compact, opening).
StartCheckpoint(w, pub, cut, rest) ==
    /\ inHeap' = pub
    /\ ck' = [lba |-> w.next, cut |-> cut]
    /\ pc' = "checkpoint" /\ back' = rest

CheckpointMark(w) ==
    [Flush(WriteOne(FlushPending(w), Check)) EXCEPT !.checkLBA = ck.lba, !.hasCheck = TRUE]

\* The log is full: an opening fails with its checkpoint, a call returns the error.
CheckpointFails ==
    pc' = (IF Head(back) = "open" THEN "refused" ELSE Head(back)) /\ back' = <<>>

\* Wal.Checkpoint and what follows it.
CheckpointAppend ==
    /\ pc = "checkpoint"
    /\ \/ AppendTruncates("check", j, 1, TRUE)
       \/ /\ AppendRefused("check", j, 1, TRUE)
          /\ j' = Refused(j, TRUE)
          /\ CheckpointFails
          /\ UNCHANGED <<flagVars, script, ck, workVars, bookVars, boundVars>>
       \/ /\ AppendGoesOn("check", j, 1, TRUE)
          /\ LET w == CheckpointMark(j)
                 p == IF Head(back) = "open" THEN "idle" ELSE Head(back)
                 cuts == ck.cut = "yes" \/ (ck.cut = "half" /\ NeedsRecycle(w))
             IN \/ cuts /\ CanTruncate(w) /\ StartTruncate(w, p, <<>>)
                \/ cuts /\ ~CanTruncate(w) /\ j' = w /\ CheckpointFails /\ UNCHANGED script
                \/ ~cuts /\ j' = w /\ pc' = p /\ back' = <<>> /\ UNCHANGED script
          /\ UNCHANGED <<flagVars, ck, workVars, bookVars, boundVars>>

Checkpoint ==
    /\ pc = "idle" /\ call = "none" /\ checks < MaxChecks
    /\ \E o \in {"checkpoint", "compact"} \cap Ops :
          StartCheckpoint(j, published, IF o = "compact" THEN "yes" ELSE "half", <<"idle">>)
    /\ checks' = checks + 1
    /\ UNCHANGED <<j, flagVars, call, script, workVars, acked, promised, batched, published, txs, crashes>>

\* EndPack, publish, and the checkpoint of a log that is half full.
BatchEnd ==
    /\ pc = "batch" /\ call = "none" /\ tx.recs # {}
    /\ j' = EndPack(j)
    /\ published' = published \cup tx.recs /\ batched' = batched \cup tx.recs
    /\ tx' = NoTx
    /\ IF NeedsRecycle(j') THEN StartCheckpoint(j', published', "half", <<"idle">>)
       ELSE pc' = "idle" /\ UNCHANGED <<inHeap, ck, back>>
    /\ UNCHANGED <<flagVars, call, script, last, txOf, acked, promised, txs, boundVars>>

\* retryAfterHeapFull: a Put met a full heap.  Its record stays in the log, the
\* heap is rebuilt, a checkpoint follows, and the write is tried again (Put).
PutFull ==
    /\ pc = "idle" /\ call = "none" /\ "full" \in Ops /\ last < MaxRec /\ checks < MaxChecks
    /\ LET w == EnsurePack(j)
           s == SyncWAL(AppendRec(w, NewRec, FALSE), "put")
       IN /\ HasRoom(w, 1, FALSE)
          /\ j' = s.w /\ unflushed' = s.n
          /\ StartCheckpoint(s.w, published, "no", <<"idle">>)
    /\ TakeRec(0) /\ checks' = checks + 1
    /\ UNCHANGED <<groupDepth, call, script, tx, acked, promised, batched, published, txs, crashes>>

-----------------------------------------------------------------------------
(* Transactions.                                                           *)

\* Begin: refused with ErrWriterBusy inside a group.
TxBegin ==
    /\ pc = "idle" /\ call = "none" /\ {"tx", "emptytx"} \cap Ops # {} /\ groupDepth = 0
    /\ last < MaxRec
    /\ j' = BeginPack(j) /\ groupDepth' = 1
    /\ pc' = "tx" /\ tx' = [NoTx EXCEPT !.next = j.next]
    /\ UNCHANGED <<unflushed, back, call, script, ck, last, txOf, bookVars, boundVars>>

TxId == IF tx.id = 0 THEN NewRec ELSE tx.id

\* Tx.Put, Tx.Delete
TxAppend ==
    /\ pc = "tx" /\ last < MaxRec /\ "tx" \in Ops
    /\ LET w == EnsurePack(j) IN
       \/ AppendTruncates("append", w, 1, FALSE)
       \/ /\ AppendRefused("append", w, 1, FALSE)
          /\ j' = Refused(w, FALSE)
          /\ tx' = [tx EXCEPT !.mutated = TRUE]
          /\ UNCHANGED <<flagVars, pc, back, script, ck, last, txOf, bookVars, boundVars>>
       \/ /\ AppendGoesOn("append", w, 1, FALSE)
          /\ j' = AppendRec(w, NewRec, FALSE) /\ TakeRec(TxId)
          /\ tx' = [tx EXCEPT !.recs = @ \cup {NewRec}, !.live = @ \cup {NewRec},
                            !.mutated = TRUE, !.id = TxId]
          /\ UNCHANGED <<flagVars, pc, back, script, ck, bookVars, boundVars>>

\* The record meets a full heap: it stays in the log, the rebuild reads the
\* published heap and replaces the working one, the transaction's writes with it.
TxFull ==
    /\ pc = "tx" /\ call = "none" /\ "full" \in Ops /\ last < MaxRec /\ checks < MaxChecks
    /\ LET w == EnsurePack(j) IN
       /\ HasRoom(w, 1, FALSE)
       /\ j' = AppendRec(w, NewRec, FALSE) /\ TakeRec(TxId)
       /\ StartCheckpoint(j', published, "no", <<"tx">>)
    /\ tx' = [tx EXCEPT !.id = TxId, !.live = {}, !.mutated = TRUE]
    /\ checks' = checks + 1
    /\ UNCHANGED <<flagVars, call, script, acked, promised, batched, published, txs, crashes>>

TxEnds(done) ==
    /\ txs' = txs \cup {[recs |-> tx.recs, committed |-> done]}
    /\ tx' = NoTx

\* abortGroup
AbortGroup(w) == IF w.packDepth > 0 THEN [LeavePack(w) EXCEPT !.pending = <<>>] ELSE w

\* rollbackState, for a transaction that wrote, then abortGroup.
TxAborted(w) ==
    /\ j' = AbortGroup(IF tx.mutated THEN RollbackTo(w, tx.next) ELSE w)
    /\ groupDepth' = 0 /\ unflushed' = 0
    /\ TxEnds(FALSE) /\ pc' = "idle"
    /\ UNCHANGED <<back, script, ck, last, txOf, acked, promised, batched, inHeap, published, boundVars>>

\* The mark, the barrier; leaveGroup closes the pack and SyncIfDirty finds nothing to do.
Committed(w) == LeavePack(Flush(AppendRec(w, -tx.id, FALSE)))

\* Commit: the mark, the barrier, the publication, leaveGroup.
TxCommit ==
    /\ pc = "tx" /\ tx.mutated
    /\ \/ AppendTruncates("mark", j, 1, FALSE)
       \/ AppendRefused("mark", j, 1, FALSE) /\ TxAborted(Refused(j, FALSE))
       \/ /\ AppendGoesOn("mark", j, 1, FALSE)
          /\ j' = Committed(j)
          /\ groupDepth' = 0 /\ unflushed' = 0
          /\ published' = published \cup tx.live
          /\ promised' = promised \cup tx.recs
          /\ TxEnds(TRUE) /\ pc' = "idle"
          /\ UNCHANGED <<back, script, ck, last, txOf, acked, batched, inHeap, boundVars>>

\* Rollback; Commit when preparePublish refuses.
TxRollback ==
    /\ pc = "tx" /\ call = "none" /\ "rollback" \in Ops
    /\ TxAborted(j) /\ UNCHANGED call

\* Commit of a transaction that wrote nothing: the group is not left.
TxEmptyCommit ==
    /\ pc = "tx" /\ call = "none" /\ "emptytx" \in Ops /\ ~tx.mutated
    /\ pc' = "idle" /\ tx' = NoTx
    /\ UNCHANGED <<j, flagVars, back, call, script, ck, last, txOf, bookVars, boundVars>>

-----------------------------------------------------------------------------
(* Stopping, opening, repairing.                                           *)

\* scanTip stops at the first block without the magic number; a valid block
\* after that one is a rupture (checkMedianRupture).
Tip(d) == Min({l \in LBAs : d[l] = Null} \cup {MaxLBA})
Ruptured(d) == \E l \in LBAs : l > Tip(d) /\ d[l] # Null

\* The last checkpoint of the blocks before LBA n; -1 when there is none.
LastCheck(d, n) == Max({l \in 0 .. n - 1 : IsCheck(d[l])} \cup {-1})

\* The chunks of record r that its collector holds before each block: it is emptied
\* when it is complete (chunkCollector).
Held(d, r) ==
    LET held[l \in 0 .. MaxLBA] ==
            IF l = 0 THEN {}
            ELSE LET parts == held[l - 1] \cup {i \in 1 .. Chunks : d[l - 1] = Chunk(r, i)}
                 IN  IF parts = 1 .. Chunks THEN {} ELSE parts
    IN held

\* Block l completes record r.
Completes(d, r, l) ==
    d[l].kind = "chunk" /\ d[l].recs = <<r>> /\ Held(d, r)[l] \cup {d[l].part} = 1 .. Chunks

\* ReplayResumable: the records after the last checkpoint, marks included.
TailRecs(d) ==
    LET n == Tip(d)
        c == LastCheck(d, n)
    IN (UNION {ToSet(d[l].recs) : l \in {m \in c + 1 .. n - 1 : d[m].kind = "pack"}})
       \cup {r \in Recs : \E l \in c + 1 .. n - 1 : Completes(d, r, l)}

\* Mutant of Applied: a transactional record needs no mark.
AppliedUnmarked(d) == TailRecs(d) \cap Recs

\* replay: a transaction's records only if its mark is there too.
Applied(d) == {r \in TailRecs(d) \cap Recs : txOf[r] = 0 \/ -txOf[r] \in TailRecs(d)}

\* What the crash leaves on the device: for a kill, all that was written; for a
\* power loss, one of the values in doubt for every block.
Doubtful(w) == {l \in LBAs : PowerLoss /\ w.alt[l] # {w.disk[l]}}
Images(w) ==
    LET D == Doubtful(w)
    IN {[l \in LBAs |-> IF l \in D THEN f[l] ELSE w.disk[l]] :
            f \in {g \in [D -> UNION {w.alt[l] : l \in D}] : \A l \in D : g[l] \in w.alt[l]}}

\* The process is gone; only the devices are left.
Down(d) ==
    /\ j' = [NewWAL EXCEPT !.disk = d, !.alt = [l \in LBAs |-> {d[l]}]]
    /\ unflushed' = 0 /\ groupDepth' = 0 /\ pc' = "down" /\ back' = <<>> /\ call' = "none"
    /\ script' = <<>> /\ ck' = NoCk

\* A kill, or a power loss.
Crash ==
    /\ pc \in CrashAt /\ crashes < MaxCrash
    /\ \E d \in Images(j) : Down(d)
    /\ IF pc = "tx" \/ "tx" \in ToSet(back) THEN TxEnds(FALSE) ELSE tx' = NoTx /\ UNCHANGED txs
    /\ published' = inHeap
    /\ crashes' = crashes + 1
    /\ UNCHANGED <<last, txOf, acked, promised, batched, inHeap, checks>>

\* Close: the log is flushed, then the pager.
Close ==
    /\ pc = "idle" /\ call = "none" /\ "close" \in Ops /\ crashes < MaxCrash
    /\ Down(Flush(j).disk)
    /\ inHeap' = published /\ crashes' = crashes + 1
    /\ UNCHANGED <<workVars, acked, promised, batched, published, txs, checks>>

\* scanTip, when it finds no rupture.
Scanned(w) ==
    LET n == Tip(w.disk) IN
    [w EXCEPT !.next = n, !.qLBA = n, !.hasCheck = LastCheck(w.disk, n) >= 0,
              !.checkLBA = Max({0, LastCheck(w.disk, n)})]

\* OpenWAL, replay, and the checkpoint and truncation of the replayed log.
Open ==
    /\ pc = "down"
    /\ IF Ruptured(j.disk)
       THEN pc' = "refused" /\ UNCHANGED <<j, ck, back, acked, inHeap, published>>
       ELSE /\ j' = Scanned(j)
            /\ published' = inHeap \cup Applied(j.disk)
            /\ acked' = acked \cap published'
            /\ IF j'.next > 1 THEN StartCheckpoint(j', published', "yes", <<"open">>)
               ELSE pc' = "idle" /\ UNCHANGED <<ck, back, inHeap>>
    /\ UNCHANGED <<flagVars, call, script, workVars, promised, batched, txs, boundVars>>

\* Mutant of CutScript: the last block of the prefix is zeroed too.
CutScriptLow(d) ==
    LET n == Max({l \in LBAs : d[l] # Null}) - Tip(d) + 1
    IN [i \in 1 .. n + 1 |-> Write(Tip(d) + i - 2, Null)]

\* analyzeRepair: zero the blocks from the hole to the last one with the magic
\* number, upwards.
CutScript(d) ==
    LET n == Max({l \in LBAs : d[l] # Null}) - Tip(d) + 1
    IN [i \in 1 .. n |-> Write(Tip(d) + i - 1, Null)]

\* RepairShardWAL: the quarantine file first (external to the log), then the cut.
Repair ==
    /\ pc = "refused" /\ "repair" \in Ops /\ Ruptured(j.disk)
    /\ script' = CutScript(j.disk) /\ pc' = "repair"
    /\ UNCHANGED <<j, flagVars, back, call, ck, workVars, bookVars, boundVars>>

RepairDone ==
    /\ pc = "repair" /\ script = <<>>
    /\ j' = DevFlush(j) /\ pc' = "down"
    /\ UNCHANGED <<flagVars, back, call, script, ck, workVars, bookVars, boundVars>>

\* The client waits, or the bounds are reached.
Rest ==
    /\ pc \in {"idle", "tx", "batch", "refused"} /\ call = "none"
    /\ UNCHANGED vars

Init ==
    /\ j = NewWAL /\ unflushed = 0 /\ groupDepth = 0
    /\ pc = "idle" /\ back = <<>> /\ call = "none" /\ script = <<>> /\ ck = NoCk
    /\ tx = NoTx /\ last = 0 /\ txOf = [r \in Recs |-> 0]
    /\ acked = {} /\ promised = {} /\ batched = {} /\ inHeap = {} /\ published = {} /\ txs = {}
    /\ checks = 0 /\ crashes = 0

Next ==
    \/ \E o \in Ops : Put(o)
    \/ WindowFlush \/ Sync
    \/ BatchBegin \/ BatchAppend \/ BatchFail \/ BatchEnd
    \/ Checkpoint \/ CheckpointAppend \/ PutFull
    \/ TxBegin \/ TxAppend \/ TxFull \/ TxCommit \/ TxRollback \/ TxEmptyCommit
    \/ WriteStep \/ TruncateDone
    \/ Crash \/ Close \/ Open \/ Repair \/ RepairDone
    \/ Rest

Spec == Init /\ [][Next]_vars

-----------------------------------------------------------------------------
(* Properties.                                                             *)

Blocks0 == {Null, Check} \cup {Chunk(r, i) : r \in Recs, i \in 1 .. Chunks}
IsBlock(b) == b \in Blocks0 \/ (b.kind = "pack" /\ b.part = 0 /\ Len(b.recs) \in 1 .. PackCap)

\* The types, and the shape of the buffers: the quantum holds the blocks just
\* before next, and never a full quantum.
TypeOK ==
    /\ \A l \in LBAs : IsBlock(j.disk[l]) /\ j.disk[l] \in j.alt[l]
    /\ j.next \in 0 .. MaxLBA /\ j.qLBA \in 0 .. MaxLBA /\ j.qCount \in 0 .. Quantum - 1
    /\ unflushed \in 0 .. CoalesceN - 1 /\ groupDepth \in 0 .. 1
    /\ pc \in {"idle", "tx", "batch", "checkpoint", "truncate", "down", "refused", "repair"}
    /\ call \in Ops \cup {"none", "append", "mark", "check"}
    /\ published \subseteq Recs /\ inHeap \subseteq Recs

Running == pc \notin {"down", "refused", "repair"}

\* Whenever the shard runs, before and after any crash and reopening, the
\* published heap has every record that Sync, a write with CommitImmediate or a
\* Commit declared durable (syncBarrier, flushWAL, Tx.Commit, replay).
Durable == Running => promised \subseteq published

\* The same for the records of the batches that returned without an error
\* (putBatchLocked: EndPack is the only barrier of a batch).
BatchDurable == Running => batched \subseteq published

\* A crash loses fewer acknowledged autonomous writes than a group holds
\* (syncWAL: the log is flushed at the latest by the walCoalesceN-th write).
LossBound ==
    pc = "down" /\ ~Ruptured(j.disk) =>
        Cardinality(acked \ (inHeap \cup Applied(j.disk))) < CoalesceN

\* The acknowledged writes that a crash loses are the latest ones: nothing that
\* came after a lost write survives (the log is replayed up to a hole, and a
\* log with valid blocks after a hole is refused).
LosesSuffix ==
    pc = "down" /\ ~Ruptured(j.disk) =>
        LET kept == inHeap \cup Applied(j.disk)
        IN \A a, b \in acked : a < b /\ b \in kept => a \in kept

\* A transaction is replayed and published whole when it was committed, and not
\* at all when it was not (RecTxCommit, replay's txPending).
TxWhole ==
    Running => \A t \in txs : IF t.committed THEN t.recs \subseteq published
                               ELSE t.recs \cap published = {}

\* The open pack can always be written: otherwise flushPending, writeOne,
\* TruncateCheckpoint and flushPending would call each other for ever.
PackRoom == j.pending # <<>> => j.next < MaxLBA /\ j.packDepth > 0

\* The blocks of the quantum buffer go to the device where next expects them.
QuantumPlaced == j.qCount > 0 => j.next = j.qLBA + j.qCount

\* Only a truncation or a repair changes a valid block of the device (flushQuantum
\* writes at or after the tip of the log; what rollbackTo and DiscardPack give up
\* was never written).
AppendOnlyStep ==
    pc \notin {"truncate", "repair"} /\ pc' # "down" =>
        \A l \in LBAs : j.disk[l] # Null => j'.disk[l] = j.disk[l]
AppendOnly == [][AppendOnlyStep]_vars

\* A stop never leaves a valid block after a hole in the log: scanTip would
\* refuse to open it (errWALCorruptedMedian).
NoRupture == pc = "down" => ~Ruptured(j.disk)

\* The shard can always be reopened after a crash or a Close.
Reopens == pc # "refused"

\* A repair never moves the cut: interrupted at any block and started again, it
\* keeps the same prefix of the log (repairMedianRupture).
RepairKeepsCutStep == pc = "repair" => Tip(j'.disk) = Tip(j.disk)
RepairKeepsCut == [][RepairKeepsCutStep]_vars

=============================================================================
