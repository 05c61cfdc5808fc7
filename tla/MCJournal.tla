----------------------------- MODULE MCJournal -----------------------------
(***************************************************************************)
(* The journal of a shard on three devices, with the workload that makes   *)
(* each interesting:                                                       *)
(*   "own"    the setting of the configuration; in Journal_devices,        *)
(*            autonomous writes sharing packs, and the power lost between  *)
(*            two calls;                                                   *)
(*   "small"  every call on a log of a few blocks, which fills up and is   *)
(*            truncated;                                                   *)
(*   "cut"    transactions and batches, and the process killed anywhere,   *)
(*            inside truncations and repairs too.                          *)
(* The device of a behaviour never changes.                                *)
(***************************************************************************)
EXTENDS Journal

CONSTANT Devices
VARIABLE device

Idle == {"idle"}
Anywhere == {"idle", "tx", "batch", "checkpoint", "truncate", "repair"}
BetweenCalls == {"idle", "tx", "batch", "checkpoint"}

Small == INSTANCE Journal WITH
    MaxLBA <- 3, Quantum <- 2, PackCap <- 1, Chunks <- 2, CoalesceN <- 2, MaxRec <- 3,
    MaxChecks <- 1, MaxCrash <- 1, CrashAt <- Anywhere, PowerLoss <- FALSE, Ops <- AllOps
Cut == INSTANCE Journal WITH
    MaxLBA <- 6, Quantum <- 4, PackCap <- 1, Chunks <- 1, CoalesceN <- 4, MaxRec <- 5,
    MaxChecks <- 1, MaxCrash <- 2, CrashAt <- Anywhere, PowerLoss <- FALSE,
    Ops <- {"batch", "tx", "checkpoint", "repair"}

MCInit ==
    /\ device \in Devices
    /\ CASE device = "own" -> Init [] device = "small" -> Small!Init [] device = "cut" -> Cut!Init
OwnNext == device = "own" /\ Next /\ UNCHANGED device
SmallNext == device = "small" /\ Small!Next /\ UNCHANGED device
CutNext == device = "cut" /\ Cut!Next /\ UNCHANGED device
MCNext == OwnNext \/ SmallNext \/ CutNext
MCSpec == MCInit /\ [][MCNext]_<<vars, device>>

-----------------------------------------------------------------------------

\* Whenever the shard runs, before and after any crash and reopening, the
\* published heap has every record that Sync, a write with CommitImmediate or a
\* Commit declared durable (syncBarrier, flushWAL, Tx.Commit, replay), and those
\* of the batches that returned without an error (putBatchLocked: EndPack is the
\* only barrier of a batch).
DurableKept ==
    /\ device \in {"own", "cut"} => Durable
    /\ device = "cut" => BatchDurable

\* A power loss takes fewer acknowledged autonomous writes than a group holds
\* (syncWAL), and the latest ones (the log is replayed up to a hole).
LossIsTail == device = "own" => LossBound /\ LosesSuffix

\* A transaction is replayed and published whole when it was committed, and not
\* at all when it was not, wherever the process died (RecTxCommit, txPending).
TxReplayedWhole == device = "cut" => TxWhole

\* On a log that fills up, the open pack can always be written (otherwise
\* flushPending, writeOne and TruncateCheckpoint would call each other for ever),
\* and the quantum buffer goes to the device where next expects it.
PackPlaced ==
    /\ device = "own" => PackRoom /\ QuantumPlaced
    /\ device = "small" => Small!PackRoom /\ Small!QuantumPlaced

\* On a log of any shape, a repair never moves the cut: interrupted at any block
\* and started again, it keeps the same prefix (repairMedianRupture).
CutKept == [][/\ device = "own" => RepairKeepsCutStep
              /\ device = "small" => Small!RepairKeepsCutStep]_<<vars, device>>
=============================================================================
