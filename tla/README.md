# c2db in TLA+

A formal model of the storage engine in `pkg/c2db`, checked with TLC on small
instances and, for the parts where it pays most, proved with TLAPS for every
instance. `PROJECT.json` gives, for each definition, the lines of Go it stands
for; for each run, its configuration and its properties; and the hazards of the
code with the properties that cover them.

## 1. The system

A base (`DB`, `route.go`) is a directory of shards. A key belongs to one shard
(`Route`). A shard (`engine.go`) is an independent store:

| Component | State | Operations | Talks to |
|---|---|---|---|
| Published heap | `live`, `pub`, `dirty`, `spare`, `holdHeaps`, `dirtyMask`, `heapRoot` | `pinLive`/`unpinLive`, put/batch/tx/`Mut`, `preparePublish`, `publish`, `reapHolds`, rebuild on a full heap, `RepackHeap`, `Compact`, `Close` | readers by an atomic pointer and a counter, the pager by `PutPage` |
| Page cache and seals | slots, the cached tag block, `data.img`, `tags.img` | `PutPage`, `GetPage`, `FlushDirty`, `FlushDirtyNoBarrier`, `Reserve`, `verifyPage` | devices; called by `publish`, batch end, checkpoint, opening |
| Journal (WAL) | the open pack, the quantum buffer, `next`, `checkLBA`, `wal.img` | `Append`, packs, `Flush`, `DiscardPack`, `rollbackTo`, `Checkpoint`, truncation, `ReplayResumable`, repair | device; driven by every write |
| Group commit and transactions | `unflushed`, `groupDepth`, the `Tx` | `syncWAL`, `syncBarrier`, `Begin`/`Put`/`Commit`/`Rollback`, `leaveGroup`, `abortGroup` | journal, heap, committer |
| Commit coordinator | `pending` deadlines, a wake channel of one slot, a timer | `markWindow`, `signal`, `run`, `flushDue`, `stopWait` | every shard, under its `walMu` |
| VFS locks | `holders` per file | `Lock`, `Unlock` over NONE, SHARED, RESERVED, PENDING, EXCLUSIVE | SQLite through `vfs_bridge.go` |
| Heap contents | the pages of a versioned B-tree in two buffers, the marked pages, the retention | insertion, splits, deletion, packing, rebuild, as-of reads, scans, cursors | published heap; the kernels of `db_btree_gen.go` |
| Redo | the reloaded image, the surviving records | `replay`, record by record | journal, page cache |
| Base | `db.mu`, the open shards, `lotGroup`, the committer | `GetShard`, `Put`, `PutBatch`, transactions, C2QL lots, `Sync`, `Checkpoint`, `Close` | every shard by `writeMu` and `walMu`; the replicas by `ReplicationSink` |
| VFS file | metadata, blocks of a generation, `sharedFileState` in a registry | open, create, delete, read, write, truncate, sync, close | the store, key by key |
| History, transaction log | append-only segments with an index or a sequence number | append, rotate, reopen | shard |
| Content store | objects in the blocks of a device, an index | put, get, replay | device |
| Overflow chains, free list | pages of the heap | allocate, reclaim | published heap |
| Snapshot, archive, delta | derived files | export, import | shard |
| Topology, migration | the topology file | record a move, copy a shard | shard, DB |
| Queries, C2QL evaluation, collections | a pinned view | evaluation | published heap |
| Keys, encryption, other generated kernels, UUID, compression, probes, commands | — | pure functions, I/O, tooling | — |

What is hard in it:

* **Concurrency.** Readers take no lock. The pin is three memory operations, and
  the writer recycles buffers on the evidence of a counter. One committer
  goroutine serves all shards, and a transaction holds `walMu` between calls. A
  base has three levels of locks, taken in different orders by lots, windowed puts
  and transactions. A VFS file is opened, re-created and deleted beside its handles.
* **Failure.** Two files and a log without a common transaction: `data.img`,
  `tags.img` and `wal.img` each have their own barrier, some flushes have none,
  and the truncation of the log moves durable blocks over one another. The redo
  starts from an image that may be behind or ahead of the log. A VFS file is a set of
  keys written one by one.
* **Sequences of legal calls.** Packs and groups nest and share one buffer
  and one counter between autonomous writes, batches and transactions.
* **Limits.** A full heap in the middle of a transaction, a full log, a full
  page cache, the ceiling on retained heaps; a mask of 64 bits for the pages a call
  touched; a leaf that holds versions of one key only.

What makes each part correct: a pinned view never changes and never outlives its
memory, and a failed write leaves nothing behind (heap); a reopened heap is one
published image, at least as new as the checkpoint (pager); every version reads back
at every snapshot, and scans and cursors see the same (heap contents); the redo
gives the state after the last surviving record (redo); what was declared
durable comes back, unless a Rollback had dropped it from the open pack before
(§3, the first violation), what is lost is a bounded suffix, a transaction comes back
whole, and the log reopens (journal); every write that is owed durability gets it
in its window (committer); locks come back, calls end, `Sync` covers what was
acknowledged before it and no Rollback dropped (base); a handle reads what was written,
and a stop brings back nothing the file was not since its last `Sync` (VFS file); a file
does not change under a reader, and a writer is not starved (locks); acknowledged records, events and objects come back
(segments, content store).

## 2. Modules

| Module | Models | Uses |
|---|---|---|
| `LiveHeap` | the published heap of a shard | `Snapshots` |
| `Snapshots` | what readers are promised: one current image, and views that keep theirs | — |
| `LiveHeapProofs` | type correctness, exact counters; isolation, mapped memory, no buffer lost, the ceiling; the step simulation of `Snapshots`, no trace of a failed write | `LiveHeap` |
| `BTree` | the versioned B-tree kernels, as operators on pages | — |
| `Cursor` | cursors and ranges over the leaves of one image | `BTree` |
| `TreeHeap` | the keyed calls of a shard on its two buffers | `Cursor` |
| `Pager` / `PagerProofs` | page cache, seals, the two files, reload | — |
| `Journal` / `JournalProofs` | the log, group commit, transactions, recovery, repair | — |
| `Redo` / `RedoProofs` | the logical redo over an image and a surviving log | — |
| `Segments` | history segments and the transaction log | — |
| `CAS` | the content store | — |
| `FilesProofs` | the content store and the two logs: what they acknowledged comes back; the lock ladder | `CAS`, `Segments`, `VFSLocks` |
| `Committer` / `CommitterProofs` | the commit coordinator | — |
| `Database` | the base: routing, lots, transactions, barriers, replicas, locks | — |
| `DatabaseProofs` | the locks of the base: locks come back; types, use before close, what Sync promises | `Database` |
| `VFSFile` / `VFSFileProofs` | a VFS file over the key-value store | — |
| `VFSLocks` | the lock ladder | — |
| `MCFiles` | one behaviour of `Pager` (two settings), `Segments` or `CAS` | all three |
| `MCJournal` | `Journal` on one of three devices | `Journal` |
| `MCLiveHeap`, `MCRedo`, `MCTreeHeap`, `MCVFSFile` | symmetry sets, starting shards, sets of crash points | |

`Committer`, `Database` and `VFSLocks` are run directly: their constants need no
definition. `BTree` and `Cursor` use recursive operators for the loops of the code
and are only model-checked; `CAS`, `Journal`, `Redo` and `Segments` use recursive
functions, which the proofs unfold (§4).

**`LiveHeap`.** A page holds a *stamp*, the number of the write that put it there,
and a descriptor (`liveHeap`) remembers the image it published, as history.
Descriptors are numbered and never reused, since Go collects them only when nobody
holds them; buffers are, since they are mapped by hand. A reader moves through
`PinLoad`, `PinAdd`, `PinCheck` or `PinRetry`, one per memory operation of
`pinLive`. The writer moves through `prep`, `write`, `reap` and `swapped`, so that
readers interleave with every load of a counter in `reapHolds` and `publish`;
within these the writer is alone, because it holds the writer lock. A write that
fails goes through `Abandon` (undone), `PublishFails` (refused) or `PublishPoison`
(the shard is poisoned). The loops of 64 and 256 attempts become "any number of
times": how long they last is scheduling, not meaning. `lost` is history: the
descriptors that a publication without a work buffer left in no list. `mmap` can fail
for a publication that was not prepared, and from then on two descriptors may share a
buffer; `MappedWhileOpen` and the ownership of buffers are stated until then, and
`LiveHeap_lost` shows what comes after.

**`Pager`.** A page content is the number of the publication that wrote it; its
tag is the content it seals, since the MAC's key is derived from the content.
Every write to a file stays *in doubt* until the barrier of that file:
`dataAlt` and `tagsAlt` are what a power loss may leave; a kill (the process dies
and the kernel does not) keeps everything written. `FlushDirty` is a step per slot.
`Resume` is the end of `openShardInternal`, with the pages that the redo
rewrites chosen freely.

**`Journal`.** A record is a number. The WAL structure is a record `j`, and each of
its methods is an operator from structure to structure (`AppendRec`, `EndPack`,
`RollbackTo`, ...), so that a call that makes several of them is their composition.
Calls are atomic except where a stop in their middle matters: truncation and
repair are *scripts* of block writes executed one at a time, also when `Append`
starts them by itself. `promised`, `batched`, `acked` record what callers were told;
`inHeap` what a checkpoint made durable in `data.img`.

**`Committer`.** Time is counted in ticks, and a deadline is the number of
ticks left. `ringing` separates the registration from the ring of the channel, and
the goroutine's positions are those of the two `select`s and of the loop of
`flushDue`. `limit` is the history variable that remembers the shortest window an
owed write was promised.

**`VFSLocks`.** `file` counts the writes, `seen` is what a connection found when it
got SHARED. The clients are SQLite's connections: they call in any order that the
code accepts, and write at EXCLUSIVE.

**`Snapshots` and `LiveHeap`.** `LiveHeap!SnapshotSpec` is the refinement: the current
image is the one the live descriptor published, and the view of a reader is what the
pages of its buffer hold *now*, once its second load of the pointer has agreed. A
buffer recycled too early would change a view without a step of `Snapshots`.

**`BTree`, `Cursor`, `TreeHeap`.** A page is a row of cells, the bytes they take and a
link (next leaf or leftmost child); lengths count abstract units, with room for a few
cells, so that splits and full pages come soon. The kernels are operators that take
the source and the working buffer and give back the buffer, root, used pages, mask and
verdict, as the generated functions do. `MaskBits` is the width of the mask (3 for 64).
`TreeHeap` starts from shards with a past (`Shards`): empty, about to split its first
leaf, about to gain its third or fourth level, emptied by deletions, full, one leaf
of versions. `committed` is the history of acknowledged writes that reads, scans and
cursors are compared with. A cursor keeps the image it pinned, so that its moves are
steps of their own.

**`Redo`.** The value of a write is the sequence of identifiers that made it, so that a
`Mut` applied twice, or over the wrong document, shows. `past[i + 1]` is the heap
after `i` records. A crash keeps any prefix of the log that holds its durable part;
`FlushImage` is any moment at which the page cache writes, and a workload says whether
it may run ahead of the log. Records of a transaction are applied at their mark, the
tests of what is already there read the published heap (`RedoOne`), but from the root of
the working one: `Splits` chooses the put of the group that splits the root first, if
any, and the records after it are looked up from a page that the published heap does not
use (`FoundAt`), which answers "not there". `astray` remembers that such a test was answered
otherwise than the published heap would have, the one exception of `RedoExact` and
`RedoPlausible`: a committed deletion is then skipped, or a put that the image holds is
made again. `Reopens` is FALSE in the run: what follows a reopening is what follows a
checkpoint; the proofs take either value.

**`Segments`, `CAS`.** A record or an object is a row of cells that name it and number
its parts, which stands for length and checksum. A stop keeps what was synced and
any prefix (segments) or any subset (content store) of what was not. A write may
fail and leave cells behind (`Leftovers`).

**`Database`.** The goroutines are clients and the jobs of a batch. Each acquisition
of `db.mu` (readers, a waiting writer keeps new readers out), `writeMu` (tried, not
waited for) and `walMu` (waited for) is a step; a section of `db.mu` in which nothing
waits is one step. The counts of a shard are the writes logged, durable, acknowledged
and sent to the replicas; `goal` remembers what they were when a `Sync` began. The
records that are not durable are in the open pack; the part of a batch in a shard is
flushed when it returns, or stays in the pack that an earlier Put left open
(`PackOpen`). A Rollback empties the pack, and
`dropped` remembers that acknowledged writes were in it, until a checkpoint writes
their pages. An operation of a lot that is refused ends the lot (`OpFails`).

**`VFSFile`.** One file, cells of which `BlockSize` make a block. Every write or
removal in the store is a step that may fail (reads of the store do not), and the
process may stop before it; the state's mutex and the registry's are explicit. The store
only acknowledges: its `Put` and `Delete` take no durability option, all the keys of a
file go to one shard, whose journal keeps their order, and a stop loses the last of
them. `kept` is what a stop brings back: any state of the store since the last
`Barrier`, the `SyncKey` with which `Sync`, and no other call, ends; `Persist` is all
that may make the store durable at another moment. A Rollback of a transaction on the
same shard, which may undo what a `SyncKey` declared (`Journal_rollback_sync`, §3), is
not in the module. `truth`
is what the calls made so far leave in the file (after a truncation or a deletion that
failed half way, what is left of it), `may` what each cell has been since the last
Sync that returned, `sure` the generation that the metadata had then. Handles of an
older generation are stale and refused. A truncation drops the dirty blocks above its end from memory before it removes them from the store, in
ascending order; `GhostFaults` lets such a removal fail while the store has cells past
the end of the file that only a dirty block hides (`Ghosts`), which the instance of the
run and the proofs of contents leave out (§3).

## 3. Runs

| Run | Instance | Checks |
|---|---|---|
| `LiveHeap_writes` | 2 readers, 5 buffers, 2 pages, ceiling 1, 4 stamps, failing `mmap`, poison | `SnapshotStable`, `HoldCeiling`, `NoTrace`, `BuffersAccounted`, and the refinement `SnapshotSpec`, on put, batch and transaction |
| `LiveHeap_all` | every operation, 1 reader, 4 buffers, 3 stamps, under fairness | `TypeOK`, `RefsExact`, `MappedWhileOpen`, `PublishTerminates` |
| `TreeHeap_calls` | 10 starting shards of 22 pages, 3 retentions, 2 further calls of 2 keys and 2 values, cursors | `Aligned`, `ReadExact`, `ChainExact`, `CursorExact` |
| `Redo_crashes` | 2 keys, 4 records, 2 stops, one of them in the redo; any insertion of a transaction may split the root | `RedoExact`, `RedoPlausible` |
| `Journal_devices` | own (the constants of the configuration): autonomous writes on 7 blocks, 5 records, power loss between calls; small: every call on 3 blocks; cut: 6 blocks, transactions and batches, two kills anywhere, repair | `DurableKept`, `LossIsTail`, `TxReplayedWhole`, `PackPlaced`, `CutKept` |
| `Journal_rollback_sync` | a Rollback between a Put and a Sync | violates `Durable` |
| `Files_stops` | transactions: 3 pages, 2 tag blocks, 2 slots, kill; puts: 5 slots, power loss; segments: 4 records of 1 or 2 cells in segments of 3, 2 stops, a failing write; content store: 3 objects in 4 blocks, 2 stops | `RecoveredSnapshot`, `HistoryExact`, `EventsExact`, `ContentKept` |
| `Committer_calls` | 2 shards, windows 1, 2 and 3, a failing flush, Close | `NeverForgotten`, `NoOversleep` |
| `Committer_ends` | 2 shards, a failing flush, Rollback, Close, under fairness | `WindowHonoured`, `StopEnds` |
| `Database_calls` | 2 clients, 2 shards closed or open, both policies, any 2 calls, under fairness | `LocksReturned`, `SyncDurable`, `SyncReplicated`, `NoUseAfterClose`, `CallsEnd` |
| `VFSFile_calls` | 2 clients, 3 cells in 2 blocks, 3 writes, truncations and faults, at most one a fault, 3 generations, one stop | `ViewExact`, `StoreExact`, `StopPlausible`, `GenerationMonotone` |
| `VFSLocks_ladder` | 4 connections, 2 writes, under fairness | `TypeOK`, `ReadStable`, `PendingEnds` |

Every module has a type invariant, `TypeOK`; the runs list it where it says more than
types or where it is a theorem. The other properties defined in the modules and listed
by no run (`ReadYourWrites` and `PublishFits` of `Pager`, `DeadlineKept`,
`PreparedAccepted`) hold on the same instances: add a line to the
configuration. They are proved: `DeadlineKept` with `NeverForgotten`, `PreparedAccepted`
with `HoldCeiling`, those of `Pager` on their own.

What the violation shows: Rollback empties the pack that also holds autonomous
writes already acknowledged, and zeroes their counter, so that a later `Sync` returns
without having made them durable. `PROJECT.json`, `findings`, quotes the sentence of
the repository that it contradicts. With `MaxCalls = 3` and
`SPECIFICATION Spec`, the safety half of `Database_calls` passes too (3.9 million states).

A passing run restricts the workload (`Ops`, `Kinds`, `CrashAt`, `PowerLoss`) to
the calls and the overlaps for which the property holds (`OwnerCalls`, `CloseShared`,
`Overlaps`, `WritesAfterCrash`, `Workloads`, `TxRewrites`, `CursorMoves`, `Stops`,
`Leftovers`, `TornWrites` do the same in the other modules). Where a call outside that set breaks it,
a configuration gives the counterexample (`tlc -config <name>.cfg <module>`): one of
its own, or that of a run with the constants changed as the first column says and the
one property of the second:

| Configuration | Breaks | By |
|---|---|---|
| `LiveHeap_compact_view` | `SnapshotStable` | `Compact` packs leaves of the published buffer in place (`engine.go:2832`), under the pins of open views; `README.md:10` says a view pins a snapshot |
| `LiveHeap_lost` | `ReadsMapped` | a `publish` that was not prepared and gets no work buffer (`engine.go:4398`) leaves two descriptors on one buffer; `reapHolds` unmaps it for the first while a reader is on the second |
| `LiveHeap_mut_ceiling` | `HoldCeiling` | `Mut` publishes without `preparePublish` |
| `LiveHeap_mut_trace` | `NoTrace` | a `Mut` that `publish` refused stays in the work buffer |
| `LiveHeap_tx_trace` | `NoTrace` | Rollback after a rebuild puts back a root of the heap before it |
| `Files_stops`, `Stores = {"transactions"}`, `Kinds = {"batch"}` or `{"tx"}`, `NSlots = 5`, `PowerLoss = TRUE` | `RecoveredSnapshot` | the checkpoint after a batch or a transaction finds no dirty slot and skips the barrier |
| `Files_stops`, `Stores = {"transactions"}`, `Kinds = {"put"}`, `NSlots = 5`, `CrashAt = {"flush", "barrier", "tags"}` | `RecoveredSnapshot` | a kill between a page and its tag |
| `Files_stops`, `Stores = {"transactions"}`, `Kinds = {"put"}` | `PublishFits` | a Put reserves before it dirties |
| the same | `RecoveredSnapshot` | its publication was flushed in the middle: a kill after it returned finds some of its pages in `data.img` |
| `Files_stops`, `Stores = {"transactions"}`, `CrashAt = {"put"}` | `RecoveredSnapshot` | the replay of an opening reserves nothing, flushes in the middle of its publication and is killed there |
| `Journal_discard_hole` | `NoRupture` | `DiscardPack` to a `qLBA` that a truncation made stale |
| `Journal_batch_barrier` | `BatchDurable` | the batch's pack is nested in the pack of an earlier Put |
| `Journal_empty_commit` | `LossBound` | an empty Commit leaves the group open |
| `Journal_truncate_kill` | `NoRupture` | a kill while the truncation zeroes blocks |
| `Journal_truncate_power` | `Durable` | one barrier for the whole truncation |
| `Journal_tx_full` | `TxWhole` | the rebuild drops the earlier writes of the open transaction |
| `Journal_stale_check` | `Durable` | the position of the checkpoint is taken before an `Append` that truncates |
| `Journal_log_full` | `Reopens` | no room for the checkpoint of the reopening |
| `Journal_rollback_sync`, `Ops = {"put", "compact", "tx", "rollback"}`, `MaxChecks = 1` | `AppendOnly` | a truncation leaves `qLBA` where it was (`wal.go:707`): the Rollback of the next transaction goes back into the quantum buffer that is already on the device, and the next flush writes its old block over the checkpoint |
| `Committer_open_tx` | `WindowElsewhere` | an open transaction on one shard blocks the committer for all |
| `Committer_rollback` | `NeverForgotten` | `abortGroup` zeroes the counter of earlier writes |
| `TreeHeap_calls`, `CursorMoves = {"last", "prev"}` | `CursorExact` | `stepBackward` gives up at an empty leaf (`cursor.go:358`) |
| `TreeHeap_calls`, `TxRewrites = TRUE` | `ReadExact` | a second put of a key in a transaction has the same identifier (`tx.go:69`): reads find the first |
| `TreeHeap_calls`, `Shards <- ArchivedShards`, `OpKeys = {3}` | `ArchiveExact` | a read at a snapshot after the archiving of its version gives an older one |
| `Redo_crashes`, `Workloads <- MutAhead` | `RedoPlausible` | a `Mut` redone over an image ahead of the log computes a document that never was (`engine.go:2157`) |
| `Redo_crashes`, `Workloads <- TxRewrites` | `RedoExact` | in a transaction, the redo of a deletion looks for the key in the published heap (`engine.go:2277`), not among the transaction's own puts |
| `Redo_crashes`, `INVARIANT RedoExactAlways` | `RedoExactAlways` | a put of a transaction splits the root (`engine.go:4118`), and the deletions and puts redone after it look their keys up in the published heap from the new root (`engine.go:2277`, `engine.go:2462`): they find nothing, a committed deletion is skipped |
| `Redo_crashes`, `Workloads <- LogAhead` | `ScansSeeAll` | `lastID` is taken from the surviving records (`engine.go:2436`): scans miss newer versions that the image holds and `Get` serves |
| `VFSFile_calls`, `States = {s1, s2}`, `Calls = {"write", "truncate", "sync"}`, `WritesAfterCrash = TRUE` | `ViewExact` | blocks flushed before a stop, past the size of the metadata, come back when the file grows |
| `VFSFile_calls`, `States = {s1, s2}`, `Overlaps = {"open"}`, `Calls = {"write", "sync"}` | `ViewExact` | an opening joins the registry with metadata read before another client wrote and closed (`vfs_file.go:328`) |
| `VFSFile_calls`, `States = {s1, s2}`, `Overlaps = {"create"}`, `Calls = {"write", "sync", "create"}` | `GenerationMonotone` | a flush that read the metadata before `CreateVFSFile` writes the old generation over the new |
| `VFSFile_calls`, `States = {s1, s2}`, `Overlaps = {"delete"}` | `GenerationMonotone` | `DeleteVFSFile` of a file nobody has open takes no lock (`vfs_file.go:464`): of three deletions the slowest writes an older generation last; the three other properties hold |
| `VFSFile_calls`, `GhostFaults = TRUE`, `MaxWrites = 5`, `MaxCrashes = 0`, `Calls = {"write", "truncate", "sync"}` | `ViewExact` | a `Truncate` drops from memory the block that an earlier one filled with zeros, then fails to remove it from the store (`vfs_file.go:782`): the bytes that were cut come back when the file grows, which the comment at `vfs_file.go:735` excludes |
| `VFSFile_calls`, `PurgeFaults = TRUE` | `ViewExact` | when the purge of a `CreateVFSFile` fails (`vfs_file.go:433`), the handles of the old generation stay valid in memory, although nothing they write can be saved |
| `Files_stops`, `Stores = {"segments"}`, `Logs = {"txlog"}`, `Stops <- MCStopsTorn` | `EventsExact` | a torn event stays at the end of its segment, and the log after it is unreadable |
| `Files_stops`, `Stores = {"segments"}`, `Logs = {"history"}`, `Leftovers <- MCLeftoversSome` | `HistoryExact` | a failed append that left cells behind is followed by others, and the segment stops decoding |
| `Files_stops`, `Stores = {"cas"}`, `TornWrites = TRUE` | `ContentKept` | a torn object is indexed by its header (`cas.go:159`), and its next `Put` stores nothing |
| `Database_lot` | `LotReturnsLocks` | a lot that meets a busy shard returns with the locks of the others (`c2ql.go:443`), or a shard opened under the lot keeps its own (`route.go:526`) |
| `Database_owner` | `CallsEnd` | `ensureCommitter` waits under `db.mu` for a `walMu` (`route.go:564`) whose holder waits for `db.mu` |
| `Database_calls`, `OwnerCalls = TRUE`, `Calls = {"tx", "sync"}` | `CallsEnd` | the owner of a transaction calls `Sync` and waits for its own `walMu` (`engine.go:2671`) |
| `Database_calls`, `Calls = {"put", "tx"}` | `AcknowledgedKept` | Rollback drops the acknowledged writes of the open pack, as in `Journal_rollback_sync`: `SyncDurable` is stated for the others |
| `Database_close` | `NoUseAfterClose` | `Close` does not wait for calls that have left `db.mu` (`engine.go:1662`) |
| `Database_calls`, `Calls = {"tx", "sync"}` | `SyncReplicatesAll` | the records of a transaction are not published (`replication.go:14` says each record is) |

**Bounds.** A ceiling of 1 in place of 8 is reached with two readers, one on
a held heap and one on the published one, and a second reader is what makes the
ceiling race. Two pages tell the header, stamped by each publication, from an
ordinary one. `LiveHeap_all` makes do with one reader because it needs every
operation and no symmetry (symmetry is unsound for liveness): the counters with
several readers are `RefsCounted`'s business. Three cached pages in two slots evict
and fill up; two tag blocks make the tag block go out in the middle of a flush. A journal of 6 to 8 blocks with a
quantum of 2 to 4 crosses the quantum boundary and the half at which truncation
starts; `CoalesceN` of 2 or 3 in place of 32 is crossed with writes to spare. Two
shards suffice for one to be blocked behind the other. `MaxStamp`, `MaxVer`,
`MaxRec`, `MaxChecks`, `MaxCrash`, `MaxFaults` and `MaxWrites` only stop the
exploration: each is named in a guard and large enough for two rounds of the
longest operation. Readers and buffers are interchangeable (symmetry, in the safety
runs only; `SnapshotSpec` treats all readers alike).

A page of 13 units holds 3 to 6 cells: 25 keys make four levels, and a mask of 3 bits
is passed by any split of an inner node. Two calls after a prepared past are enough
for a split and what undoes or reads it; a cursor is opened on small heaps only
(`CursorPages`), which the emptied and the versioned shards are. Four records with two
stops interrupt a redo and redo it over what it wrote. Two clients making any two
calls show every pair of calls; a third call adds nothing but states. Three cells in
two blocks make one block partial, and three generations make a file that is deleted
and created again. A write covers the first cell, which makes a partial block, or the
two others, which cross into the second block (`MCSpans`); the properties of
`VFSFile_calls` also hold with every range and `MaxWrites = 2`, and with `MaxWrites = 4`
and no stop. Segments of three cells rotate at every second
record.

**Fairness.** Goroutines that can run eventually do (weak fairness of the steps of
`pinLive`, of the writer in `publish`, of the committer): the Go scheduler is
preemptive. A mutex that is free again and again is eventually taken (strong
fairness of `CLock` and `CloseShard`): `sync.Mutex` hands over to a waiter starved
for 1 ms. A `select` with several ready cases chooses at random, so none is ignored
for ever (strong fairness of `CTimerFires` and `CStop`). `FairSpec` of `Committer`
adds that transactions end; `OpenTxSpec` leaves that out, and so shows what
depends on it. `Database!Fairness` is the weak fairness of each goroutine, with a
quorum that answers, transactions that end and lots that run out of operations; it
makes nobody start a call. In `VFSLocks`, a SQLite connection leaves its lock in the end, and one
that is PENDING tries again: nothing in the code forces it, it is what SQLite's busy
handler does.

## 4. Proofs

For every value of the constants that satisfies the `ASSUME` of the module. Every
inductive invariant was checked by TLC before it was proved.

### Published heap

* `LiveHeapProofs!TypeCorrect`: `Spec => []TypeOK`. `TypeInv` adds that the pointer
  is nil only once the shard is closed, and which calls a rebuild returns to.
* `LiveHeapProofs!RefsCounted`: `Spec => []RefsExact`. The counter of a descriptor is
  the cardinality of the readers that stand on it; one lemma for a reader that comes
  and one for a reader that goes, and the writer touches neither.
* `LiveHeapProofs!ReadersOnMappedMemory` and `NoBufferLeak`: `MappedWhileOpen`
  and `BuffersAccounted`, for every workload, `Compact`, `Close` and publications that
  were not prepared included, until one of these loses its work buffer (`lost`).
  Neither is inductive: a buffer may be recycled when no *pinned* reader is on it, while
  a reader that loaded the pointer long ago is about to count itself. `Ownership`
  says who owns each mapped buffer (published, work, spare, hold, or the old one
  between swap and recycling) and that no buffer has two owners; `IInv` adds that a
  reader past `PinCheck` stands on the live descriptor, the old one or a hold. A
  recycled buffer then has counter zero, by `RefsExact` nobody stands on it, and a late
  reader's second load fails because the pointer has moved on.
* `LiveHeapProofs!Isolation`: `SnapshotStable`. `PInv` adds to `IInv` that the
  descriptors that readers can stand on still have the image they published.
  Assumption `PreparedWorkload`: no `Compact` (`LiveHeap_compact_view`), no
  `Close`; and if `mmap` may fail, no publication that was not prepared.
* `LiveHeapProofs!Ceiling`: `HoldCeiling` and `PreparedAccepted`, under
  `EveryPublishPrepared`. `CeilingInv` carries the room that `preparePublish` found
  from there to the swap.
* `LiveHeapProofs!Refinement`: `SnapshotSpec`, under `PreparedWorkload`. The step
  simulation: the swap of the pointer is the abstract publication, the second load of
  a reader that agrees is its view, the decrement its end, and every other step
  leaves the abstract state alone, which is where `PInv` is needed: a write into a
  buffer, or an unmapping, touches no buffer that a view reads.
* `LiveHeapProofs!FailedWritesLeaveNoTrace`: `NoTrace`, when every publication is
  prepared. `TraceInv` says at each position of the writer which pages of the work
  buffer may differ from the published ones (those marked, and during a rebuild all),
  and what `initRoot` is, so that the copy of the marked pages at the end of a write
  that failed restores everything. `LiveHeap_mut_trace` and `LiveHeap_tx_trace` show
  the two workloads outside the assumption.

### Base

All under `Disciplined`: the owner of a transaction makes no other call before its end
and no lot runs beside a call that waits under `db.mu` (`~OwnerCalls`), and `Close` runs
when no call is outside `db.mu` (`~CloseShared`). `Database_owner` and `Database_close`
show what happens otherwise; the constants of `Database_calls` satisfy it. Clients,
shards, opening, modes and the number of calls are arbitrary.

* `DatabaseProofs!Locks`: `LocksReturned`. `LockInv` is a conjunction over clients,
  shards and pairs of them: `Types`; `Calling`, the fields of a call at each of its
  positions; `Owning`, which shards a client and the jobs of its batch own at that
  position and how deep; `Locked`, the lock of a shard as one (`writeMu`, `walMu`, the
  owner and the depth agree, and the depth counts the group); `Flushing`, the committer's
  part; `BaseLock`, who holds or waits for `db.mu`. The lock of a shard that a lot left
  behind (`Database_lot`) is the exception that `LocksReturned` states.
  One lemma per action reduces it to one of a few forms: a step that
  leaves the locks alone (`QuietStep`), one of the owner of a shard (`OwnerStep`), one of
  a job (`JobStep`), each proved once from the parts of the invariant.
* `DatabaseProofs!Typing`, `UseBeforeClose`, `Durability`, `Replication`: `TypeOK`,
  `NoUseAfterClose`, `SyncDurable`, `SyncReplicated`. `DInv` adds to `LockInv` which
  shards are open at each position (`Opened`), who may run while `Close` does
  (`Closing`), what is still done on a closed base (`Closed`), and the counts
  (`CountInv`): durable and acknowledged writes are logged, an open transaction began
  after all of them (so a Rollback takes back no durable write), and a `Sync` has waited,
  for each shard it is past, until the durable writes and the acknowledgements of the
  quorum reached its goal. Counts only grow (`Grows`), and the lemmas `MoveAny`,
  `GoOn`, `StartCall`, `ReturnCall`, `StayStep` turn that into the preservation of `DInv`,
  one action at a time. `Durability` leaves out what a Rollback dropped, as
  `SyncDurable` does.

### Page cache

For any pages, blocks of tags and number of slots, and any bound on publications.

* `PagerProofs!CacheTypes`: `TypeOK`, among which that the cache keeps within its slots.
* `PagerProofs!Reservation`: `PublishFits`, when all writes are transactions or the
  pager has a slot for every page (`Large`), with stops anywhere. `Room` says that the
  dirty slots and the pages still to hand over fit together, from `preparePublish` to the
  last `PutPage`.
* `PagerProofs!Reload` and `CacheExact`: `RecoveredSnapshot` and `ReadYourWrites`, under
  `Recoverable`, which names the stops the code recovers from: between two calls, while
  the shard opens and, with a slot for every page, inside a publication; a power loss
  only with puts; with fewer slots than pages only batches and transactions. Both settings
  of `Files_stops` satisfy it, and the rows of §3 break what is beyond it. Neither
  property is inductive: a flush writes `data.img` page by page, and the pages meet their
  tags only at its end. `FilesInv` says that a page is in the cache or in `data.img`, but
  for the pages still to hand over (`Handed`); that each page of `data.img` has its tag in
  `tags.img` or in the one block of tags in memory (`Sealed`), so that a reopening leaves
  none out; that a power loss may keep nothing but what the files hold, outside a flush
  that writes (`Durable`); that a flush which makes room for a publication writes the
  one before it (`Prepared`); and so that `data.img` is one publication, since the last
  checkpoint, wherever a stop may hit (`Based`).

### Committer and locks of a VFS file

* `CommitterProofs!Awake`: `NoOversleep`. With the types it is inductive: each
  registration leaves a ring behind or a writer about to ring.
* `CommitterProofs!Remembered`: `NeverForgotten` and `DeadlineKept`, when nobody
  calls Rollback (`Committer_rollback.cfg`). `RegInv` joins the two with "an owed
  write is counted in `unflushed`".
* `FilesProofs!OneWriter`, `StableReads`: `TypeOK` (which holds the exclusions
  between connections) and `ReadStable`, by `Alone`: EXCLUSIVE tolerates no other
  lock.

### VFS file

For any number of clients, state objects, cells, generations, writes, faults and stops,
and any flush threshold.

* `VFSFileProofs!Generations`: `GenerationMonotone`, under `OpensOverlap`: creations and
  deletions run alone, openings overlap whatever they like. `Durable` is about stops: what
  one brings back is no older than the last Sync that returned, and no newer than the
  store. `GenInv` joins `Types`;
  `Knows`, what a client at each position of a call knows of the metadata in the store (a
  handle never has a newer generation, one that is about to save has the same one);
  and `Apart`, who may run beside a creation or a deletion. The rows
  `Overlaps = {"create"}` and `{"delete"}` of §3 show why the condition is needed.
* `VFSFileProofs!Contents` and `StoreHolds`: `ViewExact` and `StoreExact`, under `Serial`:
  openings run alone too, a purge of a creation and a truncation over hidden cells do not
  fail, and nothing is written after a stop. Each part of `Serial` excludes a
  counterexample of §3, except that `Overlaps = {"delete"}`, which breaks only
  `GenerationMonotone`, is left out with the rest; flushes, truncations, deletions,
  openings and the first step of a creation may fail anywhere, and the process may stop
  anywhere and lose what the store had only acknowledged. `KeptInv` is what that takes:
  what a stop brings back has no block of a generation it has not reached.
  `SerialInv` is about who does what: one call at a time changes anything (`Lone`), where
  its handle and the mutex are (`Placed`), the reference count is the number of handles
  (`Counts`), the registered state has the generation of the metadata except during a
  creation or an opening (`Agreed`), something dirty has a valid handle that will flush
  it (`Watched`), and a generation not yet reached has no blocks (`Fresh`). `FileInv` says
  what the file holds, at each position: what a valid handle reads is `truth` below the
  end (`Same`) and, until a stop, zeros above it (`Tail`), which is why a growing write
  brings nothing back; the blocks a flush has written are in the store (`Flushing`);
  and the cells a truncation has not removed yet are in blocks it still has to remove
  (`Cutting`). Neither `Same` nor `StoreExact` is inductive without `Tail` and `Cutting`.
* `VFSFileProofs!StopsPlausible`: `StopPlausible`, under `Serial`. `Seen` adds that the
  blocks in the store, the pages in memory and the sizes of both are in `may` (the store's
  only below its end after a stop), and that zeros are while a deletion or a creation
  removes blocks; `Calm` that nothing is dirty after a stop; `KeptSeen` that what is durable
  is in `may` too, which only grows until the next barrier. `CellSeen` is the step that
  needs `FileInv`: what a flush is about to write has been in the file since the last
  `Sync`; at the barrier of a `Sync`, `Written` says the store holds the file, so that
  `may` can be forgotten.

### Journal

For any sizes of the log, the quantum, a pack, a group and an oversized record, any
workload, stops at any of the positions the module knows, and power losses.

* `JournalProofs!PackFits`: `PackRoom` and `QuantumPlaced`.
  `Kept` is about the structure alone: what is pending has room and an open pack, and
  the buffered blocks end at `next`. It is preserved by each method (one lemma per
  operator, from the bare fields of the structure up to `Append`, `Flush`, `RollbackTo`,
  `CheckpointMark` and the truncation), and a step is a composition of these. The chunks
  of an oversized record are a recursive function: `ChunksLead` unfolds it.
  `TypeOK` is not a theorem: `qCount` may pass its bound after the `Rollback` that the
  row on `AppendOnly` of §3 describes.
* `JournalProofs!CutStands`: `RepairKeepsCut`. `BackOK` says
  where the writer goes back to after a checkpoint or a truncation. So a log is only
  refused with nothing in doubt and nothing in its buffers (`Still`, `Drained`), and
  during a repair nothing up to the hole is in doubt while all writes left are zeroes at
  or after it (`Cutting`). Whatever a power loss keeps of them, the tip is where it was
  (`SameTip`).
* `JournalProofs!GroupCommit`: `Durable`, `LossBound` and `LosesSuffix`, for autonomous
  writes (`Autonomous`: any puts, oversized or immediate, on a full heap or not, window
  flushes, Sync, Checkpoint, Compact, Close, repairs), with power losses anywhere but
  inside a truncation. None is inductive, since they are about what a replay would find.
  `GroupInv` says what the log is at each position of the writer. Up to `Start` a log is on
  its device and then in the quantum buffer: that is its `View`. A block of the view
  `Covers` a record when the replay that reaches it gives the record back (a pack that has
  it, or its last chunk, after all the others and no foreign chunk). `LogOK` is about the
  view alone: records come in order, none is owed before the last mark, numbers are not
  ahead of those given. `GoodLog` adds what a power loss leaves: the records declared
  durable are covered below `Start` and those blocks are in no doubt (`Saved`, `Solid`),
  and the acknowledged ones that are not (`Loose`) are at most `unflushed`. During a
  truncation the writes left `Lead` from any device to `Trimmed`, the log it is about to
  be (`CutLeads`); after a stop `DownOK` is about the device alone: a repair keeps it,
  and `AllReplayed` draws from it that a reopening finds what is owed. One lemma per
  action; the long ones are the truncation (`TruncLeads`), which moves blocks down twice,
  and the chunks.
  Two things are left aside, because they break the property: stops inside a truncation
  (`Journal_truncate_kill`, `Journal_truncate_power`) and `StaleCheck`, the step where the
  `Append` of `Checkpoint` truncates the log under the position `Checkpoint` has taken
  (`Journal_stale_check`). `GroupCommitCuts` needs no such condition when only openings
  and `Compact` post checkpoints: these truncate the whole log.
* `PackFitsMC`, `CutStandsMC`, `PromisesKeptMC` and `LossesMC` say the same of
  `PackPlaced`, `CutKept`, `DurableKept` and `LossIsTail` in `MCJournal`, on the device
  with the configuration's constants, which are any (`OneDevice`: the configuration gives
  no other device, like all those of §3 but `Journal_devices`).

### Content store

* `FilesProofs!Kept`: `ContentKept` (and `CASTypeOK`), for any objects, lengths, device and
  number of stops, when a stop keeps all of a write in progress or nothing
  (`~TornWrites`; the row `Stores = {"cas"}` of §3 shows the other case). `Layout` says
  that the device is always a chain of whole objects, each of its header and parts, then
  vacant blocks, and that the index points at the headers of the objects put so far;
  during a `Put` the blocks already written follow the chain (`Writing`). An opening walks
  the device from header to header, which is a recursive function: `WalkExists` shows by
  induction on the blocks that it is what its equation says, `ReplayIs` and `NextHeader`
  that it visits the headers and nothing else, and `ReplayFinds` that it indexes each
  object where its `Put` wrote it.

### History segments and transaction log

For any keys, versions, lengths and size of a segment, any number of records, rotations,
closings and stops, under `Orderly`: of the archive a failed append leaves no cell in the
file, and a stop may keep any prefix of what was not synced, a torn record or not even the
segment; of the events no write fails and a stop leaves whole ones. The rows of §3 on
`Stops` and `Leftovers` show what is beyond it.

* `FilesProofs!HistoryServed` and `EventsServed`: `HistoryExact` and `EventsExact`.
  `Row` says that the cells of a segment are those of records, one after the other, of
  which the last may be cut. The loop over a segment is a recursive function:
  `ScanExists` shows that it is what its equation says, and `ScanIs` that on a row it
  finds the start of every whole record (`Heads`) and stops where the last of them ends
  (`EndOf`). So a segment reads back whole exactly when its last cell ends a record
  (`WholeIs`), and a repair cuts no record (`RepairedEnds`). `Held` says of the files that
  every segment is a row, that all but the last are whole, the last too while records are
  added, that records are numbered in their order, that those kept are those of which the
  files have the end, and that the index is what a reader would find; `Numbered` that the
  last segment has the last event and that `seq` has passed them all. One lemma for each
  thing done to a list of segments (a record written, a segment opened, cut, or gone),
  and one per action.
* `FilesProofs!LogTyped`: `LogTypeOK`, with `Bounded` for the sizes and the numbers.

### Logical redo

For any keys, records, identifiers, length of the log and number of stops, the redo
interrupted by a stop included; the workloads are those that §3's rows on `Workloads`
leave: no transaction touches a key twice, and for `RedoPlausible` `Mut` is not called
where the page cache may be ahead of the journal. Both hold up to `astray`, and the
induction (`Inv`) says nothing once a split root has misled a test; before that, a split
root changes no answer (`NotMisled`).

* `RedoProofs!Exactly`: `RedoExact`, and the types as long as `~astray`. `Hit` says which record makes what a
  publication changes of a key: the record itself, or the one write of the transaction
  to that key, at its mark. `Logged` orders the identifiers of the log, and `History`
  says of the published heaps that each is the one before with what the `Hit` record
  makes, that every version is older than the records that follow, and that after a
  write the key keeps a version as new as long as no delete takes effect (`Dropped`). So
  the test of the redo ("is a version as new already there?") answers yes exactly when
  the image holds the record. `Exact` is the invariant of the loop: before record `p`,
  a key is what it was at that moment of the log, or at that of the image when it is
  ahead; when the records up to the image delete the key later on, it may be anything
  until that delete. `ExactTurn` carries it over a record and `RecordTurn` shows that
  `RedoRecord` is such a turn on every key; the loop over a transaction's records is a
  recursive function (`GroupExists`, `GroupUnfolds`, `GroupFrom`). A repack in the middle of the redo
  publishes the heap as it is: `Exact` holds of the image too, which is why the next stop
  may start over from it.
* `RedoProofs!Plausibly`: `RedoPlausible`. Over an image ahead of the log, `Seen` says that
  a key has the newest identifier and the value it had at some moment from record `p` on;
  without `Mut`, whose result depends on what it finds, a turn keeps it (`SeenTurn`). When
  the page cache is never ahead, `imageAt <= durable` and `Exactly` applies.

### Only model-checked

Liveness (`PublishTerminates`, `WindowHonoured`, `StopEnds`, `PendingEnds`,
`CallsEnd`), which TLAPS does not reach. What `BTree` and `Cursor` compute, and
`TreeHeap` which uses them: their `RECURSIVE` operators are out of reach of the prover. A recursive *function* is not: induction over the naturals is
proved once for sets of naturals (`Least`, `Induction`, from the library's theorems on
well-founded relations), and a function defined by its own equation exists because that
induction builds it; `CAS`, `Journal`, `Redo` and `Segments` are written so. Of `Journal`, what
batches and transactions bring back (`BatchDurable`, `TxReplayedWhole`, the device "cut"
of `DurableKept`); the proofs have autonomous writes.

## 5. Not modelled

* Overflow chains and the free list: values stay in their leaf. Their reclaim under
  pinned views is the next candidate.
* MACs and encryption as such, byte layouts and checksums (page, WAL block, class32,
  zipper and CRC kernels): a MAC or checksum is taken to accept exactly what was sealed.
* `Snapshot`, `CompactTo`'s archive, `Delta`: sequential exports of a pinned view.
* `Migrate` copies `data.img` and `wal.img` without the writer lock, `tags.img` or the
  journal's buffers (`migrate.go:53`): it is an operator's tool for an idle base, and
  no property covers it.
* A batch over several shards that fails on one after others committed
  (`route.go:620` documents it), a cancelled `Sync`, a positive `busyTimeout`, the OFD
  lock between processes, read-only and strict openings.
* C2QL's parser and evaluation, `Mut`'s document operations (an opaque function of the
  document in `Redo`), collections, queries over several cursors: pure evaluation.
* The UUID generator: identifiers are increasing numbers.
* The shadow oracle and the probes observe and change nothing; keys, compression, web
  front end, commands and benchmarks are I/O or tooling.

`Close` of `LiveHeap` is for a caller that has closed its views; what `DB.Close`
waits for is in `Database`.

## 6. Plan

1. **Proofs**: batches and transactions of `Journal` after a stop.
2. **VFS file**: the composition with `VFSLocks`, which orders the writers of one file.
3. **Overflow and free list** under pinned views; **Migrate** against a stop between its
   copies; **UUIDv7** monotonicity under clock regressions.
