------------------------------- MODULE VFSFile -------------------------------
(***************************************************************************)
(* A file of the SQLite VFS over the key-value store                       *)
(* (pkg/c2db/vfs_file.go): metadata and blocks of a generation in the      *)
(* store, one sharedFileState per file in the registry, handles on it.     *)
(*                                                                         *)
(* One file.  A block is BlockSize cells, an absent block reads as zeros,  *)
(* so the blocks of a generation are a row of cells, zero where nothing is *)
(* stored.  The calls on a state hold its mutex over several operations of *)
(* the store: each write is a step, which may fail, and before which       *)
(* the process may stop.  The store is the shard that all the keys of the  *)
(* file are routed to: it keeps its operations in order, and a stop loses  *)
(* the last of them, back to the last Sync at most.  Reads do not fail.    *)
(***************************************************************************)
EXTENDS Naturals, FiniteSets, FiniteSetsExt

CONSTANTS
    Clients,       \* goroutines; each has at most one handle
    States,        \* the sharedFileState objects
    None,
    BlockSize, MaxSize,
    Threshold,     \* dirtyFlushThreshold
    MaxGen, MaxFaults, MaxCrashes,               \* bounds
    MaxWrites,     \* bound on the writes, the truncations and the failures together
    Spans,         \* the ranges of cells that a write may cover, in this instance
    Calls,         \* "write", "truncate", "sync", "delete", "create"
    Overlaps,      \* the calls among "open", "delete", "create" that others may overlap
    PurgeFaults,   \* whether the purge of a creation may fail
    GhostFaults,   \* whether a truncation may stop while the store has cells past the end
    WritesAfterCrash

ASSUME VFSFileAssumption ==
    /\ BlockSize \in Nat \ {0} /\ MaxSize \in Nat /\ Threshold \in Nat \ {0}
    /\ MaxGen \in Nat /\ MaxWrites \in Nat /\ MaxFaults \in Nat /\ MaxCrashes \in Nat
    /\ None \notin States \cup Clients /\ {PurgeFaults, GhostFaults, WritesAfterCrash} \subseteq BOOLEAN

VARIABLES
    meta,       \* the metadata in the store; generation 0: none
    blocks,     \* of each generation, its cells in the store
    kept,       \* what a stop brings back of both
    registry,   \* globalFileRegistry.states of the file, or None
    state,      \* the sharedFileState objects
    mu,         \* who holds the mutex of each
    regmu,      \* who holds globalFileRegistry.mu over several steps (CreateVFSFile)
    client,     \* the handle and the call of each client
    truth,      \* history: what the calls that were made leave in the file
    may,        \* history: what each cell, and the size, was since the last Sync that returned
    sure,       \* history: the generation of the metadata at that Sync
    writes, faults, crashes

disk   == <<meta, blocks>>
memory == <<registry, state, mu, regmu>>
ghost  == <<truth, may>>
durable == <<kept, sure>>
bounds == <<writes, faults, crashes>>
vars   == <<disk, durable, memory, client, ghost, bounds>>

Cells == 0 .. (MaxSize - 1)
Blocks == {c \div BlockSize : c \in Cells}
Sizes == 0 .. MaxSize
Zeros == [c \in Cells |-> 0]
numBlocks(size) == (size + BlockSize - 1) \div BlockSize
Of(b) == {c \in Cells : c \div BlockSize = b}
Wiped(row, from) == [c \in Cells |-> IF c >= from THEN 0 ELSE row[c]]

NewState == [size |-> 0, generation |-> 0, refCount |-> 0, dirty |-> {}, cells |-> Zeros, metaDirty |-> FALSE]
Outside == [pc |-> "none", st |-> None, generation |-> 0, seen |-> 0, todo |-> {}, size |-> 0, after |-> "return"]
NoFile == [size |-> 0, generation |-> 0, deleted |-> FALSE]

Store == [meta |-> meta, blocks |-> blocks]

Init ==
    /\ meta = NoFile /\ blocks = [g \in 1 .. MaxGen |-> Zeros]
    /\ kept = Store /\ sure = 0
    /\ registry = None /\ state = [s \in States |-> NewState]
    /\ mu = [s \in States |-> None] /\ regmu = None
    /\ client = [c \in Clients |-> Outside]
    /\ truth = [size |-> 0, cells |-> Zeros]
    /\ may = [size |-> {0}, cells |-> [c \in Cells |-> {0}]]
    /\ writes = 0 /\ faults = 0 /\ crashes = 0

-----------------------------------------------------------------------------
(* Scheduling.                                                             *)

Lifecycle == {"fresh", "revive", "found", "purge", "creating", "createPurge"}
KindOf(pc) ==
    CASE pc \in {"fresh", "revive", "found"} -> "open"
      [] pc \in {"purge"} -> "delete"
      [] OTHER -> "create"

\* a call that others may not overlap, in this instance, runs alone
Free(c) ==
    \A d \in Clients \ {c} :
        client[d].pc \in Lifecycle => KindOf(client[d].pc) \in Overlaps
Alone(c, kind) == kind \in Overlaps \/ \A d \in Clients \ {c} : client[d].pc \in {"none", "idle"}

Valid(c) == client[c].pc = "idle" /\ client[c].generation = state[client[c].st].generation
MayWrite == crashes = 0 \/ WritesAfterCrash

\* the mutex of the client's state is free, and it is its turn
Enter(c, call) ==
    /\ call \in Calls /\ Free(c) /\ Valid(c) /\ mu[client[c].st] = None
At(c, pc) == Free(c) /\ client[c].pc = pc

Move(c, pc) == client' = [client EXCEPT ![c].pc = pc]
Back(c, s) ==
    client' = [client EXCEPT ![c] =
        [Outside EXCEPT !.pc = "idle", !.st = s, !.generation = client[c].generation]]
Saw(row, size) ==
    may' = [size |-> may.size \cup {size},
            cells |-> [x \in Cells |-> may.cells[x] \cup {row[x]}]]
Settled == may' = [size |-> {truth.size}, cells |-> [x \in Cells |-> {truth.cells[x]}]]

-----------------------------------------------------------------------------
(* OpenVFSFile: three steps, none under a lock that spans two of them.     *)

OpenRead(c) ==
    /\ At(c, "none") /\ Alone(c, "open")
    /\ client' = [client EXCEPT ![c] =
          [Outside EXCEPT !.pc = IF meta.generation = 0 THEN "fresh"
                                 ELSE IF meta.deleted THEN "revive" ELSE "found",
                          !.generation = meta.generation, !.size = meta.size]]
    /\ UNCHANGED <<disk, memory, ghost, bounds>>

OpenPut(c) ==
    /\ \E pc \in {"fresh", "revive"} : At(c, pc)
    /\ client[c].generation < MaxGen
    /\ LET g == client[c].generation + 1
       IN  /\ meta' = [size |-> 0, generation |-> g, deleted |-> FALSE]
           /\ client' = [client EXCEPT ![c].pc = "found", ![c].generation = g, ![c].size = 0]
    /\ UNCHANGED <<blocks, memory, ghost, bounds>>

\* getOrCreateLocked
Registered(s) ==
    /\ IF registry = None
          THEN \A c \in Clients : client[c].st # s
          ELSE s = registry
    /\ registry' = s
Joined(s) == IF registry = None THEN [NewState EXCEPT !.refCount = 1]
             ELSE [state[s] EXCEPT !.refCount = @ + 1]

\* getOrCreate: the state takes the size read by the first step only if it
\* knows an older generation
OpenRegister(c) ==
    /\ At(c, "found") /\ regmu = None
    /\ \E s \in States :
          /\ Registered(s) /\ mu[s] = None
          /\ LET g == client[c].generation
                 j == Joined(s)
             IN  state' = [state EXCEPT ![s] =
                     IF g > j.generation
                       THEN [j EXCEPT !.generation = g, !.size = client[c].size,
                                      !.dirty = {}, !.cells = Zeros, !.metaDirty = FALSE]
                       ELSE j]
          /\ Back(c, s)
    /\ UNCHANGED <<disk, mu, regmu, ghost, bounds>>

-----------------------------------------------------------------------------
(* Calls on a handle.                                                      *)

\* what ReadAt serves: the dirty pages, else the store
Page(st, g, x) == IF x \div BlockSize \in st.dirty THEN st.cells[x] ELSE blocks[g][x]
View(st, g) ==
    [size |-> st.size, cells |-> [x \in Cells |-> IF x < st.size THEN Page(st, g, x) ELSE 0]]

\* the pages of a set of blocks, brought into dirtyBlocks
Loaded(st, g, bs) ==
    [st EXCEPT !.dirty = @ \cup bs,
               !.cells = [x \in Cells |-> IF x \div BlockSize \in bs THEN Page(st, g, x) ELSE @[x]]]

StartFlush(c, s, after) ==
    /\ mu' = [mu EXCEPT ![s] = c]
    /\ client' = [client EXCEPT ![c].pc = "flush", ![c].todo = state'[s].dirty, ![c].after = after]

\* WriteAt: read-modify-write in memory, a flush when enough blocks are dirty
Write(c, a, b) ==
    /\ Enter(c, "write") /\ MayWrite /\ writes + faults < MaxWrites
    /\ LET s == client[c].st
           st == Loaded(state[s], client[c].generation, {x \div BlockSize : x \in a .. b})
           size == Max({b + 1, st.size})
       IN  /\ state' = [state EXCEPT ![s] =
                  [st EXCEPT !.cells = [x \in Cells |-> IF x \in a .. b THEN writes + 1 ELSE st.cells[x]],
                             !.size = size,
                             !.metaDirty = st.metaDirty \/ b >= st.size]]
           /\ truth' = [size |-> Max({b + 1, truth.size}),
                        cells |-> [x \in Cells |-> IF x \in a .. b THEN writes + 1 ELSE truth.cells[x]]]
           /\ Saw(truth'.cells, truth'.size)
           /\ IF Cardinality(st.dirty) >= Threshold THEN StartFlush(c, s, "return") ELSE UNCHANGED <<mu, client>>
    /\ writes' = writes + 1
    /\ UNCHANGED <<disk, registry, regmu, faults, crashes>>

Sync(c) ==
    /\ Enter(c, "sync")
    /\ UNCHANGED <<disk, registry, state, regmu, ghost, bounds>>
    /\ LET s == client[c].st
       IN  IF state[s].dirty # {} \/ state[s].metaDirty THEN StartFlush(c, s, "sync")
           ELSE mu' = [mu EXCEPT ![s] = c] /\ Move(c, "barrier")

\* flushDirtyLocked: the blocks in the order of the map, then the metadata
FlushBlock(c, b) ==
    /\ At(c, "flush") /\ b \in client[c].todo
    /\ LET g == client[c].generation
       IN  blocks' = [blocks EXCEPT ![g] =
               [x \in Cells |-> IF x \in Of(b) THEN state[client[c].st].cells[x] ELSE @[x]]]
    /\ client' = [client EXCEPT ![c].todo = @ \ {b}]
    /\ UNCHANGED <<meta, memory, ghost, bounds>>

\* the test of saveMetaLocked, on what it reads
Newer(c) == client[c].generation < state[client[c].st].generation \/ meta.generation > client[c].generation

\* saveMetaLocked reads the metadata: ErrStaleHandle, or the metadata will be
\* written.  Only a creation that overlaps a flush brings about the refusal.
SaveCheck(c) ==
    /\ At(c, "flush") /\ client[c].todo = {}
    /\ \/ /\ Newer(c)
          /\ mu' = [mu EXCEPT ![client[c].st] = None]
          /\ Back(c, client[c].st)
       \/ /\ ~Newer(c)
          /\ Move(c, "save")
          /\ UNCHANGED mu
    /\ UNCHANGED <<disk, registry, state, regmu, ghost, bounds>>

\* a state as a flush leaves it
Clean(st) == [st EXCEPT !.dirty = {}, !.cells = Zeros, !.metaDirty = FALSE]

\* fileRegistry.release: the state with one handle less, given what it holds
Left(st) == IF st.refCount = 1 THEN NewState ELSE [st EXCEPT !.refCount = @ - 1]
Released(s, st) ==
    /\ registry' = IF st.refCount = 1 THEN None ELSE registry
    /\ state' = [state EXCEPT ![s] = Left(st)]

SavePut(c) ==
    /\ At(c, "save") /\ client[c].after # "close"
    /\ LET s == client[c].st
       IN  /\ meta' = [size |-> state[s].size, generation |-> client[c].generation, deleted |-> FALSE]
           /\ state' = [state EXCEPT ![s] = Clean(@)]
           /\ IF client[c].after = "sync" THEN Move(c, "barrier") /\ UNCHANGED mu
              ELSE Back(c, s) /\ mu' = [mu EXCEPT ![s] = None]
    /\ UNCHANGED <<blocks, registry, regmu, ghost, bounds>>

\* the same at the end of Close, which releases the state
SaveClose(c) ==
    /\ At(c, "save") /\ client[c].after = "close" /\ regmu = None
    /\ LET s == client[c].st
       IN  /\ meta' = [size |-> state[s].size, generation |-> client[c].generation, deleted |-> FALSE]
           /\ Released(s, Clean(state[s]))
           /\ mu' = [mu EXCEPT ![s] = None]
           /\ client' = [client EXCEPT ![c] = Outside]
    /\ UNCHANGED <<blocks, regmu, ghost, bounds>>

\* Mutant of Barrier: the shard has nothing to write.
BarrierSkipped(c) ==
    /\ At(c, "barrier")
    /\ sure' = meta.generation
    /\ Settled
    /\ mu' = [mu EXCEPT ![client[c].st] = None]
    /\ Back(c, client[c].st)
    /\ UNCHANGED <<disk, kept, registry, state, regmu, truth, bounds>>

\* SyncKey, at the end of Sync even when nothing is dirty: what the store holds
\* is durable.  Close, Truncate, DeleteVFSFile and CreateVFSFile do not call it.
Barrier(c) ==
    /\ At(c, "barrier")
    /\ kept' = Store /\ sure' = meta.generation
    /\ Settled
    /\ mu' = [mu EXCEPT ![client[c].st] = None]
    /\ Back(c, client[c].st)
    /\ UNCHANGED <<disk, registry, state, regmu, truth, bounds>>

CloseDirty(c) ==
    /\ Free(c) /\ Valid(c) /\ mu[client[c].st] = None
    /\ LET s == client[c].st
       IN  /\ state[s].dirty # {} \/ state[s].metaDirty
           /\ mu' = [mu EXCEPT ![s] = c]
           /\ client' = [client EXCEPT ![c].pc = "flush", ![c].todo = state[s].dirty, ![c].after = "close"]
    /\ UNCHANGED <<disk, registry, state, regmu, ghost, bounds>>

\* a stale handle, or one with nothing to write
CloseClean(c) ==
    /\ At(c, "idle") /\ mu[client[c].st] = None /\ regmu = None
    /\ LET s == client[c].st
       IN  /\ Valid(c) => state[s].dirty = {} /\ ~state[s].metaDirty
           /\ Released(s, state[s])
           /\ client' = [client EXCEPT ![c] = Outside]
    /\ UNCHANGED <<disk, mu, regmu, ghost, bounds>>

\* Mutant of Cut: the last block keeps the cells past the new end.
CutBlocksOnly(st, g, size) ==
    [st EXCEPT !.dirty = {b \in @ : b * BlockSize < size}]

\* Truncate: the last block, if there is one (a block of zeros is never
\* stored), is cut in memory, the blocks above leave memory, then the store;
\* the size and the metadata come last
Cut(st, g, size) ==
    LET last == size \div BlockSize
        l    == IF size % BlockSize > 0 /\ \E x \in Of(last) : Page(st, g, x) # 0
                  THEN Loaded(st, g, {last}) ELSE st
    IN  [l EXCEPT !.dirty = {b \in @ : b * BlockSize < size}, !.cells = Wiped(@, size)]

Truncate(c, size) ==
    /\ Enter(c, "truncate") /\ MayWrite /\ writes + faults < MaxWrites
    /\ LET s  == client[c].st
           st == state[s]
           g  == client[c].generation
       IN  /\ state' = [state EXCEPT ![s] = IF size < st.size THEN Cut(st, g, size) ELSE st]
           /\ mu' = [mu EXCEPT ![s] = c]
           /\ client' = [client EXCEPT ![c].pc = "truncate", ![c].size = size,
                 ![c].todo = {b \in Blocks : b >= numBlocks(size) /\ b < numBlocks(st.size)}]
    /\ truth' = [size |-> size, cells |-> Wiped(truth.cells, size)]
    /\ Saw(truth'.cells, size)
    /\ writes' = writes + 1
    /\ UNCHANGED <<disk, registry, regmu, faults, crashes>>

\* the blocks that a call has to remove go in ascending order
NextBlock(c, b) ==
    /\ \A d \in client[c].todo : b <= d
    /\ client' = [client EXCEPT ![c].todo = @ \ {b}]
Erase(g, b) ==
    blocks' = [blocks EXCEPT ![g] = [x \in Cells |-> IF x \in Of(b) THEN 0 ELSE @[x]]]

TruncateBlock(c) ==
    /\ At(c, "truncate")
    /\ \E b \in client[c].todo : NextBlock(c, b) /\ Erase(client[c].generation, b)
    /\ UNCHANGED <<meta, memory, ghost, bounds>>

\* saveMetaLocked; a refusal leaves the new size in memory
TruncateMeta(c) ==
    /\ At(c, "truncate") /\ client[c].todo = {}
    /\ LET s == client[c].st
       IN  /\ state' = [state EXCEPT ![s].size = client[c].size, ![s].metaDirty = Newer(c)]
           /\ meta' = IF Newer(c) THEN meta
                      ELSE [size |-> client[c].size, generation |-> client[c].generation, deleted |-> FALSE]
           /\ mu' = [mu EXCEPT ![s] = None]
    /\ Back(c, client[c].st)
    /\ UNCHANGED <<blocks, registry, regmu, ghost, bounds>>

-----------------------------------------------------------------------------
(* DeleteVFSFile: under the mutex of the registered state, if there is     *)
(* one.  The blocks go before the metadata.                                *)

DeleteStart(c) ==
    /\ "delete" \in Calls /\ At(c, "none") /\ Alone(c, "delete") /\ regmu = None
    /\ meta.generation \in 1 .. (MaxGen - 1)
    /\ IF registry = None THEN UNCHANGED mu
       ELSE mu[registry] = None /\ mu' = [mu EXCEPT ![registry] = c]
    /\ client' = [client EXCEPT ![c] =
          [Outside EXCEPT !.pc = "purge", !.st = registry, !.generation = meta.generation,
                          !.todo = {b \in Blocks : b < numBlocks(meta.size)}]]
    /\ Saw(Zeros, 0)
    /\ UNCHANGED <<disk, registry, state, regmu, truth, bounds>>

PurgeBlock(c) ==
    /\ At(c, "purge")
    /\ \E b \in client[c].todo : NextBlock(c, b) /\ Erase(client[c].generation, b)
    /\ UNCHANGED <<meta, memory, ghost, bounds>>

Erased == truth' = [size |-> 0, cells |-> Zeros] /\ UNCHANGED may
Reborn(st, g) ==
    [st EXCEPT !.size = 0, !.generation = g, !.dirty = {}, !.cells = Zeros, !.metaDirty = FALSE]

\* Mutant of DeletedGeneration: the handles of the deleted file stay valid.
DeletedGenerationKept(g) == g
DeletedGeneration(g) == g + 1

Tombstone(c) ==
    /\ At(c, "purge") /\ client[c].todo = {}
    /\ LET s == client[c].st
           g == DeletedGeneration(client[c].generation)
       IN  /\ meta' = [size |-> 0, generation |-> g, deleted |-> TRUE]
           /\ state' = IF s = None THEN state ELSE [state EXCEPT ![s] = Reborn(@, g)]
           /\ mu' = IF s = None THEN mu ELSE [mu EXCEPT ![s] = None]
    /\ client' = [client EXCEPT ![c] = Outside]
    /\ Erased
    /\ UNCHANGED <<blocks, registry, regmu, bounds>>

-----------------------------------------------------------------------------
(* CreateVFSFile: under the registry's mutex; the state's own is only held *)
(* to read its generation and, at the end, to replace it.                  *)

CreateStart(c) ==
    /\ "create" \in Calls /\ At(c, "none") /\ Alone(c, "create") /\ regmu = None
    /\ \E s \in States :
          /\ Registered(s) /\ mu[s] = None
          /\ state' = [state EXCEPT ![s] = Joined(s)]
          /\ LET g == Max({meta.generation, Joined(s).generation}) + 1
             IN  /\ g <= MaxGen
                 /\ client' = [client EXCEPT ![c] =
                       [Outside EXCEPT !.pc = "creating", !.st = s, !.generation = g,
                                       !.seen = meta.generation,
                                       !.todo = {b \in Blocks : b < numBlocks(meta.size)}]]
    /\ regmu' = c
    /\ UNCHANGED <<disk, mu, ghost, bounds>>

CreatePut(c) ==
    /\ At(c, "creating")
    /\ meta' = [size |-> 0, generation |-> client[c].generation, deleted |-> FALSE]
    /\ Move(c, "createPurge")
    /\ Saw(Zeros, 0)
    /\ UNCHANGED <<blocks, memory, truth, bounds>>

CreatePurgeBlock(c) ==
    /\ At(c, "createPurge")
    /\ \E b \in client[c].todo : NextBlock(c, b) /\ Erase(client[c].seen, b)
    /\ UNCHANGED <<meta, memory, ghost, bounds>>

CreateDone(c) ==
    /\ At(c, "createPurge") /\ client[c].todo = {}
    /\ LET s == client[c].st
       IN  /\ mu[s] = None
           /\ state' = [state EXCEPT ![s] = Reborn(@, client[c].generation)]
    /\ regmu' = None
    /\ Back(c, client[c].st)
    /\ Erased
    /\ UNCHANGED <<disk, registry, mu, bounds>>

-----------------------------------------------------------------------------
(* Failures of the store, and a stop of the process.                       *)

Fail(c) == faults < MaxFaults /\ writes + faults < MaxWrites /\ Free(c) /\ faults' = faults + 1 /\ UNCHANGED <<disk, writes, crashes>>

\* Mutant of FlushFails: the dirty blocks are dropped.
FlushFailsForgetful(c) ==
    /\ client[c].pc \in {"flush", "save"} /\ Fail(c)
    /\ state' = [state EXCEPT ![client[c].st].dirty = {}, ![client[c].st].metaDirty = FALSE]
    /\ mu' = [mu EXCEPT ![client[c].st] = None]
    /\ Back(c, client[c].st)
    /\ UNCHANGED <<registry, regmu, ghost>>

\* the dirty blocks are kept for another attempt
FlushFails(c) ==
    /\ client[c].pc \in {"flush", "save", "barrier"} /\ Fail(c)
    /\ mu' = [mu EXCEPT ![client[c].st] = None]
    /\ Back(c, client[c].st)
    /\ UNCHANGED <<registry, state, regmu, ghost>>

\* the metadata of a truncation is not written: metaDirty stays
TruncateFails(c) ==
    /\ client[c].pc = "truncate" /\ client[c].todo = {} /\ Fail(c)
    /\ state' = [state EXCEPT ![client[c].st].size = client[c].size, ![client[c].st].metaDirty = TRUE]
    /\ mu' = [mu EXCEPT ![client[c].st] = None]
    /\ Back(c, client[c].st)
    /\ UNCHANGED <<registry, regmu, ghost>>

\* The store has cells past the end of the file, which its dirty block hides
\* until it is flushed or leaves memory.
Ghosts(st, g) == \E x \in Cells : x >= st.size /\ blocks[g][x] # 0

\* a block is not removed: the file keeps its size, and what is left of it
TruncateStops(c) ==
    /\ client[c].pc = "truncate" /\ client[c].todo # {} /\ Fail(c)
    /\ GhostFaults \/ ~Ghosts(state[client[c].st], client[c].generation)
    /\ mu' = [mu EXCEPT ![client[c].st] = None]
    /\ Back(c, client[c].st)
    /\ truth' = View(state[client[c].st], client[c].generation)
    /\ UNCHANGED <<registry, state, regmu, may>>

\* the new metadata is not written, and the old generation remains; or an old
\* block is not removed, and the handles on the state keep the old generation
CreateFails(c) ==
    /\ client[c].pc = "creating" \/ (PurgeFaults /\ client[c].pc = "createPurge" /\ client[c].todo # {})
    /\ Fail(c)
    /\ Released(client[c].st, state[client[c].st])
    /\ client' = [client EXCEPT ![c] = Outside]
    /\ regmu' = None
    /\ IF client[c].pc = "creating" THEN UNCHANGED ghost ELSE Erased
    /\ UNCHANGED mu

OpenFails(c) ==
    /\ client[c].pc \in {"fresh", "revive"} /\ Fail(c)
    /\ client' = [client EXCEPT ![c] = Outside]
    /\ UNCHANGED <<memory, ghost>>

\* what the store holds of the file
StoredSize == IF meta.deleted THEN 0 ELSE meta.size
Stored == IF meta.generation = 0 THEN Zeros ELSE Wiped(blocks[meta.generation], StoredSize)

\* a block, or the metadata, of a deletion fails: the file keeps its generation
\* and what is left of it
DeleteFails(c) ==
    /\ client[c].pc = "purge" /\ Fail(c)
    /\ LET s == client[c].st
       IN  /\ mu' = IF s = None THEN mu ELSE [mu EXCEPT ![s] = None]
           /\ truth' = IF s = None THEN [size |-> StoredSize, cells |-> Stored]
                       ELSE View(state[s], client[c].generation)
    /\ client' = [client EXCEPT ![c] = Outside]
    /\ UNCHANGED <<registry, state, regmu, may>>

\* The store makes its operations durable: the committer, another call's
\* barrier, the 32nd write, the page cache when only the process is killed.
\* After the last stop of an instance that no longer matters.
Persist ==
    /\ crashes < MaxCrashes /\ kept # Store
    /\ kept' = Store
    /\ UNCHANGED <<disk, sure, memory, client, ghost, bounds>>

Crash ==
    /\ crashes < MaxCrashes
    /\ crashes' = crashes + 1
    /\ meta' = kept.meta /\ blocks' = kept.blocks
    /\ registry' = None /\ state' = [s \in States |-> NewState]
    /\ mu' = [s \in States |-> None] /\ regmu' = None
    /\ client' = [c \in Clients |-> Outside]
    /\ truth' = [size |-> StoredSize', cells |-> Stored']
    /\ may' = [size |-> {StoredSize'}, cells |-> [x \in Cells |-> {Stored'[x]}]]
    /\ UNCHANGED <<durable, writes, faults>>

ClientNext(c) ==
    \/ OpenRead(c) \/ OpenPut(c) \/ OpenRegister(c)
    \/ \E a, b \in Cells : a <= b /\ <<a, b>> \in Spans /\ Write(c, a, b)
    \/ \E size \in Sizes : Truncate(c, size)
    \/ Sync(c) \/ (\E b \in Blocks : FlushBlock(c, b)) \/ SaveCheck(c) \/ SavePut(c)
    \/ TruncateBlock(c) \/ TruncateMeta(c)
    \/ CloseDirty(c) \/ SaveClose(c) \/ CloseClean(c)
    \/ DeleteStart(c) \/ PurgeBlock(c) \/ Tombstone(c)
    \/ CreateStart(c) \/ CreatePut(c) \/ CreatePurgeBlock(c) \/ CreateDone(c)
    \/ FlushFails(c) \/ TruncateFails(c) \/ TruncateStops(c)
    \/ DeleteFails(c) \/ CreateFails(c) \/ OpenFails(c)

Next ==
    \/ Persist \/ Crash
    \/ \E c \in Clients : Barrier(c) \/ (ClientNext(c) /\ UNCHANGED durable)

Spec == Init /\ [][Next]_vars

-----------------------------------------------------------------------------
Metas == [size : Sizes, generation : 0 .. MaxGen, deleted : BOOLEAN]

TypeOK ==
    /\ meta \in Metas
    /\ registry \in States \cup {None}
    /\ \A s \in States :
          /\ state[s].generation \in 0 .. MaxGen /\ state[s].size \in Sizes
          /\ state[s].dirty \subseteq Blocks /\ state[s].metaDirty \in BOOLEAN
          /\ mu[s] \in Clients \cup {None}
    \* the registry holds the state of every handle, and counts them
    /\ \A c \in Clients : client[c].pc \in {"idle", "flush", "save", "barrier", "truncate"} => client[c].st = registry
    /\ registry # None =>
          state[registry].refCount =
              Cardinality({c \in Clients : client[c].pc \notin {"none", "fresh", "revive", "found", "purge"}})

\* Every handle that is not stale reads the file as the calls of all handles
\* left it: nothing written is hidden by the sparse blocks, by the page cache
\* or by a failed flush, and no cell comes back after a truncation.
ViewExact ==
    \A c \in Clients : Free(c) /\ Valid(c) /\ mu[client[c].st] = None =>
        View(state[client[c].st], client[c].generation) = truth

\* Once nothing is dirty (after Sync, Truncate or the last Close) the store
\* alone holds the file, as long as the process runs.
StoreExact ==
    /\ \A c \in Clients : client[c].pc \in {"none", "idle"}
    /\ registry # None => state[registry].dirty = {} /\ ~state[registry].metaDirty
    => StoredSize = truth.size /\ Stored = truth.cells

\* Whenever the process stops, the file comes back with a size and cells that
\* it had since the last Sync that returned.  (A flush, and a Close, are only
\* acknowledged: the stop may lose them.)
StopPlausible ==
    [][ crashes' # crashes /\ meta'.generation # 0 =>
          /\ StoredSize' \in may.size
          /\ \A x \in Cells : x < StoredSize' => Stored'[x] \in may.cells[x] ]_vars

\* The metadata never go back to an earlier generation, nor does a deleted
\* generation come back: a stale handle leaves without writing over its
\* successor's metadata.  A stop brings an earlier generation back, but none
\* from before the last Sync that returned.
GenerationMonotone ==
    [][ /\ crashes' = crashes =>
              /\ meta'.generation >= meta.generation
              /\ meta.deleted /\ meta'.generation = meta.generation => meta'.deleted
        /\ meta'.generation >= sure ]_vars
=============================================================================
