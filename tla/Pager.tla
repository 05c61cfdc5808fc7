-------------------------------- MODULE Pager --------------------------------
(***************************************************************************)
(* The page cache of a shard and its two files (pkg/c2db/pager.go,         *)
(* pager_seal.go, device.go), with the calls the shard makes of it:        *)
(* preparePublish, the transfer of the dirty pages in publish(), the end   *)
(* of a batch or of a transaction, the checkpoint, and the reload of the   *)
(* heap when the shard opens (pkg/c2db/engine.go).                         *)
(*                                                                         *)
(* A page content is the number of the publication that wrote it (0: never *)
(* written), and a tag is the content it seals (0: the null tag), because  *)
(* DerivePageSealKey binds the tag to the content.  Pages go to data.img   *)
(* and tags, a block of them at a time, to tags.img; each write stays in   *)
(* doubt until the fdatasync of its own file.                              *)
(***************************************************************************)
EXTENDS Integers, FiniteSets

CONSTANTS
    Pages,       \* heap pages
    Root,        \* page 0
    Blocks,      \* blocks of tags.img
    BlockOf,     \* the block that holds a page's tag
    NoBlock,
    NSlots,      \* PagerSlots
    MaxVer,      \* bound: publications
    Kinds,       \* the writes the workload makes: "put", "batch", "tx"
    CrashAt,     \* the positions of the writer where a crash may hit
    PowerLoss    \* TRUE: unsynced writes may be lost; FALSE: the process dies alone

ASSUME PagerAssumption ==
    /\ Root \in Pages /\ IsFiniteSet(Pages)
    /\ BlockOf \in [Pages -> Blocks] /\ NoBlock \notin Blocks
    /\ NSlots \in Nat \ {0} /\ MaxVer \in Nat \ {0}
    /\ Kinds \subseteq {"put", "batch", "tx"}
    /\ PowerLoss \in BOOLEAN

VARIABLES
    ver,                \* number of publications
    mem,                \* the published heap (Shard.pub), page by page
    snaps,              \* history: the image of each publication
    cache, nslots,      \* the valid slots: page -> [ver, dirty], and len(p.slots)
    data, dataAlt,      \* data.img as read back, and what a power loss can leave
    tags, tagsAlt,      \* tags.img likewise, by block
    tblk,               \* tagBlk, tagBlkLBA, tagBlkDirty
    ckpt,               \* the publication the durable WAL checkpoint stands for
    pc, kind, todo,     \* the writer: position, write in course, pages left
    wrote, after        \* FlushDirty: n > 0, and where it returns

vars == <<ver, mem, snaps, cache, nslots, data, dataAlt, tags, tagsAlt, tblk,
          ckpt, pc, kind, todo, wrote, after>>
diskVars == <<data, dataAlt, tags, tagsAlt, tblk>>
heapVars == <<ver, mem, snaps, ckpt>>

Vers == 0 .. MaxVer
Dirty == {p \in DOMAIN cache : cache[p].dirty}

\* The types; the cache never holds more pages than it has slots.
TypeOK ==
    /\ ver \in Vers /\ ckpt \in Vers
    /\ mem \in [Pages -> Vers] /\ snaps \in [Vers -> [Pages -> Vers]]
    /\ DOMAIN cache \subseteq Pages
    /\ \A p \in DOMAIN cache : cache[p] \in [ver : Vers, dirty : BOOLEAN]
    /\ nslots \in Nat /\ Cardinality(DOMAIN cache) <= nslots
    /\ data \in [Pages -> Vers] /\ \A p \in Pages : dataAlt[p] \subseteq Vers
    /\ tags \in [Pages -> Vers]
    /\ tblk.blk \in Blocks \cup {NoBlock} /\ tblk.dirty \in BOOLEAN
    /\ pc \in {"idle", "put", "flush", "barrier", "tags", "tagsync", "down", "opened"}
    /\ kind \in {"none", "put", "batch", "tx", "init", "replay"}
    /\ todo \subseteq Pages /\ wrote \in BOOLEAN
    /\ after \in {"idle", "put", "checkpoint", "nobarrier"}

-----------------------------------------------------------------------------
(* A new shard: openShardInternal has initialised page 0 and flushed it.   *)
Init ==
    /\ ver = 1 /\ ckpt = 1
    /\ mem = [p \in Pages |-> IF p = Root THEN 1 ELSE 0]
    /\ snaps = [v \in Vers |-> IF v = 0 THEN [p \in Pages |-> 0] ELSE mem]
    /\ cache = [p \in {Root} |-> [ver |-> 1, dirty |-> FALSE]] /\ nslots = NSlots
    /\ data = mem /\ dataAlt = [p \in Pages |-> {mem[p]}]
    /\ tags = mem /\ tagsAlt = [b \in Blocks |-> {mem}]
    /\ tblk = [blk |-> BlockOf[Root], dirty |-> FALSE, tag |-> mem]
    /\ pc = "idle" /\ kind = "none" /\ todo = {} /\ wrote = FALSE /\ after = "idle"

-----------------------------------------------------------------------------
(* FlushDirty and FlushDirtyNoBarrier                                      *)

\* The loop over the slots begins; it comes back to "then".
StartFlush(then) == pc' = "flush" /\ after' = then /\ wrote' = FALSE

\* flushTagBlk: the cached block goes to tags.img, in doubt until tags.Flush.
TagBlkOut(t) ==
    IF t.dirty
    THEN /\ tags' = [p \in Pages |-> IF BlockOf[p] = t.blk THEN t.tag[p] ELSE tags[p]]
         /\ tagsAlt' = [tagsAlt EXCEPT ![t.blk] = @ \cup {t.tag}]
    ELSE UNCHANGED <<tags, tagsAlt>>

\* One slot: dev.Write, then sealPage -> writeTag -> loadTagBlk, which writes the
\* block of the previous tags out when the page's tag lives in another block.
FlushPage(p) ==
    /\ pc = "flush" /\ p \in Dirty
    /\ data' = [data EXCEPT ![p] = cache[p].ver]
    /\ dataAlt' = [dataAlt EXCEPT ![p] = @ \cup {cache[p].ver}]
    /\ IF BlockOf[p] = tblk.blk
       THEN /\ tblk' = [tblk EXCEPT !.dirty = TRUE, !.tag[p] = cache[p].ver]
            /\ UNCHANGED <<tags, tagsAlt>>
       ELSE /\ TagBlkOut(tblk)
            /\ tblk' = [blk |-> BlockOf[p], dirty |-> TRUE,
                        tag |-> [tags EXCEPT ![p] = cache[p].ver]]
    /\ cache' = [cache EXCEPT ![p].dirty = FALSE]
    /\ wrote' = TRUE
    /\ UNCHANGED <<heapVars, nslots, pc, kind, todo, after>>

\* Mutant of FlushLoopDone: the tags go out without the barrier on the data.
FlushLoopNoBarrier ==
    /\ pc = "flush" /\ Dirty = {}
    /\ IF wrote THEN pc' = "tags" ELSE pc' = "tagsync"
    /\ UNCHANGED <<heapVars, cache, nslots, diskVars, kind, todo, wrote, after>>

\* End of the loop.  if n > 0: FlushDirty goes on with dev.Flush,
\* FlushDirtyNoBarrier with flushTagBlk alone; if n == 0 there is no barrier.
FlushLoopDone ==
    /\ pc = "flush" /\ Dirty = {}
    /\ pc' = CASE ~wrote -> "tagsync"
               [] wrote /\ after = "nobarrier" -> "tags"
               [] OTHER -> "barrier"
    /\ UNCHANGED <<heapVars, cache, nslots, diskVars, kind, todo, wrote, after>>

\* dev.Flush(): fdatasync of data.img
DataBarrier ==
    /\ pc = "barrier"
    /\ dataAlt' = [p \in Pages |-> {data[p]}]
    /\ pc' = "tags"
    /\ UNCHANGED <<heapVars, cache, nslots, data, tags, tagsAlt, tblk, kind, todo, wrote, after>>

\* flushTagBlk
WriteTags ==
    /\ pc = "tags"
    /\ TagBlkOut(tblk)
    /\ tblk' = [tblk EXCEPT !.dirty = FALSE]
    /\ pc' = "tagsync"
    /\ UNCHANGED <<heapVars, cache, nslots, data, dataAlt, kind, todo, wrote, after>>

\* tags.Flush() under FlushDirty with n > 0, and the return to the caller.
\* checkpointLocked then posts the WAL checkpoint (Wal.Checkpoint, durable at once).
FlushReturn ==
    /\ pc = "tagsync"
    /\ tagsAlt' = IF wrote /\ after # "nobarrier" THEN [b \in Blocks |-> {tags}] ELSE tagsAlt
    /\ ckpt' = IF after = "checkpoint" THEN ver ELSE ckpt
    /\ pc' = IF after = "put" THEN "put" ELSE "idle"
    /\ kind' = IF after = "put" THEN kind ELSE "none"
    /\ after' = "idle" /\ wrote' = FALSE
    /\ UNCHANGED <<ver, mem, snaps, cache, nslots, data, dataAlt, tags, tblk, todo>>

-----------------------------------------------------------------------------
(* Writes                                                                  *)

\* dirtyPagesCount() + 1, with dirtyPagesCount itself one more than the set: putBody
\* and putBatchLocked call preparePublish before they have dirtied anything,
\* Tx.Commit once everything is.
Needed(k, S) == IF k = "tx" THEN Cardinality(S) + 2 ELSE 2

\* preparePublish: Reserve, and FlushDirty when the clean slots are too few; then
\* the write is applied, and publish() has the pages of S to hand over.
Publish(k, S) ==
    /\ pc = "idle" /\ k \in Kinds /\ ver < MaxVer /\ mem[Root] # 0
    /\ ver' = ver + 1
    /\ mem' = [p \in Pages |-> IF p \in S THEN ver + 1 ELSE mem[p]]
    /\ snaps' = [snaps EXCEPT ![ver + 1] = mem']
    /\ kind' = k /\ todo' = S
    /\ nslots' = IF Needed(k, S) > nslots THEN Needed(k, S) ELSE nslots
    /\ IF Needed(k, S) > nslots' - Cardinality(Dirty)
       THEN StartFlush("put")
       ELSE pc' = "put" /\ UNCHANGED <<after, wrote>>
    /\ UNCHANGED <<cache, diskVars, ckpt>>

Free == Cardinality(DOMAIN cache) < nslots
CanAlloc(p) == p \in DOMAIN cache \/ Free \/ Dirty # DOMAIN cache

\* PutPage: alloc takes the page's own slot, a free one, or evicts a clean one
\* (whichever the clock hand meets first).
Holding(c, p) ==
    [q \in (DOMAIN c) \cup {p} |-> IF q = p THEN [ver |-> mem[p], dirty |-> TRUE] ELSE c[q]]
Without(q) == [r \in (DOMAIN cache) \ {q} |-> cache[r]]

PutPage(p) ==
    /\ pc = "put" /\ p \in todo
    /\ \/ /\ p \in DOMAIN cache \/ Free
          /\ cache' = Holding(cache, p)
       \/ /\ p \notin DOMAIN cache /\ ~Free
          /\ \E q \in (DOMAIN cache) \ Dirty : cache' = Holding(Without(q), p)
    /\ todo' = todo \ {p}
    /\ UNCHANGED <<heapVars, nslots, diskVars, pc, kind, wrote, after>>

\* alloc with every slot dirty: a complete FlushDirty in the middle of publish().
AllocFlush ==
    /\ pc = "put" /\ \E p \in todo : ~CanAlloc(p)
    /\ StartFlush("put")
    /\ UNCHANGED <<heapVars, cache, nslots, diskVars, kind, todo>>

\* publish() is over: a Put returns; a batch and a transaction (leaveGroup) call
\* FlushDirtyNoBarrier; the opening of the shard calls FlushDirty for a new page 0
\* and checkpointLocked for a replayed heap.
PutDone ==
    /\ pc = "put" /\ todo = {}
    /\ CASE kind = "put" -> pc' = "idle" /\ kind' = "none" /\ UNCHANGED <<after, wrote>>
         [] kind = "init" -> StartFlush("idle") /\ UNCHANGED kind
         [] kind = "replay" -> StartFlush("checkpoint") /\ UNCHANGED kind
         [] OTHER -> StartFlush("nobarrier") /\ UNCHANGED kind
    /\ UNCHANGED <<heapVars, cache, nslots, diskVars, todo>>

\* checkpointLocked: FlushDirty, then the checkpoint record.
Checkpoint ==
    /\ pc = "idle" /\ ckpt # ver
    /\ StartFlush("checkpoint")
    /\ UNCHANGED <<heapVars, cache, nslots, diskVars, kind, todo>>

-----------------------------------------------------------------------------
(* Crash and reopening                                                     *)

Crash ==
    /\ pc \in CrashAt
    /\ IF PowerLoss
       THEN /\ \E d \in [Pages -> UNION {dataAlt[p] : p \in Pages}] :
                  /\ \A p \in Pages : d[p] \in dataAlt[p]
                  /\ data' = d
            /\ \E t \in [Blocks -> UNION {tagsAlt[b] : b \in Blocks}] :
                  /\ \A b \in Blocks : t[b] \in tagsAlt[b]
                  /\ tags' = [p \in Pages |-> t[BlockOf[p]][p]]
       ELSE UNCHANGED <<data, tags>>
    /\ dataAlt' = [p \in Pages |-> {data'[p]}]
    /\ tagsAlt' = [b \in Blocks |-> {tags'}]
    /\ tblk' = [blk |-> NoBlock, dirty |-> FALSE, tag |-> tags']
    /\ cache' = << >> /\ nslots' = NSlots
    /\ pc' = "down" /\ kind' = "none" /\ todo' = {} /\ wrote' = FALSE /\ after' = "idle"
    /\ UNCHANGED heapVars

\* verifyPage: the null tag is only accepted on a page never written, and never
\* on page 0.
Verifies(p) == IF tags[p] = 0 THEN p # Root /\ data[p] = 0 ELSE tags[p] = data[p]

\* GetPage over the pages in use leaves the slots full of the pages that verified,
\* whichever the clock hand spared, less the slot a failing page may have taken last.
Loaded(ok, failed) ==
    {C \in SUBSET ok :
        \/ Cardinality(C) = nslots
        \/ C = ok /\ Cardinality(C) < nslots
        \/ failed # {} /\ Cardinality(C) = nslots - 1}

\* loadHeap (not strict): a page that fails its seal is left out and stays null; the
\* number of pages in use is read from page 0, and is 1 when page 0 is left out.
Open ==
    /\ pc = "down"
    /\ LET used == IF Verifies(Root) THEN Pages ELSE {Root}
           ok == {p \in used : Verifies(p)}
       IN /\ mem' = [p \in Pages |-> IF p \in ok THEN data[p] ELSE 0]
          /\ \E C \in Loaded(ok, used \ ok) :
                cache' = [p \in C |-> [ver |-> data[p], dirty |-> FALSE]]
          /\ \E p \in used : tblk' = [tblk EXCEPT !.blk = BlockOf[p]]
    /\ pc' = "opened"
    /\ UNCHANGED <<ver, snaps, ckpt, nslots, data, dataAlt, tags, tagsAlt, kind, todo, wrote, after>>

\* The rest of openShardInternal.  A null page 0 is initialised and flushed; the
\* pages that replay() rewrote are published (no preparePublish here) and
\* checkpointed before the shard is handed out; an empty journal tail does neither.
Resume(S) ==
    /\ pc = "opened" /\ ver < MaxVer
    /\ LET W == S \cup {p \in {Root} : mem[Root] = 0 \/ S # {}}
       IN /\ ver' = ver + 1
          /\ mem' = [p \in Pages |-> IF p \in W THEN ver + 1 ELSE mem[p]]
          /\ snaps' = [snaps EXCEPT ![ver + 1] = mem']
          /\ todo' = W
          /\ pc' = IF W = {} THEN "idle" ELSE "put"
          /\ kind' = CASE W = {} -> "none"
                      [] W # {} /\ S = {} -> "init"
                      [] OTHER -> "replay"
    /\ UNCHANGED <<ckpt, cache, nslots, diskVars, wrote, after>>

\* The bound on publications is reached.
Stop == ver = MaxVer /\ pc \in {"idle", "opened"} /\ UNCHANGED vars

Next ==
    \/ \E p \in Pages : FlushPage(p)
    \/ FlushLoopDone
    \/ DataBarrier
    \/ WriteTags
    \/ FlushReturn
    \/ \E k \in Kinds, S \in SUBSET Pages : Root \in S /\ Publish(k, S)
    \/ \E p \in Pages : PutPage(p)
    \/ AllocFlush
    \/ PutDone
    \/ Checkpoint
    \/ Crash
    \/ Open
    \/ \E S \in SUBSET Pages : Resume(S)
    \/ Stop

Spec == Init /\ [][Next]_vars

-----------------------------------------------------------------------------
(* Properties                                                              *)

\* The cache and the files never lose a page: between two operations what the pager
\* would return for a page is what publish() last put there, whatever was evicted
\* and flushed in between, and a clean slot agrees with the device.
ReadYourWrites ==
    pc = "idle" => \A p \in Pages :
        /\ (IF p \in DOMAIN cache THEN cache[p].ver ELSE data[p]) = mem[p]
        /\ p \in DOMAIN cache /\ ~cache[p].dirty => cache[p].ver = data[p]

\* The reservation of preparePublish covers the publication: no PutPage of a prepared
\* publish() finds every slot dirty and has to flush in the middle of a tree update.
PublishFits == pc = "put" /\ kind \in Kinds => \A p \in todo : CanAlloc(p)

\* What a reopened shard loads from data.img is the image of one publication, whole,
\* and not older than the last WAL checkpoint: the redo of the journal's tail, which
\* starts at that checkpoint, has a consistent tree with everything before it.
RecoveredSnapshot == pc = "opened" => \E v \in ckpt .. ver : mem = snaps[v]

=============================================================================
