----------------------------- MODULE PagerProofs -----------------------------
(***************************************************************************)
(* The page cache of a shard and its two files, for any set of pages, any  *)
(* number of slots and any blocks of tags.                                 *)
(***************************************************************************)
EXTENDS Pager, FiniteSetTheorems, TLAPS

-----------------------------------------------------------------------------
(* The instances.                                                          *)

\* Every page has a slot: nothing is evicted while a publication is handed over.
Large == NSlots >= Cardinality(Pages)

\* The stops that a reopening recovers from: between two calls, while the shard opens,
\* or, with a slot for every page, inside a publication.  A loss of power finds no batch
\* and no transaction, which return before the barrier; with fewer slots than pages only
\* batches and transactions leave the files whole between two calls.
Recoverable ==
    \/ /\ Large /\ CrashAt \subseteq {"idle", "put", "opened", "down"}
       /\ PowerLoss => Kinds \subseteq {"put"}
    \/ ~PowerLoss /\ "put" \notin Kinds /\ CrashAt \subseteq {"idle", "opened", "down"}

-----------------------------------------------------------------------------
(* The invariant.                                                          *)

Images   == [Pages -> Vers]
Slots    == [ver : Vers, dirty : BOOLEAN]
Flushing == {"flush", "barrier", "tags", "tagsync"}
TagBlks  == [blk : Blocks \cup {NoBlock}, dirty : BOOLEAN, tag : Images]

Types ==
    /\ ver \in Vers /\ ckpt \in Vers /\ mem \in Images /\ snaps \in [Vers -> Images]
    /\ DOMAIN cache \subseteq Pages /\ cache \in [DOMAIN cache -> Slots]
    /\ nslots \in Nat /\ nslots >= NSlots /\ Cardinality(DOMAIN cache) <= nslots
    /\ data \in Images /\ dataAlt \in [Pages -> SUBSET Vers]
    /\ tags \in Images /\ tagsAlt \in [Blocks -> SUBSET Images] /\ tblk \in TagBlks
    /\ pc \in Flushing \cup {"idle", "put", "down", "opened"}
    /\ kind \in Kinds \cup {"none", "init", "replay"}
    /\ todo \subseteq Pages /\ wrote \in BOOLEAN
    /\ after \in {"idle", "put", "checkpoint", "nobarrier"}

\* Where the writer is.
Positions ==
    /\ wrote => pc \in Flushing
    /\ pc \in {"barrier", "tags"} => wrote
    /\ pc \in Flushing \ {"flush"} => Dirty = {}
    /\ tblk.dirty => wrote /\ pc # "tagsync"
    /\ todo # {} => pc = "put" \/ (pc \in Flushing /\ after = "put")
    /\ after = "nobarrier" => kind \in {"batch", "tx"}
    /\ after # "idle" => pc \in Flushing
    /\ pc = "put" \/ after = "put" => kind # "none"

\* What GetPage would return.
View(p) == IF p \in DOMAIN cache THEN cache[p].ver ELSE data[p]

\* The publication is in the cache or in data.img, but for the pages still to hand over;
\* a clean slot agrees with data.img.
Handed == /\ pc # "down" => \A p \in Pages \ todo : View(p) = mem[p]
          /\ \A p \in DOMAIN cache : ~cache[p].dirty => cache[p].ver = data[p]

\* Every page of data.img is sealed, in tags.img or in the block of tags in memory.
Sealed ==
    /\ \A p \in Pages : BlockOf[p] = tblk.blk \/ pc = "down" => tblk.tag[p] = data[p]
    /\ \A p \in Pages : BlockOf[p] # tblk.blk \/ ~tblk.dirty => tags[p] = data[p]

\* What a loss of power may leave is what the files hold, outside a flush that writes.
DataSafe == \A p \in Pages : dataAlt[p] = {data[p]}
TagsSafe == \A b \in Blocks : \A t \in tagsAlt[b] : \A p \in Pages : BlockOf[p] = b => t[p] = tags[p]
Durable ==
    PowerLoss => /\ ~wrote \/ pc \in {"tags", "tagsync"} => DataSafe
                 /\ ~wrote => TagsSafe

\* The history: the heap is the last publication, and page 0 is never null.
History ==
    /\ 1 <= ckpt /\ ckpt <= ver
    /\ pc \notin {"down", "opened"} => snaps[ver] = mem
    /\ \A v \in 1 .. ver : snaps[v][Root] # 0
    /\ pc = "opened" => mem = data

\* A flush that makes room for a publication writes the publication before it.
Prepared ==
    Large /\ pc \in Flushing /\ after = "put" => ckpt < ver /\ \A p \in Pages : View(p) = snaps[ver - 1][p]

\* data.img is the image of one publication, not older than the checkpoint.
Based ==
    pc \in {"idle", "opened", "down"} \/ (Large /\ (pc = "put" \/ (pc \in Flushing /\ ~wrote)))
        => \E v \in ckpt .. ver : data = snaps[v]

FilesInv == Types /\ Positions /\ Handed /\ Sealed /\ Durable /\ History /\ Prepared /\ Based

\* The slots that a transaction has reserved.
Room == kind = "tx" => /\ Cardinality(todo) <= nslots
                       /\ pc = "put" => Cardinality(Dirty) + Cardinality(todo) <= nslots
Fits == Types /\ Positions /\ Room

-----------------------------------------------------------------------------
(* Types and positions.                                                    *)

\* A set of pages is finite, and a subset of it no larger.
LEMMA PageSets ==
    ASSUME NEW S \in SUBSET Pages, NEW T \in SUBSET S
    PROVE  /\ IsFiniteSet(S) /\ Cardinality(S) \in Nat
           /\ IsFiniteSet(T) /\ Cardinality(T) \in Nat
           /\ Cardinality(T) <= Cardinality(S)
           /\ Cardinality(T) = Cardinality(S) => T = S
<1>1. IsFiniteSet(S)
  BY FS_Subset, PagerAssumption
<1>2. IsFiniteSet(T) /\ Cardinality(T) <= Cardinality(S) /\ (Cardinality(T) = Cardinality(S) => T = S)
  BY <1>1, FS_Subset
<1> QED BY <1>1, <1>2, FS_CardinalityType

\* What a step of each action leaves of a set it adds a page to or takes one from.
LEMMA OnePage ==
    ASSUME NEW S \in SUBSET Pages, NEW p \in Pages
    PROVE  /\ Cardinality(S \cup {p}) = IF p \in S THEN Cardinality(S) ELSE Cardinality(S) + 1
           /\ Cardinality(S \ {p}) = IF p \in S THEN Cardinality(S) - 1 ELSE Cardinality(S)
<1>1. IsFiniteSet(S)
  BY PageSets
<1> QED BY <1>1, FS_AddElement, FS_RemoveElement

\* PutPage: the cache keeps within its slots, and the page is in it, dirty.
LEMMA PutCache ==
    ASSUME Types, NEW p \in Pages, PutPage(p)
    PROVE  /\ p \in DOMAIN cache' /\ cache'[p] = [ver |-> mem[p], dirty |-> TRUE]
           /\ DOMAIN cache' \subseteq DOMAIN cache \cup {p}
           /\ \A q \in DOMAIN cache' \ {p} : cache'[q] = cache[q]
           /\ \A q \in DOMAIN cache \ DOMAIN cache' : ~cache[q].dirty
           /\ cache' \in [DOMAIN cache' -> Slots]
           /\ Cardinality(DOMAIN cache') <= nslots
<1> mem[p] \in Vers /\ nslots \in Nat /\ nslots \in Int /\ Cardinality(DOMAIN cache) <= nslots
  BY DEF Types, Images
<1>0. DOMAIN cache \in SUBSET Pages /\ Cardinality(DOMAIN cache) \in Nat
  BY PageSets DEF Types
<1>1. CASE (p \in DOMAIN cache \/ Free) /\ cache' = Holding(cache, p)
  <2>1. DOMAIN cache' = DOMAIN cache \cup {p}
    BY <1>1 DEF Holding
  <2>2. \A q \in DOMAIN cache' : cache'[q] = IF q = p THEN [ver |-> mem[p], dirty |-> TRUE] ELSE cache[q]
    BY <1>1 DEF Holding
  <2>3. Cardinality(DOMAIN cache') <= nslots
    BY <1>0, <1>1, <2>1, OnePage DEF Free
  <2>4. cache' \in [DOMAIN cache' -> Slots]
    BY <1>1, <2>1 DEF Holding, Slots, Types
  <2> QED BY <2>1, <2>2, <2>3, <2>4
<1>2. ASSUME p \notin DOMAIN cache, NEW q \in (DOMAIN cache) \ Dirty, cache' = Holding(Without(q), p)
      PROVE  /\ DOMAIN cache' = (DOMAIN cache \ {q}) \cup {p}
             /\ cache' = [r \in (DOMAIN cache \ {q}) \cup {p} |->
                              IF r = p THEN [ver |-> mem[p], dirty |-> TRUE] ELSE cache[r]]
             /\ ~cache[q].dirty
  <2>1. DOMAIN Without(q) = DOMAIN cache \ {q} /\ \A r \in DOMAIN cache \ {q} : Without(q)[r] = cache[r]
    BY DEF Without
  <2> QED BY <1>2, <2>1 DEF Holding, Dirty
<1>3. ASSUME p \notin DOMAIN cache, NEW q \in (DOMAIN cache) \ Dirty, cache' = Holding(Without(q), p)
      PROVE  Cardinality(DOMAIN cache') <= nslots
  <2>1. Cardinality(DOMAIN cache \ {q}) = Cardinality(DOMAIN cache) - 1
    BY <1>0, <1>3, OnePage
  <2>2. Cardinality((DOMAIN cache \ {q}) \cup {p}) = Cardinality(DOMAIN cache \ {q}) + 1
    BY <1>0, <1>3, OnePage, DOMAIN cache \ {q} \in SUBSET Pages
  <2>3. DOMAIN cache' = (DOMAIN cache \ {q}) \cup {p}
    BY <1>2, <1>3
  <2>4. Cardinality(DOMAIN cache') = Cardinality(DOMAIN cache)
    BY <1>0, <2>1, <2>2, <2>3
  <2> QED BY <2>4
<1>4. CASE p \notin DOMAIN cache /\ \E q \in (DOMAIN cache) \ Dirty : cache' = Holding(Without(q), p)
  <2>1. PICK q \in (DOMAIN cache) \ Dirty : cache' = Holding(Without(q), p)
    BY <1>4
  <2>2. DOMAIN cache' = (DOMAIN cache \ {q}) \cup {p} /\ ~cache[q].dirty
    BY <1>2, <1>4, <2>1
  <2>3. cache' = [r \in (DOMAIN cache \ {q}) \cup {p} |->
                      IF r = p THEN [ver |-> mem[p], dirty |-> TRUE] ELSE cache[r]]
    BY <1>2, <1>4, <2>1
  <2>4. cache' \in [DOMAIN cache' -> Slots]
    BY <2>2, <2>3 DEF Slots, Types
  <2> QED BY <1>3, <1>4, <2>1, <2>2, <2>3, <2>4
<1> QED BY <1>1, <1>4 DEF PutPage

BaseInv == Types /\ Positions

LEMMA BaseInit == Init => BaseInv
<1> SUFFICES ASSUME Init PROVE BaseInv
  OBVIOUS
<1> USE PagerAssumption DEF Init
<1>1. DOMAIN cache = {Root} /\ cache \in [DOMAIN cache -> Slots] /\ Cardinality(DOMAIN cache) = 1
  <2>1. cache \in [{Root} -> Slots]
    BY DEF Slots, Vers
  <2> QED BY <2>1, FS_Singleton
<1>2. mem \in Images /\ snaps \in [Vers -> Images]
  BY DEF Images, Vers
<1>3. tags \in Images /\ tagsAlt \in [Blocks -> SUBSET Images] /\ tblk \in TagBlks
  BY <1>2 DEF TagBlks
<1>4. data \in Images /\ dataAlt \in [Pages -> SUBSET Vers]
  BY <1>2 DEF Images
<1>5. /\ ver \in Vers /\ ckpt \in Vers /\ nslots \in Nat /\ nslots >= NSlots /\ nslots >= 1
  BY DEF Vers
<1>8. /\ pc \in Flushing \cup {"idle", "put", "down", "opened"}
      /\ kind \in Kinds \cup {"none", "init", "replay"}
      /\ todo \subseteq Pages /\ wrote \in BOOLEAN
      /\ after \in {"idle", "put", "checkpoint", "nobarrier"}
  OBVIOUS
<1>7. Types
  BY <1>1, <1>2, <1>3, <1>4, <1>5, <1>8 DEF Types
<1>6. Positions
  BY DEF Positions, Flushing
<1> QED BY <1>6, <1>7 DEF BaseInv

\* The constants of the types, in the form the provers need.
LEMMA Bounds ==
    /\ MaxVer \in Nat /\ MaxVer >= 1 /\ NSlots \in Nat /\ NSlots >= 1
    /\ Root \in Pages /\ IsFiniteSet(Pages)
    /\ \A v \in Vers : v \in Nat /\ (v < MaxVer => v + 1 \in Vers)
BY PagerAssumption DEF Vers

\* A block of tags goes out to tags.img.
LEMMA TagsOut ==
    ASSUME tags \in Images, tagsAlt \in [Blocks -> SUBSET Images], tblk \in TagBlks, TagBlkOut(tblk)
    PROVE  /\ tags' \in Images /\ tagsAlt' \in [Blocks -> SUBSET Images]
           /\ \A p \in Pages : tags'[p] = IF tblk.dirty /\ BlockOf[p] = tblk.blk THEN tblk.tag[p] ELSE tags[p]
BY DEF TagBlkOut, TagBlks, Images

LEMMA TypesNext == BaseInv /\ [Next]_vars => Types'
<1> SUFFICES ASSUME BaseInv, [Next]_vars PROVE Types'
  OBVIOUS
<1> USE DEF heapVars, diskVars
<1>0. Types /\ DOMAIN cache \in SUBSET Pages
  BY DEF BaseInv, Types
<1>1. ASSUME NEW p \in Pages, FlushPage(p) PROVE Types'
  <2>1. p \in DOMAIN cache /\ cache[p].ver \in Vers
    BY <1>0, <1>1 DEF FlushPage, Dirty, Types, Slots
  <2>2. DOMAIN cache' = DOMAIN cache /\ cache' \in [DOMAIN cache' -> Slots]
    BY <1>0, <1>1, <2>1 DEF FlushPage, Types, Slots
  <2>3. data' \in Images /\ dataAlt' \in [Pages -> SUBSET Vers]
    BY <1>0, <1>1, <2>1 DEF FlushPage, Types, Images
  <2>4. tags' \in Images /\ tagsAlt' \in [Blocks -> SUBSET Images] /\ tblk' \in TagBlks
    <3>1. CASE BlockOf[p] = tblk.blk
      <4>1. tblk' = [tblk EXCEPT !.dirty = TRUE, !.tag = [tblk.tag EXCEPT ![p] = cache[p].ver]]
            /\ UNCHANGED <<tags, tagsAlt>>
        BY <1>0, <1>1, <3>1 DEF FlushPage, Types, TagBlks
      <4>2. [tblk.tag EXCEPT ![p] = cache[p].ver] \in Images
        BY <1>0, <2>1 DEF Types, TagBlks, Images
      <4> QED BY <1>0, <4>1, <4>2 DEF Types, TagBlks
    <3>2. CASE BlockOf[p] # tblk.blk
      <4>1. TagBlkOut(tblk) /\ tblk' = [blk |-> BlockOf[p], dirty |-> TRUE, tag |-> [tags EXCEPT ![p] = cache[p].ver]]
        BY <1>1, <3>2 DEF FlushPage
      <4>2. [tags EXCEPT ![p] = cache[p].ver] \in Images /\ BlockOf[p] \in Blocks
        BY <1>0, <2>1, PagerAssumption DEF Types, Images
      <4> QED BY <1>0, <4>1, <4>2, TagsOut DEF Types, TagBlks
    <3> QED BY <3>1, <3>2
  <2> QED BY <1>0, <1>1, <2>2, <2>3, <2>4 DEF FlushPage, Types
<1>2. CASE FlushLoopDone
  BY <1>0, <1>2 DEF FlushLoopDone, Types, Flushing
<1>3. CASE DataBarrier
  <2>1. dataAlt' \in [Pages -> SUBSET Vers]
    BY <1>0, <1>3 DEF DataBarrier, Types, Images
  <2> QED BY <1>0, <1>3, <2>1 DEF DataBarrier, Types, Flushing
<1>4. CASE WriteTags
  <2>1. tags' \in Images /\ tagsAlt' \in [Blocks -> SUBSET Images]
    BY <1>0, <1>4, TagsOut DEF WriteTags, Types
  <2>2. tblk' \in TagBlks
    BY <1>0, <1>4 DEF WriteTags, Types, TagBlks
  <2> QED BY <1>0, <1>4, <2>1, <2>2 DEF WriteTags, Types, Flushing
<1>5. CASE FlushReturn
  <2>1. tagsAlt' \in [Blocks -> SUBSET Images]
    BY <1>0, <1>5 DEF FlushReturn, Types
  <2>2. ckpt' \in Vers /\ pc' \in {"put", "idle"} /\ kind' \in {kind, "none"} /\ after' = "idle" /\ wrote' = FALSE
    BY <1>0, <1>5 DEF FlushReturn, Types
  <2> QED BY <1>0, <1>5, <2>1, <2>2 DEF FlushReturn, Types
<1>6. ASSUME NEW k \in Kinds, NEW S \in SUBSET Pages, Publish(k, S) PROVE Types'
  <2>1. ver + 1 \in Vers /\ ver' = ver + 1
    BY <1>0, <1>6, Bounds DEF Publish, Types
  <2>2. mem' \in Images
    BY <1>0, <1>6, <2>1 DEF Publish, Types, Images
  <2>3. snaps' \in [Vers -> Images]
    BY <1>0, <1>6, <2>1, <2>2 DEF Publish, Types
  <2>4. Needed(k, S) \in Nat
    BY PageSets DEF Needed
  <2>5. nslots' \in Nat /\ nslots' >= nslots
    BY <1>0, <1>6, <2>4 DEF Publish, Types
  <2>8. Cardinality(DOMAIN cache) \in Nat
    BY <1>0, PageSets
  <2>6. nslots' >= NSlots /\ Cardinality(DOMAIN cache) <= nslots'
    BY <1>0, <2>5, <2>8, Bounds DEF Types
  <2>7. pc' \in {"flush", "put"} /\ after' \in {after, "put"} /\ wrote' \in {wrote, FALSE}
    BY <1>6 DEF Publish, StartFlush
  <2> QED BY <1>0, <1>6, <2>1, <2>2, <2>3, <2>5, <2>6, <2>7 DEF Publish, Types, Flushing
<1>7. ASSUME NEW p \in Pages, PutPage(p) PROVE Types'
  <2>1. /\ DOMAIN cache' \subseteq Pages /\ cache' \in [DOMAIN cache' -> Slots]
        /\ Cardinality(DOMAIN cache') <= nslots
    BY <1>0, <1>7, PutCache
  <2> QED BY <1>0, <1>7, <2>1 DEF PutPage, Types
<1>8. CASE AllocFlush
  BY <1>0, <1>8 DEF AllocFlush, StartFlush, Types, Flushing
<1>9. CASE PutDone
  <2>1. pc' \in {"idle", "flush"} /\ kind' \in {kind, "none"} /\ wrote' \in {wrote, FALSE}
        /\ after' \in {after, "idle", "checkpoint", "nobarrier"}
    BY <1>9 DEF PutDone, StartFlush
  <2> QED BY <1>0, <1>9, <2>1 DEF PutDone, Types, Flushing
<1>10. CASE Checkpoint
  BY <1>0, <1>10 DEF Checkpoint, StartFlush, Types, Flushing
<1>11. CASE Crash
  <2>1. data' \in Images
    BY <1>0, <1>11 DEF Crash, Types, Images
  <2>2. tags' \in Images
    <3>1. CASE ~PowerLoss
      BY <1>0, <1>11, <3>1 DEF Crash, Types
    <3>2. CASE PowerLoss
      <4>1. PICK t \in [Blocks -> UNION {tagsAlt[b] : b \in Blocks}] :
               /\ \A b \in Blocks : t[b] \in tagsAlt[b]
               /\ tags' = [p \in Pages |-> t[BlockOf[p]][p]]
        BY <1>11, <3>2 DEF Crash
      <4>2. \A b \in Blocks : t[b] \in Images
        BY <1>0, <4>1 DEF Types
      <4> QED BY <4>1, <4>2, PagerAssumption DEF Images
    <3> QED BY <3>1, <3>2
  <2>3. dataAlt' \in [Pages -> SUBSET Vers]
    BY <1>11, <2>1 DEF Crash, Images
  <2>4. tagsAlt' \in [Blocks -> SUBSET Images] /\ tblk' \in TagBlks
    BY <1>11, <2>2 DEF Crash, TagBlks
  <2>5. DOMAIN cache' = {} /\ cache' = << >>
    BY <1>11 DEF Crash
  <2>6. cache' \in [DOMAIN cache' -> Slots] /\ Cardinality(DOMAIN cache') = 0
    BY <2>5, FS_EmptySet
  <2>7. /\ UNCHANGED <<ver, mem, snaps, ckpt>> /\ nslots' = NSlots /\ pc' = "down" /\ kind' = "none"
        /\ todo' = {} /\ wrote' = FALSE /\ after' = "idle"
    BY <1>11 DEF Crash
  <2>8. nslots' \in Nat /\ nslots' >= NSlots /\ Cardinality(DOMAIN cache') <= nslots'
    BY <2>6, <2>7, Bounds
  <2> QED BY <1>0, <2>1, <2>2, <2>3, <2>4, <2>5, <2>6, <2>7, <2>8 DEF Types
<1>12. CASE Open
  <2>1. PICK C \in SUBSET Pages :
           /\ cache' = [p \in C |-> [ver |-> data[p], dirty |-> FALSE]]
           /\ Cardinality(C) <= nslots
    <3> DEFINE used == IF Verifies(Root) THEN Pages ELSE {Root}
               ok == {p \in used : Verifies(p)}
    <3>1. ok \in SUBSET Pages
      BY Bounds
    <3>2. PICK C \in Loaded(ok, used \ ok) : cache' = [p \in C |-> [ver |-> data[p], dirty |-> FALSE]]
      BY <1>12 DEF Open
    <3>3. C \in SUBSET Pages /\ Cardinality(C) \in Nat /\ nslots \in Nat
      BY <1>0, <3>1, <3>2, PageSets DEF Loaded, Types
    <3>4. Cardinality(C) <= nslots
      BY <3>2, <3>3 DEF Loaded
    <3> QED BY <3>2, <3>3, <3>4
  <2>2. DOMAIN cache' = C /\ cache' \in [C -> Slots]
    BY <1>0, <2>1 DEF Slots, Types, Images
  <2>3. mem' \in Images
    BY <1>0, <1>12, Bounds DEF Open, Images, Types, Vers
  <2>4. tblk' \in TagBlks
    <3>1. PICK p \in Pages : tblk' = [tblk EXCEPT !.blk = BlockOf[p]]
      BY <1>12, Bounds DEF Open
    <3>2. BlockOf[p] \in Blocks
      BY PagerAssumption
    <3> QED BY <1>0, <3>1, <3>2 DEF TagBlks, Types
  <2>5. pc' = "opened" /\ UNCHANGED <<ver, snaps, ckpt, nslots, data, dataAlt, tags, tagsAlt, kind, todo, wrote, after>>
    BY <1>12 DEF Open
  <2> QED BY <1>0, <2>1, <2>2, <2>3, <2>4, <2>5 DEF Types
<1>13. ASSUME NEW S \in SUBSET Pages, Resume(S) PROVE Types'
  <2> DEFINE W == S \cup {p \in {Root} : mem[Root] = 0 \/ S # {}}
  <2>1. ver + 1 \in Vers /\ ver' = ver + 1
    BY <1>0, <1>13, Bounds DEF Resume, Types
  <2>2. W \in SUBSET Pages /\ mem' = [p \in Pages |-> IF p \in W THEN ver + 1 ELSE mem[p]] /\ todo' = W
    BY <1>13, Bounds DEF Resume
  <2>3. mem' \in Images
    BY <1>0, <2>1, <2>2 DEF Types, Images
  <2>4. snaps' \in [Vers -> Images]
    BY <1>0, <1>13, <2>1, <2>3 DEF Resume, Types
  <2>5. pc' \in {"idle", "put"} /\ kind' \in {"none", "init", "replay"}
    BY <1>13 DEF Resume
  <2> QED BY <1>0, <1>13, <2>1, <2>2, <2>3, <2>4, <2>5 DEF Resume, Types
<1>14. CASE UNCHANGED vars
  BY <1>0, <1>14 DEF vars, Types
<1> QED BY <1>1, <1>2, <1>3, <1>4, <1>5, <1>6, <1>7, <1>8, <1>9, <1>10, <1>11, <1>12, <1>13, <1>14
        DEF Next, Stop

LEMMA PositionsNext == BaseInv /\ [Next]_vars => Positions'
<1> SUFFICES ASSUME BaseInv, [Next]_vars PROVE Positions'
  OBVIOUS
<1> USE DEF heapVars, diskVars, Flushing
<1>0. Positions /\ tblk \in TagBlks
  BY DEF BaseInv, Types
<1>k. kind \in Kinds \cup {"none", "init", "replay"} /\ Kinds \subseteq {"put", "batch", "tx"}
  BY PagerAssumption DEF BaseInv, Types
<1>1. ASSUME NEW p \in Pages, FlushPage(p) PROVE Positions'
  BY <1>0, <1>1 DEF FlushPage, Positions
<1>2. CASE FlushLoopDone
  BY <1>0, <1>2 DEF FlushLoopDone, Positions, Dirty
<1>3. CASE DataBarrier
  BY <1>0, <1>3 DEF DataBarrier, Positions, Dirty
<1>4. CASE WriteTags
  <2>1. tblk'.dirty = FALSE
    BY <1>0, <1>4 DEF WriteTags, TagBlks
  <2> QED BY <1>0, <1>4, <2>1 DEF WriteTags, Positions, Dirty
<1>5. CASE FlushReturn
  BY <1>0, <1>5 DEF FlushReturn, Positions
<1>6. ASSUME NEW k \in Kinds, NEW S \in SUBSET Pages, Publish(k, S) PROVE Positions'
  BY <1>0, <1>k, <1>6 DEF Publish, StartFlush, Positions
<1>7. ASSUME NEW p \in Pages, PutPage(p) PROVE Positions'
  BY <1>0, <1>7 DEF PutPage, Positions
<1>8. CASE AllocFlush
  BY <1>0, <1>8 DEF AllocFlush, StartFlush, Positions
<1>9. CASE PutDone
  <2>1. kind # "none"
    BY <1>0, <1>9 DEF PutDone, Positions
  <2> QED BY <1>0, <1>k, <1>9, <2>1 DEF PutDone, StartFlush, Positions
<1>10. CASE Checkpoint
  BY <1>0, <1>10 DEF Checkpoint, StartFlush, Positions
<1>11. CASE Crash
  BY <1>11 DEF Crash, Positions
<1>12. CASE Open
  <2>1. PICK p \in Pages : tblk' = [tblk EXCEPT !.blk = BlockOf[p]]
    BY <1>12, Bounds DEF Open
  <2>2. tblk'.dirty = tblk.dirty
    BY <1>0, <2>1 DEF TagBlks
  <2> QED BY <1>0, <1>12, <2>2 DEF Open, Positions
<1>13. ASSUME NEW S \in SUBSET Pages, Resume(S) PROVE Positions'
  BY <1>0, <1>13 DEF Resume, Positions
<1>14. CASE UNCHANGED vars
  BY <1>0, <1>14 DEF vars, Positions, Dirty
<1> QED BY <1>1, <1>2, <1>3, <1>4, <1>5, <1>6, <1>7, <1>8, <1>9, <1>10, <1>11, <1>12, <1>13, <1>14
        DEF Next, Stop

LEMMA BaseNext == BaseInv /\ [Next]_vars => BaseInv'
BY TypesNext, PositionsNext DEF BaseInv

-----------------------------------------------------------------------------
(* Types, and the reservation of slots.                                    *)

LEMMA TypesGive == Types => TypeOK
<1> SUFFICES ASSUME Types PROVE TypeOK
  OBVIOUS
<1>1. \A p \in Pages : dataAlt[p] \subseteq Vers
  BY DEF Types
<1>2. kind \in {"none", "put", "batch", "tx", "init", "replay"}
  BY PagerAssumption DEF Types
<1> QED BY <1>1, <1>2 DEF Types, TypeOK, TagBlks, Slots, Images, Flushing

\* The types of the page cache (TypeOK): in particular alloc never grows the cache
\* past len(p.slots).
THEOREM CacheTypes == Spec => []TypeOK
<1>1. BaseInv => TypeOK
  BY TypesGive DEF BaseInv
<1> QED BY <1>1, BaseInit, BaseNext, PTL DEF Spec

\* PutPage adds at most its own page to the dirty ones.
LEMMA PutDirty ==
    ASSUME Types, NEW p \in Pages, PutPage(p)
    PROVE  Dirty' \subseteq Dirty \cup {p}
BY PutCache DEF Dirty

LEMMA FitsInit == Init => Fits
BY BaseInit DEF BaseInv, Fits, Room, Init

LEMMA RoomNext == Fits /\ [Next]_vars => Room'
<1> SUFFICES ASSUME Fits, [Next]_vars, kind' = "tx"
             PROVE  /\ Cardinality(todo') <= nslots'
                    /\ pc' = "put" => Cardinality(Dirty') + Cardinality(todo') <= nslots'
  BY DEF Room
<1> USE DEF heapVars, diskVars, Flushing
<1>0. /\ Types /\ Positions /\ Room
      /\ DOMAIN cache \in SUBSET Pages /\ Dirty \in SUBSET Pages /\ todo \in SUBSET Pages
      /\ nslots \in Nat
  BY DEF Fits, Types, Dirty
<1>c. Cardinality(Dirty) \in Nat /\ Cardinality(todo) \in Nat
  BY <1>0, PageSets
<1>1. ASSUME NEW p \in Pages, FlushPage(p)
      PROVE  kind = "tx" /\ pc' = "flush" /\ todo' = todo /\ nslots' = nslots
  BY <1>1 DEF FlushPage
<1>2. CASE FlushLoopDone
  BY <1>0, <1>2 DEF FlushLoopDone, Room
<1>3. CASE DataBarrier
  BY <1>0, <1>3 DEF DataBarrier, Room
<1>4. CASE WriteTags
  BY <1>0, <1>4 DEF WriteTags, Room
<1>5. CASE FlushReturn
  <2>1. Dirty = {} /\ Dirty' = {}
    BY <1>0, <1>5 DEF FlushReturn, Positions, Dirty
  <2>2. Cardinality(Dirty') = 0
    BY <2>1, FS_EmptySet
  <2>3. kind = "tx" /\ todo' = todo /\ nslots' = nslots
    BY <1>5 DEF FlushReturn
  <2> QED BY <1>0, <1>c, <2>2, <2>3 DEF Room
<1>6. ASSUME NEW k \in Kinds, NEW S \in SUBSET Pages, Publish(k, S)
      PROVE  /\ Cardinality(todo') <= nslots'
             /\ pc' = "put" => Cardinality(Dirty') + Cardinality(todo') <= nslots'
  <2>1. Cardinality(S) \in Nat
    BY PageSets
  <2>2. Needed(k, S) = Cardinality(S) + 2 /\ todo' = S /\ Dirty' = Dirty
    BY <1>6 DEF Publish, Needed, Dirty
  <2>3. nslots' = IF Cardinality(S) + 2 > nslots THEN Cardinality(S) + 2 ELSE nslots
    BY <1>6, <2>2 DEF Publish
  <2>4. pc' = "put" => ~(Cardinality(S) + 2 > nslots' - Cardinality(Dirty))
    BY <1>6, <2>2 DEF Publish, StartFlush
  <2> QED BY <1>0, <1>c, <2>1, <2>2, <2>3, <2>4
<1>7. ASSUME NEW p \in Pages, PutPage(p)
      PROVE  /\ Cardinality(todo') <= nslots'
             /\ pc' = "put" => Cardinality(Dirty') + Cardinality(todo') <= nslots'
  <2>1. Cardinality(todo') = Cardinality(todo) - 1
    BY <1>0, <1>7, OnePage DEF PutPage
  <2>2. Dirty' \subseteq Dirty \cup {p} /\ Dirty \cup {p} \in SUBSET Pages
    BY <1>0, <1>7, PutDirty
  <2>3. Cardinality(Dirty \cup {p}) = IF p \in Dirty THEN Cardinality(Dirty) ELSE Cardinality(Dirty) + 1
    BY <1>0, OnePage
  <2>4. Cardinality(Dirty') \in Nat /\ Cardinality(Dirty') <= Cardinality(Dirty \cup {p})
    BY <2>2, PageSets
  <2>5. kind = "tx" /\ pc = "put" /\ nslots' = nslots
    BY <1>7 DEF PutPage
  <2>6. Cardinality(Dirty \cup {p}) \in Nat
    BY <2>2, PageSets
  <2> QED BY <1>0, <1>c, <2>1, <2>3, <2>4, <2>5, <2>6 DEF Room
<1>8. CASE AllocFlush
  BY <1>0, <1>8 DEF AllocFlush, StartFlush, Room
<1>9. CASE PutDone
  BY <1>0, <1>9 DEF PutDone, StartFlush, Room
<1>10. CASE Checkpoint
  BY <1>0, <1>10 DEF Checkpoint, StartFlush, Room
<1>11. CASE Crash
  BY <1>11 DEF Crash
<1>12. CASE Open
  BY <1>0, <1>12 DEF Open, Room
<1>13. ASSUME NEW S \in SUBSET Pages, Resume(S) PROVE FALSE
  BY <1>13 DEF Resume
<1>14. CASE UNCHANGED vars
  BY <1>0, <1>14 DEF vars, Room, Dirty
<1>15. (\E p \in Pages : FlushPage(p)) => Cardinality(todo') <= nslots' /\ pc' # "put"
  BY <1>0, <1>1 DEF Room
<1> QED BY <1>2, <1>3, <1>4, <1>5, <1>6, <1>7, <1>8, <1>9, <1>10, <1>11, <1>12, <1>13, <1>14, <1>15
        DEF Next, Stop

\* With a slot for every page, alloc always finds one.
LEMMA AllocFinds ==
    ASSUME Types, Large, NEW p \in Pages
    PROVE  CanAlloc(p)
<1>1. SUFFICES ASSUME p \notin DOMAIN cache PROVE Cardinality(DOMAIN cache) < nslots
  BY DEF CanAlloc, Free
<1>2. DOMAIN cache \in SUBSET Pages /\ DOMAIN cache # Pages /\ nslots \in Nat /\ NSlots \in Nat /\ nslots >= NSlots
  BY <1>1, Bounds DEF Types
<1>3. /\ Cardinality(DOMAIN cache) \in Nat /\ Cardinality(Pages) \in Nat
      /\ Cardinality(DOMAIN cache) <= Cardinality(Pages)
      /\ Cardinality(DOMAIN cache) # Cardinality(Pages)
  BY <1>2, PageSets
<1> QED BY <1>2, <1>3 DEF Large

LEMMA RoomFits == Fits /\ (Kinds \subseteq {"tx"} \/ Large) => PublishFits
<1> SUFFICES ASSUME Fits, Kinds \subseteq {"tx"} \/ Large, pc = "put", kind \in Kinds, NEW p \in todo
             PROVE  CanAlloc(p)
  BY DEF PublishFits
<1>0. p \in Pages /\ Types /\ todo \in SUBSET Pages /\ Dirty \in SUBSET Pages /\ nslots \in Nat
  BY DEF Fits, Types, Dirty
<1>1. CASE Large
  BY <1>0, <1>1, AllocFinds
<1>2. CASE kind = "tx"
  <2>1. Cardinality(Dirty) + Cardinality(todo) <= nslots
    BY <1>2 DEF Fits, Room
  <2>2. Cardinality(todo) \in Nat /\ Cardinality(Dirty) \in Nat /\ IsFiniteSet(todo)
    BY <1>0, PageSets
  <2>3. Cardinality(todo) # 0
    BY <2>2, FS_EmptySet
  <2>4. Cardinality(Dirty) < nslots
    BY <1>0, <2>1, <2>2, <2>3
  <2> QED BY <2>4 DEF CanAlloc, Free
<1> QED BY <1>1, <1>2

\* preparePublish reserves enough (PublishFits): for transactions, whose dirty pages are
\* all there when it counts them, with any number of slots; for puts and batches, which
\* it counts before they dirty anything, when the pager has a slot for every page.
THEOREM Reservation ==
    ASSUME Kinds \subseteq {"tx"} \/ Large
    PROVE  Spec => []PublishFits
<1>1. Fits /\ [Next]_vars => Fits'
  BY BaseNext, RoomNext DEF Fits, BaseInv
<1>2. Fits => PublishFits
  BY RoomFits
<1> QED BY <1>1, <1>2, FitsInit, PTL DEF Spec

-----------------------------------------------------------------------------
(* The files.                                                              *)

\* A step that leaves the cache and data.img alone leaves what GetPage returns.
LEMMA ViewKept ==
    ASSUME cache' = cache, data' = data
    PROVE  \A p : View(p)' = View(p)
BY DEF View

\* A slot goes to data.img: the page is in its slot, and the slot agrees with the device.
LEMMA ViewFlush ==
    ASSUME Types, NEW q \in Pages, FlushPage(q)
    PROVE  /\ DOMAIN cache' = DOMAIN cache /\ q \in DOMAIN cache
           /\ \A p \in DOMAIN cache : cache'[p].ver = cache[p].ver
           /\ \A p \in DOMAIN cache \ {q} : cache'[p] = cache[p]
           /\ data'[q] = cache[q].ver /\ \A p \in Pages \ {q} : data'[p] = data[p]
           /\ \A p \in Pages : View(p)' = View(p)
<1>1. q \in DOMAIN cache /\ cache[q].ver \in Vers
  BY DEF FlushPage, Dirty, Types, Slots
<1>2. /\ DOMAIN cache' = DOMAIN cache
      /\ \A p \in DOMAIN cache : cache'[p].ver = cache[p].ver
      /\ \A p \in DOMAIN cache \ {q} : cache'[p] = cache[p]
  BY <1>1 DEF FlushPage, Types, Slots
<1>3. data'[q] = cache[q].ver /\ \A p \in Pages \ {q} : data'[p] = data[p]
  BY DEF FlushPage, Types, Images
<1> QED BY <1>1, <1>2, <1>3 DEF View

\* What GetPage returns after PutPage.
LEMMA ViewPut ==
    ASSUME Types, Handed, pc # "down", NEW q \in Pages, PutPage(q)
    PROVE  /\ View(q)' = mem[q] /\ \A p \in Pages \ {q} : View(p)' = View(p)
           /\ \A p \in DOMAIN cache' : ~cache'[p].dirty => cache'[p].ver = data[p]
<1>1. data' = data
  BY DEF PutPage, diskVars
<1>2. /\ q \in DOMAIN cache' /\ cache'[q] = [ver |-> mem[q], dirty |-> TRUE]
      /\ DOMAIN cache' \subseteq DOMAIN cache \cup {q}
      /\ \A p \in DOMAIN cache' \ {q} : cache'[p] = cache[p]
      /\ \A p \in DOMAIN cache \ DOMAIN cache' : ~cache[p].dirty
  BY PutCache
<1>3. \A p \in DOMAIN cache : ~cache[p].dirty => cache[p].ver = data[p]
  BY DEF Handed
<1> QED BY <1>1, <1>2, <1>3 DEF View

\* With the block of tags written out, every page is sealed in tags.img.
LEMMA SealedOut ==
    ASSUME Types, Sealed, TagBlkOut(tblk)
    PROVE  \A p \in Pages : tags'[p] = data[p]
<1>1. \A p \in Pages : tags'[p] = IF tblk.dirty /\ BlockOf[p] = tblk.blk THEN tblk.tag[p] ELSE tags[p]
  BY TagsOut DEF Types
<1>2. tblk.dirty \in BOOLEAN
  BY DEF Types, TagBlks
<1> QED BY <1>1, <1>2 DEF Sealed

\* At a stop that is recovered from, the files are what the process saw in them.
LEMMA CrashKeeps ==
    ASSUME FilesInv, Recoverable, Crash
    PROVE  /\ data' = data /\ tags' = data /\ tags' \in Images
           /\ pc \in {"idle", "opened", "down"} \/ (Large /\ pc = "put")
<1>0. Types /\ Positions /\ Sealed /\ Durable /\ BaseInv
  BY DEF FilesInv, BaseInv
<1>1. pc \in {"idle", "opened", "down"} \/ (Large /\ pc = "put")
  BY DEF Crash, Recoverable
<1>2. ~wrote /\ ~tblk.dirty
  BY <1>0, <1>1 DEF Positions, Flushing
<1>3. data \in Images /\ tags \in Images /\ \A p \in Pages : tags[p] = data[p]
  BY <1>0, <1>2 DEF Types, Sealed
<1>4. tags = data
  BY <1>3 DEF Images
<1>5. CASE ~PowerLoss
  BY <1>1, <1>3, <1>4, <1>5 DEF Crash
<1>6. CASE PowerLoss
  <2>1. /\ \A p \in Pages : dataAlt[p] = {data[p]}
        /\ \A b \in Blocks : \A t \in tagsAlt[b] : \A p \in Pages : BlockOf[p] = b => t[p] = tags[p]
    BY <1>0, <1>2, <1>6 DEF Durable, DataSafe, TagsSafe
  <2>2. PICK d \in [Pages -> UNION {dataAlt[p] : p \in Pages}] :
           (\A p \in Pages : d[p] \in dataAlt[p]) /\ data' = d
    BY <1>6 DEF Crash
  <2>3. \A p \in Pages : d[p] = data[p]
    BY <2>1, <2>2
  <2>4. data' = data
    BY <1>3, <2>2, <2>3 DEF Images
  <2>5. PICK t \in [Blocks -> UNION {tagsAlt[b] : b \in Blocks}] :
           (\A b \in Blocks : t[b] \in tagsAlt[b]) /\ tags' = [p \in Pages |-> t[BlockOf[p]][p]]
    BY <1>6 DEF Crash
  <2>6. \A p \in Pages : BlockOf[p] \in Blocks
    BY PagerAssumption
  <2>7. \A p \in Pages : tags'[p] = tags[p]
    BY <2>1, <2>5, <2>6
  <2>8. tags' = [p \in Pages |-> tags[p]] /\ tags = [p \in Pages |-> tags[p]]
    BY <1>3, <2>5, <2>7 DEF Images
  <2> QED BY <1>1, <1>3, <1>4, <2>4, <2>8
<1> QED BY <1>5, <1>6

\* loadHeap: every page verifies, and the heap is data.img.
LEMMA OpenLoads ==
    ASSUME FilesInv, Open
    PROVE  /\ mem' = data /\ data' = data
           /\ \A p \in DOMAIN cache' : cache'[p].ver = data[p]
<1>0. Types /\ Positions /\ Sealed /\ Based /\ History /\ pc = "down"
  BY DEF FilesInv, Open
<1>1. \A p \in Pages : tags[p] = data[p]
  BY <1>0 DEF Positions, Sealed, Flushing
<1>2. data[Root] # 0
  <2>1. PICK v \in ckpt .. ver : data = snaps[v]
    BY <1>0 DEF Based
  <2>2. v \in 1 .. ver
    BY <1>0 DEF History, Types, Vers
  <2> QED BY <1>0, <2>1, <2>2 DEF History
<1>3. \A p \in Pages : Verifies(p)
  BY <1>1, <1>2 DEF Verifies
<1>4. Root \in Pages
  BY Bounds
<1>5. mem' = [p \in Pages |-> data[p]]
  BY <1>3, <1>4 DEF Open
<1>6. data \in Images
  BY <1>0 DEF Types
<1>7. \A p \in DOMAIN cache' : cache'[p].ver = data[p]
  BY DEF Open
<1> QED BY <1>5, <1>6, <1>7 DEF Open, Images

LEMMA HandedNext == FilesInv /\ Recoverable /\ [Next]_vars => Handed'
<1> SUFFICES ASSUME FilesInv, Recoverable, [Next]_vars PROVE Handed'
  OBVIOUS
<1> USE DEF heapVars, diskVars, Flushing
<1>0. Types /\ Positions /\ Handed /\ mem \in Images
  BY DEF FilesInv, Types
<1>1. ASSUME NEW q \in Pages, FlushPage(q) PROVE Handed'
  <2>1. /\ DOMAIN cache' = DOMAIN cache /\ q \in DOMAIN cache
        /\ \A p \in DOMAIN cache : cache'[p].ver = cache[p].ver
        /\ \A p \in DOMAIN cache \ {q} : cache'[p] = cache[p]
        /\ data'[q] = cache[q].ver /\ \A p \in Pages \ {q} : data'[p] = data[p]
        /\ \A p \in Pages : View(p)' = View(p)
    BY <1>0, <1>1, ViewFlush
  <2>2. DOMAIN cache \subseteq Pages
    BY <1>0 DEF Types
  <2>3. mem' = mem /\ todo' = todo /\ pc = "flush"
    BY <1>1 DEF FlushPage
  <2>4. \A p \in Pages \ todo : View(p)' = mem'[p]
    BY <1>0, <2>1, <2>3 DEF Handed
  <2>5. \A p \in DOMAIN cache' : ~cache'[p].dirty => cache'[p].ver = data'[p]
    BY <1>0, <2>1, <2>2 DEF Handed
  <2> QED BY <2>3, <2>4, <2>5 DEF Handed
<1>2. ASSUME cache' = cache, data' = data, mem' = mem, todo' = todo, pc' = "down" \/ pc # "down" PROVE Handed'
  BY <1>0, <1>2, ViewKept DEF Handed
<1>6. ASSUME NEW k \in Kinds, NEW S \in SUBSET Pages, Publish(k, S) PROVE Handed'
  <2>1. cache' = cache /\ data' = data /\ todo' = S /\ pc = "idle" /\ todo = {}
    BY <1>0, <1>6 DEF Publish, Positions
  <2>2. \A p \in Pages \ S : mem'[p] = mem[p]
    BY <1>6 DEF Publish
  <2> QED BY <1>0, <2>1, <2>2, ViewKept DEF Handed
<1>7. ASSUME NEW q \in Pages, PutPage(q) PROVE Handed'
  <2>1. pc = "put" /\ todo' = todo \ {q} /\ mem' = mem /\ data' = data
    BY <1>7 DEF PutPage
  <2>2. /\ View(q)' = mem[q] /\ \A p \in Pages \ {q} : View(p)' = View(p)
        /\ \A p \in DOMAIN cache' : ~cache'[p].dirty => cache'[p].ver = data[p]
    BY <1>0, <1>7, <2>1, ViewPut
  <2> QED BY <1>0, <2>1, <2>2 DEF Handed
<1>11. CASE Crash
  <2>1. pc' = "down" /\ DOMAIN cache' = {}
    BY <1>11 DEF Crash
  <2> QED BY <2>1 DEF Handed
<1>12. CASE Open
  <2>1. mem' = data /\ data' = data /\ \A p \in DOMAIN cache' : cache'[p].ver = data[p]
    BY <1>12, OpenLoads
  <2>2. \A p \in Pages : View(p)' = mem'[p]
    BY <2>1 DEF View
  <2> QED BY <2>1, <2>2 DEF Handed
<1>13. ASSUME NEW S \in SUBSET Pages, Resume(S) PROVE Handed'
  <2>1. cache' = cache /\ data' = data /\ pc = "opened" /\ todo = {}
    BY <1>0, <1>13 DEF Resume, Positions
  <2>2. \A p \in Pages \ todo' : mem'[p] = mem[p]
    BY <1>13 DEF Resume
  <2> QED BY <1>0, <2>1, <2>2, ViewKept DEF Handed
<1>15. CASE \/ FlushLoopDone \/ DataBarrier \/ WriteTags \/ FlushReturn \/ AllocFlush \/ PutDone \/ Checkpoint
            \/ UNCHANGED vars
  BY <1>2, <1>15
     DEF FlushLoopDone, DataBarrier, WriteTags, FlushReturn, AllocFlush, PutDone, Checkpoint, vars
<1> QED BY <1>1, <1>6, <1>7, <1>11, <1>12, <1>13, <1>15 DEF Next, Stop

LEMMA SealedNext == FilesInv /\ Recoverable /\ [Next]_vars => Sealed'
<1> SUFFICES ASSUME FilesInv, Recoverable, [Next]_vars PROVE Sealed'
  OBVIOUS
<1> USE DEF heapVars, diskVars
<1>0. Types /\ Positions /\ Sealed /\ tblk \in TagBlks /\ tags \in Images
  BY DEF FilesInv, Types
<1>1. ASSUME NEW q \in Pages, FlushPage(q) PROVE Sealed'
  <2>1. pc' = "flush" /\ data'[q] = cache[q].ver /\ \A p \in Pages \ {q} : data'[p] = data[p]
    <3>1. pc' = "flush"
      BY <1>1 DEF FlushPage
    <3> QED BY <1>0, <1>1, <3>1, ViewFlush
  <2>2. CASE BlockOf[q] = tblk.blk
    <3>1. tags' = tags /\ tblk' = [tblk EXCEPT !.dirty = TRUE, !.tag[q] = cache[q].ver]
      BY <1>1, <2>2 DEF FlushPage
    <3>2. /\ tblk'.blk = tblk.blk /\ tblk'.dirty = TRUE /\ tblk'.tag[q] = cache[q].ver
          /\ \A p \in Pages \ {q} : tblk'.tag[p] = tblk.tag[p]
      BY <1>0, <3>1 DEF TagBlks, Images
    <3> QED BY <1>0, <2>1, <2>2, <3>1, <3>2 DEF Sealed
  <2>3. CASE BlockOf[q] # tblk.blk
    <3>1. TagBlkOut(tblk) /\ tblk' = [blk |-> BlockOf[q], dirty |-> TRUE, tag |-> [tags EXCEPT ![q] = cache[q].ver]]
      BY <1>1, <2>3 DEF FlushPage
    <3>2. \A p \in Pages : tags'[p] = data[p]
      BY <1>0, <3>1, SealedOut
    <3>3. /\ tblk'.blk = BlockOf[q] /\ tblk'.dirty = TRUE /\ tblk'.tag[q] = cache[q].ver
          /\ \A p \in Pages \ {q} : tblk'.tag[p] = tags[p]
      BY <1>0, <3>1 DEF Images
    <3>4. \A p \in Pages : BlockOf[p] = BlockOf[q] => tags[p] = data[p]
      BY <1>0, <2>3 DEF Sealed
    <3> QED BY <2>1, <3>2, <3>3, <3>4 DEF Sealed
  <2> QED BY <2>2, <2>3
<1>2. ASSUME UNCHANGED <<data, tags, tblk>>, pc' # "down" \/ pc = "down" PROVE Sealed'
  BY <1>0, <1>2 DEF Sealed
<1>4. CASE WriteTags
  <2>1. TagBlkOut(tblk) /\ tblk' = [tblk EXCEPT !.dirty = FALSE] /\ data' = data /\ pc' = "tagsync"
    BY <1>4 DEF WriteTags
  <2>2. tblk'.blk = tblk.blk /\ tblk'.tag = tblk.tag
    BY <1>0, <2>1 DEF TagBlks
  <2>3. \A p \in Pages : tags'[p] = data[p]
    BY <1>0, <2>1, SealedOut
  <2> QED BY <1>0, <2>1, <2>2, <2>3 DEF Sealed
<1>11. CASE Crash
  <2>1. data' = data /\ tags' = data
    BY <1>11, CrashKeeps
  <2>2. tblk'.tag = tags'
    BY <1>11 DEF Crash
  <2> QED BY <2>1, <2>2 DEF Sealed
<1>12. CASE Open
  <2>1. PICK q \in Pages : tblk' = [tblk EXCEPT !.blk = BlockOf[q]]
    BY <1>12, Bounds DEF Open
  <2>2. tblk'.tag = tblk.tag
    BY <1>0, <2>1 DEF TagBlks
  <2>3. pc = "down" /\ ~tblk.dirty
    BY <1>0, <1>12 DEF Open, Positions, Flushing
  <2>4. data' = data /\ tags' = tags /\ pc' = "opened"
    BY <1>12 DEF Open
  <2> QED BY <1>0, <2>2, <2>3, <2>4 DEF Sealed
<1>15. CASE \/ FlushLoopDone \/ DataBarrier \/ FlushReturn \/ AllocFlush \/ PutDone \/ Checkpoint
            \/ UNCHANGED vars
  BY <1>2, <1>15 DEF FlushLoopDone, DataBarrier, FlushReturn, AllocFlush, PutDone, Checkpoint, StartFlush, vars
<1>16. ASSUME \/ \E k \in Kinds, S \in SUBSET Pages : Publish(k, S)
              \/ \E q \in Pages : PutPage(q)
              \/ \E S \in SUBSET Pages : Resume(S)
       PROVE  Sealed'
  BY <1>2, <1>16 DEF Publish, PutPage, Resume, StartFlush
<1> QED BY <1>1, <1>4, <1>11, <1>12, <1>15, <1>16 DEF Next, Stop

LEMMA DurableNext == FilesInv /\ Recoverable /\ [Next]_vars => Durable'
<1> SUFFICES ASSUME FilesInv, Recoverable, [Next]_vars, PowerLoss
             PROVE  (~wrote' \/ pc' \in {"tags", "tagsync"} => DataSafe') /\ (~wrote' => TagsSafe')
  BY DEF Durable
<1> DEFINE Goal == (~wrote' \/ pc' \in {"tags", "tagsync"} => DataSafe') /\ (~wrote' => TagsSafe')
<1> USE DEF heapVars, diskVars, Flushing
<1>0. /\ Types /\ Positions
      /\ ~wrote \/ pc \in {"tags", "tagsync"} => DataSafe
      /\ ~wrote => TagsSafe
  BY DEF FilesInv, Durable
\* A batch and a transaction leave writes in doubt: with a power loss there are only puts.
<1>k. after # "nobarrier"
  <2>1. Kinds \subseteq {"put"}
    BY DEF Recoverable
  <2> QED BY <1>0, <2>1 DEF Positions, Types
<1>1. CASE \E q \in Pages : FlushPage(q)
  BY <1>1 DEF FlushPage
<1>2. ASSUME UNCHANGED <<data, dataAlt, tags, tagsAlt>>, ~wrote PROVE Goal
  <2>1. DataSafe' /\ TagsSafe'
    BY <1>0, <1>2 DEF DataSafe, TagsSafe
  <2> QED BY <2>1
<1>3. CASE FlushLoopDone
  <2>1. CASE ~wrote
    BY <1>2, <1>3, <2>1 DEF FlushLoopDone
  <2>2. CASE wrote
    BY <1>k, <1>3, <2>2 DEF FlushLoopDone
  <2> QED BY <2>1, <2>2
<1>4. CASE DataBarrier
  <2>1. wrote' /\ DataSafe'
    BY <1>0, <1>4 DEF DataBarrier, Positions, DataSafe
  <2> QED BY <2>1
<1>5. CASE WriteTags
  <2>1. wrote' /\ DataSafe'
    BY <1>0, <1>5 DEF WriteTags, Positions, DataSafe
  <2> QED BY <2>1
<1>6. CASE FlushReturn
  <2>1. DataSafe'
    BY <1>0, <1>6 DEF FlushReturn, DataSafe
  <2>2. TagsSafe'
    <3>1. CASE wrote
      BY <1>k, <1>6, <3>1 DEF FlushReturn, TagsSafe
    <3>2. CASE ~wrote
      BY <1>0, <1>6, <3>2 DEF FlushReturn, TagsSafe
    <3> QED BY <3>1, <3>2
  <2> QED BY <2>1, <2>2
<1>7. ASSUME \/ \E k \in Kinds, S \in SUBSET Pages : Publish(k, S)
             \/ \E q \in Pages : PutPage(q)
             \/ AllocFlush \/ PutDone \/ Checkpoint
             \/ \E S \in SUBSET Pages : Resume(S)
      PROVE  Goal
  <2>1. UNCHANGED <<data, dataAlt, tags, tagsAlt>> /\ pc \in {"idle", "put", "opened"}
    BY <1>7 DEF Publish, PutPage, AllocFlush, PutDone, Checkpoint, Resume
  <2>2. ~wrote
    BY <1>0, <2>1 DEF Positions
  <2> QED BY <1>2, <2>1, <2>2
<1>8. CASE Crash
  <2>1. dataAlt' = [p \in Pages |-> {data'[p]}] /\ tagsAlt' = [b \in Blocks |-> {tags'}]
    BY <1>8 DEF Crash
  <2> QED BY <2>1 DEF DataSafe, TagsSafe
<1>9. CASE Open
  <2>1. UNCHANGED <<data, dataAlt, tags, tagsAlt>> /\ ~wrote
    BY <1>0, <1>9 DEF Open, Positions
  <2> QED BY <1>2, <2>1
<1>10. CASE UNCHANGED vars
  BY <1>0, <1>10 DEF vars, DataSafe, TagsSafe
<1> QED BY <1>1, <1>3, <1>4, <1>5, <1>6, <1>7, <1>8, <1>9, <1>10 DEF Next, Stop

LEMMA HistoryNext == FilesInv /\ Recoverable /\ [Next]_vars => History'
<1> SUFFICES ASSUME FilesInv, Recoverable, [Next]_vars PROVE History'
  OBVIOUS
<1> USE DEF heapVars, diskVars, Flushing
<1>0. Types /\ Positions /\ History /\ mem \in Images /\ ver \in Vers /\ ver \in Nat /\ ckpt \in Nat
      /\ snaps \in [Vers -> Images]
  BY Bounds DEF FilesInv, Types
\* a new image joins the history
<1>1. ASSUME ver < MaxVer, ver' = ver + 1, snaps' = [snaps EXCEPT ![ver + 1] = mem'], mem'[Root] # 0,
             ckpt' = ckpt, pc' # "opened"
      PROVE  History'
  <2>1. ver + 1 \in Vers
    BY <1>0, <1>1, Bounds
  <2>2. snaps'[ver + 1] = mem' /\ \A v \in 1 .. ver : snaps'[v] = snaps[v]
    BY <1>0, <1>1, <2>1 DEF Vers
  <2>3. \A v \in 1 .. ver' : snaps'[v][Root] # 0
    <3> SUFFICES ASSUME NEW v \in 1 .. ver' PROVE snaps'[v][Root] # 0
      OBVIOUS
    <3>1. CASE v = ver + 1
      BY <1>1, <2>2, <3>1
    <3>2. CASE v \in 1 .. ver
      BY <1>0, <2>2, <3>2 DEF History
    <3> QED BY <1>0, <1>1, <3>1, <3>2
  <2>4. 1 <= ckpt' /\ ckpt' <= ver'
    BY <1>0, <1>1 DEF History
  <2> QED BY <1>1, <2>2, <2>3, <2>4 DEF History
<1>2. ASSUME NEW k \in Kinds, NEW S \in SUBSET Pages, Root \in S, Publish(k, S) PROVE History'
  <2>1. mem'[Root] # 0
    BY <1>0, <1>2, Bounds DEF Publish
  <2> QED BY <1>1, <1>2, <2>1 DEF Publish, StartFlush
<1>3. ASSUME NEW S \in SUBSET Pages, Resume(S) PROVE History'
  <2>1. mem'[Root] # 0
    BY <1>0, <1>3, Bounds DEF Resume
  <2> QED BY <1>1, <1>3, <2>1 DEF Resume
<1>4. CASE FlushReturn
  <2>1. ckpt' \in {ckpt, ver} /\ pc' \in {"put", "idle"} /\ UNCHANGED <<ver, mem, snaps, data>> /\ pc = "tagsync"
    BY <1>4 DEF FlushReturn
  <2> QED BY <1>0, <2>1 DEF History
<1>5. CASE Crash
  <2>1. UNCHANGED <<ver, mem, snaps, ckpt>> /\ pc' = "down"
    BY <1>5 DEF Crash
  <2> QED BY <1>0, <2>1 DEF History
<1>6. CASE Open
  <2>1. UNCHANGED <<ver, snaps, ckpt>> /\ pc' = "opened" /\ mem' = data'
    BY <1>6, OpenLoads DEF Open
  <2> QED BY <1>0, <2>1 DEF History
<1>7. ASSUME UNCHANGED <<ver, mem, snaps, ckpt>>, pc \notin {"down", "opened"}, pc' \notin {"down", "opened"} PROVE History'
  BY <1>0, <1>7 DEF History
<1>8. CASE \/ \E q \in Pages : FlushPage(q)
           \/ FlushLoopDone \/ DataBarrier \/ WriteTags \/ AllocFlush \/ PutDone \/ Checkpoint
           \/ \E q \in Pages : PutPage(q)
  BY <1>7, <1>8 DEF FlushPage, FlushLoopDone, DataBarrier, WriteTags, AllocFlush, PutDone, Checkpoint, PutPage, StartFlush
<1>9. CASE UNCHANGED vars
  BY <1>0, <1>9 DEF vars, History
<1> QED BY <1>2, <1>3, <1>4, <1>5, <1>6, <1>8, <1>9 DEF Next, Stop

LEMMA PreparedNext == FilesInv /\ Recoverable /\ [Next]_vars => Prepared'
<1> SUFFICES ASSUME FilesInv, Recoverable, [Next]_vars, Large, pc' \in Flushing, after' = "put"
             PROVE  ckpt' < ver' /\ \A p \in Pages : View(p)' = snaps'[ver' - 1][p]
  BY DEF Prepared
<1> USE DEF heapVars, diskVars
<1>0. Types /\ Positions /\ Handed /\ History /\ Prepared /\ ver \in Nat /\ ckpt \in Nat
  BY Bounds DEF FilesInv, Types
<1>1. ASSUME UNCHANGED <<ver, ckpt, snaps>>, pc \in Flushing, after = "put", \A p \in Pages : View(p)' = View(p)
      PROVE  ckpt' < ver' /\ \A p \in Pages : View(p)' = snaps'[ver' - 1][p]
  BY <1>0, <1>1 DEF Prepared
<1>2. ASSUME NEW q \in Pages, FlushPage(q) PROVE ckpt' < ver' /\ \A p \in Pages : View(p)' = snaps'[ver' - 1][p]
  <2>1. \A p \in Pages : View(p)' = View(p)
    BY <1>0, <1>2, ViewFlush
  <2> QED BY <1>1, <1>2, <2>1 DEF FlushPage, Flushing
<1>3. CASE FlushLoopDone \/ DataBarrier \/ WriteTags \/ UNCHANGED vars
  <2>1. UNCHANGED <<ver, ckpt, snaps, cache, data>> /\ pc \in Flushing /\ after = "put"
    BY <1>3 DEF FlushLoopDone, DataBarrier, WriteTags, vars, Flushing
  <2> QED BY <1>1, <2>1, ViewKept
<1>4. ASSUME NEW k \in Kinds, NEW S \in SUBSET Pages, Publish(k, S)
      PROVE  ckpt' < ver' /\ \A p \in Pages : View(p)' = snaps'[ver' - 1][p]
  <2>1. /\ ver' = ver + 1 /\ snaps' = [snaps EXCEPT ![ver + 1] = mem'] /\ UNCHANGED <<ckpt, cache, data>>
        /\ pc = "idle" /\ todo = {}
    BY <1>0, <1>4 DEF Publish, Positions, Flushing
  <2>2. ver' - 1 = ver /\ snaps'[ver] = snaps[ver]
    BY <1>0, <2>1 DEF Types
  <2>3. snaps[ver] = mem /\ \A p \in Pages : View(p) = mem[p]
    BY <1>0, <2>1 DEF History, Handed
  <2>4. ckpt' < ver'
    BY <1>0, <2>1 DEF History
  <2> QED BY <2>1, <2>2, <2>3, <2>4, ViewKept
<1>5. CASE AllocFlush
  BY <1>0, <1>5, AllocFinds DEF AllocFlush, Types
<1>6. CASE \/ FlushReturn \/ PutDone \/ Checkpoint \/ Crash \/ Open
           \/ \E q \in Pages : PutPage(q)
           \/ \E S \in SUBSET Pages : Resume(S)
  BY <1>0, <1>6 DEF FlushReturn, PutDone, Checkpoint, Crash, Open, PutPage, Resume, StartFlush, Flushing, Positions
<1> QED BY <1>2, <1>3, <1>4, <1>5, <1>6 DEF Next, Stop

LEMMA BasedNext == FilesInv /\ Recoverable /\ [Next]_vars => Based'
<1> SUFFICES ASSUME FilesInv, Recoverable, [Next]_vars,
                    pc' \in {"idle", "opened", "down"} \/ (Large /\ (pc' = "put" \/ (pc' \in Flushing /\ ~wrote')))
             PROVE  \E v \in ckpt' .. ver' : data' = snaps'[v]
  BY DEF Based
<1> USE DEF heapVars, diskVars
<1>0. /\ Types /\ Positions /\ Handed /\ History /\ Prepared /\ Based
      /\ ver \in Nat /\ ckpt \in Nat /\ 1 <= ckpt /\ ckpt <= ver /\ data \in Images /\ snaps \in [Vers -> Images]
  BY Bounds DEF FilesInv, Types, History
\* data.img and the history stay
<1>1. ASSUME UNCHANGED <<ver, ckpt, snaps, data>>,
             pc \in {"idle", "opened", "down"} \/ (Large /\ (pc = "put" \/ (pc \in Flushing /\ ~wrote)))
      PROVE  \E v \in ckpt' .. ver' : data' = snaps'[v]
  BY <1>0, <1>1 DEF Based
\* data.img stays and the history grows
<1>2. ASSUME ver' = ver + 1, snaps' = [snaps EXCEPT ![ver + 1] = mem'], UNCHANGED <<ckpt, data>>,
             pc \in {"idle", "opened"}
      PROVE  \E v \in ckpt' .. ver' : data' = snaps'[v]
  <2>1. PICK v \in ckpt .. ver : data = snaps[v]
    BY <1>0, <1>2 DEF Based
  <2>2. v \in ckpt' .. ver' /\ snaps'[v] = snaps[v]
    BY <1>0, <1>2, <2>1
  <2> QED BY <1>2, <2>1, <2>2
<1>3. CASE \E q \in Pages : FlushPage(q)
  BY <1>3 DEF FlushPage, Flushing
<1>4. CASE FlushLoopDone
  BY <1>1, <1>4 DEF FlushLoopDone, Flushing
<1>5. CASE DataBarrier \/ WriteTags
  BY <1>0, <1>5 DEF DataBarrier, WriteTags, Positions, Flushing
<1>6. CASE FlushReturn
  <2>1. /\ Dirty = {} /\ UNCHANGED <<ver, snaps, data>> /\ ckpt' \in {ckpt, ver} /\ pc \in Flushing /\ pc # "down"
        /\ (after # "checkpoint" => ckpt' = ckpt)
    BY <1>0, <1>6 DEF FlushReturn, Positions, Flushing
  <2>2. \A p \in Pages : View(p) = data[p]
    BY <1>0, <2>1 DEF View, Handed, Dirty
  <2>3. CASE after = "put"
    <3>1. Large /\ ckpt < ver /\ \A p \in Pages : View(p) = snaps[ver - 1][p]
      BY <1>0, <1>6, <2>1, <2>3 DEF Prepared, FlushReturn
    <3>4. ver \in 0 .. MaxVer /\ ver - 1 \in 0 .. MaxVer
      BY <1>0, <3>1, Bounds DEF Types, Vers
    <3>2. ver - 1 \in ckpt .. ver /\ snaps[ver - 1] \in Images
      BY <1>0, <3>1, <3>4 DEF Vers
    <3>3. data = snaps[ver - 1]
      BY <1>0, <2>2, <3>1, <3>2 DEF Images
    <3> QED BY <2>1, <2>3, <3>2, <3>3
  <2>4. CASE after # "put"
    <3>1. todo = {} /\ snaps[ver] = mem /\ \A p \in Pages : View(p) = mem[p]
      BY <1>0, <2>1, <2>4 DEF Positions, Handed, History, Flushing
    <3>2. data = mem
      BY <1>0, <2>2, <3>1 DEF Types, Images
    <3>3. ver \in ckpt' .. ver'
      BY <1>0, <2>1
    <3> QED BY <2>1, <3>1, <3>2, <3>3
  <2> QED BY <2>3, <2>4
<1>7. CASE \E k \in Kinds, S \in SUBSET Pages : Publish(k, S)
  BY <1>2, <1>7 DEF Publish
<1>8. CASE \E q \in Pages : PutPage(q)
  BY <1>1, <1>8 DEF PutPage
<1>9. CASE AllocFlush
  BY <1>0, <1>9, AllocFinds DEF AllocFlush, StartFlush, Types, Flushing
<1>10. CASE PutDone
  <2>1. UNCHANGED <<ver, ckpt, snaps, data>> /\ pc = "put" /\ pc' \in {"idle", "flush"} /\ (pc' = "idle" => kind = "put")
    BY <1>10 DEF PutDone, StartFlush
  <2>2. Large
    BY <1>0, <2>1 DEF Recoverable, Types, Flushing
  <2> QED BY <1>1, <2>1, <2>2
<1>11. CASE Checkpoint
  BY <1>1, <1>11 DEF Checkpoint
<1>12. CASE Crash
  <2>1. data' = data /\ (pc \in {"idle", "opened", "down"} \/ (Large /\ pc = "put"))
    BY <1>12, CrashKeeps
  <2>2. UNCHANGED <<ver, ckpt, snaps>>
    BY <1>12 DEF Crash
  <2> QED BY <1>1, <2>1, <2>2
<1>13. CASE Open
  BY <1>1, <1>13 DEF Open
<1>14. CASE \E S \in SUBSET Pages : Resume(S)
  BY <1>2, <1>14 DEF Resume
<1>15. CASE UNCHANGED vars
  BY <1>1, <1>15 DEF vars
<1> QED BY <1>3, <1>4, <1>5, <1>6, <1>7, <1>8, <1>9, <1>10, <1>11, <1>12, <1>13, <1>14, <1>15 DEF Next, Stop

LEMMA FilesInit == Init => FilesInv
<1> SUFFICES ASSUME Init PROVE FilesInv
  OBVIOUS
<1>1. Types /\ Positions
  BY BaseInit DEF BaseInv
<1> USE Bounds DEF Init
<1>2. Handed /\ Sealed
  BY DEF Handed, Sealed, View
<1>3. Durable
  BY DEF Durable, DataSafe, TagsSafe
<1>4. snaps[1] = mem /\ mem[Root] = 1
  BY DEF Vers
<1>5. History
  BY <1>4 DEF History
<1>6. Prepared /\ Based
  BY <1>4 DEF Prepared, Based, Flushing
<1> QED BY <1>1, <1>2, <1>3, <1>5, <1>6 DEF FilesInv

LEMMA FilesNext ==
    ASSUME Recoverable
    PROVE  FilesInv /\ [Next]_vars => FilesInv'
<1>1. FilesInv => BaseInv
  BY DEF FilesInv, BaseInv
<1> QED BY <1>1, BaseNext, HandedNext, SealedNext, DurableNext, HistoryNext, PreparedNext, BasedNext DEF FilesInv, BaseInv

\* What a reopened shard loads (RecoveredSnapshot), at every stop that Recoverable names:
\* every page passes its seal, and together they are one publication, whole, not older than
\* the last checkpoint of the log.
THEOREM Reload ==
    ASSUME Recoverable
    PROVE  Spec => []RecoveredSnapshot
<1>1. FilesInv => RecoveredSnapshot
  BY DEF FilesInv, History, Based, RecoveredSnapshot
<1> QED BY <1>1, FilesInit, FilesNext, PTL DEF Spec

\* The cache and data.img never lose a page (ReadYourWrites): between two calls what the pager
\* returns is what publish() last put there, after any evictions, flushes and such stops.
THEOREM CacheExact ==
    ASSUME Recoverable
    PROVE  Spec => []ReadYourWrites
<1>1. FilesInv => ReadYourWrites
  <2> SUFFICES ASSUME FilesInv, pc = "idle" PROVE ReadYourWrites
    BY DEF ReadYourWrites
  <2>1. todo = {}
    BY DEF FilesInv, Positions, Flushing
  <2>2. Handed
    BY DEF FilesInv
  <2> QED BY <2>1, <2>2 DEF Handed, View, ReadYourWrites
<1> QED BY <1>1, FilesInit, FilesNext, PTL DEF Spec
=============================================================================
