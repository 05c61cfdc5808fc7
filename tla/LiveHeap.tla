------------------------------ MODULE LiveHeap ------------------------------
(***************************************************************************)
(* The in-memory heap of a shard (pkg/c2db/engine.go).                     *)
(*                                                                         *)
(* One writer (the holder of the writer lock) and any number of lock-free  *)
(* readers share anonymous buffers.  The writer works in "dirty", and      *)
(* publish() swaps an atomic pointer to a descriptor (liveHeap: buffer,    *)
(* root, reference count).  A reader pins the descriptor it finds behind   *)
(* the pointer (pinLive: load, increment, load again).  The buffer of a    *)
(* superseded descriptor becomes the next dirty buffer when nobody pins    *)
(* it, and is otherwise kept in holdHeaps until reapHolds finds it free;   *)
(* one freed buffer is kept as "spare".  dirty and pub are only ever       *)
(* reconciled on the pages of dirtyMask (convergeDirtyFromPub).            *)
(*                                                                         *)
(* A page holds a stamp: every write of a page puts a new stamp there.     *)
(* Go memory is garbage collected, so a descriptor a reader still holds is *)
(* never reused: descriptors are numbered, buffers are not.                *)
(***************************************************************************)
EXTENDS Integers, FiniteSets

CONSTANTS
    Readers,     \* goroutines that read
    Bufs,        \* the addresses mmapAnon can return
    NoBuf,       \* a nil buffer
    Pages,       \* the pages in use of a heap
    Header,      \* page 0, stamped by every publish
    MaxHold,     \* maxHoldHeaps
    MaxStamp,    \* bound: number of page writes and publications
    Ops,         \* the write operations the workload calls
    FullOps,     \* those of them that may find the heap full
    MmapFails    \* whether mmapAnon may fail once the shard is open

NoHeap == -1     \* a nil liveHeap pointer

ASSUME LiveHeapAssumption ==
    /\ IsFiniteSet(Readers)
    /\ NoBuf \notin Bufs
    /\ Header \in Pages
    /\ MaxHold \in Nat \ {0}
    /\ MaxStamp \in Nat
    /\ Ops \subseteq {"put", "tx", "mut", "repack", "compact", "close", "fault"}
    /\ FullOps \subseteq Ops \cap {"put", "tx"}
    /\ MmapFails \in BOOLEAN

VARIABLES
    live,        \* Shard.live: the current descriptor
    desc,        \* the descriptors: buffer, root, and the image published (history)
    refs,        \* liveHeap.refs
    rpc, rd,     \* a reader's position in pinLive and the descriptor it loaded
    pub, dirty, spare, holds,  \* the Shard fields (holdHeaps as a set)
    mapped,      \* the buffers that are mapped
    heap,        \* buffer -> page -> stamp
    mask,        \* dirtyMask / dirtyList: the pages where dirty may differ from pub
    heapRoot,    \* Shard.heapRoot, as the stamp of the write that moved it
    stamp,       \* the last stamp used
    wpc, op,     \* the writer's position and the operation it executes
    initRoot,    \* Tx.initialHeapRoot, or putBody's initialHeapRoot
    toReap,      \* the holds this pass of reapHolds has not examined
    old,         \* publish()'s local variable old
    lost         \* the descriptors a publish() without a work buffer left in no list (history)

readerVars == <<rpc, rd>>
bufVars    == <<pub, dirty, spare, holds, mapped, heap, mask>>
writerVars == <<wpc, op, initRoot, toReap, old, heapRoot, stamp, lost>>
vars == <<live, desc, refs, readerVars, bufVars, writerVars>>

Descs  == 0 .. MaxStamp
Images == [Pages -> 0 .. MaxStamp]
BufOf(d) == desc[d].buf

DescTypes ==
    /\ live \in Descs \cup {NoHeap}
    /\ desc \in [Descs -> [buf : Bufs, root : Nat, img : Images]]
    /\ refs \in [Descs -> Int]

ReaderTypes ==
    /\ rpc \in [Readers -> {"idle", "loaded", "pinned", "stale", "reading"}]
    /\ rd \in [Readers -> Descs]

BufTypes ==
    /\ pub \in Bufs /\ dirty \in Bufs /\ spare \in Bufs \cup {NoBuf}
    /\ mapped \subseteq Bufs
    /\ heap \in [Bufs -> Images]
    /\ mask \subseteq Pages

WriterTypes ==
    /\ holds \subseteq Descs /\ toReap \subseteq holds /\ old \in Descs /\ lost \subseteq Descs
    /\ heapRoot \in 0 .. MaxStamp /\ initRoot \in 0 .. MaxStamp /\ stamp \in 0 .. MaxStamp
    /\ wpc \in {"idle", "prep", "write", "compact", "reap", "swapped", "reuse", "poisoned", "closed"}
    /\ op \in Ops \cup {"none", "repack", "rebuild-put", "rebuild-tx"}

\* The types; what reapHolds still has to examine is among the holds.
TypeOK == DescTypes /\ ReaderTypes /\ BufTypes /\ WriterTypes

-----------------------------------------------------------------------------
(* openShardInternal: pub is the loaded heap, dirty a copy of it, and      *)
(* installLive publishes the first descriptor.                             *)
Init ==
    \E b0, b1 \in Bufs :
        /\ b0 # b1
        /\ pub = b0 /\ dirty = b1 /\ spare = NoBuf /\ holds = {} /\ mapped = {b0, b1}
        /\ heap = [b \in Bufs |-> [p \in Pages |-> 0]]
        /\ desc = [d \in Descs |-> [buf |-> b0, root |-> 0, img |-> [p \in Pages |-> 0]]]
        /\ live = 0 /\ refs = [d \in Descs |-> 0]
        /\ rpc = [r \in Readers |-> "idle"] /\ rd = [r \in Readers |-> 0]
        /\ mask = {} /\ heapRoot = 0 /\ stamp = 0
        /\ wpc = "idle" /\ op = "none"
        /\ initRoot = 0 /\ toReap = {} /\ old = 0 /\ lost = {}

-----------------------------------------------------------------------------
(* Readers: pinLive, unpinLive, View.Cursor.                               *)

AddRef(d, n) == refs' = [refs EXCEPT ![d] = @ + n]

\* h := s.live.Load(); ready() refuses a poisoned or a closed shard first.
PinLoad(r) ==
    /\ rpc[r] = "idle"
    /\ live # NoHeap /\ wpc # "poisoned"
    /\ rd' = [rd EXCEPT ![r] = live]
    /\ rpc' = [rpc EXCEPT ![r] = "loaded"]
    /\ UNCHANGED <<live, desc, refs, bufVars, writerVars>>

\* ready() fails, or live is nil: the call returns an error.
PinRefused(r) ==
    /\ rpc[r] = "idle"
    /\ live = NoHeap \/ wpc = "poisoned"
    /\ UNCHANGED vars

\* h.refs.Add(1)
PinAdd(r) ==
    /\ rpc[r] = "loaded"
    /\ AddRef(rd[r], 1)
    /\ rpc' = [rpc EXCEPT ![r] = "pinned"]
    /\ UNCHANGED <<live, desc, rd, bufVars, writerVars>>

\* Mutant of PinCheck: the second load of live is left out.
PinCheckTrusting(r) ==
    /\ rpc[r] = "pinned"
    /\ rpc' = [rpc EXCEPT ![r] = "reading"]
    /\ UNCHANGED <<live, desc, refs, rd, bufVars, writerVars>>

\* if s.live.Load() == h
PinCheck(r) ==
    /\ rpc[r] = "pinned"
    /\ rpc' = [rpc EXCEPT ![r] = IF live = rd[r] THEN "reading" ELSE "stale"]
    /\ UNCHANGED <<live, desc, refs, rd, bufVars, writerVars>>

\* Mutant of PinRetry: the reference is not given back.
PinRetryLeaky(r) ==
    /\ rpc[r] = "stale"
    /\ rpc' = [rpc EXCEPT ![r] = "idle"] /\ rd' = [rd EXCEPT ![r] = 0]
    /\ UNCHANGED <<live, desc, refs, bufVars, writerVars>>

\* The pointer moved: give the reference back and load again.
PinRetry(r) ==
    /\ rpc[r] = "stale"
    /\ AddRef(rd[r], -1)
    /\ rpc' = [rpc EXCEPT ![r] = "idle"] /\ rd' = [rd EXCEPT ![r] = 0]
    /\ UNCHANGED <<live, desc, bufVars, writerVars>>

\* unpinLive, View.Close, Cursor.Close
Unpin(r) ==
    /\ rpc[r] = "reading"
    /\ AddRef(rd[r], -1)
    /\ rpc' = [rpc EXCEPT ![r] = "idle"] /\ rd' = [rd EXCEPT ![r] = 0]
    /\ UNCHANGED <<live, desc, bufVars, writerVars>>

\* View.Cursor pins its view's descriptor again, with no second look at live.
CursorOnView(v, r) ==
    /\ rpc[v] = "reading" /\ rpc[r] = "idle"
    /\ AddRef(rd[v], 1)
    /\ rd' = [rd EXCEPT ![r] = rd[v]]
    /\ rpc' = [rpc EXCEPT ![r] = "reading"]
    /\ UNCHANGED <<live, desc, bufVars, writerVars>>

-----------------------------------------------------------------------------
(* The writer.                                                             *)

Fresh == stamp + 1
CanWrite == stamp < MaxStamp

\* convergeDirtyFromPub: the pages of the dirty set, from pub to the buffer b.
Converged(b, from) == [p \in Pages |-> IF p \in mask THEN from[p] ELSE heap[b][p]]

Unmapped == Bufs \ mapped

\* The operation returns: its local variables are gone.
Return ==
    /\ wpc' = "idle" /\ op' = "none"
    /\ initRoot' = 0 /\ old' = 0 /\ toReap' = {}

\* A rebuild inside a transaction returns to the transaction.
ReturnToCaller ==
    IF op = "rebuild-tx"
    THEN wpc' = "write" /\ op' = "tx" /\ old' = 0 /\ UNCHANGED <<initRoot, toReap>>
    ELSE Return

\* Begin a Put, a Delete or a PutBatch: preparePublish comes first.
BeginPut ==
    /\ wpc = "idle" /\ "put" \in Ops
    /\ wpc' = "prep" /\ op' = "put"
    /\ toReap' = holds
    /\ UNCHANGED <<live, desc, refs, readerVars, bufVars, initRoot, old, heapRoot, stamp, lost>>

\* Begin: a transaction writes dirty and only prepares when it commits.
\* Mut and commitMut write without any preparePublish.
BeginUnprepared(o) ==
    /\ wpc = "idle" /\ o \in Ops /\ o \in {"tx", "mut"}
    /\ wpc' = "write" /\ op' = o
    /\ initRoot' = heapRoot
    /\ UNCHANGED <<live, desc, refs, readerVars, bufVars, toReap, old, heapRoot, stamp, lost>>

\* One iteration of the loop of reapHolds: a hold with no reference leaves
\* holdHeaps; its buffer becomes the spare when there is none, else is unmapped.
ReapKeep(h) ==
    /\ wpc \in {"prep", "reap"} /\ h \in toReap
    /\ refs[h] # 0
    /\ toReap' = toReap \ {h}
    /\ UNCHANGED <<live, desc, refs, readerVars, bufVars, wpc, op, initRoot, old, heapRoot, stamp, lost>>

\* Mutant of ReapFree: a free buffer leaves the holds and is neither kept nor unmapped.
ReapFreeForgets(h) ==
    /\ wpc \in {"prep", "reap"} /\ h \in toReap
    /\ refs[h] = 0
    /\ toReap' = toReap \ {h} /\ holds' = holds \ {h}
    /\ UNCHANGED <<live, desc, refs, readerVars, pub, dirty, spare, mapped, heap, mask, wpc, op, initRoot, old, heapRoot, stamp, lost>>

\* Mutant of ReapFree: the freed hold is examined again.
ReapFreeAgain(h) ==
    /\ wpc \in {"prep", "reap"} /\ h \in toReap
    /\ refs[h] = 0
    /\ holds' = holds \ {h}
    /\ spare' = IF spare = NoBuf THEN BufOf(h) ELSE spare
    /\ mapped' = IF spare = NoBuf THEN mapped ELSE mapped \ {BufOf(h)}
    /\ UNCHANGED <<live, desc, refs, readerVars, pub, dirty, heap, mask, wpc, op, initRoot, toReap, old, heapRoot, stamp, lost>>

ReapFree(h) ==
    /\ wpc \in {"prep", "reap"} /\ h \in toReap
    /\ refs[h] = 0
    /\ toReap' = toReap \ {h} /\ holds' = holds \ {h}
    /\ LET b == BufOf(h)
           free == b \notin {pub, dirty}
       IN /\ spare' = IF spare = NoBuf /\ free THEN b ELSE spare
          /\ mapped' = IF spare # NoBuf /\ free /\ b # spare THEN mapped \ {b} ELSE mapped
    /\ UNCHANGED <<live, desc, refs, readerVars, pub, dirty, heap, mask, wpc, op, initRoot, old, heapRoot, stamp, lost>>

\* preparePublish: the ceiling, then the spare buffer allocated in advance.
PrepareRefused ==
    /\ wpc = "prep" /\ toReap = {}
    /\ \/ Cardinality(holds) >= MaxHold
       \/ spare = NoBuf /\ MmapFails
       \/ "fault" \in Ops   \* Pager.Reserve or FlushDirty fails
    /\ Return
    \* Tx.Commit rolls its state back before returning the error.
    /\ IF op = "tx"
       THEN /\ heapRoot' = initRoot /\ mask' = {}
            /\ heap' = [heap EXCEPT ![dirty] = Converged(dirty, heap[pub])]
       ELSE UNCHANGED <<heapRoot, mask, heap>>
    /\ UNCHANGED <<live, desc, refs, readerVars, pub, dirty, spare, holds, mapped, stamp, lost>>

Prepare(ceiling) ==
    /\ wpc = "prep" /\ toReap = {}
    /\ Cardinality(holds) < ceiling
    /\ IF spare # NoBuf
       THEN UNCHANGED <<spare, mapped, heap>>
       ELSE \E b \in Unmapped :
               /\ spare' = b /\ mapped' = mapped \cup {b}
               /\ heap' = [heap EXCEPT ![b] = [p \in Pages |-> 0]]
    /\ IF op = "tx"
       THEN wpc' = "reap" /\ toReap' = holds /\ UNCHANGED initRoot
       ELSE wpc' = "write" /\ initRoot' = heapRoot /\ UNCHANGED toReap
    /\ UNCHANGED <<live, desc, refs, readerVars, pub, dirty, holds, mask, op, old, heapRoot, stamp, lost>>

\* Mutant of PrepareOk: off by one at the ceiling.
PrepareLate == Prepare(MaxHold + 1)

PrepareOk == Prepare(MaxHold)

\* Mutant of WritePage: the page is not entered in the dirty set.
WritePageUnmarked(p) ==
    /\ wpc = "write" /\ CanWrite
    /\ heap' = [heap EXCEPT ![dirty][p] = Fresh]
    /\ mask' = mask /\ stamp' = Fresh
    /\ heapRoot' = IF p = Header THEN Fresh ELSE heapRoot
    /\ UNCHANGED <<live, desc, refs, readerVars, pub, dirty, spare, holds, mapped, wpc, op, initRoot, toReap, old, lost>>

\* applyInsertVer / applyDelete: a page of dirty is rewritten (markDirty); a root
\* that moves is stamped in page 0 (adoptHeap).
WritePage(p) ==
    /\ wpc = "write" /\ CanWrite
    /\ heap' = [heap EXCEPT ![dirty][p] = Fresh]
    /\ mask' = mask \cup {p} /\ stamp' = Fresh
    /\ heapRoot' = IF p = Header THEN Fresh ELSE heapRoot
    /\ UNCHANGED <<live, desc, refs, readerVars, pub, dirty, spare, holds, mapped, wpc, op, initRoot, toReap, old, lost>>

\* fail() of putBody, deleteBody and putBatchLocked; rollbackState of a
\* transaction: root restored, dirty realigned on pub over the dirty set.  A Mut
\* whose only insertion fails is realigned by applyInsertVer, its root unmoved.
Abandon ==
    /\ wpc = "write"
    /\ heap' = [heap EXCEPT ![dirty] = Converged(dirty, heap[pub])]
    /\ mask' = {} /\ heapRoot' = initRoot
    /\ Return
    /\ UNCHANGED <<live, desc, refs, readerVars, pub, dirty, spare, holds, mapped, stamp, lost>>

\* A transaction meets a full heap and the rebuild fails too: applyInsertVer has
\* realigned dirty (the transaction's pages are gone), the root has not moved
\* back, and the transaction may go on.
HeapFullNoRoom ==
    /\ wpc = "write" /\ op = "tx" /\ op \in FullOps
    /\ heap' = [heap EXCEPT ![dirty] = Converged(dirty, heap[pub])]
    /\ mask' = {}
    /\ UNCHANGED <<live, desc, refs, readerVars, pub, dirty, spare, holds, mapped, writerVars>>

\* The heap is rebuilt in a new buffer: the old dirty buffer is unmapped, every
\* page is marked (markAllDirty), then publish() is called.
Rebuilt(b, o) ==
    /\ b \in Unmapped
    /\ CanWrite /\ stamp' = Fresh /\ heapRoot' = Fresh
    /\ heap' = [heap EXCEPT ![b] = [p \in Pages |-> Fresh]]
    /\ dirty' = b
    /\ mapped' = (mapped \ (IF dirty # pub THEN {dirty} ELSE {})) \cup {b}
    /\ mask' = Pages
    /\ wpc' = "reap" /\ op' = o /\ toReap' = holds

\* retryAfterHeapFull -> tryAutoCompact (rebuildAllVersionsLocked and
\* rebuildLatestLocked).  putBody and its like have run fail() before;
\* txPutOnce has not: the transaction's own pages are dropped with dirty.
HeapFull ==
    \E b \in Bufs :
       /\ wpc = "write" /\ op \in FullOps
       /\ Rebuilt(b, IF op = "tx" THEN "rebuild-tx" ELSE "rebuild-put")
       /\ UNCHANGED <<live, desc, refs, readerVars, pub, spare, holds, initRoot, old, lost>>

\* compactLocked packs the leaves of pub in place, one after the other ...
CompactInPlace(p) ==
    /\ wpc \in {"idle", "compact"} /\ "compact" \in Ops /\ CanWrite
    /\ heap' = [heap EXCEPT ![pub][p] = Fresh]
    /\ stamp' = Fresh /\ mask' = mask \cup {p}
    /\ wpc' = "compact"
    /\ UNCHANGED <<live, desc, refs, readerVars, pub, dirty, spare, holds, mapped, heapRoot, op, initRoot, toReap, old, lost>>

\* ... then repacks, like RepackHeap (repackHeapInternal), outside any prepared write.
Repack ==
    \E b \in Bufs :
       /\ \/ wpc = "idle" /\ "repack" \in Ops
          \/ wpc = "compact" /\ "compact" \in Ops
       /\ Rebuilt(b, "repack")
       /\ UNCHANGED <<live, desc, refs, readerVars, pub, spare, holds, initRoot, old, lost>>

\* repackHeapInternal finds no page to give back, or no memory: Compact returns
\* without a publication, the packed leaves stay.
CompactNoRepack ==
    /\ wpc = "compact"
    /\ Return
    /\ UNCHANGED <<live, desc, refs, readerVars, bufVars, heapRoot, stamp, lost>>

\* The write is journalled and applied: call publish() (a transaction, once
\* preparePublish has succeeded, gets there from PrepareOk).
StartPublish ==
    /\ wpc = "write" /\ op \in {"put", "mut"}
    /\ wpc' = "reap" /\ toReap' = holds
    /\ UNCHANGED <<live, desc, refs, readerVars, bufVars, op, initRoot, old, heapRoot, stamp, lost>>

\* Tx.Commit: preparePublish comes once the writes are made.
StartCommit ==
    /\ wpc = "write" /\ op = "tx"
    /\ wpc' = "prep" /\ toReap' = holds
    /\ UNCHANGED <<live, desc, refs, readerVars, bufVars, op, initRoot, old, heapRoot, stamp, lost>>

AtCeiling == refs[live] # 0 /\ Cardinality(holds) >= MaxHold

\* The loop at the ceiling: another pass of reapHolds.
ReapAgain ==
    /\ wpc = "reap" /\ toReap = {} /\ AtCeiling
    /\ toReap' = holds
    /\ UNCHANGED <<live, desc, refs, readerVars, bufVars, wpc, op, initRoot, old, heapRoot, stamp, lost>>

\* Where the writer goes when publish() returns to it: tryAutoCompact calls the
\* operation again, every other caller is done.
AfterPublish ==
    IF op = "rebuild-put"
    THEN /\ wpc' = "prep" /\ op' = "put" /\ toReap' = holds'
         /\ initRoot' = 0 /\ old' = 0
    ELSE ReturnToCaller

\* publish() returns an error: Tx.Commit poisons the shard, every other caller
\* returns the error as it is.
PublishFails ==
    IF op = "tx" THEN wpc' = "poisoned" /\ UNCHANGED <<op, initRoot, toReap, old>>
    ELSE ReturnToCaller

\* return ErrViewHeld, before anything was swapped.
PublishRefused ==
    /\ wpc = "reap" /\ toReap = {} /\ AtCeiling
    /\ PublishFails
    /\ UNCHANGED <<live, desc, refs, readerVars, bufVars, heapRoot, stamp, lost>>

\* publishFaultInjection (before reapHolds), or a PutPage that fails (after it): the
\* shard is poisoned.
PublishPoison ==
    /\ wpc = "reap" /\ toReap \in {holds, {}} /\ "fault" \in Ops
    /\ wpc' = "poisoned"
    /\ UNCHANGED <<live, desc, refs, readerVars, bufVars, op, initRoot, toReap, old, heapRoot, stamp, lost>>

\* Stamp page 0, hand the dirty pages to the pager (see Pager), swap live.
PublishSwap ==
    /\ wpc = "reap" /\ toReap = {} /\ ~AtCeiling /\ CanWrite
    /\ LET img == [heap[dirty] EXCEPT ![Header] = Fresh]
       IN /\ heap' = [heap EXCEPT ![dirty] = img]
          /\ desc' = [desc EXCEPT ![Fresh] = [buf |-> dirty, root |-> heapRoot, img |-> img]]
    /\ live' = Fresh /\ stamp' = Fresh
    /\ old' = live /\ pub' = dirty
    /\ mask' = mask \cup {Header}
    /\ wpc' = "swapped"
    /\ UNCHANGED <<refs, readerVars, dirty, spare, holds, mapped, op, initRoot, toReap, heapRoot, lost>>

\* if old.refs.Load() != 0: keep the old heap, take the spare (or a new buffer)
\* as dirty, copy the whole of pub into it (syncDirtyFull).
PublishHold ==
    /\ wpc = "swapped" /\ refs[old] # 0
    /\ holds' = holds \cup {old}
    /\ \E b \in Bufs :
          /\ IF spare # NoBuf THEN b = spare ELSE b \in Unmapped
          /\ dirty' = b /\ mapped' = mapped \cup {b}
          /\ heap' = [heap EXCEPT ![b] = heap[pub]]
    /\ spare' = NoBuf /\ mask' = {}
    /\ AfterPublish
    /\ UNCHANGED <<live, desc, refs, readerVars, pub, heapRoot, stamp, lost>>

\* takeSpareDirty fails: publish() returns with dirty still the buffer it has
\* just published, and the old descriptor in no list.
PublishNoBuffer ==
    /\ \/ wpc = "swapped" /\ refs[old] # 0
       \/ wpc = "reuse" /\ refs[old] = 0 /\ BufOf(old) = pub
    /\ spare = NoBuf /\ MmapFails
    /\ PublishFails
    /\ lost' = lost \cup {old}
    /\ UNCHANGED <<live, desc, refs, readerVars, bufVars, heapRoot, stamp>>

\* The second look at old.refs finds 0 ...
PublishUnpinned ==
    /\ wpc = "swapped" /\ refs[old] = 0
    /\ wpc' = "reuse"
    /\ UNCHANGED <<live, desc, refs, readerVars, bufVars, op, initRoot, toReap, old, heapRoot, stamp, lost>>

\* ... and once the loop on old.refs has seen 0 again (a reader that loaded the
\* pointer before the swap may count itself for a moment) the old buffer is
\* the next dirty one, realigned on the dirty set only.
PublishReuse ==
    /\ wpc = "reuse" /\ refs[old] = 0
    /\ \E b \in Bufs :
          /\ CASE BufOf(old) # pub -> b = BufOf(old) /\ UNCHANGED spare
               [] BufOf(old) = pub /\ spare # NoBuf -> b = spare /\ spare' = NoBuf
               [] OTHER -> b \in Unmapped /\ UNCHANGED spare
          /\ dirty' = b /\ mapped' = mapped \cup {b}
          /\ heap' = [heap EXCEPT ![b] = Converged(b, heap[pub])]
    /\ mask' = {} /\ UNCHANGED holds
    /\ AfterPublish
    /\ UNCHANGED <<live, desc, refs, readerVars, pub, heapRoot, stamp, lost>>

\* Close, CloseWithoutFlush, KillWithoutFlush: unmapHeaps, whoever reads.
Close ==
    /\ wpc \in {"idle", "poisoned"} /\ "close" \in Ops
    /\ mapped' = mapped \ ({pub, dirty, spare} \cup {BufOf(h) : h \in holds})
    /\ holds' = {} /\ spare' = NoBuf /\ toReap' = {}
    /\ live' = NoHeap /\ wpc' = "closed"
    /\ UNCHANGED <<desc, refs, readerVars, pub, dirty, heap, mask, op, initRoot, old, heapRoot, stamp, lost>>

-----------------------------------------------------------------------------
ReaderNext(r) ==
    \/ PinLoad(r)
    \/ PinRefused(r)
    \/ PinAdd(r)
    \/ PinCheck(r)
    \/ PinRetry(r)
    \/ Unpin(r)
    \/ \E v \in Readers : CursorOnView(v, r)

WriterNext ==
    \/ BeginPut
    \/ \E o \in {"tx", "mut"} : BeginUnprepared(o)
    \/ \E h \in holds : ReapKeep(h)
    \/ \E h \in holds : ReapFree(h)
    \/ PrepareRefused
    \/ PrepareOk
    \/ \E p \in Pages : WritePage(p)
    \/ Abandon
    \/ HeapFullNoRoom
    \/ HeapFull
    \/ Repack
    \/ \E p \in Pages : CompactInPlace(p)
    \/ CompactNoRepack
    \/ StartPublish
    \/ StartCommit
    \/ ReapAgain
    \/ PublishRefused
    \/ PublishPoison
    \/ PublishSwap
    \/ PublishHold
    \/ PublishNoBuffer
    \/ PublishUnpinned
    \/ PublishReuse
    \/ Close

Next == (\E r \in Readers : ReaderNext(r)) \/ WriterNext

Spec == Init /\ [][Next]_vars

(* Go preempts and resumes every goroutine, so a reader inside pinLive and *)
(* the writer inside publish() both go on.  Nothing is assumed of a reader *)
(* that holds a view: it may hold it for ever.                             *)
Fairness ==
    /\ \A r \in Readers : WF_vars(PinAdd(r) \/ PinCheck(r) \/ PinRetry(r))
    /\ WF_vars(PublishHold \/ PublishUnpinned \/ PublishReuse)

FairSpec == Spec /\ Fairness

-----------------------------------------------------------------------------
(* Properties.                                                             *)

\* A reader that pinLive let through reads, for as long as it holds its pin,
\* a mapped buffer with exactly the image publish() swapped in: neither the
\* next writes, nor buffer reuse, nor reapHolds ever touch it.
SnapshotStable ==
    \A r \in Readers :
        rpc[r] = "reading" =>
            /\ BufOf(rd[r]) \in mapped
            /\ heap[BufOf(rd[r])] = desc[rd[r]].img

\* No reader reads an unmapped buffer before the shard is closed.
ReadsMapped ==
    \A r \in Readers : rpc[r] = "reading" /\ wpc # "closed" => BufOf(rd[r]) \in mapped

\* ReadsMapped holds even under the operations that rewrite or replace the heap
\* outside a prepared write, as long as no publish() has come back without a work
\* buffer: after that one, two descriptors share a buffer, and reapHolds frees it
\* for the first of them that is unpinned (LiveHeap_lost).
MappedWhileOpen == lost = {} => ReadsMapped

\* maxHoldHeaps is a strict ceiling, although publish() only looks at it before
\* the swap and readers pin between the look and the swap.
HoldCeiling == Cardinality(holds) <= MaxHold

\* Whatever the fate of the last operation (published, refused, abandoned,
\* rolled back), the idle writer finds its work buffer equal to the published
\* heap on every page and its root the published root, although only the pages
\* of the dirty set are ever copied back.
NoTrace ==
    wpc = "idle" => heapRoot = desc[live].root /\ heap[dirty] = heap[pub]

\* The reservation of preparePublish holds until the publication: publish() never
\* returns ErrViewHeld to a writer that prepared, whose record is in the journal.
PreparedAccepted ==
    wpc = "reap" /\ op \in {"put", "tx"} => Cardinality(holds) < MaxHold

\* The buffers that have an owner: a Shard field, or a descriptor that is kept.
Owned ==
    ({pub, dirty, spare} \ {NoBuf})
        \cup {BufOf(h) : h \in holds}
        \cup (IF wpc \in {"swapped", "reuse"} THEN {BufOf(old)} ELSE {})

\* No buffer is leaked and none is used unmapped: while the shard is open what is
\* mapped is exactly what the Shard's fields can reach.
BuffersAccounted == wpc # "closed" => mapped = Owned

\* refs counts the readers between their increment and their decrement: no
\* reference is lost when a pin is retried, so a superseded heap is free as soon
\* as its last reader leaves.
PinnersOf(d) == {r \in Readers : rd[r] = d /\ rpc[r] \in {"pinned", "stale", "reading"}}
RefsExact == \A d \in Descs : refs[d] = Cardinality(PinnersOf(d))

\* Once it has swapped, publish() returns although readers come and go: the loop
\* on old.refs only ever waits for readers that will back off.
PublishTerminates == wpc \in {"swapped", "reuse"} ~> wpc \notin {"swapped", "reuse"}

-----------------------------------------------------------------------------
(* The abstract view of the readers: the image behind live, and that of    *)
(* each descriptor a reader has pinned for good.                           *)
Shown(d) == [root |-> desc[d].root, img |-> heap[BufOf(d)]]
Abstract ==
    INSTANCE Snapshots WITH
        current <- IF live = NoHeap THEN {} ELSE {Shown(live)},
        view <- [r \in Readers |-> IF rpc[r] = "reading" THEN {{Shown(rd[r])}} ELSE {}]

\* pinLive, publish and the views implement Snapshots: a view never shows
\* anything but the image that was current when pinLive took it, whole, and
\* the current image changes only when live is swapped.
SnapshotSpec == Abstract!Spec
=============================================================================
