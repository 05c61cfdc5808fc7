------------------------------ MODULE TreeHeap ------------------------------
(***************************************************************************)
(* The keyed contents of a shard: puts, deletions, batches, transactions,  *)
(* rebuilds and reads over the versioned B-tree (pkg/c2db/engine.go,       *)
(* tx.go, cursor.go).                                                      *)
(*                                                                         *)
(* live is the published buffer and its root; work is the writer's buffer  *)
(* with the pages marked dirty, the root and the number of used pages.     *)
(* The writer lock serialises the calls, so a call other than those of a   *)
(* transaction is one step; what readers see during a publication is the   *)
(* subject of LiveHeap, the journal that of Journal.  Identifiers are the  *)
(* numbers the calls draw from a clock taken to advance.  A cursor stands  *)
(* on the published heap it pinned.  committed and staged record the       *)
(* writes acknowledged so far and those of the open transaction; they are  *)
(* history variables that the code does not have.                          *)
(***************************************************************************)
EXTENDS Cursor

CONSTANTS
    Shards,       \* shards with a past: a retention and the calls already served
    OpKeys,       \* keys of the calls made after them
    OpVals,       \* values of the calls made after them
    Watermark,    \* heapWatermark: used pages from which new keys are refused
    MaxCalls,     \* calls made after the workload
    MaxBatch,     \* writes of one batch or one transaction
    TxFills,      \* whether a transaction may run into a full heap
    TxRewrites,   \* whether a transaction may put one key twice
    CursorMoves,  \* the moves made on a cursor
    CursorPages   \* a cursor is opened on heaps of at most so many pages

Gone == 0         \* the value of a deletion in the record of writes

ASSUME TreeHeapAssumption ==
    /\ 0 \notin Keys \cup Vals /\ OpKeys \subseteq Keys /\ OpVals \subseteq Vals
    /\ \A sh \in Shards :
          /\ sh.retention \in {"keep", "prune", "archive"}
          /\ \A i \in DOMAIN sh.served : \A j \in DOMAIN sh.served[i] :
                sh.served[i][j].k \in Keys /\ sh.served[i][j].v \in Vals \cup {Gone}
    /\ CursorMoves \subseteq {"first", "last", "seek", "next", "prev"}
    /\ Watermark \in Nat /\ {MaxCalls, MaxBatch, CursorPages} \subseteq Nat
    /\ {TxFills, TxRewrites} \subseteq BOOLEAN

VARIABLES live, work, retention, history, lastId, calls, tx, cursor, wanted, committed, staged
vars == <<live, work, retention, history, lastId, calls, tx, cursor, wanted, committed, staged>>

Writes(k, v) == [k |-> k, v |-> v]
TopId == 1000     \* the snapshot of all ones

-----------------------------------------------------------------------------
(* One write on the working buffer.                                        *)

\* convergeDirtyFromPub
Converge(l, w) ==
    [w EXCEPT !.h = [p \in w.marks |-> l.h[p]] @@ @, !.marks = {}]

\* markWritePath
MarkWritePath(w, h, k) ==
    [w EXCEPT !.marks = @ \cup (ToSet(Path(h, w.root, k)) \cap (0 .. w.used - 1))]

\* Mutant of Adopt: only the pages of the kernel's mask are marked.
AdoptMaskOnly(w, st) ==
    [h |-> st.h, root |-> st.root, used |-> st.used,
     marks |-> w.marks \cup {0, st.root, w.root} \cup st.mask]

\* recordDirtyPages and adoptHeap
Adopt(w, st) ==
    [h |-> st.h, root |-> st.root, used |-> st.used,
     marks |-> w.marks \cup {0, st.root, w.root} \cup st.mask
                       \cup ((w.used .. st.used) \cap PageIds)]

\* The source of a call's copies: the published buffer, or the working one.
Source(own, l, w) == [own |-> own, h |-> IF own THEN w.h ELSE l.h]

\* applyInsertVer after the compaction of the leaf
Repacked(l, n, again) ==
    IF again.ok THEN [ok |-> TRUE, w |-> Adopt(n, again)]
    ELSE [ok |-> FALSE, w |-> Converge(l, [n EXCEPT !.h = again.h])]

\* applyInsertVer after the kernel's verdict: a leaf without room is compacted
\* in place and the insertion tried again.
AdoptOrPack(l, own, m, st, k, id, v, prune) ==
    LET path  == Path(st.h, m.root, k)
        leaf  == Last(path)
        pack  == SlotPackCompact(st.h[leaf])
        n     == [m EXCEPT !.h = [st.h EXCEPT ![leaf] = pack.pg], !.marks = @ \cup {leaf}]
    IN  IF st.ok THEN [ok |-> TRUE, w |-> Adopt(m, st)]
        ELSE IF st.full \/ path = <<>> \/ pack.freed = 0
             THEN [ok |-> FALSE, w |-> Converge(l, [m EXCEPT !.h = st.h])]
        ELSE Repacked(l, n, InsertVerHeap(Source(own, l, n), n.h, n.root, n.used, k, id, v, prune))

\* applyInsertVer: refused above the watermark unless the key exists.
ApplyInsertVer(l, w, own, k, id, v, prune) ==
    LET src    == Source(own, l, w)
        m      == MarkWritePath(w, src.h, k)
        exists == GetAsOfHeap(l.h, l.root, k, TopId) # {} \/ GetAsOfHeap(src.h, w.root, k, TopId) # {}
    IN  IF w.used >= Watermark /\ ~exists THEN [ok |-> FALSE, w |-> w]
        ELSE AdoptOrPack(l, own, m, InsertVerHeap(src, m.h, m.root, m.used, k, id, v, prune), k, id, v, prune)

\* applyDelete
ApplyDelete(l, w, own, k) ==
    LET src == Source(own, l, w)
        m   == MarkWritePath(w, src.h, k)
        st  == DelHeap(src, m.h, m.root, m.used, k)
    IN  IF st.ok THEN [ok |-> TRUE, w |-> Adopt(m, st)]
        ELSE [ok |-> FALSE, w |-> Converge(l, [m EXCEPT !.h = st.h])]

Apply(l, w, own, id, op, prune) ==
    IF op.v = Gone THEN ApplyDelete(l, w, own, op.k)
    ELSE ApplyInsertVer(l, w, own, op.k, id, op.v, prune)

\* appendDeleteTombstone
Tombstone(ret, hist, op, id) ==
    IF ret = "archive" /\ op.v = Gone THEN hist \cup {[k |-> op.k, id |-> id, v |-> Gone]} ELSE hist

\* publish, when no reader holds the old buffer: it becomes the working one
\* after the pages of the set are copied back.
Published(l, w) ==
    [live |-> [h |-> w.h, root |-> w.root],
     work |-> [w EXCEPT !.h = [p \in w.marks |-> @[p]] @@ l.h, !.marks = {}]]

-----------------------------------------------------------------------------
(* A call of several writes, all or nothing, and the rebuild of a heap     *)
(* that is full.  s is [live, work, hist].                                 *)

Stepped(ret, hist, op, id, r) ==
    [ok |-> r.ok, w |-> r.w, hist |-> IF r.ok THEN Tombstone(ret, hist, op, id) ELSE hist]

\* The writes of a call, from the i-th on: the first copies from the published
\* buffer, the others from the working one; the first refused ends the loop.
RECURSIVE ApplyAll(_, _, _, _, _, _)
ApplyAll(ret, l, a, ops, firstId, i) ==
    IF ~a.ok \/ i > Len(ops) THEN a
    ELSE ApplyAll(ret, l,
                  Stepped(ret, a.hist, ops[i], firstId + i - 1,
                          Apply(l, a.w, i > 1, firstId + i - 1, ops[i], ret = "prune")),
                  ops, firstId, i + 1)

\* putBody, deleteBody, putBatchLocked, deleteChunkLocked: all is published
\* or all is taken back.
Ended(s, a) ==
    IF a.ok THEN [ok |-> TRUE, hist |-> a.hist] @@ Published(s.live, a.w)
    ELSE [ok |-> FALSE, hist |-> a.hist, live |-> s.live,
          work |-> Converge(s.live, [a.w EXCEPT !.root = s.work.root, !.used = s.work.used])]
Once(ret, s, ops, firstId) ==
    Ended(s, ApplyAll(ret, s.live, [ok |-> TRUE, w |-> s.work, hist |-> s.hist], ops, firstId, 1))

\* rebuildAllVersionsLocked, rebuildLatestLocked: the versions go into a new
\* buffer, every page of which is marked.
NewHeap == (0 :> Packed("leaf", 0, <<>>)) @@ [p \in PageIds |-> RawPage]
RECURSIVE InsertAll(_, _, _, _)
InsertAll(ret, l, a, cells) ==
    IF ~a.ok \/ cells = <<>> THEN a
    ELSE LET c == Head(cells)
         IN  InsertAll(ret, l, ApplyInsertVer(l, a.w, TRUE, c.k, c.id, c.v, ret = "prune"), Tail(cells))
Rebuilt(s, a) ==
    IF a.ok THEN [ok |-> TRUE, hist |-> s.hist] @@ Published(s.live, a.w)
    ELSE [ok |-> FALSE, hist |-> s.hist, live |-> s.live,
          work |-> Converge(s.live, [s.work EXCEPT !.marks = a.w.marks])]
Rebuild(ret, s, cells) ==
    LET new == [h |-> NewHeap, root |-> 0, used |-> 1, marks |-> PageIds]
    IN  Rebuilt(s, InsertAll(ret, s.live, [ok |-> TRUE, w |-> new], cells))

\* archiveSupersededLocked: every version but the last of its key.
Superseded(cells) ==
    {cells[i] : i \in {j \in 1 .. Len(cells) :
                       \/ ValLen[cells[j].v] = 0
                       \/ j < Len(cells) /\ cells[j + 1].k = cells[j].k}}

\* tryAutoCompact
Kept(ret, s, cells) == IF ret = "archive" THEN [s EXCEPT !.hist = @ \cup Superseded(cells)] ELSE s
AutoCompact(ret, s, snap) ==
    LET cells  == LeafCells(s.live.h, s.work.root)
        latest == Walk(First(NewCursor(s.live.h, s.live.root, snap)))
    IN  IF ret = "keep" /\ cells = <<>> THEN [ok |-> TRUE] @@ s
        ELSE Rebuild(ret, Kept(ret, s, cells), IF ret = "keep" THEN cells ELSE latest)

\* retryAfterHeapFull: a call refused for want of room runs once more after a
\* rebuild; it draws new identifiers.
State(x) == [live |-> x.live, work |-> x.work, hist |-> x.hist]
Retried(ret, fix, ops, id) ==
    IF fix.ok THEN [first |-> id + Len(ops)] @@ Once(ret, State(fix), ops, id + Len(ops))
    ELSE [first |-> id] @@ fix
Tried(ret, one, ops, id) ==
    IF one.ok THEN [first |-> id] @@ one
    ELSE Retried(ret, AutoCompact(ret, State(one), id + Len(ops) - 1), ops, id)
Call(ret, s, ops, id) == Tried(ret, Once(ret, s, ops, id), ops, id)

-----------------------------------------------------------------------------
Stamped(ops, first) == {[k |-> ops[i].k, id |-> first + i - 1, v |-> ops[i].v] : i \in 1 .. Len(ops)}

Fresh == [live |-> [h |-> NewHeap, root |-> 0],
          work |-> [h |-> NewHeap, root |-> 0, used |-> 1, marks |-> {}], hist |-> {}]

\* A shard that was opened and has served a workload.
After(s, ops, r) ==
    [live |-> r.live, work |-> r.work, hist |-> r.hist, id |-> s.id + 2 * Len(ops),
     done |-> s.done \cup IF r.ok THEN Stamped(ops, r.first) ELSE {}]
RECURSIVE ServedFrom(_, _, _)
ServedFrom(ret, s, wl) ==
    IF wl = <<>> THEN s
    ELSE ServedFrom(ret, After(s, Head(wl), Call(ret, s, Head(wl), s.id + 1)), Tail(wl))
Served(ret, wl) == ServedFrom(ret, [id |-> 0, done |-> {}] @@ Fresh, wl)
NoTx == [open |-> FALSE, root |-> 0, used |-> 0]
Closed == [open |-> FALSE]

Opened(ret, end) ==
    /\ live = end.live /\ work = end.work /\ history = end.hist /\ retention = ret
    /\ committed = end.done /\ lastId = end.id
    /\ calls = 0 /\ tx = NoTx /\ staged = <<>>
    /\ cursor = Closed /\ wanted = NoCell
Init == \E sh \in Shards : Opened(sh.retention, Served(sh.retention, sh.served))

Here == [live |-> live, work |-> work, hist |-> history]

\* Shard.Put, Delete, PutBatch, DeleteBatch.
Wrote(ops, r) ==
    /\ live' = r.live /\ work' = r.work /\ history' = r.hist
    /\ committed' = IF r.ok THEN committed \cup Stamped(ops, r.first) ELSE committed
    /\ lastId' = lastId + 2 * Len(ops) /\ calls' = calls + 1
    /\ UNCHANGED <<retention, tx, cursor, wanted, staged>>
Write(ops) ==
    /\ ~tx.open /\ ~cursor.open /\ calls < MaxCalls
    /\ Wrote(ops, Call(retention, Here, ops, lastId + 1))
Put(k, v) == Write(<<Writes(k, v)>>)
Delete(k) == Write(<<Writes(k, Gone)>>)
PutBatch(ops) == (\A i \in DOMAIN ops : ops[i].v # Gone) /\ Write(ops)
DeleteBatch(ops) == (\A i \in DOMAIN ops : ops[i].v = Gone) /\ Write(ops)

-----------------------------------------------------------------------------
(* Transactions: the writes share the transaction's identifier and work on *)
(* the working buffer.                                                     *)

Begin ==
    /\ ~tx.open /\ ~cursor.open /\ calls < MaxCalls
    /\ tx' = [open |-> TRUE, root |-> work.root, used |-> work.used]
    /\ lastId' = lastId + 1 /\ calls' = calls + 1
    /\ UNCHANGED <<live, work, retention, history, cursor, wanted, committed, staged>>

\* txPut, txDelete: a write refused for want of room rebuilds the heap in the
\* middle of the transaction and is tried again.
TxWrote(op, r) ==
    /\ TxFills \/ r.once
    /\ live' = r.live /\ work' = r.work
    /\ history' = IF r.ok THEN Tombstone(retention, r.hist, op, lastId) ELSE r.hist
    /\ staged' = IF r.ok THEN Append(staged, op) ELSE staged
    /\ UNCHANGED <<retention, lastId, calls, tx, cursor, wanted, committed>>
TxApply(s, op) == Apply(s.live, s.work, TRUE, lastId, op, retention = "prune")
TxEnd(once, s, r) == [once |-> once, ok |-> r.ok, live |-> s.live, hist |-> s.hist, work |-> r.w]
TxRetried(fix, op) ==
    IF fix.ok THEN TxEnd(FALSE, fix, TxApply(fix, op)) ELSE [once |-> FALSE] @@ fix
TxTried(s, one, op) ==
    IF one.ok THEN TxEnd(TRUE, s, one)
    ELSE TxRetried(AutoCompact(retention, [s EXCEPT !.work = one.w], lastId), op)
TxWrite(op) ==
    /\ tx.open /\ ~cursor.open /\ Len(staged) < MaxBatch
    /\ TxRewrites \/ \A i \in DOMAIN staged : staged[i].k # op.k
    /\ TxWrote(op, TxTried(Here, TxApply(Here, op), op))

Commit ==
    LET p == Published(live, work)
    IN  /\ tx.open /\ ~cursor.open
        /\ live' = p.live /\ work' = p.work
        /\ committed' = committed \cup {[k |-> staged[i].k, id |-> lastId, v |-> staged[i].v] :
                                         i \in {j \in DOMAIN staged : \A m \in DOMAIN staged :
                                                    staged[m].k = staged[j].k => m <= j}}
        /\ tx' = NoTx /\ staged' = <<>>
        /\ UNCHANGED <<retention, history, lastId, calls, cursor, wanted>>

\* Tx.Rollback, rollbackState
Rollback ==
    /\ tx.open /\ ~cursor.open
    /\ work' = Converge(live, [work EXCEPT !.root = tx.root, !.used = tx.used])
    /\ tx' = NoTx /\ staged' = <<>>
    /\ UNCHANGED <<live, retention, history, lastId, calls, cursor, wanted, committed>>

-----------------------------------------------------------------------------
(* Reads.                                                                  *)

\* History.Resolve: the newest archived version, a set of at most one.
Resolved(k, snap) ==
    LET cold == {r \in history : r.k = k /\ r.id <= snap}
    IN  {r \in cold : \A q \in cold : q.id <= r.id}

\* Shard.GetAsOf: the heap first, then the archived versions.
GetAsOf(k, snap) ==
    LET hot  == GetAsOfHeap(live.h, live.root, k, snap)
        cold == IF retention = "archive" THEN Resolved(k, snap) ELSE {}
    IN  IF hot # {} THEN (CHOOSE c \in hot : TRUE).v
        ELSE IF cold # {} THEN (CHOOSE r \in cold : TRUE).v
        ELSE Gone

\* What the acknowledged writes say of a key at a snapshot.
Truth(k, snap) ==
    LET ws == {w \in committed : w.k = k /\ w.id <= snap}
    IN  IF ws = {} THEN Gone ELSE (CHOOSE w \in ws : \A x \in ws : x.id <= w.id).v
Present == {k \in Keys : Truth(k, TopId) # Gone}

\* Shard.Cursor: it sees the last identifier drawn.
OpenCursor ==
    /\ ~cursor.open /\ ~tx.open /\ work.used <= CursorPages
    /\ cursor' = NewCursor(live.h, live.root, lastId)
    /\ UNCHANGED <<live, work, retention, history, lastId, calls, tx, wanted, committed, staged>>

Moved(move, target) ==
    CASE move = "first" -> First(cursor) [] move = "last" -> LastKey(cursor)
      [] move = "seek" -> Seek(cursor, target)
      [] move = "next" -> Next_(cursor) [] move = "prev" -> Prev(cursor)

\* The key a move should reach, from the key the cursor stands on.
Ideal(move, target) ==
    LET from == IF move \in {"next", "prev"} /\ ~cursor.valid THEN {}
                ELSE {k \in Present : CASE move = "seek" -> k >= target
                                        [] move = "next" -> k > cursor.cell.k
                                        [] move = "prev" -> k < cursor.cell.k
                                        [] OTHER -> TRUE}
    IN  IF from = {} THEN 0 ELSE IF move \in {"last", "prev"} THEN Max(from) ELSE Min(from)

\* Cursor.First, Last, Seek, Next and Prev.
MoveCursor(move, target) ==
    /\ cursor.open
    /\ cursor' = Moved(move, target)
    /\ wanted' = LET k == Ideal(move, target) IN [k |-> k, v |-> IF k = 0 THEN 0 ELSE Truth(k, TopId)]
    /\ UNCHANGED <<live, work, retention, history, lastId, calls, tx, committed, staged>>

\* Cursor.Close
CloseCursor ==
    /\ cursor.open
    /\ cursor' = Closed /\ wanted' = NoCell
    /\ UNCHANGED <<live, work, retention, history, lastId, calls, tx, committed, staged>>

OpSet == {Writes(k, v) : k \in OpKeys, v \in OpVals \cup {Gone}}
Batches == UNION {[1 .. n -> OpSet] : n \in 2 .. MaxBatch}

Next ==
    \/ \E k \in OpKeys, v \in OpVals : Put(k, v)
    \/ \E k \in OpKeys : Delete(k)
    \/ \E ops \in Batches : PutBatch(ops) \/ DeleteBatch(ops)
    \/ Begin \/ Commit \/ Rollback
    \/ \E op \in OpSet : TxWrite(op)
    \/ OpenCursor \/ CloseCursor
    \/ \E m \in CursorMoves, t \in OpKeys : MoveCursor(m, t)

Spec == Init /\ [][Next]_vars

-----------------------------------------------------------------------------

\* The types; the slots and the cells of a page never meet, whatever was
\* inserted, split, deleted or compacted.
TypeOK ==
    /\ {live.root, work.root} \subseteq PageIds /\ work.used \in 1 .. NPages
    /\ work.marks \subseteq PageIds /\ calls \in 0 .. MaxCalls
    /\ \A p \in PageIds, h \in {live.h, work.h} :
          h[p].link \in PageIds /\ SlotLen * Len(h[p].slots) + h[p].taken <= PageCap

\* Between two calls the buffers hold the same pages, so far as they are
\* used; inside a transaction every page that differs is marked, or the
\* rollback would leave it.
Aligned ==
    \A p \in 0 .. work.used - 1 : live.h[p] # work.h[p] => tx.open /\ p \in work.marks

\* The latest value of every key, and with RetentionKeepAll its value at any
\* snapshot, is what the acknowledged writes say; a later deletion may have
\* taken the versions away.
ReadExact ==
    cursor.open \/ \A k \in OpKeys \cup {w.k : w \in committed} :
        LET ids  == {w.id : w \in {x \in committed : x.k = k}}
            dels == {w.id : w \in {x \in committed : x.k = k /\ x.v = Gone}}
        IN  /\ GetAsOf(k, TopId) = Truth(k, TopId)
            /\ retention = "keep" =>
                 \A snap \in ids \cup {i - 1 : i \in ids} :
                     \/ GetAsOf(k, snap) = Truth(k, snap)
                     \/ GetAsOf(k, snap) = Gone /\ \E d \in dels : d > snap

\* Every walk of the leaves meets the keys in order, each version once and in
\* the order of its identifier, the descent to a key ends in the leaf that holds
\* it, and a scan or a range of any bounds gives the keys in between.
ChainExact ==
    LET cells == LeafCells(live.h, live.root)
    IN  cursor.open \/
        /\ \A i \in 1 .. Len(cells) - 1 : Newer(cells[i + 1], cells[i].k, cells[i].id)
        /\ {cells[i].k : i \in 1 .. Len(cells)} = Present
        /\ \A p \in ToSet(LeafPages(live.h, live.root)) : \A i \in DOMAIN live.h[p].slots :
               Last(Path(live.h, live.root, live.h[p].slots[i].k)) = p
        /\ \A lo, hi \in OpKeys :
               LET scan  == ScanPrefix(live.h, live.root, lo, hi)
                   range == RangeCells(NewCursor(live.h, live.root, lastId), lo, hi)
                   keys  == [i \in DOMAIN range |-> range[i].k]
               IN  /\ ToSet(scan) = Present \cap lo .. hi
                   /\ ToSet(keys) = Present \cap lo .. hi - 1
                   /\ \A i \in 1 .. Len(scan) - 1 : scan[i] < scan[i + 1]
                   /\ \A i \in 1 .. Len(keys) - 1 : keys[i] < keys[i + 1]

\* Every move of a cursor reaches the key it should.
CursorExact == cursor.open => cursor.cell.k = wanted.k /\ cursor.cell.v = wanted.v

\* With RetentionArchiveSuperseded a read at a snapshot is exact as well, or
\* absent.
ArchiveExact ==
    retention = "archive" =>
        \A k \in Keys, snap \in 0 .. lastId : GetAsOf(k, snap) \in {Truth(k, snap), Gone}
=============================================================================
