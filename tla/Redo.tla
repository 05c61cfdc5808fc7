-------------------------------- MODULE Redo --------------------------------
(***************************************************************************)
(* The logical redo of a shard: the records of the journal since the last  *)
(* checkpoint are applied again over the heap reloaded from data.img.      *)
(*                                                                         *)
(* Journal says which records survive a stop and Pager which images do.    *)
(* Here both are inputs: a crash keeps any prefix of the log that holds    *)
(* its durable part, and the image is any published heap since the         *)
(* checkpoint, which the page cache may have written before the records    *)
(* that led to it.  A heap is a sequence of versions per key, oldest       *)
(* first; the value a write leaves is the sequence of the writes that      *)
(* made it, so that no two are equal by chance.                            *)
(***************************************************************************)
EXTENDS Naturals, Sequences

CONSTANTS
    Keys,
    MaxRecords,    \* bound on the identifiers taken, one per call
    MaxLog,        \* bound on the records between two checkpoints
    MaxCrashes,    \* bound on the stops
    Reopens,       \* whether calls are explored after a reopening
    NoKey,         \* the key of a commit mark
    Workloads      \* the mixes of behaviours to explore, see Workload

\* muts: Mut is called; ahead: the page cache may write pages whose records
\* are not durable yet; rewrites: a transaction touches a key again; splits: the
\* redo of a transaction may split the root of the tree.
Workload == [muts : BOOLEAN, ahead : BOOLEAN, rewrites : BOOLEAN, splits : BOOLEAN]

ASSUME RedoAssumption ==
    /\ MaxRecords \in Nat \ {0} /\ MaxLog \in Nat /\ MaxCrashes \in Nat
    /\ NoKey \notin Keys /\ Reopens \in BOOLEAN
    /\ Workloads \subseteq Workload

VARIABLES
    with,        \* the workload of this behaviour
    heap,        \* s.pub
    work,        \* s.dirty
    tx,          \* the identifier of the open transaction, or 0
    counter,     \* s.counter
    lastID,      \* s.lastID
    log,         \* the records after the last checkpoint
    durable,     \* how many of them a stop cannot take back
    image,       \* what data.img would reload
    imageAt,     \* after how many records of the log it was published
    past,        \* past[i + 1] is the heap published after i records of the log
    mode,        \* "up", "redo"
    pos,         \* the next record of the redo
    astray,      \* history: a split root misled a test of the redo
    crashes

shard   == <<heap, work, tx, counter, lastID>>
disk    == <<log, durable, image, imageAt>>
vars    == <<with, shard, disk, past, mode, pos, astray, crashes>>

Types == {"put", "del", "mut", "commit"}
Record == [type : Types, key : Keys \cup {NoKey}, id : Nat, tx : BOOLEAN]
Cell == [id : Nat, v : Seq(Nat)]
Cells == Seq(Cell)
Heaps == [Keys -> Cells]

Empty == [k \in Keys |-> <<>>]

-----------------------------------------------------------------------------
(* Reads and writes of a heap.                                             *)

\* replayGetLatestID: the last cell of the key, or 0
LatestID(h, k) == IF h[k] = <<>> THEN 0 ELSE h[k][Len(h[k])].id

\* getAsOfHeap at the largest snapshot: the first of the newest cells
Current(h, k) ==
    IF h[k] = <<>> THEN <<>>
    ELSE LET newest == {i \in DOMAIN h[k] : h[k][i].id = LatestID(h, k)}
         IN  h[k][CHOOSE i \in newest : \A j \in newest : i <= j].v

InsertVer(h, k, id, v) == [h EXCEPT ![k] = Append(@, [id |-> id, v |-> v])]
RemoveKey(h, k) == [h EXCEPT ![k] = <<>>]

\* applyMutOps: the new document is computed from the current one
Mutated(h, k, id) == InsertVer(h, k, id, Append(Current(h, k), id))

-----------------------------------------------------------------------------
(* Writes.  Each appends its record before it touches the heap.            *)

\* a shard after a checkpoint, with one key put before it, or none
Init ==
    /\ with \in Workloads
    /\ heap \in {Empty} \cup {InsertVer(Empty, k, 1, <<1>>) : k \in Keys}
    /\ work = heap /\ tx = 0
    /\ counter = 2 /\ lastID = 1
    /\ log = <<>> /\ durable = 0 /\ image = heap /\ imageAt = 0
    /\ past = <<heap>>
    /\ mode = "up" /\ pos = 1 /\ astray = FALSE /\ crashes = 0

Journaled(type, k, id, t) ==
    /\ log' = Append(log, [type |-> type, key |-> k, id |-> id, tx |-> t])
    /\ lastID' = id

\* The bound on the calls.  A reopening ends in a checkpoint, as Checkpoint does:
\* what follows it is what follows a checkpoint, and the runs do not explore it again.
MayCall == counter <= MaxRecords /\ (Reopens \/ crashes = 0)

\* Put, Delete, Mut: one record and one publication
Autonomous(type, k, new) ==
    /\ mode = "up" /\ tx = 0 /\ MayCall /\ Len(log) < MaxLog
    /\ Journaled(type, k, counter, FALSE)
    /\ heap' = new /\ work' = new
    /\ counter' = counter + 1
    /\ past' = Append(past, new)
    /\ UNCHANGED <<with, tx, durable, image, imageAt, mode, pos, astray, crashes>>

Put(k) == Autonomous("put", k, InsertVer(heap, k, counter, <<counter>>))
Delete(k) == Autonomous("del", k, RemoveKey(heap, k))
Mut(k) == with.muts /\ Autonomous("mut", k, Mutated(heap, k, counter))

Begin ==
    /\ mode = "up" /\ tx = 0 /\ MayCall
    /\ tx' = counter /\ counter' = counter + 1
    /\ UNCHANGED <<with, heap, work, lastID, disk, past, mode, pos, astray, crashes>>

Touched == {log[i].key : i \in {j \in DOMAIN log : log[j].tx /\ log[j].id = tx}}

\* txPut, txDelete: every record carries the identifier of the transaction
\* and works on the working buffer
TxWrite(type, k, new) ==
    /\ mode = "up" /\ tx # 0
    /\ with.rewrites \/ k \notin Touched
    /\ Len(log) < MaxLog
    /\ Journaled(type, k, tx, TRUE)
    /\ work' = new
    /\ past' = Append(past, heap)
    /\ UNCHANGED <<with, heap, tx, counter, durable, image, imageAt, mode, pos, astray, crashes>>

\* a second put of the key in one transaction leaves two cells of one
\* identifier, and reads find the first
TxPut(k) == TxWrite("put", k, InsertVer(work, k, tx, <<tx, Len(log)>>))
TxDelete(k) == TxWrite("del", k, RemoveKey(work, k))

\* Commit: the mark, the barrier of the journal, then the publication
Commit ==
    /\ mode = "up" /\ tx # 0 /\ Touched # {}
    /\ log' = Append(log, [type |-> "commit", key |-> NoKey, id |-> tx, tx |-> TRUE])
    /\ durable' = Len(log')
    /\ heap' = work
    /\ past' = Append(past, work)
    /\ tx' = 0
    /\ UNCHANGED <<with, work, counter, lastID, image, imageAt, mode, pos, astray, crashes>>

\* Rollback takes the records of the transaction back (rollbackTo) or leaves
\* them without their commit mark, when the quantum was already written.
Rollback ==
    /\ mode = "up" /\ tx # 0
    /\ tx' = 0 /\ work' = heap
    /\ UNCHANGED <<with, heap, counter, lastID, disk, past, mode, pos, astray, crashes>>

\* a barrier of the journal: Sync, the committer, the 32nd grouped write
FlushLog ==
    /\ mode = "up" /\ durable < Len(log)
    /\ durable' = Len(log)
    /\ UNCHANGED <<with, shard, log, image, imageAt, past, mode, pos, astray, crashes>>

\* the page cache writes the published heap: alloc when no slot is clean, the
\* FlushDirty of a large value, leaveGroup
FlushImage ==
    /\ mode = "up" /\ image # heap
    /\ with.ahead \/ durable = Len(log)
    /\ image' = heap /\ imageAt' = Len(log)
    /\ UNCHANGED <<with, shard, log, durable, past, mode, pos, astray, crashes>>

\* checkpointLocked: the journal, the pages, the mark.  Only what follows the
\* mark is redone.
Checkpoint ==
    /\ mode = "up" /\ tx = 0 /\ log # <<>>
    /\ log' = <<>> /\ durable' = 0
    /\ image' = heap /\ imageAt' = 0
    /\ past' = <<heap>>
    /\ UNCHANGED <<with, shard, mode, pos, astray, crashes>>

-----------------------------------------------------------------------------
(* A stop, and the redo record by record.                                  *)

\* KillWithoutFlush or a power loss, during the redo too: the heap is
\* reloaded from the image.
Crash(n) ==
    /\ crashes < MaxCrashes
    /\ n \in durable..Len(log)
    /\ log' = SubSeq(log, 1, n)
    /\ heap' = image /\ work' = image /\ tx' = 0
    /\ mode' = "redo" /\ pos' = 1
    /\ crashes' = crashes + 1
    /\ UNCHANGED <<with, counter, lastID, durable, image, imageAt, past, astray>>

PutValue(r) == IF r.tx THEN <<r.id, r.at>> ELSE <<r.id>>

\* what the record writes on the given buffer
Written(h, r) ==
    IF r.type = "del" THEN RemoveKey(h, r.key)
    ELSE IF r.type = "mut" THEN Mutated(h, r.key, r.id)
    ELSE InsertVer(h, r.key, r.id, PutValue(r))

\* the test that leaves a record out: there is nothing to delete, or a version as new
Skipped(found, r) ==
    IF r.type = "del" THEN found[r.key] = <<>> ELSE LatestID(found, r.key) >= r.id

\* Mutant of RedoOne: what the image already holds is written again.
RedoOneBlindly(found, h, r) == Written(h, r)
\* the body of applyRecord and of applyTxGroup: the test looks the key up in found,
\* the write is made on h
RedoOne(found, h, r) == IF Skipped(found, r) THEN h ELSE Written(h, r)

\* Mutant of At: the transaction flag of the header is not decoded.
AtPlain(i) == [type |-> log[i].type, key |-> log[i].key, id |-> log[i].id, tx |-> FALSE, at |-> i - 1]
\* a record with its place, which stands for the payload of a transaction's put
At(i) == [type |-> log[i].type, key |-> log[i].key, id |-> log[i].id, tx |-> log[i].tx, at |-> i - 1]

\* the writes of transaction id that precede its mark
Group(id) == {i \in 1 .. pos - 1 : log[i].tx /\ log[i].id = id}

\* replayGet and replayGetLatestID search the published heap from the root of the
\* working one.  Once a put of the group has split it (adoptHeap), that root is a
\* page the published heap does not use, and they find nothing.
FoundAt(i, root) == IF i <= root THEN heap ELSE Empty

\* the puts of the group that may split the root first, or pos for none
Splits(id) ==
    {pos} \cup {i \in Group(id) : with.splits /\ log[i].type = "put" /\ ~Skipped(heap, At(i))}

RedoGroup(id, root) ==
    LET upTo[i \in 0 .. pos - 1] ==
            IF i = 0 THEN heap
            ELSE IF i \in Group(id) THEN RedoOne(FoundAt(i, root), upTo[i - 1], At(i))
            ELSE upTo[i - 1]
    IN  upTo[pos - 1]

Misled(id, root) ==
    \E i \in Group(id) : Skipped(FoundAt(i, root), At(i)) # Skipped(heap, At(i))

\* one turn of the loop of replay()
RedoRecord ==
    /\ mode = "redo" /\ pos <= Len(log)
    /\ LET r == At(pos)
       IN  \/ /\ r.type = "commit"
              /\ \E root \in Splits(r.id) :
                    /\ heap' = RedoGroup(r.id, root)
                    /\ astray' = (astray \/ Misled(r.id, root))
           \/ /\ r.type # "commit"
              /\ heap' = IF r.tx THEN heap ELSE RedoOne(heap, heap, r)
              /\ UNCHANGED astray
    /\ work' = heap'
    /\ pos' = pos + 1
    /\ UNCHANGED <<with, tx, counter, lastID, disk, past, mode, crashes>>

\* rebuildAllVersionsLocked when the redo runs out of room: it publishes the
\* heap as the redo left it, and the page cache may write it.
RedoRepack ==
    /\ mode = "redo" /\ pos <= Len(log) /\ image # heap
    /\ with.ahead \/ durable = Len(log)
    /\ image' = heap
    /\ imageAt' = IF imageAt >= pos THEN imageAt ELSE pos - 1
    /\ UNCHANGED <<with, shard, log, durable, past, mode, pos, astray, crashes>>

\* the end of replay(), and the checkpoint that closes the opening.  The
\* counter is above every identifier the clock gave; lastID is the last one
\* of the log.
Reopened ==
    /\ mode = "redo" /\ pos > Len(log)
    /\ lastID' = IF log = <<>> THEN lastID ELSE log[Len(log)].id
    /\ mode' = "up" /\ pos' = 1
    /\ log' = <<>> /\ durable' = 0
    /\ image' = heap /\ imageAt' = 0
    /\ past' = <<heap>>
    /\ UNCHANGED <<with, heap, work, tx, counter, astray, crashes>>

Next ==
    \/ \E k \in Keys : Put(k) \/ Delete(k) \/ Mut(k) \/ TxPut(k) \/ TxDelete(k)
    \/ Begin \/ Commit \/ Rollback
    \/ FlushLog \/ FlushImage \/ Checkpoint
    \/ \E n \in 0..Len(log) : Crash(n)
    \/ RedoRecord \/ RedoRepack \/ Reopened

Spec == Init /\ [][Next]_vars

-----------------------------------------------------------------------------
TypeOK ==
    /\ with \in Workloads
    /\ heap \in Heaps /\ work \in Heaps /\ image \in Heaps
    /\ tx \in Nat /\ counter \in Nat \ {0}
    /\ log \in Seq(Record) /\ durable \in 0..Len(log) /\ imageAt \in Nat
    /\ past \in Seq(Heaps) /\ Len(past) > Len(log)
    /\ mode \in {"up", "redo"} /\ pos \in 1..(Len(log) + 1)
    /\ astray \in BOOLEAN

Recovered == mode = "redo" /\ pos > Len(log)

RedoExactAlways == Recovered /\ imageAt <= Len(log) => heap = past[Len(log) + 1]

\* The redo is exact: when data.img was not ahead of the records that
\* survived, reopening gives back every version of every key as it was after
\* the last of them, transactions whole, whatever part of these records the
\* image already held and however often the redo was interrupted; unless the
\* root of the tree was split by a transaction of which a later record then
\* looked for a key in vain.
RedoExact == astray \/ RedoExactAlways

\* When data.img was ahead, a lost write may survive through it, but no key
\* comes back with a value it did not have at some moment between the last
\* durable record and the stop, with the same exception.
RedoPlausible ==
    Recovered /\ ~astray =>
        \A k \in Keys : \E i \in (durable + 1)..Len(past) :
            Current(heap, k) = Current(past[i], k)

\* Cursors and scans read at lastID: after a reopening it covers every
\* version that Get serves.
ScansSeeAll ==
    mode = "up" /\ tx = 0 => \A k \in Keys : LatestID(heap, k) <= lastID
=============================================================================
