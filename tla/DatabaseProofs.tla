--------------------------- MODULE DatabaseProofs ---------------------------
(***************************************************************************)
(* The locks and the barriers of Database, for every number of clients and *)
(* shards and every sequence of calls, when the owner of a transaction     *)
(* calls nothing else (~OwnerCalls) and Close waits for the calls that     *)
(* leave db.mu before they end (~CloseShared).                             *)
(*                                                                         *)
(* The invariant is a conjunction over the clients, over the shards, and   *)
(* over the pairs of a client and a shard, of predicates on their records: *)
(* a step changes one record of each, and the lemmas say which predicates  *)
(* of the others it leaves alone.                                          *)
(***************************************************************************)
EXTENDS Database, FiniteSetTheorems, TLAPS

\* What the documentation of Begin and Close asks of the callers.
Disciplined == ~OwnerCalls /\ ~CloseShared

-----------------------------------------------------------------------------
(* Types                                                                   *)

Goals == [Shards -> [n : Nat, seq : Nat]]

Work    == {"enter", "write", "begin", "ckptDo", "lotGroup"}
Getting == {"get", "getWant", "getSlow"}
Taking  == {"lock1", "lock2"}
Pcs ==
    Work \cup Getting \cup Taking \cup
    {"idle", "ensureWant", "ensure", "putLock", "txLock", "batchGet", "batchWait", "lotWant", "lotLock",
     "lotRun", "lotFail", "lotClear", "sync", "syncWal", "ckpt", "closeWant", "closing"}
Kinds  == {"none", "put", "putWindow", "tx", "batch", "lot", "sync", "checkpoint", "close"}
Thens  == {"none", "putLock", "txLock", "batchGet", "failed"}
Afters == Work \cup {"none"}
Jobs   == {"none", "ready", "wal", "locked", "done", "failed"}

ClientRec ==
    [pc : Pcs, kind : Kinds, s : Shards \cup {None}, then : Thens, after : Afters, from : Nat,
     todo : SUBSET Shards, list : SUBSET Shards, tx : Shards \cup {None}, goal : Goals \cup {<<>>}]
ShardRec ==
    [open : BOOLEAN, wmu : Goroutines \cup {None}, wal : Goroutines \cup {None, Flusher},
     owner : Goroutines \cup {None}, depth : Nat, group : Nat, marked : BOOLEAN,
     logged : Nat, durable : Nat, ok : Nat, out : Nat, seq : Nat, dropped : BOOLEAN]
BaseRec ==
    [writer : Clients \cup {None}, readers : SUBSET Clients, waiting : SUBSET Clients,
     lot : BOOLEAN, closed : BOOLEAN]

Types ==
    /\ client \in [Clients -> ClientRec]
    /\ shard \in [Shards -> ShardRec]
    /\ db \in BaseRec
    /\ job \in [Clients -> [Shards -> Jobs]]
    /\ committer \in Shards \cup {"none", "idle", "stopped"}
    /\ published \in Nat /\ acked \in Nat

-----------------------------------------------------------------------------
(* Where a call is.  y is the record of a client, j its jobs.              *)

\* Inside lockWriter on the way to the position p.
Locking(y, p) == y.pc \in Taking /\ y.after = p
InGet(y)      == y.pc \in Getting \cup {"enter"} \/ Locking(y, "enter")
InWrite(y)    == y.pc \in {"putLock", "write"} \/ Locking(y, "write")

Position(y) ==
    \/ y.kind = "none" /\ y.pc = "idle"
    \/ y.kind \in {"put", "putWindow"} /\ y.then = "putLock" /\ (InGet(y) \/ InWrite(y))
    \/ y.kind = "putWindow" /\ y.then = "putLock" /\ y.pc \in {"ensureWant", "ensure"}
    \/ y.kind = "tx" /\ y.then = "txLock" /\ (InGet(y) \/ y.pc \in {"txLock", "begin"} \/ Locking(y, "begin"))
    \/ y.kind = "batch" /\ y.then = "batchGet" /\ InGet(y)
    \/ y.kind = "batch" /\ y.pc \in {"batchGet", "batchWait"}
    \/ y.kind = "lot" /\ y.then = "putLock" /\ (InGet(y) \/ InWrite(y))
    \/ /\ y.kind = "lot"
       /\ \/ y.pc \in {"lotWant", "lotLock", "lotGroup", "lotRun", "lotFail", "lotClear"}
          \/ Locking(y, "lotGroup")
    \/ y.kind = "sync" /\ y.pc \in {"sync", "syncWal"}
    \/ y.kind = "checkpoint" /\ (y.pc \in {"ckpt", "ckptDo"} \/ Locking(y, "ckptDo"))
    \/ y.kind = "close" /\ y.pc \in {"closeWant", "closing"}

Control(y) ==
    /\ Position(y)
    /\ y.pc \in Getting \cup Work \cup Taking \cup {"putLock", "txLock", "ensureWant", "ensure", "syncWal"}
          => y.s \in Shards
    /\ y.tx # None => y.kind = "none"
    /\ y.pc = "lotGroup" \/ Locking(y, "lotGroup") => y.s \in y.list \ y.todo
    /\ y.pc \in {"lotLock", "lotGroup"} \/ Locking(y, "lotGroup") => y.todo \subseteq y.list
Batching(y, j) == \A s \in Shards : j[s] # "none" => y.pc = "batchWait" /\ s \in y.list

-----------------------------------------------------------------------------
(* The locks.  c is a client with record y, j its job on the shard s, and  *)
(* x the record of s.                                                      *)

\* The shards a lot has locked and grouped so far.
LotHas(y) ==
    IF y.kind # "lot" \/ y.pc \in {"lotWant", "lotFail", "lotClear"} THEN {}
    ELSE IF y.pc = "lotLock" THEN y.list \ y.todo
    ELSE IF y.pc = "lotGroup" \/ Locking(y, "lotGroup") THEN y.list \ (y.todo \cup {y.s})
    ELSE y.list

\* The owner of a shard counts its groups and the entry it is in, and what a
\* goroutine past a lock relies on is so.
Entry(y, s) == IF y.s = s /\ y.pc \in Work THEN 1 ELSE 0
Owns(c, y, j, s, x) ==
    /\ x.owner = c => x.depth >= 1 /\ x.depth = x.group + Entry(y, s)
    /\ x.owner = <<c, s>> => j = "locked"
    /\ x.wmu = c /\ x.owner = None => y.pc = "lock2" /\ y.s = s
    /\ y.pc \in Work /\ y.s = s => x.owner = c
    /\ y.pc = "lock2" /\ y.s = s => x.wmu = c /\ x.owner = None
    /\ y.tx = s => x.owner = c /\ x.depth = 1 /\ x.group = 1
    /\ s \in LotHas(y) => x.owner = c /\ x.group >= 1
    /\ j = "wal" => x.wmu = <<c, s>> /\ x.owner = None
    /\ j = "locked" => x.owner = <<c, s>>

\* The lock of a shard is one: its owner holds both mutexes.
OneLock(s, x) ==
    /\ x.owner # None => x.wmu = x.owner /\ x.wal = x.owner
    /\ x.owner = None => x.depth = 0 /\ x.group = 0
    /\ \A c \in Clients, t \in Shards :
          x.owner = <<c, t>> => t = s /\ x.depth = 1 /\ x.group = 0

\* db.mu: who waits for it and who has it.
BaseOf(c, y, b) ==
    /\ c \in b.waiting => y.pc \in {"getSlow", "ensureWant", "lotWant", "lotClear", "closeWant"}
    /\ b.writer = c => y.pc \in {"ensure", "closing", "enter"} \/ Locking(y, "enter")
    /\ c \in b.readers <=> y.kind = "checkpoint"
    /\ y.pc \in {"ensure", "closing"} => b.writer = c

Calling  == \A c \in Clients : Control(client[c]) /\ Batching(client[c], job[c])
Owning   == \A c \in Clients, s \in Shards : Owns(c, client[c], job[c][s], s, shard[s])
Locked   == \A s \in Shards : OneLock(s, shard[s])
Flushing == committer \in Shards => shard[committer].owner = None /\ shard[committer].wal = Flusher
BaseLock == (db.writer # None => db.readers = {}) /\ \A c \in Clients : BaseOf(c, client[c], db)

LockInv == Types /\ Calling /\ Owning /\ Locked /\ Flushing /\ BaseLock

LEMMA SetDepth ==
    ASSUME NEW x \in ShardRec, NEW n \in Nat,
           NEW z, z = [x EXCEPT !.depth = n]
    PROVE  /\ z \in ShardRec
           /\ z.depth = n
           /\ z.open = x.open /\ z.wmu = x.wmu /\ z.wal = x.wal /\ z.owner = x.owner
           /\ z.group = x.group /\ z.marked = x.marked /\ z.logged = x.logged /\ z.durable = x.durable
           /\ z.ok = x.ok /\ z.out = x.out /\ z.seq = x.seq
BY DEF ShardRec

LEMMA SetGroup ==
    ASSUME NEW x \in ShardRec, NEW n \in Nat,
           NEW z, z = [x EXCEPT !.group = n]
    PROVE  /\ z \in ShardRec
           /\ z.group = n
           /\ z.open = x.open /\ z.wmu = x.wmu /\ z.wal = x.wal /\ z.owner = x.owner
           /\ z.depth = x.depth /\ z.marked = x.marked /\ z.logged = x.logged /\ z.durable = x.durable
           /\ z.ok = x.ok /\ z.out = x.out /\ z.seq = x.seq
BY DEF ShardRec

LEMMA IsUnlocked ==
    ASSUME NEW x \in ShardRec, x.depth >= 1, NEW z, z = Unlocked(x)
    PROVE  /\ z \in ShardRec
           /\ z.depth = x.depth - 1
           /\ z.depth = 0 => z.owner = None /\ z.wal = None /\ z.wmu = None
           /\ z.depth > 0 => z.owner = x.owner /\ z.wal = x.wal /\ z.wmu = x.wmu
           /\ z.open = x.open /\ z.group = x.group /\ z.marked = x.marked /\ z.logged = x.logged
           /\ z.durable = x.durable /\ z.ok = x.ok /\ z.out = x.out /\ z.seq = x.seq
<1>1. x.depth \in Nat
  BY DEF ShardRec
<1>2. CASE x.depth > 1
  <2>1. x.depth - 1 \in Nat /\ z = [x EXCEPT !.depth = x.depth - 1]
    BY <1>1, <1>2 DEF Unlocked
  <2> QED
    BY <1>1, <1>2, <2>1, SetDepth
<1>3. CASE ~(x.depth > 1)
  <2>1. x.depth = 1 /\ z = [x EXCEPT !.depth = 0, !.owner = None, !.wal = None, !.wmu = None]
    BY <1>1, <1>3 DEF Unlocked
  <2>2. PICK n \in Nat : n = 0
    OBVIOUS
  <2>3. z = [x EXCEPT !.depth = n, !.owner = None, !.wal = None, !.wmu = None]
    BY <2>1, <2>2
  <2>4. /\ z \in ShardRec
        /\ z.depth = n /\ z.owner = None /\ z.wal = None /\ z.wmu = None
        /\ z.open = x.open /\ z.group = x.group /\ z.marked = x.marked /\ z.logged = x.logged
        /\ z.durable = x.durable /\ z.ok = x.ok /\ z.out = x.out /\ z.seq = x.seq
    BY ONLY x \in ShardRec, <2>3, n \in Nat DEF ShardRec
  <2> QED
    BY <2>1, <2>2, <2>4
<1> QED
  BY <1>2, <1>3

LEMMA IsFlushed ==
    ASSUME NEW x \in ShardRec, NEW z, z = Flushed(x)
    PROVE  /\ z \in ShardRec
           /\ z.durable = x.logged /\ z.marked = FALSE
           /\ z.open = x.open /\ z.wmu = x.wmu /\ z.wal = x.wal /\ z.owner = x.owner
           /\ z.depth = x.depth /\ z.group = x.group /\ z.logged = x.logged /\ z.ok = x.ok
           /\ z.out = x.out /\ z.seq = x.seq
BY DEF ShardRec, Flushed

LEMMA IsSaved ==
    ASSUME NEW x \in ShardRec, NEW z, z = Saved(x)
    PROVE  /\ z \in ShardRec
           /\ z.durable = x.logged /\ z.marked = FALSE
           /\ z.open = x.open /\ z.wmu = x.wmu /\ z.wal = x.wal /\ z.owner = x.owner
           /\ z.depth = x.depth /\ z.group = x.group /\ z.logged = x.logged /\ z.ok = x.ok
           /\ z.out = x.out /\ z.seq = x.seq
<1>1. PICK f : f = Flushed(x)
  OBVIOUS
<1>2. f \in ShardRec /\ z = [f EXCEPT !.dropped = FALSE]
  BY <1>1, IsFlushed DEF Saved
<1>3. /\ z \in ShardRec
      /\ z.durable = f.durable /\ z.marked = f.marked
      /\ z.open = f.open /\ z.wmu = f.wmu /\ z.wal = f.wal /\ z.owner = f.owner
      /\ z.depth = f.depth /\ z.group = f.group /\ z.logged = f.logged /\ z.ok = f.ok
      /\ z.out = f.out /\ z.seq = f.seq
  BY <1>2 DEF ShardRec
<1>4. /\ f.durable = x.logged /\ f.marked = FALSE
      /\ f.open = x.open /\ f.wmu = x.wmu /\ f.wal = x.wal /\ f.owner = x.owner
      /\ f.depth = x.depth /\ f.group = x.group /\ f.logged = x.logged /\ f.ok = x.ok
      /\ f.out = x.out /\ f.seq = x.seq
  BY <1>1, IsFlushed
<1> QED
  BY <1>3, <1>4

LEMMA IsLeft ==
    ASSUME NEW x \in ShardRec, x.group >= 1, NEW z, z = Left(x)
    PROVE  /\ z \in ShardRec
           /\ z.group = x.group - 1
           /\ z.durable = IF x.group = 1 THEN x.logged ELSE x.durable
           /\ z.marked = x.marked \/ z.marked = FALSE
           /\ z.open = x.open /\ z.wmu = x.wmu /\ z.wal = x.wal /\ z.owner = x.owner
           /\ z.depth = x.depth /\ z.logged = x.logged /\ z.ok = x.ok /\ z.out = x.out
           /\ z.seq = x.seq
<1>1. x.group \in Nat
  BY DEF ShardRec
<1>2. CASE x.group = 1
  <2>1. z = [Flushed(x) EXCEPT !.group = 0]
    BY <1>2 DEF Left
  <2>2. PICK f : f = Flushed(x)
    OBVIOUS
  <2>3. PICK n \in Nat : n = 0
    OBVIOUS
  <2>4. f \in ShardRec /\ z = [f EXCEPT !.group = n]
    BY <2>1, <2>2, <2>3, IsFlushed
  <2>5. /\ f.durable = x.logged /\ f.marked = FALSE
        /\ f.open = x.open /\ f.wmu = x.wmu /\ f.wal = x.wal /\ f.owner = x.owner /\ f.depth = x.depth
        /\ f.logged = x.logged /\ f.ok = x.ok /\ f.out = x.out /\ f.seq = x.seq
    BY <2>2, IsFlushed
  <2>6. /\ z \in ShardRec /\ z.group = n
        /\ z.durable = f.durable /\ z.marked = f.marked
        /\ z.open = f.open /\ z.wmu = f.wmu /\ z.wal = f.wal /\ z.owner = f.owner /\ z.depth = f.depth
        /\ z.logged = f.logged /\ z.ok = f.ok /\ z.out = f.out /\ z.seq = f.seq
    BY <2>4, SetGroup
  <2> QED
    BY <1>2, <2>3, <2>5, <2>6
<1>3. CASE x.group # 1
  BY <1>1, <1>3, SetGroup DEF Left
<1> QED
  BY <1>2, <1>3

LEMMA IsLogged ==
    ASSUME NEW x \in ShardRec, NEW k, published \in Nat, NEW z, z = Logs(x, k)
    PROVE  /\ z \in ShardRec
           /\ z.logged = x.logged + 1 /\ z.seq = published + 1 /\ z.out = x.out + 1
           /\ z.open = x.open /\ z.wmu = x.wmu /\ z.wal = x.wal /\ z.owner = x.owner
           /\ z.depth = x.depth /\ z.group = x.group /\ z.durable = x.durable /\ z.ok = x.ok
<1>1. x.logged + 1 \in Nat /\ published + 1 \in Nat /\ x.out + 1 \in Nat
  BY DEF ShardRec
<1> DEFINE b == (x.marked \/ (x.group = 0 /\ committer # "none" /\ (k = "putWindow" \/ mode = "windowed")))
<1>2. b \in BOOLEAN
  OBVIOUS
<1>5. z = [x EXCEPT !.logged = x.logged + 1, !.seq = published + 1, !.out = x.out + 1, !.marked = b]
  BY DEF Logs
<1> HIDE DEF b
<1>3. PICK n \in Nat, q \in Nat, u \in Nat : n = x.logged + 1 /\ q = published + 1 /\ u = x.out + 1
  BY <1>1
<1>4. z = [x EXCEPT !.logged = n, !.seq = q, !.out = u, !.marked = b]
  BY <1>5, <1>3
<1> QED
  <2>1. /\ z \in ShardRec
        /\ z.logged = n /\ z.seq = q /\ z.out = u
        /\ z.open = x.open /\ z.wmu = x.wmu /\ z.wal = x.wal /\ z.owner = x.owner
        /\ z.depth = x.depth /\ z.group = x.group /\ z.durable = x.durable /\ z.ok = x.ok
    BY ONLY x \in ShardRec, n \in Nat, q \in Nat, u \in Nat, <1>2, <1>4 DEF ShardRec
  <2> QED
    BY <1>3, <2>1

\* The part of a batch in a shard, flushed or left in the open pack.
LEMMA IsPart ==
    ASSUME NEW x \in ShardRec, published \in Nat, NEW y,
           y = BatchPart(x)
    PROVE  /\ y \in ShardRec
           /\ y.logged = x.logged + 1 /\ y.ok = x.logged + 1 /\ y.seq = published + 1 /\ y.durable = x.durable
           /\ y.open = x.open /\ y.wmu = x.wmu /\ y.wal = x.wal /\ y.owner = x.owner
           /\ y.depth = x.depth /\ y.group = x.group
<1>0. x.logged + 1 \in Nat /\ x.marked \in BOOLEAN
  BY DEF ShardRec
<1>1. PICK l : l = Logs(x, "batch")
  OBVIOUS
<1>2. /\ l \in ShardRec
      /\ l.logged = x.logged + 1 /\ l.seq = published + 1 /\ l.durable = x.durable
      /\ l.open = x.open /\ l.wmu = x.wmu /\ l.wal = x.wal /\ l.owner = x.owner
      /\ l.depth = x.depth /\ l.group = x.group
  BY <1>1, IsLogged
<1>3. PICK n \in Nat, b \in BOOLEAN : n = x.logged + 1 /\ b = x.marked
  BY <1>0
<1>4. y = [l EXCEPT !.marked = b, !.ok = n]
  BY <1>1, <1>3 DEF BatchPart
<1>5. /\ y \in ShardRec
      /\ y.logged = l.logged /\ y.ok = n /\ y.seq = l.seq /\ y.durable = l.durable
      /\ y.open = l.open /\ y.wmu = l.wmu /\ y.wal = l.wal /\ y.owner = l.owner
      /\ y.depth = l.depth /\ y.group = l.group
  <2>1. l \in ShardRec
    BY <1>2
  <2> QED
    BY ONLY <2>1, n \in Nat, b \in BOOLEAN, <1>4 DEF ShardRec
<1> QED
  BY <1>2, <1>3, <1>5

LEMMA JobWrites ==
    ASSUME NEW c \in Clients, NEW s \in Shards, NEW x \in ShardRec, x = shard[s], x.depth = 1,
           published \in Nat, JobWrite(c, s)
    PROVE  \E z \in ShardRec :
              /\ SetShard(s, z) /\ z.group = x.group
              /\ z.depth = 0 /\ z.owner = None /\ z.wal = None /\ z.wmu = None
              /\ z.open = x.open /\ z.logged = x.logged + 1 /\ z.ok = x.logged + 1 /\ z.seq = published + 1
              /\ z.durable \in {x.durable, x.logged + 1}
<1>1. PICK y : y = BatchPart(x)
  OBVIOUS
<1>2. /\ y \in ShardRec /\ y.depth = 1 /\ y.group = x.group /\ y.open = x.open /\ y.durable = x.durable
      /\ y.logged = x.logged + 1 /\ y.ok = x.logged + 1 /\ y.seq = published + 1
  BY <1>1, IsPart
<1>3. PICK f, v, z : f = Flushed(y) /\ v = Unlocked(f) /\ z = Unlocked(y)
  OBVIOUS
<1>4. SetShard(s, v) \/ SetShard(s, z)
  BY <1>1, <1>3 DEF JobWrite
<1>5. /\ f \in ShardRec /\ f.depth = 1 /\ f.group = y.group /\ f.open = y.open /\ f.durable = y.logged
      /\ f.logged = y.logged /\ f.ok = y.ok /\ f.seq = y.seq
  BY <1>2, <1>3, IsFlushed
<1>6. /\ v \in ShardRec /\ v.depth = 0 /\ v.owner = None /\ v.wal = None /\ v.wmu = None
      /\ v.group = f.group /\ v.open = f.open /\ v.durable = f.durable /\ v.logged = f.logged
      /\ v.ok = f.ok /\ v.seq = f.seq
  BY <1>3, <1>5, IsUnlocked
<1>7. /\ z \in ShardRec /\ z.depth = 0 /\ z.owner = None /\ z.wal = None /\ z.wmu = None
      /\ z.group = y.group /\ z.open = y.open /\ z.durable = y.durable /\ z.logged = y.logged
      /\ z.ok = y.ok /\ z.seq = y.seq
  BY <1>2, <1>3, IsUnlocked
<1> QED
  BY <1>2, <1>4, <1>5, <1>6, <1>7

-----------------------------------------------------------------------------
(* What a step of one goroutine leaves of the locks of the others.         *)

At(y, s) == y.s = s /\ y.pc \in Work \cup {"lock2"}

\* The writer lock of the shard x is free or in the hands of g.
Free(g, x) == x.owner = g \/ (x.owner = None /\ x.wmu \in {g, None})
SameLock(x, z) == z.owner = x.owner /\ z.wmu = x.wmu /\ z.wal = x.wal /\ z.depth = x.depth /\ z.group = x.group

LEMMA OwnsSame ==
    ASSUME NEW c, NEW y, NEW j, NEW s, NEW x, NEW z, Owns(c, y, j, s, x), SameLock(x, z)
    PROVE  Owns(c, y, j, s, z)
BY DEF Owns, SameLock

LEMMA OwnsOther ==
    ASSUME NEW c \in Clients, NEW d \in Clients \ {c}, NEW s \in Shards, NEW g \in {c, <<c, s>>},
           NEW y, NEW j, NEW x, NEW z, Owns(d, y, j, s, x), Free(g, x), Free(g, z)
    PROVE  Owns(d, y, j, s, z)
<1>1. d # g /\ <<d, s>> # g /\ d # None /\ <<d, s>> # None /\ g # None
  BY DatabaseAssumption
<1> QED
  BY <1>1 DEF Owns, Free

LEMMA OwnsMoved ==
    ASSUME NEW c, NEW y, NEW w, NEW j, NEW s, NEW x, Owns(c, y, j, s, x), ~At(y, s), ~At(w, s),
           w.tx = s => y.tx = s, s \in LotHas(w) => s \in LotHas(y)
    PROVE  Owns(c, w, j, s, x)
BY DEF Owns, At, Entry

-----------------------------------------------------------------------------
(* Three forms of a step, and LockInv after each.                          *)

BaseStep ==
    /\ db' \in BaseRec /\ published' \in Nat /\ acked' \in Nat
    /\ BaseLock'

\* A client moves, and no lock of a shard does.
LEMMA QuietStep ==
    ASSUME LockInv, NEW c \in Clients, NEW w \in ClientRec, Call(c, w), UNCHANGED job, BaseStep,
           committer' \in Shards \cup {"none", "idle", "stopped"}, committer' \in Shards => committer' = committer,
           shard' \in [Shards -> ShardRec], \A s \in Shards : SameLock(shard[s], shard'[s]),
           Control(w), Batching(w, job[c]), w.tx = client[c].tx, LotHas(w) \subseteq LotHas(client[c]),
           client[c].pc \notin Work \cup {"lock2"}, w.pc \notin Work \cup {"lock2"}
    PROVE  LockInv'
<1>1. /\ client' \in [Clients -> ClientRec]
      /\ client'[c] = w /\ \A d \in Clients : d # c => client'[d] = client[d]
  BY DEF LockInv, Types, Call
<1>2. Types'
  BY <1>1 DEF LockInv, Types, BaseStep
<1>3. Calling'
  BY <1>1 DEF LockInv, Calling
<1>4. Owning'
  <2> SUFFICES ASSUME NEW d \in Clients, NEW s \in Shards
               PROVE  Owns(d, client'[d], job'[d][s], s, shard'[s])
    BY DEF Owning
  <2>1. Owns(d, client[d], job[d][s], s, shard[s])
    BY DEF LockInv, Owning
  <2>2. Owns(d, client'[d], job[d][s], s, shard[s])
    <3>1. CASE d = c
      BY <1>1, <2>1, <3>1, OwnsMoved DEF At
    <3>2. CASE d # c
      BY <1>1, <2>1, <3>2
    <3> QED
      BY <3>1, <3>2
  <2> QED
    BY <2>2, OwnsSame
<1>5. Locked'
  BY DEF LockInv, Locked, OneLock, SameLock
<1>6. Flushing'
  BY DEF LockInv, Flushing, SameLock
<1> QED
  BY <1>2, <1>3, <1>4, <1>5, <1>6 DEF LockInv, BaseStep

\* A client moves, and with it the lock of the shard s.
LEMMA OwnerStep ==
    ASSUME LockInv, NEW c \in Clients, NEW s \in Shards, NEW w \in ClientRec, NEW z \in ShardRec,
           Call(c, w), SetShard(s, z), UNCHANGED <<job, committer>>, BaseStep,
           Control(w), Batching(w, job[c]), Owns(c, w, job[c][s], s, z), OneLock(s, z),
           Free(c, shard[s]), Free(c, z),
           committer = s => z.owner = None /\ z.wal = Flusher,
           \A t \in Shards \ {s} :
               /\ ~At(client[c], t) /\ ~At(w, t)
               /\ w.tx = t => client[c].tx = t
               /\ t \in LotHas(w) => t \in LotHas(client[c])
    PROVE  LockInv'
<1>1. /\ client' \in [Clients -> ClientRec]
      /\ client'[c] = w /\ \A d \in Clients : d # c => client'[d] = client[d]
  BY DEF LockInv, Types, Call
<1>2. /\ shard' \in [Shards -> ShardRec]
      /\ shard'[s] = z /\ \A t \in Shards : t # s => shard'[t] = shard[t]
  BY DEF LockInv, Types, SetShard
<1>3. Types'
  BY <1>1, <1>2 DEF LockInv, Types, BaseStep
<1>4. Calling'
  BY <1>1 DEF LockInv, Calling
<1>5. Owning'
  <2> SUFFICES ASSUME NEW d \in Clients, NEW t \in Shards
               PROVE  Owns(d, client'[d], job'[d][t], t, shard'[t])
    BY DEF Owning
  <2>1. Owns(d, client[d], job[d][t], t, shard[t])
    BY DEF LockInv, Owning
  <2>2. CASE d = c /\ t = s
    BY <1>1, <1>2, <2>2
  <2>3. CASE d = c /\ t # s
    BY <1>1, <1>2, <2>1, <2>3, OwnsMoved
  <2>4. CASE d # c /\ t = s
    BY <1>1, <1>2, <2>1, <2>4, OwnsOther
  <2>5. CASE d # c /\ t # s
    BY <1>1, <1>2, <2>1, <2>5
  <2> QED
    BY <2>2, <2>3, <2>4, <2>5
<1>6. Locked'
  BY <1>2 DEF LockInv, Locked
<1>7. Flushing'
  BY <1>2 DEF LockInv, Flushing
<1> QED
  BY <1>3, <1>4, <1>5, <1>6, <1>7 DEF LockInv, BaseStep

\* A job of a batch moves, and the lock of its shard.
LEMMA JobStep ==
    ASSUME LockInv, NEW c \in Clients, NEW s \in Shards, NEW j \in Jobs, NEW z \in ShardRec,
           job' = [job EXCEPT ![c][s] = j], SetShard(s, z), UNCHANGED <<client, committer, db, acked>>,
           published' \in Nat, job[c][s] # "none",
           Owns(c, client[c], j, s, z), OneLock(s, z), Free(<<c, s>>, shard[s]), Free(<<c, s>>, z),
           committer = s => z.owner = None /\ z.wal = Flusher
    PROVE  LockInv'
<1>1. /\ job' \in [Clients -> [Shards -> Jobs]]
      /\ job'[c][s] = j /\ \A d \in Clients, t \in Shards : d # c \/ t # s => job'[d][t] = job[d][t]
  BY DEF LockInv, Types
<1>2. /\ shard' \in [Shards -> ShardRec]
      /\ shard'[s] = z /\ \A t \in Shards : t # s => shard'[t] = shard[t]
  BY DEF LockInv, Types, SetShard
<1>3. Types'
  BY <1>1, <1>2 DEF LockInv, Types
<1>4. Calling'
  BY <1>1 DEF LockInv, Calling, Batching
<1>5. Owning'
  <2> SUFFICES ASSUME NEW d \in Clients, NEW t \in Shards
               PROVE  Owns(d, client'[d], job'[d][t], t, shard'[t])
    BY DEF Owning
  <2>1. Owns(d, client[d], job[d][t], t, shard[t])
    BY DEF LockInv, Owning
  <2>2. CASE d = c /\ t = s
    BY <1>1, <1>2, <2>2
  <2>3. CASE t # s
    BY <1>1, <1>2, <2>1, <2>3
  <2>4. CASE d # c /\ t = s
    BY <1>1, <1>2, <2>1, <2>4, OwnsOther
  <2> QED
    BY <2>2, <2>3, <2>4
<1>6. Locked'
  BY <1>2 DEF LockInv, Locked
<1>7. Flushing'
  BY <1>2 DEF LockInv, Flushing
<1>8. BaseLock'
  BY DEF LockInv, BaseLock
<1> QED
  BY <1>3, <1>4, <1>5, <1>6, <1>7, <1>8 DEF LockInv

\* db.mu when a client moves.
Apart(c, b, e) ==
    \A d \in Clients \ {c} :
        /\ d \in e.waiting <=> d \in b.waiting
        /\ e.writer = d <=> b.writer = d
        /\ d \in e.readers <=> d \in b.readers

LEMMA BaseMoved ==
    ASSUME LockInv, NEW c \in Clients, NEW w \in ClientRec, Call(c, w), db' \in BaseRec,
           db'.writer # None => db'.readers = {}, BaseOf(c, w, db'), Apart(c, db, db'),
           published' \in Nat, acked' \in Nat
    PROVE  BaseStep
<1>1. client'[c] = w /\ \A d \in Clients : d # c => client'[d] = client[d]
  BY DEF LockInv, Types, Call
<1>2. ASSUME NEW d \in Clients PROVE BaseOf(d, client'[d], db')
  <2>1. BaseOf(d, client[d], db)
    BY DEF LockInv, BaseLock
  <2>2. CASE d = c
    BY <1>1, <2>2
  <2>3. CASE d # c
    BY <1>1, <2>1, <2>3 DEF BaseOf, Apart
  <2> QED
    BY <2>2, <2>3
<1> QED
  BY <1>2 DEF BaseStep, BaseLock

LEMMA BaseKept ==
    ASSUME LockInv, NEW c \in Clients, NEW w \in ClientRec, Call(c, w), UNCHANGED <<db, acked>>, published' \in Nat,
           BaseOf(c, w, db)
    PROVE  BaseStep
BY BaseMoved DEF LockInv, Types, BaseLock, Apart

LEMMA Kept3 ==
    ASSUME LockInv, UNCHANGED <<shard, committer>>
    PROVE  /\ shard' \in [Shards -> ShardRec] /\ \A s \in Shards : SameLock(shard[s], shard'[s])
           /\ committer' \in Shards \cup {"none", "idle", "stopped"} /\ (committer' \in Shards => committer' = committer)
BY DEF LockInv, Types, SameLock

\* What the invariant says of one client.
LEMMA Here ==
    ASSUME LockInv, NEW c \in Clients
    PROVE  /\ client[c] \in ClientRec /\ Control(client[c]) /\ Batching(client[c], job[c])
           /\ BaseOf(c, client[c], db) /\ db \in BaseRec
           /\ published \in Nat /\ acked \in Nat
           /\ db.writer # None => db.readers = {}
BY DEF LockInv, Types, Calling, BaseLock

LEMMA Names ==
    /\ "get" \in Pcs /\ "getWant" \in Pcs /\ "getSlow" \in Pcs /\ "lock1" \in Pcs /\ "lock2" \in Pcs
    /\ "enter" \in Pcs /\ "write" \in Pcs /\ "begin" \in Pcs /\ "ckptDo" \in Pcs /\ "lotGroup" \in Pcs
    /\ "idle" \in Pcs /\ "ensureWant" \in Pcs /\ "ensure" \in Pcs /\ "putLock" \in Pcs /\ "txLock" \in Pcs
    /\ "batchGet" \in Pcs /\ "batchWait" \in Pcs /\ "lotWant" \in Pcs /\ "lotLock" \in Pcs /\ "lotRun" \in Pcs
    /\ "lotFail" \in Pcs /\ "lotClear" \in Pcs /\ "sync" \in Pcs /\ "syncWal" \in Pcs /\ "ckpt" \in Pcs
    /\ "closeWant" \in Pcs /\ "closing" \in Pcs
    /\ "enter" \in Afters /\ "write" \in Afters /\ "begin" \in Afters /\ "ckptDo" \in Afters /\ "lotGroup" \in Afters
    /\ "none" \in Thens /\ "putLock" \in Thens /\ "txLock" \in Thens /\ "batchGet" \in Thens /\ "failed" \in Thens
    /\ "none" \in Kinds /\ "put" \in Kinds /\ "putWindow" \in Kinds /\ "tx" \in Kinds /\ "batch" \in Kinds
    /\ "lot" \in Kinds /\ "sync" \in Kinds /\ "checkpoint" \in Kinds /\ "close" \in Kinds
BY DEF Pcs, Work, Getting, Taking, Afters, Thens, Kinds

\* The record of a client between two calls.
LEMMA Fresh ==
    ASSUME LockInv, NEW c \in Clients, NEW b, b \in {Idle, Between(c)}
    PROVE  /\ b \in ClientRec /\ b.pc = "idle" /\ b.kind = "none" /\ b.s = None /\ b.then = "none" /\ b.after = "none"
           /\ b.todo = {} /\ b.list = {} /\ b.goal = <<>>
           /\ b = Idle => b.tx = None /\ b.from = 0
           /\ b = Between(c) => b.tx = client[c].tx /\ b.from = client[c].from
<1>1. "idle" \in Pcs /\ "none" \in Kinds /\ "none" \in Thens /\ "none" \in Afters
  BY Names DEF Afters
<1>2. /\ Idle \in ClientRec /\ Idle.pc = "idle" /\ Idle.kind = "none" /\ Idle.s = None /\ Idle.then = "none" /\ Idle.after = "none"
      /\ Idle.todo = {} /\ Idle.list = {} /\ Idle.goal = <<>> /\ Idle.tx = None /\ Idle.from = 0
  BY <1>1 DEF Idle, ClientRec
<1>3. client[c].tx \in Shards \cup {None} /\ client[c].from \in Nat
  BY Here DEF ClientRec
<1>4. PICK i, t, m : i = Idle /\ t = client[c].tx /\ m = client[c].from
  OBVIOUS
<1>5. PICK v : v = Between(c) /\ v = [i EXCEPT !.tx = t, !.from = m]
  BY <1>4 DEF Between
<1>6. /\ v \in ClientRec /\ v.pc = i.pc /\ v.kind = i.kind /\ v.s = i.s /\ v.then = i.then /\ v.after = i.after
      /\ v.todo = i.todo /\ v.list = i.list /\ v.goal = i.goal /\ v.tx = t /\ v.from = m
  <2>1. i \in ClientRec /\ t \in Shards \cup {None} /\ m \in Nat
    BY <1>2, <1>3, <1>4
  <2> QED
    BY ONLY <2>1, <1>5 DEF ClientRec
<1>7. CASE b = Idle /\ b # Between(c)
  BY <1>2, <1>7
<1>8. CASE b = Between(c) /\ b # Idle
  BY <1>2, <1>4, <1>5, <1>6, <1>8
<1>9. CASE b = Between(c) /\ b = Idle
  BY <1>2, <1>4, <1>5, <1>6, <1>9
<1> QED
  BY <1>7, <1>8, <1>9

\* A call returns.
LEMMA ReturnStep ==
    ASSUME LockInv, NEW c \in Clients, Return(c), UNCHANGED job,
           client[c].pc \notin Work \cup {"lock2", "batchWait"},
           shard' \in [Shards -> ShardRec], \A s \in Shards : SameLock(shard[s], shard'[s]),
           committer' \in Shards \cup {"none", "idle", "stopped"}, committer' \in Shards => committer' = committer,
           db' \in BaseRec, Apart(c, db, db'), db'.writer # None => db'.readers = {},
           c \notin db'.waiting \cup db'.readers, db'.writer # c, published' \in Nat, acked' \in Nat
    PROVE  LockInv'
<1>1. PICK w : w = Between(c)
  OBVIOUS
<1>2. Call(c, w)
  BY <1>1 DEF Return
<1>3. w \in ClientRec /\ w.pc = "idle" /\ w.kind = "none" /\ w.list = {} /\ w.tx = client[c].tx
  BY <1>1, Fresh
<1>4. Control(w) /\ Batching(w, job[c]) /\ LotHas(w) = {}
  BY <1>3, Here DEF Control, Position, Locking, Taking, Getting, Work, Batching, LotHas
<1>5. BaseStep
  <2>1. BaseOf(c, w, db')
    BY <1>3 DEF BaseOf
  <2> QED
    BY <1>2, <1>3, <2>1, BaseMoved
<1> QED
  BY <1>2, <1>3, <1>4, <1>5, QuietStep DEF Work

\* Where GetShard goes back to.
Gets(y) ==
    \/ y.kind \in {"put", "putWindow", "lot"} /\ y.then = "putLock"
    \/ y.kind = "tx" /\ y.then = "txLock"
    \/ y.kind = "batch" /\ y.then = "batchGet"

LEMMA InGetShard ==
    ASSUME NEW y \in ClientRec, Control(y), InGet(y)
    PROVE  y.s \in Shards /\ y.tx = None /\ Gets(y)
<1>1. Position(y)
  BY DEF Control
<1>2. Gets(y)
  BY <1>1 DEF Gets, Position, InGet, InWrite, Locking, Taking, Getting
<1>3. y.s \in Shards
  BY DEF Control, InGet, Locking, Getting, Taking, Work
<1> QED
  BY <1>2, <1>3 DEF Control, Gets

\* A shard is refused: a lot goes on to its end, another call returns.
LEMMA OpFailsStep ==
    ASSUME LockInv, NEW c \in Clients, OpFails(c), UNCHANGED <<job, shard, committer>>,
           client[c].pc \in Getting \cup {"lock1"}, ~Locking(client[c], "lotGroup"),
           db' \in BaseRec, Apart(c, db, db'), db'.writer # None => db'.readers = {},
           c \notin db'.waiting \cup db'.readers, db'.writer # c, published' \in Nat, acked' \in Nat
    PROVE  LockInv'
<1>1. CASE client[c].kind # "lot"
  BY <1>1, Here, ReturnStep, Kept3 DEF OpFails, Work, Getting
<1>2. CASE client[c].kind = "lot"
  <2>1. PICK y, w : y = client[c] /\ w = [y EXCEPT !.pc = "lotRun", !.todo = {}, !.then = "failed"]
    OBVIOUS
  <2>2. y \in ClientRec /\ Call(c, w)
    BY <1>2, <2>1, Here DEF OpFails
  <2>3. /\ w \in ClientRec /\ w.pc = "lotRun" /\ w.kind = y.kind /\ w.s = y.s /\ w.list = y.list /\ w.tx = y.tx
    BY <2>1, <2>2, Names DEF ClientRec
  <2>4. Control(w) /\ Batching(w, job[c]) /\ LotHas(w) = LotHas(y)
    BY <1>2, <2>1, <2>3, Here DEF Control, Position, Locking, Taking, Getting, Work, Batching, LotHas
  <2>5. BaseStep
    <3>1. BaseOf(c, w, db')
      BY <1>2, <2>1, <2>3 DEF BaseOf
    <3> QED
      BY <2>2, <2>3, <3>1, BaseMoved
  <2> QED
    BY <1>2, <2>1, <2>2, <2>3, <2>4, <2>5, QuietStep, Kept3 DEF Work, Getting
<1> QED
  BY <1>1, <1>2

LEMMA BusyKeeps ==
    ASSUME LockInv, NEW c \in Clients, Busy(c)
    PROVE  LockInv'
<1>1. client[c].pc = "lock1" /\ UNCHANGED <<shard, job, committer, published, acked>>
  BY DEF Busy
<1>2. PICK R \in SUBSET Clients, o \in Clients \cup {None} : R = db.readers \ {c} /\ o = IF db.writer = c THEN None ELSE db.writer
  BY Here DEF BaseRec
<1>3. db' \in BaseRec /\ db'.waiting = db.waiting /\ db'.writer = o /\ db'.readers = R
  BY <1>2, Here DEF BaseRec, Busy
<1>4. c \notin db'.waiting \cup db'.readers /\ db'.writer # c /\ Apart(c, db, db') /\ (db'.writer # None => db'.readers = {})
  BY <1>1, <1>2, <1>3, Here, DatabaseAssumption DEF BaseOf, Apart
<1>5. CASE ~(client[c].kind = "lot" /\ client[c].after = "lotGroup")
  <2>1. ~Locking(client[c], "lotGroup")
    BY <1>1, <1>5, Here DEF Locking, Control, Position, InGet, InWrite, Taking, Getting, Work
  <2> QED
    BY <1>1, <1>3, <1>4, <1>5, <2>1, Here, OpFailsStep DEF Busy
<1>6. CASE client[c].kind = "lot" /\ client[c].after = "lotGroup"
  <2>1. PICK y, w : y = client[c] /\ w = [y EXCEPT !.pc = "lotFail", !.todo = {}]
    OBVIOUS
  <2>2. y \in ClientRec /\ Call(c, w)
    BY <1>6, <2>1, Here DEF Busy
  <2>3. w \in ClientRec /\ w.pc = "lotFail" /\ w.kind = y.kind /\ w.s = y.s /\ w.list = y.list /\ w.tx = y.tx
    BY <2>1, <2>2, Names DEF ClientRec
  <2>4. Control(w) /\ Batching(w, job[c]) /\ LotHas(w) = {}
    BY <1>1, <1>6, <2>1, <2>3, Here DEF Control, Position, Locking, Taking, Getting, Work, Batching, LotHas
  <2>5. BaseStep
    <3>1. BaseOf(c, w, db')
      BY <1>4, <1>6, <2>1, <2>3 DEF BaseOf
    <3> QED
      BY <1>1, <1>3, <1>4, <2>2, <2>3, <3>1, BaseMoved, Here
  <2> QED
    BY <1>1, <2>1, <2>2, <2>3, <2>4, <2>5, QuietStep, Kept3 DEF Work
<1> QED
  BY <1>5, <1>6

LEMMA GetFastKeeps ==
    ASSUME LockInv, NEW c \in Clients, GetFast(c)
    PROVE  LockInv'
<1>1. PICK y : y = client[c]
  OBVIOUS
<1>2. y \in ClientRec /\ y.pc = "get" /\ UNCHANGED <<db, shard, job, committer, published, acked>>
  BY <1>1, Here DEF GetFast
<1>3. y.s \in Shards /\ y.tx = None /\ Gets(y)
  BY <1>1, <1>2, Here, InGetShard DEF InGet, Getting
<1>7. c \notin db.waiting \cup db.readers /\ db.writer # c
  BY <1>1, <1>2, <1>3, Here DEF BaseOf, Gets, Locking, Taking
<1>4. CASE OpFails(c)
  <2>1. ~Locking(client[c], "lotGroup") /\ Apart(c, db, db')
    BY <1>1, <1>2 DEF Locking, Taking, Apart
  <2> QED
    BY <1>1, <1>2, <1>4, <1>7, <2>1, Here, OpFailsStep DEF Getting
<1>5. ASSUME NEW p \in {"getWant", y.then}, To(c, p) PROVE LockInv'
  <2>1. PICK w : w = [y EXCEPT !.pc = p]
    OBVIOUS
  <2>2. p \in Pcs /\ p \in {"getWant", "putLock", "txLock", "batchGet"} /\ Call(c, w)
    BY <1>1, <1>3, <1>5, <2>1, Names DEF To, Gets
  <2>3. /\ w \in ClientRec /\ w.pc = p /\ w.kind = y.kind /\ w.s = y.s /\ w.then = y.then /\ w.after = y.after
        /\ w.todo = y.todo /\ w.list = y.list /\ w.tx = y.tx
    BY <1>2, <2>1, <2>2 DEF ClientRec
  <2>4. Control(w) /\ Batching(w, job[c])
    BY <1>1, <1>2, <1>3, <1>5, <2>2, <2>3, Here DEF Gets, Control, Position, InGet, InWrite, Locking, Taking, Getting, Work, Batching
  <2>5. LotHas(w) = LotHas(y)
    BY <1>2, <2>2, <2>3 DEF LotHas, Locking, Taking
  <2>6. BaseStep
    <3>1. BaseOf(c, w, db)
      BY <1>1, <1>2, <1>7, <2>2, <2>3, Here DEF BaseOf
    <3> QED
      BY <1>2, <2>2, <2>3, <3>1, BaseKept, Here
  <2> QED
    BY <1>1, <1>2, <2>2, <2>3, <2>4, <2>5, <2>6, QuietStep, Kept3 DEF Work
<1>6. CASE Call(c, [y EXCEPT !.pc = "lock1", !.after = "enter"])
  <2>1. PICK w : w = [y EXCEPT !.pc = "lock1", !.after = "enter"]
    OBVIOUS
  <2>3. /\ w \in ClientRec /\ w.pc = "lock1" /\ w.kind = y.kind /\ w.s = y.s /\ w.then = y.then /\ w.after = "enter"
        /\ w.todo = y.todo /\ w.list = y.list /\ w.tx = y.tx
    BY <1>2, <2>1, Names DEF ClientRec
  <2>4. Control(w) /\ Batching(w, job[c])
    BY <1>1, <1>2, <1>3, <2>3, Here DEF Gets, Control, Position, InGet, InWrite, Locking, Taking, Getting, Work, Batching
  <2>5. LotHas(w) = LotHas(y)
    BY <1>2, <2>3 DEF LotHas, Locking, Taking
  <2>6. BaseStep
    <3>1. BaseOf(c, w, db)
      BY <1>1, <1>2, <1>7, <2>3, Here DEF BaseOf
    <3> QED
      BY <1>2, <1>6, <2>1, <2>3, <3>1, BaseKept, Here
  <2> QED
    BY <1>1, <1>2, <1>6, <2>1, <2>3, <2>4, <2>5, <2>6, QuietStep, Kept3 DEF Work
<1> QED
  BY <1>1, <1>4, <1>5, <1>6 DEF GetFast

\* An update of one shard that is not of its lock.
LEMMA ShardKept ==
    ASSUME LockInv, NEW s \in Shards, NEW z \in ShardRec, SetShard(s, z), SameLock(shard[s], z), UNCHANGED committer
    PROVE  /\ shard' \in [Shards -> ShardRec] /\ \A t \in Shards : SameLock(shard[t], shard'[t])
           /\ committer' \in Shards \cup {"none", "idle", "stopped"} /\ (committer' \in Shards => committer' = committer)
<1>1. /\ shard' \in [Shards -> ShardRec]
      /\ shard'[s] = z /\ \A t \in Shards : t # s => shard'[t] = shard[t]
  BY DEF LockInv, Types, SetShard
<1> QED
  BY <1>1 DEF LockInv, Types, SameLock

LEMMA GetSlowKeeps ==
    ASSUME LockInv, NEW c \in Clients, GetSlow(c)
    PROVE  LockInv'
<1>1. PICK y, s : y = client[c] /\ s = y.s
  OBVIOUS
<1>2. y \in ClientRec /\ y.pc = "getSlow" /\ UNCHANGED <<job, committer, published, acked>>
  BY <1>1, Here DEF GetSlow
<1>3. s \in Shards /\ y.tx = None /\ Gets(y) /\ shard[s] \in ShardRec
  BY <1>1, <1>2, Here, InGetShard DEF InGet, Getting, LockInv, Types
<1>4. PICK W \in SUBSET Clients : W = db.waiting \ {c}
  BY Here DEF BaseRec
<1>5. db.writer = None /\ db.readers = {}
  BY DEF GetSlow, MayLock
<1>6. CASE db.closed
  <2>1. db' \in BaseRec /\ db'.waiting = W /\ db'.writer = None /\ db'.readers = {}
    BY <1>4, <1>5, <1>6, Here DEF BaseRec, GetSlow
  <2>2. OpFails(c) /\ UNCHANGED shard
    BY <1>6 DEF GetSlow
  <2>3. ~Locking(client[c], "lotGroup") /\ Apart(c, db, db') /\ c # None
    BY <1>1, <1>2, <1>4, <1>5, <2>1, DatabaseAssumption DEF Locking, Taking, Apart
  <2> QED
    BY <1>1, <1>2, <1>4, <2>1, <2>2, <2>3, Here, OpFailsStep DEF Getting
<1>7. CASE ~db.closed
  <2>1. PICK z : z = [shard[s] EXCEPT !.open = TRUE]
    OBVIOUS
  <2>2. z \in ShardRec /\ SameLock(shard[s], z) /\ SetShard(s, z)
    BY <1>1, <1>3, <1>7, <2>1 DEF ShardRec, SameLock, GetSlow
  <2>3. CASE db.lot /\ shard[s].group = 0
    <3>1. PICK w : w = [y EXCEPT !.pc = "lock1", !.after = "enter"]
      OBVIOUS
    <3>2. Call(c, w) /\ db' = [db EXCEPT !.waiting = W, !.writer = c]
      BY <1>1, <1>4, <1>7, <2>3, <3>1 DEF GetSlow
    <3>3. /\ w \in ClientRec /\ w.pc = "lock1" /\ w.kind = y.kind /\ w.s = y.s /\ w.then = y.then /\ w.after = "enter"
          /\ w.todo = y.todo /\ w.list = y.list /\ w.tx = y.tx
      BY <1>2, <3>1, Names DEF ClientRec
    <3>4. Control(w) /\ Batching(w, job[c])
      BY <1>1, <1>2, <1>3, <3>3, Here DEF Gets, Control, Position, InGet, InWrite, Locking, Taking, Getting, Work, Batching
    <3>5. LotHas(w) = LotHas(y)
      BY <1>2, <3>3 DEF LotHas, Locking, Taking
    <3>6. BaseStep
      <4>1. db' \in BaseRec /\ db'.waiting = W /\ db'.writer = c /\ db'.readers = {}
        BY <1>5, <3>2, Here DEF BaseRec
      <4>2. BaseOf(c, w, db') /\ Apart(c, db, db')
        BY <1>3, <1>4, <1>5, <3>3, <4>1, DatabaseAssumption DEF BaseOf, Apart, Locking, Taking, Gets
      <4> QED
        BY <1>2, <3>2, <3>3, <4>1, <4>2, Here, BaseMoved
    <3> QED
      BY <1>1, <1>2, <1>3, <2>2, <3>2, <3>3, <3>4, <3>5, <3>6, QuietStep, ShardKept DEF Work
  <2>4. CASE ~(db.lot /\ shard[s].group = 0)
    <3>1. PICK p, w : p = y.then /\ w = [y EXCEPT !.pc = p]
      OBVIOUS
    <3>2. p \in Pcs /\ p \in {"putLock", "txLock", "batchGet"} /\ Call(c, w) /\ db' = [db EXCEPT !.waiting = W]
      BY <1>1, <1>3, <1>4, <1>7, <2>4, <3>1, Names DEF GetSlow, To, Gets
    <3>3. /\ w \in ClientRec /\ w.pc = p /\ w.kind = y.kind /\ w.s = y.s /\ w.then = y.then /\ w.after = y.after
          /\ w.todo = y.todo /\ w.list = y.list /\ w.tx = y.tx
      BY <1>2, <3>1, <3>2 DEF ClientRec
    <3>4. Control(w) /\ Batching(w, job[c])
      BY <1>1, <1>2, <1>3, <3>1, <3>2, <3>3, Here DEF Gets, Control, Position, InWrite, Locking, Taking, Getting, Work, Batching
    <3>5. LotHas(w) = LotHas(y)
      BY <1>2, <3>2, <3>3 DEF LotHas, Locking, Taking
    <3>6. BaseStep
      <4>1. db' \in BaseRec /\ db'.waiting = W /\ db'.writer = None /\ db'.readers = {}
        BY <1>5, <3>2, Here DEF BaseRec
      <4>2. BaseOf(c, w, db') /\ Apart(c, db, db')
        BY <1>3, <1>4, <1>5, <3>2, <3>3, <4>1, DatabaseAssumption DEF BaseOf, Apart, Gets
      <4> QED
        BY <1>2, <3>2, <3>3, <4>1, <4>2, Here, BaseMoved
    <3> QED
      BY <1>1, <1>2, <1>3, <2>2, <3>2, <3>3, <3>4, <3>5, <3>6, QuietStep, ShardKept DEF Work
  <2> QED
    BY <2>3, <2>4
<1> QED
  BY <1>6, <1>7

LEMMA SyncShardKeeps ==
    ASSUME LockInv, NEW c \in Clients, SyncShard(c)
    PROVE  LockInv'
<1>1. PICK y, s, z, w : /\ y = client[c] /\ s = y.s /\ z = Flushed(shard[s])
                        /\ w = [y EXCEPT !.pc = "sync", !.todo = y.todo \ {s}]
  OBVIOUS
<1>2. y \in ClientRec /\ y.pc = "syncWal" /\ Call(c, w) /\ SetShard(s, z)
  BY <1>1, Here DEF SyncShard
<1>3. /\ w \in ClientRec /\ w.pc = "sync" /\ w.kind = y.kind /\ w.s = y.s /\ w.tx = y.tx /\ w.list = y.list
  BY <1>1, <1>2, Names DEF ClientRec
<1>4. y.kind = "sync" /\ s \in Shards /\ y.tx = None /\ shard[s] \in ShardRec
  BY <1>1, <1>2, Here DEF Control, Position, InGet, InWrite, Locking, Taking, Getting, Work, LockInv, Types
<1>5. z \in ShardRec /\ SameLock(shard[s], z)
  BY <1>1, <1>4, IsFlushed DEF SameLock
<1>6. Control(w) /\ Batching(w, job[c]) /\ LotHas(w) = {}
  BY <1>1, <1>2, <1>3, <1>4, Here DEF Control, Position, Locking, Taking, Getting, Work, Batching, LotHas
<1>7. BaseStep
  <2>1. BaseOf(c, w, db)
    BY <1>1, <1>2, <1>3, <1>4, Here DEF BaseOf, Locking, Taking
  <2> QED
    BY <1>2, <1>3, <2>1, Here, BaseKept DEF SyncShard
<1> QED
  BY <1>1, <1>2, <1>3, <1>4, <1>5, <1>6, <1>7, QuietStep, ShardKept DEF Work, SyncShard

LEMMA CloseStopKeeps ==
    ASSUME LockInv, NEW c \in Clients, CloseStop(c)
    PROVE  LockInv'
<1>1. PICK y : y = client[c]
  OBVIOUS
<1>2. y \in ClientRec /\ y.pc = "closeWant" /\ UNCHANGED <<shard, job, published, acked>> /\ db.writer = None /\ db.readers = {}
  BY <1>1, Here DEF CloseStop, MayLock
<1>3. y.kind = "close" /\ y.tx = None
  BY <1>1, <1>2, Here DEF Control, Position, InGet, InWrite, Locking, Taking, Getting, Work
<1>4. PICK W \in SUBSET Clients, o \in Clients \cup {None} : W = db.waiting \ {c} /\ o = IF db.closed THEN None ELSE c
  BY Here DEF BaseRec
<1>5. db' \in BaseRec /\ db'.waiting = W /\ db'.writer = o /\ db'.readers = {}
  BY <1>2, <1>4, Here DEF BaseRec, CloseStop
<1>6. Apart(c, db, db')
  BY <1>2, <1>4, <1>5, DatabaseAssumption DEF Apart
<1>7. committer' \in Shards \cup {"none", "idle", "stopped"} /\ (committer' \in Shards => committer' = committer)
  BY DatabaseAssumption DEF LockInv, Types, CloseStop
<1>8. shard' \in [Shards -> ShardRec] /\ \A s \in Shards : SameLock(shard[s], shard'[s])
  BY <1>2 DEF LockInv, Types, SameLock
<1>9. CASE db.closed
  <2>1. Return(c) /\ c \notin db'.waiting \cup db'.readers /\ db'.writer # c
    BY <1>4, <1>5, <1>9, DatabaseAssumption DEF CloseStop
  <2> QED
    BY <1>1, <1>2, <1>5, <1>6, <1>7, <1>8, <2>1, Here, ReturnStep DEF Work
<1>10. CASE ~db.closed
  <2>1. PICK w : w = [y EXCEPT !.pc = "closing"]
    OBVIOUS
  <2>2. Call(c, w)
    BY <1>1, <1>10, <2>1 DEF CloseStop, To
  <2>3. w \in ClientRec /\ w.pc = "closing" /\ w.kind = y.kind /\ w.s = y.s /\ w.tx = y.tx /\ w.list = y.list
    BY <1>2, <2>1, Names DEF ClientRec
  <2>4. Control(w) /\ Batching(w, job[c]) /\ LotHas(w) = {}
    BY <1>1, <1>2, <1>3, <2>3, Here DEF Control, Position, Locking, Taking, Getting, Work, Batching, LotHas
  <2>5. BaseStep
    <3>1. BaseOf(c, w, db')
      BY <1>3, <1>4, <1>5, <1>10, <2>3 DEF BaseOf
    <3> QED
      BY <1>2, <1>5, <1>6, <2>2, <2>3, <3>1, Here, BaseMoved
  <2> QED
    BY <1>1, <1>2, <1>3, <1>7, <1>8, <2>2, <2>3, <2>4, <2>5, QuietStep DEF Work
<1> QED
  BY <1>9, <1>10

LEMMA CloseShardsKeeps ==
    ASSUME LockInv, NEW c \in Clients, CloseShards(c)
    PROVE  LockInv'
<1>1. client[c].pc = "closing" /\ client[c].kind = "close" /\ db.writer = c /\ db.readers = {}
  BY Here, DatabaseAssumption DEF CloseShards, Control, Position, InGet, InWrite, Locking, Taking, Getting, Work, BaseOf
<1>2. db' \in BaseRec /\ db'.waiting = db.waiting /\ db'.writer = None /\ db'.readers = {}
  BY <1>1, Here DEF BaseRec, CloseShards
<1>3. c \notin db'.waiting \cup db'.readers /\ db'.writer # c /\ Apart(c, db, db')
  BY <1>1, <1>2, Here, DatabaseAssumption DEF BaseOf, Apart
<1>4. ASSUME NEW s \in Shards PROVE shard'[s] \in ShardRec /\ SameLock(shard[s], shard'[s])
  <2>1. PICK x, f : x = shard[s] /\ f = Saved(x) /\ shard'[s] = IF x.open THEN [f EXCEPT !.open = FALSE] ELSE x
    BY DEF CloseShards
  <2>4. x \in ShardRec
    BY <2>1 DEF LockInv, Types
  <2>2. f \in ShardRec /\ SameLock(x, f)
    BY <2>1, <2>4, IsSaved DEF SameLock
  <2>3. [f EXCEPT !.open = FALSE] \in ShardRec /\ SameLock(f, [f EXCEPT !.open = FALSE])
    BY <2>2 DEF ShardRec, SameLock
  <2> QED
    BY <2>1, <2>2, <2>3, <2>4 DEF SameLock
<1>5. shard' \in [Shards -> ShardRec] /\ UNCHANGED <<job, committer, published, acked>>
  BY <1>4 DEF CloseShards
<1>6. committer' \in Shards \cup {"none", "idle", "stopped"} /\ (committer' \in Shards => committer' = committer)
  BY <1>5 DEF LockInv, Types
<1> QED
  BY <1>1, <1>2, <1>3, <1>4, <1>5, <1>6, Here, ReturnStep DEF CloseShards, Work

LEMMA PutLockKeeps ==
    ASSUME LockInv, NEW c \in Clients, PutLock(c)
    PROVE  LockInv'
<1>1. PICK y, w : y = client[c] /\ w = [y EXCEPT !.pc = "lock1", !.after = "write"]
  OBVIOUS
<1>2. y \in ClientRec /\ y.pc = "putLock" /\ Call(c, w)
  BY <1>1, Here DEF PutLock
<1>3. /\ w \in ClientRec /\ w.pc = "lock1" /\ w.after = "write"
      /\ w.kind = y.kind /\ w.s = y.s /\ w.then = y.then /\ w.from = y.from /\ w.todo = y.todo /\ w.list = y.list
      /\ w.tx = y.tx /\ w.goal = y.goal
  BY <1>1, <1>2, Names DEF ClientRec
<1>4. y.s \in Shards /\ y.kind \in {"put", "putWindow", "lot"} /\ y.then = "putLock" /\ y.tx = None
  BY <1>1, <1>2, Here DEF Control, Position, InGet, InWrite, Locking, Taking, Getting, Work
<1>5. Control(w) /\ Batching(w, job[c])
  BY <1>1, <1>2, <1>3, <1>4, Here DEF Control, Position, InGet, InWrite, Locking, Taking, Getting, Work, Batching
<1>7. LotHas(w) = LotHas(y)
  BY <1>2, <1>3, <1>4 DEF LotHas, Locking, Taking
<1>6. BaseStep
  <2>1. BaseOf(c, w, db)
    BY <1>1, <1>2, <1>3, <1>4, Here DEF BaseOf, Locking, Taking
  <2> QED
    BY <1>2, <1>3, <2>1, Here, BaseKept DEF PutLock
<1> QED
  BY <1>1, <1>2, <1>3, <1>4, <1>5, <1>6, <1>7, QuietStep, Kept3 DEF Work, PutLock

LEMMA TxLockKeeps ==
    ASSUME LockInv, NEW c \in Clients, TxLock(c)
    PROVE  LockInv'
<1>1. PICK y, w : y = client[c] /\ w = [y EXCEPT !.pc = "lock1", !.after = "begin"]
  OBVIOUS
<1>2. y \in ClientRec /\ y.pc = "txLock" /\ Call(c, w)
  BY <1>1, Here DEF TxLock
<1>3. /\ w \in ClientRec /\ w.pc = "lock1" /\ w.after = "begin"
      /\ w.kind = y.kind /\ w.s = y.s /\ w.then = y.then /\ w.from = y.from /\ w.todo = y.todo /\ w.list = y.list
      /\ w.tx = y.tx /\ w.goal = y.goal
  BY <1>1, <1>2, Names DEF ClientRec
<1>4. y.s \in Shards /\ y.kind = "tx" /\ y.then = "txLock" /\ y.tx = None
  BY <1>1, <1>2, Here DEF Control, Position, InGet, InWrite, Locking, Taking, Getting, Work
<1>5. Control(w) /\ Batching(w, job[c])
  BY <1>1, <1>2, <1>3, <1>4, Here DEF Control, Position, InGet, InWrite, Locking, Taking, Getting, Work, Batching
<1>7. LotHas(w) = LotHas(y)
  BY <1>2, <1>3, <1>4 DEF LotHas, Locking, Taking
<1>6. BaseStep
  <2>1. BaseOf(c, w, db)
    BY <1>1, <1>2, <1>3, <1>4, Here DEF BaseOf, Locking, Taking
  <2> QED
    BY <1>2, <1>3, <2>1, Here, BaseKept DEF TxLock
<1> QED
  BY <1>1, <1>2, <1>3, <1>4, <1>5, <1>6, <1>7, QuietStep, Kept3 DEF Work, TxLock

LEMMA GetWantKeeps ==
    ASSUME LockInv, NEW c \in Clients, GetWant(c)
    PROVE  LockInv'
<1>1. PICK y, w : y = client[c] /\ w = [y EXCEPT !.pc = "getSlow"]
  OBVIOUS
<1>2. y \in ClientRec /\ y.pc = "getWant" /\ Call(c, w)
  BY <1>1, Here DEF GetWant, Want, To
<1>3. /\ w \in ClientRec /\ w.pc = "getSlow"
      /\ w.kind = y.kind /\ w.s = y.s /\ w.then = y.then /\ w.after = y.after /\ w.from = y.from /\ w.todo = y.todo
      /\ w.list = y.list /\ w.tx = y.tx /\ w.goal = y.goal
  BY <1>1, <1>2, Names DEF ClientRec
<1>4. y.s \in Shards /\ y.tx = None /\ y.kind # "checkpoint"
  BY <1>1, <1>2, Here DEF Control, Position, InGet, InWrite, Locking, Taking, Getting, Work
<1>5. Control(w) /\ Batching(w, job[c])
  BY <1>1, <1>2, <1>3, <1>4, Here DEF Control, Position, InGet, InWrite, Locking, Taking, Getting, Work, Batching
<1>7. LotHas(w) = LotHas(y)
  BY <1>2, <1>3, <1>4 DEF LotHas, Locking, Taking
<1>6. BaseStep
  <2>1. PICK S \in SUBSET Clients : S = db.waiting \cup {c}
    BY Here DEF BaseRec
  <2>2. /\ db' \in BaseRec /\ db'.waiting = S
        /\ db'.writer = db.writer /\ db'.readers = db.readers
    BY <2>1, Here DEF BaseRec, GetWant, Want
  <2>3. BaseOf(c, w, db') /\ Apart(c, db, db')
    BY <1>1, <1>2, <1>3, <1>4, <2>1, <2>2, Here DEF BaseOf, Apart, Locking, Taking
  <2> QED
    BY <1>2, <1>3, <2>2, <2>3, Here, BaseMoved DEF GetWant, Want
<1> QED
  BY <1>1, <1>2, <1>3, <1>4, <1>5, <1>6, <1>7, QuietStep, Kept3 DEF Work, GetWant, Want, To

LEMMA LotFailKeeps ==
    ASSUME LockInv, NEW c \in Clients, LotFail(c)
    PROVE  LockInv'
<1>1. PICK y, w : y = client[c] /\ w = [y EXCEPT !.pc = "lotClear"]
  OBVIOUS
<1>2. y \in ClientRec /\ y.pc = "lotFail" /\ Call(c, w)
  BY <1>1, Here DEF LotFail, Want, To
<1>3. /\ w \in ClientRec /\ w.pc = "lotClear"
      /\ w.kind = y.kind /\ w.s = y.s /\ w.then = y.then /\ w.after = y.after /\ w.from = y.from /\ w.todo = y.todo
      /\ w.list = y.list /\ w.tx = y.tx /\ w.goal = y.goal
  BY <1>1, <1>2, Names DEF ClientRec
<1>4. y.kind = "lot" /\ y.tx = None
  BY <1>1, <1>2, Here DEF Control, Position, InGet, InWrite, Locking, Taking, Getting, Work
<1>5. Control(w) /\ Batching(w, job[c])
  BY <1>1, <1>2, <1>3, <1>4, Here DEF Control, Position, InGet, InWrite, Locking, Taking, Getting, Work, Batching
<1>7. LotHas(w) = LotHas(y)
  BY <1>2, <1>3, <1>4 DEF LotHas, Locking, Taking
<1>6. BaseStep
  <2>1. PICK S \in SUBSET Clients : S = db.waiting \cup {c}
    BY Here DEF BaseRec
  <2>2. /\ db' \in BaseRec /\ db'.waiting = S
        /\ db'.writer = db.writer /\ db'.readers = db.readers
    BY <2>1, Here DEF BaseRec, LotFail, Want
  <2>3. BaseOf(c, w, db') /\ Apart(c, db, db')
    BY <1>1, <1>2, <1>3, <1>4, <2>1, <2>2, Here DEF BaseOf, Apart, Locking, Taking
  <2> QED
    BY <1>2, <1>3, <2>2, <2>3, Here, BaseMoved DEF LotFail, Want
<1> QED
  BY <1>1, <1>2, <1>3, <1>4, <1>5, <1>6, <1>7, QuietStep, Kept3 DEF Work, LotFail, Want, To

LEMMA BatchGetKeeps ==
    ASSUME LockInv, NEW c \in Clients, NEW s \in Shards, BatchGet(c, s)
    PROVE  LockInv'
<1>1. PICK y, w : y = client[c] /\ w = [y EXCEPT !.pc = "get", !.s = s, !.then = "batchGet", !.todo = y.todo \ {s}]
  OBVIOUS
<1>2. y \in ClientRec /\ y.pc = "batchGet" /\ s \in y.todo /\ Call(c, w)
  BY <1>1, Here DEF BatchGet
<1>3. /\ w \in ClientRec /\ w.pc = "get" /\ w.s = s /\ w.then = "batchGet" /\ w.todo = y.todo \ {s}
      /\ w.kind = y.kind /\ w.after = y.after /\ w.from = y.from /\ w.list = y.list /\ w.tx = y.tx /\ w.goal = y.goal
  BY <1>1, <1>2, Names DEF ClientRec
<1>4. y.kind = "batch" /\ y.tx = None
  BY <1>1, <1>2, Here DEF Control, Position, InGet, InWrite, Locking, Taking, Getting, Work
<1>5. Control(w) /\ Batching(w, job[c])
  BY <1>1, <1>2, <1>3, <1>4, Here DEF Control, Position, InGet, InWrite, Locking, Taking, Getting, Work, Batching
<1>7. LotHas(w) = LotHas(y)
  BY <1>2, <1>3, <1>4 DEF LotHas, Locking, Taking
<1>6. BaseStep
  <2>1. BaseOf(c, w, db)
    BY <1>1, <1>2, <1>3, <1>4, Here DEF BaseOf, Locking, Taking
  <2> QED
    BY <1>2, <1>3, <2>1, Here, BaseKept DEF BatchGet
<1> QED
  BY <1>1, <1>2, <1>3, <1>4, <1>5, <1>6, <1>7, QuietStep, Kept3 DEF Work, BatchGet

LEMMA LotOpKeeps ==
    ASSUME LockInv, NEW c \in Clients, NEW s \in Shards, LotOp(c, s)
    PROVE  LockInv'
<1>1. PICK y, w : y = client[c] /\ w = [y EXCEPT !.pc = "get", !.s = s, !.then = "putLock", !.todo = y.todo \ {s}]
  OBVIOUS
<1>2. y \in ClientRec /\ y.pc = "lotRun" /\ s \in y.todo /\ Call(c, w)
  BY <1>1, Here DEF LotOp
<1>3. /\ w \in ClientRec /\ w.pc = "get" /\ w.s = s /\ w.then = "putLock" /\ w.todo = y.todo \ {s}
      /\ w.kind = y.kind /\ w.after = y.after /\ w.from = y.from /\ w.list = y.list /\ w.tx = y.tx /\ w.goal = y.goal
  BY <1>1, <1>2, Names DEF ClientRec
<1>4. y.kind = "lot" /\ y.tx = None
  BY <1>1, <1>2, Here DEF Control, Position, InGet, InWrite, Locking, Taking, Getting, Work
<1>5. Control(w) /\ Batching(w, job[c])
  BY <1>1, <1>2, <1>3, <1>4, Here DEF Control, Position, InGet, InWrite, Locking, Taking, Getting, Work, Batching
<1>7. LotHas(w) = LotHas(y)
  BY <1>2, <1>3, <1>4 DEF LotHas, Locking, Taking
<1>6. BaseStep
  <2>1. BaseOf(c, w, db)
    BY <1>1, <1>2, <1>3, <1>4, Here DEF BaseOf, Locking, Taking
  <2> QED
    BY <1>2, <1>3, <2>1, Here, BaseKept DEF LotOp
<1> QED
  BY <1>1, <1>2, <1>3, <1>4, <1>5, <1>6, <1>7, QuietStep, Kept3 DEF Work, LotOp

LEMMA LotLockKeeps ==
    ASSUME LockInv, NEW c \in Clients, NEW s \in Shards, LotLock(c, s)
    PROVE  LockInv'
<1>1. PICK y, w : y = client[c] /\ w = [y EXCEPT !.pc = "lock1", !.after = "lotGroup", !.s = s, !.todo = y.todo \ {s}]
  OBVIOUS
<1>2. y \in ClientRec /\ y.pc = "lotLock" /\ s \in y.todo /\ Call(c, w)
  BY <1>1, Here DEF LotLock
<1>3. /\ w \in ClientRec /\ w.pc = "lock1" /\ w.s = s /\ w.after = "lotGroup" /\ w.todo = y.todo \ {s}
      /\ w.kind = y.kind /\ w.then = y.then /\ w.from = y.from /\ w.list = y.list /\ w.tx = y.tx /\ w.goal = y.goal
  BY <1>1, <1>2, Names DEF ClientRec
<1>4. y.kind = "lot" /\ y.tx = None
  BY <1>1, <1>2, Here DEF Control, Position, InGet, InWrite, Locking, Taking, Getting, Work
<1>5. Control(w) /\ Batching(w, job[c])
  BY <1>1, <1>2, <1>3, <1>4, Here DEF Control, Position, InGet, InWrite, Locking, Taking, Getting, Work, Batching
<1>7. LotHas(w) = LotHas(y)
  BY <1>2, <1>3, <1>4 DEF LotHas, Locking, Taking
<1>6. BaseStep
  <2>1. BaseOf(c, w, db)
    BY <1>1, <1>2, <1>3, <1>4, Here DEF BaseOf, Locking, Taking
  <2> QED
    BY <1>2, <1>3, <2>1, Here, BaseKept DEF LotLock
<1> QED
  BY <1>1, <1>2, <1>3, <1>4, <1>5, <1>6, <1>7, QuietStep, Kept3 DEF Work, LotLock

LEMMA CheckpointShardKeeps ==
    ASSUME LockInv, NEW c \in Clients, NEW s \in Shards, CheckpointShard(c, s)
    PROVE  LockInv'
<1>1. PICK y, w : y = client[c] /\ w = [y EXCEPT !.pc = "lock1", !.after = "ckptDo", !.s = s, !.todo = y.todo \ {s}]
  OBVIOUS
<1>2. y \in ClientRec /\ y.pc = "ckpt" /\ s \in y.todo /\ Call(c, w)
  BY <1>1, Here DEF CheckpointShard
<1>3. /\ w \in ClientRec /\ w.pc = "lock1" /\ w.s = s /\ w.after = "ckptDo" /\ w.todo = y.todo \ {s}
      /\ w.kind = y.kind /\ w.then = y.then /\ w.from = y.from /\ w.list = y.list /\ w.tx = y.tx /\ w.goal = y.goal
  BY <1>1, <1>2, Names DEF ClientRec
<1>4. y.kind = "checkpoint" /\ y.tx = None
  BY <1>1, <1>2, Here DEF Control, Position, InGet, InWrite, Locking, Taking, Getting, Work
<1>5. Control(w) /\ Batching(w, job[c])
  BY <1>1, <1>2, <1>3, <1>4, Here DEF Control, Position, InGet, InWrite, Locking, Taking, Getting, Work, Batching
<1>7. LotHas(w) = LotHas(y)
  BY <1>2, <1>3, <1>4 DEF LotHas, Locking, Taking
<1>6. BaseStep
  <2>1. BaseOf(c, w, db)
    BY <1>1, <1>2, <1>3, <1>4, Here DEF BaseOf, Locking, Taking
  <2> QED
    BY <1>2, <1>3, <2>1, Here, BaseKept DEF CheckpointShard
<1> QED
  BY <1>1, <1>2, <1>3, <1>4, <1>5, <1>6, <1>7, QuietStep, Kept3 DEF Work, CheckpointShard

LEMMA LotStartKeeps ==
    ASSUME LockInv, NEW c \in Clients, LotStart(c)
    PROVE  LockInv'
<1>1. PICK y, w : y = client[c] /\ w = [y EXCEPT !.pc = "lotRun", !.todo = Shards]
  OBVIOUS
<1>2. y \in ClientRec /\ y.pc = "lotLock" /\ y.todo = {} /\ Call(c, w)
  BY <1>1, Here DEF LotStart
<1>3. /\ w \in ClientRec /\ w.pc = "lotRun" /\ w.todo = Shards
      /\ w.kind = y.kind /\ w.s = y.s /\ w.then = y.then /\ w.after = y.after /\ w.from = y.from /\ w.list = y.list
      /\ w.tx = y.tx /\ w.goal = y.goal
  BY <1>1, <1>2, Names DEF ClientRec
<1>4. y.kind = "lot" /\ y.tx = None
  BY <1>1, <1>2, Here DEF Control, Position, InGet, InWrite, Locking, Taking, Getting, Work
<1>5. Control(w) /\ Batching(w, job[c])
  BY <1>1, <1>2, <1>3, <1>4, Here DEF Control, Position, InGet, InWrite, Locking, Taking, Getting, Work, Batching
<1>7. LotHas(w) = LotHas(y)
  BY <1>2, <1>3, <1>4 DEF LotHas, Locking, Taking
<1>6. BaseStep
  <2>1. BaseOf(c, w, db)
    BY <1>1, <1>2, <1>3, <1>4, Here DEF BaseOf, Locking, Taking
  <2> QED
    BY <1>2, <1>3, <2>1, Here, BaseKept DEF LotStart
<1> QED
  BY <1>1, <1>2, <1>3, <1>4, <1>5, <1>6, <1>7, QuietStep, Kept3 DEF Work, LotStart

LEMMA SyncAckKeeps ==
    ASSUME LockInv, NEW c \in Clients, NEW s \in Shards, SyncAck(c, s)
    PROVE  LockInv'
<1>1. PICK y, w : y = client[c] /\ w = [y EXCEPT !.pc = "syncWal", !.s = s]
  OBVIOUS
<1>2. y \in ClientRec /\ y.pc = "sync" /\ s \in y.todo /\ Call(c, w)
  BY <1>1, Here DEF SyncAck
<1>3. /\ w \in ClientRec /\ w.pc = "syncWal" /\ w.s = s
      /\ w.kind = y.kind /\ w.then = y.then /\ w.after = y.after /\ w.from = y.from /\ w.todo = y.todo /\ w.list = y.list
      /\ w.tx = y.tx /\ w.goal = y.goal
  BY <1>1, <1>2, Names DEF ClientRec
<1>4. y.kind = "sync" /\ y.tx = None
  BY <1>1, <1>2, Here DEF Control, Position, InGet, InWrite, Locking, Taking, Getting, Work
<1>5. Control(w) /\ Batching(w, job[c])
  BY <1>1, <1>2, <1>3, <1>4, Here DEF Control, Position, InGet, InWrite, Locking, Taking, Getting, Work, Batching
<1>7. LotHas(w) = LotHas(y)
  BY <1>2, <1>3, <1>4 DEF LotHas, Locking, Taking
<1>6. BaseStep
  <2>1. BaseOf(c, w, db)
    BY <1>1, <1>2, <1>3, <1>4, Here DEF BaseOf, Locking, Taking
  <2> QED
    BY <1>2, <1>3, <2>1, Here, BaseKept DEF SyncAck
<1> QED
  BY <1>1, <1>2, <1>3, <1>4, <1>5, <1>6, <1>7, QuietStep, Kept3 DEF Work, SyncAck

LEMMA EnsureShardKeeps ==
    ASSUME LockInv, NEW c \in Clients, NEW s \in Shards, EnsureShard(c, s)
    PROVE  LockInv'
<1>1. PICK y, w : y = client[c] /\ w = [y EXCEPT !.todo = y.todo \ {s}]
  OBVIOUS
<1>2. y \in ClientRec /\ y.pc = "ensure" /\ s \in y.todo /\ Call(c, w)
  BY <1>1, Here DEF EnsureShard
<1>3. /\ w \in ClientRec /\ w.todo = y.todo \ {s}
      /\ w.pc = y.pc /\ w.kind = y.kind /\ w.s = y.s /\ w.then = y.then /\ w.after = y.after /\ w.from = y.from
      /\ w.list = y.list /\ w.tx = y.tx /\ w.goal = y.goal
  BY <1>1, <1>2, Names DEF ClientRec
<1>4. y.kind = "putWindow" /\ y.then = "putLock" /\ y.s \in Shards /\ y.tx = None
  BY <1>1, <1>2, Here DEF Control, Position, InGet, InWrite, Locking, Taking, Getting, Work
<1>5. Control(w) /\ Batching(w, job[c])
  BY <1>1, <1>2, <1>3, <1>4, Here DEF Control, Position, InGet, InWrite, Locking, Taking, Getting, Work, Batching
<1>7. LotHas(w) = LotHas(y)
  BY <1>2, <1>3, <1>4 DEF LotHas, Locking, Taking
<1>6. BaseStep
  <2>1. BaseOf(c, w, db)
    BY <1>1, <1>2, <1>3, <1>4, Here DEF BaseOf, Locking, Taking
  <2> QED
    BY <1>2, <1>3, <2>1, Here, BaseKept DEF EnsureShard
<1> QED
  BY <1>1, <1>2, <1>3, <1>4, <1>5, <1>6, <1>7, QuietStep, Kept3 DEF Work, EnsureShard
LEMMA StartPutKeeps ==
    ASSUME LockInv, Disciplined, NEW c \in Clients, NEW s \in Shards, StartPut(c, s)
    PROVE  LockInv'
<1>1. PICK y, b, w : y = client[c] /\ b = Between(c) /\ w = [b EXCEPT !.kind = "put", !.pc = "get", !.s = s, !.then = "putLock"]
  OBVIOUS
<1>2. y \in ClientRec /\ y.pc = "idle" /\ y.tx = None /\ Call(c, w)
  BY <1>1, Here DEF StartPut, MayCall, Disciplined
<1>3. b \in ClientRec /\ b.tx = None /\ b.pc = "idle" /\ b.list = {} /\ b.todo = {}
  BY <1>1, <1>2, Fresh
<1>4. /\ w \in ClientRec /\ w.pc = "get" /\ w.kind = "put" /\ w.s = s /\ w.then = "putLock"
      /\ w.after = b.after /\ w.from = b.from /\ w.todo = b.todo /\ w.list = b.list /\ w.tx = b.tx /\ w.goal = b.goal
  BY <1>1, <1>2, <1>3, Names DEF ClientRec
<1>5. y.kind = "none" /\ \A t \in Shards : job[c][t] = "none"
  BY <1>1, <1>2, Here DEF Control, Position, InGet, InWrite, Locking, Taking, Getting, Work, Batching
<1>6. Control(w) /\ Batching(w, job[c]) /\ LotHas(w) = {}
  BY <1>3, <1>4, <1>5 DEF Control, Position, InGet, InWrite, Locking, Taking, Getting, Work, Batching, LotHas
<1>7. BaseStep
  <2>1. BaseOf(c, w, db)
    BY <1>1, <1>2, <1>4, <1>5, Here DEF BaseOf, Locking, Taking
  <2> QED
    BY <1>2, <1>4, <2>1, Here, BaseKept DEF StartPut
<1> QED
  BY <1>1, <1>2, <1>3, <1>4, <1>6, <1>7, QuietStep, Kept3 DEF Work, StartPut

LEMMA StartPutWindowKeeps ==
    ASSUME LockInv, Disciplined, NEW c \in Clients, NEW s \in Shards, StartPutWindow(c, s)
    PROVE  LockInv'
<1>1. PICK y, b, w : y = client[c] /\ b = Between(c) /\ w = [b EXCEPT !.kind = "putWindow", !.pc = "ensureWant", !.s = s, !.then = "putLock"]
  OBVIOUS
<1>2. y \in ClientRec /\ y.pc = "idle" /\ y.tx = None /\ Call(c, w)
  BY <1>1, Here DEF StartPutWindow, MayCall, Disciplined
<1>3. b \in ClientRec /\ b.tx = None /\ b.pc = "idle" /\ b.list = {} /\ b.todo = {}
  BY <1>1, <1>2, Fresh
<1>4. /\ w \in ClientRec /\ w.pc = "ensureWant" /\ w.kind = "putWindow" /\ w.s = s /\ w.then = "putLock"
      /\ w.after = b.after /\ w.from = b.from /\ w.todo = b.todo /\ w.list = b.list /\ w.tx = b.tx /\ w.goal = b.goal
  BY <1>1, <1>2, <1>3, Names DEF ClientRec
<1>5. y.kind = "none" /\ \A t \in Shards : job[c][t] = "none"
  BY <1>1, <1>2, Here DEF Control, Position, InGet, InWrite, Locking, Taking, Getting, Work, Batching
<1>6. Control(w) /\ Batching(w, job[c]) /\ LotHas(w) = {}
  BY <1>3, <1>4, <1>5 DEF Control, Position, InGet, InWrite, Locking, Taking, Getting, Work, Batching, LotHas
<1>7. BaseStep
  <2>1. PICK S \in SUBSET Clients : S = db.waiting \cup {c}
    BY Here DEF BaseRec
  <2>2. /\ db' \in BaseRec /\ db'.waiting = S
        /\ db'.writer = db.writer /\ db'.readers = db.readers
    BY <2>1, Here DEF BaseRec, StartPutWindow
  <2>3. BaseOf(c, w, db') /\ Apart(c, db, db')
    BY <1>1, <1>2, <1>4, <1>5, <2>1, <2>2, Here DEF BaseOf, Apart, Locking, Taking
  <2> QED
    BY <1>2, <1>4, <2>1, <2>2, <2>3, Here, BaseMoved DEF StartPutWindow, MayRead
<1> QED
  BY <1>1, <1>2, <1>3, <1>4, <1>6, <1>7, QuietStep, Kept3 DEF Work, StartPutWindow

LEMMA StartTxKeeps ==
    ASSUME LockInv, Disciplined, NEW c \in Clients, NEW s \in Shards, StartTx(c, s)
    PROVE  LockInv'
<1>1. PICK y, b, w : y = client[c] /\ b = Idle /\ w = [b EXCEPT !.kind = "tx", !.pc = "get", !.s = s, !.then = "txLock"]
  OBVIOUS
<1>2. y \in ClientRec /\ y.pc = "idle" /\ y.tx = None /\ Call(c, w)
  BY <1>1, Here DEF StartTx, MayCall, Disciplined
<1>3. b \in ClientRec /\ b.tx = None /\ b.pc = "idle" /\ b.list = {} /\ b.todo = {}
  BY <1>1, <1>2, Fresh
<1>4. /\ w \in ClientRec /\ w.pc = "get" /\ w.kind = "tx" /\ w.s = s /\ w.then = "txLock"
      /\ w.after = b.after /\ w.from = b.from /\ w.todo = b.todo /\ w.list = b.list /\ w.tx = b.tx /\ w.goal = b.goal
  BY <1>1, <1>2, <1>3, Names DEF ClientRec
<1>5. y.kind = "none" /\ \A t \in Shards : job[c][t] = "none"
  BY <1>1, <1>2, Here DEF Control, Position, InGet, InWrite, Locking, Taking, Getting, Work, Batching
<1>6. Control(w) /\ Batching(w, job[c]) /\ LotHas(w) = {}
  BY <1>3, <1>4, <1>5 DEF Control, Position, InGet, InWrite, Locking, Taking, Getting, Work, Batching, LotHas
<1>7. BaseStep
  <2>1. BaseOf(c, w, db)
    BY <1>1, <1>2, <1>4, <1>5, Here DEF BaseOf, Locking, Taking
  <2> QED
    BY <1>2, <1>4, <2>1, Here, BaseKept DEF StartTx
<1> QED
  BY <1>1, <1>2, <1>3, <1>4, <1>6, <1>7, QuietStep, Kept3 DEF Work, StartTx

LEMMA StartBatchKeeps ==
    ASSUME LockInv, Disciplined, NEW c \in Clients, NEW ss \in SUBSET Shards, StartBatch(c, ss)
    PROVE  LockInv'
<1>1. PICK y, b, w : y = client[c] /\ b = Between(c) /\ w = [b EXCEPT !.kind = "batch", !.pc = "batchGet", !.todo = ss, !.list = ss]
  OBVIOUS
<1>2. y \in ClientRec /\ y.pc = "idle" /\ y.tx = None /\ Call(c, w)
  BY <1>1, Here DEF StartBatch, MayCall, Disciplined
<1>3. b \in ClientRec /\ b.tx = None /\ b.pc = "idle" /\ b.list = {} /\ b.todo = {}
  BY <1>1, <1>2, Fresh
<1>4. /\ w \in ClientRec /\ w.pc = "batchGet" /\ w.kind = "batch" /\ w.todo = ss /\ w.list = ss
      /\ w.s = b.s /\ w.then = b.then /\ w.after = b.after /\ w.from = b.from /\ w.tx = b.tx /\ w.goal = b.goal
  BY <1>1, <1>2, <1>3, Names DEF ClientRec
<1>5. y.kind = "none" /\ \A t \in Shards : job[c][t] = "none"
  BY <1>1, <1>2, Here DEF Control, Position, InGet, InWrite, Locking, Taking, Getting, Work, Batching
<1>6. Control(w) /\ Batching(w, job[c]) /\ LotHas(w) = {}
  BY <1>3, <1>4, <1>5 DEF Control, Position, InGet, InWrite, Locking, Taking, Getting, Work, Batching, LotHas
<1>7. BaseStep
  <2>1. BaseOf(c, w, db)
    BY <1>1, <1>2, <1>4, <1>5, Here DEF BaseOf, Locking, Taking
  <2> QED
    BY <1>2, <1>4, <2>1, Here, BaseKept DEF StartBatch
<1> QED
  BY <1>1, <1>2, <1>3, <1>4, <1>6, <1>7, QuietStep, Kept3 DEF Work, StartBatch

LEMMA StartLotKeeps ==
    ASSUME LockInv, Disciplined, NEW c \in Clients, StartLot(c)
    PROVE  LockInv'
<1>1. PICK y, b, w : y = client[c] /\ b = Idle /\ w = [b EXCEPT !.kind = "lot", !.pc = "lotWant"]
  OBVIOUS
<1>2. y \in ClientRec /\ y.pc = "idle" /\ y.tx = None /\ Call(c, w)
  BY <1>1, Here DEF StartLot, MayCall, Disciplined
<1>3. b \in ClientRec /\ b.tx = None /\ b.pc = "idle" /\ b.list = {} /\ b.todo = {}
  BY <1>1, <1>2, Fresh
<1>4. /\ w \in ClientRec /\ w.pc = "lotWant" /\ w.kind = "lot"
      /\ w.s = b.s /\ w.then = b.then /\ w.after = b.after /\ w.from = b.from /\ w.todo = b.todo /\ w.list = b.list
      /\ w.tx = b.tx /\ w.goal = b.goal
  BY <1>1, <1>2, <1>3, Names DEF ClientRec
<1>5. y.kind = "none" /\ \A t \in Shards : job[c][t] = "none"
  BY <1>1, <1>2, Here DEF Control, Position, InGet, InWrite, Locking, Taking, Getting, Work, Batching
<1>6. Control(w) /\ Batching(w, job[c]) /\ LotHas(w) = {}
  BY <1>3, <1>4, <1>5 DEF Control, Position, InGet, InWrite, Locking, Taking, Getting, Work, Batching, LotHas
<1>7. BaseStep
  <2>1. PICK S \in SUBSET Clients : S = db.waiting \cup {c}
    BY Here DEF BaseRec
  <2>2. /\ db' \in BaseRec /\ db'.waiting = S
        /\ db'.writer = db.writer /\ db'.readers = db.readers
    BY <2>1, Here DEF BaseRec, StartLot
  <2>3. BaseOf(c, w, db') /\ Apart(c, db, db')
    BY <1>1, <1>2, <1>4, <1>5, <2>1, <2>2, Here DEF BaseOf, Apart, Locking, Taking
  <2> QED
    BY <1>2, <1>4, <2>1, <2>2, <2>3, Here, BaseMoved DEF StartLot, MayRead
<1> QED
  BY <1>1, <1>2, <1>3, <1>4, <1>6, <1>7, QuietStep, Kept3 DEF Work, StartLot

LEMMA StartCloseKeeps ==
    ASSUME LockInv, Disciplined, NEW c \in Clients, StartClose(c)
    PROVE  LockInv'
<1>1. PICK y, b, w : y = client[c] /\ b = Idle /\ w = [b EXCEPT !.kind = "close", !.pc = "closeWant"]
  OBVIOUS
<1>2. y \in ClientRec /\ y.pc = "idle" /\ y.tx = None /\ Call(c, w)
  BY <1>1, Here DEF StartClose, MayCall, Disciplined
<1>3. b \in ClientRec /\ b.tx = None /\ b.pc = "idle" /\ b.list = {} /\ b.todo = {}
  BY <1>1, <1>2, Fresh
<1>4. /\ w \in ClientRec /\ w.pc = "closeWant" /\ w.kind = "close"
      /\ w.s = b.s /\ w.then = b.then /\ w.after = b.after /\ w.from = b.from /\ w.todo = b.todo /\ w.list = b.list
      /\ w.tx = b.tx /\ w.goal = b.goal
  BY <1>1, <1>2, <1>3, Names DEF ClientRec
<1>5. y.kind = "none" /\ \A t \in Shards : job[c][t] = "none"
  BY <1>1, <1>2, Here DEF Control, Position, InGet, InWrite, Locking, Taking, Getting, Work, Batching
<1>6. Control(w) /\ Batching(w, job[c]) /\ LotHas(w) = {}
  BY <1>3, <1>4, <1>5 DEF Control, Position, InGet, InWrite, Locking, Taking, Getting, Work, Batching, LotHas
<1>7. BaseStep
  <2>1. PICK S \in SUBSET Clients : S = db.waiting \cup {c}
    BY Here DEF BaseRec
  <2>2. /\ db' \in BaseRec /\ db'.waiting = S
        /\ db'.writer = db.writer /\ db'.readers = db.readers
    BY <2>1, Here DEF BaseRec, StartClose
  <2>3. BaseOf(c, w, db') /\ Apart(c, db, db')
    BY <1>1, <1>2, <1>4, <1>5, <2>1, <2>2, Here DEF BaseOf, Apart, Locking, Taking
  <2> QED
    BY <1>2, <1>4, <2>1, <2>2, <2>3, Here, BaseMoved DEF StartClose, MayRead
<1> QED
  BY <1>1, <1>2, <1>3, <1>4, <1>6, <1>7, QuietStep, Kept3 DEF Work, StartClose

LEMMA StartCheckpointKeeps ==
    ASSUME LockInv, Disciplined, NEW c \in Clients, StartCheckpoint(c)
    PROVE  LockInv'
<1>1. PICK y, b, w : y = client[c] /\ b = Between(c) /\ w = [b EXCEPT !.kind = "checkpoint", !.pc = "ckpt", !.todo = {s \in Shards : shard[s].open}]
  OBVIOUS
<1>2. y \in ClientRec /\ y.pc = "idle" /\ y.tx = None /\ Call(c, w)
  BY <1>1, Here DEF StartCheckpoint, MayCall, Disciplined
<1>3. b \in ClientRec /\ b.tx = None /\ b.pc = "idle" /\ b.list = {} /\ b.todo = {}
  BY <1>1, <1>2, Fresh
<1>4. /\ w \in ClientRec /\ w.pc = "ckpt" /\ w.kind = "checkpoint" /\ w.todo = {s \in Shards : shard[s].open}
      /\ w.s = b.s /\ w.then = b.then /\ w.after = b.after /\ w.from = b.from /\ w.list = b.list /\ w.tx = b.tx
      /\ w.goal = b.goal
  BY <1>1, <1>2, <1>3, Names DEF ClientRec
<1>5. y.kind = "none" /\ \A t \in Shards : job[c][t] = "none"
  BY <1>1, <1>2, Here DEF Control, Position, InGet, InWrite, Locking, Taking, Getting, Work, Batching
<1>6. Control(w) /\ Batching(w, job[c]) /\ LotHas(w) = {}
  BY <1>3, <1>4, <1>5 DEF Control, Position, InGet, InWrite, Locking, Taking, Getting, Work, Batching, LotHas
<1>7. BaseStep
  <2>1. PICK S \in SUBSET Clients : S = db.readers \cup {c}
    BY Here DEF BaseRec
  <2>2. /\ db' \in BaseRec /\ db'.readers = S
        /\ db'.writer = db.writer /\ db'.waiting = db.waiting
    BY <2>1, Here DEF BaseRec, StartCheckpoint
  <2>3. BaseOf(c, w, db') /\ Apart(c, db, db')
    BY <1>1, <1>2, <1>4, <1>5, <2>1, <2>2, Here DEF BaseOf, Apart, Locking, Taking
  <2> QED
    BY <1>2, <1>4, <2>1, <2>2, <2>3, Here, BaseMoved DEF StartCheckpoint, MayRead
<1> QED
  BY <1>1, <1>2, <1>3, <1>4, <1>6, <1>7, QuietStep, Kept3 DEF Work, StartCheckpoint

LEMMA StartSyncKeeps ==
    ASSUME LockInv, Disciplined, NEW c \in Clients, StartSync(c)
    PROVE  LockInv'
<1>1. PICK y, b, w : y = client[c] /\ b = Between(c) /\ w = [b EXCEPT !.kind = "sync", !.pc = "sync", !.todo = {s \in Shards : shard[s].open}, !.goal = [s \in Shards |-> [n |-> shard[s].ok, seq |-> shard[s].seq]]]
  OBVIOUS
<1>2. y \in ClientRec /\ y.pc = "idle" /\ y.tx = None /\ Call(c, w)
  BY <1>1, Here DEF StartSync, MayCall, Disciplined
<1>3. b \in ClientRec /\ b.tx = None /\ b.pc = "idle" /\ b.list = {} /\ b.todo = {}
  BY <1>1, <1>2, Fresh
<1> DEFINE G == [s \in Shards |-> [n |-> shard[s].ok, seq |-> shard[s].seq]]
<1>8. G \in Goals \cup {<<>>}
  BY DEF Goals, LockInv, Types, ShardRec
<1>4. /\ w \in ClientRec /\ w.pc = "sync" /\ w.kind = "sync" /\ w.todo = {s \in Shards : shard[s].open} /\ w.goal = [s \in Shards |-> [n |-> shard[s].ok, seq |-> shard[s].seq]]
      /\ w.s = b.s /\ w.then = b.then /\ w.after = b.after /\ w.from = b.from /\ w.list = b.list /\ w.tx = b.tx
  BY <1>1, <1>2, <1>3, Names, <1>8 DEF ClientRec
<1>5. y.kind = "none" /\ \A t \in Shards : job[c][t] = "none"
  BY <1>1, <1>2, Here DEF Control, Position, InGet, InWrite, Locking, Taking, Getting, Work, Batching
<1>6. Control(w) /\ Batching(w, job[c]) /\ LotHas(w) = {}
  BY <1>3, <1>4, <1>5 DEF Control, Position, InGet, InWrite, Locking, Taking, Getting, Work, Batching, LotHas
<1>7. BaseStep
  <2>1. BaseOf(c, w, db)
    BY <1>1, <1>2, <1>4, <1>5, Here DEF BaseOf, Locking, Taking
  <2> QED
    BY <1>2, <1>4, <2>1, Here, BaseKept DEF StartSync
<1> QED
  BY <1>1, <1>2, <1>3, <1>4, <1>6, <1>7, QuietStep, Kept3 DEF Work, StartSync

LEMMA EnsureStartKeeps ==
    ASSUME LockInv, NEW c \in Clients, EnsureStart(c)
    PROVE  LockInv'
<1>1. PICK y, p, w : /\ y = client[c] /\ p = IF db.closed THEN "get" ELSE "ensure"
                     /\ w = [y EXCEPT !.pc = p, !.todo = {s \in Shards : shard[s].open}]
  OBVIOUS
<1>2. y \in ClientRec /\ y.pc = "ensureWant" /\ Call(c, w)
  BY <1>1, Here DEF EnsureStart
<1>3. p \in {"get", "ensure"} /\ p \in Pcs
  BY <1>1, Names
<1>4. /\ w \in ClientRec /\ w.pc = p
      /\ w.kind = y.kind /\ w.s = y.s /\ w.then = y.then /\ w.after = y.after /\ w.list = y.list /\ w.tx = y.tx
  BY <1>1, <1>2, <1>3 DEF ClientRec
<1>5. y.kind = "putWindow" /\ y.then = "putLock" /\ y.s \in Shards /\ y.tx = None
  BY <1>1, <1>2, Here DEF Control, Position, InGet, InWrite, Locking, Taking, Getting, Work
<1>6. Control(w) /\ Batching(w, job[c]) /\ LotHas(w) = {}
  BY <1>1, <1>2, <1>3, <1>4, <1>5, Here DEF Control, Position, InGet, Locking, Taking, Getting, Work, Batching, LotHas
<1>7. BaseStep
  <2>1. PICK S \in SUBSET Clients, o \in Clients \cup {None} : S = db.waiting \ {c} /\ o = IF db.closed THEN None ELSE c
    BY Here DEF BaseRec
  <2>2. db' \in BaseRec /\ db'.waiting = S /\ db'.writer = o /\ db'.readers = {} /\ db.writer = None /\ db.readers = {}
    BY <2>1, Here DEF BaseRec, EnsureStart, MayLock
  <2>3. BaseOf(c, w, db') /\ Apart(c, db, db')
    BY <1>1, <1>4, <1>5, <2>1, <2>2, DatabaseAssumption DEF BaseOf, Apart
  <2> QED
    BY <1>2, <1>4, <2>2, <2>3, Here, BaseMoved DEF EnsureStart
<1>8. /\ committer' \in Shards \cup {"none", "idle", "stopped"} /\ (committer' \in Shards => committer' = committer)
      /\ UNCHANGED <<shard, job>>
  BY DatabaseAssumption DEF LockInv, Types, EnsureStart
<1>9. shard' \in [Shards -> ShardRec] /\ \A s \in Shards : SameLock(shard[s], shard'[s])
  BY <1>8 DEF LockInv, Types, SameLock
<1> QED
  BY <1>1, <1>2, <1>3, <1>4, <1>6, <1>7, <1>8, <1>9, QuietStep DEF Work

LEMMA EnsureEndKeeps ==
    ASSUME LockInv, NEW c \in Clients, EnsureEnd(c)
    PROVE  LockInv'
<1>1. PICK y, w : y = client[c] /\ w = [y EXCEPT !.pc = "get"]
  OBVIOUS
<1>2. y \in ClientRec /\ y.pc = "ensure" /\ Call(c, w)
  BY <1>1, Here DEF EnsureEnd, To
<1>3. /\ w \in ClientRec /\ w.pc = "get"
      /\ w.kind = y.kind /\ w.s = y.s /\ w.then = y.then /\ w.after = y.after /\ w.list = y.list /\ w.tx = y.tx
  BY <1>1, <1>2, Names DEF ClientRec
<1>4. y.kind = "putWindow" /\ y.then = "putLock" /\ y.s \in Shards /\ y.tx = None
  BY <1>1, <1>2, Here DEF Control, Position, InGet, InWrite, Locking, Taking, Getting, Work
<1>5. Control(w) /\ Batching(w, job[c]) /\ LotHas(w) = {}
  BY <1>1, <1>2, <1>3, <1>4, Here DEF Control, Position, InGet, Locking, Taking, Getting, Work, Batching, LotHas
<1>6. BaseStep
  <2>1. db' \in BaseRec /\ db'.waiting = db.waiting /\ db'.writer = None /\ db'.readers = db.readers
    BY Here DEF BaseRec, EnsureEnd
  <2>2. BaseOf(c, w, db') /\ Apart(c, db, db')
    BY <1>1, <1>2, <1>3, <1>4, <2>1, Here, DatabaseAssumption DEF BaseOf, Apart
  <2> QED
    BY <1>2, <1>3, <2>1, <2>2, Here, BaseMoved DEF EnsureEnd
<1> QED
  BY <1>1, <1>2, <1>3, <1>5, <1>6, QuietStep, Kept3 DEF Work, EnsureEnd

LEMMA LotListKeeps ==
    ASSUME LockInv, NEW c \in Clients, LotList(c)
    PROVE  LockInv'
<1>1. PICK y, S, w : /\ y = client[c] /\ S = IF db.closed THEN {} ELSE {s \in Shards : shard[s].open}
                     /\ w = [y EXCEPT !.pc = "lotLock", !.todo = S, !.list = S]
  OBVIOUS
<1>2. y \in ClientRec /\ y.pc = "lotWant" /\ Call(c, w) /\ S \in SUBSET Shards
  BY <1>1, Here DEF LotList
<1>3. /\ w \in ClientRec /\ w.pc = "lotLock" /\ w.todo = S /\ w.list = S
      /\ w.kind = y.kind /\ w.s = y.s /\ w.then = y.then /\ w.after = y.after /\ w.tx = y.tx
  BY <1>1, <1>2, Names DEF ClientRec
<1>4. y.kind = "lot" /\ y.tx = None
  BY <1>1, <1>2, Here DEF Control, Position, InGet, InWrite, Locking, Taking, Getting, Work
<1>5. Control(w) /\ Batching(w, job[c]) /\ LotHas(w) = {}
  BY <1>1, <1>2, <1>3, <1>4, Here DEF Control, Position, Locking, Taking, Getting, Work, Batching, LotHas
<1>6. BaseStep
  <2>1. PICK W \in SUBSET Clients : W = db.waiting \ {c}
    BY Here DEF BaseRec
  <2>2. db' \in BaseRec /\ db'.waiting = W /\ db'.writer = None /\ db'.readers = {} /\ db.writer = None /\ db.readers = {}
    BY <2>1, Here DEF BaseRec, LotList, MayLock
  <2>3. BaseOf(c, w, db') /\ Apart(c, db, db')
    BY <1>3, <1>4, <2>1, <2>2, DatabaseAssumption DEF BaseOf, Apart
  <2> QED
    BY <1>2, <1>3, <2>2, <2>3, Here, BaseMoved DEF LotList
<1> QED
  BY <1>1, <1>2, <1>3, <1>5, <1>6, QuietStep, Kept3 DEF Work, LotList

LEMMA SyncEndKeeps ==
    ASSUME LockInv, NEW c \in Clients, SyncEnd(c)
    PROVE  LockInv'
<1>1. client[c].pc = "sync" /\ client[c].kind = "sync"
  BY Here DEF SyncEnd, Control, Position, InGet, InWrite, Locking, Taking, Getting, Work
<1>2. c \notin db'.waiting \cup db'.readers /\ db'.writer # c /\ Apart(c, db, db')
  BY <1>1, Here DEF BaseOf, Apart, Locking, Taking, SyncEnd
<1> QED
  BY <1>1, <1>2, Here, ReturnStep, Kept3 DEF SyncEnd, Work

LEMMA CheckpointEndKeeps ==
    ASSUME LockInv, NEW c \in Clients, CheckpointEnd(c)
    PROVE  LockInv'
<1>1. client[c].pc = "ckpt" /\ client[c].kind = "checkpoint"
  BY Here DEF CheckpointEnd, Control, Position, InGet, InWrite, Locking, Taking, Getting, Work
<1>2. PICK S \in SUBSET Clients : S = db.readers \ {c}
  BY Here DEF BaseRec
<1>3. db' \in BaseRec /\ db'.waiting = db.waiting /\ db'.writer = db.writer /\ db'.readers = S
  BY <1>2, Here DEF BaseRec, CheckpointEnd
<1>4. c \notin db'.waiting \cup db'.readers /\ db'.writer # c /\ Apart(c, db, db')
  BY <1>1, <1>2, <1>3, Here DEF BaseOf, Apart, Locking, Taking
<1> QED
  BY <1>1, <1>2, <1>3, <1>4, Here, ReturnStep, Kept3 DEF CheckpointEnd, Work

LEMMA MaxOfTwo ==
    ASSUME NEW a \in Nat, NEW b \in Nat
    PROVE  Max({a, b}) \in Nat /\ Max({a, b}) = IF a >= b THEN a ELSE b
BY DEF Max

\* What a call acknowledges is no lock.
LEMMA Acked ==
    ASSUME NEW x \in ShardRec, NEW z, z = [x EXCEPT !.ok = Max({x.ok, x.durable})]
    PROVE  /\ z \in ShardRec /\ SameLock(x, z)
           /\ z.ok = IF x.ok >= x.durable THEN x.ok ELSE x.durable
           /\ z.open = x.open /\ z.marked = x.marked /\ z.logged = x.logged /\ z.durable = x.durable /\ z.seq = x.seq
<1>1. PICK n : n = Max({x.ok, x.durable})
  OBVIOUS
<1>2. n \in Nat
  BY <1>1, MaxOfTwo DEF ShardRec
<1>5. n = IF x.ok >= x.durable THEN x.ok ELSE x.durable
  BY <1>1, MaxOfTwo DEF ShardRec
<1>3. z = [x EXCEPT !.ok = n]
  BY <1>1
<1>4. /\ z \in ShardRec /\ SameLock(x, z) /\ z.ok = n
      /\ z.open = x.open /\ z.marked = x.marked /\ z.logged = x.logged /\ z.durable = x.durable /\ z.seq = x.seq
  BY ONLY x \in ShardRec, <1>2, <1>3 DEF ShardRec, SameLock
<1> QED
  BY <1>4, <1>5

LEMMA LotClearKeeps ==
    ASSUME LockInv, NEW c \in Clients, LotClear(c)
    PROVE  LockInv'
<1>1. client[c].pc = "lotClear" /\ client[c].kind = "lot" /\ db.writer = None /\ db.readers = {}
  BY Here DEF LotClear, MayLock, Control, Position, InGet, InWrite, Locking, Taking, Getting, Work
<1>2. PICK W \in SUBSET Clients : W = db.waiting \ {c}
  BY Here DEF BaseRec
<1>3. db' \in BaseRec /\ db'.waiting = W /\ db'.writer = None /\ db'.readers = {}
  BY <1>1, <1>2, Here DEF BaseRec, LotClear
<1>4. c \notin db'.waiting \cup db'.readers /\ db'.writer # c /\ Apart(c, db, db')
  BY <1>1, <1>2, <1>3, DatabaseAssumption DEF Apart
<1>5. ASSUME NEW s \in Shards PROVE shard'[s] \in ShardRec /\ SameLock(shard[s], shard'[s])
  <2>1. PICK x : x = shard[s] /\ shard'[s] \in {x, [x EXCEPT !.ok = Max({x.ok, x.durable})]}
    BY DEF LotClear
  <2>2. x \in ShardRec
    BY <2>1 DEF LockInv, Types
  <2> QED
    BY <2>1, <2>2, Acked DEF SameLock
<1>6. shard' \in [Shards -> ShardRec] /\ UNCHANGED <<job, committer, published, acked>>
  BY <1>5 DEF LotClear
<1>7. committer' \in Shards \cup {"none", "idle", "stopped"} /\ (committer' \in Shards => committer' = committer)
  BY <1>6 DEF LockInv, Types
<1> QED
  BY <1>1, <1>3, <1>4, <1>5, <1>6, <1>7, Here, ReturnStep DEF LotClear, Work

\* A batch hands its parts to jobs, or takes them back.
LEMMA BatchStep ==
    ASSUME LockInv, NEW c \in Clients, NEW w \in ClientRec, Call(c, w), NEW jj \in [Shards -> Jobs], job' = [job EXCEPT ![c] = jj],
           BaseStep, UNCHANGED committer,
           shard' \in [Shards -> ShardRec], \A s \in Shards : SameLock(shard[s], shard'[s]),
           Control(w), Batching(w, jj), w.tx = client[c].tx, LotHas(w) = {},
           client[c].pc \notin Work \cup {"lock2"}, w.pc \notin Work \cup {"lock2"},
           \A s \in Shards : job[c][s] \notin {"wal", "locked"} /\ jj[s] \notin {"wal", "locked"}
    PROVE  LockInv'
<1>1. /\ client' \in [Clients -> ClientRec]
      /\ client'[c] = w /\ \A d \in Clients : d # c => client'[d] = client[d]
  BY DEF LockInv, Types, Call
<1>2. /\ job' \in [Clients -> [Shards -> Jobs]]
      /\ job'[c] = jj /\ \A d \in Clients : d # c => job'[d] = job[d]
  BY DEF LockInv, Types
<1>3. Types'
  BY <1>1, <1>2 DEF LockInv, Types, BaseStep
<1>4. Calling'
  BY <1>1, <1>2 DEF LockInv, Calling
<1>5. Owning'
  <2> SUFFICES ASSUME NEW d \in Clients, NEW s \in Shards
               PROVE  Owns(d, client'[d], job'[d][s], s, shard'[s])
    BY DEF Owning
  <2>1. Owns(d, client[d], job[d][s], s, shard[s])
    BY DEF LockInv, Owning
  <2>2. Owns(d, client'[d], job'[d][s], s, shard[s])
    <3>1. CASE d = c
      <4>1. Owns(d, w, job[d][s], s, shard[s])
        BY <2>1, <3>1, OwnsMoved DEF At
      <4> QED
        BY <1>1, <1>2, <3>1, <4>1 DEF Owns
    <3>2. CASE d # c
      BY <1>1, <1>2, <2>1, <3>2
    <3> QED
      BY <3>1, <3>2
  <2> QED
    BY <2>2, OwnsSame
<1>6. Locked'
  BY DEF LockInv, Locked, OneLock, SameLock
<1>7. Flushing'
  BY DEF LockInv, Flushing, SameLock
<1> QED
  BY <1>3, <1>4, <1>5, <1>6, <1>7 DEF LockInv, BaseStep

LEMMA BatchGoKeeps ==
    ASSUME LockInv, NEW c \in Clients, BatchGo(c)
    PROVE  LockInv'
<1>1. PICK y, w, jj : /\ y = client[c] /\ w = [y EXCEPT !.pc = "batchWait"]
                      /\ jj = [s \in Shards |-> IF s \in y.list THEN "ready" ELSE "none"]
  OBVIOUS
<1>2. y \in ClientRec /\ y.pc = "batchGet" /\ Call(c, w) /\ job' = [job EXCEPT ![c] = jj]
  BY <1>1, Here DEF BatchGo, To
<1>3. /\ w \in ClientRec /\ w.pc = "batchWait" /\ w.kind = y.kind /\ w.s = y.s /\ w.tx = y.tx /\ w.list = y.list
  BY <1>1, <1>2, Names DEF ClientRec
<1>4. y.kind = "batch" /\ y.tx = None /\ \A s \in Shards : job[c][s] = "none"
  BY <1>1, <1>2, Here DEF Control, Position, InGet, InWrite, Locking, Taking, Getting, Work, Batching
<1>5. jj \in [Shards -> Jobs] /\ (\A s \in Shards : jj[s] \notin {"wal", "locked"}) /\ Batching(w, jj)
  BY <1>1, <1>3 DEF Jobs, Batching
<1>6. Control(w) /\ LotHas(w) = {}
  BY <1>3, <1>4 DEF Control, Position, Locking, Taking, Getting, Work, LotHas
<1>7. BaseStep
  <2>1. BaseOf(c, w, db)
    BY <1>1, <1>2, <1>3, <1>4, Here DEF BaseOf, Locking, Taking
  <2> QED
    BY <1>2, <1>3, <2>1, Here, BaseKept DEF BatchGo
<1>8. /\ shard' \in [Shards -> ShardRec] /\ \A s \in Shards : SameLock(shard[s], shard'[s])
      /\ UNCHANGED committer
  BY Kept3 DEF BatchGo
<1>9. /\ w.tx = client[c].tx /\ client[c].pc \notin Work \cup {"lock2"} /\ w.pc \notin Work \cup {"lock2"}
      /\ \A s \in Shards : job[c][s] \notin {"wal", "locked"}
  BY <1>1, <1>2, <1>3, <1>4 DEF Work
<1> QED
  BY <1>2, <1>3, <1>5, <1>6, <1>7, <1>8, <1>9, BatchStep

LEMMA BatchEndKeeps ==
    ASSUME LockInv, NEW c \in Clients, BatchEnd(c)
    PROVE  LockInv'
<1>1. PICK y, w, jj : y = client[c] /\ w = Between(c) /\ jj = [s \in Shards |-> "none"]
  OBVIOUS
<1>2. /\ y.pc = "batchWait" /\ Call(c, w) /\ job' = [job EXCEPT ![c] = jj]
      /\ \A s \in y.list : job[c][s] \in {"done", "failed"}
  BY <1>1, Here DEF BatchEnd, Return
<1>3. w \in ClientRec /\ w.pc = "idle" /\ w.kind = "none" /\ w.tx = y.tx /\ w.list = {}
  BY <1>1, Fresh
<1>4. y.kind = "batch" /\ y.tx = None /\ \A s \in Shards : job[c][s] \notin {"wal", "locked"}
  BY <1>1, <1>2, Here DEF Control, Position, InGet, InWrite, Locking, Taking, Getting, Work, Batching
<1>5. jj \in [Shards -> Jobs] /\ (\A s \in Shards : jj[s] \notin {"wal", "locked"}) /\ Batching(w, jj)
  BY <1>1, <1>3 DEF Jobs, Batching
<1>6. Control(w) /\ LotHas(w) = {}
  BY <1>3, <1>4 DEF Control, Position, Locking, Taking, Getting, Work, LotHas
<1>7. BaseStep
  <2>1. BaseOf(c, w, db)
    BY <1>1, <1>2, <1>3, <1>4, Here DEF BaseOf, Locking, Taking
  <2> QED
    BY <1>2, <1>3, <2>1, Here, BaseKept DEF BatchEnd
<1>8. /\ shard' \in [Shards -> ShardRec] /\ \A s \in Shards : SameLock(shard[s], shard'[s])
      /\ UNCHANGED committer
  BY Kept3 DEF BatchEnd
<1> QED
  BY <1>1, <1>2, <1>3, <1>4, <1>5, <1>6, <1>7, <1>8, BatchStep DEF Work

-----------------------------------------------------------------------------
(* Steps that take or give back the lock of a shard.                       *)

\* What the invariant says of a client and a shard.
LEMMA There ==
    ASSUME LockInv, NEW c \in Clients, NEW s \in Shards
    PROVE  /\ shard[s] \in ShardRec /\ Owns(c, client[c], job[c][s], s, shard[s]) /\ OneLock(s, shard[s])
           /\ committer = s => shard[s].owner = None /\ shard[s].wal = Flusher
           /\ client[c].pc # "batchWait" => job[c][s] = "none"
BY DEF LockInv, Types, Owning, Locked, Flushing, Calling, Batching

LEMMA OwnedOne ==
    ASSUME NEW c \in Clients, NEW s \in Shards, NEW z, z.owner = c, z.wmu = c, z.wal = c
    PROVE  OneLock(s, z) /\ Free(c, z)
BY DatabaseAssumption DEF OneLock, Free

LEMMA FreedOne ==
    ASSUME NEW c \in Clients, NEW s \in Shards, NEW z, z.owner = None, z.wmu \in {c, None}, z.depth = 0, z.group = 0
    PROVE  OneLock(s, z) /\ Free(c, z)
BY DatabaseAssumption DEF OneLock, Free

LEMMA Lock1Keeps ==
    ASSUME LockInv, NEW c \in Clients, Lock1(c)
    PROVE  LockInv'
<1>1. PICK y, s, x : y = client[c] /\ s = y.s /\ x = shard[s]
  OBVIOUS
<1>2. y \in ClientRec /\ y.pc = "lock1" /\ UNCHANGED <<db, job, committer, published, acked>>
  BY <1>1, Here DEF Lock1
<1>3. y.s \in Shards /\ y.tx = None /\ Position(y) /\ y.after \in Work
  BY <1>1, <1>2, Here DEF Control, Position, InGet, InWrite, Locking, Taking, Getting, Work
<1>4. x \in ShardRec /\ Owns(c, y, "none", s, x) /\ OneLock(s, x) /\ (committer = s => x.owner = None /\ x.wal = Flusher)
      /\ job[c][s] = "none"
  BY <1>1, <1>2, <1>3, There
<1>5. CASE x.owner = c
  <2>1. PICK z, p, w : z = [x EXCEPT !.depth = x.depth + 1] /\ p = y.after /\ w = [y EXCEPT !.pc = p]
    OBVIOUS
  <2>2. SetShard(s, z) /\ Call(c, w) /\ p \in Pcs /\ p \in Work
    BY <1>1, <1>3, <1>5, <2>1 DEF Lock1, To, Pcs
  <2>3. /\ w \in ClientRec /\ w.pc = p /\ w.kind = y.kind /\ w.s = y.s /\ w.then = y.then /\ w.after = y.after
        /\ w.todo = y.todo /\ w.list = y.list /\ w.tx = y.tx
    BY <1>2, <2>1, <2>2 DEF ClientRec
  <2>4. z \in ShardRec /\ z.depth = x.depth + 1 /\ z.owner = x.owner /\ z.wmu = x.wmu /\ z.wal = x.wal /\ z.group = x.group
    BY <1>4, <2>1 DEF ShardRec
  <2>5. LotHas(w) = LotHas(y)
    BY <1>2, <2>1, <2>2, <2>3 DEF LotHas, Locking, Taking, Work
  <2>6. Control(w) /\ Batching(w, job[c])
    BY <1>1, <1>2, <1>3, <2>1, <2>2, <2>3, Here DEF Control, Position, InGet, InWrite, Locking, Taking, Getting, Work, Batching
  <2>7. BaseStep
    <3>1. BaseOf(c, w, db)
      BY <1>1, <1>2, <1>3, <2>1, <2>2, <2>3, Here DEF BaseOf, Locking, Taking, Work
    <3> QED
      BY <1>2, <2>2, <2>3, <3>1, Here, BaseKept
  <2>8. x.wmu = c /\ x.wal = c /\ c # None
    BY <1>4, <1>5, DatabaseAssumption DEF OneLock
  <2>9. OneLock(s, z) /\ Free(c, z) /\ Free(c, x)
    BY <1>1, <1>3, <1>5, <2>4, <2>8, OwnedOne
  <2>10. Owns(c, w, "none", s, z)
    BY <1>1, <1>2, <1>3, <1>4, <1>5, <2>2, <2>3, <2>4, <2>5, <2>8, DatabaseAssumption DEF Owns, Entry, Work, ShardRec
  <2> QED
    BY <1>1, <1>2, <1>3, <1>4, <1>5, <2>2, <2>3, <2>4, <2>5, <2>6, <2>7, <2>8, <2>9, <2>10, OwnerStep DEF At
<1>6. CASE x.owner # c
  <2>1. PICK z, w : z = [x EXCEPT !.wmu = c] /\ w = [y EXCEPT !.pc = "lock2"]
    OBVIOUS
  <2>2. SetShard(s, z) /\ Call(c, w) /\ x.wmu = None
    BY <1>1, <1>3, <1>6, <2>1 DEF Lock1, To
  <2>3. /\ w \in ClientRec /\ w.pc = "lock2" /\ w.kind = y.kind /\ w.s = y.s /\ w.then = y.then /\ w.after = y.after
        /\ w.todo = y.todo /\ w.list = y.list /\ w.tx = y.tx
    BY <1>2, <2>1, Names DEF ClientRec
  <2>4. z \in ShardRec /\ z.depth = x.depth /\ z.owner = x.owner /\ z.wmu = c /\ z.wal = x.wal /\ z.group = x.group
    BY <1>4, <2>1 DEF ShardRec, Goroutines
  <2>5. LotHas(w) = LotHas(y)
    BY <1>2, <2>3 DEF LotHas, Locking, Taking
  <2>6. Control(w) /\ Batching(w, job[c])
    BY <1>1, <1>2, <1>3, <2>3, Here DEF Control, Position, InGet, InWrite, Locking, Taking, Getting, Work, Batching
  <2>7. BaseStep
    <3>1. BaseOf(c, w, db)
      BY <1>1, <1>2, <1>3, <2>3, Here DEF BaseOf, Locking, Taking
    <3> QED
      BY <1>2, <2>2, <2>3, <3>1, Here, BaseKept
  <2>8. x.owner = None /\ x.depth = 0 /\ x.group = 0
    BY <1>4, <2>2 DEF OneLock
  <2>9. OneLock(s, z) /\ Free(c, z) /\ Free(c, x)
    BY <1>1, <1>3, <2>2, <2>4, <2>8, FreedOne
  <2>10. Owns(c, w, "none", s, z)
    BY <1>1, <1>2, <1>3, <1>4, <1>6, <2>3, <2>4, <2>5, <2>8, DatabaseAssumption DEF Owns, Entry, Work
  <2> QED
    BY <1>1, <1>2, <1>3, <1>4, <1>6, <2>2, <2>3, <2>4, <2>5, <2>6, <2>7, <2>8, <2>9, <2>10, OwnerStep DEF At
<1> QED
  BY <1>5, <1>6

LEMMA Lock2Keeps ==
    ASSUME LockInv, NEW c \in Clients, Lock2(c)
    PROVE  LockInv'
<1>1. PICK y, s, x, p : y = client[c] /\ s = y.s /\ x = shard[s] /\ p = y.after
  OBVIOUS
<1>0. PICK z, w : z = [x EXCEPT !.wal = c, !.owner = c, !.depth = 1] /\ w = [y EXCEPT !.pc = p]
  OBVIOUS
<1>2. /\ y \in ClientRec /\ y.pc = "lock2" /\ x.wal = None /\ UNCHANGED <<db, job, committer, published, acked>>
      /\ SetShard(s, z) /\ Call(c, w)
  BY <1>0, <1>1, Here DEF Lock2, To
<1>3. y.s \in Shards /\ y.tx = None /\ Position(y) /\ p \in Work /\ p \in Pcs
  BY <1>1, <1>2, Here DEF Control, Position, InGet, InWrite, Locking, Taking, Getting, Work, Pcs
<1>4. x \in ShardRec /\ Owns(c, y, "none", s, x) /\ (committer = s => x.wal = Flusher) /\ job[c][s] = "none"
  BY <1>1, <1>2, <1>3, There
<1>5. x.owner = None /\ x.wmu = c /\ committer # s /\ x.group = 0
  BY <1>1, <1>2, <1>3, <1>4, There, DatabaseAssumption DEF Owns, OneLock
<1>6. /\ w \in ClientRec /\ w.pc = p /\ w.kind = y.kind /\ w.s = y.s /\ w.then = y.then /\ w.after = y.after
      /\ w.todo = y.todo /\ w.list = y.list /\ w.tx = y.tx
  BY <1>0, <1>2, <1>3 DEF ClientRec
<1>7. z \in ShardRec /\ z.depth = 1 /\ z.owner = c /\ z.wmu = x.wmu /\ z.wal = c /\ z.group = x.group
  BY <1>0, <1>4 DEF ShardRec, Goroutines
<1>8. LotHas(w) = LotHas(y)
  BY <1>1, <1>2, <1>3, <1>6 DEF LotHas, Locking, Taking, Work
<1>9. Control(w) /\ Batching(w, job[c])
  BY <1>1, <1>2, <1>3, <1>6, Here DEF Control, Position, InGet, InWrite, Locking, Taking, Getting, Work, Batching
<1>10. BaseStep
  <2>1. BaseOf(c, w, db)
    BY <1>1, <1>2, <1>3, <1>6, Here DEF BaseOf, Locking, Taking, Work
  <2> QED
    BY <1>2, <1>6, <2>1, Here, BaseKept
<1>11. OneLock(s, z) /\ Free(c, z) /\ Free(c, x)
  BY <1>1, <1>3, <1>5, <1>7, OwnedOne DEF Free
<1>12. Owns(c, w, "none", s, z)
  BY <1>1, <1>2, <1>3, <1>4, <1>5, <1>6, <1>7, <1>8, DatabaseAssumption DEF Owns, Entry, Work
<1> QED
  BY <1>1, <1>2, <1>3, <1>4, <1>5, <1>6, <1>7, <1>8, <1>9, <1>10, <1>11, <1>12, OwnerStep DEF At

\* The shard a client works on, and the one of its transaction.
LEMMA Working ==
    ASSUME LockInv, NEW c \in Clients, NEW y, NEW s, NEW x, y = client[c], s = y.s, x = shard[s], y.pc \in Work
    PROVE  /\ y \in ClientRec /\ s \in Shards /\ x \in ShardRec /\ y.tx = None
           /\ x.owner = c /\ x.wmu = c /\ x.wal = c /\ x.depth = x.group + 1
           /\ job[c][s] = "none" /\ committer # s
           /\ Owns(c, y, "none", s, x)
<1>1. y \in ClientRec /\ s \in Shards /\ y.tx = None /\ y.pc # "batchWait"
  BY Here DEF Control, Position, InGet, InWrite, Locking, Taking, Getting, Work
<1>2. x \in ShardRec /\ job[c][s] = "none" /\ Owns(c, y, "none", s, x)
  BY <1>1, There
<1>3. x.owner = c /\ x.depth = x.group + 1
  BY <1>2 DEF Owns, Entry
<1> QED
  BY <1>1, <1>2, <1>3, There, DatabaseAssumption DEF OneLock

LEMMA InTx ==
    ASSUME LockInv, NEW c \in Clients, NEW y, NEW s, NEW x, y = client[c], s = y.tx, x = shard[s], s # None
    PROVE  /\ y \in ClientRec /\ s \in Shards /\ x \in ShardRec /\ y.kind = "none" /\ y.pc = "idle"
           /\ x.owner = c /\ x.wmu = c /\ x.wal = c /\ x.depth = 1 /\ x.group = 1
           /\ job[c][s] = "none" /\ committer # s
           /\ Owns(c, y, "none", s, x)
<1>1. y \in ClientRec /\ s \in Shards /\ y.kind = "none"
  BY Here DEF Control, ClientRec
<1>2. y.pc = "idle"
  BY <1>1, Here DEF Control, Position
<1>3. x \in ShardRec /\ job[c][s] = "none" /\ Owns(c, y, "none", s, x)
  BY <1>1, <1>2, There
<1>4. x.owner = c /\ x.depth = 1 /\ x.group = 1
  BY <1>3 DEF Owns
<1> QED
  BY <1>1, <1>2, <1>3, <1>4, There, DatabaseAssumption DEF OneLock

\* The group of a lot: a shard enters it, the lock kept.
LEMMA EnterKeeps ==
    ASSUME LockInv, NEW c \in Clients, Enter(c)
    PROVE  LockInv'
<1>1. PICK y, s, x, p : y = client[c] /\ s = y.s /\ x = shard[s] /\ p = y.then
  OBVIOUS
<1>0. PICK z, w : z = [x EXCEPT !.group = x.group + 1] /\ w = [y EXCEPT !.pc = p]
  OBVIOUS
<1>2. y.pc = "enter" /\ SetShard(s, z) /\ Call(c, w) /\ UNCHANGED <<job, committer, published, acked>>
  BY <1>0, <1>1 DEF Enter, To
<1>3. /\ y \in ClientRec /\ s \in Shards /\ x \in ShardRec /\ y.tx = None
      /\ x.owner = c /\ x.wmu = c /\ x.wal = c /\ x.depth = x.group + 1
      /\ job[c][s] = "none" /\ committer # s
      /\ Owns(c, y, "none", s, x)
  BY <1>1, <1>2, Working DEF Work
<1>4. Gets(y) /\ p \in Pcs /\ p \in {"putLock", "txLock", "batchGet"}
  BY <1>1, <1>2, <1>3, Here, InGetShard, Names DEF InGet, Gets
<1>5. /\ w \in ClientRec /\ w.pc = p /\ w.kind = y.kind /\ w.s = y.s /\ w.then = y.then /\ w.after = y.after
      /\ w.todo = y.todo /\ w.list = y.list /\ w.tx = y.tx
  BY <1>0, <1>3, <1>4 DEF ClientRec
<1>6. z \in ShardRec /\ z.group = x.group + 1 /\ z.depth = x.depth /\ z.owner = x.owner /\ z.wmu = x.wmu /\ z.wal = x.wal
  BY <1>0, <1>3 DEF ShardRec
<1>7. LotHas(w) = LotHas(y)
  BY <1>2, <1>4, <1>5 DEF LotHas, Locking, Taking
<1>8. Control(w) /\ Batching(w, job[c])
  BY <1>1, <1>2, <1>3, <1>4, <1>5, Here DEF Gets, Control, Position, InWrite, Locking, Taking, Getting, Work, Batching
<1>9. BaseStep
  <2>1. PICK o \in Clients \cup {None} : o = IF db.writer = c THEN None ELSE db.writer
    BY Here DEF BaseRec
  <2>2. db' \in BaseRec /\ db'.waiting = db.waiting /\ db'.readers = db.readers /\ db'.writer = o
    BY <2>1, Here DEF BaseRec, Enter
  <2>3. BaseOf(c, w, db') /\ Apart(c, db, db')
    BY <1>1, <1>2, <1>4, <1>5, <2>1, <2>2, Here, DatabaseAssumption DEF BaseOf, Apart
  <2> QED
    BY <1>2, <1>5, <2>1, <2>2, <2>3, Here, BaseMoved
<1>10. OneLock(s, z) /\ Free(c, z) /\ Free(c, x)
  BY <1>3, <1>6, OwnedOne
<1>11. Owns(c, w, "none", s, z)
  BY <1>1, <1>2, <1>3, <1>4, <1>5, <1>6, <1>7, DatabaseAssumption DEF Owns, Entry, Work, ShardRec
<1> QED
  BY <1>1, <1>2, <1>3, <1>4, <1>5, <1>6, <1>7, <1>8, <1>9, <1>10, <1>11, OwnerStep DEF At

LEMMA LotGroupKeeps ==
    ASSUME LockInv, NEW c \in Clients, LotGroup(c)
    PROVE  LockInv'
<1>1. PICK y, s, x : y = client[c] /\ s = y.s /\ x = shard[s]
  OBVIOUS
<1>0. PICK z, w : z = [x EXCEPT !.group = x.group + 1] /\ w = [y EXCEPT !.pc = "lotLock"]
  OBVIOUS
<1>2. y.pc = "lotGroup" /\ SetShard(s, z) /\ Call(c, w) /\ UNCHANGED <<db, job, committer, published, acked>>
  BY <1>0, <1>1 DEF LotGroup, To
<1>3. /\ y \in ClientRec /\ s \in Shards /\ x \in ShardRec /\ y.tx = None
      /\ x.owner = c /\ x.wmu = c /\ x.wal = c /\ x.depth = x.group + 1
      /\ job[c][s] = "none" /\ committer # s
      /\ Owns(c, y, "none", s, x)
  BY <1>1, <1>2, Working DEF Work
<1>4. y.kind = "lot" /\ y.s \in y.list \ y.todo /\ y.todo \subseteq y.list
  BY <1>1, <1>2, Here DEF Control, Position, InGet, InWrite, Locking, Taking, Getting
<1>5. /\ w \in ClientRec /\ w.pc = "lotLock" /\ w.kind = y.kind /\ w.s = y.s /\ w.then = y.then /\ w.after = y.after
      /\ w.todo = y.todo /\ w.list = y.list /\ w.tx = y.tx
  BY <1>0, <1>3, Names DEF ClientRec
<1>6. z \in ShardRec /\ z.group = x.group + 1 /\ z.depth = x.depth /\ z.owner = x.owner /\ z.wmu = x.wmu /\ z.wal = x.wal
  BY <1>0, <1>3 DEF ShardRec
<1>7. \A t \in Shards \ {s} : t \in LotHas(w) => t \in LotHas(y)
  BY <1>1, <1>2, <1>4, <1>5 DEF LotHas
<1>8. Control(w) /\ Batching(w, job[c])
  BY <1>1, <1>2, <1>3, <1>4, <1>5, Here DEF Control, Position, Locking, Taking, Getting, Work, Batching
<1>9. BaseStep
  <2>1. BaseOf(c, w, db)
    BY <1>1, <1>2, <1>4, <1>5, Here DEF BaseOf, Locking, Taking
  <2> QED
    BY <1>2, <1>5, <2>1, Here, BaseKept
<1>10. OneLock(s, z) /\ Free(c, z) /\ Free(c, x)
  BY <1>3, <1>6, OwnedOne
<1>11. Owns(c, w, "none", s, z)
  BY <1>1, <1>2, <1>3, <1>4, <1>5, <1>6, DatabaseAssumption DEF Owns, Entry, Work, ShardRec
<1> QED
  BY <1>1, <1>2, <1>3, <1>5, <1>6, <1>7, <1>8, <1>9, <1>10, <1>11, OwnerStep DEF At

\* unlockWriter at the end of an entry.
LEMMA GivenBack ==
    ASSUME NEW c \in Clients, NEW s \in Shards, NEW x \in ShardRec, NEW z \in ShardRec, NEW y, NEW w,
           x.owner = c, x.wmu = c, x.wal = c, x.depth = x.group + 1,
           z.group = x.group, z.depth = x.depth - 1,
           z.depth = 0 => z.owner = None /\ z.wal = None /\ z.wmu = None,
           z.depth > 0 => z.owner = x.owner /\ z.wal = x.wal /\ z.wmu = x.wmu,
           Owns(c, y, "none", s, x), w.tx = None, w.pc \notin Work \cup {"lock2"},
           s \in LotHas(w) => s \in LotHas(y)
    PROVE  OneLock(s, z) /\ Free(c, z) /\ Free(c, x) /\ Owns(c, w, "none", s, z)
<1>1. x.group \in Nat /\ z.depth \in Nat /\ z.group \in Nat
  BY DEF ShardRec
<1>2. CASE z.depth = 0
  <2>1. OneLock(s, z) /\ Free(c, z) /\ Free(c, x) /\ z.owner = None /\ z.wmu = None /\ x.group = 0
    BY <1>1, <1>2, FreedOne DEF Free
  <2> QED
    BY <1>2, <2>1, DatabaseAssumption DEF Owns
<1>3. CASE z.depth > 0
  <2>1. OneLock(s, z) /\ Free(c, z) /\ Free(c, x) /\ z.owner = c
    BY <1>1, <1>3, OwnedOne DEF Free
  <2> QED
    BY <1>1, <1>3, <2>1, DatabaseAssumption DEF Owns, Entry
<1> QED
  BY <1>1, <1>2, <1>3

LEMMA CheckpointDoKeeps ==
    ASSUME LockInv, NEW c \in Clients, CheckpointDo(c)
    PROVE  LockInv'
<1>1. PICK y, s, x : y = client[c] /\ s = y.s /\ x = shard[s]
  OBVIOUS
<1>0. PICK f, z, w : f = Saved(x) /\ z = Unlocked(f) /\ w = [y EXCEPT !.pc = "ckpt"]
  OBVIOUS
<1>2. y.pc = "ckptDo" /\ SetShard(s, z) /\ Call(c, w) /\ UNCHANGED <<db, job, committer, published, acked>>
  BY <1>0, <1>1 DEF CheckpointDo, To
<1>3. /\ y \in ClientRec /\ s \in Shards /\ x \in ShardRec /\ y.tx = None
      /\ x.owner = c /\ x.wmu = c /\ x.wal = c /\ x.depth = x.group + 1
      /\ job[c][s] = "none" /\ committer # s
      /\ Owns(c, y, "none", s, x)
  BY <1>1, <1>2, Working DEF Work
<1>4. y.kind = "checkpoint"
  BY <1>1, <1>2, Here DEF Control, Position, InGet, InWrite, Locking, Taking, Getting
<1>5. w \in ClientRec /\ w.pc = "ckpt" /\ w.kind = y.kind /\ w.s = y.s /\ w.list = y.list /\ w.tx = y.tx
  BY <1>0, <1>3, Names DEF ClientRec
<1>6. f \in ShardRec /\ f.group = x.group /\ f.depth = x.depth /\ f.owner = x.owner /\ f.wmu = x.wmu /\ f.wal = x.wal
  BY <1>0, <1>3, IsSaved
<1>11. f.depth >= 1
  BY <1>3, <1>6 DEF ShardRec
<1>7. /\ z \in ShardRec /\ z.group = x.group /\ z.depth = x.depth - 1
      /\ z.depth = 0 => z.owner = None /\ z.wal = None /\ z.wmu = None
      /\ z.depth > 0 => z.owner = x.owner /\ z.wal = x.wal /\ z.wmu = x.wmu
  BY <1>0, <1>6, <1>11, IsUnlocked
<1>8. Control(w) /\ Batching(w, job[c]) /\ LotHas(w) = {}
  BY <1>1, <1>2, <1>3, <1>4, <1>5, Here DEF Control, Position, Locking, Taking, Getting, Work, Batching, LotHas
<1>9. BaseStep
  <2>1. BaseOf(c, w, db)
    BY <1>1, <1>2, <1>4, <1>5, Here DEF BaseOf, Locking, Taking
  <2> QED
    BY <1>2, <1>5, <2>1, Here, BaseKept
<1>10. OneLock(s, z) /\ Free(c, z) /\ Free(c, x) /\ Owns(c, w, "none", s, z)
  BY <1>3, <1>5, <1>7, <1>8, GivenBack DEF Work
<1> QED
  BY <1>1, <1>2, <1>3, <1>5, <1>7, <1>8, <1>9, <1>10, OwnerStep DEF At

LEMMA WriteKeeps ==
    ASSUME LockInv, NEW c \in Clients, Write(c)
    PROVE  LockInv'
<1>1. PICK y, s, x : y = client[c] /\ s = y.s /\ x = shard[s]
  OBVIOUS
<1>0. PICK l, u, z, w : /\ l = Logs(x, y.kind) /\ u = Unlocked(l)
                        /\ z = IF y.kind = "lot" THEN u ELSE [u EXCEPT !.ok = u.logged]
                        /\ w = IF y.kind = "lot" THEN [y EXCEPT !.pc = "lotRun"] ELSE Between(c)
  OBVIOUS
<1>2. /\ y.pc = "write" /\ SetShard(s, z) /\ Call(c, w) /\ UNCHANGED <<db, job, committer, acked>>
      /\ published' = published + 1
  BY <1>0, <1>1 DEF Write, To, Return
<1>3. /\ y \in ClientRec /\ s \in Shards /\ x \in ShardRec /\ y.tx = None
      /\ x.owner = c /\ x.wmu = c /\ x.wal = c /\ x.depth = x.group + 1
      /\ job[c][s] = "none" /\ committer # s
      /\ Owns(c, y, "none", s, x)
  BY <1>1, <1>2, Working DEF Work
<1>4. y.kind \in {"put", "putWindow", "lot"}
  BY <1>1, <1>2, Here DEF Control, Position, InGet, InWrite, Locking, Taking, Getting
<1>5. l \in ShardRec /\ l.group = x.group /\ l.depth = x.depth /\ l.owner = x.owner /\ l.wmu = x.wmu /\ l.wal = x.wal
      /\ l.depth >= 1
  <2>1. published \in Nat
    BY Here
  <2>2. l \in ShardRec /\ l.group = x.group /\ l.depth = x.depth /\ l.owner = x.owner /\ l.wmu = x.wmu /\ l.wal = x.wal
    BY <1>0, <1>3, <2>1, IsLogged
  <2> QED
    BY <1>3, <2>2 DEF ShardRec
<1>6. /\ u \in ShardRec /\ u.group = x.group /\ u.depth = x.depth - 1
      /\ u.depth = 0 => u.owner = None /\ u.wal = None /\ u.wmu = None
      /\ u.depth > 0 => u.owner = x.owner /\ u.wal = x.wal /\ u.wmu = x.wmu
  BY <1>0, <1>5, IsUnlocked
<1>7. z \in ShardRec /\ SameLock(u, z)
  <2>1. [u EXCEPT !.ok = u.logged] \in ShardRec /\ SameLock(u, [u EXCEPT !.ok = u.logged])
    BY <1>6 DEF ShardRec, SameLock
  <2> QED
    BY <1>0, <1>6, <2>1 DEF SameLock
<1>8. /\ w \in ClientRec /\ w.tx = None /\ (y.kind = "lot" => w.kind = "lot" /\ w.pc = "lotRun" /\ w.list = y.list)
      /\ (y.kind # "lot" => w.kind = "none" /\ w.pc = "idle")
  <2>1. CASE y.kind = "lot"
    BY <1>0, <1>3, <2>1, Names DEF ClientRec
  <2>2. CASE y.kind # "lot"
    BY <1>0, <1>1, <1>3, <2>2, Fresh
  <2> QED
    BY <2>1, <2>2
<1>9. Control(w) /\ Batching(w, job[c]) /\ LotHas(w) \subseteq LotHas(y)
  BY <1>1, <1>2, <1>3, <1>4, <1>8, Here DEF Control, Position, Locking, Taking, Getting, Work, Batching, LotHas
<1>10. BaseStep
  <2>1. BaseOf(c, w, db)
    BY <1>1, <1>2, <1>4, <1>8, Here DEF BaseOf, Locking, Taking
  <2> QED
    BY <1>2, <1>8, <2>1, Here, BaseKept
<1>11. OneLock(s, z) /\ Free(c, z) /\ Free(c, x) /\ Owns(c, w, "none", s, z)
  <2>1. w.pc \notin Work \cup {"lock2"}
    BY <1>8 DEF Work
  <2> QED
    BY <1>3, <1>6, <1>7, <1>8, <1>9, <2>1, GivenBack DEF SameLock
<1>12. \A t \in Shards \ {s} : ~At(y, t) /\ ~At(w, t)
  BY <1>1, <1>8 DEF At, Work
<1> QED
  BY <1>1, <1>2, <1>3, <1>7, <1>8, <1>9, <1>10, <1>11, <1>12, OwnerStep, DatabaseAssumption

LEMMA BeginKeeps ==
    ASSUME LockInv, NEW c \in Clients, Begin(c)
    PROVE  LockInv'
<1>1. PICK y, s, x : y = client[c] /\ s = y.s /\ x = shard[s]
  OBVIOUS
<1>2. y.pc = "begin" /\ UNCHANGED <<db, job, committer, published, acked>>
  BY <1>1 DEF Begin
<1>3. /\ y \in ClientRec /\ s \in Shards /\ x \in ShardRec /\ y.tx = None
      /\ x.owner = c /\ x.wmu = c /\ x.wal = c /\ x.depth = x.group + 1
      /\ job[c][s] = "none" /\ committer # s
      /\ Owns(c, y, "none", s, x)
  BY <1>1, <1>2, Working DEF Work
<1>4. y.kind = "tx" /\ \A t \in Shards : job[c][t] = "none"
  BY <1>1, <1>2, Here DEF Control, Position, InGet, InWrite, Locking, Taking, Getting, Batching
<1>5. ASSUME NEW w \in ClientRec, w.pc = "idle", w.kind = "none", w.list = {}, Call(c, w)
      PROVE  /\ Control(w) /\ Batching(w, job[c]) /\ LotHas(w) = {} /\ BaseStep
             /\ \A t \in Shards \ {s} : ~At(y, t) /\ ~At(w, t)
  <2>1. Control(w) /\ Batching(w, job[c]) /\ LotHas(w) = {}
    BY <1>4, <1>5 DEF Control, Position, Locking, Taking, Getting, Work, Batching, LotHas
  <2>2. BaseOf(c, w, db)
    BY <1>1, <1>2, <1>4, <1>5, Here DEF BaseOf, Locking, Taking
  <2>3. BaseStep
    BY <1>2, <1>5, <2>2, Here, BaseKept
  <2> QED
    BY <1>1, <1>5, <2>1, <2>3 DEF At, Work
<1>6. CASE x.group > 0
  <2>1. PICK z, w : z = Unlocked(x) /\ w = Between(c)
    OBVIOUS
  <2>2. SetShard(s, z) /\ Call(c, w)
    BY <1>1, <1>6, <2>1 DEF Begin, Return
  <2>3. w \in ClientRec /\ w.pc = "idle" /\ w.kind = "none" /\ w.list = {} /\ w.tx = None
    BY <1>1, <1>3, <2>1, Fresh
  <2>4. x.depth >= 1
    BY <1>3 DEF ShardRec
  <2>5. /\ z \in ShardRec /\ z.group = x.group /\ z.depth = x.depth - 1
        /\ z.depth = 0 => z.owner = None /\ z.wal = None /\ z.wmu = None
        /\ z.depth > 0 => z.owner = x.owner /\ z.wal = x.wal /\ z.wmu = x.wmu
    BY <1>3, <2>1, <2>4, IsUnlocked
  <2>6. OneLock(s, z) /\ Free(c, z) /\ Free(c, x) /\ Owns(c, w, "none", s, z)
    BY <1>3, <1>5, <2>2, <2>3, <2>5, GivenBack DEF Work
  <2> QED
    BY <1>1, <1>2, <1>3, <1>5, <2>2, <2>3, <2>5, <2>6, OwnerStep, DatabaseAssumption
<1>7. CASE ~(x.group > 0)
  <2>1. PICK i, z, w : i = Idle /\ z = [x EXCEPT !.group = 1] /\ w = [i EXCEPT !.tx = s, !.from = x.logged]
    OBVIOUS
  <2>2. SetShard(s, z) /\ Call(c, w)
    BY <1>1, <1>7, <2>1 DEF Begin
  <2>3. i \in ClientRec /\ i.pc = "idle" /\ i.kind = "none" /\ i.list = {} /\ x.logged \in Nat
    BY <1>3, <2>1, Fresh DEF ShardRec
  <2>4. w \in ClientRec /\ w.pc = "idle" /\ w.kind = "none" /\ w.list = {} /\ w.tx = s
    BY <1>3, <2>1, <2>3 DEF ClientRec
  <2>5. z \in ShardRec /\ z.group = 1 /\ z.depth = x.depth /\ z.owner = c /\ z.wmu = c /\ z.wal = c
    BY <1>3, <2>1 DEF ShardRec
  <2>6. z.depth = 1 /\ OneLock(s, z) /\ Free(c, z) /\ Free(c, x)
    BY <1>3, <1>7, <2>5, OwnedOne DEF ShardRec
  <2>7. Owns(c, w, "none", s, z)
    BY <1>3, <1>5, <2>2, <2>4, <2>5, <2>6, DatabaseAssumption DEF Owns, Entry, Work
  <2> QED
    BY <1>1, <1>2, <1>3, <1>5, <2>2, <2>4, <2>5, <2>6, <2>7, OwnerStep
<1> QED
  BY <1>6, <1>7

LEMMA TxPutKeeps ==
    ASSUME LockInv, NEW c \in Clients, TxPut(c)
    PROVE  LockInv'
<1>1. PICK y, s, x : y = client[c] /\ s = y.tx /\ x = shard[s] /\ s # None
  BY DEF TxPut
<1>0. PICK z : z = [x EXCEPT !.logged = x.logged + 1]
  OBVIOUS
<1>2. SetShard(s, z) /\ UNCHANGED <<db, client, job, committer, published, acked>>
  BY <1>0, <1>1 DEF TxPut
<1>3. y \in ClientRec /\ s \in Shards /\ x \in ShardRec /\ y.pc = "idle"
  BY <1>1, InTx
<1>4. z \in ShardRec /\ SameLock(x, z)
  BY <1>0, <1>3 DEF ShardRec, SameLock
<1>5. Call(c, y) /\ BaseStep
  <2>1. Call(c, y)
    BY <1>1, <1>2 DEF Call, LockInv, Types
  <2> QED
    BY <1>1, <1>2, <1>3, <2>1, Here, BaseKept
<1> QED
  BY <1>1, <1>2, <1>3, <1>4, <1>5, Here, QuietStep, ShardKept DEF Work

\* The end of a transaction.
LEMMA TxEnds ==
    ASSUME LockInv, NEW c \in Clients, NEW s, s = client[c].tx, s # None, NEW z \in ShardRec, SetShard(s, z), Call(c, Idle),
           z.owner = None, z.wmu = None, z.depth = 0, z.group = 0, UNCHANGED <<db, job, committer, published, acked>>
    PROVE  LockInv'
<1>1. PICK y, x, w : y = client[c] /\ x = shard[s] /\ w = Idle
  OBVIOUS
<1>3. /\ y \in ClientRec /\ s \in Shards /\ x \in ShardRec /\ y.kind = "none" /\ y.pc = "idle"
      /\ x.owner = c /\ x.wmu = c /\ x.wal = c /\ x.depth = 1 /\ x.group = 1
      /\ job[c][s] = "none" /\ committer # s
      /\ Owns(c, y, "none", s, x)
  BY <1>1, InTx
<1>4. w \in ClientRec /\ w.pc = "idle" /\ w.kind = "none" /\ w.list = {} /\ w.tx = None
  BY <1>1, Fresh
<1>5. Control(w) /\ Batching(w, job[c]) /\ LotHas(w) = {}
  BY <1>1, <1>3, <1>4, Here DEF Control, Position, Locking, Taking, Getting, Work, Batching, LotHas
<1>6. BaseStep
  <2>1. BaseOf(c, w, db)
    BY <1>1, <1>3, <1>4, Here DEF BaseOf, Locking, Taking
  <2> QED
    BY <1>1, <1>4, <2>1, Here, BaseKept
<1>7. OneLock(s, z) /\ Free(c, z) /\ Free(c, x)
  BY <1>3, FreedOne DEF Free
<1>8. Owns(c, w, "none", s, z)
  BY <1>3, <1>4, <1>5, DatabaseAssumption DEF Owns, Work
<1>9. \A t \in Shards \ {s} : ~At(y, t) /\ ~At(w, t)
  BY <1>3, <1>4 DEF At, Work
<1> QED
  BY <1>1, <1>3, <1>4, <1>5, <1>6, <1>7, <1>8, <1>9, OwnerStep, DatabaseAssumption

LEMMA CommitKeeps ==
    ASSUME LockInv, NEW c \in Clients, Commit(c)
    PROVE  LockInv'
<1>1. PICK s, x : s = client[c].tx /\ x = shard[s] /\ s # None
  BY DEF Commit
<1>2. PICK f, u, z : f = Left(x) /\ u = Unlocked(f) /\ z = [u EXCEPT !.ok = x.logged]
  OBVIOUS
<1>3. SetShard(s, z) /\ Call(c, Idle) /\ UNCHANGED <<db, job, committer, published, acked>>
  BY <1>1, <1>2 DEF Commit
<1>4. x \in ShardRec /\ x.depth = 1 /\ x.group = 1 /\ x.logged \in Nat
  BY <1>1, InTx DEF ShardRec
<1>5. f \in ShardRec /\ f.group = 0 /\ f.depth = 1
  <2>1. x.group >= 1
    BY <1>4
  <2>2. f \in ShardRec /\ f.group = x.group - 1 /\ f.depth = x.depth
    BY <1>2, <1>4, <2>1, IsLeft
  <2> QED
    BY <1>4, <2>2
<1>6. u \in ShardRec /\ u.group = 0 /\ u.depth = 0 /\ u.owner = None /\ u.wmu = None
  BY <1>2, <1>5, IsUnlocked
<1>7. z \in ShardRec /\ z.group = u.group /\ z.depth = u.depth /\ z.owner = u.owner /\ z.wmu = u.wmu
  BY <1>2, <1>4, <1>6 DEF ShardRec
<1> QED
  BY <1>1, <1>3, <1>6, <1>7, TxEnds

LEMMA RollbackKeeps ==
    ASSUME LockInv, NEW c \in Clients, Rollback(c)
    PROVE  LockInv'
<1>1. PICK s, x : s = client[c].tx /\ x = shard[s] /\ s # None
  BY DEF Rollback
<1>0. PICK u, m, b : u = Unlocked(x) /\ m = client[c].from /\ b = (u.dropped \/ x.ok > x.durable)
  OBVIOUS
<1>2. PICK z : u = Unlocked(x) /\ m = client[c].from /\ z = [u EXCEPT !.group = 0, !.logged = m, !.dropped = b]
  BY <1>0
<1>3. SetShard(s, z) /\ Call(c, Idle) /\ UNCHANGED <<db, job, committer, published, acked>>
  BY <1>0, <1>1, <1>2 DEF Rollback
<1>4. x \in ShardRec /\ x.depth = 1 /\ m \in Nat
  BY <1>1, <1>2, InTx, Here DEF ClientRec
<1>5. u \in ShardRec /\ u.depth = 0 /\ u.owner = None /\ u.wmu = None
  BY <1>2, <1>4, IsUnlocked
<1>7. b \in BOOLEAN
  BY <1>0
<1>6. z \in ShardRec /\ z.group = 0 /\ z.depth = u.depth /\ z.owner = u.owner /\ z.wmu = u.wmu
  BY <1>2, <1>4, <1>5, <1>7 DEF ShardRec
<1> QED
  BY <1>1, <1>3, <1>5, <1>6, TxEnds

-----------------------------------------------------------------------------
(* The jobs of a batch, the committer, the end of a lot.                   *)

LEMMA JobLockKeeps ==
    ASSUME LockInv, NEW c \in Clients, NEW s \in Shards, JobLock(c, s)
    PROVE  LockInv'
<1>1. PICK y, x : y = client[c] /\ x = shard[s]
  OBVIOUS
<1>2. job[c][s] = "ready" /\ UNCHANGED <<db, client, committer, published, acked>>
  BY DEF JobLock
<1>3. /\ x \in ShardRec /\ Owns(c, y, "ready", s, x) /\ OneLock(s, x)
      /\ (committer = s => x.owner = None /\ x.wal = Flusher) /\ published \in Nat
  BY <1>1, <1>2, There, Here
<1>4. CASE x.wmu = None
  <2>1. PICK z : z = [x EXCEPT !.wmu = <<c, s>>]
    OBVIOUS
  <2>2. job' = [job EXCEPT ![c][s] = "wal"] /\ SetShard(s, z)
    BY <1>1, <1>4, <2>1 DEF JobLock
  <2>3. z \in ShardRec /\ z.wmu = <<c, s>> /\ z.wal = x.wal /\ z.owner = x.owner /\ z.depth = x.depth /\ z.group = x.group
    BY <1>3, <2>1 DEF ShardRec, Goroutines
  <2>4. x.owner = None /\ <<c, s>> # c /\ c # None /\ <<c, s>> # None
    BY <1>3, <1>4, DatabaseAssumption DEF OneLock
  <2>5. Owns(c, y, "wal", s, z)
    BY <1>3, <1>4, <2>3, <2>4 DEF Owns
  <2>6. OneLock(s, z)
    BY <1>3, <2>3, <2>4 DEF OneLock
  <2>7. Free(<<c, s>>, x) /\ Free(<<c, s>>, z)
    BY <1>4, <2>3, <2>4 DEF Free
  <2>8. "wal" \in Jobs
    BY DEF Jobs
  <2> QED
    BY <1>1, <1>2, <1>3, <2>2, <2>3, <2>4, <2>5, <2>6, <2>7, <2>8, JobStep
<1>5. CASE x.wmu # None
  <2>1. job' = [job EXCEPT ![c][s] = "failed"] /\ UNCHANGED shard
    BY <1>1, <1>5 DEF JobLock
  <2>2. /\ job' \in [Clients -> [Shards -> Jobs]]
        /\ job'[c][s] = "failed" /\ \A d \in Clients, t \in Shards : d # c \/ t # s => job'[d][t] = job[d][t]
    BY <2>1 DEF LockInv, Types, Jobs
  <2>3. Types' /\ Locked' /\ Flushing' /\ BaseLock'
    BY <1>2, <2>1, <2>2 DEF LockInv, Types, Locked, Flushing, BaseLock
  <2>4. Calling'
    BY <1>2, <2>2 DEF LockInv, Calling, Batching
  <2>5. Owns(c, y, "failed", s, x)
    BY <1>3 DEF Owns
  <2>6. Owning'
    BY <1>1, <1>2, <2>1, <2>2, <2>5 DEF LockInv, Owning
  <2> QED
    BY <2>3, <2>4, <2>6 DEF LockInv
<1> QED
  BY <1>4, <1>5

LEMMA JobWalKeeps ==
    ASSUME LockInv, NEW c \in Clients, NEW s \in Shards, JobWal(c, s)
    PROVE  LockInv'
<1>1. PICK y, x : y = client[c] /\ x = shard[s]
  OBVIOUS
<1>0. PICK g, z : g = <<c, s>> /\ z = [x EXCEPT !.wal = g, !.owner = g, !.depth = 1]
  OBVIOUS
<1>2. /\ job[c][s] = "wal" /\ x.wal = None /\ UNCHANGED <<db, client, committer, published, acked>>
      /\ job' = [job EXCEPT ![c][s] = "locked"] /\ SetShard(s, z)
  BY <1>0, <1>1 DEF JobWal
<1>3. /\ x \in ShardRec /\ Owns(c, y, "wal", s, x) /\ OneLock(s, x)
      /\ (committer = s => x.wal = Flusher) /\ published \in Nat
      /\ g \in Goroutines /\ g # None /\ g # c /\ c # None
  BY <1>0, <1>1, <1>2, There, Here, DatabaseAssumption DEF Goroutines
<1>4. x.owner = None /\ x.wmu = g /\ x.group = 0 /\ committer # s
  BY <1>0, <1>2, <1>3, DatabaseAssumption DEF Owns, OneLock
<1>5. z \in ShardRec /\ z.wmu = x.wmu /\ z.wal = g /\ z.owner = g /\ z.depth = 1 /\ z.group = x.group
  BY <1>0, <1>3 DEF ShardRec
<1>6. Owns(c, y, "locked", s, z)
  BY <1>0, <1>3, <1>4, <1>5 DEF Owns
<1>7. OneLock(s, z)
  BY <1>0, <1>3, <1>4, <1>5 DEF OneLock
<1>8. Free(g, x) /\ Free(g, z) /\ "locked" \in Jobs
  BY <1>4, <1>5 DEF Free, Jobs
<1> QED
  BY <1>0, <1>1, <1>2, <1>3, <1>4, <1>5, <1>6, <1>7, <1>8, JobStep

LEMMA JobWriteKeeps ==
    ASSUME LockInv, NEW c \in Clients, NEW s \in Shards, JobWrite(c, s)
    PROVE  LockInv'
<1>1. PICK y, x, g : y = client[c] /\ x = shard[s] /\ g = <<c, s>>
  OBVIOUS
<1>2. /\ job[c][s] = "locked" /\ UNCHANGED <<db, client, committer, acked>> /\ published' = published + 1
      /\ job' = [job EXCEPT ![c][s] = "done"]
  BY DEF JobWrite
<1>3. /\ x \in ShardRec /\ Owns(c, y, "locked", s, x) /\ OneLock(s, x)
      /\ (committer = s => x.owner = None) /\ published \in Nat
      /\ g \in Goroutines /\ g # None /\ g # c /\ c # None
  BY <1>1, <1>2, There, Here, DatabaseAssumption DEF Goroutines
<1>4. x.owner = g /\ x.wmu = g /\ x.group = 0 /\ x.depth = 1 /\ committer # s
  BY <1>1, <1>3 DEF Owns, OneLock
<1>7. PICK z \in ShardRec :
          SetShard(s, z) /\ z.group = 0 /\ z.depth = 0 /\ z.owner = None /\ z.wal = None /\ z.wmu = None
  BY <1>1, <1>3, <1>4, JobWrites
<1>8. Owns(c, y, "done", s, z)
  BY <1>1, <1>3, <1>4, <1>7 DEF Owns
<1>9. OneLock(s, z)
  BY <1>3, <1>7, DatabaseAssumption DEF OneLock
<1>10. Free(g, x) /\ Free(g, z) /\ "done" \in Jobs
  BY <1>4, <1>7 DEF Free, Jobs
<1>11. published' \in Nat /\ Free(<<c, s>>, shard[s]) /\ Free(<<c, s>>, z) /\ job[c][s] # "none"
  BY <1>1, <1>2, <1>3, <1>10
<1> QED
  BY <1>1, <1>2, <1>4, <1>7, <1>8, <1>9, <1>10, <1>11, JobStep

LEMMA CommitterWalKeeps ==
    ASSUME LockInv, NEW s \in Shards, CommitterWal(s)
    PROVE  LockInv'
<1>1. PICK x, z : x = shard[s] /\ z = [x EXCEPT !.wal = Flusher]
  OBVIOUS
<1>2. SetShard(s, z) /\ committer' = s /\ x.wal = None /\ UNCHANGED <<db, client, job, published, acked>>
  BY <1>1 DEF CommitterWal
<1>3. x \in ShardRec /\ OneLock(s, x)
  BY <1>1 DEF LockInv, Types, Locked
<1>4. x.owner = None
  BY <1>2, <1>3 DEF OneLock
<1>5. z \in ShardRec /\ z.wal = Flusher /\ z.wmu = x.wmu /\ z.owner = x.owner /\ z.depth = x.depth /\ z.group = x.group
  BY <1>1, <1>3 DEF ShardRec
<1>6. /\ shard' \in [Shards -> ShardRec]
      /\ shard'[s] = z /\ \A t \in Shards : t # s => shard'[t] = shard[t]
  BY <1>2, <1>5 DEF LockInv, Types, SetShard
<1>7. OneLock(s, z)
  BY <1>3, <1>4, <1>5 DEF OneLock
<1>8. Owning'
  <2> SUFFICES ASSUME NEW d \in Clients, NEW t \in Shards
               PROVE  Owns(d, client[d], job[d][t], t, shard'[t])
    BY <1>2 DEF Owning
  <2>1. Owns(d, client[d], job[d][t], t, shard[t])
    BY DEF LockInv, Owning
  <2>2. CASE t = s
    BY <1>1, <1>5, <1>6, <2>1, <2>2 DEF Owns
  <2> QED
    BY <1>6, <2>1, <2>2
<1>9. Types' /\ Calling' /\ Locked' /\ Flushing' /\ BaseLock'
  BY <1>2, <1>4, <1>5, <1>6, <1>7 DEF LockInv, Types, Calling, Locked, Flushing, BaseLock
<1> QED
  BY <1>8, <1>9 DEF LockInv

LEMMA CommitterFlushKeeps ==
    ASSUME LockInv, CommitterFlush
    PROVE  LockInv'
<1>1. PICK s, x, f : s = committer /\ x = shard[s] /\ f = Flushed(x)
  OBVIOUS
<1>0. PICK z : z = [f EXCEPT !.wal = None]
  OBVIOUS
<1>2. s \in Shards /\ SetShard(s, z) /\ committer' = "idle" /\ UNCHANGED <<db, client, job, published, acked>>
  BY <1>0, <1>1 DEF CommitterFlush
<1>3. x \in ShardRec /\ OneLock(s, x) /\ x.owner = None
  BY <1>1, <1>2 DEF LockInv, Types, Locked, Flushing
<1>4. f \in ShardRec /\ SameLock(x, f)
  BY <1>1, <1>3, IsFlushed DEF SameLock
<1>5. z \in ShardRec /\ z.wmu = f.wmu /\ z.owner = f.owner /\ z.depth = f.depth /\ z.group = f.group
  BY <1>0, <1>4 DEF ShardRec
<1>6. /\ shard' \in [Shards -> ShardRec]
      /\ shard'[s] = z /\ \A t \in Shards : t # s => shard'[t] = shard[t]
  BY <1>2, <1>5 DEF LockInv, Types, SetShard
<1>7. OneLock(s, z)
  BY <1>3, <1>4, <1>5 DEF OneLock, SameLock
<1>8. Owning'
  <2> SUFFICES ASSUME NEW d \in Clients, NEW t \in Shards
               PROVE  Owns(d, client[d], job[d][t], t, shard'[t])
    BY <1>2 DEF Owning
  <2>1. Owns(d, client[d], job[d][t], t, shard[t])
    BY DEF LockInv, Owning
  <2>2. CASE t = s
    BY <1>1, <1>4, <1>5, <1>6, <2>1, <2>2 DEF Owns, SameLock
  <2> QED
    BY <1>6, <2>1, <2>2
<1>9. Types' /\ Calling' /\ Locked' /\ Flushing' /\ BaseLock'
  BY <1>2, <1>5, <1>6, <1>7, DatabaseAssumption DEF LockInv, Types, Calling, Locked, Flushing, BaseLock
<1> QED
  BY <1>8, <1>9 DEF LockInv

\* The end of a lot: every listed shard was its own.
LEMMA LotEndKeeps ==
    ASSUME LockInv, NEW c \in Clients, LotEnd(c)
    PROVE  LockInv'
<1>1. PICK y, S, w : /\ y = client[c] /\ S = IF y.then = "failed" THEN {} ELSE y.list
                     /\ w = [y EXCEPT !.pc = "lotClear", !.todo = S]
  OBVIOUS
<1>2. y \in ClientRec /\ y.pc = "lotRun" /\ Call(c, w) /\ UNCHANGED <<job, committer, published, acked>>
  BY <1>1, Here DEF LotEnd
<1>3. y.kind = "lot" /\ y.tx = None /\ LotHas(y) = y.list /\ S \in SUBSET Shards
  BY <1>1, <1>2, Here DEF Control, Position, InGet, InWrite, Locking, Taking, Getting, LotHas, ClientRec
<1>4. w \in ClientRec /\ w.pc = "lotClear" /\ w.kind = y.kind /\ w.s = y.s /\ w.list = y.list /\ w.tx = y.tx
  BY <1>1, <1>2, <1>3, Names DEF ClientRec
<1>5. Control(w) /\ Batching(w, job[c]) /\ LotHas(w) = {}
  BY <1>1, <1>2, <1>3, <1>4, Here DEF Control, Position, Locking, Taking, Getting, Work, Batching, LotHas
<1>6. BaseStep
  <2>1. PICK W \in SUBSET Clients : W = db.waiting \cup {c}
    BY Here DEF BaseRec
  <2>2. db' \in BaseRec /\ db'.waiting = W /\ db'.writer = db.writer /\ db'.readers = db.readers
    BY <2>1, Here DEF BaseRec, LotEnd
  <2>3. BaseOf(c, w, db') /\ Apart(c, db, db')
    BY <1>1, <1>2, <1>3, <1>4, <2>1, <2>2, Here DEF BaseOf, Apart, Locking, Taking
  <2> QED
    BY <1>2, <1>4, <2>2, <2>3, Here, BaseMoved
<1>7. ASSUME NEW s \in Shards
      PROVE  /\ shard'[s] \in ShardRec /\ OneLock(s, shard'[s])
             /\ committer = s => shard'[s].owner = None /\ shard'[s].wal = Flusher
             /\ \A d \in Clients : Owns(d, client'[d], job[d][s], s, shard'[s])
  <2>1. PICK x : x = shard[s]
    OBVIOUS
  <2>2. /\ x \in ShardRec /\ Owns(c, y, "none", s, x) /\ OneLock(s, x) /\ job[c][s] = "none"
        /\ committer = s => x.owner = None /\ x.wal = Flusher
        /\ \A d \in Clients : Owns(d, client[d], job[d][s], s, x)
    BY <1>1, <1>2, <2>1, There
  <2>3. client'[c] = w /\ \A d \in Clients : d # c => client'[d] = client[d]
    BY <1>2 DEF LockInv, Types, Call
  <2>4. CASE s \notin y.list
    <3>1. shard'[s] = x
      BY <1>1, <2>1, <2>4 DEF LotEnd
    <3>2. Owns(c, w, "none", s, x)
      BY <1>2, <1>4, <1>5, <2>2, OwnsMoved DEF At, Work
    <3> QED
      BY <2>2, <2>3, <3>1, <3>2
  <2>5. CASE s \in y.list
    <3>1. PICK f, z : f = Left(x) /\ z = Unlocked(f)
      OBVIOUS
    <3>2. shard'[s] = z
      BY <1>1, <2>1, <2>5, <3>1 DEF LotEnd
    <3>3. x.owner = c /\ x.group >= 1 /\ x.depth = x.group /\ c # None
      BY <1>2, <1>3, <2>2, <2>5, DatabaseAssumption DEF Owns, Entry, Work, ShardRec
    <3>4. x.wmu = c /\ x.wal = c /\ committer # s
      BY <2>2, <3>3 DEF OneLock
    <3>5. /\ f \in ShardRec /\ f.group = x.group - 1 /\ f.depth = x.depth
          /\ f.owner = x.owner /\ f.wmu = x.wmu /\ f.wal = x.wal
      BY <2>2, <3>1, <3>3, IsLeft
    <3>6. f.depth >= 1 /\ f.depth = f.group + 1
      BY <2>2, <3>3, <3>5 DEF ShardRec
    <3>7. /\ z \in ShardRec /\ z.group = f.group /\ z.depth = f.depth - 1
          /\ z.depth = 0 => z.owner = None /\ z.wal = None /\ z.wmu = None
          /\ z.depth > 0 => z.owner = f.owner /\ z.wal = f.wal /\ z.wmu = f.wmu
      BY <3>1, <3>5, <3>6, IsUnlocked
    <3>8. z.depth \in Nat /\ z.depth = z.group
      BY <3>5, <3>6, <3>7 DEF ShardRec
    <3>9. OneLock(s, z) /\ Free(c, z) /\ Free(c, x)
      <4>1. CASE z.depth = 0
        BY <3>3, <3>7, <3>8, <4>1, FreedOne DEF Free
      <4>2. CASE z.depth > 0
        BY <3>3, <3>4, <3>5, <3>7, <4>2, OwnedOne DEF Free
      <4> QED
        BY <3>8, <4>1, <4>2
    <3>12. c # <<c, s>> /\ None # <<c, s>> /\ None # c /\ None # s
      BY DatabaseAssumption
    <3>13. w.pc \notin Work \cup {"lock2"} /\ w.tx # s /\ s \notin LotHas(w)
      BY <1>3, <1>4, <1>5, <3>12 DEF Work
    <3>10. Owns(c, w, "none", s, z)
      <4>1. CASE z.depth = 0
        BY <3>7, <3>12, <3>13, <4>1 DEF Owns
      <4>2. CASE z.depth > 0
        <5>1. Entry(w, s) = 0 /\ z.owner = c
          BY <3>3, <3>5, <3>7, <3>13, <4>2 DEF Entry
        <5>2. z.depth >= 1 /\ z.depth = z.group + Entry(w, s)
          BY <3>8, <4>2, <5>1
        <5> QED
          BY <3>12, <3>13, <5>1, <5>2 DEF Owns
      <4> QED
        BY <3>8, <4>1, <4>2
    <3>11. ASSUME NEW d \in Clients, d # c PROVE Owns(d, client'[d], job[d][s], s, z)
      BY <2>2, <2>3, <3>9, <3>11, OwnsOther
    <3> QED
      BY <2>2, <2>3, <3>2, <3>4, <3>7, <3>9, <3>10, <3>11
  <2> QED
    BY <2>4, <2>5
<1>8. shard' \in [Shards -> ShardRec]
  BY <1>7 DEF LotEnd
<1>9. client' \in [Clients -> ClientRec] /\ client'[c] = w /\ \A d \in Clients : d # c => client'[d] = client[d]
  BY <1>2, <1>4 DEF LockInv, Types, Call
<1>10. Types'
  BY <1>2, <1>6, <1>8, <1>9 DEF LockInv, Types, BaseStep
<1>11. Calling'
  BY <1>2, <1>5, <1>9 DEF LockInv, Calling
<1>12. Owning' /\ Locked' /\ Flushing'
  BY <1>2, <1>7 DEF Owning, Locked, Flushing
<1> QED
  BY <1>6, <1>10, <1>11, <1>12 DEF LockInv, BaseStep

-----------------------------------------------------------------------------
(* LockInv is inductive.                                                   *)

LEMMA LockInit == Init => LockInv
<1> SUFFICES ASSUME Init PROVE LockInv
  OBVIOUS
<1>1. PICK opened \in Openings : shard = [s \in Shards |-> [NewShard EXCEPT !.open = s \in opened]]
  BY DEF Init
<1>2. ASSUME NEW s \in Shards
      PROVE  /\ shard[s] \in ShardRec /\ shard[s].owner = None /\ shard[s].wmu = None
             /\ shard[s].depth = 0 /\ shard[s].group = 0
  <2>1. PICK n, b : n = NewShard /\ b = (s \in opened) /\ shard[s] = [n EXCEPT !.open = b]
    BY <1>1
  <2>2. n \in ShardRec /\ n.owner = None /\ n.wmu = None /\ n.depth = 0 /\ n.group = 0 /\ b \in BOOLEAN
    BY <2>1 DEF NewShard, ShardRec
  <2> QED
    BY <2>1, <2>2 DEF ShardRec
<1>3. Idle \in ClientRec /\ Idle.pc = "idle" /\ Idle.kind = "none" /\ Idle.list = {} /\ Idle.tx = None
  BY Names DEF Idle, ClientRec, Afters
<1>4. ASSUME NEW c \in Clients
      PROVE  client[c] = Idle /\ \A s \in Shards : job[c][s] = "none"
  BY DEF Init
<1>5. /\ db \in BaseRec /\ db.writer = None /\ db.readers = {} /\ db.waiting = {}
  BY DEF Init, BaseRec
<1>6. Types
  <2>1. client \in [Clients -> ClientRec] /\ shard \in [Shards -> ShardRec]
    BY <1>1, <1>2, <1>3 DEF Init
  <2>2. job \in [Clients -> [Shards -> Jobs]]
    BY DEF Init, Jobs
  <2> QED
    BY <1>5, <2>1, <2>2 DEF Types, Init
<1>7. Calling
  BY <1>3, <1>4 DEF Calling, Control, Position, Locking, Taking, Getting, Work, Batching
<1>8. Owning
  <2> SUFFICES ASSUME NEW c \in Clients, NEW s \in Shards PROVE Owns(c, client[c], job[c][s], s, shard[s])
    BY DEF Owning
  <2>1. c # None /\ <<c, s>> # None /\ s # None
    BY DatabaseAssumption
  <2>2. client[c].pc = "idle" /\ client[c].tx = None /\ LotHas(client[c]) = {} /\ job[c][s] = "none"
    BY <1>3, <1>4 DEF LotHas
  <2> QED
    BY <1>2, <2>1, <2>2 DEF Owns, Work
<1>9. Locked
  <2>1. \A c \in Clients, t \in Shards : <<c, t>> # None
    BY DatabaseAssumption
  <2> QED
    BY <1>2, <2>1 DEF Locked, OneLock
<1>10. Flushing
  BY DatabaseAssumption DEF Init, Flushing
<1>11. BaseLock
  BY <1>3, <1>4, <1>5, DatabaseAssumption DEF BaseLock, BaseOf, Locking, Taking
<1> QED
  BY <1>6, <1>7, <1>8, <1>9, <1>10, <1>11 DEF LockInv

LEMMA LockNext ==
    ASSUME Disciplined
    PROVE  LockInv /\ [Next]_vars => LockInv'
<1> SUFFICES ASSUME LockInv, [Next]_vars PROVE LockInv'
  OBVIOUS
<1>1. CASE Ack
  BY <1>1 DEF Ack, LockInv, Types, Calling, Owning, Locked, Flushing, BaseLock
<1>2. CASE Commits
  BY <1>2, CommitterWalKeeps, CommitterFlushKeeps DEF Commits
<1>3. ASSUME NEW c \in Clients, Starts(c) PROVE LockInv'
  BY <1>3, StartPutKeeps, StartPutWindowKeeps, StartTxKeeps, StartBatchKeeps, StartLotKeeps, StartSyncKeeps,
     StartCheckpointKeeps, StartCloseKeeps DEF Starts
<1>4. ASSUME NEW c \in Clients, TxSteps(c) PROVE LockInv'
  BY <1>4, TxPutKeeps, CommitKeeps, RollbackKeeps DEF TxSteps
<1>5. ASSUME NEW c \in Clients, Steps(c) PROVE LockInv'
  <2>1. CASE Lock1(c) \/ Lock2(c) \/ Busy(c) \/ GetFast(c) \/ GetWant(c) \/ GetSlow(c) \/ Enter(c)
    BY <2>1, Lock1Keeps, Lock2Keeps, BusyKeeps, GetFastKeeps, GetWantKeeps, GetSlowKeeps, EnterKeeps
  <2>2. CASE EnsureStart(c) \/ EnsureEnd(c) \/ PutLock(c) \/ Write(c) \/ TxLock(c) \/ Begin(c) \/ BatchGo(c) \/ BatchEnd(c)
    BY <2>2, EnsureStartKeeps, EnsureEndKeeps, PutLockKeeps, WriteKeeps, TxLockKeeps, BeginKeeps, BatchGoKeeps, BatchEndKeeps
  <2>3. CASE LotList(c) \/ LotGroup(c) \/ LotStart(c) \/ LotEnd(c) \/ LotFail(c) \/ LotClear(c)
    BY <2>3, LotListKeeps, LotGroupKeeps, LotStartKeeps, LotEndKeeps, LotFailKeeps, LotClearKeeps
  <2>4. CASE SyncShard(c) \/ SyncEnd(c) \/ CheckpointDo(c) \/ CheckpointEnd(c) \/ CloseStop(c) \/ CloseShards(c)
    BY <2>4, SyncShardKeeps, SyncEndKeeps, CheckpointDoKeeps, CheckpointEndKeeps, CloseStopKeeps, CloseShardsKeeps
  <2>5. ASSUME NEW s \in Shards,
               EnsureShard(c, s) \/ BatchGet(c, s) \/ JobLock(c, s) \/ JobWal(c, s) \/ JobWrite(c, s)
               \/ LotLock(c, s) \/ SyncAck(c, s) \/ CheckpointShard(c, s)
        PROVE  LockInv'
    BY <2>5, EnsureShardKeeps, BatchGetKeeps, JobLockKeeps, JobWalKeeps, JobWriteKeeps, LotLockKeeps, SyncAckKeeps,
       CheckpointShardKeeps
  <2> QED
    BY <1>5, <2>1, <2>2, <2>3, <2>4, <2>5 DEF Steps
<1>6. ASSUME NEW c \in Clients, NEW s \in Shards, LotOp(c, s) PROVE LockInv'
  BY <1>6, LotOpKeeps
<1>7. CASE UNCHANGED vars
  BY <1>7 DEF vars, LockInv, Types, Calling, Owning, Locked, Flushing, BaseLock
<1> QED
  BY <1>1, <1>2, <1>3, <1>4, <1>5, <1>6, <1>7 DEF Next

\* The locks of the base and of the shards: a goroutine between two calls
\* holds none but the one of its transaction or of a group, whatever the
\* calls, their interleaving and the shards that are busy (lockWriter,
\* unlockWriter, DB.GetShard, DB.ExecC2QL, DB.Checkpoint, DB.Close).
THEOREM Locks ==
    ASSUME Disciplined
    PROVE  Spec => []LocksReturned
<1>1. LockInv => LocksReturned
  <2> SUFFICES ASSUME LockInv, NEW c \in Clients, client[c].pc = "idle"
               PROVE  /\ c \notin db.waiting \cup db.readers \cup {db.writer}
                      /\ \A s \in Kept(c) : shard[s].group > 0
    BY DEF LocksReturned
  <2>1. client[c].kind = "none"
    BY Here DEF Control, Position, InGet, InWrite, Locking, Taking, Getting
  <2>2. c \notin db.waiting \cup db.readers \cup {db.writer}
    BY <2>1, Here DEF BaseOf, Locking, Taking
  <2>3. ASSUME NEW s \in Shards, shard[s].wmu = c PROVE shard[s].group > 0
    <3>1. Owns(c, client[c], job[c][s], s, shard[s]) /\ OneLock(s, shard[s]) /\ shard[s] \in ShardRec
      BY There
    <3>2. shard[s].owner = c
      BY <2>3, <3>1 DEF Owns, OneLock
    <3> QED
      BY <3>1, <3>2 DEF Owns, Entry, Work, ShardRec
  <2> QED
    BY <2>2, <2>3 DEF Kept, Held
<1> QED
  BY <1>1, LockInit, LockNext, PTL DEF Spec

-----------------------------------------------------------------------------
(***************************************************************************)
(* What Sync and Close of Database promise, for every number of clients    *)
(* and shards and every sequence of calls, under the same discipline as    *)
(* the locks above: no goroutine works on a closed shard, and a Sync that  *)
(* returns has made durable, and replicated, what was acknowledged before. *)
(*                                                                         *)
(* To the locks of LockInv the invariant adds which shards are open, what  *)
(* is left to do once the base is closed, and the counts of writes.        *)
(***************************************************************************)

-----------------------------------------------------------------------------
(* Open shards.                                                            *)

\* The shards a call needs open.
Needs(y, s) ==
    \/ y.s = s /\ y.pc \in Work \cup Taking \cup {"putLock", "txLock"}
    \/ y.tx = s
    \/ y.kind = "lot" /\ s \in y.list
    \/ y.kind = "checkpoint" /\ s \in y.todo
    \/ /\ y.kind = "batch" /\ s \in y.list
       /\ y.pc = "batchWait" \/ (s \notin y.todo /\ ~(y.pc \in Getting /\ y.s = s))

\* A shard no call has opened is empty.
Blank(x) == x.logged = 0 /\ x.ok = 0 /\ x.seq = 0 /\ ~x.marked

\* What a call still does on a closed base.
Refused(y) ==
    /\ y.tx = None
    /\ y.pc \in Getting \cup {"idle", "ensureWant", "batchGet", "lotWant", "lotLock", "lotRun", "lotClear", "closeWant"}
    /\ y.kind = "batch" /\ y.pc = "batchGet" => y.todo # {}
    /\ y.kind = "lot" => y.list = {} /\ (y.pc \in {"lotLock", "lotClear"} => y.todo = {})

Opened ==
    ~db.closed =>
        /\ \A c \in Clients, s \in Shards : Needs(client[c], s) => shard[s].open
        /\ \A s \in Shards : shard[s].open \/ (Blank(shard[s]) /\ committer # s)
Closing ==
    \A c \in Clients : client[c].kind = "close" =>
        /\ client[c].pc = "closing" => ~db.closed /\ committer = "stopped"
        /\ \A d \in Clients \ {c} : client[d].kind \in {"none", "checkpoint"} /\ client[d].tx = None
Closed == db.closed => committer = "stopped" /\ \A c \in Clients : Refused(client[c])

UseInv == Opened /\ Closing /\ Closed

-----------------------------------------------------------------------------
(* The counts of writes.                                                   *)

Counted(x, p) == x.durable <= x.logged /\ x.ok <= x.logged /\ x.seq <= p

\* A transaction can fall back to its start.
FallsBack(y, s, x) == y.tx = s => x.ok <= y.from /\ x.durable <= y.from /\ y.from <= x.logged

\* What a Sync that is past a shard has waited for.
Waited(y, s, x, a) ==
    y.kind = "sync" =>
        /\ y.goal \in Goals
        /\ y.goal[s].n <= x.ok /\ y.goal[s].seq <= x.seq
        /\ s \notin y.todo => y.goal[s].n <= x.durable
        /\ mode = "replicated" /\ (s \notin y.todo \/ (y.pc = "syncWal" /\ y.s = s)) => y.goal[s].seq <= a

CountInv ==
    /\ \A s \in Shards : Counted(shard[s], published)
    /\ \A c \in Clients, s \in Shards : FallsBack(client[c], s, shard[s]) /\ Waited(client[c], s, shard[s], acked)

DInv == LockInv /\ UseInv /\ CountInv
-----------------------------------------------------------------------------
(* Open shards and counts: what a step of one goroutine leaves of them.    *)

\* The counts of a shard only grow, and a shard that is not open has none.
Grows(x, z) ==
    /\ x.open => z.open
    /\ z.ok >= x.ok /\ z.durable >= x.durable /\ z.seq >= x.seq
    /\ x.open \/ (z.logged = x.logged /\ z.ok = x.ok /\ z.seq = x.seq /\ z.marked = x.marked)

LEMMA OpenNow ==
    ASSUME UseInv, ~db.closed, NEW c \in Clients, NEW s \in Shards, Needs(client[c], s)
    PROVE  shard[s].open
BY DEF UseInv, Opened

LEMMA Waiting ==
    ASSUME NEW y, NEW s \in Shards, NEW x \in ShardRec, NEW z \in ShardRec, NEW a \in Nat, NEW b \in Nat, b >= a,
           Waited(y, s, x, a), z.ok >= x.ok, z.durable >= x.durable, z.seq >= x.seq
    PROVE  Waited(y, s, z, b)
<1> SUFFICES ASSUME y.kind = "sync" PROVE Waited(y, s, z, b)
  BY DEF Waited
<1>1. y.goal \in Goals
  BY DEF Waited
<1>2. y.goal[s].n \in Nat /\ y.goal[s].seq \in Nat
  BY <1>1 DEF Goals
<1>3. x.ok \in Nat /\ x.durable \in Nat /\ x.seq \in Nat /\ z.ok \in Nat /\ z.durable \in Nat /\ z.seq \in Nat
  BY DEF ShardRec
<1> QED
  BY <1>1, <1>2, <1>3 DEF Waited

\* A client moves.
LEMMA MoveAny ==
    ASSUME LockInv, LockInv', UseInv, CountInv, NEW c \in Clients, NEW w \in ClientRec, Call(c, w), UNCHANGED mode,
           \/ committer' = committer
           \/ committer' \notin Shards /\ ~db.closed /\ \A d \in Clients \ {c} : client[d].kind # "close",
           db'.closed = db.closed, acked' >= acked,
           \A s \in Shards : Grows(shard[s], shard'[s]) /\ Counted(shard'[s], published'),
           ~db.closed => \A s \in Shards : Needs(w, s) => Needs(client[c], s) \/ shard'[s].open,
           db.closed => Refused(w),
           w.kind = "close" =>
               /\ w.pc = "closing" => ~db.closed /\ committer' = "stopped"
               /\ \A d \in Clients \ {c} : client[d].kind \in {"none", "checkpoint"} /\ client[d].tx = None,
           \A d \in Clients \ {c} : client[d].kind = "close" => w.kind \in {"none", "checkpoint"} /\ w.tx = None,
           \A s \in Shards, d \in Clients \ {c} : client[d].tx = s => FallsBack(client[d], s, shard'[s]),
           \A s \in Shards : FallsBack(w, s, shard'[s]) /\ Waited(w, s, shard'[s], acked')
    PROVE  UseInv' /\ CountInv'
<1>1. client'[c] = w /\ \A d \in Clients : d # c => client'[d] = client[d]
  BY DEF LockInv, Types, Call
<1>2. Opened'
  <2> SUFFICES ASSUME ~db.closed
               PROVE  /\ \A d \in Clients, s \in Shards : Needs(client'[d], s) => shard'[s].open
                      /\ \A s \in Shards : shard'[s].open \/ (Blank(shard'[s]) /\ committer' # s)
    BY DEF Opened
  <2>1. ASSUME NEW d \in Clients, NEW s \in Shards, Needs(client'[d], s) PROVE shard'[s].open
    <3>1. Needs(client[d], s) \/ shard'[s].open
      BY <1>1, <2>1
    <3> QED
      BY <3>1, OpenNow DEF Grows
  <2>2. ASSUME NEW s \in Shards PROVE shard'[s].open \/ (Blank(shard'[s]) /\ committer' # s)
    <3>1. shard[s].open \/ (Blank(shard[s]) /\ committer # s)
      BY DEF UseInv, Opened
    <3> QED
      BY <3>1 DEF Grows, Blank
  <2> QED
    BY <2>1, <2>2
<1>3. Closing'
  <2> SUFFICES ASSUME NEW d \in Clients, client'[d].kind = "close"
               PROVE  /\ client'[d].pc = "closing" => ~db'.closed /\ committer' = "stopped"
                      /\ \A e \in Clients \ {d} : client'[e].kind \in {"none", "checkpoint"} /\ client'[e].tx = None
    BY DEF Closing
  <2>1. CASE d = c
    BY <1>1, <2>1
  <2>2. CASE d # c
    <3>1. client'[d] = client[d] /\ committer' = committer
      BY <1>1, <2>2
    <3> QED
      BY <1>1, <2>2, <3>1 DEF UseInv, Closing
  <2> QED
    BY <2>1, <2>2
<1>4. Closed'
  BY <1>1 DEF UseInv, Closed
<1>5. \A s \in Shards : Counted(shard'[s], published')
  OBVIOUS
<1>6. ASSUME NEW d \in Clients, NEW s \in Shards
      PROVE  FallsBack(client'[d], s, shard'[s]) /\ Waited(client'[d], s, shard'[s], acked')
  <2>1. CASE d = c
    BY <1>1, <2>1
  <2>2. CASE d # c
    <3>1. FallsBack(client[d], s, shard[s]) /\ Waited(client[d], s, shard[s], acked)
      BY DEF CountInv
    <3>2. shard[s] \in ShardRec /\ shard'[s] \in ShardRec /\ acked \in Nat /\ acked' \in Nat
      BY DEF LockInv, Types
    <3>3. Waited(client[d], s, shard'[s], acked')
      BY <3>1, <3>2, Waiting DEF Grows
    <3>4. FallsBack(client[d], s, shard'[s])
      BY <2>2 DEF FallsBack
    <3> QED
      BY <1>1, <2>2, <3>3, <3>4
  <2> QED
    BY <2>1, <2>2
<1>7. CountInv'
  BY <1>5, <1>6 DEF CountInv, Waited
<1> QED
  BY <1>2, <1>3, <1>4, <1>7 DEF UseInv

\* A client moves.
LEMMA MoveStep ==
    ASSUME LockInv, LockInv', UseInv, CountInv, NEW c \in Clients, NEW w \in ClientRec, Call(c, w), UNCHANGED <<mode, committer>>,
           db'.closed = db.closed, acked' >= acked,
           \A s \in Shards : Grows(shard[s], shard'[s]) /\ Counted(shard'[s], published'),
           ~db.closed => \A s \in Shards : Needs(w, s) => Needs(client[c], s) \/ shard'[s].open,
           db.closed => Refused(w),
           w.kind # "close",
           \A d \in Clients \ {c} : client[d].kind = "close" => w.kind \in {"none", "checkpoint"} /\ w.tx = None,
           \A s \in Shards, d \in Clients \ {c} : client[d].tx = s => FallsBack(client[d], s, shard'[s]),
           \A s \in Shards : FallsBack(w, s, shard'[s]) /\ Waited(w, s, shard'[s], acked')
    PROVE  UseInv' /\ CountInv'
<1>1. committer' = committer /\ mode' = mode
  OBVIOUS
<1> QED
  BY <1>1, MoveAny

\* The same writes are counted, and the shard is as open.
SameCounts(x, z) ==
    /\ x.open => z.open
    /\ z.logged = x.logged /\ z.durable = x.durable /\ z.ok = x.ok /\ z.seq = x.seq /\ z.marked = x.marked

LEMMA SameCountsGrow ==
    ASSUME NEW x \in ShardRec, NEW z, SameCounts(x, z)
    PROVE  /\ Grows(x, z)
           /\ \A p : Counted(x, p) => Counted(z, p)
           /\ \A y, s : FallsBack(y, s, x) => FallsBack(y, s, z)
           /\ \A y, s, a : Waited(y, s, x, a) => Waited(y, s, z, a)
<1>1. x.ok \in Nat /\ x.durable \in Nat /\ x.seq \in Nat
  BY DEF ShardRec
<1> QED
  BY <1>1 DEF SameCounts, Grows, Counted, FallsBack, Waited

LEMMA Unmoved ==
    ASSUME UNCHANGED shard
    PROVE  \A s \in Shards : SameCounts(shard[s], shard'[s])
BY DEF SameCounts

LEMMA OneMoved ==
    ASSUME LockInv, NEW s \in Shards, NEW z, SetShard(s, z)
    PROVE  shard'[s] = z /\ \A t \in Shards : t # s => shard'[t] = shard[t]
BY DEF LockInv, Types, SetShard

LEMMA OneSame ==
    ASSUME LockInv, NEW s \in Shards, NEW z, SetShard(s, z), SameCounts(shard[s], z)
    PROVE  \A t \in Shards : SameCounts(shard[t], shard'[t])
BY OneMoved DEF SameCounts

\* A call that is neither Close nor Sync goes on.
LEMMA GoOn ==
    ASSUME DInv, LockInv', NEW c \in Clients, NEW w \in ClientRec, Call(c, w), UNCHANGED <<mode, committer, acked>>,
           db'.closed = db.closed,
           \A s \in Shards : Grows(shard[s], shard'[s]) /\ Counted(shard'[s], published'),
           \A s \in Shards, d \in Clients \ {c} : client[d].tx = s => FallsBack(client[d], s, shard'[s]),
           w.kind = client[c].kind, w.tx = client[c].tx, client[c].kind \notin {"none", "close", "sync"},
           ~db.closed => \A s \in Shards : Needs(w, s) => Needs(client[c], s) \/ shard'[s].open,
           db.closed => Refused(w)
    PROVE  UseInv' /\ CountInv'
<1>1. w.tx = None
  BY Here DEF DInv, Control
<1>2. acked' >= acked
  BY DEF DInv, LockInv, Types
<1>3. \A d \in Clients \ {c} : client[d].kind = "close" => w.kind \in {"none", "checkpoint"} /\ w.tx = None
  BY <1>1 DEF DInv, UseInv, Closing
<1>4. \A s \in Shards : FallsBack(w, s, shard'[s]) /\ Waited(w, s, shard'[s], acked')
  BY <1>1, DatabaseAssumption DEF FallsBack, Waited
<1> QED
  BY <1>2, <1>3, <1>4, MoveStep DEF DInv

\* The same, when no write is counted.
LEMMA SameCall ==
    ASSUME DInv, LockInv', NEW c \in Clients, NEW w \in ClientRec, Call(c, w), UNCHANGED <<mode, committer, published, acked>>,
           db'.closed = db.closed, \A s \in Shards : SameCounts(shard[s], shard'[s]),
           w.kind = client[c].kind, w.tx = client[c].tx, client[c].kind \notin {"none", "close", "sync"},
           ~db.closed => \A s \in Shards : Needs(w, s) => Needs(client[c], s) \/ shard'[s].open,
           db.closed => Refused(w)
    PROVE  UseInv' /\ CountInv'
<1>1. \A s \in Shards : Grows(shard[s], shard'[s]) /\ Counted(shard'[s], published')
  BY SameCountsGrow DEF DInv, LockInv, Types, CountInv
<1>2. \A s \in Shards, d \in Clients \ {c} : client[d].tx = s => FallsBack(client[d], s, shard'[s])
  BY SameCountsGrow DEF DInv, LockInv, Types, CountInv
<1> QED
  BY <1>1, <1>2, GoOn

\* A call begins.
LEMMA StartCall ==
    ASSUME DInv, LockInv', NEW c \in Clients, NEW w \in ClientRec, Call(c, w), UNCHANGED <<mode, shard, committer, published, acked>>,
           db'.closed = db.closed, Disciplined, w.kind \notin {"close", "none"}, MayCall(c, w.kind), w.tx = None,
           \A s \in Shards : Waited(w, s, shard[s], acked),
           ~db.closed => \A s \in Shards : Needs(w, s) => shard[s].open,
           db.closed => Refused(w)
    PROVE  UseInv' /\ CountInv'
<1>2. acked' >= acked
  BY DEF DInv, LockInv, Types
<1>3. \A s \in Shards : Grows(shard[s], shard'[s]) /\ Counted(shard'[s], published')
  BY SameCountsGrow, Unmoved DEF DInv, LockInv, Types, CountInv
<1>4. \A d \in Clients \ {c} : client[d].kind = "close" => w.kind \in {"none", "checkpoint"} /\ w.tx = None
  BY DEF MayCall, Disciplined
<1>5. \A s \in Shards, d \in Clients \ {c} : client[d].tx = s => FallsBack(client[d], s, shard'[s])
  BY DEF DInv, CountInv
<1>6. \A s \in Shards : FallsBack(w, s, shard'[s]) /\ Waited(w, s, shard'[s], acked')
  BY DatabaseAssumption DEF FallsBack
<1> QED
  BY <1>2, <1>3, <1>4, <1>5, <1>6, MoveStep DEF DInv

\* A call returns.
LEMMA ReturnCall ==
    ASSUME DInv, LockInv', NEW c \in Clients, Return(c), UNCHANGED <<mode, committer>>, client[c].kind # "none",
           db'.closed = db.closed, acked' = acked,
           \A s \in Shards : Grows(shard[s], shard'[s]) /\ Counted(shard'[s], published'),
           \A s \in Shards, d \in Clients \ {c} : client[d].tx = s => FallsBack(client[d], s, shard'[s])
    PROVE  UseInv' /\ CountInv'
<1>1. PICK w : w = Between(c)
  OBVIOUS
<1>2. client[c].tx = None
  BY Here DEF DInv, Control
<1>3. Call(c, w) /\ w \in ClientRec /\ w.pc = "idle" /\ w.kind = "none" /\ w.tx = None /\ w.list = {}
  BY <1>1, <1>2, Fresh DEF Return, DInv
<1>4. acked' >= acked
  BY DEF DInv, LockInv, Types
<1>5. \A s \in Shards : ~Needs(w, s)
  BY <1>3, DatabaseAssumption DEF Needs, Work, Taking
<1>6. Refused(w)
  BY <1>3 DEF Refused
<1>7. \A s \in Shards : FallsBack(w, s, shard'[s]) /\ Waited(w, s, shard'[s], acked')
  BY <1>3, DatabaseAssumption DEF FallsBack, Waited
<1> QED
  BY <1>3, <1>4, <1>5, <1>6, <1>7, MoveStep DEF DInv

LEMMA ReturnSame ==
    ASSUME DInv, LockInv', NEW c \in Clients, Return(c), UNCHANGED <<mode, shard, committer, published, acked>>,
           client[c].kind # "none", db'.closed = db.closed
    PROVE  UseInv' /\ CountInv'
<1>1. \A s \in Shards : Grows(shard[s], shard'[s]) /\ Counted(shard'[s], published')
  BY SameCountsGrow, Unmoved DEF DInv, LockInv, Types, CountInv
<1>2. \A s \in Shards, d \in Clients \ {c} : client[d].tx = s => FallsBack(client[d], s, shard'[s])
  BY DEF DInv, CountInv
<1> QED
  BY <1>1, <1>2, ReturnCall

\* No other client has a transaction on a shard whose owner it is not.
LEMMA NoTx ==
    ASSUME LockInv, NEW s \in Shards, NEW d \in Clients, shard[s].owner # d
    PROVE  client[d].tx # s
BY DEF LockInv, Owning, Owns

\* Past these points the base is open.
LEMMA BaseOpen ==
    ASSUME DInv, NEW c \in Clients,
           client[c].pc \notin Getting \cup {"idle", "ensureWant", "batchGet", "lotWant", "lotLock", "lotRun", "lotClear", "closeWant"}
    PROVE  ~db.closed
BY DEF DInv, UseInv, Closed, Refused

-----------------------------------------------------------------------------
(* Steps of a call that count no write.                                    *)

LEMMA PutLockUses ==
    ASSUME DInv, LockInv', NEW c \in Clients, PutLock(c)
    PROVE  UseInv' /\ CountInv'
<1>1. PICK y, w : y = client[c] /\ w = [y EXCEPT !.pc = "lock1", !.after = "write"]
  OBVIOUS
<1>2. y \in ClientRec /\ y.pc = "putLock" /\ Call(c, w)
  BY <1>1, Here DEF DInv, PutLock
<1>3. /\ w \in ClientRec /\ w.pc = "lock1" /\ w.after = "write"
      /\ w.kind = y.kind /\ w.s = y.s /\ w.then = y.then /\ w.todo = y.todo /\ w.list = y.list /\ w.tx = y.tx
  BY <1>1, <1>2, Names DEF ClientRec
<1>4. y.kind \in {"put", "putWindow", "lot"} /\ y.tx = None
  BY <1>1, <1>2, Here DEF DInv, Control, Position, InGet, InWrite, Locking, Taking, Getting, Work
<1>5. ~db.closed
  BY <1>1, <1>2, BaseOpen DEF Getting
<1>6. \A t \in Shards : Needs(w, t) => Needs(y, t)
  BY <1>2, <1>3, <1>4 DEF Needs, Work, Taking, Getting
<1>7. db'.closed = db.closed /\ UNCHANGED <<mode, shard, committer, published, acked>>
  BY DEF PutLock
<1> QED
  BY <1>1, <1>2, <1>3, <1>4, <1>5, <1>6, <1>7, SameCall, Unmoved

LEMMA TxLockUses ==
    ASSUME DInv, LockInv', NEW c \in Clients, TxLock(c)
    PROVE  UseInv' /\ CountInv'
<1>1. PICK y, w : y = client[c] /\ w = [y EXCEPT !.pc = "lock1", !.after = "begin"]
  OBVIOUS
<1>2. y \in ClientRec /\ y.pc = "txLock" /\ Call(c, w)
  BY <1>1, Here DEF DInv, TxLock
<1>3. /\ w \in ClientRec /\ w.pc = "lock1" /\ w.after = "begin"
      /\ w.kind = y.kind /\ w.s = y.s /\ w.then = y.then /\ w.todo = y.todo /\ w.list = y.list /\ w.tx = y.tx
  BY <1>1, <1>2, Names DEF ClientRec
<1>4. y.kind = "tx" /\ y.tx = None
  BY <1>1, <1>2, Here DEF DInv, Control, Position, InGet, InWrite, Locking, Taking, Getting, Work
<1>5. ~db.closed
  BY <1>1, <1>2, BaseOpen DEF Getting
<1>6. \A t \in Shards : Needs(w, t) => Needs(y, t)
  BY <1>2, <1>3, <1>4 DEF Needs, Work, Taking, Getting
<1>7. db'.closed = db.closed /\ UNCHANGED <<mode, shard, committer, published, acked>>
  BY DEF TxLock
<1> QED
  BY <1>1, <1>2, <1>3, <1>4, <1>5, <1>6, <1>7, SameCall, Unmoved

LEMMA GetWantUses ==
    ASSUME DInv, LockInv', NEW c \in Clients, GetWant(c)
    PROVE  UseInv' /\ CountInv'
<1>1. PICK y, w : y = client[c] /\ w = [y EXCEPT !.pc = "getSlow"]
  OBVIOUS
<1>2. y \in ClientRec /\ y.pc = "getWant" /\ Call(c, w)
  BY <1>1, Here DEF DInv, GetWant, Want, To
<1>3. /\ w \in ClientRec /\ w.pc = "getSlow"
      /\ w.kind = y.kind /\ w.s = y.s /\ w.then = y.then /\ w.todo = y.todo /\ w.list = y.list /\ w.tx = y.tx
  BY <1>1, <1>2, Names DEF ClientRec
<1>4. y.tx = None /\ y.kind \notin {"none", "close", "sync", "checkpoint"}
  BY <1>1, <1>2, Here DEF DInv, Control, Position, InGet, InWrite, Locking, Taking, Getting, Work
<1>5. db.closed => Refused(w)
  BY <1>1, <1>2, <1>3, <1>4 DEF DInv, UseInv, Closed, Refused, Getting
<1>6. \A t \in Shards : Needs(w, t) => Needs(y, t)
  BY <1>2, <1>3, <1>4 DEF Needs, Work, Taking, Getting
<1>7. db'.closed = db.closed /\ UNCHANGED <<mode, shard, committer, published, acked>>
  BY Here DEF GetWant, Want, To, DInv, BaseRec
<1> QED
  BY <1>1, <1>2, <1>3, <1>4, <1>5, <1>6, <1>7, SameCall, Unmoved

LEMMA EnsureShardUses ==
    ASSUME DInv, LockInv', NEW c \in Clients, NEW s \in Shards, EnsureShard(c, s)
    PROVE  UseInv' /\ CountInv'
<1>1. PICK y, w : y = client[c] /\ w = [y EXCEPT !.todo = y.todo \ {s}]
  OBVIOUS
<1>2. y \in ClientRec /\ y.pc = "ensure" /\ Call(c, w)
  BY <1>1, Here DEF DInv, EnsureShard
<1>3. /\ w \in ClientRec /\ w.todo = y.todo \ {s}
      /\ w.pc = y.pc /\ w.kind = y.kind /\ w.s = y.s /\ w.then = y.then /\ w.list = y.list /\ w.tx = y.tx
  BY <1>1, <1>2, Names DEF ClientRec
<1>4. y.kind = "putWindow" /\ y.tx = None
  BY <1>1, <1>2, Here DEF DInv, Control, Position, InGet, InWrite, Locking, Taking, Getting, Work
<1>5. ~db.closed
  BY <1>1, <1>2, BaseOpen DEF Getting
<1>6. \A t \in Shards : Needs(w, t) => Needs(y, t)
  BY <1>2, <1>3, <1>4 DEF Needs, Work, Taking, Getting
<1>7. db'.closed = db.closed /\ UNCHANGED <<mode, shard, committer, published, acked>>
  BY DEF EnsureShard
<1> QED
  BY <1>1, <1>2, <1>3, <1>4, <1>5, <1>6, <1>7, SameCall, Unmoved

LEMMA EnsureEndUses ==
    ASSUME DInv, LockInv', NEW c \in Clients, EnsureEnd(c)
    PROVE  UseInv' /\ CountInv'
<1>1. PICK y, w : y = client[c] /\ w = [y EXCEPT !.pc = "get"]
  OBVIOUS
<1>2. y \in ClientRec /\ y.pc = "ensure" /\ Call(c, w)
  BY <1>1, Here DEF DInv, EnsureEnd, To
<1>3. /\ w \in ClientRec /\ w.pc = "get"
      /\ w.kind = y.kind /\ w.s = y.s /\ w.then = y.then /\ w.todo = y.todo /\ w.list = y.list /\ w.tx = y.tx
  BY <1>1, <1>2, Names DEF ClientRec
<1>4. y.kind = "putWindow" /\ y.tx = None
  BY <1>1, <1>2, Here DEF DInv, Control, Position, InGet, InWrite, Locking, Taking, Getting, Work
<1>5. ~db.closed
  BY <1>1, <1>2, BaseOpen DEF Getting
<1>6. \A t \in Shards : Needs(w, t) => Needs(y, t)
  BY <1>2, <1>3, <1>4 DEF Needs, Work, Taking, Getting
<1>7. db'.closed = db.closed /\ UNCHANGED <<mode, shard, committer, published, acked>>
  BY Here DEF EnsureEnd, To, DInv, BaseRec
<1> QED
  BY <1>1, <1>2, <1>3, <1>4, <1>5, <1>6, <1>7, SameCall, Unmoved

LEMMA BatchGetUses ==
    ASSUME DInv, LockInv', NEW c \in Clients, NEW s \in Shards, BatchGet(c, s)
    PROVE  UseInv' /\ CountInv'
<1>1. PICK y, w : y = client[c] /\ w = [y EXCEPT !.pc = "get", !.s = s, !.then = "batchGet", !.todo = y.todo \ {s}]
  OBVIOUS
<1>2. y \in ClientRec /\ y.pc = "batchGet" /\ Call(c, w)
  BY <1>1, Here DEF DInv, BatchGet
<1>3. /\ w \in ClientRec /\ w.pc = "get" /\ w.s = s /\ w.then = "batchGet" /\ w.todo = y.todo \ {s}
      /\ w.kind = y.kind /\ w.list = y.list /\ w.tx = y.tx
  BY <1>1, <1>2, Names DEF ClientRec
<1>4. y.kind = "batch" /\ y.tx = None
  BY <1>1, <1>2, Here DEF DInv, Control, Position, InGet, InWrite, Locking, Taking, Getting, Work
<1>5. db.closed => Refused(w)
  BY <1>1, <1>2, <1>3, <1>4 DEF DInv, UseInv, Closed, Refused, Getting
<1>6. \A t \in Shards : Needs(w, t) => Needs(y, t)
  BY <1>2, <1>3, <1>4 DEF Needs, Work, Taking, Getting
<1>7. db'.closed = db.closed /\ UNCHANGED <<mode, shard, committer, published, acked>>
  BY DEF BatchGet
<1> QED
  BY <1>1, <1>2, <1>3, <1>4, <1>5, <1>6, <1>7, SameCall, Unmoved

LEMMA BatchGoUses ==
    ASSUME DInv, LockInv', NEW c \in Clients, BatchGo(c)
    PROVE  UseInv' /\ CountInv'
<1>1. PICK y, w : y = client[c] /\ w = [y EXCEPT !.pc = "batchWait"]
  OBVIOUS
<1>2. y \in ClientRec /\ y.pc = "batchGet" /\ y.todo = {} /\ Call(c, w)
  BY <1>1, Here DEF DInv, BatchGo, To
<1>3. /\ w \in ClientRec /\ w.pc = "batchWait"
      /\ w.kind = y.kind /\ w.s = y.s /\ w.then = y.then /\ w.todo = y.todo /\ w.list = y.list /\ w.tx = y.tx
  BY <1>1, <1>2, Names DEF ClientRec
<1>4. y.kind = "batch" /\ y.tx = None
  BY <1>1, <1>2, Here DEF DInv, Control, Position, InGet, InWrite, Locking, Taking, Getting, Work
<1>5. ~db.closed
  BY <1>1, <1>2, <1>4 DEF DInv, UseInv, Closed, Refused
<1>6. \A t \in Shards : Needs(w, t) => Needs(y, t)
  BY <1>2, <1>3, <1>4 DEF Needs, Work, Taking, Getting
<1>7. db'.closed = db.closed /\ UNCHANGED <<mode, shard, committer, published, acked>>
  BY DEF BatchGo, To
<1> QED
  BY <1>1, <1>2, <1>3, <1>4, <1>5, <1>6, <1>7, SameCall, Unmoved

LEMMA LotLockUses ==
    ASSUME DInv, LockInv', NEW c \in Clients, NEW s \in Shards, LotLock(c, s)
    PROVE  UseInv' /\ CountInv'
<1>1. PICK y, w : y = client[c] /\ w = [y EXCEPT !.pc = "lock1", !.after = "lotGroup", !.s = s, !.todo = y.todo \ {s}]
  OBVIOUS
<1>2. y \in ClientRec /\ y.pc = "lotLock" /\ s \in y.todo /\ Call(c, w)
  BY <1>1, Here DEF DInv, LotLock
<1>3. /\ w \in ClientRec /\ w.pc = "lock1" /\ w.s = s /\ w.after = "lotGroup" /\ w.todo = y.todo \ {s}
      /\ w.kind = y.kind /\ w.then = y.then /\ w.list = y.list /\ w.tx = y.tx
  BY <1>1, <1>2, Names DEF ClientRec
<1>4. y.kind = "lot" /\ y.tx = None /\ y.todo \subseteq y.list
  BY <1>1, <1>2, Here DEF DInv, Control, Position, InGet, InWrite, Locking, Taking, Getting, Work
<1>5. ~db.closed
  BY <1>1, <1>2, <1>4 DEF DInv, UseInv, Closed, Refused
<1>6. \A t \in Shards : Needs(w, t) => Needs(y, t)
  BY <1>2, <1>3, <1>4 DEF Needs, Work, Taking, Getting
<1>7. db'.closed = db.closed /\ UNCHANGED <<mode, shard, committer, published, acked>>
  BY DEF LotLock
<1> QED
  BY <1>1, <1>2, <1>3, <1>4, <1>5, <1>6, <1>7, SameCall, Unmoved

LEMMA LotStartUses ==
    ASSUME DInv, LockInv', NEW c \in Clients, LotStart(c)
    PROVE  UseInv' /\ CountInv'
<1>1. PICK y, w : y = client[c] /\ w = [y EXCEPT !.pc = "lotRun", !.todo = Shards]
  OBVIOUS
<1>2. y \in ClientRec /\ y.pc = "lotLock" /\ Call(c, w)
  BY <1>1, Here DEF DInv, LotStart
<1>3. /\ w \in ClientRec /\ w.pc = "lotRun" /\ w.todo = Shards
      /\ w.kind = y.kind /\ w.s = y.s /\ w.then = y.then /\ w.list = y.list /\ w.tx = y.tx
  BY <1>1, <1>2, Names DEF ClientRec
<1>4. y.kind = "lot" /\ y.tx = None
  BY <1>1, <1>2, Here DEF DInv, Control, Position, InGet, InWrite, Locking, Taking, Getting, Work
<1>5. db.closed => Refused(w)
  BY <1>1, <1>2, <1>3, <1>4 DEF DInv, UseInv, Closed, Refused, Getting
<1>6. \A t \in Shards : Needs(w, t) => Needs(y, t)
  BY <1>2, <1>3, <1>4 DEF Needs, Work, Taking, Getting
<1>7. db'.closed = db.closed /\ UNCHANGED <<mode, shard, committer, published, acked>>
  BY DEF LotStart
<1> QED
  BY <1>1, <1>2, <1>3, <1>4, <1>5, <1>6, <1>7, SameCall, Unmoved

LEMMA LotOpUses ==
    ASSUME DInv, LockInv', NEW c \in Clients, NEW s \in Shards, LotOp(c, s)
    PROVE  UseInv' /\ CountInv'
<1>1. PICK y, w : y = client[c] /\ w = [y EXCEPT !.pc = "get", !.s = s, !.then = "putLock", !.todo = y.todo \ {s}]
  OBVIOUS
<1>2. y \in ClientRec /\ y.pc = "lotRun" /\ Call(c, w)
  BY <1>1, Here DEF DInv, LotOp
<1>3. /\ w \in ClientRec /\ w.pc = "get" /\ w.s = s /\ w.then = "putLock" /\ w.todo = y.todo \ {s}
      /\ w.kind = y.kind /\ w.list = y.list /\ w.tx = y.tx
  BY <1>1, <1>2, Names DEF ClientRec
<1>4. y.kind = "lot" /\ y.tx = None
  BY <1>1, <1>2, Here DEF DInv, Control, Position, InGet, InWrite, Locking, Taking, Getting, Work
<1>5. db.closed => Refused(w)
  BY <1>1, <1>2, <1>3, <1>4 DEF DInv, UseInv, Closed, Refused, Getting
<1>6. \A t \in Shards : Needs(w, t) => Needs(y, t)
  BY <1>2, <1>3, <1>4 DEF Needs, Work, Taking, Getting
<1>7. db'.closed = db.closed /\ UNCHANGED <<mode, shard, committer, published, acked>>
  BY DEF LotOp
<1> QED
  BY <1>1, <1>2, <1>3, <1>4, <1>5, <1>6, <1>7, SameCall, Unmoved

LEMMA LotFailUses ==
    ASSUME DInv, LockInv', NEW c \in Clients, LotFail(c)
    PROVE  UseInv' /\ CountInv'
<1>1. PICK y, w : y = client[c] /\ w = [y EXCEPT !.pc = "lotClear"]
  OBVIOUS
<1>2. y \in ClientRec /\ y.pc = "lotFail" /\ Call(c, w)
  BY <1>1, Here DEF DInv, LotFail, Want, To
<1>3. /\ w \in ClientRec /\ w.pc = "lotClear"
      /\ w.kind = y.kind /\ w.s = y.s /\ w.then = y.then /\ w.todo = y.todo /\ w.list = y.list /\ w.tx = y.tx
  BY <1>1, <1>2, Names DEF ClientRec
<1>4. y.kind = "lot" /\ y.tx = None
  BY <1>1, <1>2, Here DEF DInv, Control, Position, InGet, InWrite, Locking, Taking, Getting, Work
<1>5. ~db.closed
  BY <1>1, <1>2, BaseOpen DEF Getting
<1>6. \A t \in Shards : Needs(w, t) => Needs(y, t)
  BY <1>2, <1>3, <1>4 DEF Needs, Work, Taking, Getting
<1>7. db'.closed = db.closed /\ UNCHANGED <<mode, shard, committer, published, acked>>
  BY Here DEF LotFail, Want, To, DInv, BaseRec
<1> QED
  BY <1>1, <1>2, <1>3, <1>4, <1>5, <1>6, <1>7, SameCall, Unmoved

LEMMA CheckpointShardUses ==
    ASSUME DInv, LockInv', NEW c \in Clients, NEW s \in Shards, CheckpointShard(c, s)
    PROVE  UseInv' /\ CountInv'
<1>1. PICK y, w : y = client[c] /\ w = [y EXCEPT !.pc = "lock1", !.after = "ckptDo", !.s = s, !.todo = y.todo \ {s}]
  OBVIOUS
<1>2. y \in ClientRec /\ y.pc = "ckpt" /\ s \in y.todo /\ Call(c, w)
  BY <1>1, Here DEF DInv, CheckpointShard
<1>3. /\ w \in ClientRec /\ w.pc = "lock1" /\ w.s = s /\ w.after = "ckptDo" /\ w.todo = y.todo \ {s}
      /\ w.kind = y.kind /\ w.then = y.then /\ w.list = y.list /\ w.tx = y.tx
  BY <1>1, <1>2, Names DEF ClientRec
<1>4. y.kind = "checkpoint" /\ y.tx = None
  BY <1>1, <1>2, Here DEF DInv, Control, Position, InGet, InWrite, Locking, Taking, Getting, Work
<1>5. ~db.closed
  BY <1>1, <1>2, BaseOpen DEF Getting
<1>6. \A t \in Shards : Needs(w, t) => Needs(y, t)
  BY <1>2, <1>3, <1>4 DEF Needs, Work, Taking, Getting
<1>7. db'.closed = db.closed /\ UNCHANGED <<mode, shard, committer, published, acked>>
  BY DEF CheckpointShard
<1> QED
  BY <1>1, <1>2, <1>3, <1>4, <1>5, <1>6, <1>7, SameCall, Unmoved

LEMMA LotListUses ==
    ASSUME DInv, LockInv', NEW c \in Clients, LotList(c)
    PROVE  UseInv' /\ CountInv'
<1>1. PICK y, S, w : /\ y = client[c] /\ S = (IF db.closed THEN {} ELSE {s \in Shards : shard[s].open})
                     /\ w = [y EXCEPT !.pc = "lotLock", !.todo = S, !.list = S]
  OBVIOUS
<1>2. y \in ClientRec /\ y.pc = "lotWant" /\ Call(c, w) /\ S \in SUBSET Shards
  BY <1>1, Here DEF DInv, LotList
<1>3. /\ w \in ClientRec /\ w.pc = "lotLock" /\ w.todo = S /\ w.list = S
      /\ w.kind = y.kind /\ w.s = y.s /\ w.tx = y.tx
  BY <1>1, <1>2, Names DEF ClientRec
<1>4. y.kind = "lot" /\ y.tx = None
  BY <1>1, <1>2, Here DEF DInv, Control, Position, InGet, InWrite, Locking, Taking, Getting, Work
<1>5. db.closed => Refused(w)
  BY <1>1, <1>2, <1>3, <1>4 DEF Refused
<1>6. ~db.closed => \A t \in Shards : Needs(w, t) => Needs(y, t) \/ shard[t].open
  BY <1>1, <1>2, <1>3, <1>4 DEF Needs, Work, Taking, Getting
<1>7. db'.closed = db.closed /\ UNCHANGED <<mode, shard, committer, published, acked>>
  BY Here DEF LotList, DInv, BaseRec
<1> QED
  BY <1>1, <1>2, <1>3, <1>4, <1>5, <1>6, <1>7, SameCall, Unmoved

LEMMA OpFailsUses ==
    ASSUME DInv, LockInv', NEW c \in Clients, OpFails(c), UNCHANGED <<mode, shard, committer, published, acked>>,
           db'.closed = db.closed, client[c].kind \notin {"none", "close", "sync"}
    PROVE  UseInv' /\ CountInv'
<1>1. CASE client[c].kind # "lot"
  BY <1>1, ReturnSame DEF OpFails
<1>2. CASE client[c].kind = "lot"
  <2>1. PICK y, w : y = client[c] /\ w = [y EXCEPT !.pc = "lotRun", !.todo = {}, !.then = "failed"]
    OBVIOUS
  <2>2. y \in ClientRec /\ Call(c, w)
    BY <1>2, <2>1, Here DEF DInv, OpFails
  <2>3. w \in ClientRec /\ w.pc = "lotRun" /\ w.kind = y.kind /\ w.s = y.s /\ w.list = y.list /\ w.tx = y.tx
    BY <2>1, <2>2, Names DEF ClientRec
  <2>4. \A t \in Shards : Needs(w, t) => Needs(y, t)
    BY <1>2, <2>1, <2>3 DEF Needs, Work, Taking
  <2>5. db.closed => Refused(w)
    BY <1>2, <2>1, <2>3 DEF DInv, UseInv, Closed, Refused
  <2> QED
    BY <1>2, <2>1, <2>2, <2>3, <2>4, <2>5, SameCall, Unmoved
<1> QED
  BY <1>1, <1>2

LEMMA BusyUses ==
    ASSUME DInv, LockInv', NEW c \in Clients, Busy(c)
    PROVE  UseInv' /\ CountInv'
<1>1. client[c].pc = "lock1" /\ UNCHANGED <<mode, shard, committer, published, acked>> /\ db'.closed = db.closed
  BY Here DEF Busy, DInv, BaseRec
<1>2. client[c].kind \notin {"none", "close", "sync"}
  BY <1>1, Here DEF DInv, Control, Position, InGet, InWrite, Locking, Taking, Getting, Work
<1>3. CASE ~(client[c].kind = "lot" /\ client[c].after = "lotGroup")
  BY <1>1, <1>2, <1>3, OpFailsUses DEF Busy
<1>4. CASE client[c].kind = "lot" /\ client[c].after = "lotGroup"
  <2>1. PICK y, w : y = client[c] /\ w = [y EXCEPT !.pc = "lotFail", !.todo = {}]
    OBVIOUS
  <2>2. y \in ClientRec /\ Call(c, w)
    BY <1>4, <2>1, Here DEF DInv, Busy
  <2>3. w \in ClientRec /\ w.pc = "lotFail" /\ w.kind = y.kind /\ w.s = y.s /\ w.list = y.list /\ w.tx = y.tx
    BY <2>1, <2>2, Names DEF ClientRec
  <2>4. \A t \in Shards : Needs(w, t) => Needs(y, t)
    BY <1>4, <2>1, <2>3 DEF Needs, Work, Taking
  <2>5. ~db.closed
    BY <1>1, BaseOpen DEF Getting
  <2> QED
    BY <1>1, <1>2, <2>1, <2>2, <2>3, <2>4, <2>5, SameCall, Unmoved
<1> QED
  BY <1>3, <1>4

\* GetShard with the shard open.
LEMMA GotShard ==
    ASSUME DInv, LockInv', NEW c \in Clients, NEW w \in ClientRec, Call(c, w), UNCHANGED <<mode, committer, published, acked>>,
           db'.closed = db.closed, \A s \in Shards : SameCounts(shard[s], shard'[s]),
           client[c].pc \in Getting, ~db.closed, shard'[client[c].s].open,
           w.pc \in {"lock1", client[c].then}, w.kind = client[c].kind, w.s = client[c].s, w.todo = client[c].todo,
           w.list = client[c].list, w.tx = client[c].tx
    PROVE  UseInv' /\ CountInv'
<1>1. PICK y : y = client[c]
  OBVIOUS
<1>2. y \in ClientRec /\ y.s \in Shards /\ y.tx = None /\ Gets(y)
  BY <1>1, Here, InGetShard DEF DInv, InGet
<1>3. y.kind \notin {"none", "close", "sync", "checkpoint"} /\ w.pc \in {"lock1", "putLock", "txLock", "batchGet"}
  BY <1>1, <1>2 DEF Gets
<1>4. \A t \in Shards : Needs(w, t) => Needs(y, t) \/ shard'[t].open
  BY <1>1, <1>2, <1>3 DEF Needs, Work, Taking, Getting
<1> QED
  BY <1>1, <1>3, <1>4, SameCall

LEMMA GetFastUses ==
    ASSUME DInv, LockInv', NEW c \in Clients, GetFast(c)
    PROVE  UseInv' /\ CountInv'
<1>1. PICK y, s : y = client[c] /\ s = y.s
  OBVIOUS
<1>2. y \in ClientRec /\ y.pc = "get" /\ UNCHANGED <<mode, db, shard, committer, published, acked>>
  BY <1>1, Here DEF DInv, GetFast
<1>3. y.s \in Shards /\ y.tx = None /\ Gets(y) /\ y.kind \notin {"none", "close", "sync", "checkpoint"}
  BY <1>1, <1>2, Here, InGetShard DEF DInv, InGet, Getting, Gets
<1>4. CASE db.closed
  BY <1>1, <1>2, <1>3, <1>4, OpFailsUses DEF GetFast
<1>5. CASE ~db.closed /\ ~shard[s].open
  <2>1. PICK w : w = [y EXCEPT !.pc = "getWant"]
    OBVIOUS
  <2>2. Call(c, w)
    BY <1>1, <1>5, <2>1 DEF GetFast, To
  <2>3. /\ w \in ClientRec /\ w.pc = "getWant" /\ w.kind = y.kind /\ w.s = y.s /\ w.todo = y.todo
        /\ w.list = y.list /\ w.tx = y.tx
    BY <1>2, <2>1, Names DEF ClientRec
  <2>4. \A t \in Shards : Needs(w, t) => Needs(y, t)
    BY <1>2, <1>3, <2>3 DEF Needs, Work, Taking, Getting
  <2> QED
    BY <1>1, <1>2, <1>3, <1>5, <2>2, <2>3, <2>4, SameCall, Unmoved
<1>6. CASE ~db.closed /\ shard[s].open
  <2>1. ASSUME NEW p \in {"lock1", y.then}, NEW a \in Afters, NEW w, w = [y EXCEPT !.pc = p, !.after = a], Call(c, w)
        PROVE  UseInv' /\ CountInv'
    <3>1. p \in Pcs
      BY <1>3, Names DEF Gets
    <3>2. /\ w \in ClientRec /\ w.pc = p /\ w.kind = y.kind /\ w.s = y.s /\ w.todo = y.todo
          /\ w.list = y.list /\ w.tx = y.tx
      BY <1>2, <2>1, <3>1 DEF ClientRec
    <3> QED
      BY <1>1, <1>2, <1>3, <1>6, <2>1, <3>2, GotShard, Unmoved DEF Getting
  <2>2. CASE Call(c, [y EXCEPT !.pc = "lock1", !.after = "enter"])
    BY <2>1, <2>2, Names
  <2>3. CASE To(c, y.then)
    <3>1. [y EXCEPT !.pc = y.then] = [y EXCEPT !.pc = y.then, !.after = y.after] /\ y.after \in Afters
      BY <1>2 DEF ClientRec
    <3> QED
      BY <1>1, <2>1, <2>3, <3>1 DEF To
  <2> QED
    BY <1>1, <1>6, <2>2, <2>3 DEF GetFast
<1> QED
  BY <1>4, <1>5, <1>6

LEMMA GetSlowUses ==
    ASSUME DInv, LockInv', NEW c \in Clients, GetSlow(c)
    PROVE  UseInv' /\ CountInv'
<1>1. PICK y, s : y = client[c] /\ s = y.s
  OBVIOUS
<1>2. y \in ClientRec /\ y.pc = "getSlow" /\ UNCHANGED <<mode, committer, published, acked>>
  BY <1>1, Here DEF DInv, GetSlow
<1>3. s \in Shards /\ Gets(y) /\ shard[s] \in ShardRec
  BY <1>1, <1>2, Here, InGetShard DEF InGet, Getting, DInv, LockInv, Types
<1>4. db'.closed = db.closed
  BY Here DEF GetSlow, DInv, BaseRec
<1>5. CASE db.closed
  <2>1. OpFails(c) /\ UNCHANGED shard /\ y.kind \notin {"none", "close", "sync"}
    BY <1>3, <1>5 DEF GetSlow, Gets
  <2> QED
    BY <1>1, <1>2, <1>4, <2>1, OpFailsUses
<1>6. CASE ~db.closed
  <2>1. PICK z : z = [shard[s] EXCEPT !.open = TRUE]
    OBVIOUS
  <2>2. SetShard(s, z) /\ SameCounts(shard[s], z) /\ z.open
    BY <1>1, <1>3, <1>6, <2>1 DEF GetSlow, SameCounts, ShardRec
  <2>3. (\A t \in Shards : SameCounts(shard[t], shard'[t])) /\ shard'[s].open
    BY <1>3, <2>2, OneSame, OneMoved DEF DInv
  <2>4. ASSUME NEW p \in {"lock1", y.then}, NEW a \in Afters, NEW w, w = [y EXCEPT !.pc = p, !.after = a], Call(c, w)
        PROVE  UseInv' /\ CountInv'
    <3>1. p \in Pcs
      BY <1>3, Names DEF Gets
    <3>2. /\ w \in ClientRec /\ w.pc = p /\ w.kind = y.kind /\ w.s = y.s /\ w.todo = y.todo
          /\ w.list = y.list /\ w.tx = y.tx
      BY <1>2, <2>4, <3>1 DEF ClientRec
    <3> QED
      BY <1>1, <1>2, <1>4, <1>6, <2>3, <2>4, <3>2, GotShard DEF Getting
  <2>5. CASE Call(c, [y EXCEPT !.pc = "lock1", !.after = "enter"])
    BY <2>4, <2>5, Names
  <2>6. CASE To(c, y.then)
    <3>1. [y EXCEPT !.pc = y.then] = [y EXCEPT !.pc = y.then, !.after = y.after] /\ y.after \in Afters
      BY <1>2 DEF ClientRec
    <3> QED
      BY <1>1, <2>4, <2>6, <3>1 DEF To
  <2> QED
    BY <1>1, <1>6, <2>5, <2>6 DEF GetSlow
<1> QED
  BY <1>5, <1>6

\* lockWriter and enterGroup: the lock of a shard moves, and no count.
LEMMA LockMove ==
    ASSUME DInv, LockInv', NEW c \in Clients, NEW w \in ClientRec, NEW z, Call(c, w),
           SetShard(client[c].s, z), SameCounts(shard[client[c].s], z),
           UNCHANGED <<mode, committer, published, acked>>, db'.closed = db.closed, client[c].pc \in Taking \cup Work,
           w.pc \in {"lock2", "lotLock", client[c].then} \cup Work, w.pc = "lotLock" => client[c].pc = "lotGroup",
           w.pc = client[c].then => client[c].pc = "enter",
           w.kind = client[c].kind, w.s = client[c].s, w.todo = client[c].todo, w.list = client[c].list,
           w.tx = client[c].tx
    PROVE  UseInv' /\ CountInv'
<1>1. PICK y : y = client[c]
  OBVIOUS
<1>2. y.s \in Shards /\ y.kind \notin {"none", "close", "sync"} /\ y.pc # "batchGet"
  BY <1>1, Here DEF DInv, Control, Position, InGet, InWrite, Locking, Taking, Getting, Work
<1>3. y.pc = "enter" => Gets(y)
  BY <1>1, Here, InGetShard DEF DInv, InGet
<1>4. y.pc = "lotGroup" => y.kind = "lot"
  BY <1>1, Here DEF DInv, Control, Position, InGet, InWrite, Locking, Taking, Getting, Work
<1>5. \A t \in Shards : Needs(w, t) => Needs(y, t)
  <2>1. CASE w.pc = y.then
    BY <1>1, <1>2, <1>3, <2>1 DEF Needs, Work, Taking, Getting, Gets
  <2>2. CASE w.pc # y.then
    BY <1>1, <1>2, <1>4, <2>2 DEF Needs, Work, Taking, Getting
  <2> QED
    BY <2>1, <2>2
<1>6. ~db.closed
  BY BaseOpen DEF Taking, Work, Getting
<1>7. \A t \in Shards : SameCounts(shard[t], shard'[t])
  BY <1>1, <1>2, OneSame DEF DInv
<1> QED
  BY <1>1, <1>2, <1>5, <1>6, <1>7, SameCall

LEMMA Lock1Uses ==
    ASSUME DInv, LockInv', NEW c \in Clients, Lock1(c)
    PROVE  UseInv' /\ CountInv'
<1>1. PICK y, s, x : y = client[c] /\ s = y.s /\ x = shard[s]
  OBVIOUS
<1>2. y \in ClientRec /\ y.pc = "lock1" /\ UNCHANGED <<mode, db, committer, published, acked>>
  BY <1>1, Here DEF DInv, Lock1
<1>3. s \in Shards /\ y.after \in Work /\ x \in ShardRec
  BY <1>1, <1>2, Here DEF DInv, LockInv, Types, Control, Position, InGet, InWrite, Locking, Taking, Getting, Work
<1>4. ASSUME NEW p \in Work \cup {"lock2"}, NEW z, To(c, p), SetShard(s, z), SameCounts(x, z)
      PROVE  UseInv' /\ CountInv'
  <2>1. PICK w : w = [y EXCEPT !.pc = p]
    OBVIOUS
  <2>2. Call(c, w) /\ p \in Pcs /\ p \notin {"lotLock", "putLock", "txLock", "batchGet", "failed", "none"} /\ y.then \in Thens
    BY <1>1, <1>2, <1>4, <2>1, Names DEF To, Work, ClientRec
  <2>3. /\ w \in ClientRec /\ w.pc = p /\ w.kind = y.kind /\ w.s = y.s /\ w.todo = y.todo
        /\ w.list = y.list /\ w.tx = y.tx
    BY <1>2, <2>1, <2>2 DEF ClientRec
  <2> QED
    BY <1>1, <1>2, <1>4, <2>2, <2>3, LockMove DEF Taking, Thens
<1>5. CASE x.owner = c
  <2>1. PICK n \in Nat : n = x.depth + 1
    BY <1>3 DEF ShardRec
  <2>4. PICK z : z = [x EXCEPT !.depth = n]
    OBVIOUS
  <2>2. SetShard(s, z) /\ To(c, y.after)
    BY <1>1, <1>5, <2>1, <2>4 DEF Lock1
  <2>3. SameCounts(x, z)
    BY <1>3, <2>4 DEF SameCounts, ShardRec
  <2> QED
    BY <1>3, <1>4, <2>2, <2>3
<1>6. CASE x.owner # c
  <2>1. PICK z : z = [x EXCEPT !.wmu = c]
    OBVIOUS
  <2>2. SetShard(s, z) /\ To(c, "lock2")
    BY <1>1, <1>6, <2>1 DEF Lock1
  <2>3. SameCounts(x, z)
    BY <1>3, <2>1 DEF SameCounts, ShardRec
  <2> QED
    BY <1>4, <2>2, <2>3
<1> QED
  BY <1>5, <1>6

LEMMA Lock2Uses ==
    ASSUME DInv, LockInv', NEW c \in Clients, Lock2(c)
    PROVE  UseInv' /\ CountInv'
<1>1. PICK y, s, x, p : y = client[c] /\ s = y.s /\ x = shard[s] /\ p = y.after
  OBVIOUS
<1>0. PICK z, w : z = [x EXCEPT !.wal = c, !.owner = c, !.depth = 1] /\ w = [y EXCEPT !.pc = p]
  OBVIOUS
<1>2. /\ y \in ClientRec /\ y.pc = "lock2" /\ UNCHANGED <<mode, db, committer, published, acked>>
      /\ SetShard(s, z) /\ Call(c, w)
  BY <1>0, <1>1, Here DEF DInv, Lock2, To
<1>3. s \in Shards /\ p \in Work /\ x \in ShardRec
  BY <1>1, <1>2, Here DEF DInv, LockInv, Types, Control, Position, InGet, InWrite, Locking, Taking, Getting, Work
<1>4. p \in Pcs /\ p \notin {"lotLock", "putLock", "txLock", "batchGet", "failed", "none"} /\ y.then \in Thens
  BY <1>2, <1>3, Names DEF Work, ClientRec
<1>5. /\ w \in ClientRec /\ w.pc = p /\ w.kind = y.kind /\ w.s = y.s /\ w.todo = y.todo
      /\ w.list = y.list /\ w.tx = y.tx
  BY <1>0, <1>2, <1>4 DEF ClientRec
<1>6. SameCounts(x, z)
  BY <1>0, <1>3 DEF SameCounts, ShardRec
<1> QED
  BY <1>1, <1>2, <1>3, <1>4, <1>5, <1>6, LockMove DEF Taking, Thens

LEMMA EnterUses ==
    ASSUME DInv, LockInv', NEW c \in Clients, Enter(c)
    PROVE  UseInv' /\ CountInv'
<1>1. PICK y, s, x, p : y = client[c] /\ s = y.s /\ x = shard[s] /\ p = y.then
  OBVIOUS
<1>2. y \in ClientRec /\ y.pc = "enter" /\ UNCHANGED <<mode, committer, published, acked>> /\ db'.closed = db.closed
  BY <1>1, Here DEF DInv, Enter, BaseRec
<1>3. s \in Shards /\ x \in ShardRec /\ Gets(y)
  BY <1>1, <1>2, Here, InGetShard DEF DInv, LockInv, Types, InGet
<1>4. PICK n \in Nat : n = x.group + 1
  BY <1>3 DEF ShardRec
<1>5. PICK z, w : z = [x EXCEPT !.group = n] /\ w = [y EXCEPT !.pc = p]
  OBVIOUS
<1>6. SetShard(s, z) /\ Call(c, w) /\ p \in Pcs /\ p # "lotLock"
  BY <1>1, <1>3, <1>4, <1>5, Names DEF Enter, To, Gets
<1>7. /\ w \in ClientRec /\ w.pc = p /\ w.kind = y.kind /\ w.s = y.s /\ w.todo = y.todo
      /\ w.list = y.list /\ w.tx = y.tx
  BY <1>2, <1>5, <1>6 DEF ClientRec
<1>8. SameCounts(x, z)
  BY <1>3, <1>5 DEF SameCounts, ShardRec
<1> QED
  BY <1>1, <1>2, <1>6, <1>7, <1>8, LockMove DEF Work

LEMMA LotGroupUses ==
    ASSUME DInv, LockInv', NEW c \in Clients, LotGroup(c)
    PROVE  UseInv' /\ CountInv'
<1>1. PICK y, s, x : y = client[c] /\ s = y.s /\ x = shard[s]
  OBVIOUS
<1>2. y \in ClientRec /\ y.pc = "lotGroup" /\ UNCHANGED <<mode, db, committer, published, acked>>
  BY <1>1, Here DEF DInv, LotGroup
<1>3. s \in Shards /\ x \in ShardRec
  BY <1>1, <1>2, Here DEF DInv, LockInv, Types, Control, Work
<1>4. PICK n \in Nat : n = x.group + 1
  BY <1>3 DEF ShardRec
<1>5. PICK z, w : z = [x EXCEPT !.group = n] /\ w = [y EXCEPT !.pc = "lotLock"]
  OBVIOUS
<1>6. SetShard(s, z) /\ Call(c, w) /\ "lotLock" # y.then
  BY <1>1, <1>2, <1>4, <1>5, Names DEF LotGroup, To, ClientRec, Thens
<1>7. /\ w \in ClientRec /\ w.pc = "lotLock" /\ w.kind = y.kind /\ w.s = y.s /\ w.todo = y.todo
      /\ w.list = y.list /\ w.tx = y.tx
  BY <1>2, <1>5, Names DEF ClientRec
<1>8. SameCounts(x, z)
  BY <1>3, <1>5 DEF SameCounts, ShardRec
<1> QED
  BY <1>1, <1>2, <1>6, <1>7, <1>8, LockMove DEF Work

-----------------------------------------------------------------------------
(* Calls that begin.                                                       *)

LEMMA StartPutUses ==
    ASSUME DInv, LockInv', Disciplined, NEW c \in Clients, NEW s \in Shards, StartPut(c, s)
    PROVE  UseInv' /\ CountInv'
<1>1. PICK b, w : b = Between(c) /\ w = [b EXCEPT !.kind = "put", !.pc = "get", !.s = s, !.then = "putLock"]
  OBVIOUS
<1>2. client[c].tx = None /\ Call(c, w) /\ MayCall(c, "put")
  BY <1>1 DEF StartPut, MayCall, Disciplined
<1>3. b \in ClientRec /\ b.tx = None /\ b.list = {}
  BY <1>1, <1>2, Fresh DEF DInv
<1>4. /\ w \in ClientRec /\ w.pc = "get" /\ w.kind = "put" /\ w.s = s /\ w.then = "putLock"
      /\ w.list = b.list /\ w.tx = b.tx
  BY <1>1, <1>3, Names DEF ClientRec
<1>5. db.closed => Refused(w)
  BY <1>2, <1>3, <1>4 DEF Refused, Getting
<1>6. \A t \in Shards : Needs(w, t) => shard[t].open
  BY <1>3, <1>4, DatabaseAssumption DEF Needs, Work, Taking, Getting
<1>7. \A t \in Shards : Waited(w, t, shard[t], acked)
  BY <1>4 DEF Waited
<1>8. db'.closed = db.closed /\ UNCHANGED <<mode, shard, committer, published, acked>>
  BY DEF StartPut
<1> QED
  BY <1>2, <1>3, <1>4, <1>5, <1>6, <1>7, <1>8, StartCall

LEMMA StartPutWindowUses ==
    ASSUME DInv, LockInv', Disciplined, NEW c \in Clients, NEW s \in Shards, StartPutWindow(c, s)
    PROVE  UseInv' /\ CountInv'
<1>1. PICK b, w : b = Between(c) /\ w = [b EXCEPT !.kind = "putWindow", !.pc = "ensureWant", !.s = s, !.then = "putLock"]
  OBVIOUS
<1>2. client[c].tx = None /\ Call(c, w) /\ MayCall(c, "putWindow")
  BY <1>1 DEF StartPutWindow, MayCall, Disciplined
<1>3. b \in ClientRec /\ b.tx = None /\ b.list = {}
  BY <1>1, <1>2, Fresh DEF DInv
<1>4. /\ w \in ClientRec /\ w.pc = "ensureWant" /\ w.kind = "putWindow" /\ w.s = s /\ w.then = "putLock"
      /\ w.list = b.list /\ w.tx = b.tx
  BY <1>1, <1>3, Names DEF ClientRec
<1>5. db.closed => Refused(w)
  BY <1>2, <1>3, <1>4 DEF Refused, Getting
<1>6. \A t \in Shards : Needs(w, t) => shard[t].open
  BY <1>3, <1>4, DatabaseAssumption DEF Needs, Work, Taking, Getting
<1>7. \A t \in Shards : Waited(w, t, shard[t], acked)
  BY <1>4 DEF Waited
<1>8. db'.closed = db.closed /\ UNCHANGED <<mode, shard, committer, published, acked>>
  BY Here DEF StartPutWindow, DInv, BaseRec
<1> QED
  BY <1>2, <1>3, <1>4, <1>5, <1>6, <1>7, <1>8, StartCall

LEMMA StartTxUses ==
    ASSUME DInv, LockInv', Disciplined, NEW c \in Clients, NEW s \in Shards, StartTx(c, s)
    PROVE  UseInv' /\ CountInv'
<1>1. PICK b, w : b = Idle /\ w = [b EXCEPT !.kind = "tx", !.pc = "get", !.s = s, !.then = "txLock"]
  OBVIOUS
<1>2. client[c].tx = None /\ Call(c, w) /\ MayCall(c, "tx")
  BY <1>1 DEF StartTx, MayCall, Disciplined
<1>3. b \in ClientRec /\ b.tx = None /\ b.list = {}
  BY <1>1, <1>2, Fresh DEF DInv
<1>4. /\ w \in ClientRec /\ w.pc = "get" /\ w.kind = "tx" /\ w.s = s /\ w.then = "txLock"
      /\ w.list = b.list /\ w.tx = b.tx
  BY <1>1, <1>3, Names DEF ClientRec
<1>5. db.closed => Refused(w)
  BY <1>2, <1>3, <1>4 DEF Refused, Getting
<1>6. \A t \in Shards : Needs(w, t) => shard[t].open
  BY <1>3, <1>4, DatabaseAssumption DEF Needs, Work, Taking, Getting
<1>7. \A t \in Shards : Waited(w, t, shard[t], acked)
  BY <1>4 DEF Waited
<1>8. db'.closed = db.closed /\ UNCHANGED <<mode, shard, committer, published, acked>>
  BY DEF StartTx
<1> QED
  BY <1>2, <1>3, <1>4, <1>5, <1>6, <1>7, <1>8, StartCall

LEMMA StartBatchUses ==
    ASSUME DInv, LockInv', Disciplined, NEW c \in Clients, NEW ss \in SUBSET Shards, StartBatch(c, ss)
    PROVE  UseInv' /\ CountInv'
<1>1. PICK b, w : b = Between(c) /\ w = [b EXCEPT !.kind = "batch", !.pc = "batchGet", !.todo = ss, !.list = ss]
  OBVIOUS
<1>2. client[c].tx = None /\ Call(c, w) /\ MayCall(c, "batch")
  BY <1>1 DEF StartBatch, MayCall, Disciplined
<1>3. b \in ClientRec /\ b.tx = None /\ b.list = {}
  BY <1>1, <1>2, Fresh DEF DInv
<1>4. /\ w \in ClientRec /\ w.pc = "batchGet" /\ w.kind = "batch" /\ w.todo = ss /\ w.list = ss
      /\ w.tx = b.tx
  BY <1>1, <1>3, Names DEF ClientRec
<1>9. ss # {}
  BY FS_EmptySet DEF StartBatch
<1>5. db.closed => Refused(w)
  BY <1>2, <1>3, <1>4, <1>9 DEF Refused, Getting
<1>6. \A t \in Shards : Needs(w, t) => shard[t].open
  BY <1>3, <1>4, DatabaseAssumption DEF Needs, Work, Taking, Getting
<1>7. \A t \in Shards : Waited(w, t, shard[t], acked)
  BY <1>4 DEF Waited
<1>8. db'.closed = db.closed /\ UNCHANGED <<mode, shard, committer, published, acked>>
  BY DEF StartBatch
<1> QED
  BY <1>2, <1>3, <1>4, <1>5, <1>6, <1>7, <1>8, StartCall

LEMMA StartLotUses ==
    ASSUME DInv, LockInv', Disciplined, NEW c \in Clients, StartLot(c)
    PROVE  UseInv' /\ CountInv'
<1>1. PICK b, w : b = Idle /\ w = [b EXCEPT !.kind = "lot", !.pc = "lotWant"]
  OBVIOUS
<1>2. client[c].tx = None /\ Call(c, w) /\ MayCall(c, "lot")
  BY <1>1 DEF StartLot, MayCall, Disciplined
<1>3. b \in ClientRec /\ b.tx = None /\ b.list = {}
  BY <1>1, <1>2, Fresh DEF DInv
<1>4. /\ w \in ClientRec /\ w.pc = "lotWant" /\ w.kind = "lot"
      /\ w.list = b.list /\ w.tx = b.tx
  BY <1>1, <1>3, Names DEF ClientRec
<1>5. db.closed => Refused(w)
  BY <1>2, <1>3, <1>4 DEF Refused, Getting
<1>6. \A t \in Shards : Needs(w, t) => shard[t].open
  BY <1>3, <1>4, DatabaseAssumption DEF Needs, Work, Taking, Getting
<1>7. \A t \in Shards : Waited(w, t, shard[t], acked)
  BY <1>4 DEF Waited
<1>8. db'.closed = db.closed /\ UNCHANGED <<mode, shard, committer, published, acked>>
  BY Here DEF StartLot, DInv, BaseRec
<1> QED
  BY <1>2, <1>3, <1>4, <1>5, <1>6, <1>7, <1>8, StartCall

LEMMA StartCheckpointUses ==
    ASSUME DInv, LockInv', Disciplined, NEW c \in Clients, StartCheckpoint(c)
    PROVE  UseInv' /\ CountInv'
<1>1. PICK b, w : b = Between(c) /\ w = [b EXCEPT !.kind = "checkpoint", !.pc = "ckpt", !.todo = {s \in Shards : shard[s].open}]
  OBVIOUS
<1>2. client[c].tx = None /\ Call(c, w) /\ MayCall(c, "checkpoint") /\ ~db.closed
  BY <1>1 DEF StartCheckpoint, MayCall, Disciplined
<1>3. b \in ClientRec /\ b.tx = None /\ b.list = {}
  BY <1>1, <1>2, Fresh DEF DInv
<1>4. /\ w \in ClientRec /\ w.pc = "ckpt" /\ w.kind = "checkpoint" /\ w.todo = {s \in Shards : shard[s].open}
      /\ w.list = b.list /\ w.tx = b.tx
  BY <1>1, <1>3, Names DEF ClientRec
<1>5. db.closed => Refused(w)
  BY <1>2, <1>3, <1>4 DEF Refused, Getting
<1>6. \A t \in Shards : Needs(w, t) => shard[t].open
  BY <1>3, <1>4, DatabaseAssumption DEF Needs, Work, Taking, Getting
<1>7. \A t \in Shards : Waited(w, t, shard[t], acked)
  BY <1>4 DEF Waited
<1>8. db'.closed = db.closed /\ UNCHANGED <<mode, shard, committer, published, acked>>
  BY Here DEF StartCheckpoint, DInv, BaseRec
<1> QED
  BY <1>2, <1>3, <1>4, <1>5, <1>6, <1>7, <1>8, StartCall

LEMMA StartSyncUses ==
    ASSUME DInv, LockInv', Disciplined, NEW c \in Clients, StartSync(c)
    PROVE  UseInv' /\ CountInv'
<1>0. PICK S, G : S = {s \in Shards : shard[s].open} /\ G = [s \in Shards |-> [n |-> shard[s].ok, seq |-> shard[s].seq]]
  OBVIOUS
<1>1. PICK b, w : b = Between(c) /\ w = [b EXCEPT !.kind = "sync", !.pc = "sync", !.todo = S, !.goal = G]
  OBVIOUS
<1>2. client[c].tx = None /\ Call(c, w) /\ MayCall(c, "sync") /\ ~db.closed
  BY <1>0, <1>1 DEF StartSync, MayCall, Disciplined
<1>3. b \in ClientRec /\ b.tx = None /\ b.list = {}
  BY <1>1, <1>2, Fresh DEF DInv
<1>4. S \in SUBSET Shards /\ G \in Goals /\ \A s \in Shards : G[s].n = shard[s].ok /\ G[s].seq = shard[s].seq
  BY <1>0 DEF Goals, DInv, LockInv, Types, ShardRec
<1>5. /\ w \in ClientRec /\ w.kind = "sync" /\ w.pc = "sync" /\ w.todo = S /\ w.goal = G
      /\ w.list = b.list /\ w.tx = b.tx
  BY <1>1, <1>3, <1>4, Names DEF ClientRec
<1>6. \A t \in Shards : Needs(w, t) => shard[t].open
  BY <1>3, <1>5, DatabaseAssumption DEF Needs, Work, Taking, Getting
<1>7. ASSUME NEW t \in Shards PROVE Waited(w, t, shard[t], acked)
  <2>1. shard[t].ok \in Nat /\ shard[t].seq \in Nat /\ shard[t].durable \in Nat /\ acked \in Nat
    BY DEF DInv, LockInv, Types, ShardRec
  <2>2. t \notin S => shard[t].ok = 0 /\ shard[t].seq = 0
    BY <1>0, <1>2 DEF DInv, UseInv, Opened, Blank
  <2> QED
    BY <1>4, <1>5, <2>1, <2>2 DEF Waited
<1>8. db'.closed = db.closed /\ UNCHANGED <<mode, shard, committer, published, acked>>
  BY DEF StartSync
<1> QED
  BY <1>2, <1>3, <1>5, <1>6, <1>7, <1>8, StartCall

-----------------------------------------------------------------------------
(* Steps that count writes.                                                *)

\* The counts of one shard move, and no client of D has a transaction on it.
LEMMA OneShard ==
    ASSUME DInv, NEW D \in SUBSET Clients, NEW s \in Shards, NEW z, SetShard(s, z), Grows(shard[s], z), Counted(z, published'),
           published' \in Nat, published' >= published, \A d \in D : client[d].tx # s
    PROVE  /\ \A t \in Shards : Grows(shard[t], shard'[t]) /\ Counted(shard'[t], published')
           /\ \A t \in Shards, d \in D : client[d].tx = t => FallsBack(client[d], t, shard'[t])
<1>1. shard'[s] = z /\ \A t \in Shards : t # s => shard'[t] = shard[t]
  BY OneMoved DEF DInv
<1>2. ASSUME NEW t \in Shards PROVE Grows(shard[t], shard'[t]) /\ Counted(shard'[t], published')
  <2>1. CASE t = s
    BY <1>1, <2>1
  <2>2. CASE t # s
    <3>1. shard[t] \in ShardRec /\ Counted(shard[t], published) /\ published \in Nat
      BY DEF DInv, LockInv, Types, CountInv
    <3>2. shard[t].seq \in Nat
      BY <3>1 DEF ShardRec
    <3>3. Counted(shard[t], published')
      BY <3>1, <3>2 DEF Counted
    <3>4. Grows(shard[t], shard[t])
      BY <3>1 DEF Grows, ShardRec
    <3> QED
      BY <1>1, <2>2, <3>3, <3>4
  <2> QED
    BY <2>1, <2>2
<1>3. ASSUME NEW t \in Shards, NEW d \in D, client[d].tx = t PROVE FallsBack(client[d], t, shard'[t])
  <2>1. t # s /\ FallsBack(client[d], t, shard[t])
    BY <1>3 DEF DInv, CountInv
  <2> QED
    BY <1>1, <2>1
<1> QED
  BY <1>2, <1>3

LEMMA SyncAckUses ==
    ASSUME DInv, LockInv', NEW c \in Clients, NEW s \in Shards, SyncAck(c, s)
    PROVE  UseInv' /\ CountInv'
<1>1. PICK y, w : y = client[c] /\ w = [y EXCEPT !.pc = "syncWal", !.s = s]
  OBVIOUS
<1>2. /\ y \in ClientRec /\ y.pc = "sync" /\ Call(c, w) /\ UNCHANGED <<mode, db, shard, committer, published, acked>>
      /\ mode = "replicated" => acked >= shard[s].seq
  BY <1>1, Here DEF DInv, SyncAck
<1>3. w \in ClientRec /\ w.pc = "syncWal" /\ w.s = s /\ w.kind = y.kind /\ w.tx = y.tx /\ w.todo = y.todo /\ w.goal = y.goal
  BY <1>1, <1>2, Names DEF ClientRec
<1>4. y.kind = "sync" /\ y.tx = None
  BY <1>1, <1>2, Here DEF DInv, Control, Position, InGet, InWrite, Locking, Taking, Getting, Work
<1>5. ~db.closed
  BY <1>1, <1>2, BaseOpen DEF Getting
<1>6. \A t \in Shards : ~Needs(w, t)
  BY <1>3, <1>4, DatabaseAssumption DEF Needs, Work, Taking
<1>7. ASSUME NEW t \in Shards PROVE FallsBack(w, t, shard[t]) /\ Waited(w, t, shard[t], acked)
  <2>1. Waited(y, t, shard[t], acked)
    BY <1>1 DEF DInv, CountInv
  <2>2. y.goal \in Goals /\ shard[s].seq \in Nat /\ acked \in Nat
    BY <1>4, <2>1 DEF Waited, DInv, LockInv, Types, ShardRec
  <2>3. y.goal[t].n \in Nat /\ y.goal[t].seq \in Nat
    BY <2>2 DEF Goals
  <2> QED
    BY <1>2, <1>3, <1>4, <2>1, <2>2, <2>3, DatabaseAssumption DEF Waited, FallsBack
<1>8. \A t \in Shards : Grows(shard[t], shard'[t]) /\ Counted(shard'[t], published')
  BY <1>2, SameCountsGrow, Unmoved DEF DInv, LockInv, Types, CountInv
<1>9. \A d \in Clients \ {c} : client[d].kind # "close"
  BY <1>1, <1>4 DEF DInv, UseInv, Closing
<1>10. acked' >= acked /\ \A t \in Shards, d \in Clients \ {c} : client[d].tx = t => FallsBack(client[d], t, shard'[t])
  BY <1>2 DEF DInv, LockInv, Types, CountInv
<1> QED
  BY <1>2, <1>3, <1>4, <1>5, <1>6, <1>7, <1>8, <1>9, <1>10, MoveStep DEF DInv

LEMMA SyncShardUses ==
    ASSUME DInv, LockInv', NEW c \in Clients, SyncShard(c)
    PROVE  UseInv' /\ CountInv'
<1>1. PICK y, s : y = client[c] /\ s = y.s
  OBVIOUS
<1>0. PICK x, z, T, w : x = shard[s] /\ z = Flushed(x) /\ T = y.todo \ {s} /\ w = [y EXCEPT !.pc = "sync", !.todo = T]
  OBVIOUS
<1>2. /\ y \in ClientRec /\ y.pc = "syncWal" /\ Call(c, w) /\ SetShard(s, z) /\ x.wal = None
      /\ UNCHANGED <<mode, db, committer, published, acked>>
  BY <1>0, <1>1, Here DEF DInv, SyncShard
<1>3. y.kind = "sync" /\ y.tx = None /\ s \in Shards
  BY <1>1, <1>2, Here DEF DInv, Control, Position, InGet, InWrite, Locking, Taking, Getting, Work
<1>4. /\ w \in ClientRec /\ w.pc = "sync" /\ w.todo = T /\ w.s = y.s /\ w.kind = y.kind /\ w.tx = y.tx
      /\ w.goal = y.goal
  <2>1. T \in SUBSET Shards
    BY <1>0, <1>2 DEF ClientRec
  <2> QED
    BY <1>0, <1>2, <2>1, Names DEF ClientRec
<1>5. /\ x \in ShardRec /\ z \in ShardRec /\ z.durable = x.logged /\ z.marked = FALSE /\ z.open = x.open /\ z.logged = x.logged
      /\ z.ok = x.ok /\ z.seq = x.seq
  <2>1. x \in ShardRec
    BY <1>0, <1>3 DEF DInv, LockInv, Types
  <2>2. z = Flushed(x)
    BY <1>0
  <2> QED
    BY <2>1, <2>2, IsFlushed
<1>6. /\ x.durable <= x.logged /\ x.ok <= x.logged /\ x.seq <= published
      /\ x.durable \in Nat /\ x.logged \in Nat /\ x.ok \in Nat /\ x.seq \in Nat /\ published \in Nat
  BY <1>0, <1>3, <1>5 DEF DInv, CountInv, Counted, ShardRec, LockInv, Types
<1>7. ~db.closed
  BY <1>1, <1>2, BaseOpen DEF Getting
<1>8. x.open \/ ~x.marked
  BY <1>0, <1>3, <1>7 DEF DInv, UseInv, Opened, Blank
<1>9. Grows(x, z) /\ Counted(z, published)
  BY <1>5, <1>6, <1>8 DEF Grows, Counted, ShardRec
<1>10. \A d \in Clients : client[d].tx # s
  <2>1. x.owner = None
    BY <1>0, <1>2, <1>3, There DEF DInv, OneLock
  <2> QED
    BY <1>0, <1>3, <2>1, NoTx, DatabaseAssumption DEF DInv
<1>11. /\ \A t \in Shards : Grows(shard[t], shard'[t]) /\ Counted(shard'[t], published')
       /\ \A t \in Shards, d \in Clients \ {c} : client[d].tx = t => FallsBack(client[d], t, shard'[t])
  <2>1. published' \in Nat /\ published' >= published
    BY <1>2, <1>6
  <2> QED
    BY <1>0, <1>2, <1>3, <1>9, <1>10, <2>1, OneShard
<1>12. ASSUME NEW t \in Shards PROVE FallsBack(w, t, shard'[t]) /\ Waited(w, t, shard'[t], acked')
  <2>1. Waited(y, t, shard[t], acked) /\ shard[t] \in ShardRec /\ shard'[t] \in ShardRec /\ acked \in Nat
    BY <1>1 DEF DInv, CountInv, LockInv, Types
  <2>2. Waited(y, t, shard'[t], acked')
    <3>1. acked' = acked /\ acked' >= acked
      BY <1>2, <2>1
    <3> QED
      BY <1>11, <2>1, <3>1, Waiting DEF Grows
  <2>3. y.goal \in Goals /\ y.goal[t].n \in Nat /\ y.goal[t].seq \in Nat
    BY <1>3, <2>1 DEF Waited, Goals
  <2>4. t = s => shard'[t] = z
    BY <1>2, <1>3, OneMoved DEF DInv
  <2>5. CASE t = s
    <3>1. y.goal[t].n <= z.durable
      BY <1>3, <1>5, <1>6, <2>2, <2>3, <2>4, <2>5 DEF Waited
    <3> QED
      BY <1>1, <1>2, <1>3, <1>4, <2>2, <2>3, <2>4, <2>5, <3>1, DatabaseAssumption DEF Waited, FallsBack
  <2>6. CASE t # s
    <3>1. t \in T <=> t \in y.todo
      BY <1>0, <2>6
    <3> QED
      BY <1>2, <1>3, <1>4, <2>2, <2>6, <3>1, DatabaseAssumption DEF Waited, FallsBack
  <2> QED
    BY <2>5, <2>6
<1>13. \A t \in Shards : ~Needs(w, t)
  BY <1>3, <1>4, DatabaseAssumption DEF Needs, Work, Taking
<1>14. \A d \in Clients \ {c} : client[d].kind # "close"
  BY <1>1, <1>3 DEF DInv, UseInv, Closing
<1>15. acked' >= acked
  BY <1>2 DEF DInv, LockInv, Types
<1> QED
  BY <1>2, <1>3, <1>4, <1>7, <1>11, <1>12, <1>13, <1>14, <1>15, MoveStep DEF DInv

LEMMA SyncEndUses ==
    ASSUME DInv, LockInv', NEW c \in Clients, SyncEnd(c)
    PROVE  UseInv' /\ CountInv'
<1>1. client[c].kind # "none"
  BY Here DEF DInv, SyncEnd, Control, Position
<1> QED
  BY <1>1, ReturnSame DEF SyncEnd

LEMMA CheckpointEndUses ==
    ASSUME DInv, LockInv', NEW c \in Clients, CheckpointEnd(c)
    PROVE  UseInv' /\ CountInv'
<1>1. client[c].kind # "none"
  BY Here DEF DInv, CheckpointEnd, Control, Position
<1>2. db'.closed = db.closed
  BY Here DEF DInv, CheckpointEnd, BaseRec
<1> QED
  BY <1>1, <1>2, ReturnSame DEF CheckpointEnd

\* What a client that works on a shard may count on.
LEMMA Mine ==
    ASSUME DInv, NEW c \in Clients, NEW y, NEW s, NEW x, y = client[c], x = shard[s], s \in Shards,
           (s = y.s /\ y.pc \in Work) \/ s = y.tx
    PROVE  /\ ~db.closed /\ x.open /\ Needs(y, s) /\ x \in ShardRec
           /\ \A d \in Clients \ {c} : client[d].tx # s
           /\ x.durable <= x.logged /\ x.ok <= x.logged /\ x.seq <= published
           /\ x.durable \in Nat /\ x.logged \in Nat /\ x.ok \in Nat /\ x.seq \in Nat
           /\ published \in Nat /\ published + 1 \in Nat /\ published + 1 >= published
<1>1. ~db.closed
  <2>1. CASE s = y.tx
    BY <2>1, DatabaseAssumption DEF DInv, UseInv, Closed, Refused
  <2>2. CASE y.pc \in Work
    BY <2>2, BaseOpen DEF Work, Getting
  <2> QED
    BY <2>1, <2>2
<1>2. Needs(y, s)
  BY DEF Needs
<1>3. x.open
  BY <1>1, <1>2, OpenNow DEF DInv
<1>4. x.owner = c
  BY DEF DInv, LockInv, Owning, Owns
<1>5. \A d \in Clients \ {c} : client[d].tx # s
  BY <1>4, NoTx DEF DInv
<1>6. x \in ShardRec /\ published \in Nat /\ Counted(x, published)
  BY DEF DInv, LockInv, Types, CountInv
<1>7. x.durable \in Nat /\ x.logged \in Nat /\ x.ok \in Nat /\ x.seq \in Nat
  BY <1>6 DEF ShardRec
<1> QED
  BY <1>1, <1>2, <1>3, <1>5, <1>6, <1>7 DEF Counted

LEMMA CheckpointDoUses ==
    ASSUME DInv, LockInv', NEW c \in Clients, CheckpointDo(c)
    PROVE  UseInv' /\ CountInv'
<1>1. PICK y, s, x : y = client[c] /\ s = y.s /\ x = shard[s]
  OBVIOUS
<1>0. PICK f, z, w : f = Saved(x) /\ z = Unlocked(f) /\ w = [y EXCEPT !.pc = "ckpt"]
  OBVIOUS
<1>2. y.pc = "ckptDo" /\ Call(c, w) /\ SetShard(s, z) /\ UNCHANGED <<mode, db, committer, published, acked>>
  BY <1>0, <1>1 DEF CheckpointDo, To
<1>3. y \in ClientRec /\ s \in Shards /\ x \in ShardRec /\ y.tx = None /\ x.depth = x.group + 1
  BY <1>1, <1>2, Working DEF Work, DInv
<1>4. y.kind = "checkpoint"
  BY <1>1, <1>2, Here DEF DInv, Control, Position, InGet, InWrite, Locking, Taking, Getting
<1>5. w \in ClientRec /\ w.pc = "ckpt" /\ w.s = y.s /\ w.kind = y.kind /\ w.tx = y.tx /\ w.todo = y.todo
  BY <1>0, <1>3, Names DEF ClientRec
<1>6. /\ ~db.closed /\ x.open /\ (\A d \in Clients \ {c} : client[d].tx # s)
      /\ x.durable <= x.logged /\ x.ok <= x.logged /\ x.seq <= published
      /\ x.durable \in Nat /\ x.logged \in Nat /\ x.ok \in Nat /\ x.seq \in Nat /\ published \in Nat
  BY <1>1, <1>2, <1>3, Mine DEF Work
<1>7. z.durable = x.logged /\ z.logged = x.logged /\ z.ok = x.ok /\ z.seq = x.seq /\ z.open = x.open
  <2>1. /\ f \in ShardRec /\ f.durable = x.logged /\ f.logged = x.logged /\ f.ok = x.ok /\ f.seq = x.seq /\ f.open = x.open
        /\ f.depth = x.depth
    BY <1>0, <1>3, IsSaved
  <2>2. f.depth >= 1
    BY <1>3, <2>1 DEF ShardRec
  <2> QED
    BY <1>0, <2>1, <2>2, IsUnlocked
<1>8. Grows(x, z) /\ Counted(z, published)
  BY <1>6, <1>7 DEF Grows, Counted
<1>9. /\ \A t \in Shards : Grows(shard[t], shard'[t]) /\ Counted(shard'[t], published')
      /\ \A t \in Shards, d \in Clients \ {c} : client[d].tx = t => FallsBack(client[d], t, shard'[t])
  <2>1. published' = published /\ published' \in Nat /\ published' >= published
    BY <1>2, <1>6
  <2> QED
    <3>1. Grows(shard[s], z) /\ Counted(z, published') /\ SetShard(s, z) /\ \A d \in Clients \ {c} : client[d].tx # s
      BY <1>1, <1>2, <1>6, <1>8, <2>1
    <3> QED
      BY <1>3, <2>1, <3>1, OneShard
<1>10. \A t \in Shards : Needs(w, t) => Needs(y, t)
  BY <1>3, <1>4, <1>5 DEF Needs, Work, Taking
<1> QED
  BY <1>1, <1>2, <1>4, <1>5, <1>6, <1>9, <1>10, GoOn

LEMMA WriteUses ==
    ASSUME DInv, LockInv', NEW c \in Clients, Write(c)
    PROVE  UseInv' /\ CountInv'
<1>1. PICK y, s, x : y = client[c] /\ s = y.s /\ x = shard[s]
  OBVIOUS
<1>0. PICK l, u, z : /\ l = Logs(x, y.kind) /\ u = Unlocked(l)
                     /\ z = IF y.kind = "lot" THEN u ELSE [u EXCEPT !.ok = u.logged]
  OBVIOUS
<1>2. /\ y.pc = "write" /\ SetShard(s, z) /\ UNCHANGED <<mode, db, committer, acked>> /\ published' = published + 1
      /\ IF y.kind = "lot" THEN To(c, "lotRun") ELSE Return(c)
  BY <1>0, <1>1 DEF Write
<1>3. y \in ClientRec /\ s \in Shards /\ x \in ShardRec /\ y.tx = None /\ x.depth = x.group + 1
  BY <1>1, <1>2, Working DEF Work, DInv
<1>4. y.kind \in {"put", "putWindow", "lot"}
  BY <1>1, <1>2, Here DEF DInv, Control, Position, InGet, InWrite, Locking, Taking, Getting
<1>6. /\ ~db.closed /\ x.open /\ (\A d \in Clients \ {c} : client[d].tx # s)
      /\ x.durable <= x.logged /\ x.ok <= x.logged /\ x.seq <= published
      /\ x.durable \in Nat /\ x.logged \in Nat /\ x.ok \in Nat /\ x.seq \in Nat
      /\ published \in Nat /\ published + 1 \in Nat /\ published + 1 >= published
  BY <1>1, <1>2, <1>3, Mine DEF Work
<1>7. /\ u \in ShardRec /\ u.durable = x.durable /\ u.logged = x.logged + 1 /\ u.ok = x.ok /\ u.seq = published + 1
      /\ u.open = x.open
  <2>1. /\ l \in ShardRec /\ l.durable = x.durable /\ l.logged = x.logged + 1 /\ l.ok = x.ok /\ l.seq = published + 1
        /\ l.open = x.open /\ l.depth = x.depth
    <3>1. l = Logs(x, y.kind) /\ x \in ShardRec
      BY <1>0, <1>3
    <3>2. published \in Nat
      BY <1>6
    <3> QED
      BY <3>1, <3>2, IsLogged
  <2>2. l.depth >= 1
    BY <1>3, <2>1 DEF ShardRec
  <2> QED
    BY <1>0, <2>1, <2>2, IsUnlocked
<1>8. /\ z.durable = u.durable /\ z.logged = u.logged /\ z.ok \in {u.ok, u.logged} /\ z.seq = u.seq
      /\ z.open = u.open
  <2>1. PICK n, v : n = u.logged /\ v = [u EXCEPT !.ok = n]
    OBVIOUS
  <2>2. v.durable = u.durable /\ v.logged = u.logged /\ v.ok = n /\ v.seq = u.seq /\ v.open = u.open
    BY <1>7, <2>1 DEF ShardRec
  <2> QED
    BY <1>0, <2>1, <2>2
<1>9. Grows(x, z) /\ Counted(z, published')
  BY <1>2, <1>6, <1>7, <1>8 DEF Grows, Counted
<1>10. /\ \A t \in Shards : Grows(shard[t], shard'[t]) /\ Counted(shard'[t], published')
       /\ \A t \in Shards, d \in Clients \ {c} : client[d].tx = t => FallsBack(client[d], t, shard'[t])
  <2>1. published' \in Nat /\ published' >= published
    BY <1>2, <1>6
  <2> QED
    BY <1>1, <1>2, <1>3, <1>6, <1>9, <2>1, OneShard
<1>11. CASE y.kind # "lot"
  BY <1>1, <1>2, <1>4, <1>10, <1>11, ReturnCall
<1>12. CASE y.kind = "lot"
  <2>1. PICK w : w = [y EXCEPT !.pc = "lotRun"]
    OBVIOUS
  <2>2. Call(c, w) /\ w \in ClientRec /\ w.pc = "lotRun" /\ w.s = y.s /\ w.kind = y.kind /\ w.tx = y.tx /\ w.list = y.list
    BY <1>1, <1>2, <1>3, <1>12, <2>1, Names DEF To, ClientRec
  <2>3. \A t \in Shards : Needs(w, t) => Needs(y, t)
    BY <1>3, <1>12, <2>2 DEF Needs, Work, Taking
  <2> QED
    BY <1>1, <1>2, <1>6, <1>10, <1>12, <2>2, <2>3, GoOn
<1> QED
  BY <1>11, <1>12

LEMMA BeginUses ==
    ASSUME DInv, LockInv', NEW c \in Clients, Begin(c)
    PROVE  UseInv' /\ CountInv'
<1>1. PICK y, s, x : y = client[c] /\ s = y.s /\ x = shard[s]
  OBVIOUS
<1>2. y.pc = "begin" /\ UNCHANGED <<mode, db, committer, published, acked>>
  BY <1>1 DEF Begin
<1>3. y \in ClientRec /\ s \in Shards /\ x \in ShardRec /\ y.tx = None /\ x.depth = x.group + 1
  BY <1>1, <1>2, Working DEF Work, DInv
<1>4. y.kind = "tx"
  BY <1>1, <1>2, Here DEF DInv, Control, Position, InGet, InWrite, Locking, Taking, Getting
<1>5. /\ ~db.closed /\ x.open /\ Needs(y, s) /\ (\A d \in Clients \ {c} : client[d].tx # s)
      /\ x.durable <= x.logged /\ x.ok <= x.logged /\ x.seq <= published
      /\ x.durable \in Nat /\ x.logged \in Nat /\ x.ok \in Nat /\ x.seq \in Nat /\ published \in Nat
  BY <1>1, <1>2, <1>3, Mine DEF Work
<1>6. ASSUME NEW z, SetShard(s, z), SameCounts(x, z)
      PROVE  /\ \A t \in Shards : Grows(shard[t], shard'[t]) /\ Counted(shard'[t], published')
             /\ \A t \in Shards, d \in Clients \ {c} : client[d].tx = t => FallsBack(client[d], t, shard'[t])
  <2>1. published' = published /\ published' >= published
    BY <1>2, <1>5
  <2>2. Grows(x, z) /\ Counted(z, published)
    BY <1>5, <1>6 DEF Grows, Counted, SameCounts
  <2> QED
    BY <1>1, <1>3, <1>5, <1>6, <2>1, <2>2, OneShard
<1>7. CASE x.group > 0
  <2>1. PICK z : z = Unlocked(x)
    OBVIOUS
  <2>2. SetShard(s, z) /\ Return(c)
    BY <1>1, <1>7, <2>1 DEF Begin
  <2>3. SameCounts(x, z)
    <3>1. x.depth >= 1
      BY <1>3 DEF ShardRec
    <3> QED
      BY <1>3, <2>1, <3>1, IsUnlocked DEF SameCounts
  <2> QED
    BY <1>1, <1>2, <1>4, <1>6, <2>2, <2>3, ReturnCall
<1>8. CASE ~(x.group > 0)
  <2>0. PICK n \in Nat : n = 1
    OBVIOUS
  <2>1. PICK i, m : n = 1 /\ i = Idle /\ m = x.logged
    BY <2>0
  <2>2. PICK z, w : z = [x EXCEPT !.group = n] /\ w = [i EXCEPT !.tx = s, !.from = m]
    OBVIOUS
  <2>3. SetShard(s, z) /\ Call(c, w)
    BY <1>1, <1>8, <2>1, <2>2 DEF Begin
  <2>4. SameCounts(x, z) /\ z \in ShardRec
    BY <1>3, <2>2 DEF SameCounts, ShardRec
  <2>5. i \in ClientRec /\ i.pc = "idle" /\ i.kind = "none" /\ i.list = {}
    BY <2>1, Fresh DEF DInv
  <2>6. w \in ClientRec /\ w.pc = i.pc /\ w.kind = i.kind /\ w.list = i.list /\ w.tx = s /\ w.from = m
    BY <1>3, <1>5, <2>1, <2>2, <2>5 DEF ClientRec
  <2>7. \A t \in Shards : Needs(w, t) => Needs(y, t)
    BY <1>5, <2>5, <2>6 DEF Needs, Work, Taking
  <2>8. ASSUME NEW t \in Shards PROVE FallsBack(w, t, shard'[t]) /\ Waited(w, t, shard'[t], acked')
    <3>1. shard'[s] = z
      BY <1>3, <2>3, OneMoved DEF DInv
    <3> QED
      BY <1>5, <2>1, <2>4, <2>5, <2>6, <3>1 DEF FallsBack, Waited, SameCounts
  <2>9. \A d \in Clients \ {c} : client[d].kind # "close"
    BY <1>1, <1>4 DEF DInv, UseInv, Closing
  <2>10. acked' >= acked
    BY <1>2 DEF DInv, LockInv, Types
  <2> QED
    BY <1>1, <1>2, <1>5, <1>6, <2>3, <2>4, <2>5, <2>6, <2>7, <2>8, <2>9, <2>10, MoveStep DEF DInv
<1> QED
  BY <1>7, <1>8

\* The end of a transaction.
LEMMA TxOver ==
    ASSUME DInv, LockInv', NEW c \in Clients, NEW s, s = client[c].tx, s # None, NEW z, SetShard(s, z), Call(c, Idle),
           UNCHANGED <<mode, db, committer, published, acked>>, Grows(shard[s], z), Counted(z, published)
    PROVE  UseInv' /\ CountInv'
<1>1. PICK w : w = Idle
  OBVIOUS
<1>2. w \in ClientRec /\ w.pc = "idle" /\ w.kind = "none" /\ w.list = {} /\ w.tx = None
  BY <1>1, Fresh DEF DInv
<1>3. s \in Shards
  BY InTx DEF DInv
<1>4. \A d \in Clients \ {c} : client[d].tx # s
  BY <1>3, Mine
<1>5. /\ \A t \in Shards : Grows(shard[t], shard'[t]) /\ Counted(shard'[t], published')
      /\ \A t \in Shards, d \in Clients \ {c} : client[d].tx = t => FallsBack(client[d], t, shard'[t])
  <2>1. published' = published /\ published' \in Nat /\ published' >= published
    BY DEF DInv, LockInv, Types
  <2>2. Counted(z, published')
    BY <2>1
  <2> QED
    BY <1>3, <1>4, <2>1, <2>2, OneShard
<1>6. (\A t \in Shards : ~Needs(w, t)) /\ Refused(w)
  BY <1>2, DatabaseAssumption DEF Needs, Work, Taking, Refused
<1>7. \A t \in Shards : FallsBack(w, t, shard'[t]) /\ Waited(w, t, shard'[t], acked')
  BY <1>2, DatabaseAssumption DEF FallsBack, Waited
<1>8. acked' >= acked
  BY DEF DInv, LockInv, Types
<1> QED
  BY <1>1, <1>2, <1>5, <1>6, <1>7, <1>8, MoveStep DEF DInv

LEMMA CommitUses ==
    ASSUME DInv, LockInv', NEW c \in Clients, Commit(c)
    PROVE  UseInv' /\ CountInv'
<1>1. PICK s, x : s = client[c].tx /\ x = shard[s] /\ s # None
  BY DEF Commit
<1>2. PICK f, u, n : f = Left(x) /\ u = Unlocked(f) /\ n = x.logged
  OBVIOUS
<1>0. PICK z : z = [u EXCEPT !.ok = n]
  OBVIOUS
<1>3. SetShard(s, z) /\ Call(c, Idle) /\ UNCHANGED <<mode, db, committer, published, acked>>
  BY <1>0, <1>1, <1>2 DEF Commit
<1>4. s \in Shards /\ x \in ShardRec /\ x.depth = 1 /\ x.group = 1
  BY <1>1, InTx DEF DInv
<1>5. /\ x.open /\ x.durable <= x.logged /\ x.ok <= x.logged /\ x.seq <= published
      /\ x.durable \in Nat /\ x.logged \in Nat /\ x.ok \in Nat /\ x.seq \in Nat
  BY <1>1, <1>4, Mine
<1>6. f \in ShardRec /\ f.depth = x.depth /\ f.durable = x.logged /\ f.logged = x.logged /\ f.seq = x.seq /\ f.open = x.open
  <2>1. x.group >= 1 /\ f = Left(x)
    BY <1>2, <1>4
  <2> QED
    BY <1>4, <2>1, IsLeft
<1>7. u \in ShardRec /\ u.durable = f.durable /\ u.logged = f.logged /\ u.seq = f.seq /\ u.open = f.open
  <2>1. f.depth >= 1 /\ u = Unlocked(f)
    BY <1>2, <1>4, <1>6
  <2> QED
    BY <1>6, <2>1, IsUnlocked
<1>8. z.durable = u.durable /\ z.logged = u.logged /\ z.seq = u.seq /\ z.open = u.open /\ z.ok = n
  BY <1>0, <1>7 DEF ShardRec
<1>9. Grows(x, z) /\ Counted(z, published)
  BY <1>2, <1>5, <1>6, <1>7, <1>8 DEF Grows, Counted
<1> QED
  BY <1>1, <1>3, <1>9, TxOver

LEMMA RollbackUses ==
    ASSUME DInv, LockInv', NEW c \in Clients, Rollback(c)
    PROVE  UseInv' /\ CountInv'
<1>1. PICK s, x : s = client[c].tx /\ x = shard[s] /\ s # None
  BY DEF Rollback
<1>2. PICK u, m, n, b : u = Unlocked(x) /\ m = client[c].from /\ n = 0 /\ b = (u.dropped \/ x.ok > x.durable)
  OBVIOUS
<1>0. PICK z : z = [u EXCEPT !.group = n, !.logged = m, !.dropped = b]
  OBVIOUS
<1>3. SetShard(s, z) /\ Call(c, Idle) /\ UNCHANGED <<mode, db, committer, published, acked>>
  BY <1>0, <1>1, <1>2 DEF Rollback
<1>4. s \in Shards /\ x \in ShardRec /\ x.depth = 1 /\ m \in Nat
  BY <1>1, <1>2, InTx DEF DInv, ClientRec
<1>5. /\ x.open /\ x.seq <= published
      /\ x.durable \in Nat /\ x.logged \in Nat /\ x.ok \in Nat /\ x.seq \in Nat
  BY <1>1, <1>4, Mine
<1>6. u \in ShardRec /\ u.durable = x.durable /\ u.ok = x.ok /\ u.seq = x.seq /\ u.open = x.open
  <2>1. x.depth >= 1 /\ u = Unlocked(x)
    BY <1>2, <1>4
  <2> QED
    BY <1>4, <2>1, IsUnlocked
<1>7. z.durable = u.durable /\ z.logged = m /\ z.seq = u.seq /\ z.open = u.open /\ z.ok = u.ok
  BY <1>0, <1>6 DEF ShardRec
<1>8. x.ok <= m /\ x.durable <= m
  BY <1>1, <1>2, <1>4 DEF DInv, CountInv, FallsBack
<1>9. Grows(x, z) /\ Counted(z, published)
  BY <1>5, <1>6, <1>7, <1>8 DEF Grows, Counted
<1> QED
  BY <1>1, <1>3, <1>9, TxOver

\* An acknowledgement of what is durable.
LEMMA AckedDurable ==
    ASSUME DInv, NEW s \in Shards, shard'[s] \in {shard[s], [shard[s] EXCEPT !.ok = Max({shard[s].ok, shard[s].durable})]},
           shard'[s] = shard[s] \/ ~db.closed, UNCHANGED published
    PROVE  /\ Grows(shard[s], shard'[s]) /\ Counted(shard'[s], published')
           /\ \A d \in Clients : client[d].tx = s => FallsBack(client[d], s, shard'[s])
<1>1. PICK x, z : x = shard[s] /\ z = shard'[s]
  OBVIOUS
<1>2. x \in ShardRec /\ Counted(x, published) /\ \A d \in Clients : FallsBack(client[d], s, x)
  BY <1>1 DEF DInv, LockInv, Types, CountInv
<1>3. x.durable \in Nat /\ x.logged \in Nat /\ x.ok \in Nat /\ x.seq \in Nat
  BY <1>2 DEF ShardRec
<1>4. CASE z = x
  BY <1>1, <1>2, <1>3, <1>4 DEF Grows
<1>5. CASE z # x
  <2>1. /\ z.ok = IF x.ok >= x.durable THEN x.ok ELSE x.durable
        /\ z.open = x.open /\ z.marked = x.marked /\ z.logged = x.logged /\ z.durable = x.durable /\ z.seq = x.seq
    <3>1. z = [x EXCEPT !.ok = Max({x.ok, x.durable})]
      BY <1>1, <1>5
    <3> QED
      BY <1>2, <3>1, Acked
  <2>2. x.open \/ (x.logged = 0 /\ x.ok = 0)
    BY <1>1, <1>5 DEF DInv, UseInv, Opened, Blank
  <2>3. Grows(x, z) /\ Counted(z, published)
    BY <1>2, <1>3, <2>1, <2>2 DEF Grows, Counted
  <2>4. ASSUME NEW d \in Clients, client[d].tx = s PROVE FallsBack(client[d], s, z)
    <3>1. client[d].from \in Nat
      BY Here DEF DInv, ClientRec
    <3> QED
      BY <1>2, <1>3, <2>1, <2>4, <3>1 DEF FallsBack
  <2> QED
    BY <1>1, <2>3, <2>4
<1> QED
  BY <1>4, <1>5

LEMMA LotClearUses ==
    ASSUME DInv, LockInv', NEW c \in Clients, LotClear(c)
    PROVE  UseInv' /\ CountInv'
<1>1. client[c].pc = "lotClear" /\ client[c].kind = "lot"
  BY Here DEF LotClear, DInv, Control, Position, InGet, InWrite, Locking, Taking, Getting, Work
<1>2. db'.closed = db.closed /\ UNCHANGED <<mode, committer, published, acked>> /\ Return(c)
  BY Here DEF LotClear, DInv, BaseRec
<1>3. ASSUME NEW s \in Shards
      PROVE  /\ Grows(shard[s], shard'[s]) /\ Counted(shard'[s], published')
             /\ \A d \in Clients : client[d].tx = s => FallsBack(client[d], s, shard'[s])
  <2>1. /\ shard'[s] \in {shard[s], [shard[s] EXCEPT !.ok = Max({shard[s].ok, shard[s].durable})]}
        /\ s \notin client[c].todo => shard'[s] = shard[s]
    BY DEF LotClear
  <2>2. db.closed => s \notin client[c].todo
    BY <1>1 DEF DInv, UseInv, Closed, Refused
  <2> QED
    BY <1>2, <2>1, <2>2, AckedDurable
<1> QED
  BY <1>1, <1>2, <1>3, ReturnCall

LEMMA BatchEndUses ==
    ASSUME DInv, LockInv', NEW c \in Clients, BatchEnd(c)
    PROVE  UseInv' /\ CountInv'
<1>1. client[c].pc = "batchWait" /\ client[c].kind # "none"
  BY Here DEF BatchEnd, DInv, Control, Position
<1>2. UNCHANGED <<mode, db, committer, published, acked>> /\ Return(c)
  BY DEF BatchEnd
<1>3. ~db.closed
  BY <1>1, BaseOpen DEF Getting
<1>4. ASSUME NEW s \in Shards
      PROVE  /\ Grows(shard[s], shard'[s]) /\ Counted(shard'[s], published')
             /\ \A d \in Clients : client[d].tx = s => FallsBack(client[d], s, shard'[s])
  <2>1. shard'[s] = shard[s]
    BY DEF BatchEnd
  <2> QED
    BY <1>2, <1>3, <2>1, AckedDurable
<1> QED
  BY <1>1, <1>2, <1>4, ReturnCall

LEMMA LotEndUses ==
    ASSUME DInv, LockInv', NEW c \in Clients, LotEnd(c)
    PROVE  UseInv' /\ CountInv'
<1>1. PICK y, S : y = client[c] /\ S = IF y.then = "failed" THEN {} ELSE y.list
  OBVIOUS
<1>0. PICK w : w = [y EXCEPT !.pc = "lotClear", !.todo = S]
  OBVIOUS
<1>2. y \in ClientRec /\ y.pc = "lotRun" /\ Call(c, w) /\ UNCHANGED <<mode, committer, published, acked>>
  BY <1>0, <1>1, Here DEF DInv, LotEnd
<1>3. y.kind = "lot" /\ y.tx = None /\ LotHas(y) = y.list /\ S \in SUBSET Shards /\ S \subseteq y.list
  BY <1>1, <1>2, Here DEF DInv, Control, Position, InGet, InWrite, Locking, Taking, Getting, LotHas, ClientRec
<1>4. w \in ClientRec /\ w.pc = "lotClear" /\ w.todo = S /\ w.kind = y.kind /\ w.s = y.s /\ w.list = y.list /\ w.tx = y.tx
  BY <1>0, <1>2, <1>3, Names DEF ClientRec
<1>5. db'.closed = db.closed
  BY Here DEF LotEnd, DInv, BaseRec
<1>6. \A t \in Shards : Needs(w, t) => Needs(y, t)
  BY <1>3, <1>4 DEF Needs, Work, Taking
<1>7. db.closed => Refused(w)
  BY <1>1, <1>3, <1>4 DEF DInv, UseInv, Closed, Refused
<1>8. ASSUME NEW s \in Shards
      PROVE  /\ Grows(shard[s], shard'[s]) /\ Counted(shard'[s], published')
             /\ \A d \in Clients \ {c} : client[d].tx = s => FallsBack(client[d], s, shard'[s])
  <2>1. PICK x : x = shard[s]
    OBVIOUS
  <2>2. x \in ShardRec /\ Counted(x, published) /\ \A d \in Clients : FallsBack(client[d], s, x)
    BY <2>1 DEF DInv, LockInv, Types, CountInv
  <2>3. x.durable \in Nat /\ x.logged \in Nat /\ x.ok \in Nat /\ x.seq \in Nat /\ x.group \in Nat
    BY <2>2 DEF ShardRec
  <2>4. CASE s \notin y.list
    <3>1. shard'[s] = x
      BY <1>1, <2>1, <2>4 DEF LotEnd
    <3> QED
      BY <1>2, <2>1, <2>2, <2>3, <3>1 DEF Grows
  <2>5. CASE s \in y.list
    <3>1. PICK f, z : f = Left(x) /\ z = Unlocked(f)
      OBVIOUS
    <3>2. shard'[s] = z
      BY <1>1, <2>1, <2>5, <3>1 DEF LotEnd
    <3>3. Owns(c, y, job[c][s], s, x)
      BY <1>1, <2>1, There DEF DInv
    <3>4. x.owner = c /\ x.group >= 1 /\ x.depth >= 1
      BY <1>3, <2>5, <3>3 DEF Owns
    <3>5. /\ f \in ShardRec /\ f.depth = x.depth /\ f.durable \in {x.logged, x.durable} /\ f.logged = x.logged
          /\ f.ok = x.ok /\ f.seq = x.seq /\ f.open = x.open
      BY <2>2, <3>1, <3>4, IsLeft
    <3>6. z.durable = f.durable /\ z.logged = f.logged /\ z.ok = f.ok /\ z.seq = f.seq /\ z.open = f.open
      <4>1. f.depth >= 1 /\ z = Unlocked(f)
        BY <3>1, <3>4, <3>5
      <4> QED
        BY <3>5, <4>1, IsUnlocked
    <3>7. \A d \in Clients \ {c} : client[d].tx # s
      BY <2>1, <3>4, NoTx DEF DInv
    <3>8. x.open
      <4>1. ~db.closed
        BY <1>1, <1>3, <2>5 DEF DInv, UseInv, Closed, Refused
      <4> QED
        BY <1>1, <1>3, <2>1, <2>5, <4>1, OpenNow DEF DInv, Needs
    <3>9. Grows(x, z) /\ Counted(z, published)
      BY <2>2, <2>3, <3>5, <3>6, <3>8 DEF Grows, Counted
    <3> QED
      BY <1>2, <2>1, <3>2, <3>7, <3>9
  <2> QED
    BY <2>4, <2>5
<1> QED
  BY <1>1, <1>2, <1>3, <1>4, <1>5, <1>6, <1>7, <1>8, GoOn

-----------------------------------------------------------------------------
(* Steps of the jobs, of the committer and of the quorum.                  *)

\* No client moves.
LEMMA StayStep ==
    ASSUME DInv, LockInv', UNCHANGED <<mode, client, db>>, acked' >= acked,
           committer' = committer \/ {committer, committer'} \subseteq Shards \cup {"idle"},
           \A s \in Shards : Grows(shard[s], shard'[s]) /\ Counted(shard'[s], published'),
           \A s \in Shards, d \in Clients : client[d].tx = s => FallsBack(client[d], s, shard'[s]),
           ~db.closed => \A s \in Shards : committer' = s => shard'[s].open
    PROVE  UseInv' /\ CountInv'
<1>1. "stopped" \notin Shards \cup {"idle"}
  BY DatabaseAssumption
<1>2. Opened'
  <2> SUFFICES ASSUME ~db.closed
               PROVE  /\ \A d \in Clients, s \in Shards : Needs(client[d], s) => shard'[s].open
                      /\ \A s \in Shards : shard'[s].open \/ (Blank(shard'[s]) /\ committer' # s)
    BY DEF Opened
  <2>1. \A d \in Clients, s \in Shards : Needs(client[d], s) => shard'[s].open
    BY OpenNow DEF DInv, Grows
  <2>2. ASSUME NEW s \in Shards PROVE shard'[s].open \/ (Blank(shard'[s]) /\ committer' # s)
    <3>1. shard[s].open \/ Blank(shard[s])
      BY DEF DInv, UseInv, Opened
    <3> QED
      BY <3>1 DEF Grows, Blank
  <2> QED
    BY <2>1, <2>2
<1>3. Closing' /\ Closed'
  BY <1>1 DEF DInv, UseInv, Closing, Closed
<1>4. ASSUME NEW d \in Clients, NEW s \in Shards
      PROVE  FallsBack(client[d], s, shard'[s]) /\ Waited(client[d], s, shard'[s], acked')
  <2>1. Waited(client[d], s, shard[s], acked)
    BY DEF DInv, CountInv
  <2>2. shard[s] \in ShardRec /\ shard'[s] \in ShardRec /\ acked \in Nat /\ acked' \in Nat
    BY DEF DInv, LockInv, Types
  <2>3. Waited(client[d], s, shard'[s], acked')
    BY <2>1, <2>2, Waiting DEF Grows
  <2> QED
    BY <2>3 DEF FallsBack
<1>5. CountInv'
  BY <1>4 DEF CountInv, Waited
<1> QED
  BY <1>2, <1>3, <1>5 DEF UseInv

LEMMA AckUses ==
    ASSUME DInv, LockInv', Ack
    PROVE  UseInv' /\ CountInv'
<1>1. acked' >= acked /\ UNCHANGED <<mode, client, db, shard, committer, published>>
  BY DEF Ack, DInv, LockInv, Types
<1>2. \A s \in Shards : Grows(shard[s], shard'[s]) /\ Counted(shard'[s], published')
  BY <1>1, SameCountsGrow, Unmoved DEF DInv, LockInv, Types, CountInv
<1>3. \A s \in Shards, d \in Clients : client[d].tx = s => FallsBack(client[d], s, shard'[s])
  BY <1>1 DEF DInv, CountInv
<1>4. ~db.closed => \A s \in Shards : committer' = s => shard'[s].open
  BY <1>1 DEF DInv, UseInv, Opened
<1> QED
  BY <1>1, <1>2, <1>3, <1>4, StayStep

CommitterMoves(s, z) ==
    \/ committer' = committer
    \/ committer \in Shards \cup {"idle"} /\ (committer' = "idle" \/ (committer' = s /\ z.open))

\* A shard moves, and no client.
LEMMA ShardStep ==
    ASSUME DInv, LockInv', UNCHANGED <<mode, client, db, acked>>, NEW s \in Shards, NEW z, SetShard(s, z),
           CommitterMoves(s, z),
           Grows(shard[s], z), Counted(z, published'), published' \in Nat, published' >= published,
           \A d \in Clients : client[d].tx = s => FallsBack(client[d], s, z)
    PROVE  UseInv' /\ CountInv'
<1>1. PICK D \in SUBSET Clients : D = {d \in Clients : client[d].tx # s}
  OBVIOUS
<1>2. /\ \A t \in Shards : Grows(shard[t], shard'[t]) /\ Counted(shard'[t], published')
      /\ \A t \in Shards, d \in D : client[d].tx = t => FallsBack(client[d], t, shard'[t])
  BY <1>1, OneShard
<1>3. shard'[s] = z
  BY OneMoved DEF DInv
<1>4. \A t \in Shards, d \in Clients : client[d].tx = t => FallsBack(client[d], t, shard'[t])
  BY <1>1, <1>2, <1>3
<1>5. ASSUME ~db.closed, NEW t \in Shards, committer' = t PROVE shard'[t].open
  BY <1>2, <1>3, <1>5, DatabaseAssumption DEF DInv, UseInv, Opened, Grows, CommitterMoves
<1>7. committer' = committer \/ {committer, committer'} \subseteq Shards \cup {"idle"}
  BY DEF CommitterMoves
<1>6. acked' >= acked
  BY DEF DInv, LockInv, Types
<1> QED
  BY <1>2, <1>4, <1>5, <1>6, <1>7, StayStep

LEMMA ShardSame ==
    ASSUME DInv, LockInv', UNCHANGED <<mode, client, db, acked, published>>, NEW s \in Shards, NEW z, SetShard(s, z),
           CommitterMoves(s, z),
           SameCounts(shard[s], z)
    PROVE  UseInv' /\ CountInv'
<1>1. shard[s] \in ShardRec /\ Counted(shard[s], published) /\ published' \in Nat /\ published' >= published
  BY DEF DInv, LockInv, Types, CountInv
<1>2. Grows(shard[s], z) /\ Counted(z, published') /\ \A d \in Clients : client[d].tx = s => FallsBack(client[d], s, z)
  BY <1>1, SameCountsGrow DEF DInv, CountInv
<1> QED
  BY <1>1, <1>2, ShardStep

LEMMA TxPutUses ==
    ASSUME DInv, LockInv', NEW c \in Clients, TxPut(c)
    PROVE  UseInv' /\ CountInv'
<1>1. PICK s, x, n : s = client[c].tx /\ x = shard[s] /\ s # None /\ n = x.logged + 1
  BY DEF TxPut
<1>0. PICK z : z = [x EXCEPT !.logged = n]
  OBVIOUS
<1>2. SetShard(s, z) /\ UNCHANGED <<mode, db, client, committer, published, acked>>
  BY <1>0, <1>1 DEF TxPut
<1>3. s \in Shards
  BY <1>1, InTx DEF DInv
<1>4. /\ x.open /\ x \in ShardRec /\ (\A d \in Clients \ {c} : client[d].tx # s)
      /\ x.durable <= x.logged /\ x.ok <= x.logged /\ x.seq <= published
      /\ x.durable \in Nat /\ x.logged \in Nat /\ x.ok \in Nat /\ x.seq \in Nat /\ published \in Nat
  BY <1>1, <1>3, Mine
<1>5. z.logged = n /\ z.durable = x.durable /\ z.ok = x.ok /\ z.seq = x.seq /\ z.open = x.open
  BY <1>0, <1>4 DEF ShardRec
<1>6. Grows(x, z) /\ Counted(z, published)
  BY <1>1, <1>4, <1>5 DEF Grows, Counted
<1>7. ASSUME NEW d \in Clients, client[d].tx = s PROVE FallsBack(client[d], s, z)
  <2>1. FallsBack(client[d], s, x) /\ client[d].from \in Nat
    BY <1>1, <1>3, Here DEF DInv, CountInv, ClientRec
  <2> QED
    BY <1>1, <1>4, <1>5, <2>1 DEF FallsBack
<1>8. published' \in Nat /\ published' >= published /\ Counted(z, published')
  BY <1>2, <1>4, <1>6
<1> QED
  BY <1>1, <1>2, <1>3, <1>6, <1>7, <1>8, ShardStep DEF CommitterMoves

LEMMA JobLockUses ==
    ASSUME DInv, LockInv', NEW c \in Clients, NEW s \in Shards, JobLock(c, s)
    PROVE  UseInv' /\ CountInv'
<1>1. PICK x : x = shard[s]
  OBVIOUS
<1>2. x \in ShardRec /\ UNCHANGED <<mode, db, client, committer, published, acked>>
  BY <1>1 DEF JobLock, DInv, LockInv, Types
<1>3. CASE x.wmu = None
  <2>1. PICK g, z : g = <<c, s>> /\ z = [x EXCEPT !.wmu = g]
    OBVIOUS
  <2>2. SetShard(s, z)
    BY <1>1, <1>3, <2>1 DEF JobLock
  <2>3. SameCounts(x, z)
    BY <1>2, <2>1 DEF SameCounts, ShardRec
  <2> QED
    BY <1>1, <1>2, <2>2, <2>3, ShardSame DEF CommitterMoves
<1>4. CASE x.wmu # None
  <2>1. SetShard(s, x)
    BY <1>1, <1>4 DEF JobLock, SetShard, DInv, LockInv, Types
  <2>2. SameCounts(x, x)
    BY DEF SameCounts
  <2> QED
    BY <1>1, <1>2, <2>1, <2>2, ShardSame DEF CommitterMoves
<1> QED
  BY <1>3, <1>4

LEMMA JobWalUses ==
    ASSUME DInv, LockInv', NEW c \in Clients, NEW s \in Shards, JobWal(c, s)
    PROVE  UseInv' /\ CountInv'
<1>1. PICK x, g, n : x = shard[s] /\ g = <<c, s>> /\ n = 1
  OBVIOUS
<1>2. PICK z : z = [x EXCEPT !.wal = g, !.owner = g, !.depth = n]
  OBVIOUS
<1>3. x \in ShardRec /\ SetShard(s, z) /\ UNCHANGED <<mode, db, client, committer, published, acked>>
  BY <1>1, <1>2 DEF JobWal, DInv, LockInv, Types
<1>4. SameCounts(x, z)
  BY <1>2, <1>3 DEF SameCounts, ShardRec
<1> QED
  BY <1>1, <1>3, <1>4, ShardSame DEF CommitterMoves

LEMMA JobWriteUses ==
    ASSUME DInv, LockInv', NEW c \in Clients, NEW s \in Shards, JobWrite(c, s)
    PROVE  UseInv' /\ CountInv'
<1>1. PICK x : x = shard[s]
  OBVIOUS
<1>2. /\ job[c][s] = "locked" /\ UNCHANGED <<mode, db, client, committer, acked>>
      /\ published' = published + 1
  BY <1>1 DEF JobWrite
<1>3. client[c].pc = "batchWait" /\ s \in client[c].list /\ client[c].kind = "batch"
  BY <1>2, Here DEF DInv, Batching, Control, Position, InGet, InWrite, Locking, Taking, Getting
<1>4. x.open
  <2>1. ~db.closed
    BY <1>3, BaseOpen DEF Getting
  <2> QED
    BY <1>1, <1>3, <2>1, OpenNow DEF DInv, Needs
<1>5. x \in ShardRec /\ x.owner = <<c, s>> /\ x.depth = 1
  BY <1>1, <1>2, There DEF DInv, Owns, OneLock
<1>6. \A d \in Clients : client[d].tx # s
  <2>1. \A d \in Clients : <<c, s>> # d
    BY DatabaseAssumption
  <2> QED
    BY <1>1, <1>5, <2>1, NoTx DEF DInv
<1>7. /\ x.durable <= x.logged /\ x.ok <= x.logged /\ x.seq <= published
      /\ x.durable \in Nat /\ x.logged \in Nat /\ x.ok \in Nat /\ x.seq \in Nat /\ published \in Nat
  BY <1>1, <1>5 DEF DInv, CountInv, Counted, ShardRec, LockInv, Types
<1>8. PICK z \in ShardRec :
          /\ SetShard(s, z) /\ z.open = x.open /\ z.logged = x.logged + 1 /\ z.ok = x.logged + 1
          /\ z.seq = published + 1 /\ z.durable \in {x.durable, x.logged + 1}
  BY <1>1, <1>5, <1>7, JobWrites
<1>9. Grows(x, z) /\ Counted(z, published') /\ published' \in Nat /\ published' >= published
  BY <1>2, <1>4, <1>7, <1>8 DEF Grows, Counted
<1> QED
  BY <1>1, <1>2, <1>6, <1>8, <1>9, ShardStep DEF CommitterMoves

LEMMA CommitterWalUses ==
    ASSUME DInv, LockInv', NEW s \in Shards, CommitterWal(s)
    PROVE  UseInv' /\ CountInv'
<1>1. PICK x, g : x = shard[s] /\ g = Flusher
  OBVIOUS
<1>0. PICK z : z = [x EXCEPT !.wal = g]
  OBVIOUS
<1>2. /\ x \in ShardRec /\ x.marked /\ SetShard(s, z) /\ UNCHANGED <<mode, db, client, published, acked>>
      /\ committer = "idle" /\ committer' = s
  BY <1>0, <1>1 DEF CommitterWal, DInv, LockInv, Types
<1>3. x.open
  <2>1. ~db.closed
    BY <1>2 DEF DInv, UseInv, Closed
  <2> QED
    BY <1>1, <1>2, <2>1 DEF DInv, UseInv, Opened, Blank
<1>4. SameCounts(x, z) /\ z.open
  BY <1>0, <1>2, <1>3 DEF SameCounts, ShardRec
<1> QED
  BY <1>1, <1>2, <1>4, ShardSame DEF CommitterMoves

LEMMA CommitterFlushUses ==
    ASSUME DInv, LockInv', CommitterFlush
    PROVE  UseInv' /\ CountInv'
<1>1. PICK s, x, f : s = committer /\ x = shard[s] /\ f = Flushed(x)
  OBVIOUS
<1>0. PICK z : z = [f EXCEPT !.wal = None]
  OBVIOUS
<1>2. s \in Shards /\ SetShard(s, z) /\ UNCHANGED <<mode, db, client, published, acked>> /\ committer' = "idle"
  BY <1>0, <1>1 DEF CommitterFlush
<1>3. x \in ShardRec /\ x.owner = None
  BY <1>1, <1>2 DEF DInv, LockInv, Types, Flushing
<1>4. x.open
  <2>1. s # "stopped"
    BY <1>2, DatabaseAssumption
  <2> QED
    BY <1>1, <1>2, <2>1 DEF DInv, UseInv, Closed, Opened
<1>5. \A d \in Clients : client[d].tx # s
  BY <1>1, <1>2, <1>3, NoTx, DatabaseAssumption DEF DInv
<1>6. /\ x.durable <= x.logged /\ x.ok <= x.logged /\ x.seq <= published
      /\ x.durable \in Nat /\ x.logged \in Nat /\ x.ok \in Nat /\ x.seq \in Nat /\ published \in Nat
  BY <1>1, <1>2, <1>3 DEF DInv, CountInv, Counted, ShardRec, LockInv, Types
<1>7. f \in ShardRec /\ f.durable = x.logged /\ f.logged = x.logged /\ f.seq = x.seq /\ f.ok = x.ok /\ f.open = x.open
  BY <1>1, <1>3, IsFlushed
<1>8. z.durable = f.durable /\ z.logged = f.logged /\ z.seq = f.seq /\ z.ok = f.ok /\ z.open = f.open
  BY <1>0, <1>7 DEF ShardRec
<1>9. Grows(x, z) /\ Counted(z, published') /\ published' \in Nat /\ published' >= published
  BY <1>2, <1>4, <1>6, <1>7, <1>8 DEF Grows, Counted
<1>10. "idle" \notin Shards
  BY DatabaseAssumption
<1> QED
  BY <1>1, <1>2, <1>5, <1>9, <1>10, ShardStep DEF CommitterMoves

-----------------------------------------------------------------------------
(* The committer starts, and the base closes.                              *)

LEMMA EnsureStartUses ==
    ASSUME DInv, LockInv', NEW c \in Clients, EnsureStart(c)
    PROVE  UseInv' /\ CountInv'
<1>1. PICK y, p, S : /\ y = client[c] /\ p = IF db.closed THEN "get" ELSE "ensure"
                     /\ S = {s \in Shards : shard[s].open}
  OBVIOUS
<1>0. PICK w : w = [y EXCEPT !.pc = p, !.todo = S]
  OBVIOUS
<1>2. y \in ClientRec /\ y.pc = "ensureWant" /\ Call(c, w) /\ UNCHANGED <<mode, shard, published, acked>>
  BY <1>0, <1>1, Here DEF DInv, EnsureStart
<1>3. p \in {"get", "ensure"} /\ p \in Pcs /\ S \in SUBSET Shards
  BY <1>1, Names
<1>4. w \in ClientRec /\ w.pc = p /\ w.kind = y.kind /\ w.tx = y.tx /\ w.list = y.list
  BY <1>0, <1>2, <1>3 DEF ClientRec
<1>5. y.kind = "putWindow" /\ y.tx = None
  BY <1>1, <1>2, Here DEF DInv, Control, Position, InGet, InWrite, Locking, Taking, Getting, Work
<1>6. \A d \in Clients \ {c} : client[d].kind # "close"
  BY <1>1, <1>5 DEF DInv, UseInv, Closing
<1>7. /\ committer' = committer \/ (committer' \notin Shards /\ ~db.closed)
      /\ db'.closed = db.closed
  BY Here, DatabaseAssumption DEF EnsureStart, DInv, BaseRec
<1>8. \A t \in Shards : ~Needs(w, t)
  BY <1>3, <1>4, <1>5, DatabaseAssumption DEF Needs, Work, Taking
<1>9. db.closed => Refused(w)
  BY <1>1, <1>4, <1>5 DEF Refused, Getting
<1>10. \A t \in Shards : Grows(shard[t], shard'[t]) /\ Counted(shard'[t], published')
  BY <1>2, SameCountsGrow, Unmoved DEF DInv, LockInv, Types, CountInv
<1>11. /\ \A t \in Shards, d \in Clients \ {c} : client[d].tx = t => FallsBack(client[d], t, shard'[t])
       /\ \A t \in Shards : FallsBack(w, t, shard'[t]) /\ Waited(w, t, shard'[t], acked')
  BY <1>2, <1>4, <1>5, DatabaseAssumption DEF DInv, CountInv, FallsBack, Waited
<1>12. acked' >= acked /\ w.kind # "close"
  BY <1>2, <1>4, <1>5 DEF DInv, LockInv, Types
<1> QED
  BY <1>2, <1>4, <1>6, <1>7, <1>8, <1>9, <1>10, <1>11, <1>12, MoveAny DEF DInv

LEMMA StartCloseUses ==
    ASSUME DInv, LockInv', Disciplined, NEW c \in Clients, StartClose(c)
    PROVE  UseInv' /\ CountInv'
<1>1. PICK i, w : i = Idle /\ w = [i EXCEPT !.kind = "close", !.pc = "closeWant"]
  OBVIOUS
<1>2. Call(c, w) /\ Quiet /\ UNCHANGED <<mode, shard, committer, published, acked>>
  BY <1>1 DEF StartClose, Disciplined
<1>3. i \in ClientRec /\ i.tx = None
  BY <1>1, Fresh DEF DInv
<1>4. w \in ClientRec /\ w.kind = "close" /\ w.pc = "closeWant" /\ w.tx = i.tx
  BY <1>1, <1>3, Names DEF ClientRec
<1>5. \A d \in Clients \ {c} : client[d].kind \in {"none", "checkpoint"} /\ client[d].tx = None
  BY <1>2 DEF Quiet
<1>6. db'.closed = db.closed /\ committer' = committer
  BY <1>2, Here DEF StartClose, DInv, BaseRec
<1>7. (\A t \in Shards : ~Needs(w, t)) /\ Refused(w)
  BY <1>3, <1>4, DatabaseAssumption DEF Needs, Work, Taking, Refused
<1>8. \A t \in Shards : Grows(shard[t], shard'[t]) /\ Counted(shard'[t], published')
  BY <1>2, SameCountsGrow, Unmoved DEF DInv, LockInv, Types, CountInv
<1>9. /\ \A t \in Shards, d \in Clients \ {c} : client[d].tx = t => FallsBack(client[d], t, shard'[t])
      /\ \A t \in Shards : FallsBack(w, t, shard'[t]) /\ Waited(w, t, shard'[t], acked')
  BY <1>2, <1>3, <1>4, DatabaseAssumption DEF DInv, CountInv, FallsBack, Waited
<1>10. acked' >= acked
  BY <1>2 DEF DInv, LockInv, Types
<1> QED
  BY <1>2, <1>4, <1>5, <1>6, <1>7, <1>8, <1>9, <1>10, MoveAny DEF DInv

LEMMA CloseStopUses ==
    ASSUME DInv, LockInv', NEW c \in Clients, CloseStop(c)
    PROVE  UseInv' /\ CountInv'
<1>1. PICK y, w : y = client[c] /\ w = [y EXCEPT !.pc = "closing"]
  OBVIOUS
<1>2. y \in ClientRec /\ y.pc = "closeWant" /\ UNCHANGED <<mode, shard, published, acked>>
  BY <1>1, Here DEF DInv, CloseStop
<1>3. y.kind = "close" /\ y.tx = None
  BY <1>1, <1>2, Here DEF DInv, Control, Position, InGet, InWrite, Locking, Taking, Getting, Work
<1>4. db'.closed = db.closed
  BY Here DEF CloseStop, DInv, BaseRec
<1>5. CASE db.closed
  BY <1>1, <1>2, <1>3, <1>4, <1>5, ReturnSame DEF CloseStop
<1>6. CASE ~db.closed
  <2>1. Call(c, w) /\ committer' = "stopped" /\ committer' \notin Shards
    BY <1>1, <1>6, DatabaseAssumption DEF CloseStop, To
  <2>2. w \in ClientRec /\ w.pc = "closing" /\ w.kind = y.kind /\ w.tx = y.tx
    BY <1>1, <1>2, Names DEF ClientRec
  <2>3. \A d \in Clients \ {c} : client[d].kind \in {"none", "checkpoint"} /\ client[d].tx = None
    BY <1>1, <1>3 DEF DInv, UseInv, Closing
  <2>4. \A t \in Shards : ~Needs(w, t)
    BY <1>3, <2>2, DatabaseAssumption DEF Needs, Work, Taking
  <2>5. \A t \in Shards : Grows(shard[t], shard'[t]) /\ Counted(shard'[t], published')
    BY <1>2, SameCountsGrow, Unmoved DEF DInv, LockInv, Types, CountInv
  <2>6. /\ \A t \in Shards, d \in Clients \ {c} : client[d].tx = t => FallsBack(client[d], t, shard'[t])
        /\ \A t \in Shards : FallsBack(w, t, shard'[t]) /\ Waited(w, t, shard'[t], acked')
    BY <1>2, <1>3, <2>2, DatabaseAssumption DEF DInv, CountInv, FallsBack, Waited
  <2>7. acked' >= acked
    BY <1>2 DEF DInv, LockInv, Types
  <2> QED
    BY <1>2, <1>4, <1>6, <2>1, <2>2, <2>3, <2>4, <2>5, <2>6, <2>7, MoveAny DEF DInv
<1> QED
  BY <1>5, <1>6

\* Close runs alone: what is left of the other calls is refused.
LEMMA CloseShardsUses ==
    ASSUME DInv, LockInv', NEW c \in Clients, CloseShards(c)
    PROVE  UseInv' /\ CountInv'
<1>1. PICK y, w : y = client[c] /\ w = Between(c)
  OBVIOUS
<1>2. y.pc = "closing" /\ Call(c, w) /\ UNCHANGED <<mode, committer, published, acked>>
  BY <1>1 DEF CloseShards, Return
<1>3. y.kind = "close" /\ y.tx = None
  BY <1>1, <1>2, Here DEF DInv, Control, Position, InGet, InWrite, Locking, Taking, Getting, Work
<1>4. w \in ClientRec /\ w.pc = "idle" /\ w.kind = "none" /\ w.tx = None
  BY <1>1, <1>3, Fresh DEF DInv
<1>5. committer = "stopped" /\ \A d \in Clients \ {c} : client[d].kind \in {"none", "checkpoint"} /\ client[d].tx = None
  BY <1>1, <1>2, <1>3 DEF DInv, UseInv, Closing
<1>6. db.readers = {} /\ db'.closed = TRUE
  <2>1. db.writer = c /\ c # None
    BY <1>1, <1>2, Here, DatabaseAssumption DEF DInv, BaseOf
  <2> QED
    BY <2>1, Here DEF DInv, BaseRec, CloseShards
<1>7. \A d \in Clients \ {c} : client[d].kind = "none" /\ client[d].pc = "idle"
  <2> SUFFICES ASSUME NEW d \in Clients \ {c} PROVE client[d].kind = "none" /\ client[d].pc = "idle"
    OBVIOUS
  <2>1. client[d].kind = "none"
    BY <1>5, <1>6, Here DEF DInv, BaseOf
  <2> QED
    BY <2>1, Here DEF DInv, Control, Position
<1>8. \A d \in Clients : client'[d].kind = "none" /\ client'[d].pc = "idle" /\ client'[d].tx = None
  <2>1. client'[c] = w /\ \A d \in Clients : d # c => client'[d] = client[d]
    BY <1>2 DEF DInv, LockInv, Types, Call
  <2> QED
    BY <1>4, <1>5, <1>7, <2>1
<1>9. UseInv'
  <2>1. \A d \in Clients : Refused(client'[d])
    BY <1>8 DEF Refused
  <2> QED
    BY <1>2, <1>5, <1>6, <1>8, <2>1 DEF UseInv, Opened, Closing, Closed
<1>10. ASSUME NEW s \in Shards PROVE Counted(shard'[s], published')
  <2>1. PICK x, f : x = shard[s] /\ f = Saved(x)
    OBVIOUS
  <2>2. PICK z : z = [f EXCEPT !.open = FALSE]
    OBVIOUS
  <2>3. shard'[s] \in {x, z}
    BY <2>1, <2>2 DEF CloseShards
  <2>4. x \in ShardRec /\ Counted(x, published)
    BY <2>1 DEF DInv, LockInv, Types, CountInv
  <2>5. f \in ShardRec /\ f.durable = x.logged /\ f.logged = x.logged /\ f.ok = x.ok /\ f.seq = x.seq /\ x.logged \in Nat
    BY <2>1, <2>4, IsSaved DEF ShardRec
  <2>6. z.durable = f.durable /\ z.logged = f.logged /\ z.ok = f.ok /\ z.seq = f.seq
    BY <2>2, <2>5 DEF ShardRec
  <2> QED
    BY <1>2, <2>3, <2>4, <2>5, <2>6 DEF Counted
<1>11. CountInv'
  <2>1. \A d \in Clients, s \in Shards : FallsBack(client'[d], s, shard'[s]) /\ client'[d].kind # "sync"
    BY <1>8, DatabaseAssumption DEF FallsBack
  <2> QED
    BY <1>10, <2>1 DEF CountInv, Waited
<1> QED
  BY <1>9, <1>11

-----------------------------------------------------------------------------
(* DInv is inductive.                                                      *)

LEMMA BarrierInit == Init => DInv
<1> SUFFICES ASSUME Init PROVE DInv
  OBVIOUS
<1>1. LockInv
  BY LockInit
<1>2. PICK opened \in Openings : shard = [s \in Shards |-> [NewShard EXCEPT !.open = s \in opened]]
  BY DEF Init
<1>3. ASSUME NEW s \in Shards PROVE Blank(shard[s]) /\ shard[s].durable = 0
  <2>1. PICK n, b : n = NewShard /\ b = (s \in opened) /\ shard[s] = [n EXCEPT !.open = b]
    BY <1>2
  <2>2. n \in ShardRec /\ n.logged = 0 /\ n.ok = 0 /\ n.seq = 0 /\ n.durable = 0 /\ n.marked = FALSE
    BY <2>1 DEF NewShard, ShardRec
  <2> QED
    BY <2>1, <2>2 DEF ShardRec, Blank
<1>4. ASSUME NEW c \in Clients
      PROVE  client[c].pc = "idle" /\ client[c].kind = "none" /\ client[c].list = {} /\ client[c].tx = None
  BY DEF Init, Idle
<1>5. ~db.closed /\ committer \notin Shards /\ published = 0
  BY DatabaseAssumption DEF Init
<1>6. \A c \in Clients, s \in Shards : ~Needs(client[c], s)
  BY <1>4, DatabaseAssumption DEF Needs, Work, Taking
<1>7. UseInv
  BY <1>3, <1>4, <1>5, <1>6 DEF UseInv, Opened, Closing, Closed
<1>8. CountInv
  BY <1>3, <1>4, <1>5, DatabaseAssumption DEF CountInv, Counted, Blank, FallsBack, Waited
<1> QED
  BY <1>1, <1>7, <1>8 DEF DInv

LEMMA BarrierNext ==
    ASSUME Disciplined
    PROVE  DInv /\ [Next]_vars => DInv'
<1> SUFFICES ASSUME DInv, [Next]_vars PROVE DInv'
  OBVIOUS
<1>0. LockInv'
  BY LockNext DEF DInv
<1> SUFFICES UseInv' /\ CountInv'
  BY <1>0 DEF DInv
<1>1. CASE Ack
  BY <1>0, <1>1, AckUses
<1>2. CASE Commits
  BY <1>0, <1>2, CommitterWalUses, CommitterFlushUses DEF Commits
<1>3. ASSUME NEW c \in Clients, Starts(c) PROVE UseInv' /\ CountInv'
  BY <1>0, <1>3, StartPutUses, StartPutWindowUses, StartTxUses, StartBatchUses, StartLotUses, StartSyncUses,
     StartCheckpointUses, StartCloseUses DEF Starts
<1>4. ASSUME NEW c \in Clients, TxSteps(c) PROVE UseInv' /\ CountInv'
  BY <1>0, <1>4, TxPutUses, CommitUses, RollbackUses DEF TxSteps
<1>5. ASSUME NEW c \in Clients, Steps(c) PROVE UseInv' /\ CountInv'
  <2>1. CASE Lock1(c) \/ Lock2(c) \/ Busy(c) \/ GetFast(c) \/ GetWant(c) \/ GetSlow(c) \/ Enter(c)
    BY <1>0, <2>1, Lock1Uses, Lock2Uses, BusyUses, GetFastUses, GetWantUses, GetSlowUses, EnterUses
  <2>2. CASE EnsureStart(c) \/ EnsureEnd(c) \/ PutLock(c) \/ Write(c) \/ TxLock(c) \/ Begin(c) \/ BatchGo(c) \/ BatchEnd(c)
    BY <1>0, <2>2, EnsureStartUses, EnsureEndUses, PutLockUses, WriteUses, TxLockUses, BeginUses, BatchGoUses, BatchEndUses
  <2>3. CASE LotList(c) \/ LotGroup(c) \/ LotStart(c) \/ LotEnd(c) \/ LotFail(c) \/ LotClear(c)
    BY <1>0, <2>3, LotListUses, LotGroupUses, LotStartUses, LotEndUses, LotFailUses, LotClearUses
  <2>4. CASE SyncShard(c) \/ SyncEnd(c) \/ CheckpointDo(c) \/ CheckpointEnd(c) \/ CloseStop(c) \/ CloseShards(c)
    BY <1>0, <2>4, SyncShardUses, SyncEndUses, CheckpointDoUses, CheckpointEndUses, CloseStopUses, CloseShardsUses
  <2>5. ASSUME NEW s \in Shards,
               EnsureShard(c, s) \/ BatchGet(c, s) \/ JobLock(c, s) \/ JobWal(c, s) \/ JobWrite(c, s)
               \/ LotLock(c, s) \/ SyncAck(c, s) \/ CheckpointShard(c, s)
        PROVE  UseInv' /\ CountInv'
    BY <1>0, <2>5, EnsureShardUses, BatchGetUses, JobLockUses, JobWalUses, JobWriteUses, LotLockUses, SyncAckUses,
       CheckpointShardUses
  <2> QED
    BY <1>5, <2>1, <2>2, <2>3, <2>4, <2>5 DEF Steps
<1>6. ASSUME NEW c \in Clients, NEW s \in Shards, LotOp(c, s) PROVE UseInv' /\ CountInv'
  BY <1>0, <1>6, LotOpUses
<1>7. CASE UNCHANGED vars
  BY <1>7 DEF vars, DInv, UseInv, CountInv, Opened, Closing, Closed, Waited
<1> QED
  BY <1>1, <1>2, <1>3, <1>4, <1>5, <1>6, <1>7 DEF Next

LEMMA BarrierInv == ASSUME Disciplined PROVE Spec => []DInv
BY BarrierInit, BarrierNext, PTL DEF Spec

\* The types, the writer lock as one lock, and the order of the counts of
\* each shard (lockWriter, unlockWriter, flushWAL).
THEOREM Typing ==
    ASSUME Disciplined
    PROVE  Spec => []TypeOK
<1>1. DInv => TypeOK
  <2> SUFFICES ASSUME DInv PROVE TypeOK
    OBVIOUS
  <2>1. /\ db.writer \in Clients \cup {None} /\ db.readers \subseteq Clients
        /\ db.writer # None => db.readers = {}
    BY DEF DInv, LockInv, Types, BaseRec, BaseLock
  <2>2. ASSUME NEW s \in Shards
        PROVE  /\ shard[s].durable <= shard[s].logged /\ shard[s].ok <= shard[s].logged
               /\ shard[s].owner # None => shard[s].wmu = shard[s].owner /\ shard[s].wal = shard[s].owner
               /\ (shard[s].depth > 0) = (shard[s].owner # None)
               /\ shard[s].wmu \in Goroutines \cup {None}
    <3>1. PICK x : x = shard[s]
      OBVIOUS
    <3>2. x \in ShardRec /\ OneLock(s, x) /\ Counted(x, published)
      BY <3>1 DEF DInv, LockInv, Types, Locked, CountInv
    <3>3. x.depth \in Nat /\ x.owner \in Goroutines \cup {None} /\ x.wmu \in Goroutines \cup {None}
      BY <3>2 DEF ShardRec
    <3>4. x.owner # None => x.depth >= 1
      <4>1. CASE x.owner \in Clients
        BY <3>1, <4>1 DEF DInv, LockInv, Owning, Owns
      <4>2. CASE x.owner \in Clients \X Shards
        BY <3>2, <4>2 DEF OneLock
      <4> QED
        BY <3>3, <4>1, <4>2 DEF Goroutines
    <3> QED
      BY <3>1, <3>2, <3>3, <3>4 DEF OneLock, Counted
  <2> QED
    BY <2>1, <2>2 DEF TypeOK
<1> QED
  BY <1>1, BarrierInv, PTL

\* No goroutine works on a shard that is closed or was never opened: no
\* call, no job of a batch, no transaction, not the committer, whatever the
\* interleaving with Close (DB.Close, DB.GetShard, Shard.Close).
THEOREM UseBeforeClose ==
    ASSUME Disciplined
    PROVE  Spec => []NoUseAfterClose
<1>1. DInv => NoUseAfterClose
  <2> SUFFICES ASSUME DInv, NEW s \in Shards, db.closed \/ ~shard[s].open
               PROVE  /\ committer # s
                      /\ \A c \in Clients :
                            /\ client[c].tx # s /\ job[c][s] # "locked"
                            /\ client[c].s = s => client[c].pc \notin {"enter", "write", "begin", "ckptDo", "lotGroup"}
    BY DEF NoUseAfterClose
  <2>1. committer # s
    BY DatabaseAssumption DEF DInv, UseInv, Opened, Closed
  <2>2. ASSUME NEW c \in Clients
        PROVE  /\ client[c].tx # s /\ job[c][s] # "locked"
               /\ client[c].s = s => client[c].pc \notin {"enter", "write", "begin", "ckptDo", "lotGroup"}
    <3>1. ~Needs(client[c], s) \/ Refused(client[c])
      BY DEF DInv, UseInv, Opened, Closed
    <3>2. client[c].tx # s
      BY <3>1, DatabaseAssumption DEF Needs, Refused
    <3>3. client[c].s = s => client[c].pc \notin Work
      BY <3>1 DEF Needs, Refused, Work, Getting
    <3>4. job[c][s] # "none" => client[c].pc = "batchWait" /\ client[c].kind = "batch" /\ s \in client[c].list
      BY Here DEF DInv, Batching, Control, Position, InGet, InWrite, Locking, Taking, Getting
    <3>5. job[c][s] = "none"
      BY <3>1, <3>4 DEF Needs, Refused, Getting
    <3> QED
      BY <3>2, <3>3, <3>5 DEF Work
  <2> QED
    BY <2>1, <2>2
<1> QED
  BY <1>1, BarrierInv, PTL

\* Sync is a barrier for the journal of every shard: what any call had
\* acknowledged before it began is durable when it returns (DB.Sync,
\* Shard.syncBarrier, flushWAL), unless a Rollback emptied the pack that held it
\* (abortGroup): with what is durable a Rollback does nothing.
THEOREM Durability ==
    ASSUME Disciplined
    PROVE  Spec => []SyncDurable
<1>1. DInv => SyncDurable
  <2> SUFFICES ASSUME DInv, NEW c \in Clients, client[c].pc = "sync", client[c].todo = {}, NEW s \in Shards
               PROVE  shard[s].durable >= client[c].goal[s].n
    BY DEF SyncDurable
  <2>1. client[c].kind = "sync"
    BY Here DEF DInv, Control, Position, InGet, InWrite, Locking, Taking, Getting
  <2>2. Waited(client[c], s, shard[s], acked) /\ shard[s] \in ShardRec
    BY DEF DInv, CountInv, LockInv, Types
  <2>3. client[c].goal \in Goals /\ client[c].goal[s].n <= shard[s].durable
    BY <2>1, <2>2 DEF Waited
  <2>4. client[c].goal[s].n \in Nat /\ shard[s].durable \in Nat
    BY <2>2, <2>3 DEF Goals, ShardRec
  <2> QED
    BY <2>3, <2>4
<1> QED
  BY <1>1, BarrierInv, PTL

\* Under CommitReplicated, Sync returns when the quorum has acknowledged
\* the sequence every shard had published (DB.Sync, WaitAck).
THEOREM Replication ==
    ASSUME Disciplined
    PROVE  Spec => []SyncReplicated
<1>1. DInv => SyncReplicated
  <2> SUFFICES ASSUME DInv, mode = "replicated", NEW c \in Clients, client[c].pc = "sync", client[c].todo = {}, NEW s \in Shards
               PROVE  acked >= client[c].goal[s].seq
    BY DEF SyncReplicated
  <2>1. client[c].kind = "sync"
    BY Here DEF DInv, Control, Position, InGet, InWrite, Locking, Taking, Getting
  <2>2. Waited(client[c], s, shard[s], acked) /\ acked \in Nat
    BY DEF DInv, CountInv, LockInv, Types
  <2>3. client[c].goal \in Goals /\ client[c].goal[s].seq <= acked
    BY <2>1, <2>2 DEF Waited
  <2>4. client[c].goal[s].seq \in Nat
    BY <2>3 DEF Goals
  <2> QED
    BY <2>2, <2>3, <2>4
<1> QED
  BY <1>1, BarrierInv, PTL
=============================================================================
