---------------------------- MODULE JournalProofs ----------------------------
(***************************************************************************)
(* The journal, for any device, quantum, pack, group and workload.         *)
(*                                                                         *)
(*   JournalInv   the buffers have their place and a repair its cut:       *)
(*                PackFits, CutStands.                                     *)
(*   GroupInv     the log gives back what it owes, for autonomous writes:  *)
(*                GroupCommit.  The log of a struct is its View, the       *)
(*                device up to Start and then the quantum buffer; a block  *)
(*                Covers a record when its replay gives the record back;   *)
(*                GoodLog says that the records of the log come in order,  *)
(*                that the declared ones are on the device (Saved) and     *)
(*                that the others are fewer than a group.  The writes of a *)
(*                truncation Lead to such a log, and a crash leaves DownOK *)
(*                on the device, which a repair keeps and a replay needs.  *)
(*                                                                         *)
(* The last section says the same of the device of the configuration in    *)
(* MCJournal.                                                              *)
(***************************************************************************)
EXTENDS MCJournal, WellFoundedInduction, SequenceTheorems, FiniteSetTheorems, TLAPS

-----------------------------------------------------------------------------
(* Induction over the naturals, for sets.                                  *)

\* A set of naturals has a least element.
LEMMA Least ==
    ASSUME NEW T, T \subseteq Nat, T # {}
    PROVE  \E n \in T : \A m \in T : n <= m
<1>1. \E x \in T : \A y \in T : ~(<<y, x>> \in OpToRel(<, Nat))
  BY WFMin, NatLessThanWellFounded
<1>2. PICK x \in T : \A y \in T : ~(<<y, x>> \in OpToRel(<, Nat))
  BY <1>1
<1>3. \A y \in T : ~(y < x)
  BY <1>2 DEF OpToRel
<1> QED BY <1>3

LEMMA Induction ==
    ASSUME NEW I, 0 \in I, \A n \in Nat : n \in I => n + 1 \in I
    PROVE  Nat \subseteq I
<1> SUFFICES ASSUME Nat \ I # {} PROVE FALSE
  OBVIOUS
<1>1. PICK n \in Nat \ I : \A m \in Nat \ I : n <= m
  BY Least
<1>2. n # 0 /\ n - 1 \in Nat /\ n - 1 \in I
  BY <1>1
<1>3. (n - 1) + 1 \in I
  BY <1>2
<1> QED BY <1>1, <1>3

LEMMA Pair == ASSUME NEW a, NEW b PROVE <<a>> \o <<b>> = <<a, b>>
<1> DEFINE s == <<a>>
           t == <<b>>
           u == <<a, b>>
           v == s \o t
<1>1. s \in Seq({a, b}) /\ t \in Seq({a, b}) /\ u \in Seq({a, b})
  OBVIOUS
<1>2. Len(s) = 1 /\ Len(t) = 1 /\ s[1] = a /\ t[1] = b /\ Len(u) = 2 /\ u[1] = a /\ u[2] = b
  OBVIOUS
<1> HIDE DEF s, t, u
<1>3. /\ v \in Seq({a, b}) /\ Len(v) = Len(s) + Len(t)
      /\ \A i \in 1 .. Len(s) + Len(t) : v[i] = IF i <= Len(s) THEN s[i] ELSE t[i - Len(s)]
  BY <1>1, ConcatProperties
<1> HIDE DEF v
<1>4. Len(v) = 2 /\ v[1] = a /\ v[2] = b
  BY <1>2, <1>3
<1>5. \A i \in 1 .. 2 : i = 1 \/ i = 2
  OBVIOUS
<1>6. v = u
  BY <1>1, <1>2, <1>3, <1>4, <1>5, SeqEqual
<1> QED BY <1>6 DEF s, t, u, v

LEMMA PairParts == ASSUME NEW a, NEW b PROVE Head(<<a, b>>) = a /\ Tail(<<a, b>>) = <<b>>
<1> DEFINE u == <<a, b>>
           t == <<b>>
<1>1. u \in Seq({a, b}) /\ t \in Seq({a, b}) /\ u # <<>>
  OBVIOUS
<1>2. Len(u) = 2 /\ u[1] = a /\ u[2] = b /\ Len(t) = 1 /\ t[1] = b
  OBVIOUS
<1> HIDE DEF u, t
<1> DEFINE v == Tail(u)
<1>3. v \in Seq({a, b}) /\ Len(v) = Len(u) - 1 /\ \A i \in 1 .. Len(v) : v[i] = u[i + 1]
  BY <1>1, HeadTailProperties
<1> HIDE DEF v
<1>4. Len(v) = 1 /\ v[1] = b
  BY <1>2, <1>3
<1>5. v = t
  BY <1>1, <1>2, <1>3, <1>4, SeqEqual
<1>6. Head(u) = a
  BY <1>1, <1>2
<1> QED BY <1>5, <1>6 DEF u, t, v

LEMMA SingleParts == ASSUME NEW a PROVE Head(<<a>>) = a /\ Tail(<<a>>) = <<>>
OBVIOUS

-----------------------------------------------------------------------------
(* The struct.                                                             *)

\* The chunks of an oversized record, one after the other.
LEMMA ChunksLead ==
    ASSUME NEW r, NEW w
    PROVE  \E a : /\ a[0] = w /\ \A i \in 1 .. Chunks : a[i] = WriteOne(a[i - 1], Chunk(r, i))
                 /\ WriteChunks(w, r) = a[Chunks]
<1> DEFINE After(f) == [i \in 0 .. Chunks |-> IF i = 0 THEN w ELSE WriteOne(f[i - 1], Chunk(r, i))]
           I == {k \in Nat : k <= Chunks => \E f : DOMAIN f = 0 .. k /\ f[0] = w
                                /\ \A i \in 1 .. k : f[i] = WriteOne(f[i - 1], Chunk(r, i))}
<1>0. Chunks \in Nat /\ Chunks # 0
  BY JournalAssumption
<1>1. 0 \in I
  <2> DEFINE f == [i \in 0 .. 0 |-> w]
  <2>1. DOMAIN f = 0 .. 0 /\ f[0] = w /\ \A i \in 1 .. 0 : FALSE
    OBVIOUS
  <2> HIDE DEF f
  <2> QED BY <2>1
<1>2. ASSUME NEW k \in Nat, k \in I PROVE k + 1 \in I
  <2> SUFFICES ASSUME k + 1 <= Chunks
               PROVE  \E f : DOMAIN f = 0 .. k + 1 /\ f[0] = w
                         /\ \A i \in 1 .. k + 1 : f[i] = WriteOne(f[i - 1], Chunk(r, i))
    OBVIOUS
  <2>1. PICK f : DOMAIN f = 0 .. k /\ f[0] = w /\ \A i \in 1 .. k : f[i] = WriteOne(f[i - 1], Chunk(r, i))
    BY <1>0, <1>2
  <2> DEFINE g == [i \in 0 .. k + 1 |-> IF i = k + 1 THEN WriteOne(f[k], Chunk(r, k + 1)) ELSE f[i]]
  <2>2. DOMAIN g = 0 .. k + 1 /\ g[0] = w
    BY <2>1
  <2>3. ASSUME NEW i \in 1 .. k + 1 PROVE g[i] = WriteOne(g[i - 1], Chunk(r, i))
    <3>1. g[i - 1] = f[i - 1]
      OBVIOUS
    <3>2. CASE i = k + 1
      <4>1. g[i] = WriteOne(f[k], Chunk(r, k + 1)) /\ i - 1 = k
        BY <3>2
      <4> HIDE DEF g
      <4> QED BY <3>1, <3>2, <4>1
    <3>3. CASE i # k + 1
      <4>1. g[i] = f[i] /\ i \in 1 .. k
        BY <3>3
      <4> HIDE DEF g
      <4> QED BY <2>1, <3>1, <4>1
    <3> QED BY <3>2, <3>3
  <2> HIDE DEF g
  <2> QED BY <2>2, <2>3
<1>3. Chunks \in I
  <2> HIDE DEF I
  <2> QED BY <1>0, <1>1, <1>2, Induction
<1>4. \E f : f = After(f)
  <2>1. PICK f : DOMAIN f = 0 .. Chunks /\ f[0] = w
                 /\ \A i \in 1 .. Chunks : f[i] = WriteOne(f[i - 1], Chunk(r, i))
    BY <1>0, <1>3
  <2> DEFINE g == [i \in 0 .. Chunks |-> f[i]]
  <2>2. \A i \in 0 .. Chunks : g[i] = f[i]
    OBVIOUS
  <2>3. ASSUME NEW i \in 0 .. Chunks PROVE g[i] = IF i = 0 THEN w ELSE WriteOne(g[i - 1], Chunk(r, i))
    <3>1. CASE i = 0
      BY <2>1, <3>1
    <3>2. CASE i # 0
      <4>1. i \in 1 .. Chunks /\ i - 1 \in 0 .. Chunks
        BY <1>0, <3>2
      <4>2. g[i] = f[i] /\ g[i - 1] = f[i - 1]
        BY <4>1
      <4> HIDE DEF g
      <4> QED BY <2>1, <3>2, <4>1, <4>2
    <3> QED BY <3>1, <3>2
  <2>4. g = [i \in 0 .. Chunks |-> g[i]]
    OBVIOUS
  <2>5. g = After(g)
    <3>1. g = [i \in 0 .. Chunks |-> IF i = 0 THEN w ELSE WriteOne(g[i - 1], Chunk(r, i))]
      <4> HIDE DEF g
      <4> QED BY <2>3, <2>4
    <3> QED BY <3>1
  <2> QED BY <2>5
<1> DEFINE a == CHOOSE f : f = After(f)
<1>5. a = After(a)
  BY <1>4
<1>6. WriteChunks(w, r) = a[Chunks]
  BY DEF WriteChunks
<1>7. a[0] = w /\ \A i \in 1 .. Chunks : a[i] = WriteOne(a[i - 1], Chunk(r, i))
  <2> HIDE DEF a
  <2>1. \A i \in 0 .. Chunks : a[i] = IF i = 0 THEN w ELSE WriteOne(a[i - 1], Chunk(r, i))
    BY <1>5
  <2>2. 0 \in 0 .. Chunks /\ \A i \in 1 .. Chunks : i \in 0 .. Chunks /\ i # 0
    BY <1>0
  <2> QED BY <2>1, <2>2
<1> QED BY <1>6, <1>7

\* The fields of the struct.
Shape(w) ==
    /\ w = [disk |-> w.disk, alt |-> w.alt, next |-> w.next, qLBA |-> w.qLBA, qCount |-> w.qCount,
            qBuf |-> w.qBuf, pending |-> w.pending, packDepth |-> w.packDepth,
            checkLBA |-> w.checkLBA, hasCheck |-> w.hasCheck, synced |-> w.synced]
    /\ w.next \in Int /\ w.qLBA \in Int /\ w.qCount \in Nat /\ w.checkLBA \in Int /\ w.packDepth \in Nat

\* Nothing but the places on the device and in the quantum buffer changes from w to v.
SameCalls(v, w) ==
    v.packDepth = w.packDepth /\ v.checkLBA = w.checkLBA /\ v.hasCheck = w.hasCheck

\* v is w but for its device.
SameBuffers(v, w) ==
    /\ Shape(v) /\ SameCalls(v, w)
    /\ v.next = w.next /\ v.qLBA = w.qLBA /\ v.qCount = w.qCount /\ v.qBuf = w.qBuf
    /\ v.pending = w.pending /\ v.synced = w.synced

\* The device of v is that of w with the blocks written at lba.
WroteAt(v, w, lba, blocks) ==
    /\ v.disk = [l \in LBAs |-> IF l \in lba .. lba + Len(blocks) - 1 THEN blocks[l - lba + 1] ELSE w.disk[l]]
    /\ v.alt = [l \in LBAs |-> IF l \in lba .. lba + Len(blocks) - 1 THEN w.alt[l] \cup {blocks[l - lba + 1]}
                               ELSE w.alt[l]]

LEMMA DevWriteFields ==
    ASSUME NEW w, Shape(w), NEW lba, NEW blocks
    PROVE  SameBuffers(DevWrite(w, lba, blocks), w) /\ WroteAt(DevWrite(w, lba, blocks), w, lba, blocks)
<1> DEFINE at(l) == l \in lba .. lba + Len(blocks) - 1
           d == [l \in LBAs |-> IF at(l) THEN blocks[l - lba + 1] ELSE w.disk[l]]
           a == [l \in LBAs |-> IF at(l) THEN w.alt[l] \cup {blocks[l - lba + 1]} ELSE w.alt[l]]
           v == DevWrite(w, lba, blocks)
<1>1. v = [w EXCEPT !.disk = d, !.alt = a]
  BY DEF DevWrite
<1> HIDE DEF v, d, a
<1>2. v = [disk |-> d, alt |-> a, next |-> w.next, qLBA |-> w.qLBA, qCount |-> w.qCount,
           qBuf |-> w.qBuf, pending |-> w.pending, packDepth |-> w.packDepth,
           checkLBA |-> w.checkLBA, hasCheck |-> w.hasCheck, synced |-> w.synced]
  BY <1>1 DEF Shape
<1>3. /\ Shape(v) /\ SameCalls(v, w)
      /\ v.next = w.next /\ v.qLBA = w.qLBA /\ v.qCount = w.qCount /\ v.qBuf = w.qBuf
      /\ v.pending = w.pending /\ v.synced = w.synced /\ v.disk = d /\ v.alt = a
  BY <1>2 DEF Shape, SameCalls
<1> QED BY <1>3 DEF v, d, a, SameBuffers, WroteAt

LEMMA DevFlushFields ==
    ASSUME NEW w, Shape(w)
    PROVE  /\ SameBuffers(DevFlush(w), w)
           /\ DevFlush(w).disk = w.disk /\ DevFlush(w).alt = [l \in LBAs |-> {w.disk[l]}]
<1> DEFINE a == [l \in LBAs |-> {w.disk[l]}]
           v == DevFlush(w)
<1>1. v = [w EXCEPT !.alt = a]
  BY DEF DevFlush
<1> HIDE DEF v, a
<1>2. v = [disk |-> w.disk, alt |-> a, next |-> w.next, qLBA |-> w.qLBA, qCount |-> w.qCount,
           qBuf |-> w.qBuf, pending |-> w.pending, packDepth |-> w.packDepth,
           checkLBA |-> w.checkLBA, hasCheck |-> w.hasCheck, synced |-> w.synced]
  BY <1>1 DEF Shape
<1>3. /\ Shape(v) /\ SameCalls(v, w)
      /\ v.next = w.next /\ v.qLBA = w.qLBA /\ v.qCount = w.qCount /\ v.qBuf = w.qBuf
      /\ v.pending = w.pending /\ v.synced = w.synced /\ v.disk = w.disk /\ v.alt = a
  BY <1>2 DEF Shape, SameCalls
<1> QED BY <1>3 DEF v, a, SameBuffers

\* The blocks of the quantum buffer reach the device, at its place.
Poured(w) == SubSeq(w.qBuf, 1, w.qCount)

\* v is w with the quantum buffer on the device.
PouredInto(v, w) ==
    /\ Shape(v) /\ SameCalls(v, w)
    /\ v.next = w.next /\ v.qCount = 0 /\ v.qBuf = w.qBuf /\ v.pending = w.pending
    /\ w.qCount = 0 => v.qLBA = w.qLBA /\ v.disk = w.disk /\ v.alt = w.alt
    /\ w.qCount # 0 => v.qLBA = w.next /\ WroteAt(v, w, w.qLBA, Poured(w))

LEMMA FlushQuantumFields ==
    ASSUME NEW w, Shape(w)
    PROVE  PouredInto(FlushQuantum(w), w)
<1>1. CASE w.qCount = 0
  <2>1. FlushQuantum(w) = w
    BY <1>1 DEF FlushQuantum
  <2> QED BY <1>1, <2>1 DEF PouredInto, SameCalls
<1>2. CASE w.qCount # 0
  <2> DEFINE u == DevWrite(w, w.qLBA, Poured(w))
             v == FlushQuantum(w)
  <2>1. v = [u EXCEPT !.qCount = 0, !.qLBA = w.next, !.synced = FALSE]
    BY <1>2 DEF FlushQuantum, Poured
  <2>2. SameBuffers(u, w) /\ WroteAt(u, w, w.qLBA, Poured(w))
    BY DevWriteFields
  <2> HIDE DEF u, v
  <2>3. u = [disk |-> u.disk, alt |-> u.alt, next |-> u.next, qLBA |-> u.qLBA, qCount |-> u.qCount,
             qBuf |-> u.qBuf, pending |-> u.pending, packDepth |-> u.packDepth,
             checkLBA |-> u.checkLBA, hasCheck |-> u.hasCheck, synced |-> u.synced]
    BY <2>2 DEF SameBuffers, Shape
  <2>4. v = [disk |-> u.disk, alt |-> u.alt, next |-> u.next, qLBA |-> w.next, qCount |-> 0,
             qBuf |-> u.qBuf, pending |-> u.pending, packDepth |-> u.packDepth,
             checkLBA |-> u.checkLBA, hasCheck |-> u.hasCheck, synced |-> FALSE]
    BY <2>1, <2>3
  <2>5. /\ v.next = u.next /\ v.qCount = 0 /\ v.qBuf = u.qBuf /\ v.pending = u.pending
        /\ v.qLBA = w.next /\ v.disk = u.disk /\ v.alt = u.alt
        /\ v.packDepth = u.packDepth /\ v.checkLBA = u.checkLBA /\ v.hasCheck = u.hasCheck
    BY <2>4
  <2>6. /\ u.next = w.next /\ u.qBuf = w.qBuf /\ u.pending = w.pending
        /\ u.packDepth = w.packDepth /\ u.checkLBA = w.checkLBA /\ u.hasCheck = w.hasCheck
        /\ w.next \in Int /\ w.packDepth \in Nat /\ w.checkLBA \in Int
    BY <2>2 DEF SameBuffers, SameCalls, Shape
  <2>7. Shape(v)
    BY <2>4, <2>5, <2>6 DEF Shape
  <2>8. WroteAt(v, w, w.qLBA, Poured(w))
    BY <2>2, <2>5 DEF WroteAt
  <2> QED BY <1>2, <2>5, <2>6, <2>7, <2>8 DEF PouredInto, SameCalls, v
<1> QED BY <1>1, <1>2

\* The struct with one more block in the quantum buffer.
Buffered(w, b) ==
    [w EXCEPT !.qLBA = IF w.qCount = 0 THEN w.next ELSE @,
              !.qBuf[w.qCount + 1] = b, !.qCount = @ + 1,
              !.next = @ + 1, !.synced = FALSE]

LEMMA WriteOneIs ==
    ASSUME NEW w, NEW b
    PROVE  WriteOne(w, b) = IF Buffered(w, b).qCount = Quantum THEN FlushQuantum(Buffered(w, b)) ELSE Buffered(w, b)
BY DEF WriteOne, Buffered

\* v is w with one more block in the quantum buffer.
BufferedInto(v, w, b) ==
    /\ Shape(v) /\ SameCalls(v, w)
    /\ v.next = w.next + 1 /\ v.qCount = w.qCount + 1 /\ v.pending = w.pending
    /\ v.qLBA = (IF w.qCount = 0 THEN w.next ELSE w.qLBA)
    /\ v.qBuf = [w.qBuf EXCEPT ![w.qCount + 1] = b]
    /\ v.disk = w.disk /\ v.alt = w.alt

LEMMA BufferedFields ==
    ASSUME NEW w, Shape(w), NEW b
    PROVE  BufferedInto(Buffered(w, b), w, b)
<1> DEFINE v == Buffered(w, b)
           q == IF w.qCount = 0 THEN w.next ELSE w.qLBA
           f == [w.qBuf EXCEPT ![w.qCount + 1] = b]
<1>1. v = [w EXCEPT !.qLBA = q, !.qBuf = f, !.qCount = w.qCount + 1, !.next = w.next + 1, !.synced = FALSE]
  BY DEF Buffered, Shape
<1> HIDE DEF v, f
<1>2. v = [disk |-> w.disk, alt |-> w.alt, next |-> w.next + 1, qLBA |-> q, qCount |-> w.qCount + 1,
           qBuf |-> f, pending |-> w.pending, packDepth |-> w.packDepth,
           checkLBA |-> w.checkLBA, hasCheck |-> w.hasCheck, synced |-> FALSE]
  BY <1>1 DEF Shape
<1>3. q \in Int
  BY DEF Shape
<1>4. /\ v.next = w.next + 1 /\ v.qCount = w.qCount + 1 /\ v.pending = w.pending
      /\ v.qLBA = q /\ v.qBuf = f /\ v.disk = w.disk /\ v.alt = w.alt /\ SameCalls(v, w)
  BY <1>2 DEF SameCalls
<1>5. Shape(v)
  BY <1>2, <1>3 DEF Shape
<1> QED BY <1>4, <1>5 DEF v, f, BufferedInto

\* The places of v are those of w after one more block.
OneMore(v, w) ==
    /\ Shape(v) /\ SameCalls(v, w)
    /\ v.next = w.next + 1 /\ v.pending = w.pending
    /\ \/ v.qCount = 0
       \/ v.qCount = w.qCount + 1 /\ v.qLBA = (IF w.qCount = 0 THEN w.next ELSE w.qLBA)

LEMMA WriteOneFields ==
    ASSUME NEW w, Shape(w), NEW b
    PROVE  OneMore(WriteOne(w, b), w)
<1> DEFINE u == Buffered(w, b)
<1>1. BufferedInto(u, w, b)
  BY BufferedFields
<1>2. WriteOne(w, b) = IF u.qCount = Quantum THEN FlushQuantum(u) ELSE u
  BY WriteOneIs
<1> HIDE DEF u
<1>3. PouredInto(FlushQuantum(u), u)
  BY <1>1, FlushQuantumFields DEF BufferedInto
<1>4. OneMore(u, w)
  BY <1>1 DEF BufferedInto, OneMore
<1>5. OneMore(FlushQuantum(u), w)
  <2> DEFINE x == FlushQuantum(u)
  <2>1. PouredInto(x, u)
    BY <1>3
  <2> HIDE DEF x
  <2>2. Shape(x) /\ SameCalls(x, u) /\ x.next = u.next /\ x.qCount = 0 /\ x.pending = u.pending
    BY <2>1 DEF PouredInto
  <2>3. SameCalls(u, w) /\ u.next = w.next + 1 /\ u.pending = w.pending
    BY <1>1 DEF BufferedInto
  <2>4. OneMore(x, w)
    BY <2>2, <2>3 DEF OneMore, SameCalls
  <2> QED BY <2>4 DEF x
<1> QED BY <1>2, <1>4, <1>5

-----------------------------------------------------------------------------
(* The open pack can be written, and the quantum buffer has its place.     *)

\* The struct in every state of the shard, and inside every call: what is pending
\* fits, in an open pack, and the buffered blocks are the last ones.
Fits(w) == w.pending # <<>> => w.next < MaxLBA /\ w.packDepth > 0
Placed(w) == Shape(w) /\ (w.qCount > 0 => w.next = w.qLBA + w.qCount)

LEMMA PlacedWriteOne ==
    ASSUME NEW w, Placed(w), NEW b
    PROVE  Placed(WriteOne(w, b)) /\ OneMore(WriteOne(w, b), w)
<1> DEFINE v == WriteOne(w, b)
<1>1. OneMore(v, w)
  BY WriteOneFields DEF Placed
<1> HIDE DEF v
<1>2. Placed(v)
  BY <1>1 DEF OneMore, Placed, Shape
<1> QED BY <1>1, <1>2 DEF v

\* v is w with the pack closed into a block, or nothing pending.
PackClosed(v, w) ==
    /\ Placed(v) /\ v.pending = <<>> /\ SameCalls(v, w)
    /\ v.next = (IF w.pending = <<>> THEN w.next ELSE w.next + 1)

LEMMA PlacedFlushPending ==
    ASSUME NEW w, Placed(w)
    PROVE  PackClosed(FlushPending(w), w)
<1>1. CASE w.pending = <<>>
  BY <1>1 DEF FlushPending, PackClosed, SameCalls
<1>2. CASE w.pending # <<>>
  <2> DEFINE u == WriteOne(w, Pack(w.pending))
             v == FlushPending(w)
  <2>1. Placed(u) /\ OneMore(u, w)
    BY PlacedWriteOne
  <2>2. v = [u EXCEPT !.pending = <<>>]
    BY <1>2 DEF FlushPending
  <2> HIDE DEF u, v
  <2>3. v = [disk |-> u.disk, alt |-> u.alt, next |-> u.next, qLBA |-> u.qLBA, qCount |-> u.qCount,
             qBuf |-> u.qBuf, pending |-> <<>>, packDepth |-> u.packDepth,
             checkLBA |-> u.checkLBA, hasCheck |-> u.hasCheck, synced |-> u.synced]
    BY <2>1, <2>2 DEF Placed, Shape
  <2>4. v.next = u.next /\ v.qLBA = u.qLBA /\ v.qCount = u.qCount /\ v.pending = <<>> /\ SameCalls(v, u)
    BY <2>3 DEF SameCalls
  <2>5. Placed(v)
    BY <2>1, <2>3, <2>4 DEF Placed, Shape
  <2> QED BY <1>2, <2>1, <2>4, <2>5 DEF PackClosed, OneMore, SameCalls, v
<1> QED BY <1>1, <1>2

LEMMA PlacedFlushQuantum ==
    ASSUME NEW w, Placed(w)
    PROVE  /\ Placed(FlushQuantum(w)) /\ SameCalls(FlushQuantum(w), w)
           /\ FlushQuantum(w).pending = w.pending /\ FlushQuantum(w).next = w.next /\ FlushQuantum(w).qCount = 0
<1>1. PouredInto(FlushQuantum(w), w)
  BY FlushQuantumFields DEF Placed
<1> QED BY <1>1 DEF PouredInto, Placed

LEMMA PlacedTruncReady ==
    ASSUME NEW w, Placed(w)
    PROVE  PackClosed(TruncReady(w), w) /\ TruncReady(w).qCount = 0
<1> DEFINE u == FlushPending(w)
<1>1. PackClosed(u, w)
  BY PlacedFlushPending
<1>2. TruncReady(w) = FlushQuantum(u)
  BY DEF TruncReady
<1> HIDE DEF u
<1>3. /\ Placed(FlushQuantum(u)) /\ SameCalls(FlushQuantum(u), u)
      /\ FlushQuantum(u).pending = u.pending /\ FlushQuantum(u).next = u.next /\ FlushQuantum(u).qCount = 0
  BY <1>1, PlacedFlushQuantum DEF PackClosed
<1> DEFINE v == FlushQuantum(u)
<1> HIDE DEF v
<1>4. Placed(v) /\ SameCalls(v, u) /\ v.pending = u.pending /\ v.next = u.next /\ v.qCount = 0
  BY <1>3 DEF v
<1>5. PackClosed(v, w)
  BY <1>1, <1>4 DEF PackClosed, SameCalls
<1> QED BY <1>2, <1>4, <1>5 DEF v

LEMMA PlacedFlush ==
    ASSUME NEW w, Placed(w)
    PROVE  PackClosed(Flush(w), w) /\ Flush(w).qCount = 0
<1> DEFINE u == TruncReady(w)
           x == DevFlush(u)
           v == Flush(w)
<1>1. PackClosed(u, w) /\ u.qCount = 0
  BY PlacedTruncReady
<1>2. v = [x EXCEPT !.synced = TRUE]
  BY DEF Flush, TruncReady
<1>3. SameBuffers(x, u)
  BY <1>1, DevFlushFields DEF PackClosed, Placed
<1> HIDE DEF u, x, v
<1>4. v = [disk |-> x.disk, alt |-> x.alt, next |-> x.next, qLBA |-> x.qLBA, qCount |-> x.qCount,
           qBuf |-> x.qBuf, pending |-> x.pending, packDepth |-> x.packDepth,
           checkLBA |-> x.checkLBA, hasCheck |-> x.hasCheck, synced |-> TRUE]
  BY <1>2, <1>3 DEF SameBuffers, Shape
<1>5. v.next = x.next /\ v.qLBA = x.qLBA /\ v.qCount = x.qCount /\ v.pending = x.pending /\ SameCalls(v, x)
  BY <1>4 DEF SameCalls
<1>6. Shape(v)
  BY <1>3, <1>4, <1>5 DEF SameBuffers, Shape
<1> QED BY <1>1, <1>3, <1>5, <1>6 DEF PackClosed, Placed, SameBuffers, SameCalls, v

\* v is w with some blocks more and no pack.
LEMMA PlacedChunks ==
    ASSUME NEW w, Placed(w), NEW r
    PROVE  Placed(WriteChunks(w, r)) /\ SameCalls(WriteChunks(w, r), w) /\ WriteChunks(w, r).pending = w.pending
<1>1. PICK a : /\ a[0] = w /\ \A i \in 1 .. Chunks : a[i] = WriteOne(a[i - 1], Chunk(r, i))
               /\ WriteChunks(w, r) = a[Chunks]
  BY ChunksLead
<1> DEFINE I == {k \in Nat : k <= Chunks => Placed(a[k]) /\ SameCalls(a[k], w) /\ a[k].pending = w.pending}
<1>0. Chunks \in Nat
  BY JournalAssumption
<1>2. 0 \in I
  BY <1>1 DEF SameCalls
<1>3. ASSUME NEW k \in Nat, k \in I PROVE k + 1 \in I
  <2> SUFFICES ASSUME k + 1 <= Chunks
               PROVE  Placed(a[k + 1]) /\ SameCalls(a[k + 1], w) /\ a[k + 1].pending = w.pending
    OBVIOUS
  <2> DEFINE n == k + 1
  <2>1. n \in 1 .. Chunks /\ n - 1 = k /\ Placed(a[k]) /\ SameCalls(a[k], w) /\ a[k].pending = w.pending
    BY <1>0, <1>3
  <2> HIDE DEF n
  <2>2. a[n] = WriteOne(a[k], Chunk(r, n))
    BY <1>1, <2>1
  <2>3. Placed(a[n]) /\ OneMore(a[n], a[k])
    BY <2>1, <2>2, PlacedWriteOne
  <2> QED BY <2>1, <2>3 DEF OneMore, SameCalls, n
<1>4. Chunks \in I
  <2> HIDE DEF I
  <2> QED BY <1>0, <1>2, <1>3, Induction
<1> QED BY <1>0, <1>1, <1>4

Kept(w) == Placed(w) /\ Fits(w)

LEMMA KeptFlushes ==
    ASSUME NEW w, Placed(w)
    PROVE  Kept(FlushPending(w)) /\ Kept(TruncReady(w)) /\ Kept(Flush(w))
BY PlacedFlushPending, PlacedTruncReady, PlacedFlush DEF PackClosed, Kept, Fits

LEMMA KeptBeforeRoom ==
    ASSUME NEW w, Kept(w), NEW alone
    PROVE  Kept(BeforeRoom(w, alone)) /\ Kept(Refused(w, alone))
BY KeptFlushes DEF BeforeRoom, Refused, Kept

\* The depth of the pack changes, and what is pending may go.
LEMMA KeptDepth ==
    ASSUME NEW w, Placed(w), NEW n \in Nat, n > 0 /\ Fits(w)
    PROVE  Kept([w EXCEPT !.packDepth = n])
<1> DEFINE v == [w EXCEPT !.packDepth = n]
<1>1. v = [disk |-> w.disk, alt |-> w.alt, next |-> w.next, qLBA |-> w.qLBA, qCount |-> w.qCount,
           qBuf |-> w.qBuf, pending |-> w.pending, packDepth |-> n,
           checkLBA |-> w.checkLBA, hasCheck |-> w.hasCheck, synced |-> w.synced]
  BY DEF Placed, Shape
<1> HIDE DEF v
<1>2. v.next = w.next /\ v.qLBA = w.qLBA /\ v.qCount = w.qCount /\ v.pending = w.pending /\ v.packDepth = n
  BY <1>1
<1>3. Shape(v)
  BY <1>1, <1>2 DEF Placed, Shape
<1>4. Kept(v)
  BY <1>2, <1>3 DEF Kept, Placed, Fits
<1> QED BY <1>4 DEF v

LEMMA KeptEmptied ==
    ASSUME NEW w, Placed(w), w.pending = <<>>
    PROVE  Kept(LeavePack(w)) /\ LeavePack(w).pending = <<>>
<1> DEFINE n == IF w.packDepth > 0 THEN w.packDepth - 1 ELSE 0
           v == LeavePack(w)
<1>0. n \in Nat
  BY DEF Placed, Shape
<1>1. v = [w EXCEPT !.packDepth = n]
  BY DEF LeavePack, Placed, Shape
<1> HIDE DEF v, n
<1>2. v = [disk |-> w.disk, alt |-> w.alt, next |-> w.next, qLBA |-> w.qLBA, qCount |-> w.qCount,
           qBuf |-> w.qBuf, pending |-> w.pending, packDepth |-> n,
           checkLBA |-> w.checkLBA, hasCheck |-> w.hasCheck, synced |-> w.synced]
  BY <1>1 DEF Placed, Shape
<1>3. v.next = w.next /\ v.qLBA = w.qLBA /\ v.qCount = w.qCount /\ v.pending = w.pending /\ v.packDepth = n
  BY <1>2
<1>4. Shape(v)
  BY <1>0, <1>2, <1>3 DEF Placed, Shape
<1>5. Kept(v) /\ v.pending = <<>>
  BY <1>3, <1>4 DEF Kept, Placed, Fits
<1> QED BY <1>5 DEF v

LEMMA KeptPacks ==
    ASSUME NEW w, Kept(w)
    PROVE  Kept(EnsurePack(w)) /\ EnsurePack(w).packDepth > 0 /\ Kept(BeginPack(w)) /\ Kept(EndPack(w))
<1>0. Placed(w) /\ Fits(w) /\ w.packDepth \in Nat
  BY DEF Kept, Placed, Shape
<1>1. Kept(EnsurePack(w)) /\ EnsurePack(w).packDepth > 0
  <2>1. CASE w.packDepth = 0
    <3>1. [w EXCEPT !.packDepth = 1].packDepth = 1
      BY <1>0 DEF Placed, Shape
    <3>2. Kept([w EXCEPT !.packDepth = 1])
      BY <1>0, KeptDepth
    <3> QED BY <2>1, <3>1, <3>2 DEF EnsurePack
  <2>2. CASE w.packDepth # 0
    BY <1>0, <2>2 DEF EnsurePack
  <2> QED BY <2>1, <2>2
<1>2. Kept(BeginPack(w))
  <2>1. BeginPack(w) = [w EXCEPT !.packDepth = w.packDepth + 1]
    BY DEF BeginPack
  <2> QED BY <1>0, <2>1, KeptDepth
<1>3. Kept(EndPack(w))
  <2>1. CASE w.packDepth <= 1
    <3> DEFINE n == IF w.packDepth > 0 THEN w.packDepth - 1 ELSE 0
               v == LeavePack(w)
    <3>0. n \in Nat
      BY <1>0
    <3>1. v = [w EXCEPT !.packDepth = n]
      BY <1>0 DEF LeavePack, Placed, Shape
    <3> HIDE DEF v, n
    <3>2. v = [disk |-> w.disk, alt |-> w.alt, next |-> w.next, qLBA |-> w.qLBA, qCount |-> w.qCount,
               qBuf |-> w.qBuf, pending |-> w.pending, packDepth |-> n,
               checkLBA |-> w.checkLBA, hasCheck |-> w.hasCheck, synced |-> w.synced]
      BY <1>0, <3>1 DEF Placed, Shape
    <3>3. Placed(v)
      BY <1>0, <3>0, <3>2 DEF Placed, Shape
    <3>4. Kept(Flush(v))
      BY <3>3, KeptFlushes
    <3> QED BY <2>1, <3>4 DEF EndPack, v
  <2>2. CASE w.packDepth > 1
    <3>1. LeavePack(w) = [w EXCEPT !.packDepth = w.packDepth - 1]
      BY <1>0, <2>2 DEF LeavePack, Placed, Shape
    <3>2. w.packDepth - 1 \in Nat /\ w.packDepth - 1 > 0
      BY <1>0, <2>2
    <3>3. Kept(LeavePack(w))
      BY <1>0, <3>1, <3>2, KeptDepth
    <3> QED BY <1>0, <2>2, <3>3 DEF EndPack
  <2> QED BY <1>0, <2>1, <2>2
<1> QED BY <1>1, <1>2, <1>3

\* What gives up what is pending.
LEMMA KeptGivenUp ==
    ASSUME NEW w, Kept(w), NEW n \in Int
    PROVE  Kept(DiscardPack(w)) /\ Kept(RollbackTo(w, n)) /\ Kept(AbortGroup(w))
<1>0. Placed(w) /\ Shape(w)
  BY DEF Kept, Placed
<1>1. Kept(DiscardPack(w))
  <2> DEFINE q == w.qLBA
             y == [w EXCEPT !.pending = <<>>]
             x == [w EXCEPT !.pending = <<>>, !.qCount = 0]
             v == [w EXCEPT !.pending = <<>>, !.qCount = 0, !.next = q]
  <2>0. x = [disk |-> w.disk, alt |-> w.alt, next |-> w.next, qLBA |-> q, qCount |-> 0,
             qBuf |-> w.qBuf, pending |-> <<>>, packDepth |-> w.packDepth,
             checkLBA |-> w.checkLBA, hasCheck |-> w.hasCheck, synced |-> w.synced]
    <3>1. x = [y EXCEPT !.qCount = 0]
      OBVIOUS
    <3>2. y = [disk |-> w.disk, alt |-> w.alt, next |-> w.next, qLBA |-> q, qCount |-> w.qCount,
               qBuf |-> w.qBuf, pending |-> <<>>, packDepth |-> w.packDepth,
               checkLBA |-> w.checkLBA, hasCheck |-> w.hasCheck, synced |-> w.synced]
      BY <1>0 DEF Shape
    <3> HIDE DEF x, y, q
    <3> QED BY <3>1, <3>2
  <2>1. v = [disk |-> w.disk, alt |-> w.alt, next |-> q, qLBA |-> q, qCount |-> 0,
             qBuf |-> w.qBuf, pending |-> <<>>, packDepth |-> w.packDepth,
             checkLBA |-> w.checkLBA, hasCheck |-> w.hasCheck, synced |-> w.synced]
    <3>1. v = [x EXCEPT !.next = q]
      OBVIOUS
    <3> HIDE DEF q, x, v
    <3> QED BY <2>0, <3>1
  <2>2. DiscardPack(w) = LeavePack(v)
    BY DEF DiscardPack
  <2> HIDE DEF v
  <2>3. Placed(v) /\ v.pending = <<>>
    BY <1>0, <2>1 DEF Shape, Placed
  <2> QED BY <2>2, <2>3, KeptEmptied
<1>2. Kept(RollbackTo(w, n))
  <2> DEFINE v == [w EXCEPT !.pending = <<>>]
             u == [v EXCEPT !.next = n, !.qCount = n - w.qLBA]
  <2>1. v = [disk |-> w.disk, alt |-> w.alt, next |-> w.next, qLBA |-> w.qLBA, qCount |-> w.qCount,
             qBuf |-> w.qBuf, pending |-> <<>>, packDepth |-> w.packDepth,
             checkLBA |-> w.checkLBA, hasCheck |-> w.hasCheck, synced |-> w.synced]
    BY <1>0 DEF Shape
  <2>2. u = [disk |-> w.disk, alt |-> w.alt, next |-> n, qLBA |-> w.qLBA, qCount |-> n - w.qLBA,
             qBuf |-> w.qBuf, pending |-> <<>>, packDepth |-> w.packDepth,
             checkLBA |-> w.checkLBA, hasCheck |-> w.hasCheck, synced |-> w.synced]
    <3> DEFINE c == n - w.qLBA
               x == [v EXCEPT !.next = n]
    <3>1. u = [x EXCEPT !.qCount = c]
      OBVIOUS
    <3> HIDE DEF v, c, u
    <3>2. x = [disk |-> w.disk, alt |-> w.alt, next |-> n, qLBA |-> w.qLBA, qCount |-> w.qCount,
               qBuf |-> w.qBuf, pending |-> <<>>, packDepth |-> w.packDepth,
               checkLBA |-> w.checkLBA, hasCheck |-> w.hasCheck, synced |-> w.synced]
      BY <2>1
    <3> HIDE DEF x
    <3>3. u = [disk |-> w.disk, alt |-> w.alt, next |-> n, qLBA |-> w.qLBA, qCount |-> c,
               qBuf |-> w.qBuf, pending |-> <<>>, packDepth |-> w.packDepth,
               checkLBA |-> w.checkLBA, hasCheck |-> w.hasCheck, synced |-> w.synced]
      BY <3>1, <3>2
    <3> QED BY <3>3 DEF c
  <2>3. RollbackTo(w, n) = LeavePack(IF n \in w.qLBA .. w.next THEN u ELSE v)
    BY DEF RollbackTo
  <2> HIDE DEF v, u
  <2>4. Placed(v) /\ v.pending = <<>>
    BY <1>0, <2>1 DEF Shape, Placed
  <2>5. n \in w.qLBA .. w.next => Placed(u) /\ u.pending = <<>>
    <3> SUFFICES ASSUME n \in w.qLBA .. w.next PROVE Placed(u) /\ u.pending = <<>>
      OBVIOUS
    <3>1. n - w.qLBA \in Nat /\ n = w.qLBA + (n - w.qLBA)
      BY <1>0 DEF Shape
    <3>2. u.next = n /\ u.qLBA = w.qLBA /\ u.qCount = n - w.qLBA /\ u.pending = <<>>
      BY <2>2
    <3>3. Shape(u)
      BY <1>0, <2>2, <3>1, <3>2 DEF Shape
    <3> QED BY <3>1, <3>2, <3>3 DEF Placed
  <2> QED BY <2>3, <2>4, <2>5, KeptEmptied
<1>3. Kept(AbortGroup(w))
  <2>1. CASE w.packDepth > 0
    <3> DEFINE m == w.packDepth - 1
               x == LeavePack(w)
               v == [x EXCEPT !.pending = <<>>]
    <3>0. m \in Nat
      BY <1>0, <2>1 DEF Shape
    <3>1. x = [w EXCEPT !.packDepth = m]
      BY <1>0, <2>1 DEF LeavePack, Shape
    <3> HIDE DEF x, m
    <3>2. x = [disk |-> w.disk, alt |-> w.alt, next |-> w.next, qLBA |-> w.qLBA, qCount |-> w.qCount,
               qBuf |-> w.qBuf, pending |-> w.pending, packDepth |-> m,
               checkLBA |-> w.checkLBA, hasCheck |-> w.hasCheck, synced |-> w.synced]
      BY <1>0, <3>1 DEF Shape
    <3>3. v = [disk |-> w.disk, alt |-> w.alt, next |-> w.next, qLBA |-> w.qLBA, qCount |-> w.qCount,
               qBuf |-> w.qBuf, pending |-> <<>>, packDepth |-> m,
               checkLBA |-> w.checkLBA, hasCheck |-> w.hasCheck, synced |-> w.synced]
      BY <3>2
    <3>4. AbortGroup(w) = v
      BY <2>1 DEF AbortGroup, x
    <3> HIDE DEF v
    <3>5. Kept(v)
      BY <1>0, <3>0, <3>3 DEF Kept, Placed, Fits, Shape
    <3> QED BY <3>4, <3>5
  <2>2. CASE ~(w.packDepth > 0)
    BY <2>2 DEF AbortGroup
  <2> QED BY <2>1, <2>2
<1> QED BY <1>1, <1>2, <1>3

\* A record is appended where there is room for it.
LEMMA KeptAppend ==
    ASSUME NEW w, Kept(w), NEW n \in Nat \ {0}, NEW big \in BOOLEAN, NEW r, HasRoom(w, n, big)
    PROVE  Kept(AppendRec(w, r, big))
<1>0. Placed(w) /\ Fits(w) /\ Shape(w) /\ MaxLBA \in Nat
  BY JournalAssumption DEF Kept, Placed
<1>1. CASE big
  <2>1. Placed(FlushPending(w)) /\ FlushPending(w).pending = <<>>
    BY <1>0, PlacedFlushPending DEF PackClosed
  <2>2. Placed(WriteChunks(FlushPending(w), r)) /\ WriteChunks(FlushPending(w), r).pending = <<>>
    BY <2>1, PlacedChunks
  <2> QED BY <1>1, <2>2 DEF AppendRec, Kept, Fits
<1>2. CASE ~big /\ w.packDepth > 0
  <2> DEFINE v == IF Len(w.pending) >= PackCap THEN FlushPending(w) ELSE w
             u == [v EXCEPT !.pending = Append(v.pending, r)]
  <2>1. BeforeRoom(w, big) = v
    BY <1>2 DEF BeforeRoom
  <2>2. Placed(v) /\ v.packDepth = w.packDepth
    BY <1>0, PlacedFlushPending DEF PackClosed, SameCalls
  <2>3. AppendRec(w, r, big) = u
    BY <1>2 DEF AppendRec, AppendPacked
  <2> HIDE DEF v
  <2>4. v.next + n <= MaxLBA
    BY <2>1 DEF HasRoom
  <2> DEFINE p == Append(v.pending, r)
  <2>5. u = [disk |-> v.disk, alt |-> v.alt, next |-> v.next, qLBA |-> v.qLBA, qCount |-> v.qCount,
             qBuf |-> v.qBuf, pending |-> p, packDepth |-> v.packDepth,
             checkLBA |-> v.checkLBA, hasCheck |-> v.hasCheck, synced |-> v.synced]
    <3> HIDE DEF p
    <3>1. [v EXCEPT !.pending = p]
             = [disk |-> v.disk, alt |-> v.alt, next |-> v.next, qLBA |-> v.qLBA, qCount |-> v.qCount,
                qBuf |-> v.qBuf, pending |-> p, packDepth |-> v.packDepth,
                checkLBA |-> v.checkLBA, hasCheck |-> v.hasCheck, synced |-> v.synced]
      BY <2>2 DEF Placed, Shape
    <3> QED BY <3>1 DEF p
  <2> HIDE DEF u
  <2>6. u.next = v.next /\ u.qLBA = v.qLBA /\ u.qCount = v.qCount /\ u.packDepth = v.packDepth
    BY <2>5
  <2>7. Shape(u)
    BY <2>2, <2>5 DEF Placed, Shape
  <2>8. u.next < MaxLBA
    BY <1>0, <2>2, <2>4, <2>6 DEF Placed, Shape
  <2> QED BY <1>2, <2>2, <2>3, <2>6, <2>7, <2>8 DEF Kept, Placed, Fits
<1>3. CASE ~big /\ ~(w.packDepth > 0)
  <2>1. w.pending = <<>>
    BY <1>0, <1>3 DEF Fits
  <2>2. Placed(WriteOne(w, Pack(<<r>>))) /\ WriteOne(w, Pack(<<r>>)).pending = <<>>
    BY <1>0, <2>1, PlacedWriteOne DEF OneMore
  <2> QED BY <1>3, <2>2 DEF AppendRec, Kept, Fits
<1> QED BY <1>1, <1>2, <1>3

LEMMA KeptRecord ==
    ASSUME NEW w, Kept(w), NEW r, HasRoom(w, 1, FALSE)
    PROVE  Kept(AppendRec(w, r, FALSE))
<1>1. 1 \in Nat \ {0} /\ FALSE \in BOOLEAN
  OBVIOUS
<1> QED BY <1>1, KeptAppend

LEMMA KeptCommitted ==
    ASSUME NEW w, Kept(w), HasRoom(w, 1, FALSE)
    PROVE  Kept(Committed(w))
<1> DEFINE r == -tx.id
           u == Flush(AppendRec(w, r, FALSE))
<1> HIDE DEF r
<1>1. Kept(AppendRec(w, r, FALSE))
  BY KeptRecord
<1> USE DEF r
<1>2. PackClosed(u, AppendRec(w, -tx.id, FALSE))
  BY <1>1, PlacedFlush DEF Kept
<1>3. Committed(w) = LeavePack(u)
  BY DEF Committed
<1> HIDE DEF u
<1> QED BY <1>2, <1>3, KeptEmptied DEF PackClosed

LEMMA KeptSync ==
    ASSUME NEW w, Kept(w), NEW o
    PROVE  /\ Kept(SyncWAL(w, o).w) /\ Kept(CallDurability(SyncWAL(w, o), o).w)
<1>1. SyncWAL(w, o).w = w \/ SyncWAL(w, o).w = Flush(w)
  BY DEF SyncWAL
<1>2. Kept(SyncWAL(w, o).w)
  BY <1>1, KeptFlushes DEF Kept
<1> DEFINE s == SyncWAL(w, o)
<1> HIDE DEF s
<1>3. Kept(s.w)
  BY <1>2 DEF s
<1>4. CallDurability(s, o).w = s.w \/ CallDurability(s, o).w = Flush(s.w)
  BY DEF CallDurability
<1>5. Kept(CallDurability(s, o).w)
  BY <1>3, <1>4, KeptFlushes DEF Kept
<1> QED BY <1>2, <1>5 DEF s

\* Nothing waits in the buffers of w.
Drained(w) == w.pending = <<>> /\ w.qCount = 0

\* Nothing on the device of w is in doubt.
Still(w) == \A l \in LBAs : w.alt[l] = {w.disk[l]}

LEMMA FlushStill ==
    ASSUME NEW w, Placed(w)
    PROVE  Kept(Flush(w)) /\ Drained(Flush(w)) /\ Still(Flush(w))
<1> DEFINE u == TruncReady(w)
           x == DevFlush(u)
           v == Flush(w)
<1>1. Kept(v) /\ Drained(v)
  BY KeptFlushes, PlacedFlush DEF PackClosed, Drained
<1>2. v = [x EXCEPT !.synced = TRUE]
  BY DEF Flush, TruncReady
<1>3. Shape(u)
  BY PlacedTruncReady DEF PackClosed, Placed
<1> HIDE DEF u, x
<1>4. Shape(x) /\ x.disk = u.disk /\ x.alt = [l \in LBAs |-> {u.disk[l]}]
  BY <1>3, DevFlushFields DEF SameBuffers, x
<1>5. v.disk = x.disk /\ v.alt = x.alt
  <2> HIDE DEF v
  <2>1. v = [disk |-> x.disk, alt |-> x.alt, next |-> x.next, qLBA |-> x.qLBA, qCount |-> x.qCount,
             qBuf |-> x.qBuf, pending |-> x.pending, packDepth |-> x.packDepth,
             checkLBA |-> x.checkLBA, hasCheck |-> x.hasCheck, synced |-> TRUE]
    BY <1>2, <1>4 DEF Shape
  <2> QED BY <2>1
<1> HIDE DEF v
<1>6. Still(v)
  BY <1>4, <1>5 DEF Still
<1> QED BY <1>1, <1>6 DEF v

LEMMA KeptMark ==
    ASSUME NEW w, Kept(w), ck.lba \in Int
    PROVE  Kept(CheckpointMark(w)) /\ Drained(CheckpointMark(w)) /\ Still(CheckpointMark(w))
<1> DEFINE u == WriteOne(FlushPending(w), Check)
           x == Flush(u)
           c == ck.lba
           v == CheckpointMark(w)
<1>1. Placed(u)
  BY PlacedFlushPending, PlacedWriteOne DEF PackClosed, Kept
<1>2. v = [x EXCEPT !.checkLBA = c, !.hasCheck = TRUE]
  BY DEF CheckpointMark
<1> HIDE DEF u, x, c, v
<1>3. Kept(x) /\ Drained(x) /\ Still(x)
  BY <1>1, FlushStill DEF x
<1>4. v = [disk |-> x.disk, alt |-> x.alt, next |-> x.next, qLBA |-> x.qLBA, qCount |-> x.qCount,
           qBuf |-> x.qBuf, pending |-> x.pending, packDepth |-> x.packDepth,
           checkLBA |-> c, hasCheck |-> TRUE, synced |-> x.synced]
  BY <1>2, <1>3 DEF Kept, Placed, Shape
<1>5. /\ v.disk = x.disk /\ v.alt = x.alt /\ v.next = x.next /\ v.qLBA = x.qLBA /\ v.qCount = x.qCount
      /\ v.pending = x.pending /\ v.packDepth = x.packDepth /\ v.checkLBA = c
  BY <1>4
<1>6. Shape(v)
  BY <1>3, <1>4, <1>5 DEF Kept, Placed, Shape, c
<1> QED BY <1>3, <1>5, <1>6 DEF v, Kept, Placed, Fits, Drained, Still

\* The struct as a truncation leaves it, before it writes.
Truncated(v) == [v EXCEPT !.next = NKeep(v), !.checkLBA = 0]

LEMMA KeptTruncated ==
    ASSUME NEW w, Placed(w)
    PROVE  LET u == TruncReady(w)
               v == Truncated(u)
           IN  /\ Kept(v) /\ Drained(v)
               /\ v.next = NKeep(u) /\ v.checkLBA = 0 /\ v.disk = u.disk /\ v.qBuf = u.qBuf
<1> DEFINE u == TruncReady(w)
           n == NKeep(u)
           v == Truncated(u)
<1>1. Placed(u) /\ Drained(u)
  BY PlacedTruncReady DEF PackClosed, Drained
<1> HIDE DEF u
<1>2. n \in Int
  BY <1>1 DEF NKeep, NTail, Src, Placed, Shape
<1>3. v = [u EXCEPT !.next = n, !.checkLBA = 0]
  BY DEF Truncated
<1> HIDE DEF n, v
<1>4. v = [disk |-> u.disk, alt |-> u.alt, next |-> n, qLBA |-> u.qLBA, qCount |-> u.qCount,
           qBuf |-> u.qBuf, pending |-> u.pending, packDepth |-> u.packDepth,
           checkLBA |-> 0, hasCheck |-> u.hasCheck, synced |-> u.synced]
  BY <1>1, <1>3 DEF Placed, Shape
<1>5. /\ v.next = n /\ v.qLBA = u.qLBA /\ v.qCount = u.qCount /\ v.pending = u.pending /\ v.checkLBA = 0
      /\ v.disk = u.disk /\ v.qBuf = u.qBuf
  BY <1>4
<1>6. Shape(v)
  BY <1>1, <1>2, <1>4, <1>5 DEF Placed, Shape
<1>7. Kept(v) /\ Drained(v)
  BY <1>1, <1>5, <1>6 DEF Kept, Placed, Fits, Drained
<1> QED BY <1>5, <1>7 DEF v, u, n

-----------------------------------------------------------------------------
(* The tip and the last checkpoint.                                        *)

LEMMA TipIs ==
    ASSUME NEW d
    PROVE  /\ Tip(d) \in 0 .. MaxLBA
           /\ \A l \in LBAs : l < Tip(d) => d[l] # Null
           /\ Tip(d) < MaxLBA => d[Tip(d)] = Null
<1> DEFINE S == {l \in LBAs : d[l] = Null} \cup {MaxLBA}
<1>0. MaxLBA \in Nat /\ S \subseteq Nat /\ S # {}
  BY JournalAssumption DEF LBAs
<1>1. \E n \in S : \A m \in S : n <= m
  BY <1>0, Least
<1>2. Tip(d) \in S /\ \A m \in S : Tip(d) <= m
  BY <1>1 DEF Tip, Min
<1>3. MaxLBA \in S /\ \A l \in LBAs : d[l] = Null => l \in S
  OBVIOUS
<1>4. Tip(d) \in Nat /\ Tip(d) <= MaxLBA
  BY <1>0, <1>2, <1>3
<1>5. Tip(d) < MaxLBA => Tip(d) \in LBAs /\ d[Tip(d)] = Null
  <2>1. Tip(d) # MaxLBA => Tip(d) \in {l \in LBAs : d[l] = Null}
    BY <1>2
  <2> QED BY <1>0, <1>4, <2>1
<1>6. ASSUME NEW l \in LBAs, l < Tip(d), d[l] = Null PROVE FALSE
  BY <1>2, <1>3, <1>4, <1>6 DEF LBAs
<1> QED BY <1>0, <1>4, <1>5, <1>6

\* A device that agrees up to the tip, and is empty there, has the same tip.
LEMMA SameTip ==
    ASSUME NEW d, NEW e, \A l \in LBAs : l <= Tip(d) => e[l] = d[l]
    PROVE  Tip(e) = Tip(d)
<1> DEFINE t == Tip(d)
           u == Tip(e)
<1>0. MaxLBA \in Nat
  BY JournalAssumption
<1>1. t \in 0 .. MaxLBA /\ (\A l \in LBAs : l < t => d[l] # Null) /\ (t < MaxLBA => d[t] = Null)
  BY TipIs
<1>2. u \in 0 .. MaxLBA /\ (\A l \in LBAs : l < u => e[l] # Null) /\ (u < MaxLBA => e[u] = Null)
  BY TipIs
<1>3. \A l \in LBAs : l <= t => e[l] = d[l]
  OBVIOUS
<1> HIDE DEF t, u
<1>4. ~(u < t)
  <2> SUFFICES ASSUME u < t PROVE FALSE
    OBVIOUS
  <2>1. u \in LBAs /\ u <= t /\ u < MaxLBA
    BY <1>0, <1>1, <1>2 DEF LBAs
  <2> QED BY <1>1, <1>2, <1>3, <2>1
<1>5. ~(t < u)
  <2> SUFFICES ASSUME t < u PROVE FALSE
    OBVIOUS
  <2>1. t \in LBAs /\ t <= t /\ t < MaxLBA
    BY <1>0, <1>1, <1>2 DEF LBAs
  <2> QED BY <1>1, <1>2, <1>3, <2>1
<1> QED BY <1>1, <1>2, <1>4, <1>5 DEF t, u

\* A bounded set of integers has a greatest element.
LEMMA Greatest ==
    ASSUME NEW n \in Nat, NEW S, S # {}, S \subseteq -1 .. n
    PROVE  Max(S) \in S /\ \A x \in S : x <= Max(S)
<1> DEFINE T == {k \in Nat : n - k \in S}
<1>1. T \subseteq Nat /\ T # {}
  <2>1. PICK x \in S : TRUE
    OBVIOUS
  <2>2. n - x \in Nat /\ n - (n - x) = x
    BY <2>1
  <2> QED BY <2>1, <2>2
<1>2. PICK k \in T : \A m \in T : k <= m
  BY <1>1, Least
<1>3. \A x \in S : n - x \in T /\ x \in Int
  <2>1. ASSUME NEW x \in S PROVE n - x \in Nat /\ n - (n - x) = x /\ x \in Int
    OBVIOUS
  <2> QED BY <2>1
<1>4. n - k \in S /\ \A x \in S : n - k >= x
  BY <1>2, <1>3
<1>5. Max(S) \in S /\ \A y \in S : Max(S) >= y
  BY <1>4 DEF Max
<1> QED BY <1>3, <1>5

LEMMA LastCheckIs ==
    ASSUME NEW d, NEW n \in Nat
    PROVE  /\ LastCheck(d, n) \in -1 .. n - 1
           /\ LastCheck(d, n) >= 0 => IsCheck(d[LastCheck(d, n)])
           /\ \A l \in 0 .. n - 1 : l > LastCheck(d, n) => ~IsCheck(d[l])
<1> DEFINE S == {l \in 0 .. n - 1 : IsCheck(d[l])} \cup {-1}
<1>1. S # {} /\ S \subseteq -1 .. n
  OBVIOUS
<1>2. Max(S) \in S /\ \A x \in S : x <= Max(S)
  <2> HIDE DEF S
  <2> QED BY <1>1, Greatest
<1>3. LastCheck(d, n) = Max(S)
  BY DEF LastCheck
<1>4. -1 \in S /\ \A l \in 0 .. n - 1 : IsCheck(d[l]) => l \in S
  OBVIOUS
<1>5. \A x \in S : x = -1 \/ (x \in 0 .. n - 1 /\ IsCheck(d[x]))
  OBVIOUS
<1> DEFINE m == Max(S)
<1> HIDE DEF S, m
<1>6. m \in S /\ \A x \in S : x <= m
  BY <1>2 DEF m
<1> QED BY <1>3, <1>4, <1>5, <1>6 DEF m

-----------------------------------------------------------------------------
(* The invariant: what is kept, where the writer goes back to, and what a  *)
(* stopped, opening or repaired log has on its device.                     *)

Between == {"idle", "tx", "batch"}
FromMark == {<<"idle">>, <<"tx">>, <<"open">>}
FromCut == {<<"idle">>, <<"tx">>, <<"batch">>, <<"checkpoint", "idle">>, <<"checkpoint", "tx">>,
            <<"checkpoint", "open">>}

\* The writer only goes back to a call, or to the checkpoint of a call or of an opening.
BackOK ==
    /\ pc = "checkpoint" => back \in FromMark
    /\ pc = "truncate" => back \in FromCut
    /\ pc \notin {"checkpoint", "truncate"} => back = <<>>

\* The checkpoint of an opening, and the truncation it asks for.
OpeningMark == pc = "checkpoint" /\ back = <<"open">>
Opening == OpeningMark \/ (pc = "truncate" /\ back = <<"checkpoint", "open">>)

\* The writes left of a repair are zeroes at or after the tip t.
CutWrites(t) == {Write(l, Null) : l \in t .. MaxLBA}
Cutting ==
    /\ script \in Seq(CutWrites(Tip(j.disk)))
    /\ \A l \in LBAs : l <= Tip(j.disk) => j.alt[l] = {j.disk[l]}

JournalInv ==
    /\ Kept(j) /\ tx.next \in Int /\ ck.lba \in Int
    /\ BackOK
    /\ pc \in {"down", "refused", "repair"} \/ Opening => Drained(j)
    /\ pc \in {"down", "refused"} \/ OpeningMark => Still(j)
    /\ pc = "repair" => Cutting

LEMMA GoesOn ==
    ASSUME Kept(j'), tx'.next \in Int, ck'.lba \in Int, pc' \in Between, back' = <<>>
    PROVE  JournalInv'
BY DEF JournalInv, BackOK, Opening, OpeningMark, Between

LEMMA GoesToMark ==
    ASSUME Kept(j'), tx'.next \in Int, ck'.lba \in Int, pc' = "checkpoint", back' \in {<<"idle">>, <<"tx">>}
    PROVE  JournalInv'
<1>1. back' # <<"open">> /\ back' \in FromMark
  BY DEF FromMark
<1> QED BY <1>1 DEF JournalInv, BackOK, Opening, OpeningMark

LEMMA GoesToCut ==
    ASSUME Kept(j'), Drained(j'), tx'.next \in Int, ck'.lba \in Int, pc' = "truncate", back' \in FromCut
    PROVE  JournalInv'
BY DEF JournalInv, BackOK, Opening, OpeningMark

LEMMA StartTruncateInv ==
    ASSUME NEW w, Placed(w), NEW p, NEW rest, StartTruncate(w, p, rest), <<p>> \o rest \in FromCut,
           tx'.next \in Int, ck'.lba \in Int
    PROVE  JournalInv'
<1>1. j' = Truncated(TruncReady(w)) /\ pc' = "truncate" /\ back' = <<p>> \o rest
  BY DEF StartTruncate, Truncated
<1>2. Kept(j') /\ Drained(j')
  BY <1>1, KeptTruncated
<1> QED BY <1>1, <1>2, GoesToCut

LEMMA AppendTruncatesInv ==
    ASSUME JournalInv, NEW w, Kept(w), NEW c, NEW n, NEW alone, AppendTruncates(c, w, n, alone),
           pc \in Between \cup {"checkpoint"}
    PROVE  JournalInv'
<1>1. StartTruncate(w, pc, back) /\ tx' = tx /\ ck' = ck
  BY DEF AppendTruncates, workVars
<1>2. <<pc>> \o back \in FromCut
  <2>1. CASE pc \in Between
    <3>1. back = <<>>
      BY <2>1 DEF JournalInv, BackOK, Between
    <3>2. <<pc>> \o back = <<pc>>
      BY <3>1
    <3> QED BY <2>1, <3>2 DEF Between, FromCut
  <2>2. CASE pc = "checkpoint"
    <3>1. back \in FromMark
      BY <2>2 DEF JournalInv, BackOK
    <3>2. \A p : <<pc>> \o <<p>> = <<pc, p>>
      BY Pair
    <3> QED BY <2>2, <3>1, <3>2 DEF FromMark, FromCut
  <2> QED BY <2>1, <2>2
<1>3. Placed(w) /\ tx.next \in Int /\ ck.lba \in Int
  BY DEF JournalInv, Kept
<1> QED BY <1>1, <1>2, <1>3, StartTruncateInv

LEMMA PutInv == JournalInv /\ (\E o \in Ops : Put(o)) => JournalInv'
<1> SUFFICES ASSUME JournalInv, NEW o \in Ops, Put(o) PROVE JournalInv'
  OBVIOUS
<1> DEFINE w == EnsurePack(j)
           big == o = "big"
           s == CallDurability(SyncWAL(AppendRec(w, NewRec, big), o), o)
<1>0. /\ pc = "idle" /\ back = <<>> /\ Kept(j) /\ tx.next \in Int /\ ck.lba \in Int
      /\ big \in BOOLEAN /\ Blocks(big) \in Nat \ {0}
  BY JournalAssumption DEF Put, JournalInv, BackOK, Blocks
<1>1. Kept(w)
  BY <1>0, KeptPacks
<1>2. CASE AppendTruncates(o, w, Blocks(big), big)
  BY <1>0, <1>1, <1>2, AppendTruncatesInv DEF Between
<1>3. CASE /\ AppendRefused(o, w, Blocks(big), big)
           /\ j' = Refused(w, big)
           /\ UNCHANGED <<flagVars, workVars, pc, back, script, ck, bookVars, boundVars>>
  <2>1. Kept(j')
    BY <1>1, <1>3, KeptBeforeRoom
  <2> QED BY <1>0, <1>3, <2>1, GoesOn DEF Between, workVars
<1>4. CASE /\ AppendGoesOn(o, w, Blocks(big), big)
           /\ j' = s.w
           /\ UNCHANGED <<pc, back, ck, tx>>
  <2> HIDE DEF w, big
  <2>1. HasRoom(w, Blocks(big), big)
    BY <1>4 DEF AppendGoesOn
  <2>2. Kept(AppendRec(w, NewRec, big))
    BY <1>0, <1>1, <2>1, KeptAppend
  <2>3. Kept(s.w)
    BY <2>2, KeptSync
  <2> HIDE DEF s
  <2> QED BY <1>0, <1>4, <2>3, GoesOn DEF Between
<1> QED BY <1>2, <1>3, <1>4 DEF Put

LEMMA FlushesInv == JournalInv /\ (WindowFlush \/ Sync) => JournalInv'
<1> SUFFICES ASSUME JournalInv, WindowFlush \/ Sync PROVE JournalInv'
  OBVIOUS
<1>1. j' = j \/ j' = Flush(j)
  BY DEF WindowFlush, Sync
<1>2. pc = "idle" /\ pc' = pc /\ back' = back /\ tx' = tx /\ ck' = ck
  BY DEF WindowFlush, Sync, workVars
<1>3. Kept(j) /\ back = <<>> /\ tx.next \in Int /\ ck.lba \in Int
  BY <1>2 DEF JournalInv, BackOK
<1>4. Kept(j')
  BY <1>1, <1>3, KeptFlushes DEF Kept
<1> QED BY <1>2, <1>3, <1>4, GoesOn DEF Between

LEMMA BatchGivesUpInv ==
    ASSUME NEW w, Kept(w), back = <<>>, ck.lba \in Int, BatchGivesUp(w)
    PROVE  JournalInv'
<1>1. Kept(j')
  <2>1. 0 \in Int
    OBVIOUS
  <2> QED BY <2>1, KeptGivenUp DEF BatchGivesUp
<1>2. pc' \in Between /\ back' = <<>> /\ tx'.next \in Int /\ ck'.lba \in Int
  BY DEF BatchGivesUp, NoTx, Between
<1> QED BY <1>1, <1>2, GoesOn

LEMMA BatchInv == JournalInv /\ (BatchBegin \/ BatchAppend \/ BatchFail) => JournalInv'
<1> SUFFICES ASSUME JournalInv, BatchBegin \/ BatchAppend \/ BatchFail PROVE JournalInv'
  OBVIOUS
<1>0. Kept(j) /\ back = <<>> /\ tx.next \in Int /\ ck.lba \in Int /\ pc \in Between
  BY DEF JournalInv, BackOK, BatchBegin, BatchAppend, BatchFail, Between
<1>1. CASE BatchBegin
  <2>1. Kept(j')
    BY <1>0, <1>1, KeptPacks DEF BatchBegin
  <2>2. pc' \in Between /\ back' = <<>> /\ tx'.next \in Int /\ ck'.lba \in Int
    BY <1>0, <1>1 DEF BatchBegin, NoTx, Between
  <2> QED BY <2>1, <2>2, GoesOn
<1>2. CASE BatchAppend
  <2>1. CASE AppendTruncates("append", j, 1, FALSE)
    BY <1>0, <2>1, AppendTruncatesInv
  <2>2. CASE BatchGivesUp(Refused(j, FALSE))
    BY <1>0, <2>2, KeptBeforeRoom, BatchGivesUpInv
  <2>3. CASE /\ AppendGoesOn("append", j, 1, FALSE)
             /\ j' = AppendRec(j, NewRec, FALSE)
             /\ tx' = [tx EXCEPT !.recs = @ \cup {NewRec}]
             /\ UNCHANGED <<pc, back, ck>>
    <3>1. HasRoom(j, 1, FALSE)
      BY <2>3 DEF AppendGoesOn
    <3>2. Kept(j')
      BY <1>0, <2>3, <3>1, KeptRecord
    <3>3. tx'.next = tx.next
      BY <2>3
    <3> QED BY <1>0, <2>3, <3>2, <3>3, GoesOn
  <2> QED BY <1>2, <2>1, <2>2, <2>3 DEF BatchAppend
<1>3. CASE BatchFail
  BY <1>0, <1>3, BatchGivesUpInv DEF BatchFail
<1> QED BY <1>1, <1>2, <1>3

\* The log is full: an opening is refused, a call goes on.
LEMMA CheckpointFailsInv ==
    ASSUME JournalInv, pc = "checkpoint", CheckpointFails, Kept(j'),
           tx' = tx, ck' = ck, back = <<"open">> => Drained(j') /\ Still(j')
    PROVE  JournalInv'
<1>0. back \in FromMark /\ tx.next \in Int /\ ck.lba \in Int
  BY DEF JournalInv, BackOK
<1>1. CASE back = <<"open">>
  <2>1. pc' = "refused" /\ back' = <<>>
    BY <1>1, SingleParts DEF CheckpointFails
  <2> QED BY <1>0, <1>1, <2>1 DEF JournalInv, BackOK, Opening, OpeningMark
<1>2. CASE back \in {<<"idle">>, <<"tx">>}
  <2>1. pc' \in Between /\ back' = <<>>
    BY <1>2, SingleParts DEF CheckpointFails, Between
  <2> QED BY <1>0, <2>1, GoesOn
<1> QED BY <1>0, <1>1, <1>2 DEF FromMark

LEMMA CheckpointAppendInv == JournalInv /\ CheckpointAppend => JournalInv'
<1> SUFFICES ASSUME JournalInv, CheckpointAppend PROVE JournalInv'
  OBVIOUS
<1>0. /\ pc = "checkpoint" /\ back \in FromMark /\ Kept(j) /\ tx.next \in Int /\ ck.lba \in Int
      /\ back = <<"open">> => Drained(j) /\ Still(j)
  BY DEF CheckpointAppend, JournalInv, BackOK, Opening, OpeningMark
<1>1. CASE AppendTruncates("check", j, 1, TRUE)
  BY <1>0, <1>1, AppendTruncatesInv
<1>2. CASE j' = Refused(j, TRUE) /\ CheckpointFails /\ UNCHANGED <<ck, workVars>>
  <2>1. Kept(j')
    BY <1>0, <1>2, KeptBeforeRoom
  <2>2. ASSUME back = <<"open">> PROVE Drained(j') /\ Still(j')
    <3>1. j.pending = <<>> /\ j.qCount = 0
      BY <1>0, <2>2 DEF Drained
    <3>2. FlushPending(j) = j /\ FlushQuantum(j) = j
      BY <3>1 DEF FlushPending, FlushQuantum
    <3>3. TruncReady(j) = j /\ BeforeRoom(j, TRUE) = j
      BY <3>2 DEF TruncReady, BeforeRoom
    <3>4. j' = j
      BY <1>2, <3>3 DEF Refused
    <3> QED BY <1>0, <2>2, <3>4
  <2> QED BY <1>0, <1>2, <2>1, <2>2, CheckpointFailsInv DEF workVars
<1>3. CASE /\ \/ StartTruncate(CheckpointMark(j), IF Head(back) = "open" THEN "idle" ELSE Head(back), <<>>)
              \/ j' = CheckpointMark(j) /\ CheckpointFails
              \/ /\ j' = CheckpointMark(j) /\ back' = <<>>
                 /\ pc' = (IF Head(back) = "open" THEN "idle" ELSE Head(back))
           /\ UNCHANGED <<ck, workVars>>
  <2> DEFINE p == IF Head(back) = "open" THEN "idle" ELSE Head(back)
             w == CheckpointMark(j)
  <2>1. p \in {"idle", "tx"}
    BY <1>0, SingleParts DEF FromMark
  <2>2. Kept(w) /\ Drained(w) /\ Still(w)
    BY <1>0, KeptMark
  <2>3. tx' = tx /\ ck' = ck
    BY <1>3 DEF workVars
  <2>4. \/ StartTruncate(w, p, <<>>)
        \/ j' = w /\ CheckpointFails
        \/ j' = w /\ back' = <<>> /\ pc' = p
    BY <1>3
  <2> HIDE DEF w, p
  <2>5. CASE StartTruncate(w, p, <<>>)
    <3>1. <<p>> \o <<>> = <<p>>
      OBVIOUS
    <3>2. <<p>> \o <<>> \in FromCut
      BY <2>1, <3>1 DEF FromCut
    <3> QED BY <1>0, <2>2, <2>3, <2>5, <3>2, StartTruncateInv DEF Kept
  <2>6. CASE j' = w /\ CheckpointFails
    BY <1>0, <2>2, <2>3, <2>6, CheckpointFailsInv
  <2>7. CASE j' = w /\ back' = <<>> /\ pc' = p
    BY <1>0, <2>1, <2>2, <2>3, <2>7, GoesOn DEF Between
  <2> QED BY <2>4, <2>5, <2>6, <2>7
<1> QED BY <1>1, <1>2, <1>3 DEF CheckpointAppend

LEMMA CheckpointInv == JournalInv /\ (Checkpoint \/ BatchEnd \/ PutFull) => JournalInv'
<1> SUFFICES ASSUME JournalInv, Checkpoint \/ BatchEnd \/ PutFull PROVE JournalInv'
  OBVIOUS
<1>0. /\ pc \in Between /\ back = <<>> /\ Kept(j) /\ j.next \in Int /\ tx.next \in Int /\ ck.lba \in Int
  BY DEF Checkpoint, BatchEnd, PutFull, JournalInv, BackOK, Between, Kept, Placed, Shape
<1>1. CASE Checkpoint
  <2>1. j' = j /\ tx' = tx /\ ck'.lba = j.next /\ pc' = "checkpoint" /\ back' = <<"idle">>
    BY <1>1 DEF Checkpoint, StartCheckpoint, workVars
  <2> QED BY <1>0, <2>1, GoesToMark
<1>2. CASE BatchEnd
  <2>1. Kept(j')
    BY <1>0, <1>2, KeptPacks DEF BatchEnd
  <2>2. j'.next \in Int
    BY <2>1 DEF Kept, Placed, Shape
  <2>3. tx'.next \in Int
    BY <1>2 DEF BatchEnd, NoTx
  <2>4. CASE StartCheckpoint(j', published', "half", <<"idle">>)
    <3>1. ck'.lba = j'.next /\ pc' = "checkpoint" /\ back' = <<"idle">>
      BY <2>4 DEF StartCheckpoint
    <3> QED BY <2>1, <2>2, <2>3, <3>1, GoesToMark
  <2>5. CASE pc' = "idle" /\ UNCHANGED <<inHeap, ck, back>>
    BY <1>0, <2>1, <2>3, <2>5, GoesOn DEF Between
  <2> QED BY <1>2, <2>4, <2>5 DEF BatchEnd
<1>3. CASE PutFull
  <2> DEFINE w == EnsurePack(j)
             s == SyncWAL(AppendRec(w, NewRec, FALSE), "put")
  <2>1. HasRoom(w, 1, FALSE) /\ j' = s.w /\ StartCheckpoint(s.w, published, "no", <<"idle">>) /\ tx' = tx
    BY <1>3 DEF PutFull
  <2> HIDE DEF w
  <2>2. Kept(w)
    BY <1>0, KeptPacks DEF w
  <2>3. Kept(AppendRec(w, NewRec, FALSE))
    BY <2>1, <2>2, KeptRecord
  <2>4. Kept(s.w)
    BY <2>3, KeptSync
  <2> HIDE DEF s
  <2>5. ck'.lba = s.w.next /\ pc' = "checkpoint" /\ back' = <<"idle">>
    BY <2>1 DEF StartCheckpoint
  <2>6. s.w.next \in Int
    BY <2>4 DEF Kept, Placed, Shape
  <2> QED BY <1>0, <2>1, <2>4, <2>5, <2>6, GoesToMark
<1> QED BY <1>1, <1>2, <1>3

LEMMA TxAbortedInv ==
    ASSUME JournalInv, NEW w, Kept(w), back = <<>>, TxAborted(w)
    PROVE  JournalInv'
<1>0. tx.next \in Int /\ ck.lba \in Int
  BY DEF JournalInv
<1>1. Kept(RollbackTo(w, tx.next)) /\ Kept(AbortGroup(w))
  BY <1>0, KeptGivenUp
<1>2. Kept(AbortGroup(RollbackTo(w, tx.next)))
  BY <1>0, <1>1, KeptGivenUp
<1>3. Kept(j')
  BY <1>1, <1>2 DEF TxAborted
<1>4. pc' \in Between /\ back' = <<>> /\ tx'.next \in Int /\ ck'.lba \in Int
  BY <1>0 DEF TxAborted, TxEnds, NoTx, Between
<1> QED BY <1>3, <1>4, GoesOn

LEMMA TxInv ==
    JournalInv /\ (TxBegin \/ TxAppend \/ TxFull \/ TxCommit \/ TxRollback \/ TxEmptyCommit) => JournalInv'
<1> SUFFICES ASSUME JournalInv, TxBegin \/ TxAppend \/ TxFull \/ TxCommit \/ TxRollback \/ TxEmptyCommit
             PROVE  JournalInv'
  OBVIOUS
<1>0. /\ pc \in Between /\ back = <<>> /\ Kept(j) /\ j.next \in Int /\ tx.next \in Int /\ ck.lba \in Int
  BY DEF TxBegin, TxAppend, TxFull, TxCommit, TxRollback, TxEmptyCommit, JournalInv, BackOK, Between,
         Kept, Placed, Shape
<1>1. CASE TxBegin
  <2>1. Kept(j')
    BY <1>0, <1>1, KeptPacks DEF TxBegin
  <2>2. tx'.next = j.next
    BY <1>1 DEF TxBegin, NoTx
  <2> QED BY <1>0, <1>1, <2>1, <2>2, GoesOn DEF TxBegin, Between
<1>2. CASE TxAppend
  <2> DEFINE w == EnsurePack(j)
  <2>1. Kept(w)
    BY <1>0, KeptPacks
  <2>2. \/ AppendTruncates("append", w, 1, FALSE)
        \/ /\ j' = Refused(w, FALSE)
           /\ tx' = [tx EXCEPT !.mutated = TRUE]
           /\ UNCHANGED <<pc, back, ck>>
        \/ /\ HasRoom(w, 1, FALSE)
           /\ j' = AppendRec(w, NewRec, FALSE)
           /\ tx' = [tx EXCEPT !.recs = @ \cup {NewRec}, !.live = @ \cup {NewRec},
                             !.mutated = TRUE, !.id = TxId]
           /\ UNCHANGED <<pc, back, ck>>
    BY <1>2 DEF TxAppend, AppendGoesOn
  <2> HIDE DEF w
  <2>3. CASE AppendTruncates("append", w, 1, FALSE)
    BY <1>0, <2>1, <2>3, AppendTruncatesInv
  <2>4. CASE j' = Refused(w, FALSE) /\ tx' = [tx EXCEPT !.mutated = TRUE] /\ UNCHANGED <<pc, back, ck>>
    <3>1. Kept(j')
      BY <2>1, <2>4, KeptBeforeRoom
    <3>2. tx'.next = tx.next
      BY <2>4
    <3> QED BY <1>0, <2>4, <3>1, <3>2, GoesOn
  <2>5. CASE /\ HasRoom(w, 1, FALSE)
             /\ j' = AppendRec(w, NewRec, FALSE)
             /\ tx' = [tx EXCEPT !.recs = @ \cup {NewRec}, !.live = @ \cup {NewRec},
                               !.mutated = TRUE, !.id = TxId]
             /\ UNCHANGED <<pc, back, ck>>
    <3>1. Kept(j')
      BY <2>1, <2>5, KeptRecord
    <3>2. tx'.next = tx.next
      BY <2>5
    <3> QED BY <1>0, <2>5, <3>1, <3>2, GoesOn
  <2> QED BY <2>2, <2>3, <2>4, <2>5
<1>3. CASE TxFull
  <2> DEFINE w == EnsurePack(j)
  <2>1. HasRoom(w, 1, FALSE) /\ j' = AppendRec(w, NewRec, FALSE)
    BY <1>3 DEF TxFull
  <2> HIDE DEF w
  <2>2. Kept(j')
    BY <1>0, <2>1, KeptPacks, KeptRecord DEF w
  <2>3. ck'.lba = j'.next /\ pc' = "checkpoint" /\ back' = <<"tx">> /\ j'.next \in Int
    BY <1>3, <2>2 DEF TxFull, StartCheckpoint, Kept, Placed, Shape
  <2>4. tx'.next = tx.next
    BY <1>3 DEF TxFull
  <2> QED BY <1>0, <2>2, <2>3, <2>4, GoesToMark
<1>4. CASE TxCommit
  <2>1. CASE AppendTruncates("mark", j, 1, FALSE)
    BY <1>0, <2>1, AppendTruncatesInv
  <2>2. CASE TxAborted(Refused(j, FALSE))
    BY <1>0, <2>2, KeptBeforeRoom, TxAbortedInv
  <2>3. CASE /\ AppendGoesOn("mark", j, 1, FALSE) /\ j' = Committed(j)
             /\ TxEnds(TRUE) /\ pc' = "idle" /\ UNCHANGED <<back, ck>>
    <3>1. Kept(j')
      BY <1>0, <2>3, KeptCommitted DEF AppendGoesOn
    <3>2. tx'.next \in Int
      BY <2>3 DEF TxEnds, NoTx
    <3> QED BY <1>0, <2>3, <3>1, <3>2, GoesOn DEF Between
  <2> QED BY <1>4, <2>1, <2>2, <2>3 DEF TxCommit
<1>5. CASE TxRollback
  BY <1>0, <1>5, TxAbortedInv DEF TxRollback
<1>6. CASE TxEmptyCommit
  BY <1>0, <1>6, GoesOn DEF TxEmptyCommit, NoTx, Between
<1> QED BY <1>1, <1>2, <1>3, <1>4, <1>5, <1>6

-----------------------------------------------------------------------------
(* The device alone changes.                                               *)

LEMMA KeptDevice ==
    ASSUME NEW w, Kept(w), NEW v, SameBuffers(v, w)
    PROVE  Kept(v) /\ (Drained(w) => Drained(v))
BY DEF SameBuffers, SameCalls, Kept, Placed, Fits, Drained

\* The device of v is that of w with the block b written at l.
OneBlock(v, w, l, b) ==
    \A m \in LBAs : /\ v.disk[m] = IF m = l THEN b ELSE w.disk[m]
                    /\ v.alt[m] = IF m = l THEN w.alt[m] \cup {b} ELSE w.alt[m]

LEMMA WroteOneBlock ==
    ASSUME NEW w, Shape(w), NEW l, l \in Nat, NEW b
    PROVE  SameBuffers(DevWrite(w, l, <<b>>), w) /\ OneBlock(DevWrite(w, l, <<b>>), w, l, b)
<1> DEFINE v == DevWrite(w, l, <<b>>)
<1>1. SameBuffers(v, w) /\ WroteAt(v, w, l, <<b>>)
  BY DevWriteFields
<1> HIDE DEF v
<1>2. \A m \in LBAs : (m \in l .. l + Len(<<b>>) - 1) <=> m = l
  BY DEF LBAs
<1>3. <<b>>[l - l + 1] = b
  BY l \in Int
<1>4. OneBlock(v, w, l, b)
  BY <1>1, <1>2, <1>3 DEF WroteAt, OneBlock
<1> QED BY <1>1, <1>4 DEF v

LEMMA WriteStepInv == JournalInv /\ WriteStep => JournalInv' /\ (pc = "repair" => Tip(j'.disk) = Tip(j.disk))
<1> SUFFICES ASSUME JournalInv, WriteStep
             PROVE  JournalInv' /\ (pc = "repair" => Tip(j'.disk) = Tip(j.disk))
  OBVIOUS
<1> DEFINE h == Head(script)
<1>0. /\ pc \in {"truncate", "repair"} /\ pc' = pc /\ back' = back /\ tx' = tx /\ ck' = ck
      /\ j' = DevWrite(j, h.lba, <<h.block>>) /\ script' = Tail(script) /\ script # <<>>
  BY DEF WriteStep, workVars
<1>1. Kept(j) /\ Shape(j) /\ BackOK /\ tx.next \in Int /\ ck.lba \in Int
  BY DEF JournalInv, Kept, Placed
<1>2. SameBuffers(j', j)
  BY <1>0, <1>1, DevWriteFields
<1>3. Kept(j') /\ (Drained(j) => Drained(j'))
  BY <1>1, <1>2, KeptDevice
<1>4. CASE pc = "truncate"
  BY <1>0, <1>1, <1>3, <1>4 DEF JournalInv, BackOK, Opening, OpeningMark
<1>5. CASE pc = "repair"
  <2> DEFINE t == Tip(j.disk)
  <2>1. script \in Seq(CutWrites(t)) /\ (\A l \in LBAs : l <= t => j.alt[l] = {j.disk[l]}) /\ Drained(j)
    BY <1>5 DEF JournalInv, Cutting
  <2>2. t \in 0 .. MaxLBA /\ (t < MaxLBA => j.disk[t] = Null)
    BY TipIs
  <2>3. h \in CutWrites(t) /\ Tail(script) \in Seq(CutWrites(t))
    <3> HIDE DEF t, h
    <3> QED BY <1>0, <2>1, HeadTailProperties DEF h
  <2>4. h.block = Null /\ h.lba \in t .. MaxLBA /\ h.lba \in Nat
    <3>1. \A l : Write(l, Null).lba = l /\ Write(l, Null).block = Null
      BY DEF Write
    <3> HIDE DEF t, h
    <3>2. PICK l \in t .. MaxLBA : h = Write(l, Null)
      BY <2>3 DEF CutWrites
    <3> QED BY <2>2, <3>1, <3>2
  <2> HIDE DEF t, h
  <2>5. \A m \in LBAs : /\ j'.disk[m] = IF m = h.lba THEN Null ELSE j.disk[m]
                        /\ j'.alt[m] = IF m = h.lba THEN j.alt[m] \cup {Null} ELSE j.alt[m]
    <3>1. OneBlock(j', j, h.lba, Null)
      BY <1>0, <1>1, <2>4, WroteOneBlock
    <3> QED BY <3>1 DEF OneBlock
  <2>6. ASSUME NEW l \in LBAs, l <= t PROVE j'.disk[l] = j.disk[l] /\ j'.alt[l] = {j'.disk[l]}
    <3>1. CASE l = h.lba
      <4>1. l = t /\ t < MaxLBA
        BY JournalAssumption, <2>2, <2>4, <2>6, <3>1 DEF LBAs
      <4>2. j.disk[l] = Null /\ j.alt[l] = {Null}
        BY <2>1, <2>2, <2>6, <4>1
      <4> QED BY <2>5, <3>1, <4>2
    <3>2. CASE l # h.lba
      BY <2>1, <2>5, <2>6, <3>2
    <3> QED BY <3>1, <3>2
  <2>7. Tip(j'.disk) = t
    BY <2>6, SameTip DEF t
  <2>8. Cutting'
    BY <1>0, <2>3, <2>6, <2>7 DEF Cutting
  <2> QED BY <1>0, <1>1, <1>3, <1>5, <2>1, <2>7, <2>8 DEF JournalInv, BackOK, Opening, OpeningMark, t
<1> QED BY <1>0, <1>4, <1>5

LEMMA FlushedDevice ==
    ASSUME NEW w, Kept(w)
    PROVE  /\ Kept(DevFlush(w)) /\ (Drained(w) => Drained(DevFlush(w))) /\ Still(DevFlush(w))
           /\ DevFlush(w).disk = w.disk
<1> DEFINE v == DevFlush(w)
<1>1. SameBuffers(v, w) /\ v.disk = w.disk /\ v.alt = [l \in LBAs |-> {w.disk[l]}]
  BY DevFlushFields DEF Kept, Placed
<1> HIDE DEF v
<1>2. Still(v)
  BY <1>1 DEF Still
<1> QED BY <1>1, <1>2, KeptDevice DEF v

LEMMA TruncateDoneInv == JournalInv /\ TruncateDone => JournalInv'
<1> SUFFICES ASSUME JournalInv, TruncateDone PROVE JournalInv'
  OBVIOUS
<1>0. /\ pc = "truncate" /\ back \in FromCut /\ pc' = Head(back) /\ back' = Tail(back)
      /\ tx' = tx /\ ck' = ck /\ j' = DevFlush(j)
      /\ Kept(j) /\ tx.next \in Int /\ ck.lba \in Int
      /\ back = <<"checkpoint", "open">> => Drained(j)
  BY DEF TruncateDone, workVars, JournalInv, BackOK, Opening
<1>1. Kept(j') /\ (Drained(j) => Drained(j')) /\ Still(j')
  BY <1>0, FlushedDevice
<1>2. CASE back \in {<<"idle">>, <<"tx">>, <<"batch">>}
  <2>1. pc' \in Between /\ back' = <<>>
    BY <1>0, <1>2, SingleParts DEF Between
  <2> QED BY <1>0, <1>1, <2>1, GoesOn
<1>3. CASE back \in {<<"checkpoint", "idle">>, <<"checkpoint", "tx">>}
  <2>1. pc' = "checkpoint" /\ back' \in {<<"idle">>, <<"tx">>}
    BY <1>0, <1>3, PairParts
  <2> QED BY <1>0, <1>1, <2>1, GoesToMark
<1>4. CASE back = <<"checkpoint", "open">>
  <2>1. pc' = "checkpoint" /\ back' = <<"open">>
    BY <1>0, <1>4, PairParts
  <2> QED BY <1>0, <1>1, <1>4, <2>1 DEF JournalInv, BackOK, FromMark
<1> QED BY <1>0, <1>2, <1>3, <1>4 DEF FromCut

-----------------------------------------------------------------------------
(* Crashes, openings, repairs.                                             *)

\* A block is only lost where it was in doubt.
LEMMA ImageIs ==
    ASSUME NEW w, NEW d \in Images(w)
    PROVE  \A l \in LBAs : \/ d[l] = w.disk[l]
                           \/ PowerLoss /\ w.alt[l] # {w.disk[l]} /\ d[l] \in w.alt[l]
<1> DEFINE D == Doubtful(w)
<1>1. PICK f \in {g \in [D -> UNION {w.alt[l] : l \in D}] : \A l \in D : g[l] \in w.alt[l]} :
             d = [l \in LBAs |-> IF l \in D THEN f[l] ELSE w.disk[l]]
  BY DEF Images
<1>2. \A l \in LBAs : l \in D => f[l] \in w.alt[l]
  BY <1>1
<1>3. \A l \in LBAs : l \in D => PowerLoss /\ w.alt[l] # {w.disk[l]}
  BY DEF Doubtful
<1> HIDE DEF D
<1>4. \A l \in LBAs : d[l] = IF l \in D THEN f[l] ELSE w.disk[l]
  BY <1>1
<1> QED BY <1>2, <1>3, <1>4

LEMMA DownInv ==
    ASSUME NEW d, Down(d), tx'.next \in Int
    PROVE  JournalInv' /\ j'.disk = d /\ j'.qBuf = [i \in 1 .. Quantum |-> Null]
<1> DEFINE a == [l \in LBAs |-> {d[l]}]
<1>1. j' = [NewWAL EXCEPT !.disk = d, !.alt = a] /\ pc' = "down" /\ back' = <<>> /\ ck'.lba = 0
  BY DEF Down, NoCk
<1> HIDE DEF a
<1>2. j' = [disk |-> d, alt |-> a, next |-> 0, qLBA |-> 0, qCount |-> 0,
            qBuf |-> [i \in 1 .. Quantum |-> Null], pending |-> <<>>, packDepth |-> 0,
            checkLBA |-> 0, hasCheck |-> FALSE, synced |-> FALSE]
  BY <1>1 DEF NewWAL
<1>3. /\ j'.disk = d /\ j'.alt = a /\ j'.next = 0 /\ j'.qLBA = 0 /\ j'.qCount = 0 /\ j'.pending = <<>>
      /\ j'.packDepth = 0 /\ j'.checkLBA = 0 /\ j'.qBuf = [i \in 1 .. Quantum |-> Null]
  BY <1>2
<1>4. j' = [disk |-> j'.disk, alt |-> j'.alt, next |-> j'.next, qLBA |-> j'.qLBA, qCount |-> j'.qCount,
            qBuf |-> j'.qBuf, pending |-> j'.pending, packDepth |-> j'.packDepth,
            checkLBA |-> j'.checkLBA, hasCheck |-> j'.hasCheck, synced |-> j'.synced]
  BY <1>2
<1>5. Kept(j') /\ Drained(j')
  BY <1>3, <1>4 DEF Kept, Placed, Shape, Fits, Drained
<1>6. Still(j')
  BY <1>3 DEF Still, a
<1> QED BY <1>1, <1>3, <1>5, <1>6 DEF JournalInv, BackOK, Opening, OpeningMark

LEMMA CrashInv == JournalInv /\ (Crash \/ Close) => JournalInv' /\ (pc = "repair" => Tip(j'.disk) = Tip(j.disk))
<1> SUFFICES ASSUME JournalInv, Crash \/ Close
             PROVE  JournalInv' /\ (pc = "repair" => Tip(j'.disk) = Tip(j.disk))
  OBVIOUS
<1>1. CASE Close
  <2>1. Down(Flush(j).disk) /\ tx' = tx /\ tx.next \in Int /\ pc = "idle"
    BY <1>1 DEF Close, workVars, JournalInv
  <2> QED BY <2>1, DownInv
<1>2. CASE Crash
  <2>1. PICK d \in Images(j) : Down(d)
    BY <1>2 DEF Crash
  <2>2. tx'.next \in Int
    BY <1>2 DEF Crash, TxEnds, NoTx
  <2>3. JournalInv' /\ j'.disk = d
    BY <2>1, <2>2, DownInv
  <2>4. ASSUME pc = "repair" PROVE Tip(j'.disk) = Tip(j.disk)
    <3>1. \A l \in LBAs : l <= Tip(j.disk) => j.alt[l] = {j.disk[l]}
      BY <2>4 DEF JournalInv, Cutting
    <3>2. \A l \in LBAs : l <= Tip(j.disk) => j'.disk[l] = j.disk[l]
      BY <2>3, <3>1, ImageIs
    <3> QED BY <3>2, SameTip
  <2> QED BY <2>3, <2>4
<1> QED BY <1>1, <1>2

\* What opening finds on the device.
ScannedFrom(v, w) ==
    /\ Kept(v) /\ Drained(v) /\ Still(v) /\ v.disk = w.disk /\ v.qBuf = w.qBuf
    /\ v.next = Tip(w.disk) /\ v.qLBA = Tip(w.disk) /\ v.packDepth = w.packDepth
    /\ v.checkLBA \in {0, LastCheck(w.disk, Tip(w.disk))} /\ v.checkLBA >= 0

LEMMA ScannedIs == ASSUME NEW w, Shape(w), Drained(w), Still(w) PROVE ScannedFrom(Scanned(w), w)
<1> DEFINE n == Tip(w.disk)
           k == LastCheck(w.disk, n)
           c == Max({0, k})
           h == k >= 0
           v == Scanned(w)
<1>1. n \in 0 .. MaxLBA /\ n \in Nat /\ MaxLBA \in Nat
  BY JournalAssumption, TipIs
<1>2. k \in -1 .. n - 1
  <2> HIDE DEF n
  <2> QED BY <1>1, LastCheckIs
<1>3. v = [w EXCEPT !.next = n, !.qLBA = n, !.hasCheck = h, !.checkLBA = c]
  BY DEF Scanned
<1> HIDE DEF k, n
<1>4. c \in {0, k} /\ 0 <= c /\ k <= c
  <2>1. {0, k} # {} /\ {0, k} \subseteq -1 .. n
    BY <1>1, <1>2
  <2> QED BY <1>1, <2>1, Greatest
<1> DEFINE x == [w EXCEPT !.next = n, !.qLBA = n]
<1>5. v = [x EXCEPT !.hasCheck = h, !.checkLBA = c]
  BY <1>3
<1> DEFINE y == [w EXCEPT !.next = n]
<1>6. x = [disk |-> w.disk, alt |-> w.alt, next |-> n, qLBA |-> n, qCount |-> w.qCount,
           qBuf |-> w.qBuf, pending |-> w.pending, packDepth |-> w.packDepth,
           checkLBA |-> w.checkLBA, hasCheck |-> w.hasCheck, synced |-> w.synced]
  <2>1. x = [y EXCEPT !.qLBA = n]
    OBVIOUS
  <2>2. y = [disk |-> w.disk, alt |-> w.alt, next |-> n, qLBA |-> w.qLBA, qCount |-> w.qCount,
             qBuf |-> w.qBuf, pending |-> w.pending, packDepth |-> w.packDepth,
             checkLBA |-> w.checkLBA, hasCheck |-> w.hasCheck, synced |-> w.synced]
    BY DEF Shape
  <2> HIDE DEF x, y
  <2> QED BY <2>1, <2>2
<1> HIDE DEF x, v, c, h
<1>7. v = [disk |-> w.disk, alt |-> w.alt, next |-> n, qLBA |-> n, qCount |-> w.qCount,
           qBuf |-> w.qBuf, pending |-> w.pending, packDepth |-> w.packDepth,
           checkLBA |-> c, hasCheck |-> h, synced |-> w.synced]
  BY <1>5, <1>6
<1>8. /\ v.disk = w.disk /\ v.alt = w.alt /\ v.next = n /\ v.qLBA = n /\ v.qCount = w.qCount
      /\ v.pending = w.pending /\ v.packDepth = w.packDepth /\ v.checkLBA = c /\ v.hasCheck = h /\ v.qBuf = w.qBuf
  BY <1>7
<1>9. c \in Int /\ n \in Int
  BY <1>1, <1>2, <1>4
<1>10. Shape(v)
  BY <1>7, <1>8, <1>9 DEF Shape
<1>11. Kept(v) /\ Drained(v) /\ Still(v)
  BY <1>8, <1>10 DEF Kept, Placed, Fits, Drained, Still
<1> QED BY <1>4, <1>8, <1>11 DEF ScannedFrom, v, n, k

LEMMA OpenInv == JournalInv /\ Open => JournalInv'
<1> SUFFICES ASSUME JournalInv, Open PROVE JournalInv'
  OBVIOUS
<1>0. /\ pc = "down" /\ back = <<>> /\ Kept(j) /\ Shape(j) /\ Drained(j) /\ Still(j)
      /\ tx' = tx /\ tx.next \in Int /\ ck.lba \in Int
  BY DEF Open, JournalInv, BackOK, Kept, Placed, workVars
<1>1. CASE Ruptured(j.disk)
  <2>1. pc' = "refused" /\ j' = j /\ ck' = ck /\ back' = back
    BY <1>1 DEF Open
  <2> QED BY <1>0, <2>1 DEF JournalInv, BackOK, Opening, OpeningMark
<1>2. CASE ~Ruptured(j.disk)
  <2>1. j' = Scanned(j)
    BY <1>2 DEF Open
  <2>2. Kept(j') /\ Drained(j') /\ Still(j')
    BY <1>0, <2>1, ScannedIs DEF ScannedFrom
  <2>3. \/ StartCheckpoint(j', published', "yes", <<"open">>)
        \/ pc' = "idle" /\ UNCHANGED <<ck, back, inHeap>>
    BY <1>2 DEF Open
  <2>4. CASE StartCheckpoint(j', published', "yes", <<"open">>)
    <3>1. pc' = "checkpoint" /\ back' = <<"open">> /\ ck'.lba = j'.next
      BY <2>4 DEF StartCheckpoint
    <3>2. j'.next \in Int
      BY <2>2 DEF Kept, Placed, Shape
    <3> QED BY <1>0, <2>2, <3>1, <3>2 DEF JournalInv, BackOK, FromMark
  <2>5. CASE pc' = "idle" /\ UNCHANGED <<ck, back, inHeap>>
    BY <1>0, <2>2, <2>5, GoesOn DEF Between
  <2> QED BY <2>3, <2>4, <2>5
<1> QED BY <1>1, <1>2

LEMMA RepairInv == JournalInv /\ (Repair \/ RepairDone) => JournalInv' /\ j'.disk = j.disk
<1> SUFFICES ASSUME JournalInv, Repair \/ RepairDone PROVE JournalInv' /\ j'.disk = j.disk
  OBVIOUS
<1>0. /\ pc \in {"refused", "repair"} /\ back = <<>> /\ Kept(j) /\ Drained(j)
      /\ tx' = tx /\ ck' = ck /\ back' = back /\ tx.next \in Int /\ ck.lba \in Int
  BY DEF Repair, RepairDone, JournalInv, BackOK, workVars
<1>1. CASE Repair
  <2> DEFINE S == {l \in LBAs : j.disk[l] # Null}
             t == Tip(j.disk)
             m == Max(S)
  <2>1. j' = j /\ pc' = "repair" /\ pc = "refused" /\ script' = CutScript(j.disk) /\ Ruptured(j.disk)
    BY <1>1 DEF Repair
  <2>2. Still(j)
    BY <2>1 DEF JournalInv
  <2>3. PICK l \in S : l > t
    BY <2>1 DEF Ruptured
  <2>4. MaxLBA \in Nat /\ t \in 0 .. MaxLBA
    BY JournalAssumption, TipIs
  <2>5. S # {} /\ S \subseteq -1 .. MaxLBA /\ S \subseteq 0 .. MaxLBA - 1
    BY <2>3, <2>4 DEF LBAs
  <2>6. m \in S /\ l <= m
    <3> HIDE DEF S, t
    <3> QED BY <2>3, <2>4, <2>5, Greatest
  <2>7. CutScript(j.disk) = [i \in 1 .. m - t + 1 |-> Write(t + i - 1, Null)]
    BY DEF CutScript
  <2> HIDE DEF S, t, m
  <2>8. m - t + 1 \in Nat /\ m < MaxLBA /\ m \in Nat
    BY <2>3, <2>4, <2>5, <2>6
  <2>9. ASSUME NEW i \in 1 .. m - t + 1 PROVE Write(t + i - 1, Null) \in CutWrites(t)
    <3>1. t + i - 1 \in t .. MaxLBA
      BY <2>4, <2>8
    <3> QED BY <3>1 DEF CutWrites
  <2>10. CutScript(j.disk) \in Seq(CutWrites(t))
    <3> DEFINE n == m - t + 1
    <3>1. n \in Nat /\ \A i \in 1 .. n : Write(t + i - 1, Null) \in CutWrites(t)
      BY <2>8, <2>9
    <3> HIDE DEF n
    <3>2. [i \in 1 .. n |-> Write(t + i - 1, Null)] \in Seq(CutWrites(t))
      BY <3>1
    <3> QED BY <2>7, <3>2 DEF n
  <2>11. Cutting'
    BY <2>1, <2>2, <2>10 DEF Cutting, Still, t
  <2> QED BY <1>0, <2>1, <2>11 DEF JournalInv, BackOK, Opening, OpeningMark
<1>2. CASE RepairDone
  <2>1. j' = DevFlush(j) /\ pc' = "down"
    BY <1>2 DEF RepairDone
  <2>2. Kept(j') /\ Drained(j') /\ Still(j') /\ j'.disk = j.disk
    BY <1>0, <2>1, FlushedDevice
  <2> QED BY <1>0, <2>1, <2>2 DEF JournalInv, BackOK, Opening, OpeningMark
<1> QED BY <1>1, <1>2

-----------------------------------------------------------------------------

LEMMA InitInv == Init => JournalInv
<1> SUFFICES ASSUME Init PROVE JournalInv
  OBVIOUS
<1> DEFINE d == [l \in LBAs |-> Null]
           a == [l \in LBAs |-> {Null}]
           b == [i \in 1 .. Quantum |-> Null]
<1>1. j = [disk |-> d, alt |-> a, next |-> 0, qLBA |-> 0, qCount |-> 0,
           qBuf |-> b, pending |-> <<>>, packDepth |-> 0,
           checkLBA |-> 0, hasCheck |-> FALSE, synced |-> FALSE]
  BY DEF Init, NewWAL
<1> HIDE DEF d, a, b
<1>2. j.next = 0 /\ j.qLBA = 0 /\ j.qCount = 0 /\ j.pending = <<>> /\ j.packDepth = 0 /\ j.checkLBA = 0
  BY <1>1
<1>3. j = [disk |-> j.disk, alt |-> j.alt, next |-> j.next, qLBA |-> j.qLBA, qCount |-> j.qCount,
           qBuf |-> j.qBuf, pending |-> j.pending, packDepth |-> j.packDepth,
           checkLBA |-> j.checkLBA, hasCheck |-> j.hasCheck, synced |-> j.synced]
  BY <1>1
<1>4. Kept(j)
  BY <1>2, <1>3 DEF Kept, Placed, Shape, Fits
<1>5. tx.next = 0 /\ ck.lba = 0 /\ pc = "idle" /\ back = <<>>
  BY DEF Init, NoTx, NoCk
<1> QED BY <1>4, <1>5 DEF JournalInv, BackOK, Opening, OpeningMark

LEMMA StepInv == JournalInv /\ [Next]_vars => JournalInv' /\ RepairKeepsCutStep
<1> SUFFICES ASSUME JournalInv, [Next]_vars PROVE JournalInv' /\ RepairKeepsCutStep
  OBVIOUS
<1>1. CASE WriteStep
  BY <1>1, WriteStepInv DEF RepairKeepsCutStep
<1>2. CASE Crash \/ Close
  BY <1>2, CrashInv DEF RepairKeepsCutStep
<1>3. CASE Repair \/ RepairDone
  BY <1>3, RepairInv DEF RepairKeepsCutStep
<1>4. CASE UNCHANGED vars
  <2>1. JournalInv'
    BY <1>4 DEF JournalInv, BackOK, Opening, OpeningMark, Cutting, vars, workVars
  <2> QED BY <1>4, <2>1 DEF RepairKeepsCutStep, vars
<1>5. CASE \E o \in Ops : Put(o)
  BY <1>5, PutInv DEF Put, RepairKeepsCutStep
<1>6. CASE WindowFlush \/ Sync
  BY <1>6, FlushesInv DEF WindowFlush, Sync, RepairKeepsCutStep
<1>7. CASE BatchBegin \/ BatchAppend \/ BatchFail
  BY <1>7, BatchInv DEF BatchBegin, BatchAppend, BatchFail, RepairKeepsCutStep
<1>8. CASE CheckpointAppend
  BY <1>8, CheckpointAppendInv DEF CheckpointAppend, RepairKeepsCutStep
<1>9. CASE Checkpoint \/ BatchEnd \/ PutFull
  BY <1>9, CheckpointInv DEF Checkpoint, BatchEnd, PutFull, RepairKeepsCutStep
<1>10. CASE TxBegin \/ TxAppend \/ TxFull \/ TxCommit \/ TxRollback \/ TxEmptyCommit
  BY <1>10, TxInv DEF TxBegin, TxAppend, TxFull, TxCommit, TxRollback, TxEmptyCommit, RepairKeepsCutStep
<1>11. CASE TruncateDone
  BY <1>11, TruncateDoneInv DEF TruncateDone, RepairKeepsCutStep
<1>12. CASE Open
  BY <1>12, OpenInv DEF Open, RepairKeepsCutStep
<1>13. CASE Rest
  BY <1>4, <1>13 DEF Rest
<1> QED BY <1>1, <1>2, <1>3, <1>4, <1>5, <1>6, <1>7, <1>8, <1>9, <1>10, <1>11, <1>12, <1>13 DEF Next

LEMMA InvIs == JournalInv => PackRoom /\ QuantumPlaced
BY DEF JournalInv, Kept, Fits, Placed, PackRoom, QuantumPlaced

\* Whatever the device, the sizes and the workload, the open pack can always be written and
\* the quantum buffer goes where next expects it (wal.go: flushPending, writeOne, compactTo).
THEOREM PackFits == Spec => [](PackRoom /\ QuantumPlaced)
<1>1. JournalInv /\ [Next]_vars => JournalInv'
  BY StepInv
<1> QED BY <1>1, InitInv, InvIs, PTL DEF Spec

\* A repair never moves the cut, interrupted and started again as often as may be
\* (wal_repair.go: analyzeRepair, repairMedianRupture).
THEOREM CutStands == Spec => RepairKeepsCut
<1>1. JournalInv /\ [Next]_vars => JournalInv' /\ RepairKeepsCutStep
  BY StepInv
<1>2. JournalInv /\ [Next]_vars => [RepairKeepsCutStep]_vars
  BY <1>1
<1>3. JournalInv /\ [Next]_vars => JournalInv'
  BY <1>1
<1> QED BY <1>2, <1>3, InitInv, PTL DEF Spec, RepairKeepsCut

-----------------------------------------------------------------------------
(* What a log says: the blocks V of its first n places.                    *)

Carries(s, r) == \E i \in DOMAIN s : s[i] = r
Agree(V, U, n) == \A l \in 0 .. n - 1 : U[l] = V[l]

\* Block k gives back record r: a pack that has it, or its last chunk, after all the
\* others, with no chunk of an interrupted write before them.
Covers(V, r, k) ==
    \/ V[k].kind = "pack" /\ Carries(V[k].recs, r)
    \/ \E p \in 0 .. k : /\ k = p + Chunks - 1
                         /\ \A i \in 1 .. Chunks : V[p + i - 1] = Chunk(r, i)
                         /\ \A m \in 0 .. p - 1 : ~Carries(V[m].recs, r)
Below(V, r, n) == \E k \in 0 .. n - 1 : Covers(V, r, k)

\* The records of X are in the order of their numbers, after the last checkpoint; no
\* record above top was ever written.
Ordered(V, n, X) ==
    \A a, b \in X : \A l \in 0 .. n - 1 :
        a < b /\ Carries(V[l].recs, b) => \E k \in 0 .. l : Covers(V, a, k)
Marked(V, n, X) ==
    \A c \in 0 .. n - 1 : IsCheck(V[c]) => \A l \in 0 .. c - 1 : \A r \in X : ~Carries(V[l].recs, r)
Numbered(V, n, top) == \A l \in 0 .. n - 1 : \A r \in Recs : r > top => ~Carries(V[l].recs, r)
Formed(V, n) ==
    \A l \in 0 .. n - 1 : /\ V[l].kind = "chunk" => V[l] = Chunk(V[l].recs[1], V[l].part)
                          /\ IsCheck(V[l]) => V[l] = Check
LogOK(V, n, X, top) ==
    X \subseteq 1 .. top /\ Ordered(V, n, X) /\ Marked(V, n, X) /\ Numbered(V, n, top) /\ Formed(V, n)

LEMMA CoversLocal ==
    ASSUME NEW V, NEW U, NEW n \in Nat, Agree(V, U, n), NEW r, NEW k \in 0 .. n - 1, Covers(V, r, k)
    PROVE  Covers(U, r, k)
<1>1. CASE V[k].kind = "pack" /\ Carries(V[k].recs, r)
  BY <1>1 DEF Covers, Agree
<1>2. ASSUME NEW p \in 0 .. k, k = p + Chunks - 1, \A i \in 1 .. Chunks : V[p + i - 1] = Chunk(r, i),
             \A m \in 0 .. p - 1 : ~Carries(V[m].recs, r)
      PROVE  Covers(U, r, k)
  <2>1. Chunks \in Nat
    BY JournalAssumption
  <2>2. \A i \in 1 .. Chunks : p + i - 1 \in 0 .. n - 1
    BY <1>2, <2>1
  <2>3. \A i \in 1 .. Chunks : U[p + i - 1] = Chunk(r, i)
    BY <1>2, <2>2 DEF Agree
  <2>4. \A m \in 0 .. p - 1 : m \in 0 .. n - 1
    OBVIOUS
  <2>5. \A m \in 0 .. p - 1 : ~Carries(U[m].recs, r)
    BY <1>2, <2>4 DEF Agree
  <2> QED BY <1>2, <2>3, <2>5 DEF Covers
<1> QED BY <1>1, <1>2 DEF Covers

LEMMA BelowLocal ==
    ASSUME NEW V, NEW U, NEW n \in Nat, NEW m \in Nat, n <= m, Agree(V, U, n), NEW r, Below(V, r, n)
    PROVE  Below(U, r, m)
<1>1. PICK k \in 0 .. n - 1 : Covers(V, r, k)
  BY DEF Below
<1>2. Covers(U, r, k) /\ k \in 0 .. m - 1
  BY <1>1, CoversLocal
<1> QED BY <1>2 DEF Below

\* A block that gives a record back has it.
LEMMA CoversCarries ==
    ASSUME NEW V, NEW r, NEW k \in Nat, Covers(V, r, k)
    PROVE  Carries(V[k].recs, r) /\ V[k].kind \in {"pack", "chunk"}
<1>1. CASE V[k].kind = "pack" /\ Carries(V[k].recs, r)
  BY <1>1
<1>2. ASSUME NEW p \in 0 .. k, k = p + Chunks - 1, \A i \in 1 .. Chunks : V[p + i - 1] = Chunk(r, i)
      PROVE  Carries(V[k].recs, r) /\ V[k].kind = "chunk"
  <2>1. Chunks \in 1 .. Chunks
    BY JournalAssumption
  <2>2. V[k] = Chunk(r, Chunks)
    BY <1>2, <2>1
  <2>3. V[k].recs = <<r>> /\ V[k].kind = "chunk"
    BY <2>2 DEF Chunk
  <2>4. 1 \in DOMAIN <<r>> /\ <<r>>[1] = r
    OBVIOUS
  <2> QED BY <2>3, <2>4 DEF Carries
<1> QED BY <1>1, <1>2 DEF Covers

LEMMA Fewer ==
    ASSUME NEW V, NEW n, NEW X, NEW Y, NEW top, LogOK(V, n, X, top), Y \subseteq X
    PROVE  LogOK(V, n, Y, top)
BY DEF LogOK, Ordered, Marked

\* A record that is in no block.
LEMMA OneMoreRecord ==
    ASSUME NEW V, NEW n \in Nat, NEW X, NEW top \in Nat, top + 1 \in Recs, LogOK(V, n, X, top)
    PROVE  LogOK(V, n, X \cup {top + 1}, top + 1)
<1> DEFINE r == top + 1
           Y == X \cup {r}
<1>1. \A l \in 0 .. n - 1 : ~Carries(V[l].recs, r)
  BY DEF LogOK, Numbered
<1>2. Y \subseteq 1 .. r /\ \A a \in X : a < r /\ a \in Int
  BY DEF LogOK
<1>3. Ordered(V, n, Y)
  <2> SUFFICES ASSUME NEW a \in Y, NEW b \in Y, NEW l \in 0 .. n - 1, a < b, Carries(V[l].recs, b)
               PROVE  \E k \in 0 .. l : Covers(V, a, k)
    BY DEF Ordered
  <2>1. b # r
    BY <1>1
  <2>2. b \in X /\ a # r
    <3>1. b \in X
      BY <2>1
    <3>2. b < r /\ b \in Int /\ r \in Int
      BY <1>2, <3>1
    <3> HIDE DEF r, Y
    <3>3. ~(r < b)
      BY <3>2
    <3> QED BY <3>1, <3>3
  <2>3. a \in X
    BY <2>2
  <2> HIDE DEF r, Y
  <2> QED BY <2>2, <2>3 DEF LogOK, Ordered
<1>4. Marked(V, n, Y)
  <2> SUFFICES ASSUME NEW c \in 0 .. n - 1, IsCheck(V[c]), NEW l \in 0 .. c - 1, NEW q \in Y
               PROVE  ~Carries(V[l].recs, q)
    BY DEF Marked
  <2>1. CASE q \in X
    BY <2>1 DEF LogOK, Marked
  <2>2. CASE q = r
    <3>1. l \in 0 .. n - 1
      OBVIOUS
    <3> QED BY <1>1, <2>2, <3>1
  <2> QED BY <2>1, <2>2
<1>5. Numbered(V, n, r)
  <2>1. \A q \in Recs : q > r => q > top
    BY DEF Recs
  <2> QED BY <2>1 DEF LogOK, Numbered
<1> QED BY <1>2, <1>3, <1>4, <1>5 DEF LogOK

\* One block more.
LEMMA OneMoreBlock ==
    ASSUME NEW V, NEW U, NEW n \in Nat, NEW X, NEW top, LogOK(V, n, X, top), Agree(V, U, n),
           \A a, b \in X : a < b /\ Carries(U[n].recs, b) => Below(U, a, n + 1),
           IsCheck(U[n]) => U[n] = Check /\ \A l \in 0 .. n - 1 : \A r \in X : ~Carries(V[l].recs, r),
           \A r \in Recs : r > top => ~Carries(U[n].recs, r),
           U[n].kind = "chunk" => U[n] = Chunk(U[n].recs[1], U[n].part)
    PROVE  LogOK(U, n + 1, X, top)
<1>0. \A l \in 0 .. n : l = n \/ l \in 0 .. n - 1
  OBVIOUS
<1>1. (n + 1) - 1 = n
  OBVIOUS
<1>2. Ordered(U, n + 1, X)
  <2> SUFFICES ASSUME NEW a \in X, NEW b \in X, NEW l \in 0 .. n, a < b, Carries(U[l].recs, b)
               PROVE  \E k \in 0 .. l : Covers(U, a, k)
    BY <1>1 DEF Ordered
  <2>1. CASE l = n
    BY <1>1, <2>1 DEF Below
  <2>2. CASE l \in 0 .. n - 1
    <3>1. Carries(V[l].recs, b)
      BY <2>2 DEF Agree
    <3>2. PICK k \in 0 .. l : Covers(V, a, k)
      BY <2>2, <3>1 DEF LogOK, Ordered
    <3>3. k \in 0 .. n - 1
      BY <2>2
    <3>4. Covers(U, a, k)
      BY <3>2, <3>3, CoversLocal
    <3> QED BY <3>4
  <2> QED BY <1>0, <2>1, <2>2
<1>3. Marked(U, n + 1, X)
  <2> SUFFICES ASSUME NEW c \in 0 .. n, IsCheck(U[c]), NEW l \in 0 .. c - 1, NEW r \in X
               PROVE  ~Carries(U[l].recs, r)
    BY <1>1 DEF Marked
  <2>1. l \in 0 .. n - 1 /\ U[l] = V[l]
    BY DEF Agree
  <2>2. CASE c = n
    BY <2>1, <2>2
  <2>3. CASE c \in 0 .. n - 1
    BY <2>1, <2>3 DEF LogOK, Marked, Agree
  <2> QED BY <1>0, <2>2, <2>3
<1>4. Numbered(U, n + 1, top)
  BY <1>0, <1>1 DEF Numbered, LogOK, Agree
<1>5. Formed(U, n + 1)
  BY <1>0, <1>1 DEF Formed, LogOK, Agree
<1> QED BY <1>2, <1>3, <1>4, <1>5 DEF LogOK

-----------------------------------------------------------------------------
(* A truncation.                                                           *)

\* The places from s of V, with a checkpoint before them unless they begin with one
\* (d = 0), are the first m places of T.
Shifted(T, V, s, d, n, m) ==
    /\ s \in 0 .. n /\ d \in {0, 1} /\ m = n - s + d /\ (d = 0 => s < n /\ V[s] = Check)
    /\ T[0] = Check /\ \A l \in 1 .. m - 1 : T[l] = V[s + l - d]

\* No record of X is in the first s blocks.
Unused(V, s, X) == \A l \in 0 .. s - 1 : \A r \in X : ~Carries(V[l].recs, r)

LEMMA CheckCarriesNone == \A r : ~Carries(Check.recs, r)
BY DEF Check, Carries

LEMMA ShiftedCovers ==
    ASSUME NEW T, NEW V, NEW s, NEW d, NEW n \in Nat, NEW m, Shifted(T, V, s, d, n, m),
           NEW X, Unused(V, s, X), NEW r \in X, NEW k \in 0 .. n - 1, Covers(V, r, k)
    PROVE  k - s + d \in 1 .. m - 1 /\ Covers(T, r, k - s + d)
<1>0. s \in 0 .. n /\ d \in {0, 1} /\ m = n - s + d /\ s \in Int /\ d \in Int /\ m \in Int
  BY DEF Shifted
\* a block that has the record comes after s
<1>1. ASSUME NEW l \in 0 .. n - 1, Carries(V[l].recs, r)
      PROVE  l >= s /\ l - s + d \in 1 .. m - 1 /\ T[l - s + d] = V[l]
  <2>1. l >= s
    BY <1>0, <1>1 DEF Unused
  <2>2. d = 0 => l # s
    BY <1>1, CheckCarriesNone DEF Shifted
  <2>3. l - s + d \in 1 .. m - 1
    BY <1>0, <2>1, <2>2
  <2>4. s + (l - s + d) - d = l
    BY <1>0
  <2> QED BY <2>1, <2>3, <2>4 DEF Shifted
<1>2. Carries(V[k].recs, r)
  BY CoversCarries
<1>3. k - s + d \in 1 .. m - 1 /\ T[k - s + d] = V[k] /\ k >= s
  BY <1>1, <1>2
<1>4. CASE V[k].kind = "pack" /\ Carries(V[k].recs, r)
  BY <1>3, <1>4 DEF Covers
<1>5. ASSUME NEW p \in 0 .. k, k = p + Chunks - 1, \A i \in 1 .. Chunks : V[p + i - 1] = Chunk(r, i),
             \A l \in 0 .. p - 1 : ~Carries(V[l].recs, r)
      PROVE  Covers(T, r, k - s + d)
  <2> DEFINE q == p - s + d
  <2>0. Chunks \in Nat /\ Chunks # 0
    BY JournalAssumption
  <2>1. ASSUME NEW i \in 1 .. Chunks PROVE q + i - 1 \in 1 .. m - 1 /\ T[q + i - 1] = Chunk(r, i)
    <3>1. p + i - 1 \in 0 .. n - 1
      BY <1>5, <2>0
    <3>2. Carries(Chunk(r, i).recs, r)
      BY DEF Chunk, Carries
    <3>3. V[p + i - 1] = Chunk(r, i)
      BY <1>5
    <3>4. (p + i - 1) - s + d \in 1 .. m - 1 /\ T[(p + i - 1) - s + d] = V[p + i - 1]
      BY <1>1, <3>1, <3>2, <3>3
    <3>5. (p + i - 1) - s + d = q + i - 1
      BY <1>0, <3>1
    <3> QED BY <3>3, <3>4, <3>5
  <2>2. q \in 1 .. k - s + d /\ k - s + d = q + Chunks - 1
    <3>1. 1 \in 1 .. Chunks /\ q + 1 - 1 = q /\ q \in Int
      BY <1>0, <2>0
    <3>2. q \in 1 .. m - 1
      BY <2>1, <3>1
    <3> QED BY <1>0, <1>5, <2>0, <3>2
  <2>3. ASSUME NEW l \in 0 .. q - 1 PROVE ~Carries(T[l].recs, r)
    <3>1. CASE l = 0
      BY <3>1, CheckCarriesNone DEF Shifted
    <3>2. CASE l # 0
      <4>1. l \in 1 .. m - 1 /\ s + l - d \in 0 .. p - 1
        BY <1>0, <1>3, <1>5, <2>2, <3>2
      <4>2. T[l] = V[s + l - d]
        BY <4>1 DEF Shifted
      <4> QED BY <1>5, <4>1, <4>2
    <3> QED BY <3>1, <3>2
  <2>4. q \in 0 .. k - s + d
    BY <2>2
  <2> HIDE DEF q
  <2> QED BY <2>1, <2>2, <2>3, <2>4 DEF Covers
<1> QED BY <1>3, <1>4, <1>5 DEF Covers

LEMMA ShiftedLog ==
    ASSUME NEW T, NEW V, NEW s, NEW d, NEW n \in Nat, NEW m, Shifted(T, V, s, d, n, m),
           NEW X, NEW top, LogOK(V, n, X, top), Unused(V, s, X)
    PROVE  LogOK(T, m, X, top) /\ \A r \in X : Below(V, r, n) => Below(T, r, m)
<1>0. s \in 0 .. n /\ d \in {0, 1} /\ m = n - s + d /\ s \in Int /\ d \in Int /\ m \in Int
  BY DEF Shifted
<1>1. ASSUME NEW l \in 0 .. m - 1, l # 0 PROVE s + l - d \in 0 .. n - 1 /\ T[l] = V[s + l - d]
  BY <1>0, <1>1 DEF Shifted
<1>2. T[0] = Check /\ \A r : ~Carries(T[0].recs, r)
  BY CheckCarriesNone DEF Shifted
<1>3. Ordered(T, m, X)
  <2> SUFFICES ASSUME NEW a \in X, NEW b \in X, NEW l \in 0 .. m - 1, a < b, Carries(T[l].recs, b)
               PROVE  \E k \in 0 .. l : Covers(T, a, k)
    BY DEF Ordered
  <2> DEFINE h == s + l - d
  <2>1. l # 0
    BY <1>2
  <2>2. h \in 0 .. n - 1 /\ T[l] = V[h]
    BY <1>1, <2>1
  <2>3. PICK k \in 0 .. h : Covers(V, a, k)
    BY <2>2 DEF LogOK, Ordered
  <2>4. k \in 0 .. n - 1
    BY <2>2
  <2>5. k - s + d \in 1 .. m - 1 /\ Covers(T, a, k - s + d)
    BY <2>3, <2>4, ShiftedCovers
  <2>6. k - s + d \in 0 .. l
    BY <1>0, <2>5
  <2> QED BY <2>5, <2>6
<1>4. Marked(T, m, X)
  <2> SUFFICES ASSUME NEW c \in 0 .. m - 1, IsCheck(T[c]), NEW l \in 0 .. c - 1, NEW r \in X
               PROVE  ~Carries(T[l].recs, r)
    BY DEF Marked
  <2>1. CASE l = 0
    BY <1>2, <2>1
  <2>2. CASE l # 0
    <3>1. l \in 0 .. m - 1 /\ c # 0
      BY <1>0, <2>2
    <3>2. T[l] = V[s + l - d] /\ T[c] = V[s + c - d] /\ s + c - d \in 0 .. n - 1
      BY <1>1, <2>2, <3>1
    <3>3. s + l - d \in 0 .. (s + c - d) - 1
      BY <1>0, <1>1, <2>2, <3>1
    <3> QED BY <3>2, <3>3 DEF LogOK, Marked
  <2> QED BY <2>1, <2>2
<1>5. Numbered(T, m, top)
  BY <1>1, <1>2 DEF Numbered, LogOK
<1>6. Formed(T, m)
  <2>1. Check.kind # "chunk"
    BY DEF Check
  <2> QED BY <1>1, <1>2, <2>1 DEF Formed, LogOK
<1>7. ASSUME NEW r \in X, Below(V, r, n) PROVE Below(T, r, m)
  <2>1. PICK k \in 0 .. n - 1 : Covers(V, r, k)
    BY <1>7 DEF Below
  <2>2. k - s + d \in 1 .. m - 1 /\ Covers(T, r, k - s + d)
    BY <2>1, ShiftedCovers
  <2>3. k - s + d \in 0 .. m - 1
    BY <1>0, <2>2
  <2> QED BY <2>2, <2>3 DEF Below
<1> QED BY <1>3, <1>4, <1>5, <1>6, <1>7 DEF LogOK

-----------------------------------------------------------------------------
(* A replay.                                                               *)

LEMMA HeldIs ==
    ASSUME NEW d, NEW r
    PROVE  /\ Held(d, r)[0] = {}
           /\ \A l \in 0 .. MaxLBA - 1 :
                 Held(d, r)[l + 1] = LET parts == Held(d, r)[l] \cup {i \in 1 .. Chunks : d[l] = Chunk(r, i)}
                                     IN  IF parts = 1 .. Chunks THEN {} ELSE parts
<1> DEFINE G(h, l) == LET parts == h \cup {i \in 1 .. Chunks : d[l] = Chunk(r, i)}
                      IN  IF parts = 1 .. Chunks THEN {} ELSE parts
           After(f) == [l \in 0 .. MaxLBA |-> IF l = 0 THEN {} ELSE G(f[l - 1], l - 1)]
           I == {k \in Nat : k <= MaxLBA => \E f : DOMAIN f = 0 .. k /\ f[0] = {}
                                               /\ \A l \in 1 .. k : f[l] = G(f[l - 1], l - 1)}
<1> HIDE DEF G
<1>0. MaxLBA \in Nat
  BY JournalAssumption
<1>1. 0 \in I
  <2> DEFINE f == [l \in 0 .. 0 |-> {}]
  <2>1. DOMAIN f = 0 .. 0 /\ f[0] = {} /\ \A l \in 1 .. 0 : FALSE
    OBVIOUS
  <2> HIDE DEF f
  <2> QED BY <2>1
<1>2. ASSUME NEW k \in Nat, k \in I PROVE k + 1 \in I
  <2> SUFFICES ASSUME k + 1 <= MaxLBA
               PROVE  \E f : DOMAIN f = 0 .. k + 1 /\ f[0] = {} /\ \A l \in 1 .. k + 1 : f[l] = G(f[l - 1], l - 1)
    OBVIOUS
  <2>1. PICK f : DOMAIN f = 0 .. k /\ f[0] = {} /\ \A l \in 1 .. k : f[l] = G(f[l - 1], l - 1)
    BY <1>0, <1>2
  <2> DEFINE g == [l \in 0 .. k + 1 |-> IF l = k + 1 THEN G(f[k], k) ELSE f[l]]
  <2>2. DOMAIN g = 0 .. k + 1 /\ g[0] = {}
    BY <2>1
  <2>3. ASSUME NEW l \in 1 .. k + 1 PROVE g[l] = G(g[l - 1], l - 1)
    <3>1. g[l - 1] = f[l - 1]
      OBVIOUS
    <3>2. CASE l = k + 1
      <4>1. g[l] = G(f[k], k) /\ l - 1 = k
        BY <3>2
      <4> HIDE DEF g
      <4> QED BY <3>1, <4>1
    <3>3. CASE l # k + 1
      <4>1. g[l] = f[l] /\ l \in 1 .. k
        BY <3>3
      <4> HIDE DEF g
      <4> QED BY <2>1, <3>1, <4>1
    <3> QED BY <3>2, <3>3
  <2> HIDE DEF g
  <2> QED BY <2>2, <2>3
<1>3. MaxLBA \in I
  <2> HIDE DEF I
  <2> QED BY <1>0, <1>1, <1>2, Induction
<1>4. \E f : f = After(f)
  <2>1. PICK f : DOMAIN f = 0 .. MaxLBA /\ f[0] = {} /\ \A l \in 1 .. MaxLBA : f[l] = G(f[l - 1], l - 1)
    BY <1>0, <1>3
  <2> DEFINE g == [l \in 0 .. MaxLBA |-> f[l]]
  <2>2. ASSUME NEW l \in 0 .. MaxLBA PROVE g[l] = IF l = 0 THEN {} ELSE G(g[l - 1], l - 1)
    <3>1. CASE l = 0
      BY <2>1, <3>1
    <3>2. CASE l # 0
      <4>1. l \in 1 .. MaxLBA /\ l - 1 \in 0 .. MaxLBA
        BY <1>0, <3>2
      <4>2. g[l] = f[l] /\ g[l - 1] = f[l - 1]
        BY <4>1
      <4> HIDE DEF g
      <4> QED BY <2>1, <3>2, <4>1, <4>2
    <3> QED BY <3>1, <3>2
  <2>3. g = [l \in 0 .. MaxLBA |-> g[l]]
    OBVIOUS
  <2>4. g = After(g)
    <3> HIDE DEF g
    <3> QED BY <2>2, <2>3
  <2> QED BY <2>4
<1> DEFINE a == CHOOSE f : f = After(f)
<1>5. a = After(a)
  BY <1>4
<1>6. Held(d, r) = a
  BY DEF Held, G
<1>7. a[0] = {} /\ \A l \in 0 .. MaxLBA - 1 : a[l + 1] = G(a[l], l)
  <2> HIDE DEF a
  <2>1. \A l \in 0 .. MaxLBA : a[l] = IF l = 0 THEN {} ELSE G(a[l - 1], l - 1)
    BY <1>5
  <2>2. 0 \in 0 .. MaxLBA
    BY <1>0
  <2>3. ASSUME NEW l \in 0 .. MaxLBA - 1 PROVE a[l + 1] = G(a[l], l)
    <3>1. l + 1 \in 0 .. MaxLBA /\ l + 1 # 0 /\ (l + 1) - 1 = l
      BY <1>0
    <3> DEFINE k == l + 1
    <3> HIDE DEF k
    <3>2. a[k] = G(a[k - 1], k - 1) /\ k - 1 = l
      BY <2>1, <3>1 DEF k
    <3> QED BY <3>2 DEF k
  <2> QED BY <2>1, <2>2, <2>3
<1> HIDE DEF a
<1> QED BY <1>6, <1>7 DEF G

\* The collector is empty before the first chunk, has them one by one, and the last
\* one completes the record.
LEMMA ChunksComplete ==
    ASSUME NEW d, NEW r, NEW p \in Nat, p + Chunks <= MaxLBA,
           \A i \in 1 .. Chunks : d[p + i - 1] = Chunk(r, i), \A m \in 0 .. p - 1 : ~Carries(d[m].recs, r)
    PROVE  Completes(d, r, p + Chunks - 1)
<1> DEFINE h == Held(d, r)
           new(l) == {i \in 1 .. Chunks : d[l] = Chunk(r, i)}
<1>0. Chunks \in Nat /\ Chunks # 0 /\ MaxLBA \in Nat
  BY JournalAssumption
<1>1. h[0] = {} /\ \A l \in 0 .. MaxLBA - 1 : h[l + 1] = IF h[l] \cup new(l) = 1 .. Chunks THEN {} ELSE h[l] \cup new(l)
  BY HeldIs
<1>2. \A i : Chunk(r, i).part = i /\ Chunk(r, i).kind = "chunk" /\ Chunk(r, i).recs = <<r>> /\ Carries(Chunk(r, i).recs, r)
  BY DEF Chunk, Carries
<1>3. \A l \in 0 .. p - 1 : new(l) = {}
  BY <1>2
<1>4. \A i \in 0 .. Chunks - 1 : new(p + i) = {i + 1}
  <2> SUFFICES ASSUME NEW i \in 0 .. Chunks - 1 PROVE new(p + i) = {i + 1}
    OBVIOUS
  <2>1. i + 1 \in 1 .. Chunks /\ p + (i + 1) - 1 = p + i
    BY <1>0
  <2>2. d[p + i] = Chunk(r, i + 1)
    BY <2>1
  <2> QED BY <1>2, <2>1, <2>2
<1> HIDE DEF h, new
<1> DEFINE I == {l \in Nat : l <= p => h[l] = {}}
<1>5. p \in I
  <2>1. 0 \in I
    BY <1>1
  <2>2. ASSUME NEW l \in Nat, l \in I PROVE l + 1 \in I
    <3> SUFFICES ASSUME l + 1 <= p PROVE h[l + 1] = {}
      OBVIOUS
    <3>1. l \in 0 .. p - 1 /\ l \in 0 .. MaxLBA - 1 /\ h[l] = {}
      BY <1>0, <2>2
    <3>2. h[l] \cup new(l) = {}
      BY <1>3, <3>1
    <3> QED BY <1>1, <3>1, <3>2
  <2> HIDE DEF I
  <2> QED BY <2>1, <2>2, Induction
<1> DEFINE J == {i \in Nat : i <= Chunks - 1 => h[p + i] = 1 .. i}
<1>6. \A i \in Nat : i \in J
  <2>1. 0 \in J
    BY <1>5
  <2>2. ASSUME NEW i \in Nat, i \in J PROVE i + 1 \in J
    <3> SUFFICES ASSUME i + 1 <= Chunks - 1 PROVE h[p + (i + 1)] = 1 .. i + 1
      OBVIOUS
    <3>1. i \in 0 .. Chunks - 1 /\ p + i \in 0 .. MaxLBA - 1 /\ h[p + i] = 1 .. i /\ p + (i + 1) = (p + i) + 1
      BY <1>0, <2>2
    <3>2. h[p + i] \cup new(p + i) = 1 .. i + 1
      BY <1>4, <3>1
    <3>3. Chunks \in 1 .. Chunks /\ Chunks \notin 1 .. i + 1
      BY <1>0
    <3>4. h[p + i] \cup new(p + i) # 1 .. Chunks
      BY <3>2, <3>3
    <3>5. h[(p + i) + 1] = h[p + i] \cup new(p + i)
      BY <1>1, <3>1, <3>4
    <3> QED BY <3>1, <3>2, <3>5
  <2> HIDE DEF J
  <2> QED BY <2>1, <2>2, Induction
<1> DEFINE k == p + Chunks - 1
<1>7. h[k] = 1 .. Chunks - 1
  <2>1. Chunks - 1 \in Nat /\ p + (Chunks - 1) = k
    BY <1>0
  <2>2. Chunks - 1 \in J
    BY <1>6, <2>1
  <2> QED BY <1>0, <2>1, <2>2
<1>8. d[k] = Chunk(r, Chunks)
  <2>1. Chunks \in 1 .. Chunks
    BY <1>0
  <2> QED BY <2>1
<1> HIDE DEF k
<1>9. d[k].kind = "chunk" /\ d[k].recs = <<r>> /\ d[k].part = Chunks
  BY <1>2, <1>8
<1>10. h[k] \cup {d[k].part} = 1 .. Chunks
  BY <1>0, <1>7, <1>9
<1>11. Completes(d, r, k)
  BY <1>9, <1>10 DEF Completes, h
<1> QED BY <1>11 DEF k

\* The records after the last checkpoint.
LEMMA TailRecsIs ==
    ASSUME NEW d, NEW r
    PROVE  r \in TailRecs(d) <=>
              \/ \E l \in LastCheck(d, Tip(d)) + 1 .. Tip(d) - 1 : d[l].kind = "pack" /\ Carries(d[l].recs, r)
              \/ r \in Recs /\ \E l \in LastCheck(d, Tip(d)) + 1 .. Tip(d) - 1 : Completes(d, r, l)
<1> DEFINE n == Tip(d)
           c == LastCheck(d, n)
           A == UNION {ToSet(d[l].recs) : l \in {m \in c + 1 .. n - 1 : d[m].kind = "pack"}}
           B == {q \in Recs : \E l \in c + 1 .. n - 1 : Completes(d, q, l)}
<1>1. TailRecs(d) = A \cup B
  BY DEF TailRecs
<1>2. r \in B <=> r \in Recs /\ \E l \in c + 1 .. n - 1 : Completes(d, r, l)
  OBVIOUS
<1>3. \A s : r \in ToSet(s) <=> Carries(s, r)
  BY DEF ToSet, Carries
<1>4. r \in A <=> \E l \in c + 1 .. n - 1 : d[l].kind = "pack" /\ Carries(d[l].recs, r)
  <2> HIDE DEF c, n
  <2> QED BY <1>3
<1> HIDE DEF A, B, c, n
<1> QED BY <1>1, <1>2, <1>4 DEF c, n

\* What a log gives back is replayed.
LEMMA Replays ==
    ASSUME NEW d, NEW X, NEW top, LogOK(d, Tip(d), X, top), X \subseteq Recs,
           NEW r \in X, txOf[r] = 0, Below(d, r, Tip(d))
    PROVE  r \in Applied(d)
<1> DEFINE n == Tip(d)
           c == LastCheck(d, n)
<1>0. n \in 0 .. MaxLBA /\ n \in Nat /\ MaxLBA \in Nat
  BY TipIs, JournalAssumption
<1>1. c \in -1 .. n - 1 /\ (c >= 0 => IsCheck(d[c]))
  <2> HIDE DEF n
  <2> QED BY <1>0, LastCheckIs
<1>2. PICK k \in 0 .. n - 1 : Covers(d, r, k)
  BY DEF Below
<1>3. Carries(d[k].recs, r) /\ d[k].kind \in {"pack", "chunk"}
  BY <1>2, CoversCarries
<1>4. k \in c + 1 .. n - 1
  <2>1. CASE c = -1
    BY <1>0, <2>1
  <2>2. CASE c >= 0
    <3>1. IsCheck(d[c]) /\ c \in 0 .. n - 1
      BY <1>0, <1>1, <2>2
    <3>2. k # c
      BY <1>3, <3>1 DEF IsCheck
    <3>3. ~(k \in 0 .. c - 1)
      BY <1>3, <3>1 DEF LogOK, Marked
    <3> QED BY <1>0, <3>1, <3>2, <3>3
  <2> QED BY <1>1, <2>1, <2>2
<1>6. r \in Recs
  OBVIOUS
<1>7. r \in TailRecs(d)
  <2>1. CASE d[k].kind = "pack"
    <3> HIDE DEF n, c
    <3> QED BY <1>3, <1>4, <2>1, TailRecsIs DEF n, c
  <2>2. ASSUME NEW p \in 0 .. k, k = p + Chunks - 1, \A i \in 1 .. Chunks : d[p + i - 1] = Chunk(r, i),
               \A m \in 0 .. p - 1 : ~Carries(d[m].recs, r)
        PROVE  r \in TailRecs(d)
    <3>1. p + Chunks <= MaxLBA /\ Chunks \in Nat
      BY JournalAssumption, <1>0, <2>2
    <3>2. Completes(d, r, p + Chunks - 1)
      BY <2>2, <3>1, ChunksComplete
    <3>3. Completes(d, r, k)
      BY <2>2, <3>2
    <3> HIDE DEF n, c
    <3> QED BY <1>4, <1>6, <3>3, TailRecsIs DEF n, c
  <2> QED BY <1>2, <2>1, <2>2 DEF Covers
<1> QED BY <1>6, <1>7 DEF Applied

\* What is replayed was in a block.
LEMMA ReplayedWas ==
    ASSUME NEW d, NEW r \in Applied(d)
    PROVE  r \in Recs /\ \E l \in 0 .. Tip(d) - 1 : /\ Carries(d[l].recs, r)
                                                    /\ d[l].kind = "pack" \/ Completes(d, r, l)
<1> DEFINE n == Tip(d)
           c == LastCheck(d, n)
<1>0. n \in 0 .. MaxLBA /\ n \in Nat /\ MaxLBA \in Nat
  BY TipIs, JournalAssumption
<1>1. c \in -1 .. n - 1
  <2> HIDE DEF n
  <2> QED BY <1>0, LastCheckIs
<1>2. r \in Recs /\ r \in TailRecs(d)
  BY DEF Applied
<1>3. \/ \E l \in c + 1 .. n - 1 : d[l].kind = "pack" /\ Carries(d[l].recs, r)
      \/ \E l \in c + 1 .. n - 1 : Completes(d, r, l)
  <2> HIDE DEF n, c
  <2> QED BY <1>2, TailRecsIs DEF n, c
<1>4. \A l \in c + 1 .. n - 1 : l \in 0 .. n - 1
  BY <1>1
<1>6. ASSUME NEW l \in c + 1 .. n - 1, Completes(d, r, l)
      PROVE  Carries(d[l].recs, r)
  BY <1>6 DEF Completes, Carries
<1> QED BY <1>2, <1>3, <1>4, <1>6

-----------------------------------------------------------------------------
(* The log of a struct: what is on the device up to Start, then the        *)
(* quantum buffer.                                                         *)

Start(w) == w.next - w.qCount
View(w) == [l \in LBAs |-> IF Start(w) <= l /\ l < w.next THEN w.qBuf[l - Start(w) + 1] ELSE w.disk[l]]
Firm(w, l) == w.alt[l] = {w.disk[l]}

\* The device is full up to Start and empty after it; a block in doubt may be empty.
Solid(w) ==
    /\ Placed(w)
    /\ w.next \in 0 .. MaxLBA /\ w.qCount \in 0 .. Quantum /\ w.qCount <= w.next
    /\ DOMAIN w.qBuf = 1 .. Quantum /\ w.qBuf = [i \in 1 .. Quantum |-> w.qBuf[i]]
    /\ \A i \in 1 .. w.qCount : w.qBuf[i] # Null
    /\ \A l \in LBAs : IF l < Start(w)
                       THEN w.disk[l] # Null /\ (\A b \in w.alt[l] : b \in {Null, w.disk[l]})
                       ELSE w.disk[l] = Null /\ w.alt[l] = {Null}

\* v is w with more blocks, or more of them on the device.
Grown(v, w) ==
    /\ Solid(v) /\ SameCalls(v, w)
    /\ w.next <= v.next /\ Start(w) <= Start(v) /\ Agree(View(w), View(v), w.next)
    /\ \A l \in 0 .. Start(w) - 1 : Firm(w, l) => Firm(v, l)

LEMMA SolidTypes ==
    ASSUME NEW w, Solid(w)
    PROVE  /\ MaxLBA \in Nat /\ w.next \in Nat /\ w.qCount \in Nat /\ Start(w) \in 0 .. w.next /\ Shape(w)
           /\ \A l \in 0 .. w.next - 1 : l \in LBAs
           /\ \A l \in LBAs : l < Start(w) => View(w)[l] = w.disk[l]
           /\ \A l \in LBAs : Start(w) <= l /\ l < w.next => View(w)[l] = w.qBuf[l - Start(w) + 1]
           /\ \A l \in LBAs : w.next <= l => View(w)[l] = w.disk[l]
<1>1. MaxLBA \in Nat /\ w.next \in 0 .. MaxLBA /\ w.qCount \in Nat /\ w.qCount <= w.next /\ Shape(w)
  BY JournalAssumption DEF Solid, Placed, Shape
<1>2. Start(w) \in 0 .. w.next
  BY <1>1 DEF Start
<1>3. \A l \in LBAs : View(w)[l] = IF Start(w) <= l /\ l < w.next THEN w.qBuf[l - Start(w) + 1] ELSE w.disk[l]
  BY DEF View
<1> QED BY <1>1, <1>2, <1>3 DEF LBAs

\* The device of a log.
LEMMA SolidDevice ==
    ASSUME NEW w, Solid(w), NEW l \in LBAs
    PROVE  /\ l < Start(w) => w.disk[l] # Null /\ (\A b \in w.alt[l] : b \in {Null, w.disk[l]})
           /\ ~(l < Start(w)) => w.disk[l] = Null /\ w.alt[l] = {Null}
BY DEF Solid

LEMMA GrownSelf == ASSUME NEW w, Solid(w) PROVE Grown(w, w)
<1>1. w.next \in Nat /\ Start(w) \in Nat
  BY SolidTypes
<1> QED BY <1>1 DEF Grown, SameCalls, Agree

LEMMA GrownTwice ==
    ASSUME NEW u, NEW v, NEW w, Solid(w), Grown(v, w), Grown(u, v)
    PROVE  Grown(u, w)
<1>1. w.next \in Nat /\ Start(w) \in 0 .. w.next /\ v.next \in Nat /\ Start(v) \in 0 .. v.next /\ u.next \in Nat /\ Start(u) \in Nat
  BY SolidTypes DEF Grown
<1>2. w.next <= v.next /\ Start(w) <= Start(v) /\ v.next <= u.next /\ Start(v) <= Start(u)
  BY DEF Grown
<1>3. \A l \in 0 .. w.next - 1 : l \in 0 .. v.next - 1
  BY <1>1, <1>2
<1>4. \A l \in 0 .. Start(w) - 1 : l \in 0 .. Start(v) - 1
  BY <1>1, <1>2
<1>5. Agree(View(w), View(u), w.next)
  BY <1>3 DEF Grown, Agree
<1>6. \A l \in 0 .. Start(w) - 1 : Firm(w, l) => Firm(u, l)
  BY <1>4 DEF Grown
<1>7. Solid(u) /\ SameCalls(u, w)
  BY DEF Grown, SameCalls
<1> QED BY <1>1, <1>2, <1>5, <1>6, <1>7 DEF Grown

LEMMA PouredIs ==
    ASSUME NEW f, f = [i \in 1 .. Quantum |-> f[i]], NEW n \in 0 .. Quantum
    PROVE  Len(SubSeq(f, 1, n)) = n /\ \A i \in 1 .. n : SubSeq(f, 1, n)[i] = f[i]
<1> DEFINE S == {f[i] : i \in 1 .. Quantum}
<1>0. Quantum \in Nat
  BY JournalAssumption
<1>1. f \in Seq(S) /\ Len(f) = Quantum
  BY <1>0
<1> HIDE DEF S
<1>2. 1 \in 1 .. Len(f) + 1 /\ n \in 1 - 1 .. Len(f)
  BY <1>0, <1>1
<1>3. /\ Len(SubSeq(f, 1, n)) = n - 1 + 1
      /\ \A i \in 1 .. n - 1 + 1 : SubSeq(f, 1, n)[i] = f[1 + i - 1]
  BY <1>1, <1>2, SubSeqProperties
<1> QED BY <1>0, <1>3

\* The quantum buffer goes to the device.
LEMMA PouredGrows ==
    ASSUME NEW w, Solid(w)
    PROVE  LET v == FlushQuantum(w) IN
           /\ Grown(v, w) /\ v.next = w.next /\ v.qCount = 0 /\ v.pending = w.pending /\ Start(v) = w.next
           /\ \A l \in LBAs : View(v)[l] = View(w)[l]
<1> DEFINE v == FlushQuantum(w)
           s == Start(w)
           f == SubSeq(w.qBuf, 1, w.qCount)
<1>0. /\ MaxLBA \in Nat /\ w.next \in Nat /\ w.qCount \in Nat /\ s \in 0 .. w.next /\ Shape(w)
      /\ \A l \in 0 .. w.next - 1 : l \in LBAs
      /\ \A l \in LBAs : l < s => View(w)[l] = w.disk[l]
      /\ \A l \in LBAs : s <= l /\ l < w.next => View(w)[l] = w.qBuf[l - s + 1]
      /\ \A l \in LBAs : w.next <= l => View(w)[l] = w.disk[l]
  BY SolidTypes
<1>1. PouredInto(v, w)
  BY <1>0, FlushQuantumFields
<1>2. CASE w.qCount = 0
  <2>1. v = w
    BY <1>2 DEF FlushQuantum
  <2>2. Start(w) = w.next
    BY <1>0, <1>2 DEF Start
  <2> QED BY <1>2, <2>1, <2>2, GrownSelf
<1>3. CASE w.qCount # 0
  <2>1. Len(f) = w.qCount /\ \A i \in 1 .. w.qCount : f[i] = w.qBuf[i]
    BY PouredIs DEF Solid
  <2>2. w.qLBA = s /\ s + w.qCount = w.next
    BY <1>0, <1>3 DEF Solid, Placed, Start, Shape
  <2>3. /\ Shape(v) /\ SameCalls(v, w) /\ v.next = w.next /\ v.qCount = 0 /\ v.qBuf = w.qBuf
        /\ v.pending = w.pending /\ v.qLBA = w.next
        /\ WroteAt(v, w, s, f)
    BY <1>1, <1>3, <2>2 DEF PouredInto, Poured
  <2> HIDE DEF f, v
  <2>4. ASSUME NEW l \in LBAs
        PROVE  /\ v.disk[l] = View(w)[l]
               /\ v.alt[l] = IF s <= l /\ l < w.next THEN w.alt[l] \cup {View(w)[l]} ELSE w.alt[l]
    <3>1. l \in s .. s + Len(f) - 1 <=> s <= l /\ l < w.next
      BY <1>0, <2>1, <2>2 DEF LBAs
    <3>2. CASE s <= l /\ l < w.next
      <4>1. l - s + 1 \in 1 .. w.qCount
        BY <1>0, <2>2, <3>2 DEF LBAs
      <4>2. f[l - s + 1] = View(w)[l]
        BY <1>0, <2>1, <3>2, <4>1
      <4> QED BY <2>3, <3>1, <3>2, <4>2 DEF WroteAt
    <3>3. CASE ~(s <= l /\ l < w.next)
      <4>1. View(w)[l] = w.disk[l]
        BY <1>0, <3>3 DEF LBAs
      <4> QED BY <2>3, <3>1, <3>3, <4>1 DEF WroteAt
    <3> QED BY <3>2, <3>3
  <2>40. ASSUME NEW l \in LBAs, l < s \/ ~(l < w.next) PROVE v.disk[l] = w.disk[l] /\ v.alt[l] = w.alt[l]
    <3>1. l \in Nat
      BY <1>0 DEF LBAs
    <3>2. ~(s <= l /\ l < w.next) /\ (l < s \/ w.next <= l)
      BY <1>0, <2>40, <3>1
    <3>3. View(w)[l] = w.disk[l]
      BY <1>0, <3>2
    <3>4. v.disk[l] = View(w)[l] /\ v.alt[l] = IF s <= l /\ l < w.next THEN w.alt[l] \cup {View(w)[l]} ELSE w.alt[l]
      BY <2>4
    <3> QED BY <3>2, <3>3, <3>4
  <2>5. Start(v) = w.next
    BY <1>0, <2>3 DEF Start
  <2>6. \A l \in LBAs : View(v)[l] = v.disk[l]
    BY <1>0, <2>3, <2>5 DEF View, LBAs
  <2>7. ASSUME NEW l \in LBAs
        PROVE  IF l < Start(v) THEN v.disk[l] # Null /\ (\A b \in v.alt[l] : b \in {Null, v.disk[l]})
               ELSE v.disk[l] = Null /\ v.alt[l] = {Null}
    <3>0. l \in Nat
      BY <1>0 DEF LBAs
    <3>1. CASE l < s
      <4>1. l < w.next /\ v.disk[l] = w.disk[l] /\ v.alt[l] = w.alt[l]
        BY <1>0, <2>40, <3>0, <3>1
      <4> QED BY <2>5, <3>1, <4>1, SolidDevice
    <3>2. CASE s <= l /\ l < w.next
      <4>1. l - s + 1 \in 1 .. w.qCount
        BY <1>0, <2>2, <3>2 DEF LBAs
      <4>2. View(w)[l] # Null
        BY <1>0, <3>2, <4>1 DEF Solid
      <4>3. w.alt[l] = {Null}
        BY <1>0, <3>0, <3>2, SolidDevice
      <4> QED BY <2>4, <2>5, <3>2, <4>2, <4>3
    <3>3. CASE w.next <= l
      <4>1. ~(l < s) /\ ~(l < w.next) /\ v.disk[l] = w.disk[l] /\ v.alt[l] = w.alt[l]
        BY <1>0, <2>40, <3>0, <3>3
      <4> QED BY <2>5, <4>1, SolidDevice
    <3> QED BY <1>0, <3>0, <3>1, <3>2, <3>3
  <2>8. Placed(v)
    BY <2>3 DEF Placed
  <2>9. Solid(v)
    BY <2>3, <2>7, <2>8, <1>0, JournalAssumption DEF Solid
  <2>10. \A l \in 0 .. s - 1 : Firm(w, l) => Firm(v, l)
    <3> SUFFICES ASSUME NEW l \in 0 .. s - 1, Firm(w, l) PROVE Firm(v, l)
      OBVIOUS
    <3>1. l \in LBAs /\ l < s
      BY <1>0
    <3>2. v.disk[l] = w.disk[l] /\ v.alt[l] = w.alt[l]
      BY <2>40, <3>1
    <3> QED BY <3>2 DEF Firm
  <2>11. Agree(View(w), View(v), w.next)
    BY <1>0, <2>4, <2>6 DEF Agree
  <2>12. Grown(v, w)
    BY <1>0, <2>3, <2>5, <2>9, <2>10, <2>11 DEF Grown
  <2> QED BY <2>3, <2>4, <2>5, <2>6, <2>12 DEF v
<1> QED BY <1>2, <1>3

\* One more block, in the quantum buffer or with it on the device.
BlockAdded(v, w, b) ==
    /\ Grown(v, w) /\ v.qCount < Quantum /\ v.next = w.next + 1 /\ v.pending = w.pending
    /\ View(v)[w.next] = b

LEMMA BufferedGrows ==
    ASSUME NEW w, Solid(w), w.qCount < Quantum, w.next < MaxLBA, NEW b, b # Null
    PROVE  LET v == Buffered(w, b) IN
           /\ Grown(v, w) /\ v.qCount = w.qCount + 1 /\ v.next = w.next + 1 /\ v.pending = w.pending
           /\ View(v)[w.next] = b
<1> DEFINE v == Buffered(w, b)
           s == Start(w)
           n == w.next
           q == w.qCount
<1>0. /\ MaxLBA \in Nat /\ n \in Nat /\ q \in Nat /\ s \in 0 .. n /\ Shape(w) /\ Quantum \in Nat
      /\ \A l \in LBAs : l < s => View(w)[l] = w.disk[l]
      /\ \A l \in LBAs : s <= l /\ l < n => View(w)[l] = w.qBuf[l - s + 1]
  BY SolidTypes, JournalAssumption
<1>1. BufferedInto(v, w, b)
  BY <1>0, BufferedFields
<1> HIDE DEF v
<1>2. /\ Shape(v) /\ SameCalls(v, w) /\ v.next = n + 1 /\ v.qCount = q + 1 /\ v.pending = w.pending
      /\ v.qLBA = (IF q = 0 THEN n ELSE w.qLBA) /\ v.qBuf = [w.qBuf EXCEPT ![q + 1] = b]
      /\ v.disk = w.disk /\ v.alt = w.alt
  BY <1>1 DEF BufferedInto
<1>3. s = n - q /\ s + q = n
  BY <1>0 DEF Start
<1>4. Start(v) = s
  BY <1>0, <1>2 DEF Start
<1>5. /\ DOMAIN v.qBuf = 1 .. Quantum /\ v.qBuf = [i \in 1 .. Quantum |-> v.qBuf[i]]
      /\ v.qBuf[q + 1] = b /\ \A i \in 1 .. q : v.qBuf[i] = w.qBuf[i]
  <2>1. w.qBuf = [i \in 1 .. Quantum |-> w.qBuf[i]] /\ q + 1 \in 1 .. Quantum
    BY <1>0 DEF Solid
  <2>2. v.qBuf = [w.qBuf EXCEPT ![q + 1] = b]
    BY <1>2
  <2>3. \A i \in 1 .. q : i \in 1 .. Quantum /\ i # q + 1
    BY <1>0, <2>1
  <2>4. DOMAIN w.qBuf = 1 .. Quantum
    BY DEF Solid
  <2> DEFINE f == w.qBuf
             g == v.qBuf
  <2> HIDE DEF q, f, g
  <2>5. g = [f EXCEPT ![q + 1] = b] /\ DOMAIN f = 1 .. Quantum
    BY <2>2, <2>4 DEF f, g
  <2>6. g = [i \in 1 .. Quantum |-> IF i = q + 1 THEN b ELSE f[i]]
    BY <2>5
  <2>7. DOMAIN g = 1 .. Quantum /\ g = [i \in 1 .. Quantum |-> g[i]] /\ g[q + 1] = b
    BY <2>1, <2>6
  <2>8. \A i \in 1 .. q : g[i] = f[i]
    BY <2>3, <2>6
  <2> QED BY <2>7, <2>8 DEF f, g
<1> HIDE DEF n, q
<1>6. Placed(v)
  <2>1. n \in Nat /\ q \in Nat /\ v.qLBA = (IF q = 0 THEN n ELSE w.qLBA)
    BY <1>0, <1>2
  <2>2. q # 0 => w.qLBA + q = n
    BY <2>1 DEF Solid, Placed, n, q
  <2>3. w.qLBA \in Int
    BY <1>0 DEF Shape
  <2>4. v.qLBA + v.qCount = v.next
    BY <1>2, <2>1, <2>2, <2>3
  <2> QED BY <1>2, <2>4 DEF Placed
<1>7. Solid(v)
  <2>1. v.next \in 0 .. MaxLBA /\ v.qCount \in 0 .. Quantum /\ v.qCount <= v.next
    BY <1>0, <1>2, <1>3 DEF n, q
  <2>2. \A i \in 1 .. v.qCount : v.qBuf[i] # Null
    <3>1. \A i \in 1 .. q + 1 : i = q + 1 \/ i \in 1 .. q
      BY <1>0
    <3>2. \A i \in 1 .. q : w.qBuf[i] # Null
      BY DEF Solid, q
    <3> QED BY <1>2, <1>5, <3>1, <3>2
  <2>3. \A l \in LBAs : IF l < Start(v)
                        THEN v.disk[l] # Null /\ (\A x \in v.alt[l] : x \in {Null, v.disk[l]})
                        ELSE v.disk[l] = Null /\ v.alt[l] = {Null}
    BY <1>2, <1>4, SolidDevice
  <2> QED BY <1>5, <1>6, <2>1, <2>2, <2>3 DEF Solid
<1>8. /\ \A l \in LBAs : l < s => View(v)[l] = v.disk[l]
      /\ \A l \in LBAs : s <= l /\ l < n + 1 => View(v)[l] = v.qBuf[l - s + 1]
  <2>1. \A l \in LBAs : Start(v) <= l /\ l < v.next => View(v)[l] = v.qBuf[l - Start(v) + 1]
    BY <1>7, SolidTypes
  <2>2. \A l \in LBAs : l < Start(v) => View(v)[l] = v.disk[l]
    BY <1>7, SolidTypes
  <2> QED BY <1>2, <1>4, <2>1, <2>2
<1>9. View(v)[n] = b
  <2>1. n \in LBAs /\ s <= n /\ n < n + 1 /\ n - s + 1 = q + 1
    BY <1>0, <1>3 DEF LBAs, n
  <2>2. View(v)[n] = v.qBuf[n - s + 1]
    BY <1>8, <2>1
  <2> QED BY <1>5, <2>1, <2>2
<1>10. Agree(View(w), View(v), n)
  <2> SUFFICES ASSUME NEW l \in 0 .. n - 1 PROVE View(v)[l] = View(w)[l]
    BY DEF Agree
  <2>1. l \in LBAs /\ l \in Nat /\ l < n
    BY <1>0 DEF LBAs, n
  <2>2. CASE l < s
    BY <1>0, <1>2, <1>8, <2>1, <2>2
  <2>3. CASE s <= l
    <3>1. l - s + 1 \in 1 .. q /\ l < n + 1
      BY <1>0, <1>3, <2>1, <2>3
    <3>2. View(v)[l] = v.qBuf[l - s + 1] /\ View(w)[l] = w.qBuf[l - s + 1]
      BY <1>0, <1>8, <2>1, <2>3, <3>1
    <3> QED BY <1>5, <3>1, <3>2
  <2> QED BY <1>0, <2>1, <2>2, <2>3
<1>11. Grown(v, w)
  <2>1. w.next <= v.next /\ Start(w) <= Start(v)
    BY <1>0, <1>2, <1>4 DEF n
  <2>2. \A l : Firm(w, l) => Firm(v, l)
    BY <1>2 DEF Firm
  <2> QED BY <1>2, <1>7, <1>10, <2>1, <2>2 DEF Grown, n
<1> QED BY <1>2, <1>9, <1>11 DEF v, n, q

LEMMA BlockAdds ==
    ASSUME NEW w, Solid(w), w.qCount < Quantum, w.next < MaxLBA, NEW b, b # Null
    PROVE  BlockAdded(WriteOne(w, b), w, b)
<1> DEFINE u == Buffered(w, b)
           v == FlushQuantum(u)
<1>1. WriteOne(w, b) = IF u.qCount = Quantum THEN v ELSE u
  BY WriteOneIs
<1>2. Grown(u, w) /\ u.qCount = w.qCount + 1 /\ u.next = w.next + 1 /\ u.pending = w.pending /\ View(u)[w.next] = b
  BY BufferedGrows
<1>3. w.qCount \in Nat /\ Quantum \in Nat /\ Quantum > 0 /\ w.next \in LBAs /\ w.next \in Nat
  BY SolidTypes, JournalAssumption DEF LBAs
<1> HIDE DEF u
<1>4. /\ Grown(v, u) /\ v.next = u.next /\ v.qCount = 0 /\ v.pending = u.pending
      /\ \A l \in LBAs : View(v)[l] = View(u)[l]
  BY <1>2, PouredGrows DEF Grown
<1> HIDE DEF v
<1>5. BlockAdded(v, w, b)
  <2>1. Grown(v, w)
    BY <1>2, <1>4, GrownTwice
  <2> QED BY <1>2, <1>3, <1>4, <2>1 DEF BlockAdded
<1>6. CASE u.qCount # Quantum
  <2>1. u.qCount < Quantum
    BY <1>2, <1>3, <1>6
  <2>2. BlockAdded(u, w, b)
    BY <1>2, <2>1 DEF BlockAdded
  <2> QED BY <1>1, <1>6, <2>2
<1> QED BY <1>1, <1>5, <1>6

\* The same log in another struct.
LEMMA SolidSame ==
    ASSUME NEW w, Solid(w), NEW v, Shape(v), v.next = w.next, v.qLBA = w.qLBA, v.qCount = w.qCount,
           v.qBuf = w.qBuf, v.disk = w.disk, v.alt = w.alt
    PROVE  Solid(v) /\ Start(v) = Start(w) /\ View(v) = View(w) /\ \A l : Firm(v, l) <=> Firm(w, l)
<1>1. Start(v) = Start(w)
  BY DEF Start
<1>2. View(v) = View(w)
  BY <1>1 DEF View
<1>3. Placed(v)
  BY DEF Solid, Placed
<1>4. Solid(v)
  BY <1>1, <1>3 DEF Solid
<1> QED BY <1>1, <1>2, <1>4 DEF Firm

\* The open pack becomes a block.
PackAdded(v, w) ==
    /\ Grown(v, w) /\ v.pending = <<>> /\ v.qCount < Quantum
    /\ w.pending = <<>> => v.next = w.next /\ \A l \in LBAs : View(v)[l] = View(w)[l]
    /\ w.pending # <<>> => v.next = w.next + 1 /\ View(v)[w.next] = Pack(w.pending)

LEMMA PackIsBlock == \A s : Pack(s) # Null
<1>1. \A s : Pack(s).kind = "pack"
  BY DEF Pack
<1>2. Null.kind = "null"
  BY DEF Null
<1> QED BY <1>1, <1>2

LEMMA PackAdds ==
    ASSUME NEW w, Solid(w), w.qCount < Quantum, Fits(w)
    PROVE  PackAdded(FlushPending(w), w)
<1>1. CASE w.pending = <<>>
  <2>1. FlushPending(w) = w
    BY <1>1 DEF FlushPending
  <2> QED BY <1>1, <2>1, GrownSelf DEF PackAdded
<1>2. CASE w.pending # <<>>
  <2> DEFINE b == Pack(w.pending)
             u == WriteOne(w, b)
             v == FlushPending(w)
  <2>1. b # Null /\ w.next < MaxLBA
    BY <1>2, PackIsBlock DEF Fits
  <2> HIDE DEF b
  <2>2. BlockAdded(u, w, b)
    BY <2>1, BlockAdds
  <2>3. v = [u EXCEPT !.pending = <<>>]
    BY <1>2 DEF FlushPending, b
  <2> HIDE DEF u, v
  <2>4. Shape(u) /\ Solid(u)
    BY <2>2 DEF BlockAdded, Grown, Solid, Placed
  <2>5. v = [disk |-> u.disk, alt |-> u.alt, next |-> u.next, qLBA |-> u.qLBA, qCount |-> u.qCount,
             qBuf |-> u.qBuf, pending |-> <<>>, packDepth |-> u.packDepth,
             checkLBA |-> u.checkLBA, hasCheck |-> u.hasCheck, synced |-> u.synced]
    BY <2>3, <2>4 DEF Shape
  <2>6. /\ v.next = u.next /\ v.qLBA = u.qLBA /\ v.qCount = u.qCount /\ v.pending = <<>> /\ SameCalls(v, u)
        /\ v.qBuf = u.qBuf /\ v.disk = u.disk /\ v.alt = u.alt
    BY <2>5 DEF SameCalls
  <2>7. Shape(v)
    BY <2>4, <2>5, <2>6 DEF Shape, SameCalls
  <2>8. Solid(v) /\ Start(v) = Start(u) /\ View(v) = View(u) /\ \A l : Firm(v, l) <=> Firm(u, l)
    BY <2>4, <2>6, <2>7, SolidSame
  <2>9. Grown(v, w)
    BY <2>2, <2>6, <2>8 DEF BlockAdded, Grown, SameCalls
  <2> QED BY <1>2, <2>2, <2>6, <2>8, <2>9 DEF PackAdded, BlockAdded, b, v
<1> QED BY <1>1, <1>2

\* The buffers are on the device.
LEMMA ReadyAdds ==
    ASSUME NEW w, Solid(w), w.qCount < Quantum, Fits(w)
    PROVE  /\ PackAdded(TruncReady(w), w) /\ TruncReady(w).qCount = 0
           /\ Start(TruncReady(w)) = TruncReady(w).next
           /\ \A l \in LBAs : View(TruncReady(w))[l] = TruncReady(w).disk[l]
<1> DEFINE u == FlushPending(w)
           v == FlushQuantum(u)
<1>0. Quantum \in Nat /\ Quantum > 0 /\ w.next \in Nat
  BY JournalAssumption, SolidTypes
<1>1. TruncReady(w) = v
  BY DEF TruncReady
<1>2. PackAdded(u, w)
  BY PackAdds
<1> HIDE DEF u
<1>3. /\ Grown(v, u) /\ v.next = u.next /\ v.qCount = 0 /\ v.pending = u.pending /\ Start(v) = u.next
      /\ \A l \in LBAs : View(v)[l] = View(u)[l]
  BY <1>2, PouredGrows DEF PackAdded, Grown
<1> HIDE DEF v
<1>4. Grown(v, w)
  BY <1>2, <1>3, GrownTwice DEF PackAdded
<1>5. w.pending # <<>> => w.next \in LBAs
  <2>1. w.pending # <<>> => w.next < MaxLBA
    BY DEF Fits
  <2> QED BY <1>0, <2>1, JournalAssumption DEF LBAs
<1>6. PackAdded(v, w)
  BY <1>0, <1>2, <1>3, <1>4, <1>5 DEF PackAdded
<1>7. \A l \in LBAs : View(v)[l] = v.disk[l]
  <2>1. Solid(v) /\ \A l \in LBAs : l \in Nat
    BY <1>3 DEF Grown, LBAs
  <2>2. v.next \in Nat /\ Start(v) = v.next
    BY <1>3, <2>1, SolidTypes
  <2>3. \A l \in LBAs : l < v.next \/ v.next <= l
    BY <2>1, <2>2
  <2> QED BY <2>1, <2>2, <2>3, SolidTypes
<1> QED BY <1>1, <1>3, <1>6, <1>7

LEMMA SameView ==
    ASSUME NEW v, NEW w, \A l \in LBAs : View(v)[l] = View(w)[l]
    PROVE  View(v) = View(w)
<1>1. View(v) = [l \in LBAs |-> View(v)[l]] /\ View(w) = [l \in LBAs |-> View(w)[l]]
  BY DEF View
<1> QED BY <1>1

\* What a barrier leaves.
FlushedFrom(v, w) ==
    /\ PackAdded(v, w) /\ Drained(v) /\ Still(v) /\ Start(v) = v.next
    /\ \A l \in LBAs : View(v)[l] = v.disk[l]

LEMMA FlushAdds ==
    ASSUME NEW w, Solid(w), w.qCount < Quantum, Fits(w)
    PROVE  FlushedFrom(Flush(w), w)
<1> DEFINE u == TruncReady(w)
           x == DevFlush(u)
           v == Flush(w)
<1>1. /\ PackAdded(u, w) /\ u.qCount = 0 /\ Start(u) = u.next
      /\ \A l \in LBAs : View(u)[l] = u.disk[l]
  BY ReadyAdds
<1>2. v = [x EXCEPT !.synced = TRUE]
  BY DEF Flush, TruncReady
<1> HIDE DEF u, x, v
<1>3. Solid(u) /\ Shape(u)
  BY <1>1 DEF PackAdded, Grown, Solid, Placed
<1>4. SameBuffers(x, u) /\ x.disk = u.disk /\ x.alt = [l \in LBAs |-> {u.disk[l]}]
  BY <1>3, DevFlushFields DEF x
<1>5. v = [disk |-> x.disk, alt |-> x.alt, next |-> x.next, qLBA |-> x.qLBA, qCount |-> x.qCount,
           qBuf |-> x.qBuf, pending |-> x.pending, packDepth |-> x.packDepth,
           checkLBA |-> x.checkLBA, hasCheck |-> x.hasCheck, synced |-> TRUE]
  BY <1>2, <1>4 DEF SameBuffers, Shape
<1>6. /\ v.next = u.next /\ v.qLBA = u.qLBA /\ v.qCount = u.qCount /\ v.qBuf = u.qBuf /\ v.pending = u.pending
      /\ v.disk = u.disk /\ SameCalls(v, u)
  BY <1>4, <1>5 DEF SameBuffers, SameCalls
<1>7. \A l \in LBAs : v.alt[l] = {v.disk[l]}
  BY <1>4, <1>5
<1>8. Shape(v)
  BY <1>4, <1>5, <1>6 DEF SameBuffers, SameCalls, Shape
<1>9. Placed(v)
  BY <1>1, <1>6, <1>8 DEF Placed
<1>10. Start(v) = Start(u) /\ Start(v) = v.next
  BY <1>1, <1>6 DEF Start
<1>11. \A l \in LBAs : IF l < Start(v) THEN v.disk[l] # Null /\ (\A b \in v.alt[l] : b \in {Null, v.disk[l]})
                       ELSE v.disk[l] = Null /\ v.alt[l] = {Null}
  <2> SUFFICES ASSUME NEW l \in LBAs
               PROVE  IF l < Start(v) THEN v.disk[l] # Null /\ (\A b \in v.alt[l] : b \in {Null, v.disk[l]})
                      ELSE v.disk[l] = Null /\ v.alt[l] = {Null}
    OBVIOUS
  <2>1. v.disk[l] = u.disk[l] /\ v.alt[l] = {v.disk[l]} /\ Start(v) = Start(u)
    BY <1>6, <1>7, <1>10
  <2>2. (l < Start(u) => u.disk[l] # Null) /\ (~(l < Start(u)) => u.disk[l] = Null)
    BY <1>3, SolidDevice
  <2>3. \A b \in v.alt[l] : b \in {Null, v.disk[l]}
    BY <2>1
  <2> QED BY <2>1, <2>2, <2>3
<1>12. Solid(v)
  BY <1>3, <1>6, <1>9, <1>11 DEF Solid
<1>13. View(v) = View(u)
  <2>1. \A l \in LBAs : View(v)[l] = View(u)[l]
    BY <1>6, <1>10 DEF View
  <2> QED BY <2>1, SameView
<1>14. w.next \in Nat /\ u.next \in Nat /\ Start(w) \in Nat /\ Start(u) \in 0 .. u.next /\ \A l \in 0 .. u.next - 1 : l \in LBAs
  BY <1>3, SolidTypes
<1>15. Grown(v, w)
  <2>1. \A l \in 0 .. Start(w) - 1 : Firm(v, l)
    <3>1. \A l \in 0 .. Start(w) - 1 : l \in 0 .. u.next - 1
      BY <1>1, <1>14 DEF PackAdded, Grown
    <3> QED BY <1>7, <1>14, <3>1 DEF Firm
  <2> QED BY <1>1, <1>6, <1>10, <1>12, <1>13, <2>1 DEF PackAdded, Grown, SameCalls
<1>16. PackAdded(v, w)
  BY <1>1, <1>6, <1>13, <1>15 DEF PackAdded
<1>17. Drained(v) /\ Still(v)
  BY <1>1, <1>6, <1>7 DEF Drained, Still, PackAdded
<1>18. \A l \in LBAs : View(v)[l] = v.disk[l]
  BY <1>1, <1>6, <1>13
<1> QED BY <1>10, <1>16, <1>17, <1>18 DEF FlushedFrom, v

-----------------------------------------------------------------------------
(* A log that keeps its records.                                           *)

\* The open pack has no record above top.
PendingOK(s, top) == s \in Seq(Int) /\ \A r \in Recs : r > top => ~Carries(s, r)

\* The records of X that the first F blocks do not give back.
Loose(V, X, F) == {r \in X : ~Below(V, r, F)}

\* The first F blocks are durable: they have every promised record, and all but u.
Saved(w, F, X, P, u) ==
    /\ \A l \in 0 .. F - 1 : Firm(w, l)
    /\ \A r \in P \cap X : Below(View(w), r, F)
    /\ Cardinality(Loose(View(w), X, F)) <= u

\* The records of X are in the blocks or in the open pack, P of them durable, and all
\* but u.
GoodLog(w, X, top, P, u) ==
    /\ Solid(w) /\ w.qCount < Quantum /\ Fits(w)
    /\ LogOK(View(w), w.next, X, top)
    /\ PendingOK(w.pending, top)
    /\ \A r \in X : Below(View(w), r, w.next) \/ Carries(w.pending, r)
    /\ w.checkLBA \in 0 .. w.next /\ Unused(View(w), w.checkLBA, X)
    /\ \E F \in 0 .. Start(w) : Saved(w, F, X, P, u)

LEMMA EmptyPending == \A top : PendingOK(<<>>, top) /\ \A r : ~Carries(<<>>, r)
BY DEF PendingOK, Carries

LEMMA LogPrefix ==
    ASSUME NEW V, NEW U, NEW n \in Nat, NEW m \in Nat, m <= n, Agree(V, U, m), NEW X, NEW top, LogOK(V, n, X, top)
    PROVE  LogOK(U, m, X, top)
<1>1. \A l \in 0 .. m - 1 : l \in 0 .. n - 1 /\ U[l] = V[l]
  BY DEF Agree
<1>2. \A c \in 0 .. m - 1 : \A l \in 0 .. c - 1 : l \in 0 .. m - 1
  OBVIOUS
<1>3. Ordered(U, m, X)
  <2> SUFFICES ASSUME NEW a \in X, NEW b \in X, NEW l \in 0 .. m - 1, a < b, Carries(U[l].recs, b)
               PROVE  \E k \in 0 .. l : Covers(U, a, k)
    BY DEF Ordered
  <2>1. PICK k \in 0 .. l : Covers(V, a, k)
    BY <1>1 DEF LogOK, Ordered
  <2>2. k \in 0 .. m - 1
    OBVIOUS
  <2> QED BY <2>1, <2>2, CoversLocal
<1>4. Marked(U, m, X)
  <2> SUFFICES ASSUME NEW c \in 0 .. m - 1, IsCheck(U[c]), NEW l \in 0 .. c - 1, NEW r \in X
               PROVE  ~Carries(U[l].recs, r)
    BY DEF Marked
  <2>1. U[c] = V[c] /\ U[l] = V[l] /\ c \in 0 .. n - 1
    BY <1>1, <1>2
  <2> QED BY <2>1 DEF LogOK, Marked
<1>5. Numbered(U, m, top)
  BY <1>1 DEF LogOK, Numbered
<1>6. Formed(U, m)
  BY <1>1 DEF LogOK, Formed
<1> QED BY <1>3, <1>4, <1>5, <1>6 DEF LogOK

LEMMA AgreeBack == ASSUME NEW V, NEW U, NEW n, Agree(V, U, n) PROVE Agree(U, V, n)
BY DEF Agree

\* What a longer log keeps of the shorter one.
LEMMA GrownRest ==
    ASSUME NEW w, NEW X, NEW top, NEW P, NEW u, GoodLog(w, X, top, P, u), NEW v, Grown(v, w)
    PROVE  /\ v.checkLBA \in 0 .. v.next /\ Unused(View(v), v.checkLBA, X)
           /\ v.checkLBA \in 0 .. w.next /\ \A l \in 0 .. v.checkLBA - 1 : View(v)[l] = View(w)[l]
           /\ \E F \in 0 .. Start(v) : Saved(v, F, X, P, u)
<1>1. Solid(w) /\ Solid(v)
  BY DEF GoodLog, Grown
<1>2. w.next \in Nat /\ Start(w) \in 0 .. w.next /\ v.next \in Nat /\ Start(v) \in 0 .. v.next
  BY <1>1, SolidTypes
<1>3. w.next <= v.next /\ Start(w) <= Start(v) /\ v.checkLBA = w.checkLBA
  BY DEF Grown, SameCalls
<1>40. w.checkLBA \in 0 .. w.next /\ Unused(View(w), w.checkLBA, X) /\ Agree(View(w), View(v), w.next)
  BY DEF GoodLog, Grown
<1>41. \A l \in 0 .. w.checkLBA - 1 : View(v)[l] = View(w)[l]
  BY <1>2, <1>40 DEF Agree
<1>4. v.checkLBA \in 0 .. v.next /\ Unused(View(v), v.checkLBA, X)
  BY <1>2, <1>3, <1>40, <1>41 DEF Unused
<1>5. PICK F \in 0 .. Start(w) : Saved(w, F, X, P, u)
  BY DEF GoodLog
<1>6. F \in 0 .. Start(v) /\ F \in Nat /\ F <= w.next
  BY <1>2, <1>3
<1>7. Agree(View(w), View(v), F) /\ Agree(View(v), View(w), F)
  BY <1>2, <1>6 DEF Grown, Agree
<1>8. \A r : Below(View(w), r, F) <=> Below(View(v), r, F)
  BY <1>6, <1>7, BelowLocal
<1>9. Loose(View(w), X, F) = Loose(View(v), X, F)
  BY <1>8 DEF Loose
<1>10. \A l \in 0 .. F - 1 : Firm(v, l)
  <2>1. \A l \in 0 .. F - 1 : l \in 0 .. Start(w) - 1
    BY <1>2
  <2> QED BY <1>5, <2>1 DEF Saved, Grown
<1>11. Saved(v, F, X, P, u)
  BY <1>5, <1>8, <1>9, <1>10 DEF Saved
<1> QED BY <1>3, <1>4, <1>6, <1>11, <1>40, <1>41

LEMMA GrownGood ==
    ASSUME NEW w, NEW X, NEW top, NEW P, NEW u, GoodLog(w, X, top, P, u),
           NEW v, Grown(v, w), v.qCount < Quantum, Fits(v), LogOK(View(v), v.next, X, top),
           PendingOK(v.pending, top), \A r \in X : Below(View(v), r, v.next) \/ Carries(v.pending, r)
    PROVE  GoodLog(v, X, top, P, u)
<1>1. /\ v.checkLBA \in 0 .. v.next /\ Unused(View(v), v.checkLBA, X)
      /\ \E F \in 0 .. Start(v) : Saved(v, F, X, P, u)
  BY GrownRest
<1> QED BY <1>1 DEF GoodLog, Grown

LEMMA CountMore ==
    ASSUME NEW top \in Nat, NEW X, X \subseteq 1 .. top, NEW V, NEW F, NEW u \in Nat,
           Cardinality(Loose(V, X, F)) <= u, NEW q
    PROVE  Cardinality(Loose(V, X \cup {q}, F)) <= u + 1
<1> DEFINE S == Loose(V, X, F)
           T == Loose(V, X \cup {q}, F)
<1>1. IsFiniteSet(1 .. top)
  BY FS_Interval
<1>2. IsFiniteSet(S)
  BY <1>1, FS_Subset DEF Loose
<1>3. T \subseteq S \cup {q}
  BY DEF Loose
<1>4. Cardinality(S) <= u
  OBVIOUS
<1> HIDE DEF S, T
<1>5. /\ IsFiniteSet(S \cup {q}) /\ Cardinality(S) \in Nat
      /\ Cardinality(S \cup {q}) = IF q \in S THEN Cardinality(S) ELSE Cardinality(S) + 1
  BY <1>2, FS_AddElement, FS_CardinalityType
<1>6. Cardinality(T) <= Cardinality(S \cup {q}) /\ Cardinality(T) \in Nat
  BY <1>3, <1>5, FS_Subset, FS_CardinalityType
<1>7. Cardinality(T) <= u + 1
  BY <1>4, <1>5, <1>6
<1> QED BY <1>7 DEF T

\* A record more, in the blocks or in the open pack.
LEMMA GrownMore ==
    ASSUME NEW w, NEW X, NEW top \in Nat, NEW P, NEW u \in Nat, GoodLog(w, X, top, P, u), P \subseteq 1 .. top,
           NEW v, Grown(v, w), v.qCount < Quantum, Fits(v), NEW r, r = top + 1, r \in Recs,
           LogOK(View(v), v.next, X \cup {r}, r), PendingOK(v.pending, r),
           \A q \in X \cup {r} : Below(View(v), q, v.next) \/ Carries(v.pending, q)
    PROVE  GoodLog(v, X \cup {r}, r, P, u + 1)
<1>1. /\ v.checkLBA \in 0 .. v.next /\ Unused(View(v), v.checkLBA, X)
      /\ v.checkLBA \in 0 .. w.next /\ \A l \in 0 .. v.checkLBA - 1 : View(v)[l] = View(w)[l]
      /\ \E F \in 0 .. Start(v) : Saved(v, F, X, P, u)
  BY GrownRest
<1>2. \A l \in 0 .. w.next - 1 : ~Carries(View(w)[l].recs, r)
  BY DEF GoodLog, LogOK, Numbered
<1>3. Unused(View(v), v.checkLBA, X \cup {r})
  <2>1. w.next \in Nat
    BY SolidTypes DEF GoodLog
  <2>2. \A l \in 0 .. v.checkLBA - 1 : l \in 0 .. w.next - 1
    BY <1>1, <2>1
  <2>3. \A l \in 0 .. v.checkLBA - 1 : ~Carries(View(v)[l].recs, r)
    BY <1>1, <1>2, <2>2
  <2> QED BY <1>1, <2>3 DEF Unused
<1>4. PICK F \in 0 .. Start(v) : Saved(v, F, X, P, u)
  BY <1>1
<1>5. X \subseteq 1 .. top /\ r \notin P
  BY DEF GoodLog, LogOK
<1>6. Cardinality(Loose(View(v), X \cup {r}, F)) <= u + 1
  BY <1>4, <1>5, CountMore DEF Saved
<1>7. \A q \in P \cap (X \cup {r}) : q \in P \cap X
  BY <1>5
<1>8. Saved(v, F, X \cup {r}, P, u + 1)
  BY <1>4, <1>6, <1>7 DEF Saved
<1> QED BY <1>1, <1>3, <1>8 DEF GoodLog, Grown

\* The pack is closed.
LEMMA PackedGood ==
    ASSUME NEW w, NEW X, NEW top, NEW P, NEW u, GoodLog(w, X, top, P, u), NEW v, PackAdded(v, w)
    PROVE  GoodLog(v, X, top, P, u) /\ \A r \in X : Below(View(v), r, v.next)
<1> DEFINE n == w.next
           V == View(w)
           U == View(v)
<1>0. Solid(w) /\ Grown(v, w) /\ v.qCount < Quantum /\ v.pending = <<>> /\ Fits(v) /\ LogOK(V, n, X, top)
  BY DEF GoodLog, PackAdded, Fits
<1>1. n \in Nat
  BY <1>0, SolidTypes
<1>2. LogOK(U, v.next, X, top) /\ \A r \in X : Below(U, r, v.next)
  <2>1. CASE w.pending = <<>>
    <3>1. v.next = n /\ U = V
      BY <2>1, SameView DEF PackAdded
    <3>2. \A r \in X : Below(V, r, n)
      BY <2>1, EmptyPending DEF GoodLog
    <3> QED BY <1>0, <3>1, <3>2
  <2>2. CASE w.pending # <<>>
    <3>1. v.next = n + 1 /\ U[n] = Pack(w.pending) /\ Agree(V, U, n)
      BY <2>2 DEF PackAdded, Grown
    <3>2. U[n].kind = "pack" /\ U[n].recs = w.pending /\ ~IsCheck(U[n])
      BY <3>1 DEF Pack, IsCheck
    <3> HIDE DEF n, V, U
    <3>3. ASSUME NEW r \in X PROVE Below(U, r, n + 1)
      <4>1. CASE Below(V, r, n)
        BY <1>1, <3>1, <4>1, BelowLocal
      <4>2. CASE Carries(w.pending, r)
        <5>1. Covers(U, r, n) /\ n \in 0 .. (n + 1) - 1
          BY <1>1, <3>2, <4>2 DEF Covers
        <5> QED BY <5>1 DEF Below
      <4> QED BY <4>1, <4>2 DEF GoodLog, n, V
    <3>4. \A r \in Recs : r > top => ~Carries(U[n].recs, r)
      BY <3>2 DEF GoodLog, PendingOK
    <3>5. LogOK(U, n + 1, X, top)
      BY <1>0, <1>1, <3>1, <3>2, <3>3, <3>4, OneMoreBlock
    <3> QED BY <3>1, <3>3, <3>5
  <2> QED BY <2>1, <2>2
<1>3. PendingOK(v.pending, top)
  BY <1>0, EmptyPending
<1>4. GoodLog(v, X, top, P, u)
  <2> HIDE DEF n, V
  <2> QED BY <1>0, <1>2, <1>3, GrownGood
<1> QED BY <1>2, <1>4

LEMMA FlushPendingGood ==
    ASSUME NEW w, NEW X, NEW top, NEW P, NEW u, GoodLog(w, X, top, P, u)
    PROVE  /\ GoodLog(FlushPending(w), X, top, P, u) /\ FlushPending(w).pending = <<>>
           /\ \A r \in X : Below(View(FlushPending(w)), r, FlushPending(w).next)
           /\ GoodLog(TruncReady(w), X, top, P, u)
<1>1. Solid(w) /\ w.qCount < Quantum /\ Fits(w)
  BY DEF GoodLog
<1>2. PackAdded(FlushPending(w), w) /\ PackAdded(TruncReady(w), w)
  BY <1>1, PackAdds, ReadyAdds
<1>3. FlushPending(w).pending = <<>>
  BY <1>2 DEF PackAdded
<1> QED BY <1>2, <1>3, PackedGood

\* After a barrier all is durable.
LEMMA FlushGood ==
    ASSUME NEW w, NEW X, NEW top, NEW P, NEW u, GoodLog(w, X, top, P, u), NEW Q
    PROVE  /\ GoodLog(Flush(w), X, top, Q, 0) /\ FlushedFrom(Flush(w), w)
           /\ \A r \in X : Below(View(Flush(w)), r, Flush(w).next)
<1> DEFINE v == Flush(w)
<1>1. FlushedFrom(v, w)
  BY FlushAdds DEF GoodLog
<1> HIDE DEF v
<1>2. GoodLog(v, X, top, P, u) /\ \A r \in X : Below(View(v), r, v.next)
  BY <1>1, PackedGood DEF FlushedFrom
<1>3. v.next \in 0 .. Start(v) /\ \A l \in 0 .. v.next - 1 : l \in LBAs
  <2>1. Solid(v) /\ Start(v) = v.next
    BY <1>1, <1>2 DEF FlushedFrom, GoodLog
  <2> QED BY <2>1, SolidTypes
<1>4. Loose(View(v), X, v.next) = {}
  BY <1>2 DEF Loose
<1>5. Saved(v, v.next, X, Q, 0)
  <2>1. \A l \in 0 .. v.next - 1 : Firm(v, l)
    BY <1>1, <1>3 DEF FlushedFrom, Still, Firm
  <2>2. Cardinality(Loose(View(v), X, v.next)) = 0
    BY <1>4, FS_EmptySet
  <2>3. 0 <= 0
    OBVIOUS
  <2>4. \A r \in Q \cap X : Below(View(v), r, v.next)
    BY <1>2
  <2> DEFINE c == Cardinality(Loose(View(v), X, v.next))
  <2>5. c <= 0
    <3>1. c = 0
      BY <2>2
    <3> HIDE DEF c
    <3> QED BY <3>1
  <2> QED BY <2>1, <2>4, <2>5 DEF Saved
<1>6. GoodLog(v, X, top, Q, 0)
  BY <1>2, <1>3, <1>5 DEF GoodLog
<1> QED BY <1>1, <1>2, <1>6 DEF v

\* The depth of the pack changes, and records join it.
PackChanged(v, w, n, s) ==
    /\ Solid(v) /\ Start(v) = Start(w) /\ View(v) = View(w) /\ \A l : Firm(v, l) <=> Firm(w, l)
    /\ v.next = w.next /\ v.qCount = w.qCount /\ v.pending = s /\ v.packDepth = n /\ v.checkLBA = w.checkLBA
    /\ v.hasCheck = w.hasCheck

LEMMA PackChanges ==
    ASSUME NEW w, Solid(w), NEW n \in Nat, NEW s, NEW v, v = [w EXCEPT !.packDepth = n, !.pending = s]
    PROVE  PackChanged(v, w, n, s)
<1>0. Shape(w)
  BY DEF Solid, Placed
<1>1. v = [disk |-> w.disk, alt |-> w.alt, next |-> w.next, qLBA |-> w.qLBA, qCount |-> w.qCount,
           qBuf |-> w.qBuf, pending |-> s, packDepth |-> n,
           checkLBA |-> w.checkLBA, hasCheck |-> w.hasCheck, synced |-> w.synced]
  <2> DEFINE x == [w EXCEPT !.packDepth = n]
  <2>1. x = [disk |-> w.disk, alt |-> w.alt, next |-> w.next, qLBA |-> w.qLBA, qCount |-> w.qCount,
             qBuf |-> w.qBuf, pending |-> w.pending, packDepth |-> n,
             checkLBA |-> w.checkLBA, hasCheck |-> w.hasCheck, synced |-> w.synced]
    BY <1>0 DEF Shape
  <2>2. v = [x EXCEPT !.pending = s]
    OBVIOUS
  <2> HIDE DEF x
  <2> QED BY <2>1, <2>2
<1>2. /\ v.next = w.next /\ v.qCount = w.qCount /\ v.pending = s /\ v.packDepth = n /\ v.checkLBA = w.checkLBA
      /\ v.hasCheck = w.hasCheck
      /\ v.qLBA = w.qLBA /\ v.qBuf = w.qBuf /\ v.disk = w.disk /\ v.alt = w.alt /\ v.synced = w.synced
  BY <1>1
<1>3. Shape(v)
  BY <1>0, <1>1, <1>2 DEF Shape
<1> QED BY <1>2, <1>3, SolidSame DEF PackChanged

LEMMA DepthGood ==
    ASSUME NEW w, NEW X, NEW top, NEW P, NEW u, GoodLog(w, X, top, P, u), NEW n \in Nat, n > 0
    PROVE  GoodLog([w EXCEPT !.packDepth = n], X, top, P, u)
<1> DEFINE v == [w EXCEPT !.packDepth = n]
           x == [w EXCEPT !.packDepth = n, !.pending = w.pending]
<1>1. Solid(w) /\ Shape(w)
  BY DEF GoodLog, Solid, Placed
<1>2. x = v
  <2>1. w.pending = v.pending
    BY <1>1 DEF Shape
  <2>2. v = [disk |-> w.disk, alt |-> w.alt, next |-> w.next, qLBA |-> w.qLBA, qCount |-> w.qCount,
             qBuf |-> w.qBuf, pending |-> w.pending, packDepth |-> n,
             checkLBA |-> w.checkLBA, hasCheck |-> w.hasCheck, synced |-> w.synced]
    BY <1>1 DEF Shape
  <2>3. x = [v EXCEPT !.pending = w.pending]
    OBVIOUS
  <2> HIDE DEF v, x
  <2> QED BY <2>2, <2>3
<1> HIDE DEF v, x
<1>3. /\ Solid(v) /\ Start(v) = Start(w) /\ View(v) = View(w) /\ \A l : Firm(v, l) <=> Firm(w, l)
      /\ v.next = w.next /\ v.qCount = w.qCount /\ v.pending = w.pending /\ v.packDepth = n /\ v.checkLBA = w.checkLBA
  <2> DEFINE s == w.pending
  <2>1. x = [w EXCEPT !.packDepth = n, !.pending = s]
    BY DEF x
  <2>2. v = [w EXCEPT !.packDepth = n, !.pending = s]
    BY <1>2, <2>1
  <2> HIDE DEF s
  <2>3. PackChanged(v, w, n, s)
    BY <1>1, <2>2, PackChanges
  <2> QED BY <2>3 DEF PackChanged, s
<1>4. \A F : Saved(w, F, X, P, u) => Saved(v, F, X, P, u)
  BY <1>3 DEF Saved
<1>5. Fits(v)
  BY <1>3 DEF Fits, GoodLog
<1>6. GoodLog(v, X, top, P, u)
  BY <1>3, <1>4, <1>5 DEF GoodLog
<1> QED BY <1>6 DEF v

LEMMA EnsureGood ==
    ASSUME NEW w, NEW X, NEW top, NEW P, NEW u, GoodLog(w, X, top, P, u)
    PROVE  GoodLog(EnsurePack(w), X, top, P, u) /\ EnsurePack(w).packDepth > 0
<1>1. w.packDepth \in Nat /\ Shape(w)
  BY DEF GoodLog, Solid, Placed, Shape
<1>2. [w EXCEPT !.packDepth = 1].packDepth = 1
  <2>1. [w EXCEPT !.packDepth = 1] = [disk |-> w.disk, alt |-> w.alt, next |-> w.next, qLBA |-> w.qLBA, qCount |-> w.qCount,
             qBuf |-> w.qBuf, pending |-> w.pending, packDepth |-> 1,
             checkLBA |-> w.checkLBA, hasCheck |-> w.hasCheck, synced |-> w.synced]
    BY <1>1 DEF Shape
  <2> QED BY <2>1
<1>3. GoodLog([w EXCEPT !.packDepth = 1], X, top, P, u)
  BY DepthGood
<1> QED BY <1>1, <1>2, <1>3 DEF EnsurePack

\* A record that fits joins the open pack.
LEMMA SmallGood ==
    ASSUME NEW w, NEW X, NEW top \in Nat, NEW P, NEW u \in Nat, GoodLog(w, X, top, P, u), P \subseteq 1 .. top,
           top + 1 \in Recs, w.packDepth > 0, HasRoom(w, 1, FALSE)
    PROVE  GoodLog(AppendRec(w, top + 1, FALSE), X \cup {top + 1}, top + 1, P, u + 1)
<1> DEFINE r == top + 1
           x == BeforeRoom(w, FALSE)
           s == Append(x.pending, r)
           v == AppendRec(w, r, FALSE)
<1>0. r = top + 1 /\ r \in Recs /\ r \in Int
  OBVIOUS
<1>1. v = [x EXCEPT !.pending = s]
  BY DEF AppendRec, AppendPacked, BeforeRoom
<1>2. GoodLog(x, X, top, P, u) /\ x.packDepth > 0 /\ x.packDepth \in Nat
  <2>1. Solid(w) /\ w.qCount < Quantum /\ Fits(w) /\ Solid(x) => x.packDepth \in Nat
    BY DEF Solid, Placed, Shape
  <2>2. SameCalls(FlushPending(w), w)
    BY PackAdds DEF GoodLog, PackAdded, Grown
  <2>3. GoodLog(FlushPending(w), X, top, P, u)
    BY FlushPendingGood
  <2>4. GoodLog(x, X, top, P, u) /\ x.packDepth = w.packDepth
    BY <2>2, <2>3 DEF BeforeRoom, SameCalls
  <2> QED BY <2>1, <2>4 DEF GoodLog
<1>3. x.next + 1 <= MaxLBA
  BY DEF HasRoom
<1> HIDE DEF x, v
<1>4. v = [x EXCEPT !.packDepth = x.packDepth, !.pending = s]
  <2>1. Shape(x)
    BY <1>2 DEF GoodLog, Solid, Placed
  <2> DEFINE n == x.packDepth
  <2>2. v = [disk |-> x.disk, alt |-> x.alt, next |-> x.next, qLBA |-> x.qLBA, qCount |-> x.qCount,
             qBuf |-> x.qBuf, pending |-> s, packDepth |-> n,
             checkLBA |-> x.checkLBA, hasCheck |-> x.hasCheck, synced |-> x.synced]
    BY <1>1, <2>1 DEF Shape
  <2>3. [x EXCEPT !.packDepth = n] = x
    BY <2>1 DEF Shape
  <2>4. [x EXCEPT !.packDepth = n, !.pending = s] = [[x EXCEPT !.packDepth = n] EXCEPT !.pending = s]
    OBVIOUS
  <2> QED BY <1>1, <2>3, <2>4
<1>5. Solid(x) /\ LogOK(View(x), x.next, X, top) /\ PendingOK(x.pending, top) /\ x.qCount < Quantum
  BY <1>2 DEF GoodLog
<1>6. /\ Solid(v) /\ Start(v) = Start(x) /\ View(v) = View(x) /\ \A l : Firm(v, l) <=> Firm(x, l)
      /\ v.next = x.next /\ v.qCount = x.qCount /\ v.pending = s /\ v.packDepth = x.packDepth /\ v.checkLBA = x.checkLBA
      /\ v.hasCheck = x.hasCheck
  <2> DEFINE n == x.packDepth
  <2>1. v = [x EXCEPT !.packDepth = n, !.pending = s] /\ n \in Nat
    BY <1>2, <1>4
  <2> HIDE DEF s, n
  <2>2. PackChanged(v, x, n, s)
    BY <1>5, <2>1, PackChanges
  <2> QED BY <2>2 DEF PackChanged, n
<1>7. x.next \in Nat /\ Start(x) \in Nat
  BY <1>5, SolidTypes
<1>8. Grown(v, x)
  BY <1>6, <1>7 DEF Grown, SameCalls, Agree
<1>9. LogOK(View(v), v.next, X \cup {r}, r)
  <2>1. LogOK(View(x), x.next, X \cup {top + 1}, top + 1)
    BY <1>0, <1>5, <1>7, OneMoreRecord
  <2> QED BY <1>0, <1>6, <2>1
<1>10. \A q : Carries(s, q) <=> Carries(x.pending, q) \/ q = r
  <2>1. x.pending \in Seq(Int)
    BY <1>5 DEF PendingOK
  <2> DEFINE p == x.pending
             n == Len(p)
  <2>2. p \in Seq(Int) /\ n \in Nat /\ DOMAIN p = 1 .. n
    BY <2>1
  <2> HIDE DEF p
  <2>3. DOMAIN s = 1 .. n + 1 /\ s[n + 1] = r /\ \A i \in 1 .. n : s[i] = p[i]
    BY <1>0, <2>2 DEF p
  <2>4. \A i \in 1 .. n + 1 : i = n + 1 \/ i \in 1 .. n
    BY <2>2
  <2>5. n + 1 \in 1 .. n + 1 /\ \A i \in 1 .. n : i \in 1 .. n + 1
    BY <2>2
  <2> HIDE DEF n, s
  <2> QED BY <2>2, <2>3, <2>4, <2>5 DEF Carries, p
<1>11. PendingOK(v.pending, r)
  <2>1. s \in Seq(Int)
    BY <1>0, <1>5 DEF PendingOK
  <2>2. \A q \in Recs : q > r => q > top /\ q # r
    BY DEF Recs
  <2> HIDE DEF r, s
  <2> QED BY <1>5, <1>6, <1>10, <2>1, <2>2 DEF PendingOK
<1>12. \A q \in X \cup {r} : Below(View(v), q, v.next) \/ Carries(v.pending, q)
  BY <1>2, <1>6, <1>10 DEF GoodLog
<1>13. Fits(v)
  BY <1>2, <1>3, <1>6, <1>7, JournalAssumption DEF Fits
<1>14. v.qCount < Quantum
  BY <1>5, <1>6
<1>15. GoodLog(v, X \cup {r}, r, P, u + 1)
  <2> HIDE DEF r
  <2> QED BY <1>0, <1>2, <1>8, <1>9, <1>11, <1>12, <1>13, <1>14, GrownMore
<1> QED BY <1>15 DEF v

\* The chunks of a record, one after the other.
LEMMA ChunksAdd ==
    ASSUME NEW w, Solid(w), w.qCount < Quantum, w.pending = <<>>, w.next + Chunks <= MaxLBA, NEW r
    PROVE  LET v == WriteChunks(w, r) IN
           /\ Grown(v, w) /\ v.qCount < Quantum /\ v.next = w.next + Chunks /\ v.pending = <<>>
           /\ \A m \in 1 .. Chunks : View(v)[w.next + m - 1] = Chunk(r, m)
<1>11. \E a : /\ a[0] = w /\ \A i \in 1 .. Chunks : a[i] = WriteOne(a[i - 1], Chunk(r, i))
             /\ WriteChunks(w, r) = a[Chunks]
  BY ONLY ChunksLead, Zenon
<1>1. PICK a : /\ a[0] = w /\ \A i \in 1 .. Chunks : a[i] = WriteOne(a[i - 1], Chunk(r, i))
               /\ WriteChunks(w, r) = a[Chunks]
  BY <1>11
<1> DEFINE Q(v, k) == /\ Grown(v, w) /\ v.qCount < Quantum /\ v.next = w.next + k /\ v.pending = <<>>
                      /\ \A m \in 1 .. k : View(v)[w.next + m - 1] = Chunk(r, m)
           I == {k \in Nat : k <= Chunks => Q(a[k], k)}
<1>0. Chunks \in Nat /\ MaxLBA \in Nat /\ w.next \in Nat
  BY JournalAssumption, SolidTypes
<1>2. 0 \in I
  <2>1. Q(w, 0)
    BY <1>0, GrownSelf
  <2> HIDE DEF Q
  <2> QED BY <1>1, <2>1
<1>3. ASSUME NEW k \in Nat, k \in I PROVE k + 1 \in I
  <2> SUFFICES ASSUME k + 1 <= Chunks PROVE Q(a[k + 1], k + 1)
    OBVIOUS
  <2> DEFINE n == k + 1
             b == Chunk(r, n)
             x == a[k]
             v == a[n]
  <2>1. n \in 1 .. Chunks /\ n - 1 = k /\ n = k + 1 /\ k <= Chunks
    BY <1>0
  <2>2. Q(x, k)
    <3> HIDE DEF Q
    <3> QED BY <1>3, <2>1
  <2>3. v = WriteOne(x, b)
    <3> HIDE DEF n
    <3> QED BY <1>1, <2>1
  <2>4. b # Null
    <3>1. b.kind = "chunk" /\ Null.kind = "null"
      BY DEF Chunk, Null
    <3> QED BY <3>1
  <2> HIDE DEF n, b, x, v
  <2>5. Solid(x) /\ x.next < MaxLBA /\ x.next = w.next + k
    BY <1>0, <2>1, <2>2 DEF Grown
  <2>6. BlockAdded(v, x, b)
    BY <2>2, <2>3, <2>4, <2>5, BlockAdds
  <2>7. Grown(v, x) /\ v.qCount < Quantum /\ v.next = x.next + 1 /\ v.pending = <<>> /\ View(v)[x.next] = b
    BY <2>2, <2>6 DEF BlockAdded
  <2>80. Grown(x, w) /\ Grown(v, x)
    BY <2>2, <2>7
  <2>81. Grown(v, w)
    BY <2>80, GrownTwice
  <2>8. Grown(v, w) /\ v.next = w.next + n
    BY <1>0, <2>1, <2>5, <2>7, <2>81
  <2>9. ASSUME NEW m \in 1 .. n PROVE View(v)[w.next + m - 1] = Chunk(r, m)
    <3>1. CASE m = n
      <4>1. w.next + m - 1 = x.next
        BY <1>0, <2>1, <2>5, <3>1
      <4> QED BY <2>7, <3>1, <4>1 DEF b
    <3>2. CASE m # n
      <4>1. m \in 1 .. k /\ w.next + m - 1 \in 0 .. x.next - 1
        BY <1>0, <2>1, <2>5, <3>2
      <4>2. View(v)[w.next + m - 1] = View(x)[w.next + m - 1]
        BY <2>7, <4>1 DEF Grown, Agree
      <4> QED BY <2>2, <4>1, <4>2
    <3> QED BY <3>1, <3>2
  <2>10. Q(v, n)
    BY <2>7, <2>8, <2>9
  <2> HIDE DEF Q
  <2> QED BY <2>10 DEF v, n
<1>4. Chunks \in I
  <2> HIDE DEF I
  <2> QED BY <1>0, <1>2, <1>3, Induction
<1>5. Q(a[Chunks], Chunks)
  <2> HIDE DEF Q
  <2> QED BY <1>0, <1>4
<1> QED BY <1>1, <1>5

\* An oversized record after the open pack.
LEMMA BigGood ==
    ASSUME NEW w, NEW X, NEW top \in Nat, NEW P, NEW u \in Nat, GoodLog(w, X, top, P, u), P \subseteq 1 .. top,
           top + 1 \in Recs, HasRoom(w, Chunks, TRUE)
    PROVE  GoodLog(AppendRec(w, top + 1, TRUE), X \cup {top + 1}, top + 1, P, u + 1)
<1> DEFINE r == top + 1
           Y == X \cup {r}
           x == FlushPending(w)
           v == AppendRec(w, r, TRUE)
           n == x.next
           V == View(v)
<1>0. r = top + 1 /\ r \in Recs /\ Chunks \in Nat /\ Chunks # 0
  BY JournalAssumption
<1>1. v = WriteChunks(x, r) /\ n + Chunks <= MaxLBA
  BY DEF AppendRec, HasRoom, BeforeRoom
<1>2. GoodLog(x, X, top, P, u) /\ x.pending = <<>> /\ \A a \in X : Below(View(x), a, n)
  BY FlushPendingGood
<1> HIDE DEF x, v
<1>3. Solid(x) /\ x.qCount < Quantum /\ LogOK(View(x), n, X, top)
  BY <1>2 DEF GoodLog
<1>4. n \in Nat
  BY <1>3, SolidTypes
<1>5. /\ Grown(v, x) /\ v.qCount < Quantum /\ v.next = n + Chunks /\ v.pending = <<>>
      /\ \A m \in 1 .. Chunks : V[n + m - 1] = Chunk(r, m)
  BY <1>1, <1>2, <1>3, ChunksAdd
<1>6. Agree(View(x), V, n)
  BY <1>5 DEF Grown
<1> HIDE DEF r, n, V
<1>7. LogOK(V, n, Y, r)
  <2>1. LogOK(View(x), n, X \cup {top + 1}, top + 1)
    BY <1>0, <1>3, <1>4, OneMoreRecord
  <2>2. LogOK(View(x), n, Y, r)
    BY <1>0, <2>1
  <2> HIDE DEF Y
  <2> QED BY <1>4, <1>6, <2>2, LogPrefix
<1>8. \A k \in Nat : \A a \in X : Below(V, a, n + k)
  <2> SUFFICES ASSUME NEW k \in Nat, NEW a \in X PROVE Below(V, a, n + k)
    OBVIOUS
  <2>1. n + k \in Nat /\ n <= n + k
    BY <1>4
  <2> QED BY <1>2, <1>4, <1>6, <2>1, BelowLocal
<1> DEFINE I == {k \in Nat : k <= Chunks => LogOK(V, n + k, Y, r)}
<1>9. Chunks \in I
  <2>1. 0 \in I
    BY <1>4, <1>7
  <2>2. ASSUME NEW k \in Nat, k \in I PROVE k + 1 \in I
    <3> SUFFICES ASSUME k + 1 <= Chunks PROVE LogOK(V, n + (k + 1), Y, r)
      OBVIOUS
    <3> DEFINE m == n + k
               b == V[m]
    <3>1. LogOK(V, m, Y, r) /\ m \in Nat /\ n + (k + 1) = m + 1
      BY <1>0, <1>4, <2>2
    <3>2. b = Chunk(r, k + 1)
      <4>1. k + 1 \in 1 .. Chunks /\ n + (k + 1) - 1 = m
        BY <1>0, <1>4
      <4> QED BY <1>5, <4>1
    <3>3. b.kind = "chunk" /\ b.recs = <<r>> /\ b.part = k + 1 /\ ~IsCheck(b)
      BY <3>2 DEF Chunk, IsCheck
    <3> HIDE DEF b, Y
    <3>4. \A q : Carries(b.recs, q) => q = r
      BY <3>3 DEF Carries
    <3>5. b = Chunk(b.recs[1], b.part)
      BY <3>2, <3>3
    <3>6. \A a, c \in Y : a < c /\ Carries(b.recs, c) => Below(V, a, m + 1)
      <4> SUFFICES ASSUME NEW a \in Y, NEW c \in Y, a < c, Carries(b.recs, c) PROVE Below(V, a, m + 1)
        OBVIOUS
      <4>1. c = r /\ r \in Int
        BY <1>0, <3>4
      <4>2. a # r
        BY <4>1
      <4>3. a \in X
        BY <4>2 DEF Y
      <4>4. Below(V, a, n + (k + 1)) /\ k + 1 \in Nat
        BY <1>8, <4>3
      <4> QED BY <3>1, <4>4
    <3>7. \A q \in Recs : q > r => ~Carries(b.recs, q)
      BY <1>0, <3>4 DEF Recs
    <3>8. Agree(V, V, m)
      BY DEF Agree
    <3>9. LogOK(V, m + 1, Y, r)
      <4> HIDE DEF m
      <4> QED BY <3>1, <3>3, <3>5, <3>6, <3>7, <3>8, OneMoreBlock DEF b
    <3> QED BY <3>1, <3>9
  <2> HIDE DEF I
  <2> QED BY <1>0, <2>1, <2>2, Induction
<1>10. LogOK(V, v.next, Y, r)
  BY <1>0, <1>5, <1>9
<1>11. Below(V, r, v.next)
  <2> DEFINE k == n + Chunks - 1
  <2>1. n \in 0 .. k /\ k \in 0 .. v.next - 1
    BY <1>0, <1>4, <1>5
  <2>2. \A m \in 0 .. n - 1 : ~Carries(V[m].recs, r)
    <3>1. \A m \in 0 .. n - 1 : ~Carries(View(x)[m].recs, r)
      BY <1>0, <1>3 DEF LogOK, Numbered
    <3> QED BY <1>6, <3>1 DEF Agree
  <2>3. k = n + Chunks - 1
    OBVIOUS
  <2> HIDE DEF k
  <2>4. Covers(V, r, k)
    BY <1>5, <2>1, <2>2, <2>3 DEF Covers
  <2> QED BY <2>1, <2>4 DEF Below
<1>12. \A q \in Y : Below(V, q, v.next) \/ Carries(v.pending, q)
  BY <1>0, <1>5, <1>8, <1>11
<1>13. PendingOK(v.pending, r) /\ Fits(v)
  BY <1>5, EmptyPending DEF Fits
<1>14. GoodLog(v, Y, r, P, u + 1)
  BY <1>0, <1>2, <1>5, <1>10, <1>12, <1>13, GrownMore DEF V
<1> QED BY <1>14 DEF v, r

-----------------------------------------------------------------------------
(* A log all on its device.                                                *)

BufOK(w) == DOMAIN w.qBuf = 1 .. Quantum /\ w.qBuf = [i \in 1 .. Quantum |-> w.qBuf[i]]

\* T is a log of n blocks that gives back all of X.
Settled(T, n, X, top) ==
    /\ n \in 0 .. MaxLBA /\ (\A l \in LBAs : T[l] # Null <=> l < n)
    /\ LogOK(T, n, X, top) /\ \A r \in X : Below(T, r, n)

LEMMA SettledGood ==
    ASSUME NEW w, NEW T, NEW X, NEW top, Settled(T, w.next, X, top), Placed(w), BufOK(w), Drained(w), Still(w),
           \A l \in LBAs : w.disk[l] = T[l], w.checkLBA \in 0 .. w.next, Unused(T, w.checkLBA, X), NEW P
    PROVE  GoodLog(w, X, top, P, 0)
<1>0. MaxLBA \in Nat /\ Quantum \in Nat /\ Quantum > 0 /\ w.next \in Nat /\ w.next \in 0 .. MaxLBA
  BY JournalAssumption DEF Settled
<1>1. Start(w) = w.next /\ w.qCount = 0 /\ w.pending = <<>>
  BY <1>0 DEF Drained, Start
<1>2. Solid(w)
  <2>1. \A l \in LBAs : IF l < Start(w) THEN w.disk[l] # Null /\ (\A b \in w.alt[l] : b \in {Null, w.disk[l]})
                        ELSE w.disk[l] = Null /\ w.alt[l] = {Null}
    <3> SUFFICES ASSUME NEW l \in LBAs
                 PROVE  IF l < Start(w) THEN w.disk[l] # Null /\ (\A b \in w.alt[l] : b \in {Null, w.disk[l]})
                        ELSE w.disk[l] = Null /\ w.alt[l] = {Null}
      OBVIOUS
    <3>1. (w.disk[l] # Null <=> l < w.next) /\ w.alt[l] = {w.disk[l]}
      BY DEF Settled, Still
    <3>2. \A b \in w.alt[l] : b \in {Null, w.disk[l]}
      BY <3>1
    <3> QED BY <1>1, <3>1, <3>2
  <2>2. \A i \in 1 .. w.qCount : FALSE
    BY <1>1
  <2> QED BY <1>0, <1>1, <2>1, <2>2 DEF Solid, BufOK
<1>3. Agree(T, View(w), w.next)
  <2>1. \A l \in 0 .. w.next - 1 : l \in LBAs /\ l < Start(w)
    BY <1>0, <1>1, <1>2, SolidTypes
  <2>2. \A l \in LBAs : l < Start(w) => View(w)[l] = w.disk[l]
    BY <1>2, SolidTypes
  <2> QED BY <2>1, <2>2 DEF Agree
<1>4. LogOK(View(w), w.next, X, top)
  <2>1. LogOK(T, w.next, X, top) /\ w.next <= w.next
    BY <1>0 DEF Settled
  <2> QED BY <1>0, <1>3, <2>1, LogPrefix
<1>5. \A r \in X : Below(View(w), r, w.next)
  <2>1. w.next <= w.next
    BY <1>0
  <2> QED BY <1>0, <1>3, <2>1, BelowLocal DEF Settled
<1>6. Fits(w) /\ PendingOK(w.pending, top)
  BY <1>1, EmptyPending DEF Fits
<1>7. Unused(View(w), w.checkLBA, X)
  <2>1. \A l \in 0 .. w.checkLBA - 1 : View(w)[l] = T[l]
    BY <1>0, <1>3 DEF Agree
  <2> QED BY <2>1 DEF Unused
<1>8. Saved(w, w.next, X, P, 0)
  <2>1. \A l \in 0 .. w.next - 1 : Firm(w, l)
    <3>1. \A l \in 0 .. w.next - 1 : l \in LBAs
      BY <1>2, SolidTypes
    <3> QED BY <3>1 DEF Still, Firm
  <2>2. Loose(View(w), X, w.next) = {}
    BY <1>5 DEF Loose
  <2>3. Cardinality(Loose(View(w), X, w.next)) = 0
    BY <2>2, FS_EmptySet
  <2>4. Cardinality(Loose(View(w), X, w.next)) <= 0
    BY <2>3
  <2> QED BY <1>5, <2>1, <2>4 DEF Saved
<1>9. w.next \in 0 .. Start(w)
  BY <1>0, <1>1
<1> QED BY <1>0, <1>1, <1>2, <1>4, <1>5, <1>6, <1>7, <1>8, <1>9 DEF GoodLog

\* The log that a truncation starts from.
Ready(v, X, top) ==
    /\ Solid(v) /\ Drained(v) /\ v.checkLBA \in Nat
    /\ LogOK(v.disk, v.next, X, top) /\ (\A r \in X : Below(v.disk, r, v.next)) /\ Unused(v.disk, Src(v), X)

LEMMA ReadyGood ==
    ASSUME NEW w, NEW X, NEW top, NEW P, NEW u, GoodLog(w, X, top, P, u)
    PROVE  Ready(TruncReady(w), X, top)
<1> DEFINE v == TruncReady(w)
<1>1. PackAdded(v, w) /\ v.qCount = 0 /\ \A l \in LBAs : View(v)[l] = v.disk[l]
  BY ReadyAdds DEF GoodLog
<1> HIDE DEF v
<1>2. GoodLog(v, X, top, P, u) /\ \A r \in X : Below(View(v), r, v.next)
  BY <1>1, PackedGood
<1>3. Solid(v) /\ v.next \in Nat /\ \A l \in 0 .. v.next - 1 : l \in LBAs
  <2>1. Solid(v)
    BY <1>2 DEF GoodLog
  <2> QED BY <2>1, SolidTypes
<1>4. Agree(View(v), v.disk, v.next) /\ v.next <= v.next
  BY <1>1, <1>3 DEF Agree
<1>5. LogOK(v.disk, v.next, X, top)
  <2>1. LogOK(View(v), v.next, X, top)
    BY <1>2 DEF GoodLog
  <2> QED BY <1>3, <1>4, <2>1, LogPrefix
<1>6. \A r \in X : Below(v.disk, r, v.next)
  BY <1>2, <1>3, <1>4, BelowLocal
<1>7. v.checkLBA \in 0 .. v.next /\ Unused(View(v), v.checkLBA, X) /\ Src(v) = v.checkLBA
  BY <1>2, <1>3 DEF GoodLog, Src
<1>8. Unused(v.disk, Src(v), X)
  <2>1. \A l \in 0 .. v.checkLBA - 1 : v.disk[l] = View(v)[l]
    BY <1>3, <1>4, <1>7 DEF Agree
  <2> QED BY <1>7, <2>1 DEF Unused
<1> QED BY <1>1, <1>3, <1>5, <1>6, <1>7, <1>8 DEF Ready, Drained, PackAdded, v

-----------------------------------------------------------------------------
(* The writes of a truncation.                                             *)

\* No write of s to l; the last one writes b.
NoneAt(s, l) == \A i \in 1 .. Len(s) : s[i].lba # l
LastAt(s, l, b) == \E i \in 1 .. Len(s) : /\ s[i].lba = l /\ s[i].block = b
                                          /\ \A k \in i + 1 .. Len(s) : s[k].lba # l
\* The writes of s lead from d to T.
Leads(d, s, T) ==
    /\ \E S : s \in Seq(S) /\ \A x \in S : x.lba \in Nat
    /\ \A l \in LBAs : (NoneAt(s, l) /\ d[l] = T[l]) \/ LastAt(s, l, T[l])

LEMMA JoinParts ==
    ASSUME NEW S, NEW s \in Seq(S), NEW t \in Seq(S)
    PROVE  /\ s \o t \in Seq(S) /\ Len(s \o t) = Len(s) + Len(t) /\ Len(s) \in Nat /\ Len(t) \in Nat
           /\ \A i \in 1 .. Len(s) : (s \o t)[i] = s[i]
           /\ \A i \in 1 .. Len(t) : (s \o t)[Len(s) + i] = t[i]
OBVIOUS

LEMMA JoinNone ==
    ASSUME NEW S, NEW s \in Seq(S), NEW t \in Seq(S), NEW l, NoneAt(s, l), NoneAt(t, l)
    PROVE  NoneAt(s \o t, l)
<1> DEFINE x == s \o t
<1>1. /\ Len(x) = Len(s) + Len(t) /\ Len(s) \in Nat /\ Len(t) \in Nat
      /\ \A i \in 1 .. Len(s) : x[i] = s[i]
      /\ \A i \in 1 .. Len(t) : x[Len(s) + i] = t[i]
  BY JoinParts
<1> HIDE DEF x
<1>2. ASSUME NEW i \in 1 .. Len(x) PROVE x[i].lba # l
  <2>1. CASE i \in 1 .. Len(s)
    BY <1>1, <2>1 DEF NoneAt
  <2>2. CASE i \notin 1 .. Len(s)
    <3>1. i - Len(s) \in 1 .. Len(t) /\ Len(s) + (i - Len(s)) = i
      BY <1>1, <2>2
    <3>2. x[i] = t[i - Len(s)]
      BY <1>1, <3>1
    <3> QED BY <3>1, <3>2 DEF NoneAt
  <2> QED BY <2>1, <2>2
<1> QED BY <1>2 DEF NoneAt, x

LEMMA JoinFirst ==
    ASSUME NEW S, NEW s \in Seq(S), NEW t \in Seq(S), NEW l, NEW b, LastAt(s, l, b), NoneAt(t, l)
    PROVE  LastAt(s \o t, l, b)
<1> DEFINE x == s \o t
<1>1. /\ Len(x) = Len(s) + Len(t) /\ Len(s) \in Nat /\ Len(t) \in Nat
      /\ \A i \in 1 .. Len(s) : x[i] = s[i]
      /\ \A i \in 1 .. Len(t) : x[Len(s) + i] = t[i]
  BY JoinParts
<1> HIDE DEF x
<1>2. PICK i \in 1 .. Len(s) : s[i].lba = l /\ s[i].block = b /\ \A k \in i + 1 .. Len(s) : s[k].lba # l
  BY DEF LastAt
<1>3. i \in 1 .. Len(x) /\ x[i] = s[i]
  BY <1>1
<1>4. ASSUME NEW k \in i + 1 .. Len(x) PROVE x[k].lba # l
  <2>1. CASE k \in 1 .. Len(s)
    BY <1>1, <1>2, <2>1
  <2>2. CASE k \notin 1 .. Len(s)
    <3>1. k - Len(s) \in 1 .. Len(t) /\ Len(s) + (k - Len(s)) = k
      BY <1>1, <2>2
    <3>2. x[k] = t[k - Len(s)]
      BY <1>1, <3>1
    <3> QED BY <3>1, <3>2 DEF NoneAt
  <2> QED BY <2>1, <2>2
<1> QED BY <1>2, <1>3, <1>4 DEF LastAt, x

LEMMA JoinSecond ==
    ASSUME NEW S, NEW s \in Seq(S), NEW t \in Seq(S), NEW l, NEW b, LastAt(t, l, b)
    PROVE  LastAt(s \o t, l, b)
<1> DEFINE x == s \o t
<1>1. /\ Len(x) = Len(s) + Len(t) /\ Len(s) \in Nat /\ Len(t) \in Nat
      /\ \A i \in 1 .. Len(t) : x[Len(s) + i] = t[i]
  BY JoinParts
<1> HIDE DEF x
<1>2. PICK i \in 1 .. Len(t) : t[i].lba = l /\ t[i].block = b /\ \A k \in i + 1 .. Len(t) : t[k].lba # l
  BY DEF LastAt
<1> DEFINE h == Len(s) + i
<1>3. h \in 1 .. Len(x) /\ x[h] = t[i] /\ h \in Nat
  BY <1>1
<1>4. ASSUME NEW k \in h + 1 .. Len(x) PROVE x[k].lba # l
  <2>1. k - Len(s) \in 1 .. Len(t) /\ Len(s) + (k - Len(s)) = k /\ k - Len(s) \in i + 1 .. Len(t)
    BY <1>1
  <2>2. x[k] = t[k - Len(s)]
    BY <1>1, <2>1
  <2> QED BY <1>2, <2>1, <2>2
<1> HIDE DEF h
<1> QED BY <1>2, <1>3, <1>4 DEF LastAt, x

\* One write.
LEMMA LeadsOn ==
    ASSUME NEW d, NEW s, s # <<>>, NEW T, Leads(d, s, T), NEW e,
           \A l \in LBAs : e[l] = IF l = Head(s).lba THEN Head(s).block ELSE d[l]
    PROVE  Leads(e, Tail(s), T) /\ Head(s).lba \in Nat
<1>1. PICK S : s \in Seq(S) /\ \A x \in S : x.lba \in Nat
  BY DEF Leads
<1> DEFINE t == Tail(s)
<1>2. /\ t \in Seq(S) /\ Len(s) \in Nat /\ Len(s) > 0 /\ Len(t) = Len(s) - 1 /\ Head(s) = s[1] /\ s[1] \in S
      /\ \A i \in 1 .. Len(t) : t[i] = s[i + 1]
  BY <1>1
<1> HIDE DEF t
<1>3. ASSUME NEW l \in LBAs PROVE (NoneAt(t, l) /\ e[l] = T[l]) \/ LastAt(t, l, T[l])
  <2>1. CASE NoneAt(s, l) /\ d[l] = T[l]
    <3>1. s[1].lba # l
      BY <1>2, <2>1 DEF NoneAt
    <3>2. e[l] = T[l]
      BY <1>2, <2>1, <3>1
    <3>3. \A i \in 1 .. Len(t) : i + 1 \in 1 .. Len(s)
      BY <1>2
    <3>4. NoneAt(t, l)
      BY <1>2, <2>1, <3>3 DEF NoneAt
    <3> QED BY <3>2, <3>4
  <2>2. CASE LastAt(s, l, T[l])
    <3>1. PICK i \in 1 .. Len(s) : s[i].lba = l /\ s[i].block = T[l] /\ \A k \in i + 1 .. Len(s) : s[k].lba # l
      BY <2>2 DEF LastAt
    <3>2. CASE i = 1
      <4>1. e[l] = T[l]
        BY <1>2, <3>1, <3>2
      <4>2. \A k \in 1 .. Len(t) : k + 1 \in i + 1 .. Len(s)
        BY <1>2, <3>2
      <4>3. NoneAt(t, l)
        BY <1>2, <3>1, <4>2 DEF NoneAt
      <4> QED BY <4>1, <4>3
    <3>3. CASE i # 1
      <4> DEFINE h == i - 1
      <4>1. h \in 1 .. Len(t) /\ h + 1 = i
        BY <1>2, <3>3
      <4>2. t[h] = s[i]
        BY <1>2, <4>1
      <4>3. \A k \in h + 1 .. Len(t) : k + 1 \in i + 1 .. Len(s) /\ t[k] = s[k + 1]
        BY <1>2, <4>1
      <4> HIDE DEF h
      <4> QED BY <3>1, <4>1, <4>2, <4>3 DEF LastAt
    <3> QED BY <3>2, <3>3
  <2> QED BY <2>1, <2>2 DEF Leads
<1>4. Head(s).lba \in Nat
  BY <1>1, <1>2
<1> QED BY <1>1, <1>2, <1>3, <1>4 DEF Leads, t

\* The device that a truncation leads to.
Trimmed(v) ==
    [l \in LBAs |-> IF l = 0 THEN Check
                    ELSE IF l < NKeep(v) THEN v.disk[Src(v) + l - (NKeep(v) - NTail(v))] ELSE Null]

\* The places of a truncation.
LEMMA TruncPlaces ==
    ASSUME NEW v, NEW X, NEW top, Ready(v, X, top), FirstIsCheck(v) \/ NTail(v) < MaxLBA
    PROVE  /\ MaxLBA \in Nat /\ MaxLBA # 0 /\ v.next \in 0 .. MaxLBA /\ Src(v) \in 0 .. v.next
           /\ NTail(v) = v.next - Src(v) /\ NKeep(v) \in 1 .. MaxLBA
           /\ NKeep(v) = IF FirstIsCheck(v) THEN NTail(v) ELSE NTail(v) + 1
           /\ FirstIsCheck(v) => Src(v) < v.next /\ v.disk[Src(v)] = Check
<1>1. MaxLBA \in Nat /\ MaxLBA # 0 /\ v.next \in 0 .. MaxLBA /\ v.checkLBA \in Nat
  BY JournalAssumption DEF Ready, Solid
<1>2. Src(v) \in 0 .. v.next /\ NTail(v) = v.next - Src(v)
  BY <1>1 DEF Src, NTail
<1>3. NKeep(v) = IF FirstIsCheck(v) THEN NTail(v) ELSE NTail(v) + 1
  BY DEF NKeep
<1>4. FirstIsCheck(v) => NTail(v) > 0 /\ IsCheck(v.disk[Src(v)])
  BY DEF FirstIsCheck
<1>5. FirstIsCheck(v) => Src(v) < v.next /\ v.disk[Src(v)] = Check
  <2>1. FirstIsCheck(v) => Src(v) \in 0 .. v.next - 1
    BY <1>1, <1>2, <1>4
  <2> QED BY <1>1, <1>4, <2>1 DEF Ready, LogOK, Formed
<1>6. NKeep(v) \in 1 .. MaxLBA
  BY <1>1, <1>2, <1>3, <1>4
<1> QED BY <1>1, <1>2, <1>3, <1>5, <1>6

LEMMA TruncSettles ==
    ASSUME NEW v, NEW X, NEW top, Ready(v, X, top), FirstIsCheck(v) \/ NTail(v) < MaxLBA
    PROVE  Settled(Trimmed(v), NKeep(v), X, top)
<1> DEFINE T == Trimmed(v)
           D == v.disk
           n == v.next
           s == Src(v)
           K == NKeep(v)
           d == K - NTail(v)
<1>1. /\ MaxLBA \in Nat /\ MaxLBA # 0 /\ n \in 0 .. MaxLBA /\ s \in 0 .. n
      /\ NTail(v) = n - s /\ K \in 1 .. MaxLBA
      /\ K = IF FirstIsCheck(v) THEN NTail(v) ELSE NTail(v) + 1
      /\ FirstIsCheck(v) => s < n /\ D[s] = Check
  BY TruncPlaces
<1>2. d \in {0, 1} /\ K = n - s + d /\ (d = 0 => s < n /\ D[s] = Check)
  BY <1>1
<1>3. \A l \in LBAs : T[l] = IF l = 0 THEN Check ELSE IF l < K THEN D[s + l - d] ELSE Null
  BY DEF Trimmed
<1>4. /\ LogOK(D, n, X, top) /\ (\A r \in X : Below(D, r, n)) /\ Unused(D, s, X)
      /\ Solid(v) /\ Start(v) = n
  <2>1. v.qCount = 0 /\ v.next \in Nat
    BY <1>1 DEF Ready, Drained
  <2> QED BY <2>1 DEF Ready, Start
<1> HIDE DEF T, D, n, s, K, d
<1>5. Shifted(T, D, s, d, n, K)
  <2>1. 0 \in LBAs /\ \A l \in 1 .. K - 1 : l \in LBAs /\ l # 0 /\ l < K
    BY <1>1 DEF LBAs
  <2> QED BY <1>1, <1>2, <1>3, <2>1 DEF Shifted
<1>6. LogOK(T, K, X, top) /\ \A r \in X : Below(T, r, K)
  <2>1. n \in Nat
    BY <1>1
  <2> QED BY <1>4, <1>5, <2>1, ShiftedLog
<1>7. \A l \in LBAs : T[l] # Null <=> l < K
  <2> SUFFICES ASSUME NEW l \in LBAs PROVE T[l] # Null <=> l < K
    OBVIOUS
  <2>0. l \in Nat /\ l < MaxLBA
    BY <1>1 DEF LBAs
  <2>1. CASE l = 0
    <3>1. Check.kind = "check" /\ Null.kind = "null"
      BY DEF Check, Null
    <3>2. Check # Null
      BY <3>1
    <3> QED BY <1>1, <1>3, <2>1, <3>2
  <2>2. CASE l # 0 /\ l < K
    <3>1. s + l - d \in LBAs /\ s + l - d < n
      BY <1>1, <1>2, <2>0, <2>2 DEF LBAs
    <3>2. D[s + l - d] # Null
      BY <1>4, <3>1, SolidDevice DEF D
    <3> QED BY <1>3, <2>2, <3>2
  <2>3. CASE l # 0 /\ ~(l < K)
    BY <1>3, <2>3
  <2> QED BY <2>1, <2>2, <2>3
<1>8. Settled(T, K, X, top)
  BY <1>1, <1>6, <1>7 DEF Settled
<1> QED BY <1>8 DEF T, K

LEMMA TruncLeads ==
    ASSUME NEW v, NEW X, NEW top, Ready(v, X, top), FirstIsCheck(v) \/ NTail(v) < MaxLBA
    PROVE  Leads(v.disk, TruncScript(v), Trimmed(v))
<1> DEFINE T == Trimmed(v)
           D == v.disk
           n == v.next
           s == Src(v)
           N == NTail(v)
           K == NKeep(v)
           f == FirstIsCheck(v)
           z == IF n > K THEN n - K ELSE 0
           R == {D[l] : l \in Int} \cup {Check, Null}
           S == {Write(l, b) : l \in Nat, b \in R}
           A == [i \in 1 .. N |-> Write(i - 1, D[s + i - 1])]
           B == IF f THEN <<>> ELSE [k \in 1 .. N |-> Write(N - k + 1, D[s + N - k])]
           C == <<Write(0, Check)>>
           Z == [i \in 1 .. z |-> Write(K + i - 1, Null)]
<1>1. /\ MaxLBA \in Nat /\ MaxLBA # 0 /\ n \in 0 .. MaxLBA /\ s \in 0 .. n
      /\ N = n - s /\ K \in 1 .. MaxLBA /\ K = IF f THEN N ELSE N + 1
  BY TruncPlaces
<1>2. TruncScript(v) = ((A \o B) \o C) \o Z
  BY DEF TruncScript
<1>3. \A l \in LBAs : T[l] = IF l = 0 THEN Check ELSE IF l < K THEN D[s + l - (K - N)] ELSE Null
  BY DEF Trimmed
<1>4. \A l \in LBAs : l >= n => D[l] = Null
  <2> SUFFICES ASSUME NEW l \in LBAs, l >= n PROVE D[l] = Null
    OBVIOUS
  <2>1. Start(v) = n
    BY <1>1 DEF Ready, Drained, Start
  <2>2. ~(l < Start(v))
    BY <1>1, <2>1 DEF LBAs
  <2> QED BY <2>2, SolidDevice DEF Ready
<1>5. \A l, b : Write(l, b).lba = l /\ Write(l, b).block = b
  BY DEF Write
<1>6. z \in Nat /\ N \in Nat
  BY <1>1
<1>7. (\A l \in Int : D[l] \in R) /\ Check \in R /\ Null \in R
  OBVIOUS
<1>70. z = IF n > K THEN n - K ELSE 0
  OBVIOUS
<1> HIDE DEF R, T, D, n, s, N, K, f, z
<1>8. (\A l \in Nat : \A b \in R : Write(l, b) \in S) /\ \A x \in S : x.lba \in Nat
  BY <1>5
<1> HIDE DEF S
<1>9. A \in Seq(S) /\ Len(A) = N /\ \A i \in 1 .. N : A[i].lba = i - 1 /\ A[i].block = D[s + i - 1]
  <2>1. \A i \in 1 .. N : A[i] = Write(i - 1, D[s + i - 1]) /\ A[i] \in S
    BY <1>1, <1>7, <1>8
  <2>2. A \in Seq(S) /\ Len(A) = N
    BY <1>6, <2>1
  <2> HIDE DEF A
  <2> QED BY <1>5, <2>1, <2>2
<1>10. ~f => B \in Seq(S) /\ Len(B) = N /\ \A k \in 1 .. N : B[k].lba = N - k + 1 /\ B[k].block = D[s + N - k]
  <2> SUFFICES ASSUME ~f
               PROVE  B \in Seq(S) /\ Len(B) = N /\ \A k \in 1 .. N : B[k].lba = N - k + 1 /\ B[k].block = D[s + N - k]
    OBVIOUS
  <2>0. B = [k \in 1 .. N |-> Write(N - k + 1, D[s + N - k])]
    OBVIOUS
  <2> HIDE DEF B
  <2>1. \A k \in 1 .. N : B[k] = Write(N - k + 1, D[s + N - k]) /\ B[k] \in S
    BY <1>1, <1>6, <1>7, <1>8, <2>0
  <2>2. B \in Seq(S) /\ Len(B) = N
    BY <1>6, <2>0, <2>1
  <2> QED BY <1>5, <2>1, <2>2
<1>11. f => B = <<>> /\ B \in Seq(S)
  OBVIOUS
<1>12. C \in Seq(S) /\ Len(C) = 1 /\ C[1].lba = 0 /\ C[1].block = Check
  <2>1. Write(0, Check) \in S
    BY <1>7, <1>8
  <2> QED BY <1>5, <2>1
<1>13. Z \in Seq(S) /\ Len(Z) = z /\ \A i \in 1 .. z : Z[i].lba = K + i - 1 /\ Z[i].block = Null
  <2>1. \A i \in 1 .. z : Z[i] = Write(K + i - 1, Null) /\ Z[i] \in S
    BY <1>1, <1>6, <1>7, <1>8
  <2>2. Z \in Seq(S) /\ Len(Z) = z
    BY <1>6, <2>1
  <2> HIDE DEF Z
  <2> QED BY <1>5, <2>1, <2>2
<1> HIDE DEF A, B, C, Z
<1>14. B \in Seq(S) /\ (A \o B) \in Seq(S) /\ ((A \o B) \o C) \in Seq(S) /\ (((A \o B) \o C) \o Z) \in Seq(S)
  BY <1>9, <1>10, <1>11, <1>12, <1>13, JoinParts
<1> DEFINE AB == A \o B
           ABC == AB \o C
           W == ABC \o Z
<1>15. AB \in Seq(S) /\ ABC \in Seq(S) /\ W \in Seq(S)
  BY <1>14
<1>16. ASSUME NEW l \in LBAs PROVE (NoneAt(W, l) /\ D[l] = T[l]) \/ LastAt(W, l, T[l])
  <2>0. l \in Nat /\ l < MaxLBA
    BY <1>1 DEF LBAs
  <2>1. l < K \/ l >= n => NoneAt(Z, l)
    <3>1. l < K \/ l >= n => \A i \in 1 .. z : K + i - 1 # l
      BY <1>1, <1>6, <1>70, <2>0
    <3> QED BY <1>13, <3>1 DEF NoneAt
  <2>2. l # 0 => NoneAt(C, l)
    BY <1>12 DEF NoneAt
  <2>3. CASE l = 0
    <3>1. LastAt(C, l, Check)
      BY <1>12, <2>3 DEF LastAt
    <3> HIDE DEF AB
    <3>2. LastAt(ABC, l, Check)
      BY <1>12, <1>15, <3>1, JoinSecond
    <3> HIDE DEF ABC
    <3>3. NoneAt(Z, l)
      BY <1>1, <2>1, <2>3
    <3>4. LastAt(W, l, Check)
      BY <1>13, <1>15, <3>2, <3>3, JoinFirst
    <3> QED BY <1>3, <2>3, <3>4
  <2>4. CASE l # 0 /\ l < K
    <3>1. T[l] = D[s + l - (K - N)]
      BY <1>3, <2>4
    <3>2. LastAt(AB, l, T[l])
      <4>1. CASE f
        <5> DEFINE i == l + 1
        <5>1. K = N /\ i \in 1 .. Len(A) /\ A[i].lba = l /\ A[i].block = D[s + l]
          <6>1. K = N /\ i \in 1 .. N /\ i - 1 = l /\ s + i - 1 = s + l
            BY <1>1, <2>0, <2>4, <4>1
          <6> HIDE DEF i
          <6> QED BY <1>9, <6>1
        <5>2. s + l - (K - N) = s + l
          BY <1>1, <2>0, <5>1
        <5>3. \A k \in i + 1 .. Len(A) : A[k].lba # l
          BY <1>1, <1>9, <2>0
        <5> HIDE DEF i
        <5>4. LastAt(A, l, T[l])
          BY <3>1, <5>1, <5>2, <5>3 DEF LastAt
        <5>5. NoneAt(B, l)
          BY <1>11, <4>1 DEF NoneAt
        <5> QED BY <1>9, <1>14, <5>4, <5>5, JoinFirst
      <4>2. CASE ~f
        <5> DEFINE i == N - l + 1
        <5>1. K = N + 1 /\ i \in 1 .. Len(B) /\ B[i].lba = l /\ B[i].block = D[s + l - 1]
          <6>1. K = N + 1 /\ i \in 1 .. N /\ N - i + 1 = l /\ s + N - i = s + l - 1
            BY <1>1, <2>0, <2>4, <4>2
          <6> HIDE DEF i
          <6> QED BY <1>10, <4>2, <6>1
        <5>2. s + l - (K - N) = s + l - 1
          BY <1>1, <2>0, <5>1
        <5>3. \A k \in i + 1 .. Len(B) : B[k].lba # l
          <6>1. \A k \in i + 1 .. N : k \in 1 .. N /\ N - k + 1 # l
            BY <1>1, <1>6, <2>0, <2>4
          <6> HIDE DEF i
          <6> QED BY <1>10, <4>2, <6>1
        <5> HIDE DEF i
        <5>4. LastAt(B, l, T[l])
          BY <3>1, <5>1, <5>2, <5>3 DEF LastAt
        <5> QED BY <1>9, <1>14, <5>4, JoinSecond
      <4> QED BY <4>1, <4>2
    <3> HIDE DEF AB
    <3>3. LastAt(ABC, l, T[l])
      BY <1>12, <1>15, <2>2, <2>4, <3>2, JoinFirst
    <3> HIDE DEF ABC
    <3> QED BY <1>13, <1>15, <2>1, <2>4, <3>3, JoinFirst
  <2>5. CASE l # 0 /\ ~(l < K) /\ l < n
    <3> DEFINE i == l - K + 1
    <3>1. i \in 1 .. z /\ K + i - 1 = l
      BY <1>1, <1>70, <2>0, <2>5
    <3>2. \A k \in i + 1 .. z : k \in 1 .. z /\ K + k - 1 # l
      BY <1>1, <1>6, <2>0, <3>1
    <3> HIDE DEF i
    <3>3. LastAt(Z, l, Null)
      BY <1>13, <3>1, <3>2 DEF LastAt
    <3> HIDE DEF ABC
    <3>4. LastAt(W, l, Null)
      BY <1>13, <1>15, <3>3, JoinSecond
    <3> QED BY <1>3, <2>5, <3>4
  <2>6. CASE l # 0 /\ ~(l < K) /\ l >= n
    <3>1. D[l] = Null /\ T[l] = Null
      BY <1>3, <1>4, <2>6
    <3>2. NoneAt(A, l)
      <4>1. \A i \in 1 .. N : i - 1 # l
        BY <1>1, <2>0, <2>6
      <4> HIDE DEF A
      <4> QED BY <1>9, <4>1 DEF NoneAt
    <3>3. NoneAt(B, l)
      <4>1. CASE f
        BY <1>11, <4>1 DEF NoneAt
      <4>2. CASE ~f
        <5>1. \A k \in 1 .. N : N - k + 1 # l
          BY <1>1, <1>6, <2>0, <2>6, <4>2
        <5> QED BY <1>10, <4>2, <5>1 DEF NoneAt
      <4> QED BY <4>1, <4>2
    <3>4. NoneAt(AB, l)
      BY <1>9, <1>14, <3>2, <3>3, JoinNone
    <3> HIDE DEF AB
    <3>5. NoneAt(ABC, l)
      BY <1>12, <1>15, <2>2, <2>6, <3>4, JoinNone
    <3> HIDE DEF ABC
    <3>6. NoneAt(W, l)
      BY <1>13, <1>15, <2>1, <2>6, <3>5, JoinNone
    <3> QED BY <3>1, <3>6
  <2> QED BY <1>1, <2>0, <2>3, <2>4, <2>5, <2>6
<1>17. W \in Seq(S)
  BY <1>15
<1>18. Leads(D, W, T)
  <2> HIDE DEF W
  <2> QED BY <1>8, <1>16, <1>17 DEF Leads
<1> QED BY <1>2, <1>18 DEF D, T

-----------------------------------------------------------------------------
(* Fewer records to keep, checkpoints, crashes, openings.                  *)

LEMMA FewerGood ==
    ASSUME NEW w, NEW X, NEW top \in Nat, NEW P, NEW u \in Nat, GoodLog(w, X, top, P, u),
           NEW Y, Y \subseteq X, NEW Q, Q \cap Y \subseteq P, NEW k \in Nat, u <= k
    PROVE  GoodLog(w, Y, top, Q, k)
<1>1. PICK F \in 0 .. Start(w) : Saved(w, F, X, P, u)
  BY DEF GoodLog
<1> DEFINE S == Loose(View(w), X, F)
           T == Loose(View(w), Y, F)
<1>2. T \subseteq S /\ S \subseteq 1 .. top /\ IsFiniteSet(1 .. top)
  <2>1. X \subseteq 1 .. top
    BY DEF GoodLog, LogOK
  <2>2. IsFiniteSet(1 .. top)
    BY FS_Interval
  <2> QED BY <2>1, <2>2 DEF Loose
<1>3. Cardinality(S) <= u
  BY <1>1 DEF Saved
<1> HIDE DEF S, T
<1>4. IsFiniteSet(S)
  BY <1>2, FS_Subset
<1>5. Cardinality(T) <= Cardinality(S) /\ IsFiniteSet(T)
  BY <1>2, <1>4, FS_Subset
<1>6. Cardinality(T) \in Nat /\ Cardinality(S) \in Nat
  BY <1>4, <1>5, FS_CardinalityType
<1>7. Cardinality(T) <= k
  BY <1>3, <1>5, <1>6
<1>8. Saved(w, F, Y, Q, k)
  BY <1>1, <1>7 DEF Saved, T
<1>9. LogOK(View(w), w.next, Y, top)
  BY Fewer DEF GoodLog
<1>10. Unused(View(w), w.checkLBA, Y)
  BY DEF GoodLog, Unused
<1> QED BY <1>8, <1>9, <1>10 DEF GoodLog

LEMMA DrainedReady ==
    ASSUME NEW w, Drained(w)
    PROVE  TruncReady(w) = w
BY DEF Drained, TruncReady, FlushPending, FlushQuantum

\* The log after a checkpoint.
Marked1(m, w, top) ==
    /\ Ready(m, {}, top) /\ TruncReady(m) = m /\ m.checkLBA = ck.lba /\ w.next <= m.next /\ m.next > 0
    /\ m.hasCheck = TRUE
    /\ ck.lba <= m.next => \A Q : GoodLog(m, {}, top, Q, 0)

LEMMA MarkGood ==
    ASSUME NEW w, NEW top, NEW P, NEW u, GoodLog(w, {}, top, P, u), HasRoom(w, 1, TRUE), ck.lba \in Nat
    PROVE  Marked1(CheckpointMark(w), w, top)
<1> DEFINE x == FlushPending(w)
           y == WriteOne(x, Check)
           f == Flush(y)
           c == ck.lba
           m == CheckpointMark(w)
<1>1. m = [f EXCEPT !.checkLBA = c, !.hasCheck = TRUE] /\ x.next + 1 <= MaxLBA /\ MaxLBA \in Nat
  BY JournalAssumption DEF CheckpointMark, HasRoom, BeforeRoom
<1>2. GoodLog(x, {}, top, P, u) /\ x.pending = <<>> /\ w.next <= x.next
  <2>1. PackAdded(x, w)
    BY PackAdds DEF GoodLog
  <2> QED BY <2>1, FlushPendingGood DEF PackAdded, Grown
<1> HIDE DEF x
<1>3. Solid(x) /\ x.qCount < Quantum /\ LogOK(View(x), x.next, {}, top) /\ x.next \in Nat
  <2>1. Solid(x)
    BY <1>2 DEF GoodLog
  <2> QED BY <1>2, <2>1, SolidTypes DEF GoodLog
<1>4. Check # Null /\ IsCheck(Check) /\ ~(Check.kind = "chunk")
  <2>1. Check.kind = "check" /\ Null.kind = "null"
    BY DEF Check, Null
  <2> QED BY <2>1 DEF IsCheck
<1>5. BlockAdded(y, x, Check)
  BY <1>1, <1>3, <1>4, BlockAdds
<1> HIDE DEF y
<1>6. LogOK(View(y), x.next + 1, {}, top)
  <2>1. View(y)[x.next] = Check /\ Agree(View(x), View(y), x.next)
    BY <1>5 DEF BlockAdded, Grown
  <2>2. \A r \in Recs : r > top => ~Carries(View(y)[x.next].recs, r)
    BY <2>1, CheckCarriesNone
  <2> QED BY <1>3, <1>4, <2>1, <2>2, OneMoreBlock
<1>7. GoodLog(y, {}, top, P, u)
  <2>1. Grown(y, x) /\ y.qCount < Quantum /\ y.next = x.next + 1 /\ y.pending = <<>>
    BY <1>2, <1>5 DEF BlockAdded
  <2>2. Fits(y) /\ PendingOK(y.pending, top)
    BY <2>1, EmptyPending DEF Fits
  <2> QED BY <1>2, <1>6, <2>1, <2>2, GrownGood
<1>8. FlushedFrom(f, y) /\ \A Q : GoodLog(f, {}, top, Q, 0)
  BY <1>7, FlushGood
<1> HIDE DEF f
<1>9. Solid(f) /\ Shape(f) /\ f.next \in Nat /\ Drained(f) /\ w.next <= f.next /\ f.next > 0
  <2>1. Solid(f)
    BY <1>8 DEF GoodLog
  <2>2. y.next <= f.next /\ y.next = x.next + 1
    BY <1>5, <1>8 DEF FlushedFrom, PackAdded, Grown, BlockAdded
  <2>3. f.next \in Nat /\ w.next \in Nat
    BY <2>1, SolidTypes DEF GoodLog
  <2> QED BY <1>2, <1>3, <1>8, <2>1, <2>2, <2>3 DEF FlushedFrom, Solid, Placed
<1> HIDE DEF c, m
<1>10. m = [disk |-> f.disk, alt |-> f.alt, next |-> f.next, qLBA |-> f.qLBA, qCount |-> f.qCount,
            qBuf |-> f.qBuf, pending |-> f.pending, packDepth |-> f.packDepth,
            checkLBA |-> c, hasCheck |-> TRUE, synced |-> f.synced]
  BY <1>1, <1>9 DEF Shape
<1>11. /\ m.next = f.next /\ m.qLBA = f.qLBA /\ m.qCount = f.qCount /\ m.qBuf = f.qBuf /\ m.disk = f.disk /\ m.alt = f.alt
       /\ m.pending = f.pending /\ m.packDepth = f.packDepth /\ m.checkLBA = c /\ m.hasCheck = TRUE
  BY <1>10
<1>12. Shape(m)
  BY <1>9, <1>10, <1>11 DEF Shape, c
<1>13. Solid(m) /\ Start(m) = Start(f) /\ View(m) = View(f) /\ \A l : Firm(m, l) <=> Firm(f, l)
  BY <1>9, <1>11, <1>12, SolidSame
<1>14. Drained(m) /\ TruncReady(m) = m
  BY <1>9, <1>11, DrainedReady DEF Drained
<1>15. Ready(m, {}, top)
  <2>1. Ready(f, {}, top)
    BY <1>8, <1>9, ReadyGood, DrainedReady
  <2>2. Unused(m.disk, Src(m), {})
    BY DEF Unused
  <2> QED BY <1>11, <1>13, <1>14, <2>1, <2>2 DEF Ready, c
<1>16. ASSUME ck.lba <= m.next, NEW Q PROVE GoodLog(m, {}, top, Q, 0)
  <2>1. GoodLog(f, {}, top, Q, 0)
    BY <1>8
  <2>2. m.checkLBA \in 0 .. m.next
    BY <1>9, <1>11, <1>16 DEF c
  <2>3. Unused(View(m), m.checkLBA, {})
    BY DEF Unused
  <2>4. \A F : Saved(f, F, {}, Q, 0) => Saved(m, F, {}, Q, 0)
    BY <1>13 DEF Saved
  <2>5. Fits(m)
    BY <1>11, <2>1 DEF Fits, GoodLog
  <2> QED BY <1>11, <1>13, <2>1, <2>2, <2>3, <2>4, <2>5 DEF GoodLog
<1> QED BY <1>9, <1>11, <1>14, <1>15, <1>16 DEF Marked1, m, c

\* What a stop leaves.
DownOK(d, X, top, P) ==
    /\ LogOK(d, Tip(d), X, top)
    /\ \A r \in P \cap X : Below(d, r, Tip(d))
    /\ Cardinality(Loose(d, X, Tip(d))) < CoalesceN

LEMMA CrashGood ==
    ASSUME NEW w, NEW X, NEW top \in Nat, NEW P, NEW u \in Nat, GoodLog(w, X, top, P, u), u < CoalesceN,
           NEW d, \A l \in LBAs : d[l] = w.disk[l] \/ d[l] \in w.alt[l]
    PROVE  DownOK(d, X, top, P)
<1> DEFINE t == Tip(d)
           V == View(w)
<1>0. /\ MaxLBA \in Nat /\ w.next \in Nat /\ w.next \in 0 .. MaxLBA /\ Start(w) \in 0 .. w.next /\ CoalesceN \in Nat
      /\ \A l \in LBAs : l < Start(w) => V[l] = w.disk[l]
      /\ Solid(w) /\ LogOK(V, w.next, X, top)
  BY SolidTypes, JournalAssumption DEF GoodLog, Solid
<1>1. t \in 0 .. MaxLBA /\ (\A l \in LBAs : l < t => d[l] # Null) /\ (t < MaxLBA => d[t] = Null)
  BY TipIs
<1>2. \A l \in LBAs : d[l] \in {Null, w.disk[l]} /\ (~(l < Start(w)) => d[l] = Null)
  <2> SUFFICES ASSUME NEW l \in LBAs PROVE d[l] \in {Null, w.disk[l]} /\ (~(l < Start(w)) => d[l] = Null)
    OBVIOUS
  <2>1. CASE l < Start(w)
    BY <1>0, <2>1, SolidDevice
  <2>2. CASE ~(l < Start(w))
    <3>1. w.disk[l] = Null /\ w.alt[l] = {Null}
      BY <1>0, <2>2, SolidDevice
    <3> QED BY <3>1
  <2> QED BY <2>1, <2>2
<1> HIDE DEF t, V
<1>3. t <= Start(w)
  <2> SUFFICES ASSUME Start(w) < t PROVE FALSE
    BY <1>0, <1>1
  <2>1. Start(w) \in LBAs /\ ~(Start(w) < Start(w))
    BY <1>0, <1>1 DEF LBAs
  <2> QED BY <1>1, <1>2, <2>1
<1>4. Agree(V, d, t)
  <2> SUFFICES ASSUME NEW l \in 0 .. t - 1 PROVE d[l] = V[l]
    BY DEF Agree
  <2>1. l \in LBAs /\ l < t /\ l < Start(w)
    BY <1>0, <1>1, <1>3 DEF LBAs
  <2> QED BY <1>0, <1>1, <1>2, <2>1
<1>5. LogOK(d, t, X, top)
  <2>1. t \in Nat /\ t <= w.next
    BY <1>0, <1>1, <1>3
  <2> QED BY <1>0, <1>4, <2>1, LogPrefix
<1>6. PICK F \in 0 .. Start(w) : Saved(w, F, X, P, u)
  BY DEF GoodLog
<1>7. F <= t /\ F \in Nat /\ t \in Nat
  <2> SUFFICES ASSUME t < F PROVE FALSE
    BY <1>0, <1>1
  <2>1. t \in LBAs /\ t \in 0 .. F - 1 /\ t < Start(w) /\ t < MaxLBA
    BY <1>0, <1>1 DEF LBAs
  <2>2. d[t] = Null /\ w.disk[t] # Null
    BY <1>0, <1>1, <2>1, SolidDevice
  <2>3. w.alt[t] = {w.disk[t]}
    BY <1>6, <2>1 DEF Saved, Firm
  <2>4. d[t] = w.disk[t] \/ d[t] \in w.alt[t]
    BY <2>1
  <2> QED BY <2>2, <2>3, <2>4
<1>8. \A r : Below(V, r, F) => Below(d, r, t)
  <2>1. Agree(V, d, F)
    BY <1>4, <1>7 DEF Agree
  <2> QED BY <1>7, <2>1, BelowLocal
<1>9. Cardinality(Loose(d, X, t)) < CoalesceN
  <2> DEFINE S == Loose(V, X, F)
             T == Loose(d, X, t)
  <2>1. T \subseteq S /\ S \subseteq 1 .. top /\ IsFiniteSet(1 .. top)
    <3>1. X \subseteq 1 .. top
      BY <1>0 DEF LogOK
    <3>2. IsFiniteSet(1 .. top)
      BY FS_Interval
    <3>3. T \subseteq S
      BY <1>8 DEF Loose
    <3> QED BY <3>1, <3>2, <3>3 DEF Loose
  <2>2. Cardinality(S) <= u
    BY <1>6 DEF Saved, V
  <2> HIDE DEF S, T
  <2>3. IsFiniteSet(S)
    BY <2>1, FS_Subset
  <2>4. Cardinality(T) <= Cardinality(S) /\ IsFiniteSet(T)
    BY <2>1, <2>3, FS_Subset
  <2>5. Cardinality(T) \in Nat /\ Cardinality(S) \in Nat
    BY <2>3, <2>4, FS_CardinalityType
  <2>6. Cardinality(T) < CoalesceN
    BY <1>0, <2>2, <2>4, <2>5
  <2> QED BY <2>6 DEF T
<1>10. \A r \in P \cap X : Below(d, r, t)
  BY <1>6, <1>8 DEF Saved, V
<1> QED BY <1>5, <1>9, <1>10 DEF DownOK, t

\* A log that opens, with nothing to keep.
LEMMA OpenGood ==
    ASSUME NEW w, Placed(w), BufOK(w), Drained(w), Still(w), ~Ruptured(w.disk),
           NEW X, NEW top, NEW P, DownOK(w.disk, X, top, P), NEW Y, Y \subseteq X,
           Y = {} \/ (Tip(w.disk) <= 1 /\ Y \subseteq Applied(w.disk)), NEW Q
    PROVE  GoodLog(Scanned(w), Y, top, Q, 0) /\ Scanned(w).next = Tip(w.disk)
<1> DEFINE v == Scanned(w)
           d == w.disk
           n == Tip(d)
           k == LastCheck(d, n)
<1>1. n \in 0 .. MaxLBA /\ n \in Nat /\ MaxLBA \in Nat /\ \A l \in LBAs : l < n => d[l] # Null
  BY JournalAssumption, TipIs
<1>2. k \in -1 .. n - 1
  <2> HIDE DEF n, d
  <2> QED BY <1>1, LastCheckIs
<1>3. /\ Kept(v) /\ Drained(v) /\ Still(v) /\ v.disk = d /\ v.qBuf = w.qBuf /\ v.next = n
      /\ v.checkLBA \in {0, k} /\ v.checkLBA >= 0
  <2>1. ScannedFrom(v, w)
    BY ScannedIs DEF Placed
  <2> QED BY <2>1 DEF ScannedFrom
<1>4. v.checkLBA \in 0 .. n /\ (n <= 1 => v.checkLBA = 0)
  <2> HIDE DEF v, k, n, d
  <2> QED BY <1>1, <1>2, <1>3
<1>5. LogOK(d, n, Y, top) /\ LogOK(d, n, X, top)
  BY Fewer DEF DownOK
<1>6. \A l \in LBAs : d[l] # Null <=> l < n
  <2> SUFFICES ASSUME NEW l \in LBAs PROVE d[l] # Null <=> l < n
    OBVIOUS
  <2>1. l \in Nat /\ l < MaxLBA
    BY <1>1 DEF LBAs
  <2>2. l > n => d[l] = Null
    BY DEF Ruptured
  <2>3. n < MaxLBA => d[n] = Null
    BY TipIs
  <2> HIDE DEF n, d
  <2>4. l = n \/ l > n \/ l < n
    BY <1>1, <2>1
  <2>5. CASE l = n
    BY <1>1, <2>1, <2>3, <2>5
  <2>6. CASE l > n
    BY <1>1, <2>1, <2>2, <2>6
  <2>7. CASE l < n
    BY <1>1, <2>7
  <2> QED BY <2>4, <2>5, <2>6, <2>7
<1>7. ASSUME NEW r \in Y PROVE Below(d, r, n)
  <2>1. n <= 1 /\ r \in Applied(d)
    BY <1>7
  <2>2. PICK l \in 0 .. n - 1 : Carries(d[l].recs, r) /\ (d[l].kind = "pack" \/ Completes(d, r, l))
    BY <2>1, ReplayedWas
  <2> HIDE DEF n, d
  <2>3. l = 0 /\ 0 \in 0 .. n - 1
    BY <1>1, <2>1
  <2>4. CASE d[l].kind = "pack"
    <3>1. Covers(d, r, 0)
      BY <2>2, <2>3, <2>4 DEF Covers
    <3> QED BY <2>3, <3>1 DEF Below
  <2>5. CASE Completes(d, r, l)
    <3>1. d[0].kind = "chunk" /\ d[0].recs = <<r>> /\ Held(d, r)[0] \cup {d[0].part} = 1 .. Chunks
      BY <2>3, <2>5 DEF Completes
    <3>2. {d[0].part} = 1 .. Chunks
      BY <3>1, HeldIs
    <3>3. Chunks \in Nat /\ Chunks # 0
      BY JournalAssumption
    <3>4. Chunks \in 1 .. Chunks /\ 1 \in 1 .. Chunks
      BY <3>3
    <3>5. d[0].part = 1 /\ Chunks = 1
      BY <3>2, <3>4
    <3>6. d[0] = Chunk(d[0].recs[1], d[0].part)
      BY <1>5, <2>3, <3>1 DEF LogOK, Formed
    <3>7. d[0] = Chunk(r, 1)
      BY <3>1, <3>5, <3>6
    <3>8. Covers(d, r, 0)
      <4>1. 0 \in 0 .. 0 /\ 0 = 0 + Chunks - 1
        BY <3>5
      <4>2. \A i \in 1 .. Chunks : d[0 + i - 1] = Chunk(r, i)
        BY <3>5, <3>7
      <4>3. \A m \in 0 .. 0 - 1 : FALSE
        OBVIOUS
      <4> QED BY <4>1, <4>2, <4>3 DEF Covers
    <3> QED BY <2>3, <3>8 DEF Below
  <2> QED BY <2>2, <2>4, <2>5
<1>8. Settled(d, v.next, Y, top)
  BY <1>1, <1>3, <1>5, <1>6, <1>7 DEF Settled
<1>9. Unused(d, v.checkLBA, Y)
  <2>1. CASE Y = {}
    BY <2>1 DEF Unused
  <2>2. CASE n <= 1
    <3>1. \A l \in 0 .. v.checkLBA - 1 : FALSE
      BY <1>4, <2>2
    <3> QED BY <3>1 DEF Unused
  <2> QED BY <2>1, <2>2
<1>10. Placed(v) /\ BufOK(v)
  BY <1>3 DEF Kept, BufOK
<1> HIDE DEF v, d, n, k
<1>11. GoodLog(v, Y, top, Q, 0)
  BY <1>3, <1>4, <1>8, <1>9, <1>10, SettledGood
<1> QED BY <1>3, <1>11 DEF v, d, n

-----------------------------------------------------------------------------
(* Autonomous writes and group commit.                                     *)

\* No transaction, no batch, and no stop inside a truncation.
Autonomous ==
    /\ Ops \subseteq {"put", "big", "now", "full", "window", "sync", "checkpoint", "compact", "close", "repair"}
    /\ "truncate" \notin CrashAt

\* The append of a checkpoint truncates the log under the position it has taken.
StaleCheck == pc = "checkpoint" /\ call' = "check" /\ ck.cut # "yes"

\* The acknowledged writes that are not in the heap.
Owed == acked \ inHeap

Books ==
    /\ last \in 0 .. MaxRec /\ \A r \in Recs : txOf[r] = 0
    /\ acked \subseteq 1 .. last /\ inHeap \subseteq 1 .. last /\ published \subseteq 1 .. last
    /\ promised \subseteq acked
    /\ unflushed \in 0 .. CoalesceN - 1 /\ groupDepth = 0
    /\ \A a, b \in acked : a < b /\ b \in inHeap => a \in inHeap

Up == {"idle", "checkpoint", "truncate"}
Gone == {"down", "refused", "repair"}
Places ==
    /\ pc \in Up \cup Gone /\ ck.lba \in Nat
    /\ pc \in Up => acked \subseteq published
    /\ pc = "checkpoint" => /\ back \in {<<"idle">>, <<"open">>} /\ Owed = {}
                            /\ ck.cut # "yes" => ck.lba = j.next
    /\ pc = "truncate" =>
          \/ back = <<"idle">>
          \/ back \in {<<"checkpoint", "idle">>, <<"checkpoint", "open">>} /\ Owed = {} /\ ck.cut = "yes"

\* The writes s of a truncation lead to a log that gives back all of X.
CutLeads(w, s, X, top) ==
    Drained(w) /\ BufOK(w) /\ w.checkLBA = 0 /\ \E T : Leads(w.disk, s, T) /\ Settled(T, w.next, X, top)

Logged ==
    /\ pc \in {"idle", "checkpoint"} => GoodLog(j, Owed, last, promised, unflushed)
    /\ pc = "truncate" => CutLeads(j, script, Owed, last)
    /\ pc \in Gone => DownOK(j.disk, Owed, last, promised)

GroupInv == JournalInv /\ BufOK(j) /\ Books /\ Places /\ Logged

LEMMA BooksTypes ==
    ASSUME Books
    PROVE  /\ last \in Nat /\ unflushed \in Nat /\ unflushed < CoalesceN /\ CoalesceN \in Nat \ {0}
           /\ Owed \subseteq 1 .. last /\ promised \subseteq 1 .. last
           /\ 1 .. last \subseteq Recs /\ MaxRec \in Nat
<1>1. CoalesceN \in Nat \ {0} /\ MaxRec \in Nat
  BY JournalAssumption
<1> QED BY <1>1 DEF Books, Owed, Recs

LEMMA GoesToIdle ==
    ASSUME JournalInv', Books', pc' = "idle", ck'.lba \in Nat, acked' \subseteq published',
           GoodLog(j', Owed', last', promised', unflushed')
    PROVE  GroupInv'
<1>1. BufOK(j')
  BY DEF GoodLog, Solid, BufOK
<1> QED BY <1>1 DEF GroupInv, Places, Logged, Up, Gone

LEMMA GoesToMark1 ==
    ASSUME JournalInv', Books', pc' = "checkpoint", ck'.lba \in Nat, acked' \subseteq published',
           back' \in {<<"idle">>, <<"open">>}, Owed' = {}, ck'.cut # "yes" => ck'.lba = j'.next,
           GoodLog(j', {}, last', promised', unflushed')
    PROVE  GroupInv'
<1>1. BufOK(j')
  BY DEF GoodLog, Solid, BufOK
<1> QED BY <1>1 DEF GroupInv, Places, Logged, Up, Gone

LEMMA GoesDown ==
    ASSUME JournalInv', BufOK(j'), Books', pc' \in Gone, ck'.lba \in Nat,
           DownOK(j'.disk, Owed', last', promised')
    PROVE  GroupInv'
BY DEF GroupInv, Places, Logged, Up, Gone

\* All that is durable may be promised.
LEMMA NoneLoose ==
    ASSUME NEW w, NEW X, NEW top \in Nat, NEW P, GoodLog(w, X, top, P, 0), NEW Q
    PROVE  GoodLog(w, X, top, Q, 0)
<1>1. PICK F \in 0 .. Start(w) : Saved(w, F, X, P, 0)
  BY DEF GoodLog
<1> DEFINE S == Loose(View(w), X, F)
<1>2. S \subseteq 1 .. top /\ IsFiniteSet(1 .. top)
  <2>1. X \subseteq 1 .. top
    BY DEF GoodLog, LogOK
  <2>2. IsFiniteSet(1 .. top)
    BY FS_Interval
  <2> QED BY <2>1, <2>2 DEF Loose
<1>3. Cardinality(S) <= 0
  BY <1>1 DEF Saved
<1>4. S = {}
  <2> HIDE DEF S
  <2>1. IsFiniteSet(S)
    BY <1>2, FS_Subset
  <2>2. Cardinality(S) \in Nat
    BY <2>1, FS_CardinalityType
  <2>3. Cardinality(S) = 0
    BY <1>3, <2>2
  <2> QED BY <2>1, <2>3, FS_EmptySet
<1>5. \A r \in X : Below(View(w), r, F)
  BY <1>4 DEF Loose
<1>6. Saved(w, F, X, Q, 0)
  BY <1>1, <1>5 DEF Saved
<1> QED BY <1>6 DEF GoodLog

-----------------------------------------------------------------------------
(* Each action.                                                            *)

\* A truncation begins.
LEMMA CutBegins ==
    ASSUME NEW w, Placed(w), NEW X, NEW top, Ready(TruncReady(w), X, top), CanTruncate(w),
           NEW p, NEW rest, StartTruncate(w, p, rest)
    PROVE  CutLeads(j', script', X, top) /\ pc' = "truncate" /\ back' = <<p>> \o rest
<1> DEFINE v == TruncReady(w)
<1>1. FirstIsCheck(v) \/ NTail(v) < MaxLBA
  BY DEF CanTruncate
<1>2. j' = Truncated(v) /\ script' = TruncScript(v) /\ pc' = "truncate" /\ back' = <<p>> \o rest
  BY DEF StartTruncate, Truncated
<1>3. Drained(Truncated(v)) /\ Truncated(v).next = NKeep(v) /\ Truncated(v).checkLBA = 0
      /\ Truncated(v).disk = v.disk /\ Truncated(v).qBuf = v.qBuf
  BY KeptTruncated
<1>4. Solid(v)
  BY DEF Ready
<1> HIDE DEF v
<1>5. Leads(v.disk, TruncScript(v), Trimmed(v)) /\ Settled(Trimmed(v), NKeep(v), X, top)
  BY <1>1, TruncLeads, TruncSettles DEF v
<1>6. BufOK(j')
  BY <1>2, <1>3, <1>4 DEF Solid, BufOK
<1> QED BY <1>2, <1>3, <1>5, <1>6 DEF CutLeads

LEMMA GoesToCut1 ==
    ASSUME JournalInv', Books', pc' = "truncate", ck'.lba \in Nat, acked' \subseteq published',
           \/ back' = <<"idle">>
           \/ back' \in {<<"checkpoint", "idle">>, <<"checkpoint", "open">>} /\ Owed' = {} /\ ck'.cut = "yes",
           CutLeads(j', script', Owed', last')
    PROVE  GroupInv'
<1>1. BufOK(j')
  BY DEF CutLeads
<1> QED BY <1>1 DEF GroupInv, Places, Logged, Up, Gone

LEMMA SameBooks ==
    ASSUME Books, UNCHANGED <<flagVars, last, txOf, acked, promised, inHeap, published>>
    PROVE  Books' /\ Owed' = Owed
BY DEF Books, Owed, flagVars

LEMMA RefusedGood ==
    ASSUME NEW w, NEW X, NEW top, NEW P, NEW u, GoodLog(w, X, top, P, u), NEW alone
    PROVE  GoodLog(Refused(w, alone), X, top, P, u)
BY FlushPendingGood DEF Refused, BeforeRoom

\* The group: at most CoalesceN - 1 writes wait for their barrier.
Grouped(s, X, top, P) == GoodLog(s.w, X, top, P, s.n) /\ s.n \in 0 .. CoalesceN - 1

LEMMA SyncGroups ==
    ASSUME Books, NEW w, NEW X, NEW top, NEW P, GoodLog(w, X, top, P, unflushed + 1), NEW o, NEW Q,
           o = "now" \/ Q = P
    PROVE  Grouped(CallDurability(SyncWAL(w, o), o), X, top, Q) /\ (o = "put" => Grouped(SyncWAL(w, o), X, top, Q))
<1> DEFINE f == [w |-> Flush(w), n |-> 0]
           k == [w |-> w, n |-> unflushed + 1]
           s == SyncWAL(w, o)
<1>0. CoalesceN \in Nat \ {0} /\ unflushed \in Nat /\ groupDepth = 0
  BY BooksTypes DEF Books
<1>1. Grouped(f, X, top, Q)
  <2>1. GoodLog(Flush(w), X, top, Q, 0)
    BY FlushGood
  <2> QED BY <1>0, <2>1 DEF Grouped
<1>2. CASE o = "now" \/ unflushed + 1 >= CoalesceN
  <2>1. s = f
    BY <1>0, <1>2 DEF SyncWAL
  <2>2. CallDurability(s, o) \in {f, [w |-> Flush(f.w), n |-> 0]}
    BY <2>1 DEF CallDurability
  <2>3. GoodLog(Flush(Flush(w)), X, top, Q, 0)
    <3>1. GoodLog(Flush(w), X, top, Q, 0)
      BY FlushGood
    <3> QED BY <3>1, FlushGood
  <2>4. Grouped([w |-> Flush(f.w), n |-> 0], X, top, Q)
    BY <1>0, <2>3 DEF Grouped
  <2> QED BY <1>1, <2>1, <2>2, <2>4
<1>3. CASE ~(o = "now" \/ unflushed + 1 >= CoalesceN)
  <2>1. s = k /\ CallDurability(s, o) = s
    BY <1>0, <1>3 DEF SyncWAL, CallDurability
  <2>2. Grouped(k, X, top, Q)
    BY <1>0, <1>3 DEF Grouped
  <2> QED BY <2>1, <2>2
<1> QED BY <1>2, <1>3

\* The record of an autonomous write joins the log and the books.
LEMMA RecordAdds ==
    ASSUME Books, GoodLog(j, Owed, last, promised, unflushed), NEW big \in BOOLEAN, last < MaxRec,
           HasRoom(EnsurePack(j), Blocks(big), big)
    PROVE  GoodLog(AppendRec(EnsurePack(j), NewRec, big), Owed \cup {NewRec}, NewRec, promised, unflushed + 1)
<1> DEFINE w == EnsurePack(j)
<1>0. /\ last \in Nat /\ unflushed \in Nat /\ promised \subseteq 1 .. last /\ MaxRec \in Nat
  BY BooksTypes
<1>1. last + 1 \in Recs /\ NewRec = last + 1
  BY <1>0 DEF Recs, NewRec
<1>2. GoodLog(w, Owed, last, promised, unflushed) /\ w.packDepth > 0
  BY EnsureGood
<1> HIDE DEF w
<1>3. CASE big = TRUE
  <2>1. HasRoom(w, Chunks, TRUE)
    BY <1>3 DEF Blocks, w
  <2>2. GoodLog(AppendRec(w, last + 1, TRUE), Owed \cup {last + 1}, last + 1, promised, unflushed + 1)
    BY <1>0, <1>1, <1>2, <2>1, BigGood
  <2> QED BY <1>1, <1>3, <2>2 DEF w
<1>4. CASE big = FALSE
  <2>1. HasRoom(w, 1, FALSE)
    BY <1>4 DEF Blocks, w
  <2>2. GoodLog(AppendRec(w, last + 1, FALSE), Owed \cup {last + 1}, last + 1, promised, unflushed + 1)
    BY <1>0, <1>1, <1>2, <2>1, SmallGood
  <2> QED BY <1>1, <1>4, <2>2 DEF w
<1> QED BY <1>3, <1>4

LEMMA RecordBooks ==
    ASSUME Books, last < MaxRec, TakeRec(0), groupDepth' = 0, unflushed' \in 0 .. CoalesceN - 1,
           inHeap' \in {inHeap, published}, published' \subseteq published \cup {NewRec}, acked \subseteq published,
           acked' \in {acked, acked \cup {NewRec}}, promised' \subseteq promised \cup {NewRec}, promised' \subseteq acked'
    PROVE  Books'
<1>0. last \in Nat /\ MaxRec \in Nat /\ NewRec = last + 1 /\ last' = last + 1
  BY BooksTypes DEF TakeRec, NewRec
<1>1. last' \in 0 .. MaxRec /\ 1 .. last' = 1 .. last \cup {NewRec}
  BY <1>0
<1>2. \A r \in Recs : txOf'[r] = 0
  <2>1. txOf' = [txOf EXCEPT ![NewRec] = 0]
    BY DEF TakeRec
  <2> SUFFICES ASSUME NEW r \in Recs PROVE txOf'[r] = 0
    OBVIOUS
  <2>2. txOf[r] = 0
    BY DEF Books
  <2>3. CASE r \in DOMAIN txOf
    BY <2>1, <2>2, <2>3
  <2>4. CASE r \notin DOMAIN txOf
    BY <2>1, <2>2, <2>4
  <2> QED BY <2>3, <2>4
<1>3. acked' \subseteq 1 .. last' /\ inHeap' \subseteq 1 .. last' /\ published' \subseteq 1 .. last'
  BY <1>1 DEF Books
<1>4. \A a, b \in acked' : a < b /\ b \in inHeap' => a \in inHeap'
  <2> SUFFICES ASSUME NEW a \in acked', NEW b \in acked', a < b, b \in inHeap' PROVE a \in inHeap'
    OBVIOUS
  <2>1. NewRec \notin inHeap'
    BY <1>0 DEF Books
  <2>2. b \in acked /\ b \in 1 .. last
    BY <2>1 DEF Books
  <2>3. a # NewRec
    BY <1>0, <2>2
  <2>4. a \in acked
    BY <2>3
  <2>5. CASE inHeap' = inHeap
    BY <2>2, <2>4, <2>5 DEF Books
  <2>6. CASE inHeap' = published
    BY <2>4, <2>6
  <2> QED BY <2>5, <2>6
<1> QED BY <1>1, <1>2, <1>3, <1>4 DEF Books

LEMMA AppendCuts ==
    ASSUME GroupInv, JournalInv', NEW w, NEW c, NEW n, NEW alone, AppendTruncates(c, w, n, alone),
           GoodLog(w, Owed, last, promised, unflushed),
           pc = "idle" \/ (pc = "checkpoint" /\ ck.cut = "yes")
    PROVE  GroupInv'
<1>1. StartTruncate(w, pc, back) /\ CanTruncate(w) /\ UNCHANGED <<flagVars, ck, workVars, bookVars>>
  BY DEF AppendTruncates
<1>2. Books' /\ Owed' = Owed /\ ck'.lba \in Nat /\ acked' \subseteq published' /\ last' = last /\ ck' = ck
  <2>1. UNCHANGED <<flagVars, last, txOf, acked, promised, inHeap, published>>
    BY <1>1 DEF workVars, bookVars
  <2> QED BY <1>1, <2>1, SameBooks DEF GroupInv, Places, Up
<1>3. Ready(TruncReady(w), Owed, last) /\ Placed(w)
  BY ReadyGood DEF GoodLog, Solid
<1>4. CutLeads(j', script', Owed, last) /\ pc' = "truncate" /\ back' = <<pc>> \o back
  BY <1>1, <1>3, CutBegins
<1>5. \/ back' = <<"idle">>
      \/ back' \in {<<"checkpoint", "idle">>, <<"checkpoint", "open">>} /\ Owed' = {} /\ ck'.cut = "yes"
  <2>1. CASE pc = "idle"
    <3>1. back = <<>>
      BY <2>1 DEF GroupInv, JournalInv, BackOK
    <3>2. <<pc>> \o back = <<"idle">>
      BY <2>1, <3>1
    <3> QED BY <1>4, <3>2
  <2>2. CASE pc = "checkpoint" /\ ck.cut = "yes"
    <3>1. back \in {<<"idle">>, <<"open">>} /\ Owed = {}
      BY <2>2 DEF GroupInv, Places
    <3>2. \A p : <<"checkpoint">> \o <<p>> = <<"checkpoint", p>>
      BY Pair
    <3>3. back' \in {<<"checkpoint", "idle">>, <<"checkpoint", "open">>}
      BY <1>4, <2>2, <3>1, <3>2
    <3> QED BY <1>2, <2>2, <3>1, <3>3
  <2> QED BY <2>1, <2>2
<1> QED BY <1>2, <1>4, <1>5, GoesToCut1

LEMMA PutGood ==
    ASSUME GroupInv, JournalInv', NEW o, Put(o)
    PROVE  GroupInv'
<1> DEFINE w == EnsurePack(j)
           big == o = "big"
           a == AppendRec(w, NewRec, big)
           s == CallDurability(SyncWAL(a, o), o)
<1>0. /\ pc = "idle" /\ last < MaxRec /\ Books /\ acked \subseteq published /\ ck.lba \in Nat
      /\ GoodLog(j, Owed, last, promised, unflushed) /\ big \in BOOLEAN
  BY DEF Put, GroupInv, Places, Logged, Up
<1>1. GoodLog(w, Owed, last, promised, unflushed)
  BY <1>0, EnsureGood
<1>2. CASE AppendTruncates(o, w, Blocks(big), big)
  <2> HIDE DEF w, big
  <2> QED BY <1>0, <1>1, <1>2, AppendCuts
<1>3. CASE /\ j' = Refused(w, big)
           /\ UNCHANGED <<flagVars, workVars, pc, back, script, ck, bookVars, boundVars>>
  <2> HIDE DEF w, big
  <2>1. GoodLog(j', Owed, last, promised, unflushed)
    BY <1>1, <1>3, RefusedGood
  <2>2. Books' /\ Owed' = Owed
    BY <1>0, <1>3, SameBooks DEF workVars, bookVars
  <2>3. last' = last /\ promised' = promised /\ unflushed' = unflushed /\ pc' = "idle" /\ ck' = ck /\ acked' \subseteq published'
    BY <1>0, <1>3 DEF workVars, bookVars, flagVars
  <2> QED BY <1>0, <2>1, <2>2, <2>3, GoesToIdle
<1>4. CASE /\ AppendGoesOn(o, w, Blocks(big), big)
           /\ j' = s.w /\ unflushed' = s.n
           /\ TakeRec(0)
           /\ published' = published \cup {NewRec}
           /\ acked' = acked \cup {NewRec}
           /\ promised' = IF o = "now" THEN promised \cup {NewRec} ELSE promised
           /\ UNCHANGED <<groupDepth, pc, back, script, ck, tx, batched, inHeap, txs, boundVars>>
  <2>1. HasRoom(w, Blocks(big), big)
    BY <1>4 DEF AppendGoesOn
  <2>2. GoodLog(a, Owed \cup {NewRec}, NewRec, promised, unflushed + 1)
    <3> HIDE DEF big
    <3> QED BY <1>0, <2>1, RecordAdds
  <2> HIDE DEF w, a
  <2>3. Grouped(s, Owed \cup {NewRec}, NewRec, promised')
    <3>1. o = "now" \/ promised' = promised
      BY <1>4
    <3> HIDE DEF s
    <3>2. Grouped(CallDurability(SyncWAL(a, o), o), Owed \cup {NewRec}, NewRec, promised')
      BY <1>0, <2>2, <3>1, SyncGroups
    <3> QED BY <3>2 DEF s
  <2> HIDE DEF s
  <2>4. Books'
    <3>1. groupDepth' = 0 /\ unflushed' \in 0 .. CoalesceN - 1 /\ inHeap' = inHeap
      BY <1>0, <1>4, <2>3 DEF Grouped, Books
    <3>2. promised' \subseteq promised \cup {NewRec} /\ promised' \subseteq acked'
      BY <1>0, <1>4 DEF Books
    <3> QED BY <1>0, <1>4, <3>1, <3>2, RecordBooks
  <2>5. last' = NewRec /\ Owed' = Owed \cup {NewRec}
    <3>1. NewRec \notin inHeap
      <4>1. last \in Nat /\ inHeap \subseteq 1 .. last
        BY <1>0, BooksTypes DEF Books
      <4> QED BY <4>1 DEF NewRec
    <3> QED BY <1>4, <3>1 DEF TakeRec, Owed
  <2>6. GoodLog(j', Owed', last', promised', unflushed')
    BY <1>4, <2>3, <2>5 DEF Grouped
  <2>7. pc' = "idle" /\ ck' = ck /\ acked' \subseteq published'
    BY <1>0, <1>4
  <2> QED BY <1>0, <2>4, <2>6, <2>7, GoesToIdle
<1> QED BY <1>2, <1>3, <1>4 DEF Put

LEMMA FlushesGood ==
    ASSUME GroupInv, JournalInv', WindowFlush \/ Sync
    PROVE  GroupInv'
<1>0. /\ pc = "idle" /\ Books /\ acked \subseteq published /\ ck.lba \in Nat
      /\ GoodLog(j, Owed, last, promised, unflushed) /\ last \in Nat
  BY BooksTypes DEF WindowFlush, Sync, GroupInv, Places, Logged, Up
<1>1. /\ pc' = "idle" /\ ck' = ck /\ last' = last /\ txOf' = txOf /\ acked' = acked /\ published' = published
      /\ inHeap' = inHeap /\ groupDepth' = groupDepth /\ promised' \in {promised, promised \cup acked}
  BY <1>0 DEF WindowFlush, Sync, workVars, bookVars
<1>2. /\ unflushed' = 0 \/ unflushed' = unflushed
      /\ GoodLog(j', Owed, last, promised', unflushed')
  <2>1. CASE j' = Flush(j) /\ unflushed' = 0
    BY <1>0, <2>1, FlushGood
  <2>2. CASE unflushed = 0 /\ j' = j /\ unflushed' = unflushed
    <3>1. GoodLog(j, Owed, last, promised, 0)
      BY <1>0, <2>2
    <3>2. GoodLog(j, Owed, last, promised', 0)
      BY <1>0, <3>1, NoneLoose
    <3> QED BY <2>2, <3>2
  <2> QED BY <2>1, <2>2 DEF WindowFlush, Sync
<1>3. Books' /\ Owed' = Owed
  <2>1. 0 \in 0 .. CoalesceN - 1
    BY <1>0, BooksTypes
  <2> QED BY <1>0, <1>1, <1>2, <2>1 DEF Books, Owed
<1> QED BY <1>0, <1>1, <1>2, <1>3, GoesToIdle

LEMMA CheckpointBegins ==
    ASSUME GroupInv, JournalInv', Checkpoint \/ PutFull
    PROVE  GroupInv'
<1>0. /\ pc = "idle" /\ Books /\ acked \subseteq published /\ ck.lba \in Nat
      /\ GoodLog(j, Owed, last, promised, unflushed) /\ last \in Nat /\ unflushed \in Nat
  BY BooksTypes DEF Checkpoint, PutFull, GroupInv, Places, Logged, Up
<1>1. CASE Checkpoint
  <2>1. PICK o \in {"checkpoint", "compact"} \cap Ops :
           StartCheckpoint(j, published, IF o = "compact" THEN "yes" ELSE "half", <<"idle">>)
    BY <1>1 DEF Checkpoint
  <2>2. inHeap' = published /\ ck'.lba = j.next /\ pc' = "checkpoint" /\ back' = <<"idle">>
    BY <2>1 DEF StartCheckpoint
  <2>3. UNCHANGED <<j, unflushed, groupDepth, last, txOf, acked, promised, published>>
    BY <1>1 DEF Checkpoint, flagVars, workVars
  <2>4. Owed' = {} /\ Books'
    BY <1>0, <2>2, <2>3 DEF Books, Owed
  <2>5. GoodLog(j, {}, last, promised, unflushed)
    BY <1>0, FewerGood
  <2>6. j.next \in Nat
    BY <1>0, SolidTypes DEF GoodLog
  <2> QED BY <1>0, <2>2, <2>3, <2>4, <2>5, <2>6, GoesToMark1
<1>2. CASE PutFull
  <2> DEFINE w == EnsurePack(j)
             a == AppendRec(w, NewRec, FALSE)
             s == SyncWAL(a, "put")
  <2>1. /\ last < MaxRec /\ HasRoom(w, 1, FALSE) /\ j' = s.w /\ unflushed' = s.n
        /\ StartCheckpoint(s.w, published, "no", <<"idle">>) /\ TakeRec(0)
        /\ UNCHANGED <<groupDepth, acked, promised, published>>
    BY <1>2 DEF PutFull
  <2>2. GoodLog(a, Owed \cup {NewRec}, NewRec, promised, unflushed + 1)
    <3>1. HasRoom(w, Blocks(FALSE), FALSE)
      BY <2>1 DEF Blocks
    <3> QED BY <1>0, <2>1, <3>1, RecordAdds
  <2> HIDE DEF w, a
  <2>3. Grouped(s, Owed \cup {NewRec}, NewRec, promised)
    <3> HIDE DEF s
    <3>1. Grouped(SyncWAL(a, "put"), Owed \cup {NewRec}, NewRec, promised)
      BY <1>0, <2>2, SyncGroups
    <3> QED BY <3>1 DEF s
  <2> HIDE DEF s
  <2>4. inHeap' = published /\ ck'.lba = j'.next /\ pc' = "checkpoint" /\ back' = <<"idle">>
    BY <2>1 DEF StartCheckpoint
  <2>5. Books'
    <3>1. groupDepth' = 0 /\ unflushed' \in 0 .. CoalesceN - 1 /\ promised' \subseteq acked'
      BY <1>0, <2>1, <2>3 DEF Grouped, Books
    <3> QED BY <1>0, <2>1, <2>4, <3>1, RecordBooks
  <2>6. Owed' = {} /\ last' = NewRec /\ NewRec \in Nat
    BY <1>0, <2>1, <2>4 DEF Owed, TakeRec, NewRec
  <2>7. GoodLog(s.w, {}, NewRec, promised, s.n)
    <3>1. s.n \in Nat
      BY <2>3, JournalAssumption DEF Grouped
    <3>2. GoodLog(s.w, Owed \cup {NewRec}, NewRec, promised, s.n)
      BY <2>3 DEF Grouped
    <3> QED BY <2>6, <3>1, <3>2, FewerGood
  <2>8. j'.next \in Nat
    BY <2>1, <2>7, SolidTypes DEF GoodLog
  <2>9. GoodLog(j', {}, last', promised', unflushed')
    BY <2>1, <2>6, <2>7
  <2>10. acked' \subseteq published'
    BY <1>0, <2>1
  <2> QED BY <2>4, <2>5, <2>6, <2>8, <2>9, <2>10, GoesToMark1
<1> QED BY <1>1, <1>2

LEMMA MarkOrCut ==
    ASSUME GroupInv, JournalInv', CheckpointAppend, ~StaleCheck
    PROVE  GroupInv'
<1>0. /\ pc = "checkpoint" /\ Books /\ acked \subseteq published /\ ck.lba \in Nat
      /\ GoodLog(j, {}, last, promised, unflushed) /\ Owed = {}
      /\ last \in Nat /\ unflushed \in Nat /\ unflushed < CoalesceN
      /\ back \in {<<"idle">>, <<"open">>} /\ (ck.cut # "yes" => ck.lba = j.next)
  BY BooksTypes DEF CheckpointAppend, GroupInv, Places, Logged, Up
<1>1. Head(back) \in {"idle", "open"} /\ \A p : Head(<<p>>) = p
  BY <1>0, SingleParts
<1>2. CASE AppendTruncates("check", j, 1, TRUE)
  <2>1. ck.cut = "yes"
    BY <1>0, <1>2 DEF StaleCheck, AppendTruncates
  <2> QED BY <1>0, <1>2, <2>1, AppendCuts
<1>3. ASSUME UNCHANGED <<flagVars, ck, workVars, bookVars, boundVars>>
      PROVE  /\ Books' /\ Owed' = {} /\ ck'.lba \in Nat /\ acked' \subseteq published'
             /\ last' = last /\ promised' = promised /\ unflushed' = unflushed
  <2>1. UNCHANGED <<flagVars, last, txOf, acked, promised, inHeap, published>>
    BY <1>3 DEF workVars, bookVars
  <2> QED BY <1>0, <1>3, <2>1, SameBooks DEF flagVars
\* nothing changes but the log: the writer goes back, or the opening fails
<1>4. ASSUME NEW w, GoodLog(w, {}, last, promised, unflushed), j' = w,
             UNCHANGED <<flagVars, ck, workVars, bookVars, boundVars>>, pc' \in {"idle", "refused"}
      PROVE  GroupInv'
  <2>1. /\ Books' /\ Owed' = {} /\ ck'.lba \in Nat /\ acked' \subseteq published'
        /\ last' = last /\ promised' = promised /\ unflushed' = unflushed
    BY <1>3, <1>4
  <2>2. GoodLog(j', Owed', last', promised', unflushed')
    BY <1>4, <2>1
  <2>3. CASE pc' = "idle"
    BY <2>1, <2>2, <2>3, GoesToIdle
  <2>4. CASE pc' = "refused"
    <3>1. DownOK(w.disk, {}, last, promised)
      BY <1>0, <1>4, CrashGood
    <3>2. BufOK(j')
      BY <2>2 DEF GoodLog, Solid, BufOK
    <3>3. DownOK(j'.disk, Owed', last', promised')
      BY <1>4, <2>1, <3>1
    <3>4. pc' \in Gone
      BY <2>4 DEF Gone
    <3> QED BY <2>1, <3>2, <3>3, <3>4, GoesDown
  <2> QED BY <1>4, <2>3, <2>4
<1>5. CheckpointFails => pc' \in {"idle", "refused"}
  BY <1>1 DEF CheckpointFails
<1>6. CASE /\ AppendRefused("check", j, 1, TRUE)
           /\ j' = Refused(j, TRUE)
           /\ CheckpointFails
           /\ UNCHANGED <<flagVars, script, ck, workVars, bookVars, boundVars>>
  <2>1. GoodLog(Refused(j, TRUE), {}, last, promised, unflushed)
    BY <1>0, RefusedGood
  <2> QED BY <1>4, <1>5, <1>6, <2>1
<1> DEFINE w == CheckpointMark(j)
           p == IF Head(back) = "open" THEN "idle" ELSE Head(back)
           cuts == ck.cut = "yes" \/ (ck.cut = "half" /\ NeedsRecycle(w))
<1>7. CASE /\ AppendGoesOn("check", j, 1, TRUE)
           /\ \/ cuts /\ CanTruncate(w) /\ StartTruncate(w, p, <<>>)
              \/ cuts /\ ~CanTruncate(w) /\ j' = w /\ CheckpointFails /\ UNCHANGED script
              \/ ~cuts /\ j' = w /\ pc' = p /\ back' = <<>> /\ UNCHANGED script
           /\ UNCHANGED <<flagVars, ck, workVars, bookVars, boundVars>>
  <2>0. p = "idle" /\ (~cuts => ck.cut # "yes")
    BY <1>1
  <2>1. Marked1(w, j, last)
    <3>1. HasRoom(j, 1, TRUE)
      BY <1>7 DEF AppendGoesOn
    <3> QED BY <1>0, <3>1, MarkGood
  <2> HIDE DEF w, p, cuts
  <2>2. w.next \in Nat /\ j.next \in Nat /\ w.next <= MaxLBA /\ MaxLBA \in Nat /\ Solid(w)
    <3>1. Solid(w) /\ Solid(j) /\ w.next \in 0 .. MaxLBA
      BY <1>0, <2>1 DEF Marked1, Ready, GoodLog, Solid
    <3>2. MaxLBA \in Nat
      BY JournalAssumption
    <3> HIDE DEF w
    <3>3. w.next \in Nat /\ j.next \in Nat
      BY <3>1, SolidTypes
    <3> QED BY <3>1, <3>2, <3>3
  <2>3. ck.lba <= w.next => GoodLog(w, {}, last, promised, unflushed)
    <3> SUFFICES ASSUME ck.lba <= w.next PROVE GoodLog(w, {}, last, promised, unflushed)
      OBVIOUS
    <3>1. GoodLog(w, {}, last, promised, 0)
      BY <2>1 DEF Marked1
    <3> QED BY <1>0, <3>1, FewerGood
  <2>4. CASE CanTruncate(w) /\ StartTruncate(w, p, <<>>)
    <3>1. Ready(TruncReady(w), {}, last) /\ Placed(w)
      BY <2>1, <2>2 DEF Marked1, Solid
    <3>2. CutLeads(j', script', {}, last) /\ pc' = "truncate" /\ back' = <<p>> \o <<>>
      BY <2>4, <3>1, CutBegins
    <3>3. back' = <<"idle">>
      BY <2>0, <3>2
    <3>4. /\ Books' /\ Owed' = {} /\ ck'.lba \in Nat /\ acked' \subseteq published' /\ last' = last
      BY <1>3, <1>7
    <3> QED BY <3>2, <3>3, <3>4, GoesToCut1
  <2>5. CASE ~CanTruncate(w) /\ j' = w /\ CheckpointFails
    <3>1. TruncReady(w) = w /\ w.hasCheck = TRUE /\ w.next > 0 /\ w.checkLBA = ck.lba
      BY <2>1 DEF Marked1
    <3>2. ~(NTail(w) < MaxLBA)
      BY <2>5, <3>1 DEF CanTruncate
    <3>3. ck.lba <= w.next
      BY <1>0, <2>2, <3>1, <3>2 DEF NTail, Src
    <3> QED BY <1>4, <1>5, <1>7, <2>3, <2>5, <3>3
  <2>6. CASE ~cuts /\ j' = w /\ pc' = p
    <3>1. ck.lba <= w.next
      BY <1>0, <2>0, <2>1, <2>6 DEF Marked1
    <3> QED BY <1>4, <1>7, <2>0, <2>3, <2>6, <3>1
  <2> QED BY <1>7, <2>4, <2>5, <2>6
<1> QED BY <1>2, <1>6, <1>7 DEF CheckpointAppend

\* A repair writes at or after the tip: the log before it is the same.
LEMMA TailKept ==
    ASSUME NEW d, NEW e, Tip(e) = Tip(d), \A l \in 0 .. Tip(d) - 1 : e[l] = d[l],
           NEW X, NEW top, NEW P, DownOK(d, X, top, P)
    PROVE  DownOK(e, X, top, P)
<1> DEFINE n == Tip(d)
<1>1. n \in Nat
  BY TipIs, JournalAssumption
<1>2. Agree(d, e, n) /\ Agree(e, d, n)
  BY DEF Agree
<1>3. LogOK(d, n, X, top) /\ (\A r \in P \cap X : Below(d, r, n)) /\ Cardinality(Loose(d, X, n)) < CoalesceN
  BY DEF DownOK
<1>4. Tip(e) = n
  OBVIOUS
<1> HIDE DEF n
<1>5. LogOK(e, n, X, top)
  <2>1. n <= n
    BY <1>1
  <2> QED BY <1>1, <1>2, <1>3, <2>1, LogPrefix
<1>6. \A r : Below(d, r, n) <=> Below(e, r, n)
  <2>1. n <= n
    BY <1>1
  <2> QED BY <1>1, <1>2, <2>1, BelowLocal
<1>7. Loose(d, X, n) = Loose(e, X, n)
  BY <1>6 DEF Loose
<1> QED BY <1>3, <1>4, <1>5, <1>6, <1>7 DEF DownOK

\* The writes of a truncation and of a repair.
LEMMA WriteStepGood ==
    ASSUME GroupInv, JournalInv', WriteStep
    PROVE  GroupInv'
<1> DEFINE h == Head(script)
<1>0. /\ pc \in {"truncate", "repair"} /\ pc' = pc /\ back' = back /\ ck' = ck /\ script # <<>>
      /\ j' = DevWrite(j, h.lba, <<h.block>>) /\ script' = Tail(script)
      /\ Shape(j) /\ Books /\ BufOK(j) /\ ck.lba \in Nat
  BY DEF WriteStep, GroupInv, Places, JournalInv, Kept, Placed
<1>1. SameBuffers(j', j)
  BY <1>0, DevWriteFields
<1>2. BufOK(j') /\ (Drained(j) => Drained(j')) /\ j'.next = j.next /\ j'.checkLBA = j.checkLBA
  BY <1>0, <1>1 DEF BufOK, Drained, SameBuffers, SameCalls
<1>3. Books' /\ Owed' = Owed /\ last' = last /\ promised' = promised
  <2>1. UNCHANGED <<flagVars, last, txOf, acked, promised, inHeap, published>>
    BY DEF WriteStep, workVars, bookVars
  <2> QED BY <1>0, <2>1, SameBooks
<1>4. CASE pc = "truncate"
  <2>1. CutLeads(j, script, Owed, last)
    BY <1>4 DEF GroupInv, Logged
  <2>2. PICK T : Leads(j.disk, script, T) /\ Settled(T, j.next, Owed, last)
    BY <2>1 DEF CutLeads
  <2>3. h.lba \in Nat
    <3>1. \E S : script \in Seq(S) /\ \A x \in S : x.lba \in Nat
      BY <2>2 DEF Leads
    <3> QED BY <1>0, <3>1
  <2>4. OneBlock(j', j, h.lba, h.block)
    BY <1>0, <2>3, WroteOneBlock
  <2>5. Leads(j'.disk, script', T)
    <3>1. \A l \in LBAs : j'.disk[l] = IF l = Head(script).lba THEN Head(script).block ELSE j.disk[l]
      BY <2>4 DEF OneBlock
    <3> HIDE DEF h
    <3> QED BY <1>0, <2>2, <3>1, LeadsOn
  <2>6. CutLeads(j', script', Owed', last')
    BY <1>2, <1>3, <2>1, <2>2, <2>5 DEF CutLeads
  <2>7. \/ back' = <<"idle">>
        \/ back' \in {<<"checkpoint", "idle">>, <<"checkpoint", "open">>} /\ Owed' = {} /\ ck'.cut = "yes"
    BY <1>0, <1>3, <1>4 DEF GroupInv, Places
  <2>8. acked' \subseteq published' /\ pc' = "truncate" /\ ck'.lba \in Nat
    BY <1>0, <1>4 DEF WriteStep, GroupInv, Places, Up, bookVars
  <2> QED BY <1>3, <2>6, <2>7, <2>8, GoesToCut1
<1>5. CASE pc = "repair"
  <2> DEFINE t == Tip(j.disk)
  <2>1. script \in Seq(CutWrites(t)) /\ DownOK(j.disk, Owed, last, promised)
    BY <1>5 DEF GroupInv, JournalInv, Cutting, Logged, Gone
  <2>2. t \in 0 .. MaxLBA /\ MaxLBA \in Nat
    BY TipIs, JournalAssumption
  <2>3. h \in CutWrites(t)
    <3> HIDE DEF t, h
    <3> QED BY <1>0, <2>1, HeadTailProperties DEF h
  <2>4. h.lba >= t /\ h.lba \in Nat
    <3> HIDE DEF t, h
    <3>1. PICK l \in t .. MaxLBA : h = Write(l, Null)
      BY <2>3 DEF CutWrites
    <3> QED BY <2>2, <3>1 DEF Write
  <2>5. OneBlock(j', j, h.lba, h.block)
    BY <1>0, <2>4, WroteOneBlock
  <2>6. \A l \in 0 .. t - 1 : j'.disk[l] = j.disk[l]
    <3> HIDE DEF t, h
    <3>1. \A l \in 0 .. t - 1 : l \in LBAs /\ l # h.lba
      BY <2>2, <2>4 DEF LBAs
    <3> QED BY <2>5, <3>1 DEF OneBlock
  <2>7. Tip(j'.disk) = t
    BY WriteStepInv, <1>5 DEF GroupInv
  <2> HIDE DEF t
  <2>8. DownOK(j'.disk, Owed, last, promised)
    BY <2>1, <2>6, <2>7, TailKept DEF t
  <2>9. pc' \in Gone
    BY <1>0, <1>5 DEF Gone
  <2> QED BY <1>0, <1>2, <1>3, <2>8, <2>9, GoesDown
<1> QED BY <1>0, <1>4, <1>5

LEMMA TruncateDoneGood ==
    ASSUME GroupInv, JournalInv', TruncateDone
    PROVE  GroupInv'
<1>0. /\ pc = "truncate" /\ pc' = Head(back) /\ back' = Tail(back) /\ ck' = ck /\ script = <<>>
      /\ j' = DevFlush(j) /\ Kept(j) /\ Shape(j) /\ Books /\ ck.lba \in Nat /\ acked \subseteq published
      /\ CutLeads(j, script, Owed, last) /\ last \in Nat /\ unflushed \in Nat
  BY BooksTypes DEF TruncateDone, GroupInv, Places, Up, JournalInv, Kept, Placed, Logged
<1>1. /\ Books' /\ Owed' = Owed /\ last' = last /\ promised' = promised /\ unflushed' = unflushed
      /\ acked' \subseteq published'
  <2>1. UNCHANGED <<flagVars, last, txOf, acked, promised, inHeap, published>>
    BY DEF TruncateDone, workVars, bookVars
  <2> QED BY <1>0, <2>1, SameBooks DEF flagVars
<1>2. SameBuffers(j', j) /\ j'.disk = j.disk
  BY <1>0, DevFlushFields
<1>3. Kept(j') /\ Drained(j') /\ Still(j')
  BY <1>0, FlushedDevice DEF CutLeads
<1>4. PICK T : Leads(j.disk, <<>>, T) /\ Settled(T, j.next, Owed, last)
  BY <1>0 DEF CutLeads
<1>5. \A l \in LBAs : j'.disk[l] = T[l]
  BY <1>2, <1>4 DEF Leads, LastAt
<1>6. GoodLog(j', Owed, last, promised, unflushed)
  <2>1. BufOK(j') /\ j'.checkLBA = 0 /\ j'.next = j.next
    BY <1>0, <1>2 DEF CutLeads, BufOK, SameBuffers, SameCalls
  <2>2. j'.checkLBA \in 0 .. j'.next /\ Unused(T, j'.checkLBA, Owed)
    <3>1. j'.next \in 0 .. MaxLBA /\ MaxLBA \in Nat
      BY <1>4, <2>1, JournalAssumption DEF Settled
    <3> QED BY <2>1, <3>1 DEF Unused
  <2>3. GoodLog(j', Owed, last, promised, 0)
    <3>1. Placed(j') /\ Settled(T, j'.next, Owed, last)
      BY <1>3, <1>4, <2>1 DEF Kept
    <3> QED BY <1>3, <1>5, <2>1, <2>2, <3>1, SettledGood
  <2> QED BY <1>0, <2>3, FewerGood
<1>7. CASE back = <<"idle">>
  <2>1. pc' = "idle"
    BY <1>0, <1>7, SingleParts
  <2> QED BY <1>0, <1>1, <1>6, <2>1, GoesToIdle
<1>8. CASE back \in {<<"checkpoint", "idle">>, <<"checkpoint", "open">>} /\ Owed = {} /\ ck.cut = "yes"
  <2>1. pc' = "checkpoint" /\ back' \in {<<"idle">>, <<"open">>}
    BY <1>0, <1>8, PairParts
  <2> QED BY <1>0, <1>1, <1>6, <1>8, <2>1, GoesToMark1
<1> QED BY <1>0, <1>7, <1>8 DEF GroupInv, Places

\* The process is gone.
LEMMA DownGood ==
    ASSUME GroupInv, JournalInv', NEW d, Down(d), NEW X, DownOK(d, X, last, promised), X = acked \ inHeap',
           UNCHANGED <<last, txOf, acked, promised>>, published' = inHeap',
           inHeap' = inHeap \/ (inHeap' = published /\ acked \subseteq published)
    PROVE  GroupInv'
<1>0. Books /\ JournalInv /\ tx'.next \in Int
  BY DEF GroupInv, JournalInv
<1>1. j'.disk = d /\ j'.qBuf = [i \in 1 .. Quantum |-> Null]
  BY <1>0, DownInv
<1>2. BufOK(j')
  BY <1>1 DEF BufOK
<1>3. unflushed' = 0 /\ groupDepth' = 0 /\ pc' \in Gone /\ ck'.lba \in Nat
  BY DEF Down, NoCk, Gone
<1>4. Books'
  <2>1. 0 \in 0 .. CoalesceN - 1
    BY <1>0, BooksTypes
  <2> QED BY <1>0, <1>3, <2>1 DEF Books
<1>5. DownOK(j'.disk, Owed', last', promised')
  BY <1>1 DEF Owed
<1> QED BY <1>2, <1>3, <1>4, <1>5, GoesDown

LEMMA StopsGood ==
    ASSUME GroupInv, JournalInv', Autonomous, Crash \/ Close
    PROVE  GroupInv'
<1>0. /\ Books /\ last \in Nat /\ unflushed \in Nat /\ unflushed < CoalesceN
  BY BooksTypes DEF GroupInv
<1>1. CASE Crash
  <2>1. /\ pc \in CrashAt /\ published' = inHeap /\ inHeap' = inHeap
        /\ UNCHANGED <<last, txOf, acked, promised>>
    BY <1>1 DEF Crash
  <2>2. PICK d \in Images(j) : Down(d)
    BY <1>1 DEF Crash
  <2>3. \A l \in LBAs : d[l] = j.disk[l] \/ d[l] \in j.alt[l]
    BY ImageIs
  <2>4. pc \in {"idle", "checkpoint", "repair"}
    BY <2>1, JournalAssumption DEF Autonomous, GroupInv, Places, Up, Gone
  <2>5. DownOK(d, Owed, last, promised)
    <3>1. CASE pc \in {"idle", "checkpoint"}
      <4>1. GoodLog(j, Owed, last, promised, unflushed)
        BY <3>1 DEF GroupInv, Logged
      <4> QED BY <1>0, <2>3, <4>1, CrashGood
    <3>2. CASE pc = "repair"
      <4>1. DownOK(j.disk, Owed, last, promised)
        BY <3>2 DEF GroupInv, Logged, Gone
      <4>2. \A l \in LBAs : l <= Tip(j.disk) => j.alt[l] = {j.disk[l]}
        BY <3>2 DEF GroupInv, JournalInv, Cutting
      <4>3. \A l \in LBAs : l <= Tip(j.disk) => d[l] = j.disk[l]
        BY <2>3, <4>2
      <4>4. Tip(d) = Tip(j.disk)
        BY <4>3, SameTip
      <4>5. \A l \in 0 .. Tip(j.disk) - 1 : d[l] = j.disk[l]
        <5>1. Tip(j.disk) \in 0 .. MaxLBA /\ MaxLBA \in Nat
          BY TipIs, JournalAssumption
        <5>2. \A l \in 0 .. Tip(j.disk) - 1 : l \in LBAs /\ l <= Tip(j.disk)
          BY <5>1 DEF LBAs
        <5> QED BY <4>3, <5>2
      <4> QED BY <4>1, <4>4, <4>5, TailKept
    <3> QED BY <2>4, <3>1, <3>2
  <2> QED BY <2>1, <2>2, <2>5, DownGood DEF Owed
<1>2. CASE Close
  <2>1. /\ pc = "idle" /\ Down(Flush(j).disk) /\ inHeap' = published /\ published' = published
        /\ UNCHANGED <<last, txOf, acked, promised>> /\ acked \subseteq published
        /\ GoodLog(j, Owed, last, promised, unflushed)
    BY <1>2 DEF Close, workVars, GroupInv, Places, Logged, Up
  <2>2. GoodLog(Flush(j), {}, last, promised, 0)
    <3>1. GoodLog(Flush(j), Owed, last, promised, 0)
      BY <2>1, FlushGood
    <3> QED BY <1>0, <3>1, FewerGood
  <2>3. DownOK(Flush(j).disk, {}, last, promised)
    <3>1. 0 < CoalesceN
      BY <1>0, BooksTypes
    <3> QED BY <1>0, <2>2, <3>1, CrashGood
  <2>4. acked \ inHeap' = {}
    BY <2>1
  <2> QED BY <2>1, <2>3, <2>4, DownGood
<1> QED BY <1>1, <1>2

\* Every record that the log gives back is applied.
LEMMA AllReplayed ==
    ASSUME Books, NEW d, NEW P, DownOK(d, Owed, last, P)
    PROVE  /\ \A r \in Owed : Below(d, r, Tip(d)) => r \in Applied(d)
           /\ Applied(d) \subseteq 1 .. last
           /\ \A r \in P \cap Owed : r \in Applied(d)
<1>0. LogOK(d, Tip(d), Owed, last) /\ Owed \subseteq Recs /\ \A r \in Recs : txOf[r] = 0
  BY BooksTypes DEF DownOK, Books
<1>1. \A r \in Owed : Below(d, r, Tip(d)) => r \in Applied(d)
  BY <1>0, Replays
<1>2. ASSUME NEW r \in Applied(d) PROVE r \in 1 .. last
  <2>1. PICK l \in 0 .. Tip(d) - 1 : r \in Recs /\ Carries(d[l].recs, r)
    BY ReplayedWas
  <2>2. ~(r > last)
    BY <1>0, <2>1 DEF LogOK, Numbered
  <2>3. last \in Nat /\ r \in Nat /\ r >= 1
    BY <2>1, BooksTypes DEF Recs
  <2> QED BY <2>2, <2>3
<1>3. \A r \in P \cap Owed : Below(d, r, Tip(d))
  BY DEF DownOK
<1> QED BY <1>1, <1>2, <1>3

LEMMA OpensGood ==
    ASSUME GroupInv, JournalInv', Open
    PROVE  GroupInv'
<1>0. /\ pc = "down" /\ Books /\ BufOK(j) /\ ck.lba \in Nat /\ DownOK(j.disk, Owed, last, promised)
      /\ Placed(j) /\ Drained(j) /\ Still(j) /\ last \in Nat /\ unflushed \in Nat
      /\ UNCHANGED <<flagVars, last, txOf, promised>>
  BY BooksTypes DEF Open, GroupInv, Places, Logged, Gone, JournalInv, Kept, workVars
<1> DEFINE d == j.disk
<1>1. CASE Ruptured(d)
  <2>1. pc' = "refused" /\ UNCHANGED <<j, ck, acked, inHeap, published>>
    BY <1>1 DEF Open
  <2>2. Books' /\ Owed' = Owed
    BY <1>0, <2>1, SameBooks
  <2>3. pc' \in Gone
    BY <2>1 DEF Gone
  <2>4. BufOK(j') /\ DownOK(j'.disk, Owed', last', promised') /\ ck'.lba \in Nat
    BY <1>0, <2>1, <2>2
  <2> QED BY <2>2, <2>3, <2>4, GoesDown
<1>2. CASE ~Ruptured(d)
  <2>1. /\ j' = Scanned(j) /\ published' = inHeap \cup Applied(d) /\ acked' = acked \cap published'
        /\ IF j'.next > 1 THEN StartCheckpoint(j', published', "yes", <<"open">>)
           ELSE pc' = "idle" /\ UNCHANGED <<ck, back, inHeap>>
    BY <1>2 DEF Open
  <2>2. /\ Applied(d) \subseteq 1 .. last /\ \A r \in promised \cap Owed : r \in Applied(d)
    <3> HIDE DEF d
    <3> QED BY <1>0, AllReplayed DEF d
  <2>3. published' \subseteq 1 .. last /\ promised \subseteq acked' /\ acked' \subseteq 1 .. last /\ acked' \subseteq published'
    BY <1>0, <2>1, <2>2 DEF Books, Owed
  <2> HIDE DEF d
  <2>4. ASSUME inHeap' \in {inHeap, published'} PROVE Books'
    <3>1. \A a, b \in acked' : a < b /\ b \in inHeap' => a \in inHeap'
      BY <1>0, <2>1, <2>4 DEF Books
    <3> QED BY <1>0, <2>3, <2>4, <3>1 DEF Books, flagVars
  <2>5. ASSUME NEW Y, Y \subseteq Owed, Y = {} \/ (Tip(d) <= 1 /\ Y \subseteq Applied(d))
        PROVE  GoodLog(j', Y, last', promised', unflushed')
    <3>1. GoodLog(Scanned(j), Y, last, promised, 0)
      BY <1>0, <1>2, <2>5, OpenGood DEF d
    <3>2. GoodLog(Scanned(j), Y, last, promised, unflushed)
      BY <1>0, <3>1, FewerGood
    <3> QED BY <1>0, <2>1, <3>2 DEF flagVars
  <2>6. j'.next = Tip(d) /\ Tip(d) \in Nat
    <3>1. ScannedFrom(Scanned(j), j)
      BY <1>0, ScannedIs DEF Placed
    <3>2. Tip(d) \in 0 .. MaxLBA /\ MaxLBA \in Nat
      BY TipIs, JournalAssumption
    <3> QED BY <2>1, <3>1, <3>2 DEF ScannedFrom, d
  <2>7. CASE j'.next > 1
    <3>1. inHeap' = published' /\ ck'.lba = j'.next /\ ck'.cut = "yes" /\ pc' = "checkpoint" /\ back' = <<"open">>
      BY <2>1, <2>7 DEF StartCheckpoint
    <3>2. Owed' = {}
      BY <2>3, <3>1 DEF Owed
    <3>3. GoodLog(j', {}, last', promised', unflushed')
      BY <2>5
    <3> QED BY <2>3, <2>4, <2>6, <3>1, <3>2, <3>3, GoesToMark1
  <2>8. CASE ~(j'.next > 1)
    <3>1. pc' = "idle" /\ UNCHANGED <<ck, back, inHeap>>
      BY <2>1, <2>8
    <3>2. Tip(d) <= 1 /\ Owed' \subseteq Owed /\ Owed' \subseteq Applied(d)
      BY <2>1, <2>6, <2>8, <3>1 DEF Owed
    <3>3. GoodLog(j', Owed', last', promised', unflushed')
      BY <2>5, <3>2
    <3> QED BY <1>0, <2>3, <2>4, <3>1, <3>3, GoesToIdle
  <2> QED BY <2>7, <2>8
<1> QED BY <1>1, <1>2

LEMMA RepairsGood ==
    ASSUME GroupInv, JournalInv', Repair \/ RepairDone
    PROVE  GroupInv'
<1>0. /\ pc \in Gone /\ pc' \in Gone /\ Books /\ BufOK(j) /\ ck.lba \in Nat /\ Shape(j)
      /\ DownOK(j.disk, Owed, last, promised) /\ (j' = j \/ j' = DevFlush(j)) /\ ck' = ck
      /\ UNCHANGED <<flagVars, last, txOf, acked, promised, inHeap, published>>
  BY DEF Repair, RepairDone, GroupInv, Places, Logged, Gone, JournalInv, Kept, Placed, workVars, bookVars
<1>1. BufOK(j') /\ j'.disk = j.disk
  <2>1. SameBuffers(DevFlush(j), j) /\ DevFlush(j).disk = j.disk
    BY <1>0, DevFlushFields
  <2>2. j'.disk = j.disk /\ j'.qBuf = j.qBuf
    BY <1>0, <2>1 DEF SameBuffers
  <2> QED BY <1>0, <2>2 DEF BufOK
<1>2. Books' /\ Owed' = Owed
  BY <1>0, SameBooks
<1> QED BY <1>0, <1>1, <1>2, GoesDown

LEMMA StepGood == ASSUME Autonomous PROVE GroupInv /\ [Next]_vars /\ ~StaleCheck => GroupInv'
<1> SUFFICES ASSUME GroupInv, [Next]_vars, ~StaleCheck PROVE GroupInv'
  OBVIOUS
<1>0. JournalInv'
  BY StepInv DEF GroupInv
<1>1. CASE UNCHANGED vars
  BY <1>1 DEF GroupInv, JournalInv, BackOK, Opening, OpeningMark, Cutting, Books, Places, Logged, Owed,
              vars, flagVars, workVars, bookVars
<1>2. CASE \E o \in Ops : Put(o)
  BY <1>0, <1>2, PutGood
<1>3. CASE WindowFlush \/ Sync
  BY <1>0, <1>3, FlushesGood
<1>4. CASE Checkpoint \/ PutFull
  BY <1>0, <1>4, CheckpointBegins
<1>5. CASE CheckpointAppend
  BY <1>0, <1>5, MarkOrCut
<1>6. CASE WriteStep
  BY <1>0, <1>6, WriteStepGood
<1>7. CASE TruncateDone
  BY <1>0, <1>7, TruncateDoneGood
<1>8. CASE Crash \/ Close
  BY <1>0, <1>8, StopsGood
<1>9. CASE Open
  BY <1>0, <1>9, OpensGood
<1>10. CASE Repair \/ RepairDone
  BY <1>0, <1>10, RepairsGood
<1>11. CASE BatchBegin \/ BatchAppend \/ BatchFail \/ BatchEnd
  <2>1. pc \notin {"batch", "tx"} /\ "batch" \notin Ops
    BY DEF GroupInv, Places, Up, Gone, Autonomous
  <2> QED BY <1>11, <2>1 DEF BatchBegin, BatchAppend, BatchFail, BatchEnd
<1>12. CASE TxBegin \/ TxAppend \/ TxFull \/ TxCommit \/ TxRollback \/ TxEmptyCommit
  <2>1. pc \notin {"batch", "tx"} /\ {"tx", "emptytx"} \cap Ops = {}
    BY DEF GroupInv, Places, Up, Gone, Autonomous
  <2> QED BY <1>12, <2>1 DEF TxBegin, TxAppend, TxFull, TxCommit, TxRollback, TxEmptyCommit
<1>13. CASE Rest
  BY <1>1, <1>13 DEF Rest
<1> QED BY <1>1, <1>2, <1>3, <1>4, <1>5, <1>6, <1>7, <1>8, <1>9, <1>10, <1>11, <1>12, <1>13 DEF Next

LEMMA StartGood == Init => GroupInv
<1> SUFFICES ASSUME Init PROVE GroupInv
  OBVIOUS
<1> DEFINE T == [l \in LBAs |-> Null]
<1>0. /\ pc = "idle" /\ ck = NoCk /\ acked = {} /\ promised = {} /\ inHeap = {} /\ published = {}
      /\ last = 0 /\ unflushed = 0 /\ groupDepth = 0 /\ txOf = [r \in Recs |-> 0] /\ j = NewWAL
  BY DEF Init
<1>1. CoalesceN \in Nat \ {0} /\ MaxRec \in Nat /\ MaxLBA \in Nat
  BY JournalAssumption
<1>2. JournalInv
  BY InitInv
<1>3. Books
  BY <1>0, <1>1 DEF Books
<1>4. Owed = {} /\ Places
  BY <1>0 DEF Owed, Places, Up, NoCk
<1>5. /\ j.next = 0 /\ j.qCount = 0 /\ j.pending = <<>> /\ j.checkLBA = 0 /\ j.disk = T
      /\ j.alt = [l \in LBAs |-> {Null}] /\ j.qBuf = [i \in 1 .. Quantum |-> Null]
  BY <1>0 DEF NewWAL
<1>6. BufOK(j) /\ Drained(j) /\ Still(j) /\ Placed(j)
  <2> HIDE DEF T
  <2>1. \A l \in LBAs : T[l] = Null
    BY DEF T
  <2> QED BY <1>2, <1>5, <2>1 DEF BufOK, Drained, Still, JournalInv, Kept
<1>7. Settled(T, 0, {}, 0)
  <2>1. \A l \in LBAs : T[l] = Null /\ ~(l < 0)
    BY DEF LBAs
  <2>2. LogOK(T, 0, {}, 0)
    BY DEF LogOK, Ordered, Marked, Numbered, Formed
  <2> QED BY <1>1, <2>1, <2>2 DEF Settled
<1>8. GoodLog(j, {}, 0, {}, 0)
  <2>1. \A l \in LBAs : j.disk[l] = T[l]
    BY <1>5
  <2>2. Unused(T, 0, {}) /\ 0 \in 0 .. 0
    BY DEF Unused
  <2> HIDE DEF T
  <2> QED BY <1>5, <1>6, <1>7, <2>1, <2>2, SettledGood
<1>9. Logged
  BY <1>0, <1>4, <1>8 DEF Logged, Gone
<1> QED BY <1>2, <1>3, <1>4, <1>6, <1>9 DEF GroupInv

LEMMA GroupKeeps == GroupInv => Durable /\ LossBound /\ LosesSuffix
<1> SUFFICES ASSUME GroupInv PROVE Durable /\ LossBound /\ LosesSuffix
  OBVIOUS
<1>0. Books
  BY DEF GroupInv
<1>1. Durable
  BY DEF GroupInv, Books, Places, Up, Gone, Durable, Running
<1> DEFINE d == j.disk
           kept == inHeap \cup Applied(d)
<1>2. ASSUME pc = "down" PROVE DownOK(d, Owed, last, promised)
  BY <1>2 DEF GroupInv, Logged, Gone
<1> HIDE DEF d
<1>3. ASSUME pc = "down" PROVE Cardinality(acked \ kept) < CoalesceN
  <2> DEFINE S == Loose(d, Owed, Tip(d))
             K == acked \ kept
  <2>1. K \subseteq S
    <3>1. \A r \in Owed : Below(d, r, Tip(d)) => r \in Applied(d)
      BY <1>0, <1>2, <1>3, AllReplayed
    <3> QED BY <3>1 DEF Owed, Loose
  <2>2. S \subseteq 1 .. last /\ IsFiniteSet(1 .. last)
    <3>1. Owed \subseteq 1 .. last
      BY <1>0, BooksTypes
    <3>2. IsFiniteSet(1 .. last)
      <4>1. last \in Nat
        BY <1>0, BooksTypes
      <4> QED BY <4>1, FS_Interval
    <3> QED BY <3>1, <3>2 DEF Loose
  <2>3. Cardinality(S) < CoalesceN
    BY <1>2, <1>3 DEF DownOK
  <2>4. CoalesceN \in Nat
    BY JournalAssumption
  <2> HIDE DEF S, K
  <2>5. IsFiniteSet(S)
    BY <2>2, FS_Subset
  <2>6. Cardinality(K) <= Cardinality(S) /\ IsFiniteSet(K)
    BY <2>1, <2>5, FS_Subset
  <2>7. Cardinality(K) \in Nat /\ Cardinality(S) \in Nat
    BY <2>5, <2>6, FS_CardinalityType
  <2>8. Cardinality(K) < CoalesceN
    BY <2>3, <2>4, <2>6, <2>7
  <2> QED BY <2>8 DEF K
<1>4. ASSUME pc = "down", NEW a \in acked, NEW b \in acked, a < b, b \in kept PROVE a \in kept
  <2>1. CASE a \in inHeap \/ b \in inHeap
    BY <1>0, <1>4, <2>1 DEF Books
  <2>2. CASE a \notin inHeap /\ b \notin inHeap
    <3>1. a \in Owed /\ b \in Owed /\ b \in Applied(d)
      BY <1>4, <2>2 DEF Owed
    <3>2. PICK l \in 0 .. Tip(d) - 1 : Carries(d[l].recs, b)
      BY <3>1, ReplayedWas
    <3>3. PICK k \in 0 .. l : Covers(d, a, k)
      BY <1>2, <1>4, <3>1, <3>2 DEF DownOK, LogOK, Ordered
    <3>4. k \in 0 .. Tip(d) - 1
      <4>1. Tip(d) \in 0 .. MaxLBA /\ MaxLBA \in Nat
        BY TipIs, JournalAssumption
      <4> QED BY <4>1
    <3>5. Below(d, a, Tip(d))
      BY <3>3, <3>4 DEF Below
    <3> QED BY <1>0, <1>2, <1>4, <3>1, <3>5, AllReplayed
  <2> QED BY <2>1, <2>2
<1>5. LossBound
  BY <1>3 DEF LossBound, d
<1>6. LosesSuffix
  BY <1>4 DEF LosesSuffix, d
<1> QED BY <1>1, <1>5, <1>6

LEMMA GroupStep ==
    ASSUME Autonomous
    PROVE  GroupInv /\ [Next]_vars /\ [~StaleCheck]_vars => GroupInv'
<1> SUFFICES ASSUME GroupInv, [Next]_vars, [~StaleCheck]_vars PROVE GroupInv'
  OBVIOUS
<1>1. CASE UNCHANGED vars
  <2>1. ~StaleCheck \/ GroupInv'
    BY <1>1 DEF GroupInv, JournalInv, BackOK, Opening, OpeningMark, Cutting, Books, Places, Logged, Owed,
            vars, flagVars, workVars, bookVars
  <2> QED BY <2>1, StepGood
<1>2. CASE ~StaleCheck
  BY <1>2, StepGood
<1> QED BY <1>1, <1>2

\* Group commit: whatever the sizes of the log, the quantum, a pack, a group and a record,
\* with power losses between two steps and repairs, what Sync or CommitImmediate declared
\* durable comes back, fewer acknowledged writes than a group are lost, and they are the
\* latest (engine.go: syncWAL, applyCallDurability, replay; wal.go: Append, Flush,
\* compactTo).  The one step left aside is the stale position of Wal.Checkpoint.
THEOREM GroupCommit ==
    ASSUME Autonomous
    PROVE  Spec /\ [][~StaleCheck]_vars => [](Durable /\ LossBound /\ LosesSuffix)
<1>1. GroupInv /\ [Next]_vars /\ [~StaleCheck]_vars => GroupInv'
  BY GroupStep
<1> QED BY <1>1, StartGood, GroupKeeps, PTL DEF Spec

\* Without a checkpoint that keeps its log, every checkpoint is that of an opening or of
\* Compact, which truncate the whole log.
Cuts == Ops \cap {"checkpoint", "full"} = {}
MarkCuts == pc = "checkpoint" => ck.cut = "yes"

LEMMA StepCuts ==
    ASSUME Autonomous, Cuts
    PROVE  GroupInv /\ MarkCuts /\ [Next]_vars => GroupInv' /\ MarkCuts'
<1> SUFFICES ASSUME GroupInv, MarkCuts, [Next]_vars PROVE GroupInv' /\ MarkCuts'
  OBVIOUS
<1>1. GroupInv'
  <2>1. ~StaleCheck
    BY DEF StaleCheck, MarkCuts
  <2> QED BY <2>1, StepGood
<1> SUFFICES MarkCuts'
  BY <1>1
<1>0. pc \notin {"batch", "tx"} /\ "batch" \notin Ops /\ {"tx", "emptytx"} \cap Ops = {}
  BY DEF GroupInv, Places, Up, Gone, Autonomous
<1>2. CASE UNCHANGED <<pc, ck>>
  BY <1>2 DEF MarkCuts
<1>3. CASE \E o \in Ops : Put(o)
  BY <1>3 DEF Put, AppendTruncates, StartTruncate, MarkCuts
<1>4. CASE Checkpoint \/ PutFull
  <2>1. CASE Checkpoint
    <3>1. PICK o \in {"checkpoint", "compact"} \cap Ops :
             StartCheckpoint(j, published, IF o = "compact" THEN "yes" ELSE "half", <<"idle">>)
      BY <2>1 DEF Checkpoint
    <3>2. o = "compact"
      BY DEF Cuts
    <3>3. ck' = [lba |-> j.next, cut |-> "yes"]
      BY <3>1, <3>2 DEF StartCheckpoint
    <3> QED BY <3>3 DEF MarkCuts
  <2>2. CASE PutFull
    BY <2>2 DEF PutFull, Cuts
  <2> QED BY <1>4, <2>1, <2>2
<1>5. CASE CheckpointAppend
  BY <1>5 DEF CheckpointAppend, AppendTruncates, MarkCuts, GroupInv, Places
<1>6. CASE WriteStep \/ Repair \/ RepairDone
  BY <1>6 DEF WriteStep, Repair, RepairDone, MarkCuts
<1>7. CASE TruncateDone
  <2>1. pc = "truncate" /\ pc' = Head(back) /\ ck' = ck
    BY <1>7 DEF TruncateDone
  <2>2. back = <<"idle">> \/ ck.cut = "yes"
    BY <2>1 DEF GroupInv, Places
  <2>3. Head(<<"idle">>) = "idle"
    BY SingleParts
  <2> QED BY <2>1, <2>2, <2>3 DEF MarkCuts
<1>8. CASE Crash \/ Close
  BY <1>8 DEF Crash, Close, Down, MarkCuts
<1>9. CASE Open
  BY <1>9 DEF Open, StartCheckpoint, MarkCuts
<1>10. CASE BatchBegin \/ BatchAppend \/ BatchFail \/ BatchEnd
  BY <1>0, <1>10 DEF BatchBegin, BatchAppend, BatchFail, BatchEnd
<1>11. CASE TxBegin \/ TxAppend \/ TxFull \/ TxCommit \/ TxRollback \/ TxEmptyCommit
  BY <1>0, <1>11 DEF TxBegin, TxAppend, TxFull, TxCommit, TxRollback, TxEmptyCommit
<1>12. CASE WindowFlush \/ Sync \/ Rest \/ UNCHANGED vars
  BY <1>2, <1>12 DEF WindowFlush, Sync, Rest, vars
<1> QED BY <1>3, <1>4, <1>5, <1>6, <1>7, <1>8, <1>9, <1>10, <1>11, <1>12 DEF Next

\* The same with no step left aside, when only openings and Compact post checkpoints.
THEOREM GroupCommitCuts ==
    ASSUME Autonomous, Cuts
    PROVE  Spec => [](Durable /\ LossBound /\ LosesSuffix)
<1>1. Init => MarkCuts
  BY DEF Init, MarkCuts
<1> QED BY <1>1, StepCuts, StartGood, GroupKeeps, PTL DEF Spec

-----------------------------------------------------------------------------
(* The device of the configuration.                                        *)

\* The behaviours of the runs that have no other device.
OneDevice == Devices = {"own"}

OwnVars == <<vars, device>>
MCInv == device = "own" /\ JournalInv
MCGroup == device = "own" /\ GroupInv

LEMMA OwnStep == device = "own" /\ [MCNext]_OwnVars => device' = "own" /\ [Next]_vars
BY DEF OwnVars, MCNext, OwnNext, SmallNext, CutNext

LEMMA OwnStart == ASSUME OneDevice PROVE MCInit => device = "own" /\ Init
BY DEF OneDevice, MCInit

LEMMA MCStep == MCInv /\ [MCNext]_OwnVars => MCInv' /\ [RepairKeepsCutStep]_vars
BY OwnStep, StepInv DEF MCInv

\* Whatever the sizes and the workload, the open pack can always be written and the quantum
\* buffer has its place (wal.go: flushPending, writeOne, compactTo).
THEOREM PackFitsMC == ASSUME OneDevice PROVE MCSpec => []PackPlaced
<1>1. MCInit => MCInv
  BY OwnStart, InitInv DEF MCInv
<1>2. MCInv /\ [MCNext]_OwnVars => MCInv'
  BY MCStep
<1>3. MCInv => PackPlaced
  BY InvIs DEF MCInv, PackPlaced
<1> QED BY <1>1, <1>2, <1>3, PTL DEF MCSpec, OwnVars

\* Whatever the sizes and the workload, a repair never moves the cut (wal_repair.go:
\* analyzeRepair, repairMedianRupture).
THEOREM CutStandsMC == ASSUME OneDevice PROVE MCSpec => CutKept
<1> DEFINE Step == /\ device = "own" => RepairKeepsCutStep
                   /\ device = "small" => Small!RepairKeepsCutStep
<1>1. MCInit => MCInv
  BY OwnStart, InitInv DEF MCInv
<1>2. MCInv /\ [MCNext]_OwnVars => MCInv'
  BY MCStep
<1>3. MCInv /\ [MCNext]_OwnVars => [Step]_OwnVars
  <2> SUFFICES ASSUME MCInv, [MCNext]_OwnVars PROVE [Step]_OwnVars
    OBVIOUS
  <2>1. device = "own" /\ device' = "own" /\ [RepairKeepsCutStep]_vars
    BY MCStep, OwnStep DEF MCInv
  <2> QED BY <2>1 DEF OwnVars
<1> QED BY <1>1, <1>2, <1>3, PTL DEF MCSpec, CutKept, OwnVars

LEMMA GroupMC ==
    ASSUME Autonomous, OneDevice
    PROVE  MCSpec /\ [][~StaleCheck]_vars => []MCGroup
<1>1. MCInit => MCGroup
  BY OwnStart, StartGood DEF MCGroup
<1>2. MCGroup /\ [MCNext]_OwnVars /\ [~StaleCheck]_vars => MCGroup'
  <2> SUFFICES ASSUME MCGroup, [MCNext]_OwnVars, [~StaleCheck]_vars PROVE MCGroup'
    OBVIOUS
  <2>1. device' = "own" /\ [Next]_vars /\ GroupInv
    BY OwnStep DEF MCGroup
  <2> QED BY <2>1, GroupStep DEF MCGroup
<1> QED BY <1>1, <1>2, PTL DEF MCSpec, OwnVars

\* Whatever the sizes, what Sync, a flush or CommitImmediate declared durable comes back
\* after a power loss outside a truncation, a repair and a reopening (engine.go: syncBarrier,
\* applyCallDurability, replay).
THEOREM PromisesKeptMC ==
    ASSUME Autonomous, OneDevice
    PROVE  MCSpec /\ [][~StaleCheck]_vars => []DurableKept
<1>1. MCGroup => DurableKept
  BY GroupKeeps DEF MCGroup, DurableKept
<1> QED BY <1>1, GroupMC, PTL

\* Whatever the sizes, a stop loses fewer acknowledged writes than a group, and the latest
\* (engine.go: syncWAL, replay).
THEOREM LossesMC ==
    ASSUME Autonomous, OneDevice
    PROVE  MCSpec /\ [][~StaleCheck]_vars => []LossIsTail
<1>1. MCGroup => LossIsTail
  BY GroupKeeps DEF MCGroup, LossIsTail
<1> QED BY <1>1, GroupMC, PTL
=============================================================================
