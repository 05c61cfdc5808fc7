--------------------------- MODULE LiveHeapProofs ---------------------------
(***************************************************************************)
(* Types, reference counts and snapshot isolation of LiveHeap, for every   *)
(* workload and every value of the constants.                              *)
(***************************************************************************)
EXTENDS LiveHeap, FiniteSetTheorems, TLAPS

-----------------------------------------------------------------------------
(* Types                                                                   *)

\* TypeOK is not inductive alone: publish() needs a descriptor behind live, and
\* a rebuild returns to an operation of the workload.
TypeInv ==
    /\ TypeOK
    /\ live = NoHeap => wpc = "closed"
    /\ op = "rebuild-put" => "put" \in Ops
    /\ op = "rebuild-tx" => "tx" \in Ops

LEMMA TypeInit == Init => TypeInv
<1> SUFFICES ASSUME Init PROVE TypeInv
  OBVIOUS
<1> USE LiveHeapAssumption
<1>1. [p \in Pages |-> 0] \in Images
  BY DEF Images
<1>2. DescTypes
  BY <1>1 DEF Init, DescTypes, Descs
<1>3. ReaderTypes
  BY DEF Init, ReaderTypes, Descs
<1>4. BufTypes
  BY <1>1 DEF Init, BufTypes
<1>5. WriterTypes
  BY DEF Init, WriterTypes, Descs
<1> QED BY <1>2, <1>3, <1>4, <1>5 DEF Init, TypeInv, TypeOK, NoHeap

LEMMA TypeReader ==
    ASSUME TypeInv, NEW r \in Readers, ReaderNext(r)
    PROVE  TypeInv'
<1> USE DEF TypeInv, TypeOK
<1>1. UNCHANGED <<live, desc, bufVars, writerVars>>
  BY DEF ReaderNext, PinLoad, PinRefused, PinAdd, PinCheck, PinRetry, Unpin, CursorOnView, vars
<1>2. DescTypes'
  BY <1>1 DEF DescTypes, ReaderTypes, ReaderNext, PinLoad, PinRefused, PinAdd, PinCheck, PinRetry, Unpin,
              CursorOnView, AddRef, vars
<1>3. ReaderTypes'
  <2> USE DEF ReaderTypes
  <2>1. CASE PinLoad(r) BY <2>1 DEF PinLoad, DescTypes
  <2>2. CASE PinRefused(r) BY <2>2 DEF PinRefused, vars, readerVars
  <2>3. CASE PinAdd(r) BY <2>3 DEF PinAdd
  <2>4. CASE PinCheck(r) BY <2>4 DEF PinCheck
  <2>5. CASE PinRetry(r) BY <2>5, LiveHeapAssumption DEF PinRetry, Descs
  <2>6. CASE Unpin(r) BY <2>6, LiveHeapAssumption DEF Unpin, Descs
  <2>7. CASE \E v \in Readers : CursorOnView(v, r) BY <2>7 DEF CursorOnView
  <2> QED BY <2>1, <2>2, <2>3, <2>4, <2>5, <2>6, <2>7 DEF ReaderNext
<1>4. BufTypes'
  BY <1>1 DEF BufTypes, bufVars
<1>5. WriterTypes'
  BY <1>1 DEF WriterTypes, bufVars, writerVars
<1> QED BY <1>1, <1>2, <1>3, <1>4, <1>5 DEF writerVars

LEMMA ImageConverged ==
    ASSUME BufTypes, NEW b \in Bufs, NEW from \in Images
    PROVE  Converged(b, from) \in Images
BY DEF BufTypes, Converged, Images

\* Every writer step but a swap leaves the descriptors alone.
LEMMA TypeDesc ==
    ASSUME TypeInv, WriterNext
    PROVE  DescTypes'
<1>1. CASE PublishSwap
  <2>1. stamp + 1 \in Descs /\ heapRoot \in Nat
    BY <1>1, LiveHeapAssumption DEF PublishSwap, CanWrite, TypeInv, TypeOK, WriterTypes, Descs
  <2>2. heap[dirty] \in Images
    BY DEF TypeInv, TypeOK, BufTypes
  <2>3. [heap[dirty] EXCEPT ![Header] = stamp + 1] \in Images
    BY <2>1, <2>2 DEF Images, Descs
  <2> QED BY <1>1, <2>1, <2>3 DEF PublishSwap, Fresh, TypeInv, TypeOK, DescTypes, BufTypes
<1>2. CASE Close
  BY <1>2 DEF Close, TypeInv, TypeOK, DescTypes
<1>3. CASE ~PublishSwap /\ ~Close
  BY <1>3 DEF TypeInv, TypeOK, DescTypes, WriterNext, BeginPut, BeginUnprepared, ReapKeep, ReapFree, PrepareRefused, PrepareOk,
     Prepare, WritePage, Abandon, HeapFullNoRoom, HeapFull, Repack, CompactInPlace, CompactNoRepack, StartPublish,
     StartCommit, ReapAgain, PublishRefused, PublishPoison, PublishHold, PublishNoBuffer, PublishUnpinned, PublishReuse
<1> QED BY <1>1, <1>2, <1>3

LEMMA TypeBuf ==
    ASSUME TypeInv, WriterNext
    PROVE  BufTypes'
<1> USE DEF TypeInv, TypeOK
<1>a. heap[pub] \in Images /\ heap[dirty] \in Images
  BY DEF BufTypes
<1>b. Converged(dirty, heap[pub]) \in Images
  BY <1>a, ImageConverged DEF BufTypes
<1>c. CanWrite => Fresh \in 0 .. MaxStamp
  BY LiveHeapAssumption DEF CanWrite, Fresh, WriterTypes
<1>d. [p \in Pages |-> 0] \in Images /\ (CanWrite => [p \in Pages |-> Fresh] \in Images)
  BY <1>c, LiveHeapAssumption DEF Images
<1>e. ASSUME CanWrite, NEW img \in Images, NEW p \in Pages
      PROVE  [img EXCEPT ![p] = Fresh] \in Images
  BY <1>c, <1>e DEF Images
<1>f. \A d \in Descs : BufOf(d) \in Bufs
  BY DEF DescTypes, BufOf
<1> USE DEF BufTypes, bufVars
<1>1. CASE BeginPut BY <1>1 DEF BeginPut
<1>2. CASE \E o \in {"tx", "mut"} : BeginUnprepared(o) BY <1>2 DEF BeginUnprepared
<1>3. CASE \E h \in holds : ReapKeep(h) BY <1>3 DEF ReapKeep
<1>4. CASE \E h \in holds : ReapFree(h) BY <1>4, <1>f DEF ReapFree, WriterTypes
<1>5. CASE PrepareRefused BY <1>5, <1>b DEF PrepareRefused
<1>6. CASE PrepareOk BY <1>6, <1>d DEF PrepareOk, Prepare, Unmapped
<1>7. CASE \E p \in Pages : WritePage(p)
  <2> PICK p \in Pages : WritePage(p)
    BY <1>7
  <2>1. heap' = [heap EXCEPT ![dirty] = [heap[dirty] EXCEPT ![p] = Fresh]]
    BY DEF WritePage
  <2> QED BY <2>1, <1>a, <1>e DEF WritePage
<1>8. CASE Abandon BY <1>8, <1>b DEF Abandon
<1>9. CASE HeapFullNoRoom BY <1>9, <1>b DEF HeapFullNoRoom
<1>10. CASE HeapFull BY <1>10, <1>d DEF HeapFull, Rebuilt, Unmapped
<1>11. CASE Repack BY <1>11, <1>d DEF Repack, Rebuilt, Unmapped
<1>12. CASE \E p \in Pages : CompactInPlace(p)
  <2> PICK p \in Pages : CompactInPlace(p)
    BY <1>12
  <2>1. heap' = [heap EXCEPT ![pub] = [heap[pub] EXCEPT ![p] = Fresh]]
    BY DEF CompactInPlace
  <2> QED BY <2>1, <1>a, <1>e DEF CompactInPlace
<1>13. CASE StartPublish BY <1>13 DEF StartPublish
<1>14. CASE StartCommit BY <1>14 DEF StartCommit
<1>15. CASE ReapAgain BY <1>15 DEF ReapAgain
<1>16. CASE PublishRefused BY <1>16 DEF PublishRefused
<1>17. CASE PublishPoison BY <1>17 DEF PublishPoison
<1>18. CASE PublishSwap BY <1>18, <1>a, <1>e, LiveHeapAssumption DEF PublishSwap
<1>19. CASE PublishHold BY <1>19, <1>a DEF PublishHold, Unmapped
<1>20. CASE PublishNoBuffer BY <1>20 DEF PublishNoBuffer
<1>21. CASE PublishUnpinned BY <1>21 DEF PublishUnpinned
<1>22. CASE PublishReuse
  <2>1. \A b \in Bufs : Converged(b, heap[pub]) \in Images
    BY <1>a, ImageConverged
  <2> QED BY <1>22, <2>1 DEF PublishReuse, Unmapped
<1>23. CASE Close BY <1>23 DEF Close
<1>24. CASE CompactNoRepack BY <1>24 DEF CompactNoRepack, bufVars
<1> QED BY <1>1, <1>2, <1>3, <1>4, <1>5, <1>6, <1>7, <1>8, <1>9, <1>10, <1>11, <1>12, <1>13,
           <1>14, <1>15, <1>16, <1>17, <1>18, <1>19, <1>20, <1>21, <1>22, <1>23, <1>24 DEF WriterNext

\* The writer's own variables, with the part of TypeInv that is about them.
LEMMA TypeWriter ==
    ASSUME TypeInv, WriterNext
    PROVE  /\ WriterTypes'
           /\ (op = "rebuild-put" => "put" \in Ops)'
           /\ (op = "rebuild-tx" => "tx" \in Ops)'
           /\ (live = NoHeap => wpc = "closed")'
<1> USE LiveHeapAssumption DEF TypeInv, TypeOK, WriterTypes, Descs, NoHeap
<1> USE DEF Return, ReturnToCaller, PublishFails, AfterPublish, CanWrite, Fresh
<1>1. CASE BeginPut BY <1>1 DEF BeginPut, bufVars
<1>2. CASE \E o \in {"tx", "mut"} : BeginUnprepared(o) BY <1>2 DEF BeginUnprepared, bufVars
<1>3. CASE \E h \in holds : ReapKeep(h) BY <1>3 DEF ReapKeep, bufVars
<1>4. CASE \E h \in holds : ReapFree(h) BY <1>4 DEF ReapFree
<1>5. CASE PrepareRefused BY <1>5 DEF PrepareRefused
<1>6. CASE PrepareOk BY <1>6 DEF PrepareOk, Prepare
<1>7. CASE \E p \in Pages : WritePage(p) BY <1>7 DEF WritePage
<1>8. CASE Abandon BY <1>8 DEF Abandon
<1>9. CASE HeapFullNoRoom BY <1>9 DEF HeapFullNoRoom, writerVars
<1>10. CASE HeapFull BY <1>10 DEF HeapFull, Rebuilt
<1>11. CASE Repack BY <1>11 DEF Repack, Rebuilt
<1>12. CASE \E p \in Pages : CompactInPlace(p) BY <1>12 DEF CompactInPlace
<1>13. CASE StartPublish BY <1>13 DEF StartPublish, bufVars
<1>14. CASE StartCommit BY <1>14 DEF StartCommit, bufVars
<1>15. CASE ReapAgain BY <1>15 DEF ReapAgain, bufVars
<1>16. CASE PublishRefused BY <1>16 DEF PublishRefused, bufVars
<1>17. CASE PublishPoison BY <1>17 DEF PublishPoison, bufVars
<1>18. CASE PublishSwap
  <2>1. live \in Descs
    BY <1>18 DEF PublishSwap, DescTypes
  <2> QED BY <1>18, <2>1 DEF PublishSwap
<1>19. CASE PublishHold BY <1>19 DEF PublishHold
<1>20. CASE PublishNoBuffer
  <2>1. wpc # "closed" /\ PublishFails /\ UNCHANGED <<live, holds, heapRoot, stamp>> /\ lost' \subseteq Descs
    BY <1>20 DEF PublishNoBuffer, bufVars
  <2>2. CASE op = "rebuild-tx"
    <3>1. op' = "tx" /\ "tx" \in Ops /\ wpc' = "write" /\ old' = 0 /\ toReap' = toReap /\ initRoot' = initRoot
      BY <2>1, <2>2
    <3>2. live # NoHeap
      BY <2>1
    <3> QED BY <3>1, <3>2, <2>1
  <2>3. CASE op = "tx"
    <3>1. wpc' = "poisoned" /\ UNCHANGED <<op, initRoot, toReap, old>>
      BY <2>1, <2>3
    <3>2. live # NoHeap
      BY <2>1
    <3> QED BY <3>1, <3>2, <2>1
  <2>4. CASE op \notin {"tx", "rebuild-tx"}
    <3>1. Return
      BY <2>1, <2>4
    <3>2. live # NoHeap
      BY <2>1
    <3> QED BY <3>1, <3>2, <2>1
  <2> QED BY <2>2, <2>3, <2>4
<1>21. CASE PublishUnpinned BY <1>21 DEF PublishUnpinned, bufVars
<1>22. CASE PublishReuse BY <1>22 DEF PublishReuse
<1>23. CASE Close BY <1>23 DEF Close
<1>24. CASE CompactNoRepack BY <1>24 DEF CompactNoRepack, bufVars
<1> QED BY <1>1, <1>2, <1>3, <1>4, <1>5, <1>6, <1>7, <1>8, <1>9, <1>10, <1>11, <1>12, <1>13,
           <1>14, <1>15, <1>16, <1>17, <1>18, <1>19, <1>20, <1>21, <1>22, <1>23, <1>24 DEF WriterNext

LEMMA TypeNext == TypeInv /\ [Next]_vars => TypeInv'
<1> SUFFICES ASSUME TypeInv, [Next]_vars PROVE TypeInv'
  OBVIOUS
<1>1. CASE \E r \in Readers : ReaderNext(r)
  BY <1>1, TypeReader
<1>2. CASE WriterNext
  <2>1. ReaderTypes'
    BY <1>2 DEF TypeInv, TypeOK, ReaderTypes, WriterNext, readerVars, BeginPut, BeginUnprepared, ReapKeep, ReapFree,
       PrepareRefused, PrepareOk, Prepare, WritePage, Abandon, HeapFullNoRoom, HeapFull, Repack, CompactInPlace,
       CompactNoRepack, StartPublish, StartCommit, ReapAgain, PublishRefused, PublishPoison, PublishSwap, PublishHold,
       PublishNoBuffer, PublishUnpinned, PublishReuse, Close
  <2> QED BY <1>2, <2>1, TypeDesc, TypeBuf, TypeWriter DEF TypeInv, TypeOK
<1>3. CASE UNCHANGED vars
  BY <1>3 DEF vars, readerVars, bufVars, writerVars, TypeInv, TypeOK, DescTypes, ReaderTypes, BufTypes, WriterTypes
<1> QED BY <1>1, <1>2, <1>3 DEF Next

\* Every reachable state is well typed: in particular publish() never swaps from a
\* nil pointer, whatever operations run and wherever they fail.
THEOREM TypeCorrect == Spec => []TypeOK
<1>1. TypeInv => TypeOK
  BY DEF TypeInv
<1> QED BY <1>1, TypeInit, TypeNext, PTL DEF Spec

-----------------------------------------------------------------------------
(* Reference counts                                                        *)

LEMMA PinnersFinite == \A d \in Descs : IsFiniteSet(PinnersOf(d))
BY LiveHeapAssumption, FS_Subset DEF PinnersOf

\* One reader more, or one less, among those that count for a descriptor.
LEMMA PinnerAdded ==
    ASSUME TypeOK, RefsExact, NEW r \in Readers, NEW e \in Descs, rpc[r] \notin {"pinned", "stale", "reading"},
           AddRef(e, 1),
           \A d \in Descs : PinnersOf(d)' = IF d = e THEN PinnersOf(d) \cup {r} ELSE PinnersOf(d)
    PROVE  RefsExact'
<1> SUFFICES ASSUME NEW d \in Descs PROVE refs'[d] = Cardinality(PinnersOf(d)')
  BY DEF RefsExact, Descs
<1>1. refs[d] = Cardinality(PinnersOf(d)) /\ refs[d] \in Int
  BY DEF RefsExact, TypeOK, DescTypes
<1>2. CASE d = e
  <2>1. Cardinality(PinnersOf(d) \cup {r}) = Cardinality(PinnersOf(d)) + 1
    BY PinnersFinite, FS_AddElement DEF PinnersOf
  <2> QED BY <1>1, <1>2, <2>1 DEF AddRef, TypeOK, DescTypes
<1>3. CASE d # e
  BY <1>1, <1>3 DEF AddRef, TypeOK, DescTypes
<1> QED BY <1>2, <1>3

LEMMA PinnerRemoved ==
    ASSUME TypeOK, RefsExact, NEW r \in Readers, rpc[r] \in {"stale", "reading"},
           AddRef(rd[r], -1), rpc' = [rpc EXCEPT ![r] = "idle"], rd' = [rd EXCEPT ![r] = 0]
    PROVE  RefsExact'
<1> SUFFICES ASSUME NEW d \in Descs PROVE refs'[d] = Cardinality(PinnersOf(d)')
  BY DEF RefsExact, Descs
<1>1. refs[d] = Cardinality(PinnersOf(d)) /\ refs[d] \in Int /\ rd[r] \in Descs
  BY DEF RefsExact, TypeOK, DescTypes, ReaderTypes
<1>2. CASE d = rd[r]
  <2>1. r \in PinnersOf(d) /\ PinnersOf(d)' = PinnersOf(d) \ {r}
    BY <1>2 DEF PinnersOf, TypeOK, ReaderTypes
  <2>2. Cardinality(PinnersOf(d) \ {r}) = Cardinality(PinnersOf(d)) - 1
    BY <2>1, PinnersFinite, FS_RemoveElement
  <2> QED BY <1>1, <1>2, <2>1, <2>2 DEF AddRef, TypeOK, DescTypes
<1>3. CASE d # rd[r]
  <2>1. PinnersOf(d)' = PinnersOf(d)
    BY <1>3 DEF PinnersOf, TypeOK, ReaderTypes
  <2> QED BY <1>1, <1>3, <2>1 DEF AddRef, TypeOK, DescTypes
<1> QED BY <1>2, <1>3

LEMMA WriterLeavesReaders == WriterNext => UNCHANGED <<refs, rpc, rd>>
BY DEF WriterNext, readerVars, BeginPut, BeginUnprepared, ReapKeep, ReapFree,
       PrepareRefused, PrepareOk, Prepare, WritePage, Abandon, HeapFullNoRoom, HeapFull, Repack, CompactInPlace,
       CompactNoRepack, StartPublish, StartCommit, ReapAgain, PublishRefused, PublishPoison, PublishSwap, PublishHold,
       PublishNoBuffer, PublishUnpinned, PublishReuse, Close

LEMMA RefsSame ==
    ASSUME RefsExact, UNCHANGED refs, \A d \in Descs : PinnersOf(d)' = PinnersOf(d)
    PROVE  RefsExact'
BY DEF RefsExact, Descs

LEMMA RefsNext == TypeOK /\ RefsExact /\ [Next]_vars => RefsExact'
<1> SUFFICES ASSUME TypeOK, RefsExact, [Next]_vars PROVE RefsExact'
  OBVIOUS
<1>1. ASSUME NEW r \in Readers, ReaderNext(r) PROVE RefsExact'
  <2>1. CASE PinLoad(r)
    <3>1. \A d \in Descs : PinnersOf(d)' = PinnersOf(d)
      BY <2>1 DEF PinLoad, PinnersOf, TypeOK, ReaderTypes
    <3> QED BY <2>1, <3>1, RefsSame DEF PinLoad
  <2>2. CASE PinRefused(r)
    BY <2>2, RefsSame DEF PinRefused, vars, readerVars, PinnersOf
  <2>3. CASE PinAdd(r)
    <3>1. \A d \in Descs : PinnersOf(d)' = IF d = rd[r] THEN PinnersOf(d) \cup {r} ELSE PinnersOf(d)
      BY <2>3 DEF PinAdd, PinnersOf, TypeOK, ReaderTypes
    <3> QED BY <2>3, <3>1, PinnerAdded DEF PinAdd, TypeOK, ReaderTypes
  <2>4. CASE PinCheck(r)
    <3>1. \A d \in Descs : PinnersOf(d)' = PinnersOf(d)
      BY <2>4 DEF PinCheck, PinnersOf, TypeOK, ReaderTypes
    <3> QED BY <2>4, <3>1, RefsSame DEF PinCheck
  <2>5. CASE PinRetry(r)
    BY <2>5, PinnerRemoved DEF PinRetry
  <2>6. CASE Unpin(r)
    BY <2>6, PinnerRemoved DEF Unpin
  <2>7. CASE \E v \in Readers : CursorOnView(v, r)
    <3> PICK v \in Readers : CursorOnView(v, r)
      BY <2>7
    <3>1. \A d \in Descs : PinnersOf(d)' = IF d = rd[v] THEN PinnersOf(d) \cup {r} ELSE PinnersOf(d)
      BY DEF CursorOnView, PinnersOf, TypeOK, ReaderTypes
    <3> QED BY <3>1, PinnerAdded DEF CursorOnView, TypeOK, ReaderTypes
  <2> QED BY <1>1, <2>1, <2>2, <2>3, <2>4, <2>5, <2>6, <2>7 DEF ReaderNext
<1>2. CASE UNCHANGED <<refs, rpc, rd>>
  BY <1>2, RefsSame DEF PinnersOf
<1> QED BY <1>1, <1>2, WriterLeavesReaders DEF Next, vars, readerVars

LEMMA RefsInit == Init => RefsExact
<1> SUFFICES ASSUME Init, NEW d \in Descs PROVE refs[d] = Cardinality(PinnersOf(d))
  BY DEF RefsExact
<1>1. PinnersOf(d) = {}
  BY DEF Init, PinnersOf
<1> QED BY <1>1, FS_EmptySet DEF Init

\* No reference is ever lost or counted twice, under every workload, although a
\* pin is three separate atomic operations and may be retried: refs is exactly
\* the number of readers between their increment and their decrement.
THEOREM RefsCounted == Spec => []RefsExact
<1>1. TypeInv => TypeOK
  BY DEF TypeInv
<1> QED BY <1>1, TypeInit, TypeNext, RefsInit, RefsNext, PTL DEF Spec

\* A reader that counts for a descriptor keeps its count from being 0.
LEMMA PinnedCounts ==
    ASSUME TypeOK, RefsExact, NEW r \in Readers, rpc[r] \in {"pinned", "stale", "reading"}
    PROVE  refs[rd[r]] # 0
<1>1. rd[r] \in Descs /\ r \in PinnersOf(rd[r])
  BY DEF TypeOK, ReaderTypes, PinnersOf
<1>2. Cardinality(PinnersOf(rd[r])) # 0
  BY <1>1, PinnersFinite, FS_EmptySet
<1> QED BY <1>1, <1>2 DEF RefsExact

-----------------------------------------------------------------------------
(***************************************************************************)
(* Snapshot isolation of pinned heaps, for every number of readers,        *)
(* buffers and pages, every ceiling and every bound.                       *)
(*                                                                         *)
(* The argument: a reader that passed the second look of pinLive holds the *)
(* current descriptor, or one that publish() has just swapped out and has  *)
(* not yet disposed of, or one in holdHeaps; each of these owns its buffer *)
(* alone; and the writer only ever recycles or unmaps the buffer of a      *)
(* descriptor whose reference count it saw at 0, which is then a           *)
(* descriptor nobody reads.                                                *)
(***************************************************************************)

Swapping == wpc \in {"swapped", "reuse"}

\* The shard is open and every publication so far found its next work buffer.
Intact == wpc # "closed" /\ lost = {}

\* Descriptors in use have been published.
Numbered ==
    /\ live \in 0 .. stamp /\ old \in 0 .. stamp
    /\ \A r \in Readers : rd[r] \in 0 .. stamp
    /\ \A h \in holds : h \in 0 .. stamp

\* Each buffer has one owner.
OneOwner ==
    /\ pub = BufOf(live) /\ live \notin holds
    /\ spare \notin {pub, dirty}
    /\ \A h \in holds : BufOf(h) \notin {pub, dirty, spare}
    /\ \A g, h \in holds : BufOf(g) = BufOf(h) => g = h
    /\ IF Swapping
       THEN /\ dirty = pub /\ old \notin holds /\ old # live
            /\ BufOf(old) \notin {pub, spare}
            /\ \A h \in holds : BufOf(h) # BufOf(old)
       ELSE dirty # pub

\* Where a descriptor that is read can be.
ReadersCovered ==
    \A r \in Readers : rpc[r] = "reading" =>
        \/ rd[r] = live
        \/ rd[r] \in holds
        \/ wpc = "swapped" /\ rd[r] = old

Ownership == Numbered /\ OneOwner /\ mapped = Owned /\ ReadersCovered

\* The inductive invariant of every workload.
IInv == TypeInv /\ RefsExact /\ (Intact => Ownership)

LEMMA IInvInit == Init => IInv
<1> SUFFICES ASSUME Init PROVE IInv
  OBVIOUS
<1>1. 0 \in Descs
  BY LiveHeapAssumption DEF Descs
<1>2. Numbered /\ OneOwner /\ mapped = Owned
  BY <1>1, LiveHeapAssumption DEF Init, Numbered, OneOwner, Owned, Swapping, BufOf
<1>3. ReadersCovered
  BY DEF Init, ReadersCovered
<1> QED BY <1>2, <1>3, TypeInit, RefsInit DEF IInv, Ownership

\* A reader moves from nothing to live, or to what another reader reads.
LEMMA OwnReader ==
    ASSUME TypeInv, Ownership, NEW r \in Readers, ReaderNext(r)
    PROVE  Ownership'
<1> USE DEF TypeInv, TypeOK, Ownership
<1>1. UNCHANGED <<live, desc, bufVars, writerVars>>
  BY DEF ReaderNext, PinLoad, PinRefused, PinAdd, PinCheck, PinRetry, Unpin, CursorOnView, vars
<1>2. \A q \in Readers : rd'[q] \in 0 .. stamp
  <2>1. live \in 0 .. stamp /\ 0 \in 0 .. stamp /\ \A q \in Readers : rd[q] \in 0 .. stamp
    BY DEF Numbered, WriterTypes
  <2> QED BY <2>1 DEF ReaderNext, PinLoad, PinRefused, PinAdd, PinCheck, PinRetry, Unpin, CursorOnView, vars, readerVars,
         Numbered, ReaderTypes
<1>3. (Numbered /\ OneOwner /\ mapped = Owned)'
  BY <1>1, <1>2 DEF Numbered, OneOwner, Swapping, Owned, BufOf, bufVars, writerVars
<1>4. \A q \in Readers : rpc'[q] = "reading" =>
          \/ rpc[q] = "reading" /\ rd'[q] = rd[q]
          \/ rd'[q] = live
          \/ \E v \in Readers : rpc[v] = "reading" /\ rd'[q] = rd[v]
  BY DEF ReaderNext, PinLoad, PinRefused, PinAdd, PinCheck, PinRetry, Unpin, CursorOnView, vars, readerVars,
         ReaderTypes
<1>5. ReadersCovered'
  BY <1>1, <1>4 DEF ReadersCovered, bufVars, writerVars
<1> QED BY <1>3, <1>5

\* A step that moves the writer, or writes pages, without touching the buffers'
\* owners keeps the ownership.
LEMMA OwnKept ==
    ASSUME Ownership, ~Swapping, ~Swapping', old' \in {old, 0},
           stamp \in Nat, stamp' \in {stamp, stamp + 1},
           UNCHANGED <<live, desc, pub, dirty, spare, holds, mapped, rpc, rd>>
    PROVE  Ownership'
BY DEF Ownership, Numbered, OneOwner, Owned, ReadersCovered, Swapping, BufOf

\* A heap rebuilt in a new buffer: the work buffer is replaced, its owner too.
LEMMA OwnRebuilt ==
    ASSUME TypeInv, Ownership, ~Swapping, NEW b \in Bufs, Rebuilt(b, op'),
           UNCHANGED <<live, desc, pub, spare, holds, old, rpc, rd>>
    PROVE  Ownership'
<1> USE LiveHeapAssumption DEF TypeInv, TypeOK, Ownership
<1>1. wpc' = "reap" /\ stamp' = stamp + 1 /\ stamp \in Nat
  BY DEF Rebuilt, Fresh, WriterTypes
<1>2. b \notin mapped /\ dirty' = b /\ mapped' = (mapped \ {dirty}) \cup {b}
  BY DEF Rebuilt, Unmapped, OneOwner, BufTypes
<1>3. Numbered'
  BY <1>1 DEF Numbered
<1>4. pub # b /\ spare # b /\ \A h \in holds : BufOf(h) # b
  BY <1>2 DEF Owned, BufTypes
<1>5. OneOwner'
  BY <1>1, <1>2, <1>4 DEF OneOwner, Swapping, BufOf
<1>6. (mapped = Owned)'
  BY <1>1, <1>2, <1>4 DEF OneOwner, Owned, Swapping, BufOf
<1>7. ReadersCovered'
  BY <1>1 DEF ReadersCovered, Swapping
<1> QED BY <1>3, <1>5, <1>6, <1>7

\* The swap: dirty becomes pub, and the old descriptor is for publish() to place.
LEMMA OwnSwap ==
    ASSUME TypeInv, Ownership, PublishSwap, UNCHANGED <<rpc, rd>>
    PROVE  Ownership'
<1> USE LiveHeapAssumption DEF TypeInv, TypeOK, Ownership
<1>1. /\ wpc = "reap" /\ wpc' = "swapped" /\ stamp' = stamp + 1 /\ live' = stamp + 1 /\ stamp \in Nat
      /\ stamp + 1 \in Descs /\ old' = live /\ pub' = dirty
      /\ UNCHANGED <<dirty, spare, holds, mapped>>
  <2>1. stamp \in Nat /\ stamp + 1 \in Descs
    BY DEF PublishSwap, CanWrite, WriterTypes, Descs
  <2> QED BY <2>1 DEF PublishSwap, Fresh
<1>2. desc'[stamp + 1].buf = dirty /\ \A d \in 0 .. stamp : desc'[d] = desc[d]
  BY <1>1 DEF PublishSwap, Fresh, DescTypes, Descs
<1>3. live \in 0 .. stamp /\ (\A h \in holds : h \in 0 .. stamp) /\ stamp + 1 \notin 0 .. stamp
  BY <1>1 DEF Numbered
<1>4. Numbered'
  BY <1>1 DEF Numbered
<1>5. OneOwner'
  BY <1>1, <1>2, <1>3 DEF OneOwner, Swapping, BufOf
<1>6. (mapped = Owned)'
  <2>1. mapped = ({pub, dirty, spare} \ {NoBuf}) \cup {BufOf(h) : h \in holds}
    BY <1>1 DEF Owned
  <2>2. Owned' = ({dirty, spare} \ {NoBuf}) \cup {BufOf(h)' : h \in holds} \cup {pub}
    BY <1>1, <1>2, <1>3 DEF Owned, OneOwner, BufOf
  <2>3. \A h \in holds : BufOf(h)' = BufOf(h)
    BY <1>2, <1>3 DEF BufOf
  <2> QED BY <1>1, <2>1, <2>2, <2>3 DEF BufTypes
<1>7. ReadersCovered'
  BY <1>1 DEF ReadersCovered
<1> QED BY <1>4, <1>5, <1>6, <1>7

\* The old heap is pinned: it joins the holds, and dirty is a buffer of nobody.
LEMMA OwnHold ==
    ASSUME TypeInv, Ownership, PublishHold, UNCHANGED <<rpc, rd>>
    PROVE  Ownership'
<1> USE LiveHeapAssumption DEF TypeInv, TypeOK, Ownership
<1> PICK b \in Bufs : /\ IF spare # NoBuf THEN b = spare ELSE b \in Unmapped
                      /\ dirty' = b /\ mapped' = mapped \cup {b}
  BY DEF PublishHold
<1>1. /\ wpc = "swapped" /\ spare' = NoBuf /\ holds' = holds \cup {old}
      /\ UNCHANGED <<live, desc, pub, stamp>> /\ stamp \in Nat /\ 0 \in Descs
  BY DEF PublishHold, WriterTypes, Descs
<1>2. wpc' \in {"idle", "write", "prep"} /\ old' = 0
  BY DEF PublishHold, AfterPublish, ReturnToCaller, Return
<1>3. BufOf(old) \in mapped
  BY <1>1 DEF Owned
<1>4. b \notin {pub, BufOf(old), NoBuf} /\ \A h \in holds : BufOf(h) # b
  <2>1. CASE spare # NoBuf
    BY <1>1, <2>1 DEF OneOwner, Swapping
  <2>2. CASE spare = NoBuf
    BY <1>3, <2>2 DEF Owned, Unmapped, BufTypes
  <2> QED BY <2>1, <2>2
<1>5. Numbered'
  BY <1>1, <1>2 DEF Numbered
<1>6. OneOwner'
  <2>1. /\ pub = BufOf(live) /\ old # live /\ live \notin holds
        /\ \A h \in holds : BufOf(h) # BufOf(old) /\ BufOf(h) # pub
        /\ \A g, h \in holds : BufOf(g) = BufOf(h) => g = h
        /\ BufOf(old) # pub
    BY <1>1 DEF OneOwner, Swapping
  <2>2. \A d \in Descs : BufOf(d)' = BufOf(d) /\ BufOf(d) # NoBuf
    BY <1>1 DEF BufOf, DescTypes
  <2>3. ~Swapping' /\ NoBuf \notin {pub, b} /\ live \in Descs
    BY <1>2 DEF Swapping, BufTypes, Numbered, WriterTypes, Descs
  <2> QED BY <1>1, <1>4, <2>1, <2>2, <2>3 DEF OneOwner, WriterTypes
<1>7. (mapped = Owned)'
  BY <1>1, <1>2, <1>3, <1>4 DEF Owned, OneOwner, Swapping, BufOf
<1>8. ReadersCovered'
  BY <1>1 DEF ReadersCovered
<1> QED BY <1>5, <1>6, <1>7, <1>8

LEMMA OwnWriter ==
    ASSUME TypeInv, RefsExact, Ownership, Intact, Intact', WriterNext
    PROVE  Ownership'
<1> USE LiveHeapAssumption DEF TypeInv, TypeOK
<1>r. UNCHANGED <<refs, rpc, rd>>
  BY WriterLeavesReaders
<1>s. stamp \in Nat
  BY DEF WriterTypes
<1>p. \A r \in Readers : rpc[r] = "reading" => refs[rd[r]] # 0
  BY PinnedCounts
<1>1. CASE BeginPut
  BY <1>1, <1>r, <1>s, OwnKept DEF BeginPut, Swapping, bufVars
<1>2. CASE \E o \in {"tx", "mut"} : BeginUnprepared(o)
  BY <1>2, <1>r, <1>s, OwnKept DEF BeginUnprepared, Swapping, bufVars
<1>3. CASE \E h \in holds : ReapKeep(h)
  BY <1>3, <1>r, <1>s, OwnKept DEF ReapKeep, Swapping, bufVars
<1>4. CASE \E h \in holds : ReapFree(h)
  BY <1>4, <1>r, <1>p DEF Ownership, ReapFree, Numbered, OneOwner, Owned, ReadersCovered, Swapping, BufOf, DescTypes,
     BufTypes, WriterTypes
<1>5. CASE PrepareRefused
  BY <1>5, <1>r, <1>s, OwnKept DEF PrepareRefused, Return, Swapping
<1>6. CASE PrepareOk
  BY <1>6, <1>r DEF Ownership, PrepareOk, Prepare, Unmapped, Numbered, OneOwner, Owned, ReadersCovered, Swapping, BufOf,
     BufTypes, DescTypes, WriterTypes
<1>7. CASE \E p \in Pages : WritePage(p)
  BY <1>7, <1>r, <1>s, OwnKept DEF WritePage, Fresh, Swapping
<1>8. CASE Abandon
  BY <1>8, <1>r, <1>s, OwnKept DEF Abandon, Return, Swapping
<1>9. CASE HeapFullNoRoom
  BY <1>9, <1>r, <1>s, OwnKept DEF HeapFullNoRoom, writerVars, Swapping
<1>10. CASE HeapFull
  <2> PICK b \in Bufs : wpc = "write" /\ Rebuilt(b, op') /\ UNCHANGED <<live, desc, pub, spare, holds, old>>
    BY <1>10 DEF HeapFull, Rebuilt
  <2> QED BY <1>r, OwnRebuilt DEF Swapping
<1>11. CASE Repack
  <2> PICK b \in Bufs : wpc \in {"idle", "compact"} /\ Rebuilt(b, op')
                        /\ UNCHANGED <<live, desc, pub, spare, holds, old>>
    BY <1>11 DEF Repack, Rebuilt
  <2> QED BY <1>r, OwnRebuilt DEF Swapping
<1>12. CASE \E p \in Pages : CompactInPlace(p)
  BY <1>12, <1>r, <1>s, OwnKept DEF CompactInPlace, Fresh, Swapping
<1>13. CASE StartPublish
  BY <1>13, <1>r, <1>s, OwnKept DEF StartPublish, Swapping, bufVars
<1>14. CASE StartCommit
  BY <1>14, <1>r, <1>s, OwnKept DEF StartCommit, Swapping, bufVars
<1>15. CASE ReapAgain
  BY <1>15, <1>r, <1>s, OwnKept DEF ReapAgain, Swapping, bufVars
<1>16. CASE PublishRefused
  BY <1>16, <1>r, <1>s, OwnKept DEF PublishRefused, PublishFails, ReturnToCaller, Return, Swapping, bufVars
<1>17. CASE PublishPoison
  BY <1>17, <1>r, <1>s, OwnKept DEF PublishPoison, Swapping, bufVars
<1>18. CASE PublishSwap
  BY <1>18, <1>r, OwnSwap
<1>19. CASE PublishHold
  BY <1>19, <1>r, OwnHold
<1>20. CASE PublishNoBuffer
  BY <1>20 DEF PublishNoBuffer, Intact
<1>21. CASE PublishUnpinned
  BY <1>21, <1>r, <1>p DEF Ownership, PublishUnpinned, bufVars, Numbered, OneOwner, Owned, ReadersCovered, Swapping, BufOf
<1>22. CASE PublishReuse
  BY <1>22, <1>r DEF Ownership, PublishReuse, AfterPublish, ReturnToCaller, Return, Numbered, OneOwner, Owned,
     ReadersCovered, Swapping, BufOf, BufTypes, DescTypes, WriterTypes
<1>23. CASE Close
  BY <1>23 DEF Close, Intact
<1>24. CASE CompactNoRepack
  BY <1>24, <1>r, <1>s, OwnKept DEF CompactNoRepack, Return, Swapping, bufVars
<1> QED BY <1>1, <1>2, <1>3, <1>4, <1>5, <1>6, <1>7, <1>8, <1>9, <1>10, <1>11, <1>12, <1>13,
           <1>14, <1>15, <1>16, <1>17, <1>18, <1>19, <1>20, <1>21, <1>22, <1>23, <1>24 DEF WriterNext

\* A shard does not reopen, and a lost descriptor stays lost.
LEMMA IntactBefore ==
    ASSUME TypeInv, WriterNext, Intact'
    PROVE  Intact
BY DEF Intact, WriterNext, BeginPut, BeginUnprepared, ReapKeep, ReapFree, PrepareRefused, PrepareOk, Prepare,
       WritePage, Abandon, HeapFullNoRoom, HeapFull, Repack, Rebuilt, CompactInPlace, CompactNoRepack, StartPublish,
       StartCommit, ReapAgain, PublishRefused, PublishPoison, PublishSwap, PublishHold, PublishNoBuffer,
       PublishUnpinned, PublishReuse, Close, writerVars

LEMMA IInvNext == IInv /\ [Next]_vars => IInv'
<1> SUFFICES ASSUME IInv, [Next]_vars PROVE IInv'
  OBVIOUS
<1>1. TypeInv' /\ RefsExact'
  BY TypeNext, RefsNext DEF IInv, TypeInv
<1> SUFFICES ASSUME Intact' PROVE Ownership'
  BY <1>1 DEF IInv
<1>2. ASSUME NEW r \in Readers, ReaderNext(r) PROVE Ownership'
  <2>1. Intact
    BY <1>2 DEF Intact, ReaderNext, PinLoad, PinRefused, PinAdd, PinCheck, PinRetry, Unpin, CursorOnView, vars, writerVars
  <2> QED BY <1>2, <2>1, OwnReader DEF IInv
<1>3. CASE WriterNext
  BY <1>3, IntactBefore, OwnWriter DEF IInv
<1>4. CASE UNCHANGED vars
  BY <1>4 DEF IInv, Intact, Ownership, Numbered, OneOwner, Owned, ReadersCovered, Swapping, BufOf, vars, readerVars,
     bufVars, writerVars
<1> QED BY <1>2, <1>3, <1>4 DEF Next

LEMMA CoveredMapped ==
    ASSUME TypeInv, Ownership, NEW r \in Readers, rpc[r] = "reading"
    PROVE  BufOf(rd[r]) \in mapped
<1>1. pub = BufOf(live) /\ pub # NoBuf
  BY LiveHeapAssumption DEF Ownership, OneOwner, TypeInv, TypeOK, BufTypes
<1> QED BY <1>1 DEF Ownership, ReadersCovered, Owned

\* While the shard is open a reader never reads unmapped memory, under every
\* workload, up to the first publication that is left without a work buffer.
THEOREM ReadersOnMappedMemory == Spec => []MappedWhileOpen
<1>1. IInv => MappedWhileOpen
  BY CoveredMapped DEF IInv, Intact, MappedWhileOpen, ReadsMapped
<1> QED BY <1>1, IInvInit, IInvNext, PTL DEF Spec

\* publish(), reapHolds and the rebuilds neither leak a buffer nor keep one that
\* is unmapped, under every workload, up to that same publication.
THEOREM NoBufferLeak == Spec => [](lost = {} => BuffersAccounted)
<1>1. IInv => (lost = {} => BuffersAccounted)
  BY DEF IInv, Intact, Ownership, BuffersAccounted
<1> QED BY <1>1, IInvInit, IInvNext, PTL DEF Spec

-----------------------------------------------------------------------------
(* Images                                                                  *)

\* The workloads whose views are snapshots: no in-place compaction and no close
\* under open views, and a write that may lose its buffer allocation prepares first.
PreparedWorkload ==
    /\ Ops \cap {"compact", "close"} = {}
    /\ MmapFails => Ops \cap {"mut", "repack"} = {} /\ "tx" \notin FullOps

\* The buffers of the descriptors that can be read keep the published image.
ImagesKept ==
    /\ heap[pub] = desc[live].img
    /\ \A h \in holds : heap[BufOf(h)] = desc[h].img
    /\ wpc = "swapped" => heap[BufOf(old)] = desc[old].img

\* preparePublish leaves a spare buffer, and it stays until publish() needs it.
SpareReady ==
    MmapFails /\ (wpc \in {"reap", "swapped"} \/ (wpc = "write" /\ op = "put")) => spare # NoBuf

\* The inductive invariant of the prepared workloads.
PInv == IInv /\ Intact /\ ImagesKept /\ SpareReady

LEMMA PInvInit == Init => PInv
<1> SUFFICES ASSUME Init PROVE PInv
  OBVIOUS
<1>1. 0 \in Descs
  BY LiveHeapAssumption DEF Descs
<1>2. Intact /\ SpareReady
  BY DEF Init, Intact, SpareReady
<1>3. ImagesKept
  BY <1>1 DEF Init, ImagesKept, BufOf
<1> QED BY <1>2, <1>3, IInvInit DEF PInv

LEMMA SpareNext ==
    ASSUME PreparedWorkload, PInv, WriterNext
    PROVE  Intact' /\ SpareReady'
<1> USE LiveHeapAssumption DEF PInv, IInv, TypeInv, TypeOK, PreparedWorkload
<1> USE DEF Intact, SpareReady
<1>1. CASE BeginPut \/ (\E o \in {"tx", "mut"} : BeginUnprepared(o)) \/ \E h \in holds : ReapKeep(h)
  BY <1>1 DEF BeginPut, BeginUnprepared, ReapKeep, bufVars
<1>2. CASE \E h \in holds : ReapFree(h)
  BY <1>2 DEF ReapFree
<1>3. CASE PrepareRefused
  BY <1>3 DEF PrepareRefused, Return
<1>4. CASE PrepareOk
  BY <1>4 DEF PrepareOk, Prepare, Unmapped
<1>5. CASE (\E p \in Pages : WritePage(p)) \/ Abandon \/ \E p \in Pages : CompactInPlace(p)
  BY <1>5 DEF WritePage, Abandon, CompactInPlace, Return
<1>6. CASE HeapFullNoRoom \/ HeapFull \/ Repack
  BY <1>6 DEF HeapFullNoRoom, HeapFull, Repack, Rebuilt, writerVars, WriterTypes
<1>7. CASE StartPublish \/ StartCommit \/ ReapAgain \/ CompactNoRepack
  BY <1>7 DEF StartPublish, StartCommit, ReapAgain, CompactNoRepack, Return, bufVars, WriterTypes
<1>8. CASE PublishRefused
  BY <1>8 DEF PublishRefused, PublishFails, ReturnToCaller, Return, bufVars
<1>9. CASE PublishPoison \/ PublishSwap \/ PublishUnpinned
  BY <1>9 DEF PublishPoison, PublishSwap, PublishUnpinned, bufVars
<1>10. CASE PublishHold \/ PublishReuse
  BY <1>10 DEF PublishHold, PublishReuse, AfterPublish, ReturnToCaller, Return
<1>11. CASE PublishNoBuffer
  BY <1>11 DEF PublishNoBuffer, Ownership, OneOwner, Swapping
<1>12. CASE Close
  BY <1>12 DEF Close
<1> QED BY <1>1, <1>2, <1>3, <1>4, <1>5, <1>6, <1>7, <1>8, <1>9, <1>10, <1>11, <1>12 DEF WriterNext

\* What is written is a buffer that no readable descriptor owns.
LEMMA ImagesSame ==
    ASSUME TypeInv, Ownership, ImagesKept, NEW c,
           \A b \in Bufs : b # c => heap'[b] = heap[b],
           pub # c, \A h \in holds : BufOf(h) # c,
           wpc' # "swapped", holds' \subseteq holds, UNCHANGED <<live, desc, pub>>
    PROVE  ImagesKept'
<1>1. pub \in Bufs /\ \A h \in holds : BufOf(h) \in Bufs
  BY DEF TypeInv, TypeOK, BufTypes, DescTypes, WriterTypes, BufOf
<1> QED BY <1>1 DEF ImagesKept, BufOf

LEMMA ImagesNext ==
    ASSUME PreparedWorkload, PInv, WriterNext
    PROVE  ImagesKept'
<1> USE LiveHeapAssumption DEF PInv, IInv, TypeInv, TypeOK, Ownership
<1>o. /\ \A h \in holds : BufOf(h) \notin {pub, dirty, spare}
      /\ ~Swapping => dirty # pub
      /\ spare # pub
  BY DEF OneOwner
<1>m. pub \in mapped /\ \A h \in holds : BufOf(h) \in mapped
  BY DEF Owned, BufTypes
<1>1. CASE UNCHANGED <<live, desc, heap, pub>> /\ holds' \subseteq holds /\ wpc' # "swapped"
  BY <1>1 DEF ImagesKept, BufOf
<1>2. CASE UNCHANGED <<live, desc, pub, holds>> /\ wpc' # "swapped" /\ ~Swapping
           /\ \A b \in Bufs : b # dirty => heap'[b] = heap[b]
  BY <1>2, <1>o, ImagesSame
<1>3. CASE UNCHANGED <<live, desc, pub, holds>> /\ wpc' # "swapped"
           /\ \E c \in Unmapped : \A b \in Bufs : b # c => heap'[b] = heap[b]
  <2> PICK c \in Unmapped : \A b \in Bufs : b # c => heap'[b] = heap[b]
    BY <1>3
  <2> QED BY <1>3, <1>m, ImagesSame DEF Unmapped
<1>4. CASE BeginPut \/ (\E o \in {"tx", "mut"} : BeginUnprepared(o)) \/ \E h \in holds : ReapKeep(h) \/ ReapFree(h)
  BY <1>1, <1>4 DEF BeginPut, BeginUnprepared, ReapKeep, ReapFree, bufVars
<1>5. CASE PrepareRefused
  BY <1>1, <1>2, <1>5 DEF PrepareRefused, Return, Swapping, BufTypes
<1>6. CASE PrepareOk
  BY <1>1, <1>3, <1>6 DEF PrepareOk, Prepare, Unmapped, BufTypes
<1>7. CASE \E p \in Pages : WritePage(p)
  BY <1>2, <1>7 DEF WritePage, Swapping, BufTypes
<1>8. CASE Abandon \/ HeapFullNoRoom
  BY <1>2, <1>8 DEF Abandon, HeapFullNoRoom, Return, Swapping, BufTypes, writerVars
<1>9. CASE HeapFull \/ Repack
  BY <1>3, <1>9 DEF HeapFull, Repack, Rebuilt, BufTypes
<1>10. CASE (\E p \in Pages : CompactInPlace(p)) \/ Close
  BY <1>10 DEF CompactInPlace, Close, PreparedWorkload
<1>11. CASE StartPublish \/ StartCommit \/ ReapAgain \/ CompactNoRepack \/ PublishPoison \/ PublishUnpinned
  BY <1>1, <1>11 DEF StartPublish, StartCommit, ReapAgain, CompactNoRepack, PublishPoison, PublishUnpinned, Return, bufVars
<1>12. CASE PublishRefused \/ PublishNoBuffer
  BY <1>1, <1>12 DEF PublishRefused, PublishNoBuffer, PublishFails, ReturnToCaller, Return, bufVars
<1>13. CASE PublishSwap
  <2> DEFINE img == [heap[dirty] EXCEPT ![Header] = Fresh]
  <2>1. /\ wpc = "reap" /\ live' = stamp + 1 /\ stamp \in Nat
        /\ stamp + 1 \in Descs /\ old' = live /\ pub' = dirty /\ UNCHANGED holds
    <3>1. stamp \in Nat /\ stamp + 1 \in Descs
      BY <1>13 DEF PublishSwap, CanWrite, WriterTypes, Descs
    <3> QED BY <1>13, <3>1 DEF PublishSwap, Fresh
  <2>2. heap'[dirty] = img /\ \A b \in Bufs : b # dirty => heap'[b] = heap[b]
    BY <1>13 DEF PublishSwap, BufTypes
  <2>3. desc'[stamp + 1].img = img /\ desc'[stamp + 1].buf = dirty /\ \A d \in 0 .. stamp : desc'[d] = desc[d]
    BY <1>13, <2>1 DEF PublishSwap, Fresh, DescTypes, Descs
  <2>4. live \in 0 .. stamp /\ (\A h \in holds : h \in 0 .. stamp) /\ pub = BufOf(live) /\ dirty # pub
    BY <2>1, <1>o DEF Numbered, OneOwner, Swapping
  <2>5. pub \in Bufs /\ \A h \in holds : BufOf(h) \in Bufs
    BY DEF BufTypes, DescTypes, WriterTypes, BufOf
  <2> QED BY <2>1, <2>2, <2>3, <2>4, <2>5, <1>o DEF ImagesKept, BufOf
<1>14. CASE PublishHold
  <2> PICK b \in Bufs : /\ IF spare # NoBuf THEN b = spare ELSE b \in Unmapped
                        /\ heap' = [heap EXCEPT ![b] = heap[pub]]
    BY <1>14 DEF PublishHold
  <2>1. wpc = "swapped" /\ holds' = holds \cup {old} /\ UNCHANGED <<live, desc, pub>>
    BY <1>14 DEF PublishHold
  <2>2. wpc' # "swapped"
    BY <1>14 DEF PublishHold, AfterPublish, ReturnToCaller, Return
  <2>3. b \notin {pub, BufOf(old)} /\ \A h \in holds : BufOf(h) # b
    BY <2>1, <1>m DEF OneOwner, Swapping, Owned, Unmapped
  <2>4. \A c \in Bufs : c # b => heap'[c] = heap[c]
    BY DEF BufTypes
  <2>5. pub \in Bufs /\ BufOf(old) \in Bufs /\ \A h \in holds : BufOf(h) \in Bufs
    BY DEF BufTypes, DescTypes, WriterTypes, BufOf
  <2> QED BY <2>1, <2>2, <2>3, <2>4, <2>5 DEF ImagesKept, BufOf
<1>15. CASE PublishReuse
  <2>1. wpc = "reuse" /\ BufOf(old) # pub /\ \A h \in holds : BufOf(h) # BufOf(old)
    BY <1>15 DEF PublishReuse, OneOwner, Swapping
  <2>2. UNCHANGED <<live, desc, pub, holds>> /\ \A c \in Bufs : c # BufOf(old) => heap'[c] = heap[c]
    BY <1>15, <2>1 DEF PublishReuse, BufTypes
  <2>3. wpc' # "swapped"
    BY <1>15 DEF PublishReuse, AfterPublish, ReturnToCaller, Return
  <2> QED BY <2>1, <2>2, <2>3, ImagesSame
<1> QED BY <1>4, <1>5, <1>6, <1>7, <1>8, <1>9, <1>10, <1>11, <1>12, <1>13, <1>14, <1>15 DEF WriterNext

LEMMA PInvNext == ASSUME PreparedWorkload PROVE PInv /\ [Next]_vars => PInv'
<1> SUFFICES ASSUME PInv, [Next]_vars PROVE PInv'
  OBVIOUS
<1>1. IInv'
  BY IInvNext DEF PInv
<1>2. CASE WriterNext
  BY <1>1, <1>2, SpareNext, ImagesNext DEF PInv
<1>3. CASE UNCHANGED <<live, desc, bufVars, writerVars>>
  BY <1>1, <1>3 DEF PInv, Intact, ImagesKept, SpareReady, BufOf, bufVars, writerVars
<1>4. CASE \E r \in Readers : ReaderNext(r)
  BY <1>3, <1>4 DEF ReaderNext, PinLoad, PinRefused, PinAdd, PinCheck, PinRetry, Unpin, CursorOnView, vars
<1> QED BY <1>2, <1>3, <1>4 DEF Next, vars

LEMMA PInvStable == PInv => SnapshotStable
<1> SUFFICES ASSUME PInv, NEW r \in Readers, rpc[r] = "reading"
             PROVE  BufOf(rd[r]) \in mapped /\ heap[BufOf(rd[r])] = desc[rd[r]].img
  BY DEF SnapshotStable
<1>1. TypeInv /\ Ownership
  BY DEF PInv, IInv
<1> QED BY <1>1, CoveredMapped DEF PInv, Ownership, OneOwner, ReadersCovered, ImagesKept

\* A view is a snapshot: whatever the writer does, a reader that pinLive let
\* through keeps a mapped buffer that holds the image published with it, for any
\* number of readers, pages, buffers and retained heaps.
THEOREM Isolation == ASSUME PreparedWorkload PROVE Spec => []SnapshotStable
BY PInvInit, PInvNext, PInvStable, PTL DEF Spec

-----------------------------------------------------------------------------
(* The ceiling                                                             *)

\* The workloads whose every publication is preceded by preparePublish.
EveryPublishPrepared == Ops \cap {"mut", "repack", "compact"} = {} /\ "tx" \notin FullOps

\* The room preparePublish found is still there when publish() needs it.
CeilingInv ==
    /\ HoldCeiling
    /\ wpc \in {"reap", "swapped"} \/ (wpc = "write" /\ op = "put") => Cardinality(holds) < MaxHold

LEMMA HoldsFinite == TypeOK => IsFiniteSet(holds) /\ Cardinality(holds) \in Nat
<1>1. IsFiniteSet(Descs)
  BY LiveHeapAssumption, FS_Interval DEF Descs
<1> QED BY <1>1, FS_Subset, FS_CardinalityType DEF TypeOK, WriterTypes

LEMMA CeilingNext ==
    ASSUME EveryPublishPrepared, TypeInv, CeilingInv, [Next]_vars
    PROVE  CeilingInv'
<1> USE LiveHeapAssumption DEF CeilingInv, HoldCeiling
<1>0. IsFiniteSet(holds) /\ Cardinality(holds) \in Nat
  BY HoldsFinite DEF TypeInv
<1>1. CASE \E r \in Readers : ReaderNext(r)
  <2>1. UNCHANGED <<holds, wpc, op>>
    BY <1>1 DEF ReaderNext, PinLoad, PinRefused, PinAdd, PinCheck, PinRetry, Unpin, CursorOnView, vars,
                bufVars, writerVars
  <2> QED BY <2>1
<1>2. CASE \E h \in holds : ReapFree(h)
  <2> PICK h \in holds : ReapFree(h)
    BY <1>2
  <2>1. Cardinality(holds') = Cardinality(holds) - 1
    BY <1>0, FS_RemoveElement DEF ReapFree
  <2> QED BY <1>0, <2>1 DEF ReapFree
<1>3. CASE PublishHold
  <2>1. Cardinality(holds') \in {Cardinality(holds), Cardinality(holds) + 1}
    <3>1. holds' = holds \cup {old}
      BY <1>3 DEF PublishHold
    <3>2. Cardinality(holds \cup {old}) = IF old \in holds THEN Cardinality(holds) ELSE Cardinality(holds) + 1
      BY <1>0, FS_AddElement
    <3> QED BY <3>1, <3>2
  <2>2. wpc = "swapped" /\ wpc' \in {"idle", "prep", "write"} /\ (wpc' = "write" => op' = "tx")
    BY <1>3 DEF PublishHold, AfterPublish, ReturnToCaller, Return
  <2>3. Cardinality(holds') <= MaxHold
    BY <1>0, <2>1, <2>2
  <2> QED BY <2>2, <2>3
<1>4. CASE Close
  BY <1>4, FS_EmptySet DEF Close
<1>5. CASE UNCHANGED holds /\ (wpc' \in {"reap", "swapped"} \/ (wpc' = "write" /\ op' = "put") =>
              wpc \in {"reap", "swapped"} \/ (wpc = "write" /\ op = "put") \/ Cardinality(holds) < MaxHold)
  BY <1>5
<1>6. CASE WriterNext
  <2> USE <1>5 DEF Return, ReturnToCaller, PublishFails, AfterPublish, bufVars
  <2>1. CASE BeginPut \/ (\E o \in {"tx", "mut"} : BeginUnprepared(o)) \/ \E h \in holds : ReapKeep(h)
    BY <2>1 DEF BeginPut, BeginUnprepared, ReapKeep
  <2>2. CASE PrepareRefused \/ PrepareOk
    BY <2>2 DEF PrepareRefused, PrepareOk, Prepare
  <2>3. CASE (\E p \in Pages : WritePage(p)) \/ Abandon \/ \E p \in Pages : CompactInPlace(p)
    BY <2>3 DEF WritePage, Abandon, CompactInPlace
  <2>4. CASE HeapFullNoRoom \/ HeapFull
    BY <2>4 DEF HeapFullNoRoom, HeapFull, Rebuilt, EveryPublishPrepared, writerVars
  <2>5. CASE Repack
    BY <2>5 DEF Repack, EveryPublishPrepared
  <2>6. CASE StartPublish \/ StartCommit \/ ReapAgain
    BY <2>6 DEF StartPublish, StartCommit, ReapAgain, EveryPublishPrepared, TypeInv, TypeOK, WriterTypes
  <2>7. CASE PublishRefused \/ PublishPoison \/ PublishSwap \/ CompactNoRepack
    BY <2>7 DEF CompactNoRepack, PublishRefused, PublishPoison, PublishSwap
  <2>8. CASE PublishNoBuffer \/ PublishUnpinned \/ PublishReuse
    BY <2>8 DEF PublishNoBuffer, PublishUnpinned, PublishReuse
  <2> QED BY <1>2, <1>3, <1>4, <1>6, <2>1, <2>2, <2>3, <2>4, <2>5, <2>6, <2>7, <2>8 DEF WriterNext
<1>7. CASE UNCHANGED vars
  BY <1>7 DEF vars, bufVars, writerVars
<1> QED BY <1>1, <1>6, <1>7 DEF Next

\* maxHoldHeaps is strict when every publication is prepared, although publish()
\* only counts the holds before the swap and readers pin after the count.
THEOREM Ceiling == ASSUME EveryPublishPrepared PROVE Spec => [](HoldCeiling /\ PreparedAccepted)
<1>1. Init => CeilingInv
  BY LiveHeapAssumption, FS_EmptySet DEF Init, CeilingInv, HoldCeiling
<1>2. TypeInv /\ CeilingInv /\ [Next]_vars => CeilingInv'
  BY CeilingNext
<1>3. CeilingInv => HoldCeiling /\ PreparedAccepted
  BY DEF CeilingInv, PreparedAccepted
<1> QED BY <1>1, <1>2, <1>3, TypeInit, TypeNext, PTL DEF Spec

-----------------------------------------------------------------------------
(* LiveHeap implements Snapshots.  This rests on the invariant above: what a view shows  *)
(* through its buffer is the image its descriptor was published with, and a descriptor   *)
(* does not change once it is numbered.                                                  *)

\* What a descriptor was published as, and the abstract variables in these terms.
Seen(d) == [root |-> desc[d].root, img |-> desc[d].img]
Current == {Seen(live)}
Views   == [r \in Readers |-> IF rpc[r] = "reading" THEN {{Seen(rd[r])}} ELSE {}]

MappingExact ==
    /\ (IF live = NoHeap THEN {} ELSE {Shown(live)}) = Current
    /\ [r \in Readers |-> IF rpc[r] = "reading" THEN {{Shown(rd[r])}} ELSE {}] = Views

LEMMA MappingSeen == PInv => MappingExact
<1> SUFFICES ASSUME PInv PROVE MappingExact
  OBVIOUS
<1>1. live # NoHeap /\ pub = BufOf(live)
  BY DEF PInv, IInv, Intact, Ownership, Numbered, OneOwner, NoHeap
<1>2. Shown(live) = Seen(live)
  BY <1>1 DEF Shown, Seen, PInv, ImagesKept
<1>3. \A r \in Readers : rpc[r] = "reading" => Shown(rd[r]) = Seen(rd[r])
  BY PInvStable DEF SnapshotStable, Shown, Seen
<1> QED BY <1>1, <1>2, <1>3 DEF MappingExact, Current, Views

LEMMA MappingSeenNext == PInv' => MappingExact'
BY MappingSeen, PTL

\* Only a swap numbers a descriptor, and it numbers a new one.
LEMMA DescsKept ==
    ASSUME TypeInv, WriterNext
    PROVE  \A d \in 0 .. stamp : desc'[d] = desc[d]
<1>1. CASE PublishSwap
  BY <1>1 DEF PublishSwap, Fresh, TypeInv, TypeOK, DescTypes, WriterTypes, Descs
<1>2. CASE ~PublishSwap
  BY <1>2 DEF WriterNext, BeginPut, BeginUnprepared, ReapKeep, ReapFree, PrepareRefused, PrepareOk,
     Prepare, WritePage, Abandon, HeapFullNoRoom, HeapFull, Repack, CompactInPlace, CompactNoRepack, StartPublish,
     StartCommit, ReapAgain, PublishRefused, PublishPoison, PublishHold, PublishNoBuffer, PublishUnpinned, PublishReuse,
     Close
<1> QED BY <1>1, <1>2

\* The writer changes the current image or nothing; no open view sees it.
LEMMA WriterViews ==
    ASSUME PInv, WriterNext
    PROVE  UNCHANGED Views
<1>1. UNCHANGED <<rpc, rd>> /\ \A r \in Readers : rd[r] \in 0 .. stamp
  BY WriterLeavesReaders DEF PInv, IInv, Ownership, Numbered
<1>2. \A r \in Readers : Seen(rd[r])' = Seen(rd[r])
  BY <1>1, DescsKept DEF Seen, PInv, IInv
<1> QED BY <1>1, <1>2 DEF Views

\* The second load of pinLive is the instant a view is opened.
LEMMA ReaderViews ==
    ASSUME TypeInv, NEW r \in Readers, ReaderNext(r)
    PROVE  /\ UNCHANGED Current
           /\ \/ UNCHANGED Views
              \/ Views[r] = {} /\ Views' = [Views EXCEPT ![r] = {Current}]
              \/ \E v \in Readers : Views[v] # {} /\ Views[r] = {} /\ Views' = [Views EXCEPT ![r] = Views[v]]
              \/ Views[r] # {} /\ Views' = [Views EXCEPT ![r] = {}]
<1> USE DEF TypeInv, TypeOK, ReaderTypes
<1>1. UNCHANGED <<live, desc>>
  BY DEF ReaderNext, PinLoad, PinRefused, PinAdd, PinCheck, PinRetry, Unpin, CursorOnView, vars
<1>2. UNCHANGED Current /\ \A d : Seen(d)' = Seen(d)
  BY <1>1 DEF Current, Seen
<1>3. CASE PinLoad(r) \/ PinRefused(r) \/ PinAdd(r) \/ PinRetry(r)
  BY <1>2, <1>3 DEF PinLoad, PinRefused, PinAdd, PinRetry, Views, vars, readerVars
<1>4. CASE PinCheck(r)
  <2>1. CASE live = rd[r]
    BY <1>2, <1>4, <2>1 DEF PinCheck, Views, Current
  <2>2. CASE live # rd[r]
    BY <1>2, <1>4, <2>2 DEF PinCheck, Views
  <2> QED BY <2>1, <2>2
<1>5. CASE Unpin(r)
  BY <1>2, <1>5 DEF Unpin, Views
<1>6. CASE \E v \in Readers : CursorOnView(v, r)
  <2> PICK v \in Readers : CursorOnView(v, r)
    BY <1>6
  <2>1. Views[v] # {} /\ Views[r] = {} /\ Views' = [Views EXCEPT ![r] = Views[v]]
    BY <1>2 DEF CursorOnView, Views
  <2> QED BY <1>2, <2>1
<1> QED BY <1>2, <1>3, <1>4, <1>5, <1>6 DEF ReaderNext

LEMMA SimulationInit == Init => Abstract!Init
BY DEF Init, Abstract!Init

LEMMA SimulationStep ==
    ASSUME PInv, PInv', [Next]_vars
    PROVE  [Abstract!Next]_(Abstract!vars)
<1> DEFINE C == IF live = NoHeap THEN {} ELSE {Shown(live)}
           V == [r \in Readers |-> IF rpc[r] = "reading" THEN {{Shown(rd[r])}} ELSE {}]
<1>1. C = Current /\ V = Views
  BY MappingSeen DEF MappingExact
<1>2. C' = Current' /\ V' = Views'
  BY MappingSeenNext DEF MappingExact
<1>3. CASE WriterNext
  BY <1>1, <1>2, <1>3, WriterViews DEF Abstract!Next, Abstract!vars, Abstract!Publish
<1>4. ASSUME NEW r \in Readers, ReaderNext(r) PROVE [Abstract!Next]_(Abstract!vars)
  BY <1>1, <1>2, <1>4, ReaderViews DEF PInv, IInv, Abstract!Next, Abstract!vars, Abstract!Open, Abstract!OpenOn, Abstract!Close
<1>5. CASE UNCHANGED vars
  BY <1>5 DEF vars, readerVars, bufVars, writerVars, Abstract!vars, Shown, BufOf
<1> QED BY <1>3, <1>4, <1>5 DEF Next

\* pinLive, publish() and the buffer recycling implement Snapshots: views open on
\* the current image, whole, keep it, and see nothing else.
THEOREM Refinement == ASSUME PreparedWorkload PROVE Spec => SnapshotSpec
<1>1. PInv /\ PInv' /\ [Next]_vars => [Abstract!Next]_(Abstract!vars)
  BY SimulationStep
<1> QED BY <1>1, SimulationInit, PInvInit, PInvNext, PTL DEF Spec, SnapshotSpec, Abstract!Spec

-----------------------------------------------------------------------------
(* No trace of a write that fails                                          *)

\* The buffers a and b agree outside the dirty set.
Agree(a, b) == \A p \in Pages \ mask : heap[a][p] = heap[b][p]

\* The dirty set covers every difference between the work buffer (the recycled one
\* during a publication) and the published one; what an operation will put back
\* is the published root.
TraceInv ==
    /\ op \notin {"mut", "repack", "rebuild-tx"} /\ wpc # "compact"
    /\ wpc \in {"prep", "write"} => op \in {"put", "tx"}
    /\ wpc = "idle" \/ (wpc = "prep" /\ op = "put") => mask = {} /\ heapRoot = desc[live].root
    /\ wpc = "write" \/ (wpc = "prep" /\ op = "tx") => initRoot = desc[live].root
    /\ wpc \in {"idle", "prep", "write", "reap"} => Agree(dirty, pub)
    /\ Swapping => heapRoot = desc[live].root /\ Agree(BufOf(old), pub)

\* Copying the pages of the dirty set is enough.
LEMMA ConvergedEqual ==
    ASSUME TypeInv, NEW b \in Bufs, Agree(b, pub)
    PROVE  Converged(b, heap[pub]) = heap[pub]
<1>1. heap[pub] \in [Pages -> 0 .. MaxStamp] /\ heap[b] \in [Pages -> 0 .. MaxStamp]
  BY DEF TypeInv, TypeOK, BufTypes, Images
<1> QED BY <1>1 DEF Converged, Agree

\* The work buffer is pub again, page by page, and the operation returns.
LEMMA TraceReset ==
    ASSUME TypeInv, UNCHANGED <<live, desc, pub>>, dirty' \in Bufs, pub \in Bufs,
           heap'[dirty'] = heap'[pub], mask' = {}, heapRoot' = desc[live].root,
           \/ wpc' = "idle" /\ op' = "none"
           \/ wpc' = "prep" /\ op' = "put"
    PROVE  TraceInv'
BY DEF TraceInv, Agree, Swapping

\* Steps that leave the two buffers and the dirty set alone.
LEMMA TraceKept ==
    ASSUME TypeInv, Ownership, TraceInv, UNCHANGED <<live, desc, pub, dirty, mask, heapRoot, op>>,
           ~Swapping, wpc' \in {wpc, "poisoned"},
           heap'[dirty] = heap[dirty], heap'[pub] = heap[pub], initRoot' = initRoot
    PROVE  TraceInv'
BY DEF TraceInv, Agree, Swapping

LEMMA TraceWriter ==
    ASSUME EveryPublishPrepared, PInv, PInv', CeilingInv, TraceInv, WriterNext
    PROVE  TraceInv'
<1> USE LiveHeapAssumption DEF PInv, IInv, TypeInv, TypeOK
<1>o. Ownership /\ pub \in Bufs /\ dirty \in Bufs /\ stamp \in Nat /\ live \in 0 .. stamp
  BY DEF BufTypes, WriterTypes, Ownership, Numbered
<1>c. wpc = "reap" => ~AtCeiling
  <2>1. Cardinality(holds) \in Nat
    BY HoldsFinite
  <2> QED BY <2>1 DEF CeilingInv, AtCeiling
<1>1. CASE BeginPut
  BY <1>1 DEF BeginPut, bufVars, TraceInv, Agree, Swapping
<1>2. CASE \E o \in {"tx", "mut"} : BeginUnprepared(o)
  BY <1>2 DEF BeginUnprepared, bufVars, TraceInv, Agree, Swapping, EveryPublishPrepared
<1>3. CASE \E h \in holds : ReapKeep(h) \/ ReapFree(h)
  BY <1>3, <1>o, TraceKept DEF ReapKeep, ReapFree, bufVars, Swapping
<1>4. CASE PrepareRefused
  <2>1. CASE op = "tx"
    <3>1. heap'[dirty] = heap[pub] /\ heap'[pub] = heap[pub]
      BY <1>4, <1>o, <2>1, ConvergedEqual DEF PrepareRefused, TraceInv, BufTypes
    <3> QED BY <1>4, <1>o, <2>1, <3>1, TraceReset DEF PrepareRefused, Return, TraceInv
  <2>2. CASE op # "tx"
    BY <1>4, <1>o, <2>2 DEF PrepareRefused, Return, TraceInv, Agree, Swapping
  <2> QED BY <2>1, <2>2
<1>5. CASE PrepareOk
  <2>1. heap'[dirty] = heap[dirty] /\ heap'[pub] = heap[pub]
    BY <1>5, <1>o DEF PrepareOk, Prepare, Unmapped, BufTypes, Ownership, Owned
  <2> QED BY <1>5, <1>o, <2>1 DEF PrepareOk, Prepare, TraceInv, Agree, Swapping
<1>6. CASE \E p \in Pages : WritePage(p)
  <2> PICK p \in Pages : WritePage(p)
    BY <1>6
  <2>1. dirty # pub
    BY <1>o DEF WritePage, Ownership, OneOwner, Swapping
  <2>2. heap'[pub] = heap[pub] /\ \A q \in Pages \ {p} : heap'[dirty][q] = heap[dirty][q]
    BY <1>o, <2>1 DEF WritePage, BufTypes, Images
  <2> QED BY <1>o, <2>2 DEF WritePage, TraceInv, Agree, Swapping
<1>7. CASE Abandon
  <2>1. heap'[dirty] = heap[pub] /\ heap'[pub] = heap[pub]
    BY <1>7, <1>o, ConvergedEqual DEF Abandon, TraceInv, BufTypes
  <2> QED BY <1>7, <1>o, <2>1, TraceReset DEF Abandon, Return, TraceInv
<1>8. CASE HeapFullNoRoom \/ Repack \/ \E p \in Pages : CompactInPlace(p)
  BY <1>8 DEF HeapFullNoRoom, Repack, CompactInPlace, EveryPublishPrepared, TraceInv
<1>9. CASE HeapFull
  <2>1. wpc' = "reap" /\ op' = "rebuild-put" /\ mask' = Pages
    BY <1>9 DEF HeapFull, Rebuilt, EveryPublishPrepared
  <2> QED BY <2>1 DEF TraceInv, Agree, Swapping
<1>10. CASE CompactNoRepack
  BY <1>10 DEF CompactNoRepack, TraceInv
<1>11. CASE StartPublish \/ StartCommit
  BY <1>11 DEF StartPublish, StartCommit, bufVars, TraceInv, Agree, Swapping
<1>12. CASE ReapAgain \/ PublishRefused
  BY <1>12, <1>c DEF ReapAgain, PublishRefused
<1>13. CASE PublishPoison
  BY <1>13, <1>o, TraceKept DEF PublishPoison, bufVars, Swapping
<1>14. CASE PublishSwap
  <2>1. /\ wpc = "reap" /\ wpc' = "swapped" /\ live' = stamp + 1 /\ old' = live /\ pub' = dirty
        /\ stamp + 1 \in Descs /\ mask' = mask \cup {Header} /\ UNCHANGED <<op, heapRoot>>
    BY <1>14, <1>o DEF PublishSwap, Fresh, CanWrite, Descs
  <2>2. desc'[live'].root = heapRoot /\ desc'[live] = desc[live]
    BY <1>14, <1>o, <2>1 DEF PublishSwap, Fresh, DescTypes, Descs
  <2>3. dirty # pub /\ pub = BufOf(live)
    BY <1>o, <2>1 DEF Ownership, OneOwner, Swapping
  <2>4. heap'[pub] = heap[pub] /\ \A q \in Pages \ {Header} : heap'[dirty][q] = heap[dirty][q]
    BY <1>14, <1>o, <2>3 DEF PublishSwap, BufTypes, Images
  <2>5. BufOf(old)' = pub /\ Agree(dirty, pub)
    BY <2>1, <2>2, <2>3 DEF BufOf, TraceInv
  <2>6. Agree(BufOf(old), pub)'
    BY <2>1, <2>4, <2>5 DEF Agree
  <2> QED BY <2>1, <2>2, <2>6 DEF TraceInv, Swapping
<1>15. CASE PublishHold
  <2> PICK b \in Bufs : /\ IF spare # NoBuf THEN b = spare ELSE b \in Unmapped
                        /\ dirty' = b /\ heap' = [heap EXCEPT ![b] = heap[pub]]
    BY <1>15 DEF PublishHold
  <2>1. heap'[b] = heap[pub] /\ heap'[pub] = heap[pub]
    BY <1>o DEF BufTypes
  <2>2. wpc = "swapped" /\ UNCHANGED <<live, desc, pub, heapRoot>> /\ mask' = {} /\ AfterPublish
    BY <1>15 DEF PublishHold
  <2> QED BY <1>o, <2>1, <2>2, TraceReset DEF AfterPublish, ReturnToCaller, Return, TraceInv, Swapping
<1>16. CASE PublishNoBuffer
  BY <1>16 DEF PublishNoBuffer, Intact
<1>17. CASE PublishUnpinned
  BY <1>17 DEF PublishUnpinned, bufVars, TraceInv, Agree, Swapping, BufOf
<1>18. CASE PublishReuse
  <2>1. wpc = "reuse" /\ BufOf(old) # pub /\ BufOf(old) \in Bufs
    BY <1>18, <1>o DEF PublishReuse, Ownership, OneOwner, Swapping, DescTypes, WriterTypes, BufOf
  <2>2. dirty' = BufOf(old) /\ heap' = [heap EXCEPT ![BufOf(old)] = Converged(BufOf(old), heap[pub])]
    BY <1>18, <2>1 DEF PublishReuse
  <2>3. Converged(BufOf(old), heap[pub]) = heap[pub]
    BY <2>1, ConvergedEqual DEF TraceInv, Swapping
  <2>4. heap'[dirty'] = heap[pub] /\ heap'[pub] = heap[pub]
    BY <1>o, <2>1, <2>2, <2>3 DEF BufTypes
  <2>5. UNCHANGED <<live, desc, pub, heapRoot>> /\ mask' = {} /\ AfterPublish
    BY <1>18 DEF PublishReuse
  <2> QED BY <1>o, <2>1, <2>2, <2>4, <2>5, TraceReset DEF AfterPublish, ReturnToCaller, Return, TraceInv, Swapping
<1>19. CASE Close
  BY <1>19 DEF Close, Intact
<1> QED BY <1>1, <1>2, <1>3, <1>4, <1>5, <1>6, <1>7, <1>8, <1>9, <1>10, <1>11, <1>12, <1>13,
           <1>14, <1>15, <1>16, <1>17, <1>18, <1>19 DEF WriterNext

LEMMA TraceNext ==
    ASSUME EveryPublishPrepared, PInv, PInv', CeilingInv, TraceInv, [Next]_vars
    PROVE  TraceInv'
<1>1. CASE WriterNext
  BY <1>1, TraceWriter
<1>2. CASE UNCHANGED <<live, desc, bufVars, writerVars>>
  BY <1>2 DEF TraceInv, Agree, Swapping, BufOf, bufVars, writerVars
<1>3. CASE \E r \in Readers : ReaderNext(r)
  BY <1>2, <1>3 DEF ReaderNext, PinLoad, PinRefused, PinAdd, PinCheck, PinRetry, Unpin, CursorOnView, vars
<1> QED BY <1>1, <1>2, <1>3 DEF Next, vars

\* A write that is refused, abandoned, rolled back or published leaves the work
\* buffer equal to the published heap, for every number of pages, although only
\* the pages of the dirty set are copied back, when every publication is prepared.
THEOREM FailedWritesLeaveNoTrace ==
    ASSUME PreparedWorkload, EveryPublishPrepared PROVE Spec => []NoTrace
<1>1. Init => TraceInv
  <2> SUFFICES ASSUME Init PROVE TraceInv
    OBVIOUS
  <2>1. 0 \in Descs
    BY LiveHeapAssumption DEF Descs
  <2> QED BY <2>1 DEF Init, TraceInv, Agree, Swapping
<1>2. Init => CeilingInv
  BY LiveHeapAssumption, FS_EmptySet DEF Init, CeilingInv, HoldCeiling
<1>3. PInv /\ CeilingInv /\ [Next]_vars => CeilingInv'
  BY CeilingNext DEF PInv, IInv
<1>4. PInv /\ PInv' /\ CeilingInv /\ TraceInv /\ [Next]_vars => TraceInv'
  BY TraceNext
<1>5. PInv /\ TraceInv => NoTrace
  <2> SUFFICES ASSUME PInv, TraceInv, wpc = "idle" PROVE NoTrace
    BY DEF NoTrace
  <2>1. heap[dirty] \in [Pages -> 0 .. MaxStamp] /\ heap[pub] \in [Pages -> 0 .. MaxStamp]
    BY DEF PInv, IInv, TypeInv, TypeOK, BufTypes, Images
  <2>2. heap[dirty] = heap[pub]
    BY <2>1 DEF TraceInv, Agree
  <2> QED BY <2>2 DEF NoTrace, TraceInv
<1> QED BY <1>1, <1>2, <1>3, <1>4, <1>5, PInvInit, PInvNext, PTL DEF Spec
=============================================================================
