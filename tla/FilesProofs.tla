----------------------------- MODULE FilesProofs -----------------------------
(***************************************************************************)
(* The files beside a shard: the content store, the two append-only logs,  *)
(* history and events, and the lock ladder of a VFS file.                  *)
(*                                                                         *)
(* The content store, for any objects, lengths, size of the device and     *)
(* number of stops, when a stop keeps all of a write in progress or none:  *)
(* the device is always a chain of whole objects, then vacant blocks, so   *)
(* that the walk of an opening from header to header finds each of them    *)
(* where its Put wrote it.                                                 *)
(*                                                                         *)
(* The logs, for any records, sizes and number of stops: a segment is a    *)
(* row of records of which only the last may be torn, and only in the last *)
(* segment while the log is down; the loop over it finds the others, each  *)
(* where it was written, and the records are numbered in their order.      *)
(***************************************************************************)
EXTENDS CAS, Segments, VFSLocks, WellFoundedInduction, TLAPS

-----------------------------------------------------------------------------
(* Induction over the naturals, for sets.                                  *)

\* A set of naturals has a least element.
LEMMA Least ==
    ASSUME NEW T, T \subseteq Nat, T # {}
    PROVE  \E n \in T : \A m \in T : n <= m
<1>1. \E x \in T : \A y \in T : ~(<<y, x>> \in OpToRel(<, Nat))
  BY WFMin, NatLessThanWellFounded
<1>2. PICK x \in T : \A y \in T : ~(<<y, x>> \in OpToRel(<, Nat))
  BY <1>1
<1>3. \A y \in T : ~(y < x)
  BY <1>2 DEF OpToRel
<1> QED BY <1>3

LEMMA Induction ==
    ASSUME NEW I, 0 \in I, \A n \in Nat : n \in I => n + 1 \in I
    PROVE  Nat \subseteq I
<1> SUFFICES ASSUME Nat \ I # {} PROVE FALSE
  OBVIOUS
<1>1. PICK n \in Nat \ I : \A m \in Nat \ I : n <= m
  BY Least
<1>2. n # 0 /\ n - 1 \in Nat /\ n - 1 \in I
  BY <1>1
<1>3. (n - 1) + 1 \in I
  BY <1>2
<1> QED BY <1>1, <1>3

-----------------------------------------------------------------------------
(* The content store: the invariant.                                       *)

StoreCells == {Vacant} \cup [obj : Objects, part : Nat]

\* The device holds the objects of idx where idx says, one after the other up to
\* block n, and nothing after.
Layout(idx, n) ==
    /\ DOMAIN idx \subseteq Objects /\ n \in 0 .. NBlocks
    /\ \A o \in DOMAIN idx : idx[o] \in Nat /\ idx[o] + Length[o] <= n
    /\ \A o \in DOMAIN idx : \A i \in Parts(o) : block[idx[o] + i - 1] = [obj |-> o, part |-> i]
    /\ \A b \in 0 .. n - 1 : \E o \in DOMAIN idx : idx[o] <= b /\ b < idx[o] + Length[o]
    /\ \A b \in n .. NBlocks - 1 : block[b] = Vacant

\* The same, with object o written after them and not indexed yet.
Writing(o) ==
    /\ o \in Objects \ DOMAIN index /\ next + Length[o] <= NBlocks
    /\ Layout([x \in DOMAIN index \cup {o} |-> IF x = o THEN next ELSE index[x]], next + Length[o])

\* The device is laid out, with what was stored.
Laid == \E idx, n : idx = [x \in DOMAIN idx |-> idx[x]] /\ Layout(idx, n) /\ stored \subseteq DOMAIN idx

StoreInv ==
    /\ block \in [LBAs -> StoreCells] /\ stored \subseteq Objects
    /\ index = [x \in DOMAIN index |-> index[x]] /\ next \in Nat
    /\ open \in {"open", "down"}
    /\ open = "down" => putting = {} /\ index = <<>> /\ next = 0 /\ Laid
    /\ open = "open" =>
          /\ stored \subseteq DOMAIN index
          /\ \/ putting = {} /\ Layout(index, next)
             \/ \E o : putting = {o} /\ Writing(o)

-----------------------------------------------------------------------------
(* The walk of an opening.                                                 *)

\* One block of the walk, with w for the walk of the blocks after it.
Walked(w, b) ==
    IF b = NBlocks THEN [ok |-> TRUE, at |-> <<>>, next |-> b]
    ELSE IF block[b] = Vacant THEN [ok |-> TRUE, at |-> <<>>, next |-> b]
    ELSE IF block[b].part # 1 \/ ReplayEnd(b) > NBlocks THEN [ok |-> FALSE, at |-> <<>>, next |-> b]
    ELSE LET rest == w[ReplayEnd(b)]
         IN  [rest EXCEPT !.at = [x \in DOMAIN @ \cup {block[b].obj} |->
                                      IF x \in DOMAIN @ THEN @[x] ELSE b]]
IsWalk(w, k) == w = [b \in NBlocks - k .. NBlocks |-> Walked(w, b)]

\* A walk only looks at what comes after.
LEMMA WalkedLater ==
    ASSUME CASAssumption, block \in [LBAs -> StoreCells], NEW b \in 0 .. NBlocks, NEW v, NEW w,
           \A c \in b + 1 .. NBlocks : v[c] = w[c]
    PROVE  Walked(v, b) = Walked(w, b)
<1>1. CASE b = NBlocks \/ block[b] = Vacant \/ block[b].part # 1 \/ ReplayEnd(b) > NBlocks
  BY <1>1 DEF Walked
<1>2. CASE ~(b = NBlocks \/ block[b] = Vacant \/ block[b].part # 1 \/ ReplayEnd(b) > NBlocks)
  <2>1. b \in LBAs /\ block[b] \in StoreCells
    BY <1>2 DEF CASAssumption, LBAs
  <2>2. block[b].obj \in Objects
    BY <1>2, <2>1 DEF StoreCells
  <2>3. ReplayEnd(b) \in b + 1 .. NBlocks
    BY <1>2, <2>1, <2>2 DEF ReplayEnd, CASAssumption, LBAs
  <2>4. v[ReplayEnd(b)] = w[ReplayEnd(b)]
    BY <2>3
  <2> QED BY <2>4 DEF Walked
<1> QED BY <1>1, <1>2

LEMMA WalkExists ==
    ASSUME CASAssumption, block \in [LBAs -> StoreCells]
    PROVE  \E w : IsWalk(w, NBlocks)
<1> DEFINE I == {k \in Nat : k <= NBlocks => \E w : IsWalk(w, k)}
<1>0. NBlocks \in Nat
  BY DEF CASAssumption
<1>1. 0 \in I
  <2> DEFINE w == [b \in NBlocks - 0 .. NBlocks |-> [ok |-> TRUE, at |-> <<>>, next |-> NBlocks]]
  <2>1. \A b \in NBlocks - 0 .. NBlocks : Walked(w, b) = [ok |-> TRUE, at |-> <<>>, next |-> NBlocks]
    <3> TAKE b \in NBlocks - 0 .. NBlocks
    <3>1. b = NBlocks
      BY <1>0
    <3> HIDE DEF w
    <3> QED BY <3>1 DEF Walked
  <2>2. IsWalk(w, 0)
    BY <2>1 DEF IsWalk
  <2> QED BY <2>2
<1>2. ASSUME NEW k \in Nat, k \in I PROVE k + 1 \in I
  <2> SUFFICES ASSUME k + 1 <= NBlocks PROVE \E w : IsWalk(w, k + 1)
    OBVIOUS
  <2>1. PICK v : IsWalk(v, k)
    BY <1>0, <1>2
  <2> DEFINE a == NBlocks - (k + 1)
             w == [b \in a .. NBlocks |-> IF b = a THEN Walked(v, a) ELSE v[b]]
  <2>2. a \in Nat /\ a + 1 = NBlocks - k /\ a <= NBlocks
    BY <1>0
  <2>3. \A b \in a + 1 .. NBlocks : w[b] = v[b] /\ v[b] = Walked(v, b)
    <3> TAKE b \in a + 1 .. NBlocks
    <3>1. b \in a .. NBlocks /\ b # a /\ b \in NBlocks - k .. NBlocks
      BY <1>0, <2>2
    <3>2. w[b] = v[b]
      BY <3>1
    <3>3. v[b] = Walked(v, b)
      <4> HIDE DEF w
      <4> QED BY <2>1, <3>1 DEF IsWalk
    <3> QED BY <3>2, <3>3
  <2>4. \A b \in a .. NBlocks : Walked(w, b) = Walked(v, b)
    <3> SUFFICES ASSUME NEW b \in a .. NBlocks PROVE Walked(w, b) = Walked(v, b)
      OBVIOUS
    <3>1. b \in 0 .. NBlocks
      BY <1>0, <2>2
    <3>2. \A c \in b + 1 .. NBlocks : w[c] = v[c]
      BY <1>0, <2>2, <2>3, <3>1
    <3> HIDE DEF w
    <3> QED BY <3>1, <3>2, WalkedLater
  <2>5. \A b \in a .. NBlocks : w[b] = Walked(w, b)
    BY <1>0, <2>2, <2>3, <2>4
  <2>6. w = [b \in a .. NBlocks |-> w[b]]
    OBVIOUS
  <2>7. w = [b \in a .. NBlocks |-> Walked(w, b)]
    <3> HIDE DEF w, a
    <3> QED BY <2>5, <2>6
  <2>8. IsWalk(w, k + 1)
    BY <2>7 DEF IsWalk
  <2> QED BY <2>8
<1> HIDE DEF I
<1>3. NBlocks \in I
  BY <1>0, <1>1, <1>2, Induction
<1> QED BY <1>0, <1>3 DEF I

LEMMA ReplayIs ==
    ASSUME CASAssumption, block \in [LBAs -> StoreCells]
    PROVE  \A b \in 0 .. NBlocks : Replayed[b] = Walked(Replayed, b)
<1>1. \E w : w = [b \in 0 .. NBlocks |-> Walked(w, b)]
  <2>1. PICK w : IsWalk(w, NBlocks)
    BY WalkExists
  <2>2. NBlocks - NBlocks = 0
    BY DEF CASAssumption
  <2> QED BY <2>1, <2>2 DEF IsWalk
<1>2. Replayed = CHOOSE w : w = [b \in 0 .. NBlocks |-> Walked(w, b)]
  BY DEF Replayed, Walked
<1>3. Replayed = [b \in 0 .. NBlocks |-> Walked(Replayed, b)]
  BY <1>1, <1>2
<1> QED BY <1>3

\* Where an object of a layout begins, its blocks are its own, and the object after it
\* begins where it ends.
LEMMA NextHeader ==
    ASSUME CASAssumption, NEW idx, NEW n, Layout(idx, n), NEW o \in DOMAIN idx
    PROVE  /\ idx[o] \in 0 .. NBlocks - 1 /\ block[idx[o]] = [obj |-> o, part |-> 1]
           /\ idx[o] + Length[o] = n \/ \E p \in DOMAIN idx : idx[p] = idx[o] + Length[o]
           /\ \A p \in DOMAIN idx : idx[p] > idx[o] => idx[p] >= idx[o] + Length[o]
<1>1. \A p \in DOMAIN idx : idx[p] \in Nat /\ Length[p] \in Nat /\ Length[p] >= 1 /\ idx[p] + Length[p] <= n
  BY DEF Layout, CASAssumption
<1>2. n \in Nat /\ n <= NBlocks /\ NBlocks \in Nat
  BY DEF Layout, CASAssumption
\* a block of p is a part of p
<1>3. ASSUME NEW p \in DOMAIN idx, NEW b \in Nat, idx[p] <= b, b < idx[p] + Length[p]
      PROVE  block[b] = [obj |-> p, part |-> b - idx[p] + 1]
  <2>1. b - idx[p] + 1 \in Parts(p) /\ idx[p] + (b - idx[p] + 1) - 1 = b
    BY <1>1, <1>3 DEF Parts
  <2> QED BY <2>1 DEF Layout
<1>4. block[idx[o]] = [obj |-> o, part |-> 1]
  BY <1>1, <1>3
<1>5. ASSUME NEW p \in DOMAIN idx, idx[p] > idx[o] PROVE idx[p] >= idx[o] + Length[o]
  <2> SUFFICES ASSUME idx[p] < idx[o] + Length[o] PROVE FALSE
    BY <1>1
  <2>1. block[idx[p]] = [obj |-> p, part |-> idx[p] - idx[p] + 1]
    <3>1. idx[p] \in Nat /\ idx[p] < idx[p] + Length[p]
      BY <1>1
    <3> QED BY <1>3, <3>1
  <2>2. block[idx[p]] = [obj |-> o, part |-> idx[p] - idx[o] + 1]
    <3>1. idx[p] \in Nat /\ idx[o] <= idx[p]
      BY <1>1, <1>5
    <3> QED BY <1>3, <3>1
  <2>3. p = o
    BY <2>1, <2>2
  <2> QED BY <1>1, <1>5, <2>3
<1>6. ASSUME idx[o] + Length[o] # n PROVE \E p \in DOMAIN idx : idx[p] = idx[o] + Length[o]
  <2> DEFINE e == idx[o] + Length[o]
  <2>1. e \in 1 .. n - 1
    BY <1>1, <1>2, <1>6
  <2>2. PICK p \in DOMAIN idx : idx[p] <= e /\ e < idx[p] + Length[p]
    BY <1>2, <2>1 DEF Layout
  <2>3. CASE idx[p] < e
    <3>1. idx[p] <= e - 1 /\ e - 1 < idx[p] + Length[p] /\ idx[o] <= e - 1 /\ e - 1 < e /\ e - 1 \in Nat
      BY <1>1, <2>1, <2>2, <2>3
    <3> HIDE DEF e
    <3>2. block[e - 1] = [obj |-> p, part |-> e - 1 - idx[p] + 1] /\ e - 1 < idx[o] + Length[o]
      BY <1>3, <3>1 DEF e
    <3>3. block[e - 1] = [obj |-> o, part |-> e - 1 - idx[o] + 1]
      BY <1>3, <3>1, <3>2
    <3>4. p = o
      BY <3>2, <3>3
    <3> QED BY <1>1, <2>2, <3>4 DEF e
  <2> QED BY <1>1, <2>1, <2>2, <2>3
<1> QED BY <1>1, <1>2, <1>4, <1>5, <1>6

\* The walk from where an object begins, or from the end, finds the rest of the layout.
Found(idx, n, b) ==
    Replayed[b] = [ok |-> TRUE, at |-> [o \in {x \in DOMAIN idx : idx[x] >= b} |-> idx[o]], next |-> n]
Header(idx, n, b) == b = n \/ \E o \in DOMAIN idx : idx[o] = b

LEMMA FoundHere ==
    ASSUME CASAssumption, block \in [LBAs -> StoreCells], NEW idx, NEW n, Layout(idx, n),
           NEW b \in 0 .. NBlocks, Header(idx, n, b),
           \A c \in b + 1 .. NBlocks : Header(idx, n, c) => Found(idx, n, c)
    PROVE  Found(idx, n, b)
<1>1. n \in 0 .. NBlocks /\ NBlocks \in Nat
  BY DEF Layout, CASAssumption
<1>2. Replayed[b] = Walked(Replayed, b)
  BY ReplayIs
<1>3. CASE b = n
  <2>1. b = NBlocks \/ block[b] = Vacant
    BY <1>1, <1>3 DEF Layout
  <2>2. Replayed[b] = [ok |-> TRUE, at |-> <<>>, next |-> n]
    BY <1>2, <1>3, <2>1 DEF Walked
  <2>3. {x \in DOMAIN idx : idx[x] >= b} = {}
    BY <1>1, <1>3 DEF Layout, CASAssumption
  <2>4. [o \in {x \in DOMAIN idx : idx[x] >= b} |-> idx[o]] = <<>>
    BY <2>3
  <2> QED BY <2>2, <2>4 DEF Found
<1>4. ASSUME b # n, NEW o \in DOMAIN idx, idx[o] = b PROVE Found(idx, n, b)
  <2>1. /\ b \in 0 .. NBlocks - 1 /\ block[b] = [obj |-> o, part |-> 1]
        /\ b + Length[o] = n \/ \E p \in DOMAIN idx : idx[p] = b + Length[o]
        /\ \A p \in DOMAIN idx : idx[p] > b => idx[p] >= b + Length[o]
    BY <1>4, NextHeader
  <2>2. Length[o] \in Nat /\ Length[o] >= 1 /\ b + Length[o] <= n
    BY <1>4 DEF Layout, CASAssumption
  <2> DEFINE e == b + Length[o]
             rest == Replayed[e]
  <2>3. e \in b + 1 .. NBlocks /\ Header(idx, n, e)
    BY <1>1, <2>1, <2>2 DEF Header
  <2>4. rest = [ok |-> TRUE, at |-> [p \in {x \in DOMAIN idx : idx[x] >= e} |-> idx[p]], next |-> n]
    BY <2>3 DEF Found
  <2>5. block[b] # Vacant
    BY <1>4, <2>1 DEF Vacant
  <2>6. ReplayEnd(b) = e /\ block[b].obj = o /\ block[b].part = 1
    BY <2>1 DEF ReplayEnd
  <2>7. Replayed[b] = [rest EXCEPT !.at = [x \in DOMAIN rest.at \cup {o} |->
                                              IF x \in DOMAIN rest.at THEN rest.at[x] ELSE b]]
    <3>1. ~(e > NBlocks) /\ b # NBlocks
      BY <1>1, <2>1, <2>3
    <3> HIDE DEF e
    <3> QED BY <1>2, <2>5, <2>6, <3>1 DEF Walked
  <2>8. {x \in DOMAIN idx : idx[x] >= b} = {x \in DOMAIN idx : idx[x] >= e} \cup {o}
    <3>1. \A x \in DOMAIN idx : idx[x] \in Nat /\ Length[x] >= 1 /\ Length[x] \in Nat
      BY DEF Layout, CASAssumption
    <3>2. \A x \in DOMAIN idx : idx[x] = b => x = o
      <4> TAKE x \in DOMAIN idx
      <4>1. block[idx[x]] = [obj |-> x, part |-> 1]
        BY NextHeader
      <4> QED BY <2>1, <4>1
    <3> QED BY <1>4, <2>1, <2>2, <3>1, <3>2
  <2>9. [x \in DOMAIN rest.at \cup {o} |-> IF x \in DOMAIN rest.at THEN rest.at[x] ELSE b]
          = [x \in {y \in DOMAIN idx : idx[y] >= b} |-> idx[x]]
    <3>1. DOMAIN rest.at = {x \in DOMAIN idx : idx[x] >= e} /\ \A x \in DOMAIN rest.at : rest.at[x] = idx[x]
      BY <2>4
    <3> HIDE DEF rest, e
    <3> QED BY <1>4, <2>8, <3>1
  <2>10. rest.ok = TRUE /\ rest.next = n
    BY <2>4
  <2>11. Replayed[b] = [ok |-> TRUE, at |-> [x \in {y \in DOMAIN idx : idx[y] >= b} |-> idx[x]], next |-> n]
    <3> DEFINE A == [x \in {y \in DOMAIN idx : idx[y] >= b} |-> idx[x]]
               B == [p \in {x \in DOMAIN idx : idx[x] >= e} |-> idx[p]]
               R == [x \in DOMAIN rest.at \cup {o} |-> IF x \in DOMAIN rest.at THEN rest.at[x] ELSE b]
    <3>1. rest = [ok |-> TRUE, at |-> B, next |-> n] /\ R = A /\ Replayed[b] = [rest EXCEPT !.at = R]
      BY <2>4, <2>7, <2>9
    <3> HIDE DEF e, rest, A, B, R
    <3>2. Replayed[b] = [ok |-> TRUE, at |-> A, next |-> n]
      BY <3>1
    <3> QED BY <3>2 DEF A
  <2> QED BY <2>11 DEF Found
<1> QED BY <1>3, <1>4 DEF Header

\* The walk of the whole device.
LEMMA ReplayFinds ==
    ASSUME CASAssumption, block \in [LBAs -> StoreCells], NEW idx, NEW n, idx = [x \in DOMAIN idx |-> idx[x]],
           Layout(idx, n)
    PROVE  Replayed[0] = [ok |-> TRUE, at |-> idx, next |-> n]
<1> DEFINE I == {k \in Nat : \A b \in 0 .. NBlocks : b >= NBlocks - k /\ Header(idx, n, b) => Found(idx, n, b)}
<1>0. NBlocks \in Nat /\ n \in 0 .. NBlocks
  BY DEF Layout, CASAssumption
<1>7. \A o \in DOMAIN idx : idx[o] \in Nat
  BY DEF Layout
<1>1. 0 \in I
  <2> SUFFICES ASSUME NEW b \in 0 .. NBlocks, b >= NBlocks - 0, Header(idx, n, b) PROVE Found(idx, n, b)
    OBVIOUS
  <2>1. \A c \in b + 1 .. NBlocks : FALSE
    BY <1>0
  <2> QED BY <2>1, FoundHere
<1>2. ASSUME NEW k \in Nat, k \in I PROVE k + 1 \in I
  <2> SUFFICES ASSUME NEW b \in 0 .. NBlocks, b >= NBlocks - (k + 1), Header(idx, n, b) PROVE Found(idx, n, b)
    OBVIOUS
  <2>1. \A c \in b + 1 .. NBlocks : c \in 0 .. NBlocks /\ c >= NBlocks - k
    BY <1>0
  <2>2. \A c \in b + 1 .. NBlocks : Header(idx, n, c) => Found(idx, n, c)
    BY <1>2, <2>1
  <2> QED BY <2>2, FoundHere
<1> HIDE DEF I
<1>3. NBlocks \in I
  BY <1>0, <1>1, <1>2, Induction
<1>4. Header(idx, n, 0)
  <2>1. CASE n # 0
    <3>0. 0 \in 0 .. n - 1
      BY <1>0, <2>1
    <3>1. PICK o \in DOMAIN idx : idx[o] <= 0
      BY <3>0 DEF Layout
    <3>2. idx[o] = 0
      BY <3>1, <1>7
    <3> QED BY <3>2 DEF Header
  <2> QED BY <2>1 DEF Header
<1>5. Found(idx, n, 0)
  BY <1>0, <1>3, <1>4 DEF I
<1>6. {x \in DOMAIN idx : idx[x] >= 0} = DOMAIN idx
  BY <1>7
<1> QED BY <1>5, <1>6 DEF Found

-----------------------------------------------------------------------------
(* The calls.                                                              *)

Plus(o) == [x \in DOMAIN index \cup {o} |-> IF x = o THEN next ELSE index[x]]

LEMMA StoreInit == CASAssumption /\ CASInit => StoreInv
<1> SUFFICES ASSUME CASAssumption, CASInit PROVE StoreInv
  OBVIOUS
<1>1. NBlocks \in Nat /\ 0 \in 0 .. NBlocks
  BY DEF CASAssumption
<1>2. block = [b \in LBAs |-> Vacant] /\ index = <<>> /\ next = 0 /\ putting = {} /\ stored = {} /\ open = "open"
  BY DEF CASInit
<1>3. Vacant \in StoreCells
  BY DEF StoreCells
<1>4. block \in [LBAs -> StoreCells]
  BY <1>2, <1>3
<1>5. DOMAIN index = {} /\ index = [x \in DOMAIN index |-> index[x]]
  BY <1>2
<1>6. \A b \in 0 .. NBlocks - 1 : block[b] = Vacant
  BY <1>2 DEF LBAs
<1>7. Layout(index, next)
  <2>1. \A b \in 0 .. 0 - 1 : FALSE
    OBVIOUS
  <2> QED BY <1>1, <1>2, <1>5, <1>6, <2>1 DEF Layout
<1> QED BY <1>2, <1>4, <1>5, <1>7 DEF StoreInv

\* A write puts the object after those of the index.
LEMMA WriteWrites ==
    ASSUME CASAssumption, StoreInv, NEW o \in Objects, PutWrite(o)
    PROVE  StoreInv'
<1>1. /\ open = "open" /\ putting = {} /\ o \notin DOMAIN index /\ next + Length[o] <= NBlocks
      /\ block' = [b \in LBAs |-> IF b - next + 1 \in Parts(o) THEN [obj |-> o, part |-> b - next + 1] ELSE block[b]]
      /\ putting' = {o} /\ index' = index /\ next' = next /\ stored' = stored /\ open' = open
  BY DEF PutWrite
<1>2. Layout(index, next) /\ next \in Nat /\ NBlocks \in Nat /\ stored \subseteq DOMAIN index /\ block \in [LBAs -> StoreCells]
  BY <1>1 DEF StoreInv, CASAssumption
<1>3. Length[o] \in Nat /\ Length[o] >= 1
  BY DEF CASAssumption
<1>4. \A b \in LBAs : b < next \/ next + Length[o] <= b => block'[b] = block[b]
  <2> TAKE b \in LBAs
  <2> HAVE b < next \/ next + Length[o] <= b
  <2>1. b \in Int
    BY DEF LBAs
  <2>2. b - next + 1 \notin Parts(o)
    BY <1>2, <1>3, <2>1 DEF Parts
  <2> QED BY <1>1, <2>2
<1>5. \A i \in Parts(o) : block'[next + i - 1] = [obj |-> o, part |-> i]
  <2> TAKE i \in Parts(o)
  <2>1. next + i - 1 \in LBAs /\ (next + i - 1) - next + 1 = i
    BY <1>1, <1>2, <1>3 DEF Parts, LBAs
  <2> QED BY <1>1, <2>1
<1>6. block' \in [LBAs -> StoreCells]
  <2> SUFFICES ASSUME NEW b \in LBAs PROVE block'[b] \in StoreCells
    BY <1>1
  <2>1. CASE b - next + 1 \in Parts(o)
    <3>1. block'[b] = [obj |-> o, part |-> b - next + 1] /\ b - next + 1 \in Nat
      BY <1>1, <1>3, <2>1 DEF Parts
    <3> QED BY <3>1 DEF StoreCells
  <2>2. CASE b - next + 1 \notin Parts(o)
    BY <1>1, <1>2, <2>2
  <2> QED BY <2>1, <2>2
<1> DEFINE x == Plus(o)
<1>7. DOMAIN x = DOMAIN index \cup {o} /\ x[o] = next /\ \A p \in DOMAIN index : p # o /\ x[p] = index[p]
  BY <1>1 DEF Plus
<1> HIDE DEF x
<1>8. Layout(x, next + Length[o])'
  <2>0. \A p \in DOMAIN index : index[p] \in Nat /\ Length[p] \in Nat /\ Length[p] >= 1 /\ index[p] + Length[p] <= next
    BY <1>2 DEF Layout, CASAssumption
  <2>1. DOMAIN x \subseteq Objects /\ next + Length[o] \in 0 .. NBlocks
    BY <1>1, <1>2, <1>3, <1>7 DEF Layout
  <2>2. \A p \in DOMAIN x : x[p] \in Nat /\ x[p] + Length[p] <= next + Length[o]
    BY <1>2, <1>3, <1>7, <2>0
  <2>3. ASSUME NEW p \in DOMAIN x, NEW i \in Parts(p) PROVE block'[x[p] + i - 1] = [obj |-> p, part |-> i]
    <3>1. CASE p = o
      BY <1>5, <1>7, <3>1
    <3>2. CASE p # o
      <4>1. p \in DOMAIN index /\ x[p] = index[p]
        BY <1>7, <3>2
      <4>2. index[p] + i - 1 \in LBAs /\ index[p] + i - 1 < next
        BY <1>1, <1>2, <1>3, <2>0, <4>1 DEF Parts, LBAs
      <4>3. block[index[p] + i - 1] = [obj |-> p, part |-> i]
        BY <1>2, <4>1 DEF Layout
      <4> QED BY <1>4, <4>1, <4>2, <4>3
    <3> QED BY <3>1, <3>2
  <2>4. ASSUME NEW b \in 0 .. (next + Length[o]) - 1 PROVE \E p \in DOMAIN x : x[p] <= b /\ b < x[p] + Length[p]
    <3>1. CASE b < next
      <4>1. PICK p \in DOMAIN index : index[p] <= b /\ b < index[p] + Length[p]
        BY <1>2, <3>1 DEF Layout
      <4> QED BY <1>7, <4>1
    <3>2. CASE b >= next
      BY <1>2, <1>3, <1>7, <3>2
    <3> QED BY <1>2, <3>1, <3>2
  <2>5. ASSUME NEW b \in next + Length[o] .. NBlocks - 1 PROVE block'[b] = Vacant
    <3>1. b \in LBAs /\ next + Length[o] <= b /\ b \in next .. NBlocks - 1
      BY <1>2, <1>3 DEF LBAs
    <3> QED BY <1>2, <1>4, <3>1 DEF Layout
  <2>6. x = x'
    BY <1>1 DEF x, Plus
  <2> QED BY <1>1, <2>1, <2>2, <2>3, <2>4, <2>5, <2>6 DEF Layout, Parts, Vacant
<1>9. Writing(o)'
  BY <1>1, <1>2, <1>8 DEF Writing, x, Plus
<1> QED BY <1>1, <1>2, <1>6, <1>9 DEF StoreInv, StoreCells, LBAs

\* What the writes in progress leave when nothing of them is kept.
LEMMA LeavesNothing ==
    ASSUME CASAssumption, ~TornWrites, StoreInv, open = "open", NEW lost, Left(lost)
    PROVE  block' \in [LBAs -> StoreCells] /\ \A idx, n : idx = index /\ n = next => Layout(idx, n)'
<1> SUFFICES ASSUME NEW idx, NEW n, idx = index, n = next PROVE block' \in [LBAs -> StoreCells] /\ Layout(idx, n)'
  OBVIOUS
<1>1. /\ lost = {b \in LBAs : block[b].obj \in putting}
      /\ block' = [b \in LBAs |-> IF b \in lost THEN Vacant ELSE block[b]]
  BY DEF Left
<1>2. block \in [LBAs -> StoreCells] /\ NBlocks \in Nat /\ next \in Nat
  BY DEF StoreInv, CASAssumption
<1>3. block' \in [LBAs -> StoreCells]
  BY <1>1, <1>2 DEF StoreCells
<1>4. CASE putting = {} /\ Layout(index, next)
  <2>1. block' = block
    BY <1>1, <1>2, <1>4
  <2> QED BY <1>3, <1>4, <2>1 DEF Layout, Parts, Vacant
<1>5. ASSUME NEW o, putting = {o}, Writing(o) PROVE Layout(idx, n)'
  <2> DEFINE x == Plus(o)
  <2>1. o \in Objects \ DOMAIN index /\ next + Length[o] <= NBlocks /\ Layout(x, next + Length[o])
    BY <1>5 DEF Writing, Plus
  <2>2. /\ DOMAIN x = DOMAIN index \cup {o} /\ x[o] = next /\ \A p \in DOMAIN index : p # o /\ x[p] = index[p]
        /\ Length[o] \in Nat /\ Length[o] >= 1
    BY <2>1 DEF Plus, CASAssumption
  <2> HIDE DEF x
  <2>3. /\ \A p \in DOMAIN x : p \in Objects /\ x[p] \in Nat /\ Length[p] \in Nat /\ Length[p] >= 1
                               /\ x[p] + Length[p] <= next + Length[o]
        /\ \A p \in DOMAIN x : \A i \in Parts(p) : block[x[p] + i - 1] = [obj |-> p, part |-> i]
        /\ \A b \in 0 .. (next + Length[o]) - 1 : \E p \in DOMAIN x : x[p] <= b /\ b < x[p] + Length[p]
        /\ \A b \in next + Length[o] .. NBlocks - 1 : block[b] = Vacant
    BY <2>1 DEF Layout, CASAssumption
  <2>4. ASSUME NEW p \in DOMAIN x, NEW b \in Nat, x[p] <= b, b < x[p] + Length[p]
        PROVE  b \in LBAs /\ block[b] = [obj |-> p, part |-> b - x[p] + 1]
    <3>0. x[p] \in Nat /\ Length[p] \in Nat /\ x[p] + Length[p] <= next + Length[o]
      BY <2>3
    <3> DEFINE i == b - x[p] + 1
    <3>1. i \in Parts(p) /\ x[p] + i - 1 = b /\ b \in LBAs
      <4>1. i \in 1 .. Length[p] /\ x[p] + i - 1 = b
        BY <2>4, <3>0
      <4>2. next + Length[o] \in Nat /\ NBlocks \in Nat
        BY <1>2, <2>1, <2>2 DEF CASAssumption
      <4>3. b \in 0 .. NBlocks - 1
        BY <2>1, <2>4, <3>0, <4>2
      <4> QED BY <4>1, <4>3 DEF Parts, LBAs
    <3> HIDE DEF i
    <3>2. block[x[p] + i - 1] = [obj |-> p, part |-> i]
      BY <2>3, <3>1
    <3> QED BY <3>1, <3>2 DEF i
  \* an object of the index ends before next, where o begins
  <2>5. ASSUME NEW p \in DOMAIN index PROVE x[p] + Length[p] <= next
    <3> SUFFICES ASSUME x[p] + Length[p] > next PROVE FALSE
      BY <1>2, <2>2, <2>3
    <3>0. p \in DOMAIN x /\ o \in DOMAIN x /\ p # o /\ x[p] \in Nat /\ Length[p] \in Nat /\ Length[o] \in Nat
          /\ Length[p] >= 1 /\ Length[o] >= 1 /\ x[o] = next /\ x[p] + Length[p] <= next + Length[o]
      BY <2>2, <2>3
    <3> DEFINE b == (x[p] + Length[p]) - 1
    <3>1. b \in Nat /\ x[p] <= b /\ b < x[p] + Length[p] /\ x[o] <= b /\ b < x[o] + Length[o]
      BY <1>2, <3>0
    <3> HIDE DEF b
    <3>2. block[b] = [obj |-> p, part |-> b - x[p] + 1]
      BY <2>4, <3>0, <3>1
    <3>3. block[b] = [obj |-> o, part |-> b - x[o] + 1]
      BY <2>4, <3>0, <3>1
    <3> QED BY <3>0, <3>2, <3>3
  <2>6. ASSUME NEW p \in DOMAIN index, NEW i \in Parts(p) PROVE block'[index[p] + i - 1] = [obj |-> p, part |-> i]
    <3>1. block[x[p] + i - 1] = [obj |-> p, part |-> i] /\ p \in DOMAIN x /\ x[p] = index[p] /\ p # o
      BY <2>2, <2>3
    <3>0. x[p] \in Nat /\ Length[p] \in Nat /\ x[p] + Length[p] <= next + Length[o]
      BY <2>3, <3>1
    <3>2. x[p] + i - 1 \in LBAs
      BY <1>2, <2>1, <2>2, <3>0 DEF Parts, LBAs
    <3>3. x[p] + i - 1 \notin lost
      BY <1>1, <1>5, <3>1
    <3> QED BY <1>1, <3>1, <3>2, <3>3
  <2>7. ASSUME NEW b \in 0 .. next - 1 PROVE \E p \in DOMAIN index : index[p] <= b /\ b < index[p] + Length[p]
    <3>1. b \in 0 .. (next + Length[o]) - 1
      BY <1>2, <2>2, <2>3
    <3>2. PICK p \in DOMAIN x : x[p] <= b /\ b < x[p] + Length[p]
      BY <2>3, <3>1
    <3>3. p # o
      BY <1>2, <2>2, <3>2
    <3> QED BY <2>2, <3>2, <3>3
  <2>8. ASSUME NEW b \in next .. NBlocks - 1 PROVE block'[b] = Vacant
    <3>1. b \in LBAs /\ b \in Nat
      BY <1>2 DEF LBAs
    <3>2. CASE b < next + Length[o]
      <4>1. block[b] = [obj |-> o, part |-> b - next + 1]
        <5>1. o \in DOMAIN x /\ x[o] = next /\ x[o] <= b /\ b < x[o] + Length[o]
          BY <1>2, <2>2, <3>1, <3>2
        <5> QED BY <2>4, <3>1, <5>1
      <4> QED BY <1>1, <1>5, <3>1, <4>1
    <3>3. CASE b >= next + Length[o]
      <4>1. b \in next + Length[o] .. NBlocks - 1
        BY <1>2, <2>2, <2>3, <3>3
      <4> QED BY <1>1, <2>3, <3>1, <4>1
    <3> QED BY <1>2, <2>2, <2>3, <3>1, <3>2, <3>3
  <2>9. next \in 0 .. NBlocks /\ DOMAIN index \subseteq Objects
    BY <1>2, <2>1, <2>2, <2>3
  <2>10. \A p \in DOMAIN index : index[p] \in Nat /\ index[p] + Length[p] <= next
    BY <2>2, <2>3, <2>5
  <2> QED BY <2>6, <2>7, <2>8, <2>9, <2>10 DEF Layout, Parts, Vacant
<1> QED BY <1>3, <1>4, <1>5 DEF StoreInv

LEMMA FailLeavesNothing ==
    ASSUME CASAssumption, ~TornWrites, StoreInv, NEW lost, PutFails(lost)
    PROVE  StoreInv'
<1>1. /\ open = "open" /\ Left(lost) /\ putting' = {} /\ index' = index /\ next' = next
      /\ stored' = stored /\ open' = open
  BY DEF PutFails
<1>2. block' \in [LBAs -> StoreCells] /\ Layout(index, next)'
  <2>1. PICK idx, n : idx = index /\ n = next
    OBVIOUS
  <2>2. block' \in [LBAs -> StoreCells] /\ Layout(idx, n)'
    BY <1>1, <2>1, LeavesNothing
  <2> QED BY <1>1, <2>1, <2>2 DEF Layout, Parts, Vacant
<1>3. stored \subseteq DOMAIN index /\ stored \subseteq Objects /\ index = [x \in DOMAIN index |-> index[x]] /\ next \in Nat
  BY <1>1 DEF StoreInv
<1> QED BY <1>1, <1>2, <1>3 DEF StoreInv, LBAs, StoreCells, Vacant

\* The index takes what the write put on the device.
LEMMA FlushIndexes ==
    ASSUME CASAssumption, StoreInv, PutFlush
    PROVE  StoreInv'
<1>1. PICK o \in putting :
          /\ index' = Plus(o) /\ next' = next + Length[o] /\ stored' = stored \cup {o}
          /\ putting' = {} /\ block' = block /\ open' = open /\ open = "open"
  BY DEF PutFlush, Plus
<1>2. putting = {o} /\ Writing(o) /\ stored \subseteq DOMAIN index /\ stored \subseteq Objects /\ block \in [LBAs -> StoreCells] /\ next \in Nat
  BY <1>1 DEF StoreInv
<1>3. o \in Objects /\ Layout(Plus(o), next + Length[o]) /\ DOMAIN Plus(o) = DOMAIN index \cup {o} /\ Length[o] \in Nat
  BY <1>2 DEF Writing, Plus, CASAssumption
<1>4. Plus(o) = [x \in DOMAIN Plus(o) |-> Plus(o)[x]]
  BY DEF Plus
<1> DEFINE x == Plus(o)
           n == next + Length[o]
<1>5. /\ index' = x /\ next' = n /\ Layout(x, n) /\ DOMAIN x = DOMAIN index \cup {o}
      /\ x = [p \in DOMAIN x |-> x[p]] /\ n \in Nat
  BY <1>1, <1>2, <1>3, <1>4
<1> HIDE DEF x, n
<1>6. Layout(index, next)'
  BY <1>1, <1>5 DEF Layout, Parts, Vacant
<1>7. index' = [p \in DOMAIN index' |-> index'[p]] /\ next' \in Nat
  BY <1>5
<1>8. stored' \subseteq DOMAIN index' /\ stored' \subseteq Objects
  BY <1>1, <1>2, <1>3, <1>5
<1> QED BY <1>1, <1>2, <1>6, <1>7, <1>8 DEF StoreInv, LBAs, StoreCells, Vacant

\* What a stop leaves is laid out too: with the object in progress, or without it.
LEMMA CrashLeavesWhole ==
    ASSUME CASAssumption, ~TornWrites, StoreInv, NEW lost, CASCrash(lost)
    PROVE  StoreInv'
<1>1. /\ open = "open" /\ putting' = {} /\ index' = <<>> /\ next' = 0 /\ stored' = stored /\ open' = "down"
      /\ Left(lost) \/ block' = block
  BY DEF CASCrash
<1>2. stored \subseteq DOMAIN index /\ stored \subseteq Objects /\ index = [x \in DOMAIN index |-> index[x]]
      /\ block \in [LBAs -> StoreCells]
  BY <1>1 DEF StoreInv
<1>3. block' \in [LBAs -> StoreCells] /\ Laid'
  <2>1. CASE block' = block
    <3>1. \E idx, n : idx = [x \in DOMAIN idx |-> idx[x]] /\ Layout(idx, n) /\ stored \subseteq DOMAIN idx
      <4>1. CASE putting = {} /\ Layout(index, next)
        BY <1>2, <4>1
      <4>2. ASSUME NEW o, putting = {o}, Writing(o)
            PROVE  \E idx, n : idx = [x \in DOMAIN idx |-> idx[x]] /\ Layout(idx, n) /\ stored \subseteq DOMAIN idx
        <5>1. Layout(Plus(o), next + Length[o]) /\ DOMAIN index \subseteq DOMAIN Plus(o)
              /\ Plus(o) = [x \in DOMAIN Plus(o) |-> Plus(o)[x]]
          BY <4>2 DEF Writing, Plus
        <5> HIDE DEF Plus
        <5> QED BY <1>2, <5>1
      <4> QED BY <1>1, <4>1, <4>2 DEF StoreInv
    <3>2. PICK idx, n : idx = [x \in DOMAIN idx |-> idx[x]] /\ Layout(idx, n) /\ stored \subseteq DOMAIN idx
      BY <3>1
    <3>3. Layout(idx, n)'
      BY <2>1, <3>2 DEF Layout, Parts, Vacant
    <3> QED BY <1>1, <1>2, <2>1, <3>2, <3>3 DEF Laid
  <2>2. CASE Left(lost)
    <3>1. PICK idx, n : idx = index /\ n = next
      OBVIOUS
    <3>2. block' \in [LBAs -> StoreCells] /\ Layout(idx, n)'
      BY <1>1, <2>2, <3>1, LeavesNothing
    <3>3. idx = [x \in DOMAIN idx |-> idx[x]] /\ stored' \subseteq DOMAIN idx
      BY <1>1, <1>2, <3>1
    <3> QED BY <3>2, <3>3 DEF Laid
  <2> QED BY <1>1, <2>1, <2>2
<1>4. index' = [x \in DOMAIN index' |-> index'[x]] /\ next' \in Nat
  BY <1>1
<1> QED BY <1>1, <1>2, <1>3, <1>4 DEF StoreInv, LBAs, StoreCells, Vacant

\* The walk finds what the device holds.
LEMMA ReopenFinds ==
    ASSUME CASAssumption, StoreInv, Reopen
    PROVE  StoreInv'
<1>1. /\ open = "down" /\ block' = block /\ putting' = putting /\ stored' = stored
      /\ open' = (IF Replayed[0].ok THEN "open" ELSE "refused")
      /\ index' = Replayed[0].at /\ next' = Replayed[0].next
  BY DEF Reopen
<1>2. putting = {} /\ Laid /\ block \in [LBAs -> StoreCells] /\ stored \subseteq Objects
  BY <1>1 DEF StoreInv
<1>3. PICK idx, n : idx = [x \in DOMAIN idx |-> idx[x]] /\ Layout(idx, n) /\ stored \subseteq DOMAIN idx
  BY <1>2 DEF Laid
<1>4. Replayed[0] = [ok |-> TRUE, at |-> idx, next |-> n]
  BY <1>2, <1>3, ReplayFinds
<1>5. open' = "open" /\ index' = idx /\ next' = n
  BY <1>1, <1>4
<1>6. Layout(index, next)'
  BY <1>1, <1>3, <1>5 DEF Layout, Parts, Vacant
<1>7. n \in Nat
  BY <1>3 DEF Layout
<1> QED BY <1>1, <1>2, <1>3, <1>5, <1>6, <1>7 DEF StoreInv, LBAs, StoreCells, Vacant

\* Every step keeps the invariant.
LEMMA StoreNext ==
    ASSUME CASAssumption, ~TornWrites, StoreInv, [CASNext]_CASVars
    PROVE  StoreInv'
<1>1. CASE UNCHANGED CASVars
  <2>1. /\ block' = block /\ index' = index /\ next' = next /\ putting' = putting
        /\ stored' = stored /\ open' = open
    BY <1>1 DEF CASVars
  <2>2. ASSUME NEW idx, NEW n, Layout(idx, n) PROVE Layout(idx, n)'
    BY <2>1, <2>2 DEF Layout, Parts, Vacant
  <2>3. Laid => Laid'
    BY <2>1, <2>2 DEF Laid
  <2>4. Layout(index, next) => Layout(index, next)'
    BY <2>1 DEF Layout, Parts, Vacant
  <2>5. ASSUME NEW o, Writing(o) PROVE Writing(o)'
    <3>1. PICK x, n : x = Plus(o) /\ n = next + Length[o]
      OBVIOUS
    <3>2. Layout(x, n) /\ o \in Objects \ DOMAIN index /\ next + Length[o] <= NBlocks
      BY <2>5, <3>1 DEF Writing, Plus
    <3>3. Layout(x, n)'
      BY <2>2, <3>2
    <3>4. x = Plus(o)' /\ n = next' + Length[o]
      BY <2>1, <3>1 DEF Plus
    <3> QED BY <2>1, <3>2, <3>3, <3>4 DEF Writing, Plus
  <2>6. (block \in [LBAs -> StoreCells])' /\ (stored \subseteq Objects)' /\ (next \in Nat)'
    BY <2>1 DEF StoreInv, LBAs, StoreCells, Vacant
  <2>7. (index = [x \in DOMAIN index |-> index[x]])'
    BY <2>1 DEF StoreInv
  <2> QED BY <2>1, <2>3, <2>4, <2>5, <2>6, <2>7 DEF StoreInv
<1>2. ASSUME NEW o \in Objects, PutKnown(o) PROVE StoreInv'
  <2>1. /\ open = "open" /\ putting = {} /\ o \in DOMAIN index /\ stored' = stored \cup {o}
        /\ block' = block /\ index' = index /\ next' = next /\ putting' = putting /\ open' = open
    BY <1>2 DEF PutKnown
  <2>2. Layout(index, next)'
    BY <2>1 DEF StoreInv, Layout, Parts, Vacant
  <2>3. stored' \subseteq DOMAIN index' /\ stored' \subseteq Objects
    BY <2>1 DEF StoreInv
  <2> QED BY <2>1, <2>2, <2>3 DEF StoreInv, LBAs, StoreCells, Vacant
<1>3. ASSUME NEW o \in Objects, PutWrite(o) PROVE StoreInv'
  BY <1>3, WriteWrites
<1>4. CASE PutFlush
  BY <1>4, FlushIndexes
<1>5. CASE Reopen
  BY <1>5, ReopenFinds
<1>6. ASSUME NEW lost, PutFails(lost) PROVE StoreInv'
  BY <1>6, FailLeavesNothing
<1>7. ASSUME NEW lost, CASCrash(lost) PROVE StoreInv'
  BY <1>7, CrashLeavesWhole
<1> QED BY <1>1, <1>2, <1>3, <1>4, <1>5, <1>6, <1>7 DEF CASNext

\* Every object whose Put returned is found with its content by every later process,
\* and no opening is refused (CAS.Put, CAS.Get, replay), as long as a stop keeps a
\* write whole or not at all.
THEOREM Kept ==
    ASSUME CASAssumption, ~TornWrites
    PROVE  CASSpec => [](ContentKept /\ CASTypeOK)
<1>1. ASSUME StoreInv PROVE ContentKept /\ CASTypeOK
  <2>1. CASE open = "down"
    <3>1. index = <<>> /\ next = 0 /\ putting = {} /\ 0 \in 0 .. NBlocks /\ stored \subseteq Objects
      BY <1>1, <2>1 DEF StoreInv, CASAssumption
    <3>2. DOMAIN index = {}
      BY <3>1
    <3> QED BY <2>1, <3>1, <3>2 DEF ContentKept, CASTypeOK
  <2>2. CASE open = "open" /\ putting = {} /\ Layout(index, next)
    <3>1. stored \subseteq Objects /\ stored \subseteq DOMAIN index
      BY <1>1, <2>2 DEF StoreInv
    <3>2. CASTypeOK
      BY <2>2, <3>1 DEF CASTypeOK, Layout
    <3>3. \A o \in stored : Gets(o)
      BY <2>2, <3>1 DEF Gets, Layout
    <3> QED BY <2>2, <3>2, <3>3 DEF ContentKept
  <2>3. ASSUME open = "open", NEW o, putting = {o}, Writing(o) PROVE ContentKept /\ CASTypeOK
    <3>1. stored \subseteq Objects /\ stored \subseteq DOMAIN index /\ next \in Nat
      BY <1>1, <2>3 DEF StoreInv
    <3> DEFINE x == Plus(o)
    <3>2. Layout(x, next + Length[o]) /\ o \in Objects /\ o \notin DOMAIN index /\ next + Length[o] <= NBlocks
      BY <2>3 DEF Writing, Plus
    <3>3. DOMAIN x = DOMAIN index \cup {o} /\ x[o] = next /\ \A p \in DOMAIN index : x[p] = index[p]
      BY <3>2 DEF Plus
    <3> HIDE DEF x
    <3>4. \A p \in DOMAIN index : \A i \in Parts(p) : block[index[p] + i - 1] = [obj |-> p, part |-> i]
      BY <3>2, <3>3 DEF Layout
    <3>5. ContentKept
      BY <2>3, <3>1, <3>4 DEF ContentKept, Gets
    <3>6. ASSUME NEW p \in DOMAIN index PROVE index[p] + Length[p] <= next
      <4>1. p \in DOMAIN x /\ o \in DOMAIN x /\ p # o /\ p \in Objects /\ x[p] = index[p]
        BY <3>2, <3>3, <3>6 DEF Layout
      <4>2. index[p] \in Nat /\ Length[p] \in Nat \ {0} /\ Length[o] \in Nat \ {0} /\ index[p] + Length[p] <= next + Length[o]
        BY <1>1, <3>2, <4>1 DEF Layout, CASAssumption
      <4>3. index[p] < next \/ index[p] >= next + Length[o] \/ index[p] \in next .. next + Length[o] - 1
        BY <3>1, <4>2
      <4>4. index[p] # next
        <5>1. block[x[o]] = [obj |-> o, part |-> 1] /\ block[x[p]] = [obj |-> p, part |-> 1]
          BY <1>1, <3>2, <4>1, NextHeader
        <5>2. x[o] # x[p]
          BY <4>1, <5>1
        <5> QED BY <3>3, <4>1, <5>2
      <4>5. x[p] > x[o] => x[p] >= x[o] + Length[o]
        BY <1>1, <3>2, <4>1, NextHeader
      <4>6. x[o] > x[p] => x[o] >= x[p] + Length[p]
        BY <1>1, <3>2, <4>1, NextHeader
      <4> QED BY <3>1, <3>3, <4>1, <4>2, <4>4, <4>5, <4>6
    <3>7. CASTypeOK
      <4>1. next \in 0 .. NBlocks
        BY <1>1, <3>1, <3>2 DEF CASAssumption
      <4>2. putting \subseteq Objects
        BY <2>3, <3>2
      <4> QED BY <3>1, <3>6, <4>1, <4>2 DEF CASTypeOK
    <3> QED BY <3>5, <3>7
  <2> QED BY <1>1, <2>1, <2>2, <2>3 DEF StoreInv
<1>2. CASInit => StoreInv
  BY StoreInit
<1>3. StoreInv /\ [CASNext]_CASVars => StoreInv'
  BY StoreNext
<1>4. StoreInv => ContentKept /\ CASTypeOK
  BY <1>1
<1> QED BY <1>2, <1>3, <1>4, PTL DEF CASSpec

-----------------------------------------------------------------------------
(* A segment of one of the logs.                                           *)

Cell == [rec : Nat, part : Nat, of : Nat]
PartOf(c, i) == [rec |-> c.rec, part |-> i, of |-> c.of]

\* The cells of a segment are those of records, one after the other, but that the last
\* may be cut.
Row(f) ==
    /\ f \in Seq(Cell)
    /\ \A p \in 1 .. Len(f) : f[p].part \in 1 .. f[p].of /\ (p = 1 => f[p].part = 1)
    /\ \A p \in 1 .. Len(f) - 1 : IF f[p].part = f[p].of THEN f[p + 1].part = 1
                                  ELSE f[p + 1] = PartOf(f[p], f[p].part + 1)
Complete(f) == f # <<>> => f[Len(f)].part = f[Len(f)].of

LEMMA RowTypes ==
    ASSUME NEW f, Row(f)
    PROVE  /\ Len(f) \in Nat
           /\ \A p \in 1 .. Len(f) : /\ f[p] \in Cell /\ f[p].rec \in Nat /\ f[p].part \in Nat /\ f[p].of \in Nat
                                     /\ f[p].part >= 1 /\ f[p].part <= f[p].of
                                     /\ f[p] = PartOf(f[p], f[p].part)
<1>1. f \in Seq(Cell) /\ Len(f) \in Nat
  BY DEF Row
<1> SUFFICES ASSUME NEW p \in 1 .. Len(f)
             PROVE  /\ f[p] \in Cell /\ f[p].rec \in Nat /\ f[p].part \in Nat /\ f[p].of \in Nat
                    /\ f[p].part >= 1 /\ f[p].part <= f[p].of /\ f[p] = PartOf(f[p], f[p].part)
  BY <1>1
<1>2. f[p] \in Cell /\ f[p].part \in 1 .. f[p].of
  BY <1>1 DEF Row
<1>3. f[p].rec \in Nat /\ f[p].part \in Nat /\ f[p].of \in Nat /\ f[p] = PartOf(f[p], f[p].part)
  BY <1>2 DEF Cell, PartOf
<1> QED BY <1>2, <1>3

LEMMA PartIs == \A c, i : PartOf(c, i).rec = c.rec /\ PartOf(c, i).part = i /\ PartOf(c, i).of = c.of
BY DEF PartOf

\* The record of a cell began before it.
LEMMA RowBack ==
    ASSUME NEW f, Row(f), NEW q \in 1 .. Len(f), NEW i \in 1 .. f[q].part
    PROVE  q - f[q].part + i \in 1 .. q /\ f[q - f[q].part + i] = PartOf(f[q], i)
<1> DEFINE P(p) == \A k \in 1 .. f[p].part :
                       p - f[p].part + k \in 1 .. p /\ f[p - f[p].part + k] = PartOf(f[p], k)
           I == {n \in Nat : n + 1 <= Len(f) => P(n + 1)}
<1>0. Len(f) \in Nat
  BY RowTypes
<1>1. 0 \in I
  <2> SUFFICES ASSUME 0 + 1 <= Len(f) PROVE P(1)
    OBVIOUS
  <2>1. 1 \in 1 .. Len(f)
    BY <1>0
  <2>2. f[1].part = 1 /\ f[1] = PartOf(f[1], 1)
    BY <2>1, RowTypes DEF Row
  <2> QED BY <2>2
<1>2. ASSUME NEW n \in Nat, n \in I PROVE n + 1 \in I
  <2> SUFFICES ASSUME n + 2 <= Len(f) PROVE P(n + 2)
    OBVIOUS
  <2> DEFINE p == n + 1
  <2>1. p \in 1 .. Len(f) - 1 /\ p \in 1 .. Len(f) /\ p + 1 \in 1 .. Len(f) /\ p + 1 = n + 2 /\ P(p)
    BY <1>0, <1>2
  <2> HIDE DEF p
  <2>2. f[p + 1] = PartOf(f[p + 1], f[p + 1].part) /\ f[p].part \in Nat
    BY <2>1, RowTypes
  <2>3. CASE f[p].part = f[p].of
    <3>1. f[p + 1].part = 1
      BY <2>1, <2>3 DEF Row
    <3> QED BY <2>1, <2>2, <3>1
  <2>4. CASE f[p].part # f[p].of
    <3>1. f[p + 1] = PartOf(f[p], f[p].part + 1)
      BY <2>1, <2>4 DEF Row
    <3>2. f[p + 1].part = f[p].part + 1
      BY <3>1, PartIs
    <3> SUFFICES P(p + 1)
      <4> HIDE DEF P
      <4> QED BY <2>1
    <3> TAKE k \in 1 .. f[p + 1].part
    <3>3. \A m : PartOf(f[p + 1], m) = PartOf(f[p], m)
      BY <3>1, PartIs DEF PartOf
    <3>4. (p + 1) - f[p + 1].part + k = p - f[p].part + k
      <4> DEFINE x == f[p].part
      <4>1. x \in Nat /\ f[p + 1].part = x + 1 /\ p \in Nat /\ k \in Nat
        BY <2>1, <2>2, <3>2
      <4> HIDE DEF x
      <4>2. (p + 1) - (x + 1) + k = p - x + k
        BY <4>1
      <4> QED BY <4>1, <4>2 DEF x
    <3>5. CASE k = f[p + 1].part
      <4>1. (p + 1) - f[p + 1].part + k = p + 1
        BY <2>1, <2>2, <3>2, <3>5
      <4> QED BY <2>1, <2>2, <3>5, <4>1
    <3>6. CASE k # f[p + 1].part
      <4>1. k \in 1 .. f[p].part
        BY <2>2, <3>2, <3>6
      <4>2. p - f[p].part + k \in 1 .. p /\ f[p - f[p].part + k] = PartOf(f[p], k)
        BY <2>1, <4>1
      <4> DEFINE m == p - f[p].part + k
      <4>3. m \in 1 .. p /\ f[m] = PartOf(f[p + 1], k) /\ (p + 1) - f[p + 1].part + k = m
        BY <3>3, <3>4, <4>2
      <4> HIDE DEF m
      <4>4. m \in 1 .. p + 1
        BY <2>1, <4>3
      <4>5. (p + 1) - f[p + 1].part + k \in 1 .. p + 1
        BY <4>3, <4>4
      <4>6. f[(p + 1) - f[p + 1].part + k] = PartOf(f[p + 1], k)
        BY <4>3
      <4> QED BY <4>5, <4>6
    <3> QED BY <3>5, <3>6
  <2> QED BY <2>3, <2>4
<1>3. q - 1 \in I
  <2> HIDE DEF I
  <2> QED BY <1>0, <1>1, <1>2, Induction
<1>4. (q - 1) + 1 = q
  BY <1>0
<1>5. P(q)
  BY <1>0, <1>3, <1>4
<1> QED BY <1>5

\* The record that begins at a cell goes on.
LEMMA RowForth ==
    ASSUME NEW f, Row(f), NEW off \in Nat, off < Len(f), f[off + 1].part = 1,
           NEW i \in 1 .. f[off + 1].of, off + i <= Len(f)
    PROVE  f[off + i] = PartOf(f[off + 1], i)
<1> DEFINE c == f[off + 1]
           I == {n \in Nat : n + 1 <= c.of /\ off + n + 1 <= Len(f) => f[off + n + 1] = PartOf(c, n + 1)}
<1>0. Len(f) \in Nat /\ c = PartOf(c, 1) /\ c.of \in Nat
  BY RowTypes
<1>1. 0 \in I
  BY <1>0
<1>2. ASSUME NEW n \in Nat, n \in I PROVE n + 1 \in I
  <2> SUFFICES ASSUME n + 2 <= c.of, off + n + 2 <= Len(f) PROVE f[off + n + 2] = PartOf(c, n + 2)
    BY <1>0
  <2>1. f[off + n + 1] = PartOf(c, n + 1)
    BY <1>0, <1>2
  <2>2. off + n + 1 \in 1 .. Len(f) - 1 /\ (off + n + 1) + 1 = off + n + 2
    BY <1>0
  <2>3. f[off + n + 1].part # f[off + n + 1].of /\ f[off + n + 1].part + 1 = n + 2
    BY <1>0, <2>1, PartIs
  <2>4. f[off + n + 2] = PartOf(f[off + n + 1], n + 2)
    BY <2>2, <2>3 DEF Row
  <2> QED BY <2>1, <2>4, PartIs DEF PartOf
<1>3. i - 1 \in I
  <2> HIDE DEF I
  <2> QED BY <1>0, <1>1, <1>2, Induction
<1>4. off + (i - 1) + 1 = off + i /\ (i - 1) + 1 = i
  BY <1>0
<1> QED BY <1>0, <1>3, <1>4

LEMMA DecodesIs ==
    ASSUME NEW f, Row(f), NEW off \in Nat
    PROVE  Decodes(f, off) <=> off < Len(f) /\ f[off + 1].part = 1 /\ off + f[off + 1].of <= Len(f)
<1> SUFFICES ASSUME off < Len(f), f[off + 1].part = 1, off + f[off + 1].of <= Len(f)
             PROVE  \A i \in 1 .. f[off + 1].of : f[off + i] = [f[off + 1] EXCEPT !.part = i]
  BY DEF Decodes
<1> TAKE i \in 1 .. f[off + 1].of
<1>1. Len(f) \in Nat /\ f[off + 1] \in Cell /\ f[off + 1].of \in Nat
  BY RowTypes
<1>2. f[off + i] = PartOf(f[off + 1], i)
  BY <1>1, RowForth
<1>3. [f[off + 1] EXCEPT !.part = i] = PartOf(f[off + 1], i)
  BY <1>1 DEF Cell, PartOf
<1> QED BY <1>2, <1>3

-----------------------------------------------------------------------------
(* The loop over a segment.                                                *)

Heads(f) == {off \in 0 .. Len(f) - 1 : f[off + 1].part = 1 /\ off + f[off + 1].of <= Len(f)}
EndOf(f) == IF Complete(f) THEN Len(f) ELSE Len(f) - f[Len(f)].part
\* A record ends at off.
Boundary(f, off) == off \in 0 .. Len(f) /\ (off # 0 => f[off].part = f[off].of)

\* What the loop finds from off.
FoundFrom(f, off) == [offs |-> {o \in Heads(f) : o >= off}, end |-> EndOf(f)]

ScanStep(w, f, off) ==
    IF ~Decodes(f, off) THEN [offs |-> {}, end |-> off]
    ELSE LET rest == w[off + f[off + 1].of]
         IN  [offs |-> {off} \cup rest.offs, end |-> rest.end]
IsScan(w, f, k) == w = [off \in Len(f) - k .. Len(f) |-> ScanStep(w, f, off)]

LEMMA ScanLater ==
    ASSUME NEW f, Row(f), NEW off \in 0 .. Len(f), NEW v, NEW w, \A c \in off + 1 .. Len(f) : v[c] = w[c]
    PROVE  ScanStep(v, f, off) = ScanStep(w, f, off)
<1>1. CASE ~Decodes(f, off)
  BY <1>1 DEF ScanStep
<1>2. CASE Decodes(f, off)
  <2>1. Len(f) \in Nat /\ off < Len(f) /\ off + f[off + 1].of <= Len(f)
    BY <1>2, RowTypes DEF Decodes
  <2>2. f[off + 1].of \in Nat /\ f[off + 1].of >= 1
    BY <2>1, RowTypes
  <2>3. off + f[off + 1].of \in off + 1 .. Len(f)
    BY <2>1, <2>2
  <2> QED BY <2>3 DEF ScanStep
<1> QED BY <1>1, <1>2

LEMMA ScanExists ==
    ASSUME NEW f, Row(f)
    PROVE  \E w : IsScan(w, f, Len(f))
<1> DEFINE I == {k \in Nat : k <= Len(f) => \E w : IsScan(w, f, k)}
<1>0. Len(f) \in Nat
  BY RowTypes
<1>1. 0 \in I
  <2> DEFINE w == [off \in Len(f) - 0 .. Len(f) |-> [offs |-> {}, end |-> off]]
  <2>1. \A off \in Len(f) - 0 .. Len(f) : ScanStep(w, f, off) = [offs |-> {}, end |-> off]
    <3> TAKE off \in Len(f) - 0 .. Len(f)
    <3>1. ~Decodes(f, off)
      BY <1>0 DEF Decodes
    <3> HIDE DEF w
    <3> QED BY <3>1 DEF ScanStep
  <2>2. IsScan(w, f, 0)
    BY <2>1 DEF IsScan
  <2> QED BY <2>2
<1>2. ASSUME NEW k \in Nat, k \in I PROVE k + 1 \in I
  <2> SUFFICES ASSUME k + 1 <= Len(f) PROVE \E w : IsScan(w, f, k + 1)
    OBVIOUS
  <2>1. PICK v : IsScan(v, f, k)
    BY <1>0, <1>2
  <2> DEFINE a == Len(f) - (k + 1)
             w == [b \in a .. Len(f) |-> IF b = a THEN ScanStep(v, f, a) ELSE v[b]]
  <2>2. a \in Nat /\ a + 1 = Len(f) - k /\ a <= Len(f)
    BY <1>0
  <2>3. \A b \in a + 1 .. Len(f) : w[b] = v[b] /\ v[b] = ScanStep(v, f, b)
    <3> TAKE b \in a + 1 .. Len(f)
    <3>1. b \in a .. Len(f) /\ b # a /\ b \in Len(f) - k .. Len(f)
      <4> HIDE DEF w, a
      <4> QED BY <1>0, <2>2
    <3>2. w[b] = v[b]
      BY <3>1
    <3>3. v[b] = ScanStep(v, f, b)
      <4> HIDE DEF w
      <4> QED BY <2>1, <3>1 DEF IsScan
    <3> QED BY <3>2, <3>3
  <2>4. \A b \in a .. Len(f) : ScanStep(w, f, b) = ScanStep(v, f, b)
    <3> SUFFICES ASSUME NEW b \in a .. Len(f) PROVE ScanStep(w, f, b) = ScanStep(v, f, b)
      OBVIOUS
    <3>1. b \in 0 .. Len(f)
      BY <1>0, <2>2
    <3>2. \A c \in b + 1 .. Len(f) : w[c] = v[c]
      <4>1. \A c \in b + 1 .. Len(f) : c \in a + 1 .. Len(f)
        <5> HIDE DEF w, a
        <5> QED BY <1>0, <2>2
      <4> HIDE DEF w, a
      <4> QED BY <2>3, <4>1
    <3> HIDE DEF w
    <3> QED BY <3>1, <3>2, ScanLater
  <2>5. \A b \in a .. Len(f) : w[b] = ScanStep(w, f, b)
    <3>1. a \in a .. Len(f) /\ w[a] = ScanStep(v, f, a)
      BY <1>0, <2>2
    <3>2. \A b \in a .. Len(f) : b = a \/ b \in a + 1 .. Len(f)
      <4> HIDE DEF w, a
      <4> QED BY <1>0, <2>2
    <3> HIDE DEF w, a
    <3> QED BY <2>3, <2>4, <3>1, <3>2
  <2>6. w = [b \in a .. Len(f) |-> w[b]]
    OBVIOUS
  <2>7. w = [b \in a .. Len(f) |-> ScanStep(w, f, b)]
    <3> HIDE DEF w, a
    <3> QED BY <2>5, <2>6
  <2>8. IsScan(w, f, k + 1)
    BY <2>7 DEF IsScan
  <2> QED BY <2>8
<1> HIDE DEF I
<1>3. Len(f) \in I
  BY <1>0, <1>1, <1>2, Induction
<1> QED BY <1>0, <1>3 DEF I

LEMMA ScanUnfolds ==
    ASSUME NEW f, Row(f)
    PROVE  \E w : Scan(f) = w[0] /\ \A off \in 0 .. Len(f) : w[off] = ScanStep(w, f, off)
<1> DEFINE W == CHOOSE w : w = [off \in 0 .. Len(f) |-> ScanStep(w, f, off)]
<1>1. \E w : w = [off \in 0 .. Len(f) |-> ScanStep(w, f, off)]
  <2>1. PICK w : IsScan(w, f, Len(f))
    BY ScanExists
  <2>2. Len(f) - Len(f) = 0
    BY RowTypes
  <2> QED BY <2>1, <2>2 DEF IsScan
<1>2. Scan(f) = W[0]
  BY DEF Scan, ScanStep
<1>3. W = [off \in 0 .. Len(f) |-> ScanStep(W, f, off)]
  BY <1>1
<1> HIDE DEF W
<1> QED BY <1>2, <1>3

\* What the loop finds from a place where a record ends.
LEMMA ScanFrom ==
    ASSUME NEW f, Row(f), NEW w, \A off \in 0 .. Len(f) : w[off] = ScanStep(w, f, off),
           NEW off, Boundary(f, off)
    PROVE  w[off] = FoundFrom(f, off)
<1> DEFINE RecordsIn(b) == FoundFrom(f, b)
           I == {k \in Nat : \A b : Boundary(f, b) /\ b >= Len(f) - k => w[b] = RecordsIn(b)}
<1>0. Len(f) \in Nat
  BY RowTypes
<1>1. ASSUME NEW b, Boundary(f, b), \A c : Boundary(f, c) /\ c > b => w[c] = RecordsIn(c)
      PROVE  w[b] = RecordsIn(b)
  <2>1. b \in 0 .. Len(f) /\ w[b] = ScanStep(w, f, b) /\ b \in Nat
    BY <1>0, <1>1 DEF Boundary
  <2>2. CASE b = Len(f)
    <3>1. ~Decodes(f, b)
      BY <1>0, <2>2 DEF Decodes
    <3>2. {o \in Heads(f) : o >= b} = {}
      BY <1>0, <2>2 DEF Heads
    <3>3. EndOf(f) = b
      <4>1. Complete(f)
        BY <1>0, <1>1, <2>2 DEF Complete, Boundary
      <4> QED BY <2>2, <4>1 DEF EndOf
    <3> QED BY <2>1, <3>1, <3>2, <3>3 DEF ScanStep, FoundFrom
  <2>3. CASE b # Len(f)
    <3> DEFINE c == f[b + 1]
               e == b + c.of
    <3>1. b + 1 \in 1 .. Len(f) /\ c \in Cell /\ c.of \in Nat /\ c.of >= 1 /\ c.part \in Nat
      BY <1>0, <2>1, <2>3, RowTypes
    <3>2. c.part = 1
      <4>1. CASE b = 0
        BY <3>1, <4>1 DEF Row
      <4>2. CASE b # 0
        <5>1. b \in 1 .. Len(f) - 1 /\ f[b].part = f[b].of
          BY <1>0, <1>1, <2>1, <2>3, <4>2 DEF Boundary
        <5> QED BY <5>1 DEF Row
      <4> QED BY <4>1, <4>2
    <3>3. Decodes(f, b) <=> e <= Len(f)
      BY <2>1, <1>0, <2>3, <3>2, DecodesIs
    <3> HIDE DEF c
    <3>30. b < Len(f) /\ e \in Nat /\ e > b
      BY <1>0, <2>1, <2>3, <3>1
    <3>4. CASE e <= Len(f)
      <4>1. f[e] = PartOf(c, c.of)
        <5>1. c.of \in 1 .. c.of /\ b + c.of <= Len(f)
          BY <3>1, <3>4
        <5> QED BY <2>1, <3>2, <3>30, <5>1, RowForth DEF c
      <4>2. Boundary(f, e)
        BY <1>0, <3>30, <3>4, <4>1, PartIs DEF Boundary
      <4>3. w[e] = RecordsIn(e)
        <5> HIDE DEF RecordsIn, e
        <5> QED BY <1>1, <3>30, <4>2
      <4>4. b \in Heads(f)
        BY <1>0, <2>1, <3>2, <3>30, <3>4 DEF Heads, c
      <4>5. ASSUME NEW o \in Heads(f), o >= b, o # b PROVE o >= e
        <5> SUFFICES ASSUME o < e PROVE FALSE
          BY <1>0, <3>30 DEF Heads
        <5>1. o \in Nat /\ o > b /\ o < Len(f) /\ f[o + 1].part = 1
          BY <1>0, <2>1, <4>5 DEF Heads
        <5>2. o + 1 - b \in 1 .. c.of /\ b + (o + 1 - b) = o + 1 /\ b + (o + 1 - b) <= Len(f)
          BY <1>0, <2>1, <3>1, <5>1
        <5>3. f[b + (o + 1 - b)] = PartOf(c, o + 1 - b)
          <6> DEFINE i == o + 1 - b
          <6>1. i \in 1 .. f[b + 1].of /\ b + i <= Len(f) /\ f[b + 1].part = 1
            BY <3>2, <5>2 DEF c
          <6> HIDE DEF i
          <6>2. f[b + i] = PartOf(f[b + 1], i)
            BY <2>1, <3>30, <6>1, RowForth
          <6> QED BY <6>2 DEF c, i
        <5>4. o + 1 - b = 1
          BY <5>1, <5>2, <5>3, PartIs
        <5> QED BY <2>1, <5>1, <5>4
      <4>6. {o \in Heads(f) : o >= b} = {b} \cup {o \in Heads(f) : o >= e}
        <5>1. \A o \in Heads(f) : o \in Nat
          BY <1>0 DEF Heads
        <5>2. \A o \in Heads(f) : o >= b <=> o = b \/ o >= e
          <6> HIDE DEF e
          <6> QED BY <2>1, <3>30, <4>5, <5>1
        <5> HIDE DEF e
        <5> QED BY <4>4, <5>2
      <4>7. ScanStep(w, f, b) = [offs |-> {b} \cup w[e].offs, end |-> w[e].end]
        BY <3>3, <3>4 DEF ScanStep, c
      <4> HIDE DEF e
      <4>8. w[e].offs = {o \in Heads(f) : o >= e} /\ w[e].end = EndOf(f)
        BY <4>3 DEF FoundFrom
      <4> QED BY <2>1, <4>6, <4>7, <4>8 DEF FoundFrom
    <3>5. CASE ~(e <= Len(f))
      <4> DEFINE i == Len(f) - b
      <4>1. i \in 1 .. c.of /\ b + i = Len(f) /\ i < c.of /\ Len(f) >= 1
        BY <1>0, <2>1, <3>1, <3>30, <3>5
      <4> HIDE DEF i
      <4>2. f[Len(f)] = PartOf(c, i)
        <5>1. i \in 1 .. f[b + 1].of /\ b + i <= Len(f) /\ f[b + 1].part = 1
          BY <1>0, <3>2, <4>1 DEF c
        <5>2. f[b + i] = PartOf(f[b + 1], i)
          BY <2>1, <3>30, <5>1, RowForth
        <5> QED BY <4>1, <5>2 DEF c
      <4>3. ~Complete(f) /\ f[Len(f)].part = i
        BY <1>0, <3>1, <4>1, <4>2, PartIs DEF Complete
      <4>4. EndOf(f) = b
        BY <1>0, <2>1, <4>1, <4>3 DEF EndOf
      <4>5. ASSUME NEW o \in Heads(f), o >= b PROVE FALSE
        <5>1. o \in Nat /\ o < Len(f) /\ f[o + 1].part = 1 /\ o + f[o + 1].of <= Len(f)
          BY <1>0, <4>5 DEF Heads
        <5> DEFINE m == o + 1 - b
        <5>2. m \in 1 .. c.of /\ b + m = o + 1 /\ b + m <= Len(f)
          BY <1>0, <2>1, <3>1, <3>30, <3>5, <4>5, <5>1
        <5> HIDE DEF m
        <5>3. f[o + 1] = PartOf(c, m)
          <6>1. m \in 1 .. f[b + 1].of /\ f[b + 1].part = 1
            BY <3>2, <5>2 DEF c
          <6>2. f[b + m] = PartOf(f[b + 1], m)
            BY <2>1, <3>30, <5>2, <6>1, RowForth
          <6> QED BY <5>2, <6>2 DEF c
        <5>4. m = 1 /\ f[o + 1].of = c.of
          BY <5>1, <5>3, PartIs
        <5>5. o = b
          BY <2>1, <5>1, <5>2, <5>4
        <5> QED BY <3>5, <5>1, <5>4, <5>5
      <4>6. {o \in Heads(f) : o >= b} = {}
        BY <4>5
      <4>7. ScanStep(w, f, b) = [offs |-> {}, end |-> b]
        BY <3>3, <3>5 DEF ScanStep
      <4> QED BY <2>1, <4>4, <4>6, <4>7 DEF FoundFrom
    <3> QED BY <3>4, <3>5
  <2> QED BY <2>2, <2>3
<1> HIDE DEF RecordsIn
<1>2. 0 \in I
  <2> SUFFICES ASSUME NEW b, Boundary(f, b), b >= Len(f) - 0 PROVE w[b] = RecordsIn(b)
    OBVIOUS
  <2>1. b = Len(f)
    BY <1>0 DEF Boundary
  <2>2. \A c : Boundary(f, c) => ~(c > b)
    BY <1>0, <2>1 DEF Boundary
  <2> QED BY <1>1, <2>2
<1>3. ASSUME NEW k \in Nat, k \in I PROVE k + 1 \in I
  <2> SUFFICES ASSUME NEW b, Boundary(f, b), b >= Len(f) - (k + 1) PROVE w[b] = RecordsIn(b)
    OBVIOUS
  <2>1. \A c : Boundary(f, c) /\ c > b => c >= Len(f) - k
    BY <1>0 DEF Boundary
  <2>2. \A c : Boundary(f, c) /\ c > b => w[c] = RecordsIn(c)
    BY <1>3, <2>1
  <2> QED BY <1>1, <2>2
<1>4. Len(f) \in I
  <2> HIDE DEF I
  <2> QED BY <1>0, <1>2, <1>3, Induction
<1>5. off >= Len(f) - Len(f)
  BY <1>0 DEF Boundary
<1> QED BY <1>4, <1>5 DEF RecordsIn

\* What the loop finds, in a segment whose last record may be cut.
LEMMA ScanIs ==
    ASSUME NEW f, Row(f)
    PROVE  Scan(f).offs = Heads(f) /\ Scan(f).end = EndOf(f)
<1>1. PICK w : Scan(f) = w[0] /\ \A off \in 0 .. Len(f) : w[off] = ScanStep(w, f, off)
  BY ScanUnfolds
<1>2. Boundary(f, 0)
  BY RowTypes DEF Boundary
<1>3. w[0] = FoundFrom(f, 0)
  BY <1>1, <1>2, ScanFrom
<1>4. {o \in Heads(f) : o >= 0} = Heads(f)
  BY RowTypes DEF Heads
<1> QED BY <1>1, <1>3, <1>4 DEF FoundFrom

LEMMA WholeIs ==
    ASSUME NEW f, Row(f)
    PROVE  Whole(f) <=> Complete(f)
<1>1. CASE Complete(f)
  BY <1>1, ScanIs DEF Whole, EndOf
<1>2. CASE ~Complete(f)
  <2>1. Len(f) \in Nat /\ f # <<>> /\ f \in Seq(Cell)
    BY <1>2, RowTypes DEF Complete, Row
  <2>2. Len(f) \in 1 .. Len(f)
    BY <2>1
  <2>3. f[Len(f)].part \in Nat /\ f[Len(f)].part >= 1
    BY <2>2, RowTypes
  <2> QED BY <1>2, <2>1, <2>3, ScanIs DEF Whole, EndOf
<1> QED BY <1>1, <1>2

-----------------------------------------------------------------------------
(* What is done to a segment.                                              *)

LEMMA PrefixRow ==
    ASSUME NEW f, Row(f), NEW n \in 0 .. Len(f)
    PROVE  LET g == SubSeq(f, 1, n) IN
           /\ Row(g) /\ Len(g) = n /\ \A p \in 1 .. n : p \in 1 .. Len(f) /\ g[p] = f[p]
<1> DEFINE g == SubSeq(f, 1, n)
<1>0. f \in Seq(Cell) /\ Len(f) \in Nat
  BY DEF Row
<1>1. g \in Seq(Cell) /\ Len(g) = n /\ \A p \in 1 .. n : g[p] = f[p]
  BY <1>0
<1> HIDE DEF g
<1>2. \A p \in 1 .. n : p \in 1 .. Len(f) /\ g[p] = f[p]
  BY <1>0, <1>1
<1>3. \A p \in 1 .. n - 1 : p \in 1 .. Len(f) - 1 /\ g[p] = f[p] /\ g[p + 1] = f[p + 1]
  <2> TAKE p \in 1 .. n - 1
  <2>1. p \in 1 .. n /\ p + 1 \in 1 .. n /\ p \in 1 .. Len(f) - 1
    BY <1>0
  <2> QED BY <1>1, <2>1
<1>4. \A p \in 1 .. Len(g) : g[p].part \in 1 .. g[p].of /\ (p = 1 => g[p].part = 1)
  BY <1>1, <1>2 DEF Row
<1>5. \A p \in 1 .. Len(g) - 1 : IF g[p].part = g[p].of THEN g[p + 1].part = 1
                                  ELSE g[p + 1] = PartOf(g[p], g[p].part + 1)
  BY <1>1, <1>3 DEF Row
<1>6. Row(g)
  BY <1>1, <1>4, <1>5 DEF Row
<1> QED BY <1>1, <1>2, <1>6 DEF g

LEMMA EndIs ==
    ASSUME NEW f, Row(f)
    PROVE  EndOf(f) \in 0 .. Len(f) /\ Boundary(f, EndOf(f))
<1>0. f \in Seq(Cell) /\ Len(f) \in Nat
  BY DEF Row
<1>1. CASE Complete(f)
  BY <1>0, <1>1 DEF EndOf, Boundary, Complete
<1>2. CASE ~Complete(f)
  <2> DEFINE n == Len(f)
             i == f[n].part
             e == n - i
  <2>1. n \in 1 .. n /\ n \in Nat
    BY <1>0, <1>2 DEF Complete
  <2>2. i \in Nat /\ i >= 1
    BY <2>1, RowTypes
  <2>3. n - f[n].part + 1 \in 1 .. n /\ f[n - f[n].part + 1] = PartOf(f[n], 1)
    <3>1. 1 \in 1 .. f[n].part
      BY <2>2
    <3> QED BY <2>1, <3>1, RowBack
  <2>4. EndOf(f) = e
    BY <1>2 DEF EndOf
  <2> HIDE DEF i
  <2>5. e \in 0 .. n /\ e + 1 \in 1 .. n /\ f[e + 1].part = 1
    BY <2>1, <2>2, <2>3, PartIs DEF i
  <2> HIDE DEF e
  <2>6. ASSUME e # 0 PROVE f[e].part = f[e].of
    <3> SUFFICES ASSUME f[e].part # f[e].of PROVE FALSE
      OBVIOUS
    <3>1. e \in 1 .. n - 1 /\ e \in 1 .. n
      BY <2>1, <2>5, <2>6
    <3>2. f[e + 1] = PartOf(f[e], f[e].part + 1)
      BY <3>1 DEF Row
    <3>3. f[e].part \in Nat /\ f[e].part >= 1
      BY <3>1, RowTypes
    <3> QED BY <2>5, <3>2, <3>3, PartIs
  <2> QED BY <2>4, <2>5, <2>6 DEF Boundary
<1> QED BY <1>1, <1>2

LEMMA RepairedRow ==
    ASSUME NEW f, Row(f)
    PROVE  Row(Repaired(f)) /\ Complete(Repaired(f)) /\ Repaired(f) = SubSeq(f, 1, EndOf(f))
<1> DEFINE g == Repaired(f)
           e == EndOf(f)
<1>1. g = SubSeq(f, 1, e) /\ e \in 0 .. Len(f) /\ Boundary(f, e)
  BY ScanIs, EndIs DEF Repaired
<1> HIDE DEF g, e
<1>2. Row(g) /\ Len(g) = e /\ \A p \in 1 .. e : g[p] = f[p]
  BY <1>1, PrefixRow
<1>3. Complete(g)
  <2> SUFFICES ASSUME g # <<>> PROVE g[Len(g)].part = g[Len(g)].of
    BY DEF Complete
  <2>1. e # 0 /\ e \in 1 .. e
    BY <1>1, <1>2 DEF Row
  <2> QED BY <1>1, <1>2, <2>1 DEF Boundary
<1> QED BY <1>1, <1>2, <1>3 DEF g, e

LEMMA NothingAdded ==
    ASSUME NEW f, f \in Seq(Cell), NEW n, NEW len \in Nat
    PROVE  f \o SubSeq(Cells(n, len), 1, 0) = f
<1>1. SubSeq(Cells(n, len), 1, 0) = <<>>
  OBVIOUS
<1> QED BY <1>1

\* g is f with record n, of len cells, at its end.
Adds(f, g, n, len) ==
    /\ Row(g) /\ Complete(g) /\ Len(g) = Len(f) + len /\ g # <<>>
    /\ \A p \in 1 .. Len(f) : g[p] = f[p]
    /\ \A i \in 1 .. len : g[Len(f) + i] = [rec |-> n, part |-> i, of |-> len]

LEMMA RecordAdded ==
    ASSUME NEW f, Row(f), Complete(f), NEW n \in Nat, NEW len \in Nat, len >= 1
    PROVE  Adds(f, f \o Cells(n, len), n, len)
<1> DEFINE c == Cells(n, len)
           g == f \o c
           m == Len(f)
<1>0. f \in Seq(Cell) /\ m \in Nat
  BY DEF Row
<1>1. c \in Seq(Cell) /\ Len(c) = len /\ \A i \in 1 .. len : c[i] = [rec |-> n, part |-> i, of |-> len]
  <2>1. \A i \in 1 .. len : c[i] = [rec |-> n, part |-> i, of |-> len] /\ c[i] \in Cell
    BY DEF Cells, Cell
  <2>2. c \in Seq(Cell) /\ Len(c) = len
    BY <2>1 DEF Cells
  <2> QED BY <2>1, <2>2
<1> HIDE DEF c
<1>2. g \in Seq(Cell) /\ Len(g) = m + len /\ (\A p \in 1 .. m : g[p] = f[p])
      /\ \A i \in 1 .. len : g[m + i] = c[i]
  BY <1>0, <1>1
<1> HIDE DEF g
<1>3. \A i \in 1 .. len : g[m + i] = [rec |-> n, part |-> i, of |-> len]
  BY <1>1, <1>2
<1>4. \A p \in 1 .. m + len : p \in 1 .. m \/ \E i \in 1 .. len : p = m + i
  <2> TAKE p \in 1 .. m + len
  <2> SUFFICES ASSUME p \notin 1 .. m PROVE \E i \in 1 .. len : p = m + i
    OBVIOUS
  <2>1. p - m \in 1 .. len /\ p = m + (p - m)
    BY <1>0
  <2> QED BY <2>1
<1>5. ASSUME NEW p \in 1 .. m + len PROVE g[p].part \in 1 .. g[p].of /\ (p = 1 => g[p].part = 1)
  <2>1. CASE p \in 1 .. m
    BY <1>2, <2>1 DEF Row
  <2>2. ASSUME NEW i \in 1 .. len, p = m + i PROVE g[p].part \in 1 .. g[p].of /\ (p = 1 => g[p].part = 1)
    <3>1. g[p] = [rec |-> n, part |-> i, of |-> len]
      BY <1>3, <2>2
    <3>2. g[p].part = i /\ g[p].of = len
      BY <3>1
    <3>3. p = 1 => i = 1
      BY <1>0, <2>2
    <3> QED BY <3>2, <3>3
  <2> QED BY <1>4, <2>1, <2>2
<1>6. ASSUME NEW p \in 1 .. (m + len) - 1
      PROVE  IF g[p].part = g[p].of THEN g[p + 1].part = 1 ELSE g[p + 1] = PartOf(g[p], g[p].part + 1)
  <2>1. CASE p \in 1 .. m - 1
    <3>1. p \in 1 .. m /\ p + 1 \in 1 .. m
      BY <1>0, <2>1
    <3>2. g[p] = f[p] /\ g[p + 1] = f[p + 1]
      BY <1>2, <3>1
    <3> QED BY <2>1, <3>2 DEF Row
  <2>2. CASE p = m
    <3>1. m \in 1 .. m /\ f # <<>> /\ 1 \in 1 .. len
      BY <1>0, <2>2
    <3>2. g[p] = f[m] /\ f[m].part = f[m].of /\ g[p + 1] = [rec |-> n, part |-> 1, of |-> len]
      BY <1>2, <1>3, <2>2, <3>1 DEF Complete
    <3> QED BY <3>2
  <2>3. CASE p > m
    <3> DEFINE i == p - m
    <3>1. i \in 1 .. len /\ i + 1 \in 1 .. len /\ p = m + i /\ p + 1 = m + (i + 1)
      BY <1>0, <2>3
    <3> HIDE DEF i
    <3>2. g[p] = [rec |-> n, part |-> i, of |-> len] /\ g[p + 1] = [rec |-> n, part |-> i + 1, of |-> len]
      BY <1>3, <3>1
    <3>3. i # len
      BY <3>1
    <3> QED BY <3>2, <3>3 DEF PartOf
  <2>4. p \in 1 .. m - 1 \/ p = m \/ p > m
    BY <1>0
  <2> QED BY <2>1, <2>2, <2>3, <2>4
<1>7. Row(g)
  BY <1>2, <1>5, <1>6 DEF Row
<1>8. Complete(g) /\ g # <<>>
  <2>1. len \in 1 .. len
    OBVIOUS
  <2>2. g[m + len] = [rec |-> n, part |-> len, of |-> len] /\ Len(g) # 0
    BY <1>0, <1>2, <1>3, <2>1
  <2> QED BY <1>2, <2>2 DEF Complete
<1> QED BY <1>2, <1>3, <1>7, <1>8 DEF g, c, Adds

\* The records of which a segment has the start and the end are the same.
EndRecs(f) == {f[p].rec : p \in {q \in 1 .. Len(f) : f[q].part = f[q].of}}
HeadRecs(f) == {f[o + 1].rec : o \in Heads(f)}

LEMMA SameRecs == ASSUME NEW f, Row(f) PROVE HeadRecs(f) = EndRecs(f)
<1>0. Len(f) \in Nat
  BY RowTypes
<1>1. ASSUME NEW o \in Heads(f) PROVE f[o + 1].rec \in EndRecs(f)
  <2> DEFINE n == f[o + 1].of
             p == o + n
  <2>1. o \in Nat /\ o < Len(f) /\ f[o + 1].part = 1 /\ p <= Len(f) /\ o + 1 \in 1 .. Len(f)
    BY <1>0 DEF Heads
  <2>2. n \in Nat /\ n >= 1
    BY <2>1, RowTypes
  <2>3. f[p] = PartOf(f[o + 1], n) /\ p \in 1 .. Len(f)
    <3>1. n \in 1 .. f[o + 1].of
      BY <2>2
    <3>2. o + n <= Len(f)
      BY <2>1
    <3> HIDE DEF n
    <3>3. f[o + n] = PartOf(f[o + 1], n)
      BY <2>1, <3>1, <3>2, RowForth
    <3> QED BY <1>0, <2>1, <2>2, <3>3
  <2>4. f[p].rec = f[o + 1].rec /\ f[p].part = f[p].of
    BY <2>3, PartIs
  <2> HIDE DEF p
  <2> QED BY <2>3, <2>4 DEF EndRecs
<1>2. ASSUME NEW p \in 1 .. Len(f), f[p].part = f[p].of PROVE f[p].rec \in HeadRecs(f)
  <2> DEFINE n == f[p].part
             o == p - n
  <2>1. n \in Nat /\ n >= 1 /\ 1 \in 1 .. n
    BY RowTypes
  <2>2. o + 1 \in 1 .. p /\ f[o + 1] = PartOf(f[p], 1)
    <3>1. 1 \in 1 .. f[p].part
      BY <2>1
    <3>2. p - f[p].part + 1 \in 1 .. p /\ f[p - f[p].part + 1] = PartOf(f[p], 1)
      BY <3>1, RowBack
    <3> QED BY <3>2
  <2>3. f[o + 1].part = 1 /\ f[o + 1].of = n /\ f[o + 1].rec = f[p].rec
    BY <1>2, <2>2, PartIs
  <2>4. o \in 0 .. Len(f) - 1 /\ o + n = p /\ p <= Len(f)
    <3> HIDE DEF n
    <3> QED BY <1>0, <2>1, <2>2
  <2> HIDE DEF o, n
  <2>5. o \in Heads(f)
    BY <2>3, <2>4 DEF Heads
  <2> QED BY <2>3, <2>5 DEF HeadRecs
<1> QED BY <1>1, <1>2 DEF EndRecs, HeadRecs

-----------------------------------------------------------------------------
(* The segments of a log.                                                  *)

Ends(fs) == UNION {EndRecs(fs[i]) : i \in 1 .. Len(fs)}
RecordsIn(fs) == UNION {Places(i, fs[i]) : i \in 1 .. Len(fs)}

\* The records of the segments are numbered in their order.
Ordered(fs) ==
    \A i, j \in 1 .. Len(fs) : \A p \in 1 .. Len(fs[i]), q \in 1 .. Len(fs[j]) :
        fs[j][q].part = 1 /\ (i < j \/ (i = j /\ p < q)) => fs[i][p].rec < fs[j][q].rec
UpTo(fs, n) == \A i \in 1 .. Len(fs) : \A p \in 1 .. Len(fs[i]) : fs[i][p].rec \in 1 .. n

\* The segments hold records up to number n; only the last may be torn.
Lines(fs, n) ==
    /\ fs \in Seq(Seq(Cell)) /\ Ordered(fs) /\ UpTo(fs, n)
    /\ \A i \in 1 .. Len(fs) : Row(fs[i]) /\ (i # Len(fs) => Complete(fs[i]))
LastComplete(fs) == fs # <<>> => Complete(fs[Len(fs)])

\* gs has the segments of fs, or the first of them, or less of one.
PartOfLines(gs, fs) ==
    /\ gs \in Seq(Seq(Cell)) /\ Len(gs) <= Len(fs)
    /\ \A i \in 1 .. Len(gs) : Len(gs[i]) <= Len(fs[i]) /\ \A p \in 1 .. Len(gs[i]) : gs[i][p] = fs[i][p]

LEMMA SegmentsAre ==
    ASSUME NEW fs, fs \in Seq(Seq(Cell))
    PROVE  Len(fs) \in Nat /\ DOMAIN fs = 1 .. Len(fs) /\ (fs # <<>> <=> Len(fs) >= 1)
           /\ \A i \in 1 .. Len(fs) : fs[i] \in Seq(Cell) /\ Len(fs[i]) \in Nat
OBVIOUS

LEMMA PartOrdered ==
    ASSUME NEW fs, NEW gs, NEW n \in Nat, Lines(fs, n), PartOfLines(gs, fs)
    PROVE  Ordered(gs) /\ UpTo(gs, n) /\ Ends(gs) \subseteq Ends(fs)
<1>1. fs \in Seq(Seq(Cell)) /\ gs \in Seq(Seq(Cell)) /\ Len(fs) \in Nat /\ Len(gs) \in Nat
      /\ (\A i \in 1 .. Len(fs) : Len(fs[i]) \in Nat) /\ \A i \in 1 .. Len(gs) : Len(gs[i]) \in Nat
  BY SegmentsAre DEF Lines, PartOfLines
<1>2. \A i \in 1 .. Len(gs) : /\ i \in 1 .. Len(fs)
                              /\ \A p \in 1 .. Len(gs[i]) : p \in 1 .. Len(fs[i]) /\ gs[i][p] = fs[i][p]
  BY <1>1 DEF PartOfLines
<1>3. Ordered(gs)
  <2> SUFFICES ASSUME NEW i \in 1 .. Len(gs), NEW j \in 1 .. Len(gs), NEW p \in 1 .. Len(gs[i]), NEW q \in 1 .. Len(gs[j]),
                      gs[j][q].part = 1, i < j \/ (i = j /\ p < q)
               PROVE  gs[i][p].rec < gs[j][q].rec
    BY DEF Ordered
  <2>1. i \in 1 .. Len(fs) /\ j \in 1 .. Len(fs) /\ p \in 1 .. Len(fs[i]) /\ q \in 1 .. Len(fs[j])
        /\ gs[i][p] = fs[i][p] /\ gs[j][q] = fs[j][q]
    BY <1>2
  <2>2. Ordered(fs)
    BY DEF Lines
  <2> QED BY <2>1, <2>2 DEF Ordered
<1>4. UpTo(gs, n)
  BY <1>2 DEF Lines, UpTo
<1>5. \A i \in 1 .. Len(gs) : EndRecs(gs[i]) \subseteq EndRecs(fs[i])
  BY <1>2 DEF EndRecs
<1>6. Ends(gs) \subseteq Ends(fs)
  BY <1>2, <1>5 DEF Ends
<1> QED BY <1>3, <1>4, <1>6

LEMMA LastReplaced ==
    ASSUME NEW fs, fs \in Seq(Seq(Cell)), fs # <<>>, NEW g \in Seq(Cell)
    PROVE  LET gs == [fs EXCEPT ![Len(fs)] = g] IN
           /\ gs \in Seq(Seq(Cell)) /\ Len(gs) = Len(fs) /\ gs[Len(fs)] = g /\ gs # <<>>
           /\ Len(fs) \in 1 .. Len(fs)
           /\ \A i \in 1 .. Len(fs) : i # Len(fs) => gs[i] = fs[i]
<1> DEFINE gs == [fs EXCEPT ![Len(fs)] = g]
<1>1. Len(fs) \in 1 .. Len(fs) /\ Len(fs) \in Nat /\ DOMAIN fs = 1 .. Len(fs)
  BY SegmentsAre
<1>2. gs \in Seq(Seq(Cell)) /\ Len(gs) = Len(fs) /\ gs[Len(fs)] = g
  BY <1>1
<1>3. \A i \in 1 .. Len(fs) : i # Len(fs) => gs[i] = fs[i]
  BY <1>1
<1>4. gs # <<>>
  <2> HIDE DEF gs
  <2> QED BY <1>1, <1>2
<1> QED BY <1>1, <1>2, <1>3, <1>4

\* The last segment is cut.
LEMMA LastCut ==
    ASSUME NEW fs, NEW n \in Nat, Lines(fs, n), fs # <<>>, NEW m \in 0 .. Len(fs[Len(fs)])
    PROVE  LET gs == [fs EXCEPT ![Len(fs)] = SubSeq(fs[Len(fs)], 1, m)] IN
           /\ Lines(gs, n) /\ Len(gs) = Len(fs) /\ gs # <<>> /\ gs[Len(fs)] = SubSeq(fs[Len(fs)], 1, m)
           /\ Len(gs[Len(gs)]) = m /\ Ends(gs) \subseteq Ends(fs)
<1> DEFINE f == fs[Len(fs)]
           g == SubSeq(f, 1, m)
           gs == [fs EXCEPT ![Len(fs)] = g]
<1>1. fs \in Seq(Seq(Cell)) /\ Len(fs) \in 1 .. Len(fs) /\ \A i \in 1 .. Len(fs) : Len(fs[i]) \in Nat
  BY SegmentsAre DEF Lines
<1>2. Row(f) /\ f \in Seq(Cell) /\ Len(f) \in Nat
  BY <1>1, SegmentsAre DEF Lines
<1>3. Row(g) /\ Len(g) = m /\ \A p \in 1 .. m : p \in 1 .. Len(f) /\ g[p] = f[p]
  <2>1. m \in 0 .. Len(f)
    OBVIOUS
  <2> HIDE DEF f
  <2> QED BY <1>2, <2>1, PrefixRow
<1>4. g \in Seq(Cell)
  BY <1>3 DEF Row
<1> HIDE DEF g
<1>5. gs \in Seq(Seq(Cell)) /\ Len(gs) = Len(fs) /\ gs[Len(fs)] = g /\ gs # <<>>
      /\ \A i \in 1 .. Len(fs) : i # Len(fs) => gs[i] = fs[i]
  BY <1>1, <1>4, LastReplaced
<1> HIDE DEF gs
<1>6. PartOfLines(gs, fs)
  <2>1. \A i \in 1 .. Len(gs) : Len(gs[i]) <= Len(fs[i]) /\ \A p \in 1 .. Len(gs[i]) : gs[i][p] = fs[i][p]
    BY <1>1, <1>2, <1>3, <1>5
  <2> QED BY <1>1, <1>5, <2>1 DEF PartOfLines
<1>7. Ordered(gs) /\ UpTo(gs, n) /\ Ends(gs) \subseteq Ends(fs)
  BY <1>6, PartOrdered
<1>8. \A i \in 1 .. Len(gs) : Row(gs[i]) /\ (i # Len(gs) => Complete(gs[i]))
  BY <1>3, <1>5 DEF Lines
<1>9. Lines(gs, n)
  BY <1>5, <1>7, <1>8 DEF Lines
<1> QED BY <1>3, <1>5, <1>7, <1>9 DEF gs, g

\* The last segment is gone.
LEMMA LastGone ==
    ASSUME NEW fs, NEW n \in Nat, Lines(fs, n), fs # <<>>
    PROVE  LET gs == SubSeq(fs, 1, Len(fs) - 1) IN
           /\ Lines(gs, n) /\ LastComplete(gs) /\ Len(gs) = Len(fs) - 1 /\ Ends(gs) \subseteq Ends(fs)
           /\ \A i \in 1 .. Len(gs) : gs[i] = fs[i]
<1> DEFINE gs == SubSeq(fs, 1, Len(fs) - 1)
<1>1. fs \in Seq(Seq(Cell)) /\ Len(fs) \in Nat /\ Len(fs) >= 1 /\ \A i \in 1 .. Len(fs) : Len(fs[i]) \in Nat
  BY SegmentsAre DEF Lines
<1>2. gs \in Seq(Seq(Cell)) /\ Len(gs) = Len(fs) - 1 /\ \A i \in 1 .. Len(gs) : gs[i] = fs[i]
  <2> DEFINE k == Len(fs) - 1
  <2>1. k \in 0 .. Len(fs)
    BY <1>1
  <2> HIDE DEF k
  <2>2. SubSeq(fs, 1, k) \in Seq(Seq(Cell)) /\ Len(SubSeq(fs, 1, k)) = k /\ \A i \in 1 .. k : SubSeq(fs, 1, k)[i] = fs[i]
    BY <1>1, <2>1
  <2> QED BY <2>2 DEF k
<1> HIDE DEF gs
<1>3. PartOfLines(gs, fs)
  BY <1>1, <1>2 DEF PartOfLines
<1>4. Ordered(gs) /\ UpTo(gs, n) /\ Ends(gs) \subseteq Ends(fs)
  BY <1>3, PartOrdered
<1>5. \A i \in 1 .. Len(gs) : Row(gs[i]) /\ Complete(gs[i])
  BY <1>1, <1>2 DEF Lines
<1>6. Lines(gs, n)
  BY <1>2, <1>4, <1>5 DEF Lines
<1>7. LastComplete(gs)
  <2> SUFFICES ASSUME gs # <<>> PROVE Complete(gs[Len(gs)])
    BY DEF LastComplete
  <2>1. Len(gs) \in 1 .. Len(gs)
    BY <1>2
  <2> QED BY <1>5, <2>1
<1> QED BY <1>2, <1>4, <1>6, <1>7 DEF gs

\* Every record of a segment that ends with one is whole.
LEMMA StartsAreHeads ==
    ASSUME NEW f, Row(f), Complete(f), NEW o \in 0 .. Len(f) - 1, f[o + 1].part = 1
    PROVE  o \in Heads(f)
<1>0. Len(f) \in Nat /\ o \in Nat /\ o < Len(f)
  BY RowTypes
<1>1. o + 1 \in 1 .. Len(f) /\ Len(f) \in 1 .. Len(f) /\ f # <<>>
  BY <1>0 DEF Row
<1>2. f[o + 1].of \in Nat /\ f[o + 1].of >= 1
  BY <1>1, RowTypes
<1> SUFFICES ASSUME ~(o + f[o + 1].of <= Len(f)) PROVE FALSE
  BY DEF Heads
<1> DEFINE i == Len(f) - o
<1>3. i \in 1 .. f[o + 1].of /\ o + i <= Len(f) /\ o + i = Len(f) /\ i < f[o + 1].of
  BY <1>0, <1>2
<1> HIDE DEF i
<1>4. f[Len(f)] = PartOf(f[o + 1], i)
  <2>1. f[o + i] = PartOf(f[o + 1], i)
    BY <1>0, <1>3, RowForth
  <2> QED BY <1>3, <2>1
<1>5. f[Len(f)].part = i /\ f[Len(f)].of = f[o + 1].of
  BY <1>4, PartIs
<1> QED BY <1>1, <1>2, <1>3, <1>5 DEF Complete

\* A record put after them is one more.
LEMMA HeadAdded ==
    ASSUME NEW f, Row(f), Complete(f), NEW n \in Nat, NEW len \in Nat, len >= 1
    PROVE  LET g == f \o Cells(n, len) IN
           /\ Heads(g) = Heads(f) \cup {Len(f)}
           /\ g[Len(f) + 1] = [rec |-> n, part |-> 1, of |-> len]
           /\ EndRecs(g) = EndRecs(f) \cup {n}
<1> DEFINE g == f \o Cells(n, len)
           m == Len(f)
<1>0. m \in Nat
  BY RowTypes
<1>1. /\ Row(g) /\ Complete(g) /\ Len(g) = m + len /\ g # <<>>
      /\ \A p \in 1 .. m : g[p] = f[p]
      /\ \A i \in 1 .. len : g[m + i] = [rec |-> n, part |-> i, of |-> len]
  BY RecordAdded DEF Adds
<1> HIDE DEF g
<1>2. g[m + 1] = [rec |-> n, part |-> 1, of |-> len]
  <2>1. 1 \in 1 .. len
    OBVIOUS
  <2> QED BY <1>1, <2>1
<1>3. \A o \in 0 .. m - 1 : o + 1 \in 1 .. m /\ g[o + 1] = f[o + 1]
  BY <1>0, <1>1
<1>4. ASSUME NEW o \in Heads(f) PROVE o \in Heads(g)
  <2>1. o \in 0 .. m - 1 /\ f[o + 1].part = 1
    BY DEF Heads
  <2>2. o \in 0 .. Len(g) - 1 /\ g[o + 1].part = 1
    BY <1>0, <1>1, <1>3, <2>1
  <2> QED BY <1>1, <2>2, StartsAreHeads
<1>5. m \in Heads(g)
  <2>1. m \in 0 .. Len(g) - 1 /\ g[m + 1].part = 1
    BY <1>0, <1>1, <1>2
  <2> QED BY <1>1, <2>1, StartsAreHeads
<1>6. ASSUME NEW o \in Heads(g), o # m PROVE o \in Heads(f)
  <2>1. o \in 0 .. (m + len) - 1 /\ g[o + 1].part = 1
    BY <1>1 DEF Heads
  <2>2. CASE o < m
    <3>1. o \in 0 .. m - 1 /\ f[o + 1].part = 1
      BY <1>0, <1>3, <2>1, <2>2
    <3> QED BY <3>1, StartsAreHeads
  <2>3. CASE ~(o < m)
    <3> DEFINE i == o + 1 - m
    <3>1. i \in 1 .. len /\ m + i = o + 1 /\ i # 1
      BY <1>0, <1>6, <2>1, <2>3
    <3> HIDE DEF i
    <3>2. g[o + 1] = [rec |-> n, part |-> i, of |-> len]
      BY <1>1, <3>1
    <3> QED BY <2>1, <3>1, <3>2
  <2> QED BY <2>2, <2>3
<1>7. Heads(g) = Heads(f) \cup {m}
  BY <1>4, <1>5, <1>6
<1>8. \A o \in Heads(f) : o \in 0 .. m - 1 /\ g[o + 1] = f[o + 1]
  BY <1>3 DEF Heads
<1>9. HeadRecs(g) = HeadRecs(f) \cup {n}
  <2>1. g[m + 1].rec = n
    BY <1>2
  <2> QED BY <1>7, <1>8, <2>1 DEF HeadRecs
<1>10. HeadRecs(g) = EndRecs(g) /\ HeadRecs(f) = EndRecs(f)
  BY <1>1, SameRecs
<1> QED BY <1>2, <1>7, <1>9, <1>10 DEF g

PlaceAt(i, f, o) == [rec |-> f[o + 1].rec, seg |-> i, off |-> o, len |-> f[o + 1].of]

LEMMA PlacesAre ==
    ASSUME NEW f, Row(f), NEW i
    PROVE  Places(i, f) = {PlaceAt(i, f, o) : o \in Heads(f)}
BY ScanIs DEF Places, PlaceAt

LEMMA PlaceIs ==
    \A i, f, o : /\ PlaceAt(i, f, o).rec = f[o + 1].rec /\ PlaceAt(i, f, o).seg = i
                 /\ PlaceAt(i, f, o).off = o /\ PlaceAt(i, f, o).len = f[o + 1].of
BY DEF PlaceAt

\* What a reader finds in the segments.
LEMMA FoundIs ==
    ASSUME NEW fs, NEW n \in Nat, Lines(fs, n)
    PROVE  /\ \A l : l \in RecordsIn(fs) <=> \E i \in 1 .. Len(fs) : \E o \in Heads(fs[i]) : l = PlaceAt(i, fs[i], o)
           /\ {l.rec : l \in RecordsIn(fs)} = Ends(fs)
           /\ \A p, q \in RecordsIn(fs) : ReadBefore(p, q) => p.rec < q.rec
           /\ \A l \in RecordsIn(fs) : /\ l.seg \in 1 .. Len(fs) /\ Decodes(fs[l.seg], l.off)
                                   /\ fs[l.seg][l.off + 1].of = l.len /\ fs[l.seg][l.off + 1].rec = l.rec
<1>0. \A i \in 1 .. Len(fs) : Row(fs[i]) /\ Len(fs[i]) \in Nat
  BY RowTypes DEF Lines
<1>1. \A i \in 1 .. Len(fs) : Places(i, fs[i]) = {PlaceAt(i, fs[i], o) : o \in Heads(fs[i])}
  BY <1>0, PlacesAre
<1>2. \A l : l \in RecordsIn(fs) <=> \E i \in 1 .. Len(fs) : \E o \in Heads(fs[i]) : l = PlaceAt(i, fs[i], o)
  BY <1>1 DEF RecordsIn
<1>3. {l.rec : l \in RecordsIn(fs)} = Ends(fs)
  <2>1. \A i \in 1 .. Len(fs) : EndRecs(fs[i]) = HeadRecs(fs[i])
    BY <1>0, SameRecs
  <2>2. ASSUME NEW l \in RecordsIn(fs) PROVE l.rec \in Ends(fs)
    <3>1. PICK i \in 1 .. Len(fs) : \E o \in Heads(fs[i]) : l = PlaceAt(i, fs[i], o)
      BY <1>2
    <3>2. PICK o \in Heads(fs[i]) : l = PlaceAt(i, fs[i], o)
      BY <3>1
    <3>3. l.rec \in HeadRecs(fs[i])
      BY <3>2, PlaceIs DEF HeadRecs
    <3> QED BY <2>1, <3>3 DEF Ends
  <2>3. ASSUME NEW r \in Ends(fs) PROVE \E l \in RecordsIn(fs) : r = l.rec
    <3>1. PICK i \in 1 .. Len(fs) : r \in HeadRecs(fs[i])
      BY <2>1 DEF Ends
    <3>2. PICK o \in Heads(fs[i]) : r = fs[i][o + 1].rec
      BY <3>1 DEF HeadRecs
    <3> DEFINE l == PlaceAt(i, fs[i], o)
    <3>3. r = l.rec
      BY <3>2, PlaceIs
    <3>4. l \in RecordsIn(fs)
      BY <1>2, <3>2
    <3> QED BY <3>3, <3>4
  <2> QED BY <2>2, <2>3
<1>4. ASSUME NEW l \in RecordsIn(fs)
      PROVE  /\ l.seg \in 1 .. Len(fs) /\ l.off \in Heads(fs[l.seg])
             /\ l.rec = fs[l.seg][l.off + 1].rec /\ l.len = fs[l.seg][l.off + 1].of
  <2>1. PICK i \in 1 .. Len(fs) : \E o \in Heads(fs[i]) : l = PlaceAt(i, fs[i], o)
    BY <1>2
  <2>2. PICK o \in Heads(fs[i]) : l = PlaceAt(i, fs[i], o)
    BY <2>1
  <2> QED BY <2>1, <2>2, PlaceIs
<1>5. ASSUME NEW i \in 1 .. Len(fs), NEW o \in Heads(fs[i])
      PROVE  /\ o \in Nat /\ o + 1 \in 1 .. Len(fs[i]) /\ fs[i][o + 1].part = 1
             /\ o + fs[i][o + 1].of <= Len(fs[i]) /\ o < Len(fs[i])
  BY <1>0 DEF Heads
<1>6. ASSUME NEW p \in RecordsIn(fs), NEW q \in RecordsIn(fs), ReadBefore(p, q) PROVE p.rec < q.rec
  <2>1. /\ p.seg \in 1 .. Len(fs) /\ q.seg \in 1 .. Len(fs)
        /\ p.off + 1 \in 1 .. Len(fs[p.seg]) /\ q.off + 1 \in 1 .. Len(fs[q.seg])
        /\ fs[q.seg][q.off + 1].part = 1 /\ p.off \in Nat /\ q.off \in Nat
    BY <1>4, <1>5
  <2>2. p.seg < q.seg \/ (p.seg = q.seg /\ p.off + 1 < q.off + 1)
    BY <1>6, <2>1 DEF ReadBefore
  <2>3. Ordered(fs)
    BY DEF Lines
  <2>4. fs[p.seg][p.off + 1].rec < fs[q.seg][q.off + 1].rec
    BY <2>1, <2>2, <2>3 DEF Ordered
  <2> QED BY <1>4, <2>4
<1>7. ASSUME NEW l \in RecordsIn(fs) PROVE Decodes(fs[l.seg], l.off)
  <2>1. l.seg \in 1 .. Len(fs) /\ l.off \in Heads(fs[l.seg])
    BY <1>4
  <2> QED BY <1>0, <1>5, <2>1, DecodesIs
<1> QED BY <1>2, <1>3, <1>4, <1>6, <1>7

\* A new segment.
LEMMA SegmentOpened ==
    ASSUME NEW fs, NEW n \in Nat, Lines(fs, n), LastComplete(fs)
    PROVE  LET gs == Append(fs, <<>>) IN
           /\ Lines(gs, n) /\ LastComplete(gs) /\ gs # <<>> /\ Len(gs) = Len(fs) + 1 /\ gs[Len(gs)] = <<>>
           /\ Ends(gs) = Ends(fs) /\ RecordsIn(gs) = RecordsIn(fs)
<1> DEFINE gs == Append(fs, <<>>)
<1>1. fs \in Seq(Seq(Cell)) /\ Len(fs) \in Nat /\ DOMAIN fs = 1 .. Len(fs) /\ (fs # <<>> <=> Len(fs) >= 1)
  BY SegmentsAre DEF Lines
<1>2. gs \in Seq(Seq(Cell)) /\ Len(gs) = Len(fs) + 1 /\ gs[Len(fs) + 1] = <<>> /\ \A i \in 1 .. Len(fs) : gs[i] = fs[i]
  BY <1>1
<1> HIDE DEF gs
<1>3. gs # <<>>
  BY <1>1, <1>2, SegmentsAre
<1>4. \A i \in 1 .. Len(gs) : i \in 1 .. Len(fs) \/ i = Len(fs) + 1
  BY <1>1, <1>2
<1>5. Row(<<>>) /\ Complete(<<>>) /\ Len(<<>>) = 0
  BY DEF Row, Complete
<1>6. \A i \in 1 .. Len(fs) : Row(fs[i]) /\ Complete(fs[i])
  <2> TAKE i \in 1 .. Len(fs)
  <2>1. Row(fs[i]) /\ (i # Len(fs) => Complete(fs[i]))
    BY DEF Lines
  <2>2. fs # <<>>
    BY <1>1
  <2> QED BY <2>1, <2>2 DEF LastComplete
<1>7. \A i \in 1 .. Len(gs) : Row(gs[i]) /\ Complete(gs[i])
  BY <1>2, <1>4, <1>5, <1>6
<1>8. \A i \in 1 .. Len(gs) : Len(gs[i]) # 0 => i \in 1 .. Len(fs) /\ gs[i] = fs[i]
  BY <1>2, <1>4, <1>5
<1>9. Ordered(gs)
  <2> SUFFICES ASSUME NEW i \in 1 .. Len(gs), NEW j \in 1 .. Len(gs), NEW p \in 1 .. Len(gs[i]), NEW q \in 1 .. Len(gs[j]),
                      gs[j][q].part = 1, i < j \/ (i = j /\ p < q)
               PROVE  gs[i][p].rec < gs[j][q].rec
    BY DEF Ordered
  <2>1. Len(gs[i]) # 0 /\ Len(gs[j]) # 0
    OBVIOUS
  <2>2. i \in 1 .. Len(fs) /\ j \in 1 .. Len(fs) /\ gs[i] = fs[i] /\ gs[j] = fs[j]
    BY <1>8, <2>1
  <2>3. Ordered(fs)
    BY DEF Lines
  <2> QED BY <2>2, <2>3 DEF Ordered
<1>10. UpTo(gs, n)
  <2> SUFFICES ASSUME NEW i \in 1 .. Len(gs), NEW p \in 1 .. Len(gs[i]) PROVE gs[i][p].rec \in 1 .. n
    BY DEF UpTo
  <2>1. Len(gs[i]) # 0
    OBVIOUS
  <2>2. i \in 1 .. Len(fs) /\ gs[i] = fs[i]
    BY <1>8, <2>1
  <2> QED BY <2>2 DEF Lines, UpTo
<1>11. Lines(gs, n) /\ LastComplete(gs)
  <2>1. Len(gs) \in 1 .. Len(gs)
    BY <1>1, <1>2
  <2> QED BY <1>2, <1>7, <1>9, <1>10, <2>1 DEF Lines, LastComplete
<1>12. EndRecs(<<>>) = {} /\ \A i : Places(i, <<>>) = {}
  <2>1. EndRecs(<<>>) = {} /\ Heads(<<>>) = {}
    BY <1>5 DEF EndRecs, Heads
  <2> QED BY <1>5, <2>1, PlacesAre
<1>13. Ends(gs) = Ends(fs)
  <2>1. \A i \in 1 .. Len(fs) : i \in 1 .. Len(gs)
    BY <1>1, <1>2
  <2> QED BY <1>2, <1>4, <1>12, <2>1 DEF Ends
<1>14. RecordsIn(gs) = RecordsIn(fs)
  <2>1. \A i \in 1 .. Len(fs) : i \in 1 .. Len(gs)
    BY <1>1, <1>2
  <2> QED BY <1>2, <1>4, <1>12, <2>1 DEF RecordsIn
<1> QED BY <1>2, <1>3, <1>11, <1>13, <1>14 DEF gs

\* One more record, at the end of the last segment.
LEMMA RecordWritten ==
    ASSUME NEW fs, NEW n \in Nat, Lines(fs, n), LastComplete(fs), fs # <<>>, NEW len \in Nat, len >= 1
    PROVE  LET f == fs[Len(fs)]
               gs == [fs EXCEPT ![Len(fs)] = f \o Cells(n + 1, len)] IN
           /\ Lines(gs, n + 1) /\ LastComplete(gs) /\ gs # <<>> /\ Len(gs) = Len(fs)
           /\ Len(f) \in Nat /\ Len(gs[Len(gs)]) = Len(f) + len
           /\ Ends(gs) = Ends(fs) \cup {n + 1}
           /\ RecordsIn(gs) = RecordsIn(fs) \cup {[rec |-> n + 1, seg |-> Len(fs), off |-> Len(f), len |-> len]}
<1> DEFINE m == Len(fs)
           f == fs[m]
           g == f \o Cells(n + 1, len)
           gs == [fs EXCEPT ![m] = g]
<1>1. fs \in Seq(Seq(Cell)) /\ m \in 1 .. m /\ m \in Nat /\ n + 1 \in Nat
  BY SegmentsAre DEF Lines
<1>2. Row(f) /\ Complete(f) /\ Len(f) \in Nat
  BY <1>1, RowTypes DEF Lines, LastComplete
<1> HIDE DEF f
<1>3. /\ Row(g) /\ Complete(g) /\ Len(g) = Len(f) + len /\ g # <<>>
      /\ \A p \in 1 .. Len(f) : g[p] = f[p]
      /\ \A i \in 1 .. len : g[Len(f) + i] = [rec |-> n + 1, part |-> i, of |-> len]
  <2> DEFINE r == n + 1
  <2>1. r \in Nat
    BY <1>1
  <2> HIDE DEF r
  <2>2. Adds(f, f \o Cells(r, len), r, len)
    BY <1>2, <2>1, RecordAdded
  <2> QED BY <2>2 DEF r, Adds
<1>4. /\ Heads(g) = Heads(f) \cup {Len(f)}
      /\ g[Len(f) + 1] = [rec |-> n + 1, part |-> 1, of |-> len]
      /\ EndRecs(g) = EndRecs(f) \cup {n + 1}
  BY <1>1, <1>2, HeadAdded
<1> HIDE DEF g
<1>5. /\ gs \in Seq(Seq(Cell)) /\ Len(gs) = m /\ gs[m] = g /\ gs # <<>>
      /\ \A i \in 1 .. m : i # m => gs[i] = fs[i]
  <2>1. g \in Seq(Cell)
    BY <1>3 DEF Row
  <2> QED BY <1>1, <2>1, LastReplaced
<1> HIDE DEF gs
<1>6. fs[m] = f
  BY DEF f
<1>7. \A i \in 1 .. m : \A p \in 1 .. Len(gs[i]) :
          (p \in 1 .. Len(fs[i]) /\ gs[i][p] = fs[i][p]) \/ (i = m /\ p > Len(f) /\ gs[i][p].rec = n + 1)
  <2> TAKE i \in 1 .. m
  <2> TAKE p \in 1 .. Len(gs[i])
  <2>1. CASE i # m
    BY <1>5, <2>1
  <2>2. CASE i = m /\ p \in 1 .. Len(f)
    BY <1>3, <1>5, <1>6, <2>2
  <2>3. CASE i = m /\ p \notin 1 .. Len(f)
    <3> DEFINE k == p - Len(f)
    <3>1. k \in 1 .. len /\ Len(f) + k = p /\ p > Len(f)
      BY <1>2, <1>3, <1>5, <2>3
    <3> HIDE DEF k
    <3>2. g[p] = [rec |-> n + 1, part |-> k, of |-> len]
      BY <1>3, <3>1
    <3> QED BY <1>5, <2>3, <3>1, <3>2
  <2> QED BY <2>1, <2>2, <2>3
<1>8. UpTo(gs, n + 1)
  <2> SUFFICES ASSUME NEW i \in 1 .. m, NEW p \in 1 .. Len(gs[i]) PROVE gs[i][p].rec \in 1 .. n + 1
    BY <1>5 DEF UpTo
  <2>1. CASE p \in 1 .. Len(fs[i]) /\ gs[i][p] = fs[i][p]
    <3>1. fs[i][p].rec \in 1 .. n
      BY <2>1 DEF Lines, UpTo
    <3> QED BY <2>1, <3>1
  <2> QED BY <1>7, <2>1
<1>9. Ordered(gs)
  <2> SUFFICES ASSUME NEW i \in 1 .. m, NEW j \in 1 .. m, NEW p \in 1 .. Len(gs[i]), NEW q \in 1 .. Len(gs[j]),
                      gs[j][q].part = 1, i < j \/ (i = j /\ p < q)
               PROVE  gs[i][p].rec < gs[j][q].rec
    BY <1>5 DEF Ordered
  <2>0. Ordered(fs) /\ UpTo(fs, n)
    BY DEF Lines
  <2>1. CASE q \in 1 .. Len(fs[j]) /\ gs[j][q] = fs[j][q]
    <3>1. p \in 1 .. Len(fs[i]) /\ gs[i][p] = fs[i][p]
      <4> SUFFICES ASSUME i = m, p > Len(f) PROVE FALSE
        BY <1>7
      <4>1. j = m
        BY <1>1, <2>0
      <4> QED BY <1>1, <1>2, <1>6, <2>1, <4>1
    <3> QED BY <2>0, <2>1, <3>1 DEF Ordered
  <2>2. CASE j = m /\ q > Len(f) /\ gs[j][q].rec = n + 1
    <3>1. CASE p \in 1 .. Len(fs[i]) /\ gs[i][p] = fs[i][p]
      <4>1. fs[i][p].rec \in 1 .. n
        BY <2>0, <3>1 DEF UpTo
      <4> QED BY <2>2, <3>1, <4>1
    <3>2. CASE i = m /\ p > Len(f)
      <4> DEFINE k == q - Len(f)
      <4>1. k \in 1 .. len /\ Len(f) + k = q /\ k # 1
        BY <1>1, <1>2, <1>3, <1>5, <2>2, <3>2
      <4> HIDE DEF k
      <4>2. g[q] = [rec |-> n + 1, part |-> k, of |-> len]
        BY <1>3, <4>1
      <4>3. g[q].part = k
        BY <4>2
      <4> QED BY <1>5, <2>2, <4>1, <4>3
    <3> QED BY <1>7, <3>1, <3>2
  <2> QED BY <1>7, <2>1, <2>2
<1>10. \A i \in 1 .. m : Row(gs[i]) /\ Complete(gs[i])
  BY <1>3, <1>5 DEF Lines
<1>11. Lines(gs, n + 1) /\ LastComplete(gs)
  BY <1>1, <1>5, <1>8, <1>9, <1>10 DEF Lines, LastComplete
<1>12. Ends(gs) = Ends(fs) \cup {n + 1}
  BY <1>1, <1>4, <1>5, <1>6 DEF Ends
<1>13. RecordsIn(gs) = RecordsIn(fs) \cup {[rec |-> n + 1, seg |-> m, off |-> Len(f), len |-> len]}
  <2>1. PlaceAt(m, g, Len(f)) = [rec |-> n + 1, seg |-> m, off |-> Len(f), len |-> len]
    BY <1>4 DEF PlaceAt
  <2>2. \A o \in Heads(f) : PlaceAt(m, g, o) = PlaceAt(m, f, o)
    <3> TAKE o \in Heads(f)
    <3>1. o + 1 \in 1 .. Len(f)
      BY <1>2 DEF Heads
    <3> QED BY <1>3, <3>1 DEF PlaceAt
  <2>3. Places(m, g) = Places(m, f) \cup {PlaceAt(m, g, Len(f))}
    <3>1. Places(m, g) = {PlaceAt(m, g, o) : o \in Heads(g)} /\ Places(m, f) = {PlaceAt(m, f, o) : o \in Heads(f)}
      BY <1>2, <1>3, PlacesAre
    <3> QED BY <1>4, <2>2, <3>1
  <2> QED BY <1>1, <1>5, <1>6, <2>1, <2>3 DEF RecordsIn
<1> QED BY <1>2, <1>3, <1>5, <1>11, <1>12, <1>13 DEF gs, g, f

\* A repair cuts no record.
LEMMA RepairedEnds == ASSUME NEW f, Row(f) PROVE EndRecs(SubSeq(f, 1, EndOf(f))) = EndRecs(f)
<1> DEFINE e == EndOf(f)
           g == SubSeq(f, 1, e)
<1>0. Len(f) \in Nat /\ e \in 0 .. Len(f)
  BY RowTypes, EndIs
<1>1. Len(g) = e /\ \A p \in 1 .. e : p \in 1 .. Len(f) /\ g[p] = f[p]
  <2> HIDE DEF e
  <2> QED BY <1>0, PrefixRow
<1>2. \A p \in 1 .. Len(f) : f[p].part = f[p].of => p <= e
  <2>1. CASE Complete(f)
    BY <2>1 DEF EndOf
  <2>2. CASE ~Complete(f)
    <3> SUFFICES ASSUME NEW p \in 1 .. Len(f), f[p].part = f[p].of, ~(p <= e) PROVE FALSE
      OBVIOUS
    <3> DEFINE n == Len(f)
               i == f[n].part
               k == p - (n - i)
    <3>1. n \in 1 .. n /\ f[n].part # f[n].of /\ n \in Nat
      BY <1>0, <2>2 DEF Complete, Row
    <3>2. i \in Nat /\ i >= 1 /\ i <= f[n].of /\ f[n].of \in Nat
      BY <3>1, RowTypes
    <3>3. e = n - i
      BY <2>2 DEF EndOf
    <3> HIDE DEF i, e, n
    <3>4. k \in 1 .. i /\ n - i + k = p
      BY <1>0, <3>1, <3>2, <3>3 DEF n
    <3> HIDE DEF k
    <3>5. f[n - f[n].part + k] = PartOf(f[n], k)
      BY <3>1, <3>4, RowBack DEF n, i
    <3>6. f[p].part = k /\ f[p].of = f[n].of
      BY <3>4, <3>5, PartIs DEF i
    <3>7. k = f[n].of /\ i # f[n].of
      BY <3>1, <3>6 DEF i
    <3> QED BY <3>2, <3>4, <3>7
  <2> QED BY <2>1, <2>2
<1> HIDE DEF e, g
<1>3. \A p \in 1 .. Len(f) : p <= e => p \in 1 .. e
  BY <1>0
<1> QED BY <1>1, <1>2, <1>3 DEF EndRecs, g, e

\* The last cell is of the newest record.
LEMMA LastIsNewest ==
    ASSUME NEW fs, NEW n \in Nat, Lines(fs, n), LastComplete(fs), fs # <<>>, fs[Len(fs)] # <<>>
    PROVE  \A r \in Ends(fs) : r <= fs[Len(fs)][Len(fs[Len(fs)])].rec
<1> DEFINE m == Len(fs)
           f == fs[m]
           c == f[Len(f)]
<1>1. fs \in Seq(Seq(Cell)) /\ m \in 1 .. m /\ m \in Nat /\ Row(f) /\ Complete(f) /\ Ordered(fs) /\ UpTo(fs, n)
  BY SegmentsAre DEF Lines, LastComplete
<1>2. Len(f) \in Nat /\ Len(f) \in 1 .. Len(f)
  BY <1>1 DEF Row
<1> SUFFICES ASSUME NEW i \in 1 .. m, NEW p \in 1 .. Len(fs[i]) PROVE fs[i][p].rec <= c.rec
  BY DEF Ends, EndRecs
<1> DEFINE o == Len(f) - c.part
<1>3. o \in 0 .. Len(f) - 1 /\ f[o + 1] = PartOf(c, 1) /\ c.part \in Nat /\ c.part >= 1 /\ c.rec \in Nat
  <2>1. c.part \in Nat /\ c.part >= 1 /\ c.rec \in Nat
    BY <1>1, <1>2, RowTypes
  <2>2. 1 \in 1 .. c.part
    BY <2>1
  <2>3. Len(f) - f[Len(f)].part + 1 \in 1 .. Len(f) /\ f[Len(f) - f[Len(f)].part + 1] = PartOf(f[Len(f)], 1)
    <3> HIDE DEF f
    <3> QED BY <1>1, <1>2, <2>2, RowBack
  <2> HIDE DEF f
  <2> QED BY <1>2, <2>1, <2>3
<1>4. f[o + 1].rec = c.rec /\ f[o + 1].part = 1
  BY <1>3, PartIs
<1> HIDE DEF o
<1>5. CASE i = m /\ p >= o + 1
  <2> DEFINE k == p - o
  <2>0. p \in 1 .. Len(f)
    BY <1>5
  <2>1. k \in 1 .. c.part /\ o + k = p
    <3> DEFINE a == c.part
               b == Len(f)
    <3>1. o = b - a /\ a \in Nat /\ b \in Nat /\ p \in 1 .. b /\ p >= o + 1
      BY <1>2, <1>3, <1>5, <2>0 DEF o
    <3> HIDE DEF a, b
    <3>2. k \in 1 .. a /\ o + k = p
      BY <3>1
    <3> QED BY <3>2 DEF a
  <2>2. f[Len(f) - f[Len(f)].part + k] = PartOf(f[Len(f)], k)
    <3> HIDE DEF f, k
    <3> QED BY <1>1, <1>2, <2>1, RowBack
  <2>3. f[p] = PartOf(c, k)
    BY <1>2, <1>3, <2>1, <2>2 DEF o
  <2> QED BY <1>3, <1>5, <2>3, PartIs
<1>6. CASE ~(i = m /\ p >= o + 1)
  <2>1. i < m \/ (i = m /\ p < o + 1)
    BY <1>1, <1>2, <1>3, <1>6
  <2>2. o + 1 \in 1 .. Len(f)
    BY <1>2, <1>3
  <2>3. fs[i][p].rec < f[o + 1].rec
    BY <1>1, <1>4, <2>1, <2>2 DEF Ordered
  <2>4. fs[i][p].rec \in Nat
    BY <1>1 DEF UpTo
  <2> QED BY <1>3, <1>4, <2>3, <2>4
<1> QED BY <1>5, <1>6

-----------------------------------------------------------------------------
(* The logs: the invariant.                                                *)

\* What a failed write or a stop leaves of the archive is a whole record or a torn one at
\* the end; of the events, whole records.
Orderly ==
    /\ SegmentsAssumption
    /\ "history" \in Logs => Leftovers["history"] \subseteq {0}
    /\ "txlog" \in Logs => Leftovers["txlog"] = {} /\ Stops["txlog"] \subseteq {"whole"}

Version == [key : Keys \cup {0}, id : Ids \cup {0}, seq : Nat]

\* The segments hold the records kept, in order, with no torn one while records are added.
Held ==
    /\ log \in Logs /\ log \in {"history", "txlog"} /\ up \in {"open", "down"} /\ seq \in Nat
    /\ made \in Seq(Version) /\ Lines(files, Len(made)) /\ kept = Ends(files)
    /\ synced \in Nat /\ (files # <<>> => synced <= Len(Current))
    /\ up = "open" \/ log = "txlog" => LastComplete(files)
    /\ up = "open" => cur = IF files = <<>> THEN 0 ELSE Len(Current)
    /\ up = "open" /\ log = "history" => locs = RecordsIn(files)

\* The events are numbered in their order, the last segment has the last of them.
Numbered ==
    log = "txlog" =>
        /\ files # <<>> => Current # <<>>
        /\ \A q, r \in kept : q < r => made[q].seq < made[r].seq
        /\ up = "open" => \A r \in kept : made[r].seq <= seq

LogInv == Held /\ Numbered

LEMMA EndsUpTo == ASSUME NEW fs, NEW n \in Nat, Lines(fs, n) PROVE Ends(fs) \subseteq 1 .. n
BY DEF Lines, UpTo, Ends, EndRecs

LEMMA MoreRecords == ASSUME NEW fs, NEW n \in Nat, Lines(fs, n) PROVE Lines(fs, n + 1)
<1>1. UpTo(fs, n + 1)
  <2> SUFFICES ASSUME NEW i \in 1 .. Len(fs), NEW p \in 1 .. Len(fs[i]) PROVE fs[i][p].rec \in 1 .. n + 1
    BY DEF UpTo
  <2>1. fs[i][p].rec \in 1 .. n
    BY DEF Lines, UpTo
  <2> QED BY <2>1
<1> QED BY <1>1 DEF Lines

LEMMA NoSegments == \A n : Lines(<<>>, n) /\ LastComplete(<<>>) /\ Ends(<<>>) = {} /\ RecordsIn(<<>>) = {}
<1>1. Len(<<>>) = 0 /\ <<>> \in Seq(Seq(Cell))
  OBVIOUS
<1> QED BY <1>1 DEF Lines, LastComplete, Ends, RecordsIn, Ordered, UpTo

LEMMA Initially == ASSUME Orderly, LogInit PROVE LogInv
<1>1. log \in Logs /\ log \in {"history", "txlog"}
  BY DEF Orderly, SegmentsAssumption, LogInit
<1>2. made \in Seq(Version) /\ Len(made) = 0
  BY DEF LogInit
<1>3. Lines(files, Len(made)) /\ LastComplete(files) /\ Ends(files) = {} /\ RecordsIn(files) = {}
  BY <1>2, NoSegments DEF LogInit
<1> QED BY <1>1, <1>2, <1>3 DEF LogInv, Held, Numbered, LogInit

\* The segment a record goes to.
LEMMA OpenedIs ==
    ASSUME Held, Orderly, up = "open", NEW len \in Lengths
    PROVE  LET fs == Opened(len) IN
           /\ Lines(fs, Len(made)) /\ LastComplete(fs) /\ fs # <<>> /\ Ends(fs) = kept /\ RecordsIn(fs) = RecordsIn(files)
           /\ CurIn(len) = Len(fs[Len(fs)]) /\ SyncedIn(len) \in Nat /\ SyncedIn(len) <= Len(fs[Len(fs)])
           /\ CurIn(len) \in Nat
<1>0. Lines(files, Len(made)) /\ LastComplete(files) /\ Len(made) \in Nat /\ kept = Ends(files)
  BY DEF Held
<1>1. CASE Rotates(len)
  <2> DEFINE gs == Append(files, <<>>)
  <2>1. /\ Lines(gs, Len(made)) /\ LastComplete(gs) /\ gs # <<>> /\ gs[Len(gs)] = <<>>
        /\ Ends(gs) = Ends(files) /\ RecordsIn(gs) = RecordsIn(files)
    BY <1>0, SegmentOpened
  <2>2. Opened(len) = gs /\ CurIn(len) = 0 /\ SyncedIn(len) = 0
    BY <1>1 DEF Opened, CurIn, SyncedIn
  <2> HIDE DEF gs
  <2> QED BY <1>0, <2>1, <2>2
<1>2. CASE ~Rotates(len)
  <2>1. files # <<>> /\ Opened(len) = files /\ CurIn(len) = cur /\ SyncedIn(len) = synced
    BY <1>2 DEF Rotates, Opened, CurIn, SyncedIn
  <2>2. cur = Len(files[Len(files)]) /\ synced \in Nat /\ synced <= Len(files[Len(files)])
    BY <2>1 DEF Held, Current
  <2>3. Len(files[Len(files)]) \in Nat
    <3>1. files \in Seq(Seq(Cell)) /\ Len(files) \in 1 .. Len(files)
      BY <2>1, SegmentsAre DEF Held, Lines
    <3> QED BY <3>1, SegmentsAre
  <2> QED BY <1>0, <2>1, <2>2, <2>3
<1> QED BY <1>1, <1>2

\* A record is added.
LEMMA Added ==
    ASSUME Held, Orderly, up = "open", NEW len \in Lengths,
           files' = Written(Cells(Len(made) + 1, len), len), synced' = SyncedIn(len), cur' = CurIn(len) + len,
           kept' = kept \cup {Len(made) + 1}
    PROVE  /\ Lines(files', Len(made) + 1) /\ LastComplete(files') /\ files' # <<>> /\ kept' = Ends(files')
           /\ synced' \in Nat /\ synced' <= Len(Current') /\ cur' = Len(Current') /\ Current' # <<>>
           /\ RecordsIn(files') = RecordsIn(files)
                 \cup {[rec |-> Len(made) + 1, seg |-> Len(files'), off |-> CurIn(len), len |-> len]}
<1> DEFINE fs == Opened(len)
           f == fs[Len(fs)]
           gs == [fs EXCEPT ![Len(fs)] = f \o Cells(Len(made) + 1, len)]
<1>0. Len(made) \in Nat /\ len \in Nat /\ len >= 1
  BY DEF Held, Orderly, SegmentsAssumption
<1>1. /\ Lines(fs, Len(made)) /\ LastComplete(fs) /\ fs # <<>> /\ Ends(fs) = kept /\ RecordsIn(fs) = RecordsIn(files)
      /\ CurIn(len) = Len(f) /\ SyncedIn(len) \in Nat /\ SyncedIn(len) <= Len(f)
  BY OpenedIs
<1>2. files' = gs
  BY DEF Written
<1> HIDE DEF fs
<1>3. /\ Lines(gs, Len(made) + 1) /\ LastComplete(gs) /\ gs # <<>> /\ Len(gs) = Len(fs)
      /\ Len(f) \in Nat /\ Len(gs[Len(gs)]) = Len(f) + len
      /\ Ends(gs) = Ends(fs) \cup {Len(made) + 1}
      /\ RecordsIn(gs) = RecordsIn(fs) \cup {[rec |-> Len(made) + 1, seg |-> Len(fs), off |-> Len(f), len |-> len]}
  BY <1>0, <1>1, RecordWritten
<1> HIDE DEF gs, f
<1>4. Current' = gs[Len(gs)]
  BY <1>2 DEF Current
<1>5. Current' # <<>>
  BY <1>0, <1>3, <1>4
<1> QED BY <1>0, <1>1, <1>2, <1>3, <1>4, <1>5

LEMMA ArchiveHolds ==
    ASSUME LogInv, Orderly, NEW k \in Keys, NEW id \in Ids, NEW len \in Lengths, HistoryAppend(k, id, len)
    PROVE  LogInv'
<1> DEFINE v == [key |-> k, id |-> id, seq |-> 0]
<1>1. Held /\ up = "open" /\ log = "history" /\ log' = log /\ up' = up /\ seq' = seq /\ made' = Append(made, v)
  BY DEF LogInv, HistoryAppend
<1>2. made \in Seq(Version) /\ v \in Version
  BY <1>1 DEF Held, Version
<1> HIDE DEF v
<1>3. made' \in Seq(Version) /\ Len(made') = Len(made) + 1
  BY <1>1, <1>2
<1>4. /\ Lines(files', Len(made) + 1) /\ LastComplete(files') /\ files' # <<>> /\ kept' = Ends(files')
      /\ synced' \in Nat /\ synced' <= Len(Current') /\ cur' = Len(Current')
      /\ RecordsIn(files') = RecordsIn(files)
            \cup {[rec |-> Len(made) + 1, seg |-> Len(files'), off |-> CurIn(len), len |-> len]}
  BY <1>1, Added DEF HistoryAppend
<1>5. locs' = RecordsIn(files')
  BY <1>1, <1>4 DEF HistoryAppend, Held
<1>6. Held'
  BY <1>1, <1>3, <1>4, <1>5 DEF Held
<1> QED BY <1>1, <1>6 DEF LogInv, Numbered

LEMMA EmitHolds ==
    ASSUME LogInv, Orderly, NEW len \in Lengths, Emit(len)
    PROVE  LogInv'
<1> DEFINE v == [key |-> 0, id |-> 0, seq |-> seq + 1]
           n == Len(made)
<1>1. /\ Held /\ Numbered /\ up = "open" /\ log = "txlog" /\ log' = log /\ up' = up /\ seq' = seq + 1
      /\ made' = Append(made, v) /\ kept' = kept \cup {n + 1}
  BY DEF LogInv, Emit
<1>2. made \in Seq(Version) /\ v \in Version /\ seq \in Nat /\ n \in Nat /\ v.seq = seq + 1
  BY <1>1 DEF Held, Version
<1> HIDE DEF v
<1>3. made' \in Seq(Version) /\ Len(made') = n + 1 /\ made'[n + 1] = v /\ \A i \in 1 .. n : made'[i] = made[i]
  BY <1>1, <1>2
<1>4. /\ Lines(files', n + 1) /\ LastComplete(files') /\ files' # <<>> /\ kept' = Ends(files')
      /\ synced' \in Nat /\ synced' <= Len(Current') /\ cur' = Len(Current') /\ Current' # <<>>
  BY <1>1, Added DEF Emit
<1>5. Held'
  BY <1>1, <1>2, <1>3, <1>4 DEF Held
<1>6. kept \subseteq 1 .. n
  BY <1>1, <1>2, EndsUpTo DEF Held
<1>7. \A r \in kept : made'[r] = made[r] /\ made[r].seq \in Nat /\ made[r].seq <= seq
  <2> TAKE r \in kept
  <2>1. r \in 1 .. n
    BY <1>6
  <2>2. made[r] \in Version
    BY <1>2, <2>1
  <2>3. made[r].seq \in Nat
    BY <2>2 DEF Version
  <2>4. made[r].seq <= seq
    BY <1>1 DEF Numbered
  <2> QED BY <1>3, <2>1, <2>3, <2>4
<1>8. \A r \in kept' : made'[r].seq <= seq'
  <2> TAKE r \in kept'
  <2>1. CASE r = n + 1
    BY <1>1, <1>2, <1>3, <2>1
  <2>2. CASE r \in kept
    <3>1. made'[r].seq \in Nat /\ made'[r].seq <= seq
      BY <1>7, <2>2
    <3>2. seq' = seq + 1
      BY <1>1
    <3> QED BY <1>2, <3>1, <3>2
  <2> QED BY <1>1, <2>1, <2>2
<1>9. \A q, r \in kept' : q < r => made'[q].seq < made'[r].seq
  <2> SUFFICES ASSUME NEW q \in kept', NEW r \in kept', q < r PROVE made'[q].seq < made'[r].seq
    OBVIOUS
  <2>1. CASE r = n + 1
    <3>1. q \in kept
      BY <1>1, <1>2, <2>1
    <3> QED BY <1>2, <1>3, <1>7, <2>1, <3>1
  <2>2. CASE r # n + 1
    <3>1. r \in kept /\ q \in kept
      BY <1>1, <1>2, <1>6, <2>2
    <3> QED BY <1>1, <1>7, <3>1 DEF Numbered
  <2> QED BY <2>1, <2>2
<1> QED BY <1>4, <1>5, <1>8, <1>9 DEF LogInv, Numbered

\* A write that fails leaves no cell.
LEMMA FailHolds ==
    ASSUME LogInv, Orderly, NEW len \in Lengths, NEW n \in Leftovers[log], WriteFails(len, n)
    PROVE  LogInv'
<1> DEFINE v == [key |-> 0, id |-> 0, seq |-> 0]
           fs == Opened(len)
           f == fs[Len(fs)]
<1>1. Held /\ up = "open" /\ log' = log /\ up' = up /\ made' = Append(made, v) /\ kept' = kept /\ locs' = locs
  BY DEF LogInv, WriteFails
<1>2. log = "history" /\ n = 0
  BY <1>1 DEF Held, Orderly
<1>3. made' \in Seq(Version) /\ Len(made') = Len(made) + 1 /\ Len(made) \in Nat
  <2>1. made \in Seq(Version) /\ v \in Version
    BY <1>1 DEF Held, Version
  <2> HIDE DEF v
  <2> QED BY <1>1, <2>1
<1>4. len \in Nat
  BY DEF Orderly, SegmentsAssumption
<1>5. /\ Lines(fs, Len(made)) /\ LastComplete(fs) /\ fs # <<>> /\ Ends(fs) = kept /\ RecordsIn(fs) = RecordsIn(files)
      /\ CurIn(len) = Len(f) /\ SyncedIn(len) \in Nat /\ SyncedIn(len) <= Len(f)
  BY <1>1, OpenedIs
<1>6. files' = [fs EXCEPT ![Len(fs)] = f \o SubSeq(Cells(Len(made) + 1, len), 1, 0)]
  BY <1>2 DEF WriteFails, Written
<1> HIDE DEF fs
<1>7. f \in Seq(Cell) /\ fs \in Seq(Seq(Cell))
  <2>1. fs \in Seq(Seq(Cell)) /\ Len(fs) \in 1 .. Len(fs)
    BY <1>5, SegmentsAre DEF Lines
  <2> QED BY <2>1, SegmentsAre
<1>8. f \o SubSeq(Cells(Len(made) + 1, len), 1, 0) = f
  BY <1>4, <1>7, NothingAdded
<1>9. files' = fs
  BY <1>6, <1>7, <1>8
<1>10. Lines(fs, Len(made'))
  BY <1>3, <1>5, MoreRecords
<1>11. Current' = f
  BY <1>9 DEF Current
<1>12. synced' = SyncedIn(len) /\ cur' = CurIn(len) /\ seq' = seq
  BY <1>2 DEF WriteFails
<1> HIDE DEF f
<1>13. Held'
  BY <1>1, <1>2, <1>3, <1>5, <1>9, <1>10, <1>11, <1>12 DEF Held
<1> QED BY <1>1, <1>2, <1>13 DEF LogInv, Numbered

LEMMA CurrentIs ==
    ASSUME Held
    PROVE  files # <<>> => Current \in Seq(Cell) /\ Len(Current) \in Nat /\ Len(files) \in 1 .. Len(files) /\ Row(Current)
<1> SUFFICES ASSUME files # <<>>
             PROVE  Current \in Seq(Cell) /\ Len(Current) \in Nat /\ Len(files) \in 1 .. Len(files) /\ Row(Current)
  OBVIOUS
<1>1. files \in Seq(Seq(Cell)) /\ Len(files) \in 1 .. Len(files)
  BY SegmentsAre DEF Held, Lines
<1>2. Row(Current)
  BY <1>1 DEF Held, Lines, Current
<1> QED BY <1>1, <1>2, SegmentsAre DEF Current

LEMMA SyncHolds == ASSUME LogInv, SyncLog PROVE LogInv'
<1>1. Held /\ UNCHANGED <<log, files, up, cur, locs, seq, made, kept>> /\ files # <<>> /\ synced' = Len(Current)
  BY DEF LogInv, SyncLog
<1>2. Current' = Current /\ Len(Current) \in Nat
  BY <1>1, CurrentIs DEF Current
<1>3. Held'
  BY <1>1, <1>2 DEF Held
<1> QED BY <1>1, <1>2, <1>3 DEF LogInv, Numbered

LEMMA CloseHolds == ASSUME LogInv, CloseLog PROVE LogInv'
<1>1. Held /\ UNCHANGED <<log, files, made, kept>> /\ up' = "down" /\ seq' = 0 /\ up = "open"
      /\ synced' = IF files = <<>> THEN 0 ELSE Len(Current)
  BY DEF LogInv, CloseLog
<1>2. Current' = Current /\ (files # <<>> => Len(Current) \in Nat)
  BY <1>1, CurrentIs DEF Current
<1>3. Held'
  BY <1>1, <1>2 DEF Held
<1> QED BY <1>1, <1>2, <1>3 DEF LogInv, Numbered

\* After a stop the records kept are those of which the segments have the end.
LEMMA KeptLeft ==
    ASSUME Held, NEW fs, Stopped(fs), Lines(fs, Len(made)), Ends(fs) \subseteq Ends(files)
    PROVE  kept' = Ends(fs) /\ kept' \subseteq kept
<1>1. \A r : r \in Ends(fs) <=> \E i \in DOMAIN fs : \E j \in DOMAIN fs[i] : fs[i][j].rec = r /\ fs[i][j].part = fs[i][j].of
  <2>1. DOMAIN fs = 1 .. Len(fs) /\ \A i \in 1 .. Len(fs) : fs[i] \in Seq(Cell)
    BY SegmentsAre DEF Lines
  <2>2. \A i \in 1 .. Len(fs) : DOMAIN fs[i] = 1 .. Len(fs[i])
    BY <2>1
  <2> QED BY <2>1, <2>2 DEF Ends, EndRecs
<1>2. kept = Ends(files)
  BY DEF Held
<1> QED BY <1>1, <1>2 DEF Stopped

LEMMA StopHolds ==
    ASSUME LogInv, Orderly, files # <<>>, NEW n \in synced .. Len(Current), StopLog(n)
    PROVE  LogInv'
<1> DEFINE fs == [files EXCEPT ![Len(files)] = SubSeq(Current, 1, n)]
<1>1. Held /\ Len(Current) \in Nat /\ Row(Current) /\ synced \in Nat /\ Len(made) \in Nat /\ Lines(files, Len(made))
  BY CurrentIs DEF LogInv, Held
<1>2. n \in 0 .. Len(Current) /\ n \in Nat
  BY <1>1
<1>3. Stopped(fs) /\ synced' = n /\ KindOf(n) \in Stops[log]
  BY DEF StopLog, Current
<1>4. /\ Lines(fs, Len(made)) /\ Len(fs) = Len(files) /\ fs # <<>> /\ fs[Len(files)] = SubSeq(Current, 1, n)
      /\ Len(fs[Len(fs)]) = n /\ Ends(fs) \subseteq Ends(files)
  BY <1>1, <1>2, LastCut DEF Current
<1> HIDE DEF fs
<1>5. /\ files' = fs /\ up' = "down" /\ log' = log /\ made' = made /\ seq' = 0
      /\ kept' = Ends(fs) /\ kept' \subseteq kept
  BY <1>1, <1>3, <1>4, KeptLeft DEF Stopped
<1>6. Current' = SubSeq(Current, 1, n) /\ Len(Current') = n
  BY <1>4, <1>5 DEF Current
<1>7. log = "txlog" => n # 0 /\ Complete(Current')
  <2> SUFFICES ASSUME log = "txlog" PROVE n # 0 /\ Complete(Current')
    OBVIOUS
  <2>1. KindOf(n) = "whole"
    BY <1>1, <1>3 DEF Orderly, Held
  <2>2. n # 0 /\ Whole(SubSeq(Current, 1, n))
    BY <2>1 DEF KindOf
  <2>3. Row(SubSeq(Current, 1, n))
    BY <1>1, <1>2, PrefixRow
  <2> QED BY <1>6, <2>2, <2>3, WholeIs
<1>8. log = "txlog" => LastComplete(files')
  BY <1>4, <1>5, <1>7 DEF LastComplete, Current
<1>9. Held'
  BY <1>1, <1>2, <1>3, <1>4, <1>5, <1>6, <1>8 DEF Held
<1>10. log = "txlog" => Current' # <<>>
  BY <1>6, <1>7
<1> QED BY <1>5, <1>9, <1>10 DEF LogInv, Numbered

LEMMA GoneHolds ==
    ASSUME LogInv, Orderly, StopGone
    PROVE  LogInv'
<1> DEFINE fs == SubSeq(files, 1, Len(files) - 1)
<1>1. Held /\ files # <<>> /\ Len(made) \in Nat /\ Lines(files, Len(made)) /\ files \in Seq(Seq(Cell)) /\ Len(files) \in Nat
  BY SegmentsAre DEF LogInv, Held, Lines, StopGone
<1>2. Stopped(fs) /\ log = "history" /\ synced' = IF Len(files) = 1 THEN 0 ELSE Len(files[Len(files) - 1])
  BY <1>1 DEF StopGone, Orderly, Held
<1>3. /\ Lines(fs, Len(made)) /\ LastComplete(fs) /\ Len(fs) = Len(files) - 1 /\ Ends(fs) \subseteq Ends(files)
      /\ \A i \in 1 .. Len(fs) : fs[i] = files[i]
  BY <1>1, LastGone
<1> HIDE DEF fs
<1>4. /\ files' = fs /\ up' = "down" /\ log' = log /\ made' = made /\ seq' = 0 /\ kept' = Ends(fs)
  BY <1>1, <1>2, <1>3, KeptLeft DEF Stopped
<1>5. synced' \in Nat /\ (fs # <<>> => synced' <= Len(Current'))
  <2>1. CASE Len(files) = 1
    <3>1. fs = <<>>
      BY <1>3, <2>1, SegmentsAre DEF Lines
    <3> QED BY <1>2, <2>1, <3>1
  <2>2. CASE Len(files) # 1
    <3>1. Len(fs) \in 1 .. Len(fs) /\ Len(files) - 1 \in 1 .. Len(files)
      BY <1>1, <1>3, <2>2, SegmentsAre
    <3>2. Current' = files[Len(files) - 1] /\ Len(files[Len(files) - 1]) \in Nat
      BY <1>1, <1>3, <1>4, <3>1, SegmentsAre DEF Current
    <3> QED BY <1>2, <2>2, <3>2
  <2> QED BY <2>1, <2>2
<1>6. Held'
  BY <1>1, <1>2, <1>3, <1>4, <1>5 DEF Held
<1> QED BY <1>2, <1>4, <1>6 DEF LogInv, Numbered

LEMMA OpenHistoryHolds ==
    ASSUME LogInv, Orderly, OpenHistory
    PROVE  LogInv'
<1> DEFINE fs == [i \in DOMAIN files |-> IF i = Len(files) THEN Repaired(files[i]) ELSE files[i]]
<1>1. /\ Held /\ log = "history" /\ Len(made) \in Nat /\ Lines(files, Len(made)) /\ synced \in Nat
      /\ log' = log /\ seq' = seq /\ made' = made /\ kept' = kept
      /\ files \in Seq(Seq(Cell)) /\ Len(files) \in Nat /\ DOMAIN files = 1 .. Len(files)
  BY SegmentsAre DEF LogInv, Held, Lines, OpenHistory
<1>2. \A i \in 1 .. Len(files) - 1 : Whole(files[i])
  <2> TAKE i \in 1 .. Len(files) - 1
  <2>0. Len(files) \in Nat
    BY <1>1
  <2>1. i \in 1 .. Len(files) /\ i # Len(files)
    BY <2>0
  <2>2. Row(files[i]) /\ Complete(files[i])
    BY <1>1, <2>1 DEF Lines
  <2> QED BY <2>2, WholeIs
<1>3. /\ up' = "open" /\ files' = fs
      /\ cur' = IF files = <<>> THEN 0 ELSE Len(files'[Len(files)])
      /\ synced' = IF synced < cur' THEN synced ELSE cur'
      /\ locs' = UNION {Places(i, files'[i]) : i \in DOMAIN files}
  BY <1>2 DEF OpenHistory
<1>4. Numbered'
  BY <1>1 DEF Numbered
<1>5. CASE files = <<>>
  <2>1. fs = <<>>
    BY <1>1, <1>5
  <2>2. locs' = {}
    BY <1>3, <1>5
  <2>3. Lines(files', Len(made)) /\ LastComplete(files') /\ Ends(files') = {} /\ RecordsIn(files') = {} /\ Ends(files) = {}
    BY <1>3, <1>5, <2>1, NoSegments
  <2>4. cur' = 0 /\ synced' = 0
    BY <1>1, <1>3, <1>5
  <2>5. Held'
    BY <1>1, <1>3, <2>1, <2>2, <2>3, <2>4 DEF Held
  <2> QED BY <1>4, <2>5 DEF LogInv
<1>6. CASE files # <<>>
  <2> DEFINE f == files[Len(files)]
             e == EndOf(f)
             gs == [files EXCEPT ![Len(files)] = SubSeq(f, 1, e)]
  <2>1. Len(files) \in 1 .. Len(files) /\ Row(f) /\ Len(f) \in Nat
    BY <1>1, <1>6, CurrentIs DEF Current
  <2>2. e \in 0 .. Len(f) /\ Repaired(f) = SubSeq(f, 1, e) /\ Complete(SubSeq(f, 1, e))
    BY <2>1, EndIs, RepairedRow
  <2>3. fs = gs
    BY <1>1, <2>1, <2>2
  <2>4. /\ Lines(gs, Len(made)) /\ Len(gs) = Len(files) /\ gs # <<>> /\ gs[Len(files)] = SubSeq(f, 1, e)
        /\ Len(gs[Len(gs)]) = e
    <3> HIDE DEF e
    <3> QED BY <1>1, <1>6, <2>2, LastCut
  <2>5. LastComplete(gs)
    BY <2>2, <2>4 DEF LastComplete
  <2>6. \A i \in 1 .. Len(files) : EndRecs(gs[i]) = EndRecs(files[i])
    <3>1. \A i \in 1 .. Len(files) : i # Len(files) => gs[i] = files[i]
      BY <1>1
    <3>2. EndRecs(SubSeq(f, 1, e)) = EndRecs(f)
      BY <2>1, RepairedEnds
    <3> QED BY <2>4, <3>1, <3>2
  <2> HIDE DEF gs, e, f
  <2>7. Ends(gs) = Ends(files)
    BY <2>4, <2>6 DEF Ends
  <2>8. files' = gs /\ cur' = e /\ Current' = gs[Len(gs)] /\ Len(Current') = e /\ e \in Nat
    BY <1>3, <1>6, <2>2, <2>3, <2>4, <2>1 DEF Current
  <2>9. locs' = RecordsIn(files')
    BY <1>1, <1>3, <2>4, <2>8 DEF RecordsIn
  <2>10. synced' \in Nat /\ synced' <= e
    BY <1>1, <1>3, <2>8
  <2>11. Held'
    BY <1>1, <1>3, <2>4, <2>5, <2>7, <2>8, <2>9, <2>10 DEF Held
  <2> QED BY <1>4, <2>11 DEF LogInv
<1> QED BY <1>5, <1>6

LEMMA OpenTxLogHolds ==
    ASSUME LogInv, OpenTxLog
    PROVE  LogInv'
<1>1. /\ Held /\ Numbered /\ log = "txlog" /\ UNCHANGED <<log, files, synced, made, kept>> /\ up' = "open"
      /\ cur' = (IF files = <<>> THEN 0 ELSE Len(Current))
      /\ seq' = (IF files = <<>> THEN 0 ELSE ResumedSeq(Current)) /\ Len(made) \in Nat
  BY DEF LogInv, OpenTxLog, Held
<1>2. Current' = Current
  BY <1>1 DEF Current
<1>3. seq' \in Nat /\ \A r \in kept : made[r].seq <= seq'
  <2>1. CASE files = <<>>
    BY <1>1, <2>1, NoSegments DEF Held
  <2>2. CASE files # <<>>
    <3> DEFINE n == Len(Current)
               c == Current[n]
    <3>1. /\ Current \in Seq(Cell) /\ n \in Nat /\ Len(files) \in 1 .. Len(files) /\ Row(Current)
          /\ Current # <<>> /\ Complete(Current)
      BY <1>1, <2>2, CurrentIs DEF Numbered, Held, LastComplete, Current
    <3>2. n \in 1 .. n /\ c.part = c.of
      BY <3>1 DEF Complete
    <3>3. seq' = made[c.rec].seq
      BY <1>1, <2>2, <3>1, WholeIs DEF ResumedSeq
    <3>4. c.rec \in EndRecs(Current)
      BY <3>2 DEF EndRecs
    <3>5. c.rec \in kept
      BY <1>1, <3>1, <3>4 DEF Held, Ends, Current
    <3>6. \A r \in kept : r <= c.rec
      <4>1. Lines(files, Len(made)) /\ LastComplete(files) /\ Len(made) \in Nat /\ kept = Ends(files)
        BY <1>1 DEF Held
      <4>2. Current = files[Len(files)]
        BY DEF Current
      <4> QED BY <2>2, <3>1, <4>1, <4>2, LastIsNewest
    <3>7. kept \subseteq 1 .. Len(made)
      BY <1>1, EndsUpTo DEF Held
    <3>8. \A r \in kept : r \in Nat /\ made[r].seq \in Nat
      <4> TAKE r \in kept
      <4>1. made[r] \in Version
        BY <1>1, <3>7 DEF Held
      <4> QED BY <3>7, <4>1 DEF Version
    <3> HIDE DEF c
    <3>9. \A r \in kept : made[r].seq <= made[c.rec].seq
      <4> TAKE r \in kept
      <4>1. CASE r = c.rec
        BY <3>8, <4>1
      <4>2. CASE r # c.rec
        <5>1. r < c.rec
          BY <3>5, <3>6, <3>8, <4>2
        <5>2. made[r].seq < made[c.rec].seq
          BY <1>1, <3>5, <5>1 DEF Numbered
        <5> QED BY <3>5, <3>8, <5>2
      <4> QED BY <4>1, <4>2
    <3> QED BY <3>3, <3>5, <3>8, <3>9
  <2> QED BY <2>1, <2>2
<1>4. Held'
  BY <1>1, <1>2, <1>3 DEF Held
<1> QED BY <1>1, <1>2, <1>3, <1>4 DEF LogInv, Numbered

LEMMA LogStep == ASSUME Orderly, LogInv, [LogNext]_LogVars PROVE LogInv'
<1>1. CASE \E k \in Keys, id \in Ids, len \in Lengths : Archive(k, id, len)
  BY <1>1, ArchiveHolds DEF Archive
<1>2. CASE \E len \in Lengths : Emit(len)
  BY <1>2, EmitHolds
<1>3. CASE \E len \in Lengths : \E n \in Leftovers[log] : WriteFails(len, n)
  BY <1>3, FailHolds
<1>4. CASE SyncLog
  BY <1>4, SyncHolds
<1>5. CASE CloseLog
  BY <1>5, CloseHolds
<1>6. CASE files # <<>> /\ \E n \in synced .. Len(Current) : StopLog(n)
  BY <1>6, StopHolds
<1>7. CASE StopGone
  BY <1>7, GoneHolds
<1>8. CASE OpenHistory
  BY <1>8, OpenHistoryHolds
<1>9. CASE OpenTxLog
  BY <1>9, OpenTxLogHolds
<1>10. CASE UNCHANGED LogVars
  BY <1>10 DEF LogVars, LogInv, Held, Numbered, Current
<1> QED BY <1>1, <1>2, <1>3, <1>4, <1>5, <1>6, <1>7, <1>8, <1>9, <1>10 DEF LogNext

-----------------------------------------------------------------------------
(* What a reader finds.                                                    *)

LEMMA Reads == ASSUME Held, LastComplete(files) PROVE ReadDir = RecordsIn(files) /\ ReadsBack
<1>1. /\ Lines(files, Len(made)) /\ Len(made) \in Nat /\ kept = Ends(files) /\ DOMAIN files = 1 .. Len(files)
  BY SegmentsAre DEF Held, Lines
<1>2. ReadDir = RecordsIn(files)
  BY <1>1 DEF ReadDir, RecordsIn
<1>3. Readable
  <2> SUFFICES ASSUME NEW i \in 1 .. Len(files) PROVE Whole(files[i])
    BY <1>1 DEF Readable
  <2>1. Row(files[i]) /\ (i # Len(files) => Complete(files[i])) /\ Len(files) \in Nat
    BY SegmentsAre DEF Held, Lines
  <2>2. files # <<>>
    BY <2>1
  <2>3. Complete(files[i])
    BY <2>1, <2>2 DEF LastComplete
  <2> QED BY <2>1, <2>3, WholeIs
<1> QED BY <1>1, <1>2, <1>3, FoundIs DEF ReadsBack

LEMMA HistoryReads == ASSUME LogInv PROVE HistoryExact
<1> SUFFICES ASSUME log = "history", up = "open"
             PROVE  /\ ReadsBack
                    /\ \A k \in Keys, snap \in Ids : Resolve(k, snap) = {made[r] : r \in NewestOf(kept, k, snap)}
                    /\ \A k \in Keys, snap \in Ids : ResolveDir(k, snap) = Resolve(k, snap)
  BY DEF HistoryExact, LogInv, Held
<1>1. /\ ReadDir = RecordsIn(files) /\ ReadsBack /\ locs = RecordsIn(files) /\ kept = Ends(files)
      /\ Lines(files, Len(made)) /\ Len(made) \in Nat
  BY Reads DEF LogInv, Held
<1>2. {l.rec : l \in locs} = kept /\ {l.rec : l \in ReadDir} = kept
  BY <1>1, FoundIs
<1>3. \A l \in locs : ReadLoc(l) = made[l.rec]
  <2> TAKE l \in locs
  <2>1. /\ Decodes(files[l.seg], l.off) /\ files[l.seg][l.off + 1].of = l.len
        /\ files[l.seg][l.off + 1].rec = l.rec
    BY <1>1, FoundIs
  <2> QED BY <2>1 DEF ReadLoc
<1>4. ASSUME NEW k \in Keys, NEW snap \in Ids PROVE Resolve(k, snap) = {made[r] : r \in NewestOf(kept, k, snap)}
  <2> DEFINE N == NewestOf(kept, k, snap)
  <2>1. N \subseteq kept
    BY DEF NewestOf
  <2>2. Resolve(k, snap) = {ReadLoc(l) : l \in {m \in locs : m.rec \in N}}
    BY <1>2 DEF Resolve
  <2> HIDE DEF N
  <2>3. ASSUME NEW v \in Resolve(k, snap) PROVE v \in {made[r] : r \in N}
    BY <1>3, <2>2
  <2>4. ASSUME NEW r \in N PROVE made[r] \in Resolve(k, snap)
    <3>1. PICK l \in locs : l.rec = r
      BY <1>2, <2>1
    <3> QED BY <1>3, <2>2, <3>1
  <2> QED BY <2>3, <2>4 DEF N
<1>5. ASSUME NEW k \in Keys, NEW snap \in Ids PROVE ResolveDir(k, snap) = Resolve(k, snap)
  BY <1>2, <1>4 DEF ResolveDir
<1> QED BY <1>1, <1>4, <1>5

LEMMA EventsRead == ASSUME LogInv PROVE EventsExact
BY Reads DEF EventsExact, LogInv, Held, Numbered

-----------------------------------------------------------------------------
(* The sizes, and the numbers of the events.                               *)

Sized(fs) == \A i \in 1 .. Len(fs) : Len(fs[i]) > MaxSegment => \A a, b \in Heads(fs[i]) : a = b

Bounded ==
    /\ Sized(files) /\ Len(made) <= MaxRecords /\ seq <= Len(made)
    /\ \A r \in 1 .. Len(made) : made[r].seq <= Len(made)

LEMMA EmptySized == Heads(<<>>) = {}
<1>1. Len(<<>>) = 0
  OBVIOUS
<1> QED BY <1>1 DEF Heads

LEMMA CutSized ==
    ASSUME NEW fs, NEW n \in Nat, Lines(fs, n), fs # <<>>, NEW m \in 0 .. Len(fs[Len(fs)]), Sized(fs), Orderly
    PROVE  Sized([fs EXCEPT ![Len(fs)] = SubSeq(fs[Len(fs)], 1, m)])
<1> DEFINE f == fs[Len(fs)]
           g == SubSeq(f, 1, m)
           gs == [fs EXCEPT ![Len(fs)] = g]
<1>1. fs \in Seq(Seq(Cell)) /\ Len(fs) \in 1 .. Len(fs) /\ Row(f) /\ Len(f) \in Nat /\ MaxSegment \in Nat
  BY SegmentsAre DEF Lines, Orderly, SegmentsAssumption
<1>2. Len(gs) = Len(fs) /\ gs[Len(fs)] = g /\ \A i \in 1 .. Len(fs) : i # Len(fs) => gs[i] = fs[i]
  BY <1>1
<1>3. Len(g) = m /\ \A p \in 1 .. m : g[p] = f[p]
  <2>1. m \in 0 .. Len(f)
    OBVIOUS
  <2> HIDE DEF f
  <2> QED BY <1>1, <2>1, PrefixRow
<1> HIDE DEF g
<1>4. Heads(g) \subseteq Heads(f)
  <2> SUFFICES ASSUME NEW o \in Heads(g) PROVE o \in Heads(f)
    OBVIOUS
  <2>1. o \in 0 .. m - 1 /\ g[o + 1].part = 1 /\ o + g[o + 1].of <= m
    BY <1>3 DEF Heads
  <2>2. o + 1 \in 1 .. m /\ g[o + 1] = f[o + 1] /\ o + 1 \in 1 .. Len(f) /\ o \in 0 .. Len(f) - 1
    BY <1>1, <1>3, <2>1
  <2>3. f[o + 1].of \in Nat
    BY <1>1, <2>2, RowTypes
  <2> HIDE DEF f
  <2>4. m <= Len(f)
    BY DEF f
  <2>5. f[o + 1].part = 1 /\ o + f[o + 1].of <= Len(f)
    BY <1>1, <2>1, <2>2, <2>3, <2>4
  <2> QED BY <2>2, <2>5 DEF Heads
<1> HIDE DEF gs
<1>5. ASSUME NEW i \in 1 .. Len(fs), Len(gs[i]) > MaxSegment, NEW a \in Heads(gs[i]), NEW b \in Heads(gs[i]) PROVE a = b
  <2>1. CASE i # Len(fs)
    BY <1>2, <1>5, <2>1 DEF Sized
  <2>2. CASE i = Len(fs)
    <3>1. gs[i] = g /\ Len(f) > MaxSegment
      BY <1>1, <1>2, <1>3, <1>5, <2>2
    <3>2. a \in Heads(f) /\ b \in Heads(f)
      BY <1>4, <1>5, <3>1
    <3> QED BY <1>1, <3>1, <3>2 DEF Sized
  <2> QED BY <2>1, <2>2
<1>6. Sized(gs)
  BY <1>2, <1>5 DEF Sized
<1> QED BY <1>6 DEF gs, g

LEMMA OpenedSized ==
    ASSUME Held, Orderly, up = "open", NEW len \in Lengths, Sized(files)
    PROVE  Sized(Opened(len))
<1>1. CASE Rotates(len)
  <2> DEFINE gs == Append(files, <<>>)
  <2>1. files \in Seq(Seq(Cell)) /\ Len(files) \in Nat /\ MaxSegment \in Nat
    BY SegmentsAre DEF Held, Lines, Orderly, SegmentsAssumption
  <2>2. Len(gs) = Len(files) + 1 /\ gs[Len(files) + 1] = <<>> /\ \A i \in 1 .. Len(files) : gs[i] = files[i]
    BY <2>1
  <2> HIDE DEF gs
  <2>3. \A i \in 1 .. Len(gs) : i \in 1 .. Len(files) \/ i = Len(files) + 1
    BY <2>1, <2>2
  <2>4. Sized(gs)
    BY <2>2, <2>3, EmptySized DEF Sized
  <2> QED BY <1>1, <2>4 DEF Opened, gs
<1>2. CASE ~Rotates(len)
  BY <1>2 DEF Opened
<1> QED BY <1>1, <1>2

LEMMA AddedSized ==
    ASSUME Held, Orderly, up = "open", NEW len \in Lengths, Sized(files),
           files' = Written(Cells(Len(made) + 1, len), len)
    PROVE  Sized(files')
<1> DEFINE fs == Opened(len)
           f == fs[Len(fs)]
           g == f \o Cells(Len(made) + 1, len)
           gs == [fs EXCEPT ![Len(fs)] = g]
<1>0. Len(made) + 1 \in Nat /\ len \in Nat /\ len >= 1 /\ MaxSegment \in Nat
  BY DEF Held, Orderly, SegmentsAssumption
<1>1. Lines(fs, Len(made)) /\ LastComplete(fs) /\ fs # <<>> /\ CurIn(len) = Len(f) /\ CurIn(len) \in Nat /\ Sized(fs)
  BY OpenedIs, OpenedSized
<1>2. files' = gs
  BY DEF Written
<1>3. CurIn(len) # 0 => CurIn(len) = cur /\ ~(cur + len > MaxSegment)
  <2> SUFFICES ASSUME CurIn(len) # 0 PROVE CurIn(len) = cur /\ ~(cur + len > MaxSegment)
    OBVIOUS
  <2>1. ~Rotates(len) /\ CurIn(len) = cur
    BY DEF CurIn
  <2>2. cur > 0
    BY <1>1, <2>1
  <2> QED BY <2>1, <2>2 DEF Rotates
<1> HIDE DEF fs
<1>4. fs \in Seq(Seq(Cell)) /\ Len(fs) \in 1 .. Len(fs) /\ Row(f) /\ Complete(f)
  BY <1>1, SegmentsAre DEF Lines, LastComplete
<1> HIDE DEF f
<1>5. Heads(g) = Heads(f) \cup {Len(f)}
  BY <1>0, <1>4, HeadAdded
<1>6. Adds(f, g, Len(made) + 1, len)
  BY <1>0, <1>4, RecordAdded
<1> HIDE DEF g
<1>7. g \in Seq(Cell) /\ Len(g) = Len(f) + len
  BY <1>6 DEF Adds, Row
<1>8. Len(gs) = Len(fs) /\ gs[Len(fs)] = g /\ \A i \in 1 .. Len(fs) : i # Len(fs) => gs[i] = fs[i]
  BY <1>4
<1> HIDE DEF gs
<1>9. Len(g) > MaxSegment => \A a, b \in Heads(g) : a = b
  <2> SUFFICES ASSUME Len(g) > MaxSegment PROVE \A a, b \in Heads(g) : a = b
    OBVIOUS
  <2>1. Len(f) = 0
    BY <1>0, <1>1, <1>3, <1>7
  <2>2. Heads(f) = {}
    BY <2>1 DEF Heads
  <2> QED BY <1>5, <2>2
<1>10. Sized(gs)
  BY <1>1, <1>8, <1>9 DEF Sized
<1> QED BY <1>2, <1>10

LEMMA MadeMore ==
    ASSUME LogInv, Bounded, NEW v \in Version, made' = Append(made, v), Len(made) < MaxRecords, Orderly,
           seq' \in Nat, v.seq <= Len(made) + 1, seq' <= Len(made) + 1
    PROVE  /\ Len(made') <= MaxRecords /\ seq' <= Len(made')
           /\ \A r \in 1 .. Len(made') : made'[r].seq <= Len(made')
<1> DEFINE n == Len(made)
<1>1. made \in Seq(Version) /\ n \in Nat /\ MaxRecords \in Nat
  BY DEF LogInv, Held, Orderly, SegmentsAssumption
<1>2. Len(made') = n + 1 /\ made'[n + 1] = v /\ \A r \in 1 .. n : made'[r] = made[r]
  BY <1>1
<1>3. \A r \in 1 .. n : made'[r].seq <= n + 1
  <2> TAKE r \in 1 .. n
  <2>1. made[r] \in Version
    BY <1>1
  <2>2. made[r].seq \in Nat /\ made[r].seq <= n
    BY <2>1 DEF Version, Bounded
  <2> QED BY <1>1, <1>2, <2>2
<1>4. \A r \in 1 .. n + 1 : r \in 1 .. n \/ r = n + 1
  BY <1>1
<1> HIDE DEF n
<1>5. \A r \in 1 .. n + 1 : made'[r].seq <= n + 1
  BY <1>2, <1>3, <1>4 DEF n
<1>6. n < MaxRecords
  BY DEF n
<1> QED BY <1>1, <1>2, <1>5, <1>6 DEF n

LEMMA BoundedStep == ASSUME Orderly, LogInv, Bounded, [LogNext]_LogVars PROVE Bounded'
<1>0. /\ Held /\ Len(made) \in Nat /\ seq \in Nat /\ Lines(files, Len(made)) /\ made \in Seq(Version)
      /\ files \in Seq(Seq(Cell)) /\ Len(files) \in Nat /\ DOMAIN files = 1 .. Len(files)
  BY SegmentsAre DEF LogInv, Held, Lines
<1>1. ASSUME NEW k \in Keys, NEW id \in Ids, NEW len \in Lengths, HistoryAppend(k, id, len) PROVE Bounded'
  <2> DEFINE v == [key |-> k, id |-> id, seq |-> 0]
  <2>1. v \in Version /\ v.seq = 0 /\ made' = Append(made, v) /\ seq' = seq /\ Len(made) < MaxRecords
    BY <1>1 DEF Version, HistoryAppend
  <2>2. Sized(files')
    BY <1>0, <1>1, AddedSized DEF HistoryAppend, Bounded
  <2> HIDE DEF v
  <2>3. seq' \in Nat /\ v.seq <= Len(made) + 1 /\ seq' <= Len(made) + 1
    BY <1>0, <2>1 DEF Bounded
  <2> QED BY <2>1, <2>2, <2>3, MadeMore DEF Bounded
<1>2. ASSUME NEW len \in Lengths, Emit(len) PROVE Bounded'
  <2> DEFINE v == [key |-> 0, id |-> 0, seq |-> seq + 1]
  <2>1. v \in Version /\ v.seq = seq + 1 /\ made' = Append(made, v) /\ seq' = seq + 1 /\ Len(made) < MaxRecords
    BY <1>0, <1>2 DEF Version, Emit
  <2>2. Sized(files')
    BY <1>0, <1>2, AddedSized DEF Emit, Bounded
  <2> HIDE DEF v
  <2>3. seq' \in Nat /\ v.seq <= Len(made) + 1 /\ seq' <= Len(made) + 1
    BY <1>0, <2>1 DEF Bounded
  <2> QED BY <2>1, <2>2, <2>3, MadeMore DEF Bounded
<1>3. ASSUME NEW len \in Lengths, NEW n \in Leftovers[log], WriteFails(len, n) PROVE Bounded'
  <2> DEFINE v == [key |-> 0, id |-> 0, seq |-> 0]
             fs == Opened(len)
  <2>1. v \in Version /\ v.seq = 0 /\ made' = Append(made, v) /\ Len(made) < MaxRecords /\ up = "open"
    BY <1>3 DEF Version, WriteFails
  <2>2. log = "history" /\ n = 0
    BY <1>0, <1>3 DEF Held, Orderly
  <2>3. seq' = seq
    BY <1>3, <2>2 DEF WriteFails
  <2>4. len \in Nat
    BY DEF Orderly, SegmentsAssumption
  <2>5. Lines(fs, Len(made)) /\ fs # <<>> /\ Sized(fs)
    BY <1>0, <2>1, OpenedIs, OpenedSized DEF Bounded
  <2>6. files' = [fs EXCEPT ![Len(fs)] = fs[Len(fs)] \o SubSeq(Cells(Len(made) + 1, len), 1, 0)]
    BY <1>3, <2>2 DEF WriteFails, Written
  <2> HIDE DEF fs, v
  <2>7. fs \in Seq(Seq(Cell)) /\ fs[Len(fs)] \in Seq(Cell)
    <3>1. fs \in Seq(Seq(Cell)) /\ Len(fs) \in 1 .. Len(fs)
      BY <2>5, SegmentsAre DEF Lines
    <3> QED BY <3>1, SegmentsAre
  <2>8. fs[Len(fs)] \o SubSeq(Cells(Len(made) + 1, len), 1, 0) = fs[Len(fs)]
    BY <2>4, <2>7, NothingAdded
  <2>9. files' = fs
    BY <2>6, <2>7, <2>8
  <2> QED BY <1>0, <2>1, <2>3, <2>5, <2>9, MadeMore DEF Bounded
<1>4. CASE SyncLog
  BY <1>4 DEF SyncLog, Bounded
<1>5. CASE CloseLog
  BY <1>0, <1>5 DEF CloseLog, Bounded
<1>6. ASSUME files # <<>>, NEW n \in synced .. Len(Current), StopLog(n) PROVE Bounded'
  <2>1. n \in 0 .. Len(Current)
    BY <1>0, <1>6, CurrentIs DEF Held
  <2>2. files' = [files EXCEPT ![Len(files)] = SubSeq(Current, 1, n)] /\ made' = made /\ seq' = 0
    BY <1>6 DEF StopLog, Stopped, Current
  <2>3. Sized(files')
    BY <1>0, <1>6, <2>1, <2>2, CutSized DEF Current, Bounded
  <2> QED BY <1>0, <2>2, <2>3 DEF Bounded
<1>7. CASE StopGone
  <2>1. /\ files # <<>> /\ files' = SubSeq(files, 1, Len(files) - 1) /\ made' = made /\ seq' = 0
    BY <1>7 DEF StopGone, Stopped
  <2>2. Len(files') = Len(files) - 1 /\ \A i \in 1 .. Len(files') : files'[i] = files[i]
    BY <1>0, <2>1, LastGone
  <2>3. \A i \in 1 .. Len(files') : i \in 1 .. Len(files)
    BY <1>0, <2>2
  <2>4. Sized(files')
    BY <2>2, <2>3 DEF Bounded, Sized
  <2> QED BY <1>0, <2>1, <2>4 DEF Bounded
<1>8. CASE OpenHistory
  <2>1. made' = made /\ seq' = seq
    BY <1>8 DEF OpenHistory
  <2>2. Sized(files')
    <3> DEFINE fs == [i \in DOMAIN files |-> IF i = Len(files) THEN Repaired(files[i]) ELSE files[i]]
    <3>1. files' = files \/ files' = fs
      BY <1>8 DEF OpenHistory
    <3>2. CASE files = <<>>
      <4>1. fs = <<>>
        BY <1>0, <3>2
      <4> QED BY <3>1, <3>2, <4>1 DEF Sized
    <3>3. CASE files # <<>>
      <4> DEFINE f == files[Len(files)]
                 e == EndOf(f)
                 gs == [files EXCEPT ![Len(files)] = SubSeq(f, 1, e)]
      <4>1. Row(f)
        BY <1>0, <3>3, CurrentIs DEF Current
      <4>2. e \in 0 .. Len(f) /\ Repaired(f) = SubSeq(f, 1, e)
        BY <4>1, EndIs, RepairedRow
      <4>3. fs = gs
        BY <1>0, <4>2
      <4>4. Sized(gs)
        <5> HIDE DEF e
        <5> QED BY <1>0, <3>3, <4>2, CutSized DEF Bounded
      <4> QED BY <3>1, <4>3, <4>4 DEF Bounded
    <3> QED BY <3>2, <3>3
  <2> QED BY <2>1, <2>2 DEF Bounded
<1>9. CASE OpenTxLog
  <2>1. files' = files /\ made' = made /\ seq' = (IF files = <<>> THEN 0 ELSE ResumedSeq(Current)) /\ log = "txlog"
    BY <1>9 DEF OpenTxLog
  <2>2. seq' <= Len(made)
    <3>1. CASE files = <<>>
      BY <1>0, <2>1, <3>1
    <3>2. CASE files # <<>>
      <4>1. Current # <<>> /\ Row(Current) /\ Complete(Current) /\ Len(files) \in 1 .. Len(files)
        BY <2>1, <3>2, CurrentIs DEF LogInv, Numbered, Held, LastComplete, Current
      <4> DEFINE c == Current[Len(Current)]
      <4>2. seq' = made[c.rec].seq
        BY <2>1, <3>2, <4>1, WholeIs DEF ResumedSeq
      <4>3. Len(Current) \in 1 .. Len(Current)
        BY <4>1 DEF Row
      <4>4. c.rec \in 1 .. Len(made)
        BY <1>0, <4>1, <4>3 DEF Lines, UpTo, Current
      <4> QED BY <4>2, <4>4 DEF Bounded
    <3> QED BY <3>1, <3>2
  <2> QED BY <2>1, <2>2 DEF Bounded
<1>10. CASE UNCHANGED LogVars
  BY <1>10 DEF LogVars, Bounded
<1> QED BY <1>1, <1>2, <1>3, <1>4, <1>5, <1>6, <1>7, <1>8, <1>9, <1>10 DEF LogNext, Archive

LEMMA BoundedInitially == ASSUME Orderly, LogInit PROVE Bounded
<1>1. Len(<<>>) = 0 /\ MaxRecords \in Nat
  BY DEF Orderly, SegmentsAssumption
<1> QED BY <1>1 DEF LogInit, Bounded, Sized

LEMMA TypesHold == ASSUME Orderly, LogInv, Bounded PROVE LogTypeOK
<1>1. /\ Held /\ Len(made) \in Nat /\ seq \in Nat /\ MaxRecords \in Nat /\ Lines(files, Len(made))
      /\ Len(files) \in Nat /\ DOMAIN files = 1 .. Len(files)
  BY SegmentsAre DEF LogInv, Held, Lines, Orderly, SegmentsAssumption
<1>2. seq \in 0 .. MaxRecords /\ Len(made) <= MaxRecords
  BY <1>1 DEF Bounded
<1>3. files # <<>> => synced \in 0 .. Len(Current)
  BY <1>1, CurrentIs DEF Held
<1>4. \A i \in DOMAIN files : Len(files[i]) > MaxSegment => \A a, b \in Scan(files[i]).offs : a = b
  <2> SUFFICES ASSUME NEW i \in 1 .. Len(files), Len(files[i]) > MaxSegment
               PROVE  \A a, b \in Scan(files[i]).offs : a = b
    BY <1>1
  <2>1. Scan(files[i]).offs = Heads(files[i])
    BY <1>1, ScanIs DEF Lines
  <2> QED BY <2>1 DEF Bounded, Sized
<1> QED BY <1>1, <1>2, <1>3, <1>4 DEF LogTypeOK, Held

-----------------------------------------------------------------------------

\* For any keys, versions, lengths and size of a segment, and for any number of
\* records and of stops that keep any prefix of what was not synced, or not even the
\* segment: the archive serves exactly the versions archived that no stop
\* took, by its index and to a reader of the directory, and no opening is refused
\* (history.go: Append, buildIndex, Resolve, ResolveHistoryDir).  A write that
\* fails leaves no cell.
THEOREM HistoryServed ==
    ASSUME Orderly
    PROVE  LogSpec => []HistoryExact
<1>1. LogInit => LogInv
  BY Initially
<1>2. LogInv /\ [LogNext]_LogVars => LogInv'
  BY LogStep
<1>3. LogInv => HistoryExact
  BY HistoryReads
<1> QED BY <1>1, <1>2, <1>3, PTL DEF LogSpec

\* The same of the events: with any number of rotations, closings and stops that
\* leave whole events, and no failing write, they are read back as they were
\* emitted and their numbers increase over the openings (txnlog.go: Emit,
\* OpenTxLog, ReadTxLogDir).
THEOREM EventsServed ==
    ASSUME Orderly
    PROVE  LogSpec => []EventsExact
<1>1. LogInit => LogInv
  BY Initially
<1>2. LogInv /\ [LogNext]_LogVars => LogInv'
  BY LogStep
<1>3. LogInv => EventsExact
  BY EventsRead
<1> QED BY <1>1, <1>2, <1>3, PTL DEF LogSpec

\* The types of both logs; a segment grows past its size by one record only.
THEOREM LogTyped ==
    ASSUME Orderly
    PROVE  LogSpec => []LogTypeOK
<1>1. LogInit => LogInv /\ Bounded
  BY Initially, BoundedInitially
<1>2. LogInv /\ Bounded /\ [LogNext]_LogVars => (LogInv /\ Bounded)'
  BY LogStep, BoundedStep
<1>3. LogInv /\ Bounded => LogTypeOK
  BY TypesHold
<1> QED BY <1>1, <1>2, <1>3, PTL DEF LogSpec

-----------------------------------------------------------------------------
(* The lock ladder, for any number of connections.  ReadStable needs that  *)
(* the connection at EXCLUSIVE is alone, which is kept because PENDING and *)
(* above belong to one connection and keep new readers out.                *)

\* At EXCLUSIVE there is no other connection.
Alone == \A c \in Conns : holders[c] = LockExclusive => ~AnyOther(c, LockShared)

LadderInv == TypeOK /\ Alone /\ ReadStable

LEMMA LadderInit == Init => LadderInv
BY VFSLocksAssumption DEF Init, LadderInv, TypeOK, Alone, ReadStable, AnyOther, Levels, LockNone, LockShared,
   LockReserved, LockPending, LockExclusive

LEMMA LadderConn == ASSUME LadderInv, NEW c \in Conns, ConnNext(c) PROVE LadderInv'
<1> USE DEF LockNone, LockShared, LockReserved, LockPending, LockExclusive, Levels
<1>t. /\ holders \in [Conns -> 0 .. 4] /\ file \in 0 .. MaxWrites /\ seen \in [Conns -> 0 .. MaxWrites]
      /\ MaxWrites \in Nat
  BY VFSLocksAssumption DEF LadderInv, TypeOK
<1>1. CASE LockToShared(c)
  <2>1. TypeOK'
    BY <1>t, <1>1 DEF LadderInv, TypeOK, LockToShared, Raise, AnyOther
  <2>2. Alone' /\ ReadStable'
    BY <1>t, <1>1 DEF LadderInv, TypeOK, Alone, ReadStable, LockToShared, Raise, AnyOther
  <2> QED BY <2>1, <2>2 DEF LadderInv
<1>2. CASE LockToReserved(c)
  BY <1>t, <1>2 DEF LadderInv, TypeOK, Alone, ReadStable, LockToReserved, Raise, AnyOther
<1>3. CASE LockToPending(c)
  BY <1>t, <1>3 DEF LadderInv, TypeOK, Alone, ReadStable, LockToPending, Raise, AnyOther
<1>4. CASE LockToExclusive(c)
  <2>1. CASE AnyOther(c, LockShared)
    BY <1>t, <1>4, <2>1 DEF LadderInv, TypeOK, Alone, ReadStable, LockToExclusive, Raise, AnyOther
  <2>2. CASE ~AnyOther(c, LockShared)
    BY <1>t, <1>4, <2>2 DEF LadderInv, TypeOK, Alone, ReadStable, LockToExclusive, Raise, AnyOther
  <2> QED BY <2>1, <2>2
<1>5. ASSUME NEW l \in LockNone .. LockPending, Unlock(c, l) PROVE LadderInv'
  BY <1>t, <1>5 DEF LadderInv, TypeOK, Alone, ReadStable, Unlock, Raise, AnyOther
<1>6. CASE Write(c)
  BY <1>t, <1>6 DEF LadderInv, TypeOK, Alone, ReadStable, Write, AnyOther
<1> QED BY <1>1, <1>2, <1>3, <1>4, <1>5, <1>6 DEF ConnNext

LEMMA LadderNext == LadderInv /\ [Next]_vars => LadderInv'
<1>1. ASSUME LadderInv, UNCHANGED vars PROVE LadderInv'
  BY <1>1 DEF LadderInv, TypeOK, Alone, ReadStable, AnyOther, vars
<1> QED BY <1>1, LadderConn DEF Next

\* No two connections hold RESERVED, and no two hold PENDING or more, whatever the
\* number of connections and the order of their Lock and Unlock calls.
THEOREM OneWriter == Spec => []TypeOK
<1>1. LadderInv => TypeOK BY DEF LadderInv
<1> QED BY LadderInit, LadderNext, <1>1, PTL DEF Spec

\* No connection sees the file change under its SHARED lock.
THEOREM StableReads == Spec => []ReadStable
<1>1. LadderInv => ReadStable BY DEF LadderInv
<1> QED BY LadderInit, LadderNext, <1>1, PTL DEF Spec

=============================================================================
