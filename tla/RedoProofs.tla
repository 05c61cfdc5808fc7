------------------------------ MODULE RedoProofs ------------------------------
(***************************************************************************)
(* The logical redo, for any keys, records, workloads and number of stops: *)
(* RedoExact when no transaction touches a key again, RedoPlausible when   *)
(* moreover Mut is not called where the image may be ahead of the journal. *)
(*                                                                         *)
(* The log and the heaps published after each of its records are looked at *)
(* one key at a time.  A record that makes something of a key (Hit) writes *)
(* a version newer than those before it, so that the redo skips it exactly *)
(* when the image, or what was redone so far, already holds it; and where  *)
(* a delete follows in the log, what comes before it does not matter.      *)
(***************************************************************************)
EXTENDS Redo, WellFoundedInduction, TLAPS

-----------------------------------------------------------------------------
(* The versions of a key.                                                  *)

\* LatestID and Current of a key whose versions are s.
LastId(s) == IF s = <<>> THEN 0 ELSE s[Len(s)].id

ViewOf(s) ==
    IF s = <<>> THEN <<>>
    ELSE LET newest == {i \in DOMAIN s : s[i].id = LastId(s)}
         IN  s[CHOOSE i \in newest : \A j \in newest : i <= j].v

Below(s, n) == \A i \in 1 .. Len(s) : s[i].id < n
Ordered(s) == \A i, j \in 1 .. Len(s) : i <= j => s[i].id <= s[j].id

\* What a call leaves of the versions s of its key, and what the redo leaves.
Done(s, r) ==
    IF r.type = "del" THEN <<>>
    ELSE IF r.type = "mut" THEN Append(s, [id |-> r.id, v |-> Append(ViewOf(s), r.id)])
    ELSE Append(s, [id |-> r.id, v |-> PutValue(r)])

Redone(s, r) == IF r.type # "del" /\ LastId(s) >= r.id THEN s ELSE Done(s, r)

Placed == [type : Types, key : Keys \cup {NoKey}, id : Nat, tx : BOOLEAN, at : Nat]

\* A set of naturals has a least element.
LEMMA Least ==
    ASSUME NEW T, T \subseteq Nat, T # {}
    PROVE  \E n \in T : \A m \in T : n <= m
<1>1. \E x \in T : \A y \in T : ~(<<y, x>> \in OpToRel(<, Nat))
  BY WFMin, NatLessThanWellFounded
<1>2. PICK x \in T : \A y \in T : ~(<<y, x>> \in OpToRel(<, Nat))
  BY <1>1
<1>3. \A y \in T : ~(y < x)
  BY <1>2 DEF OpToRel
<1> QED BY <1>3

\* Induction over the naturals, for sets.
LEMMA Induction ==
    ASSUME NEW I, 0 \in I, \A n \in Nat : n \in I => n + 1 \in I
    PROVE  Nat \subseteq I
<1> SUFFICES ASSUME Nat \ I # {} PROVE FALSE
  OBVIOUS
<1>1. PICK n \in Nat \ I : \A m \in Nat \ I : n <= m
  BY Least
<1>2. n # 0 /\ n - 1 \in Nat /\ n - 1 \in I
  BY <1>1
<1>3. (n - 1) + 1 \in I
  BY <1>2
<1> QED BY <1>1, <1>3

LEMMA CellFacts ==
    ASSUME NEW s \in Cells
    PROVE  /\ Len(s) \in Nat /\ DOMAIN s = 1 .. Len(s)
           /\ s # <<>> <=> Len(s) > 0
           /\ \A i \in 1 .. Len(s) : s[i] \in Cell /\ s[i].id \in Nat /\ s[i].v \in Seq(Nat)
           /\ LastId(s) \in Nat
<1>1. Len(s) \in Nat /\ DOMAIN s = 1 .. Len(s) /\ (s # <<>> <=> Len(s) > 0)
  BY DEF Cells
<1>2. \A i \in 1 .. Len(s) : s[i] \in Cell
  BY <1>1 DEF Cells
<1>3. \A c \in Cell : c.id \in Nat /\ c.v \in Seq(Nat)
  BY DEF Cell
<1>4. s # <<>> => Len(s) \in 1 .. Len(s)
  BY <1>1
<1> QED BY <1>1, <1>2, <1>3, <1>4 DEF LastId

\* Get serves the value of one of the versions, or nothing.
LEMMA ViewTyped == ASSUME NEW s \in Cells PROVE ViewOf(s) \in Seq(Nat)
<1>1. CASE s = <<>>
  BY <1>1 DEF ViewOf
<1>2. CASE s # <<>>
  <2> DEFINE newest == {i \in DOMAIN s : s[i].id = LastId(s)}
  <2>1. newest \subseteq 1 .. Len(s) /\ newest \subseteq Nat /\ Len(s) \in newest
    BY <1>2, CellFacts DEF LastId
  <2>2. \E i \in newest : \A j \in newest : i <= j
    <3> HIDE DEF newest
    <3> QED BY <2>1, Least
  <2>3. (CHOOSE i \in newest : \A j \in newest : i <= j) \in newest
    <3> HIDE DEF newest
    <3> QED BY <2>2
  <2>4. ViewOf(s) = s[CHOOSE i \in newest : \A j \in newest : i <= j].v
    BY <1>2 DEF ViewOf
  <2> HIDE DEF newest
  <2> QED BY <2>1, <2>3, <2>4, CellFacts
<1> QED BY <1>1, <1>2

LEMMA AppendIs ==
    ASSUME NEW s \in Cells, NEW c \in Cell
    PROVE  /\ Append(s, c) \in Cells /\ Append(s, c) # <<>>
           /\ Len(Append(s, c)) = Len(s) + 1
           /\ \A i \in 1 .. Len(s) : Append(s, c)[i] = s[i]
           /\ Append(s, c)[Len(s) + 1] = c
<1>1. s \in Seq(Cell) /\ Len(s) \in Nat
  BY CellFacts DEF Cells
<1>2. Append(s, c) \in Seq(Cell) /\ Len(Append(s, c)) = Len(s) + 1
  BY <1>1
<1>3. (\A i \in 1 .. Len(s) : Append(s, c)[i] = s[i]) /\ Append(s, c)[Len(s) + 1] = c
  BY <1>1
<1>4. Append(s, c) # <<>>
  <2>1. Len(Append(s, c)) # 0
    BY <1>1, <1>2
  <2>2. Len(<<>>) = 0
    OBVIOUS
  <2> QED BY <2>1, <2>2
<1> QED BY <1>2, <1>3, <1>4 DEF Cells

LEMMA DoneIs ==
    ASSUME NEW s \in Cells, NEW r \in Placed
    PROVE  IF r.type = "del" THEN Done(s, r) = <<>>
           ELSE \E w \in Seq(Nat) : /\ Done(s, r) = Append(s, [id |-> r.id, v |-> w])
                                    /\ [id |-> r.id, v |-> w] \in Cell
                                    /\ r.type # "mut" => w = PutValue(r)
<1>1. r.id \in Nat /\ r.at \in Nat
  BY DEF Placed
<1>2. PutValue(r) \in Seq(Nat) /\ Append(ViewOf(s), r.id) \in Seq(Nat)
  BY <1>1, ViewTyped DEF PutValue
<1>3. \A w \in Seq(Nat) : [id |-> r.id, v |-> w] \in Cell
  BY <1>1 DEF Cell
<1> QED BY <1>2, <1>3 DEF Done

LEMMA DoneTyped ==
    ASSUME NEW s \in Cells, NEW r \in Placed
    PROVE  Done(s, r) \in Cells /\ Redone(s, r) \in Cells
<1>1. <<>> \in Cells
  BY DEF Cells
<1> QED BY <1>1, DoneIs, AppendIs DEF Redone

LEMMA LastBelow ==
    ASSUME NEW s \in Cells, Ordered(s), NEW n \in Nat, LastId(s) < n
    PROVE  Below(s, n)
<1> SUFFICES ASSUME NEW i \in 1 .. Len(s) PROVE s[i].id < n
  BY DEF Below
<1>1. s # <<>> /\ Len(s) \in 1 .. Len(s) /\ i <= Len(s)
  BY CellFacts
<1>2. s[i].id <= s[Len(s)].id
  BY <1>1 DEF Ordered
<1> QED BY <1>1, <1>2, CellFacts DEF LastId

LEMMA BelowLast ==
    ASSUME NEW s \in Cells, NEW n \in Nat, n > 0, Below(s, n)
    PROVE  LastId(s) < n
<1>1. s # <<>> => Len(s) \in 1 .. Len(s)
  BY CellFacts
<1> QED BY <1>1 DEF Below, LastId

LEMMA BelowMore ==
    ASSUME NEW s \in Cells, NEW n \in Nat, Below(s, n), NEW m \in Nat, n <= m
    PROVE  Below(s, m)
BY CellFacts DEF Below

\* A write of a larger identifier.
LEMMA DoneOrder ==
    ASSUME NEW s \in Cells, NEW r \in Placed, Ordered(s), Below(s, r.id)
    PROVE  Ordered(Done(s, r)) /\ Below(Done(s, r), r.id + 1)
<1>0. r.id \in Nat
  BY DEF Placed
<1>1. CASE r.type = "del"
  <2>1. Done(s, r) = <<>> /\ Len(<<>>) = 0
    BY <1>1, DoneIs
  <2> QED BY <2>1 DEF Ordered, Below
<1>2. CASE r.type # "del"
  <2>1. PICK w \in Seq(Nat) : Done(s, r) = Append(s, [id |-> r.id, v |-> w]) /\ [id |-> r.id, v |-> w] \in Cell
    BY <1>2, DoneIs
  <2> DEFINE c == [id |-> r.id, v |-> w]
             t == Append(s, c)
  <2>2. c \in Cell /\ c.id = r.id
    BY <2>1
  <2>3. Len(t) = Len(s) + 1 /\ (\A i \in 1 .. Len(s) : t[i].id = s[i].id) /\ t[Len(s) + 1].id = r.id
    <3> HIDE DEF c
    <3> QED BY <2>2, AppendIs
  <2>4. Len(s) \in Nat /\ \A i \in 1 .. Len(s) : s[i].id \in Nat /\ s[i].id < r.id
    BY CellFacts DEF Below
  <2> HIDE DEF t
  <2>5. \A i \in 1 .. Len(t) : i \in 1 .. Len(s) \/ i = Len(s) + 1
    BY <2>3, <2>4
  <2>6. Below(t, r.id + 1)
    BY <1>0, <2>3, <2>4, <2>5 DEF Below
  <2>7. Ordered(t)
    <3> SUFFICES ASSUME NEW i \in 1 .. Len(t), NEW j \in 1 .. Len(t), i <= j PROVE t[i].id <= t[j].id
      BY DEF Ordered
    <3>1. CASE j = Len(s) + 1
      BY <1>0, <3>1, <2>3, <2>4, <2>5
    <3>2. CASE j \in 1 .. Len(s)
      <4>1. i \in 1 .. Len(s)
        BY <3>2, <2>4
      <4> QED BY <3>2, <4>1, <2>3 DEF Ordered
    <3> QED BY <3>1, <3>2, <2>5
  <2> QED BY <2>1, <2>6, <2>7 DEF t
<1> QED BY <1>1, <1>2

\* What is read after a write of a larger identifier.
LEMMA DoneView ==
    ASSUME NEW s \in Cells, NEW r \in Placed, Below(s, r.id), r.type # "del"
    PROVE  LastId(Done(s, r)) = r.id /\ (r.type # "mut" => ViewOf(Done(s, r)) = PutValue(r))
<1>1. PICK w \in Seq(Nat) : /\ Done(s, r) = Append(s, [id |-> r.id, v |-> w]) /\ [id |-> r.id, v |-> w] \in Cell
                            /\ r.type # "mut" => w = PutValue(r)
  BY DoneIs
<1> DEFINE c == [id |-> r.id, v |-> w]
           t == Append(s, c)
<1>2. c \in Cell /\ c.id = r.id /\ c.v = w
  BY <1>1
<1>3. t \in Cells /\ t # <<>> /\ Len(t) = Len(s) + 1 /\ (\A i \in 1 .. Len(s) : t[i].id = s[i].id) /\ t[Len(s) + 1] = c
  <2> HIDE DEF c
  <2> QED BY <1>2, AppendIs
<1> HIDE DEF t, c
<1>4. LastId(t) = r.id
  BY <1>2, <1>3 DEF LastId
<1>5. ViewOf(t) = w
  <2> DEFINE newest == {i \in DOMAIN t : t[i].id = LastId(t)}
  <2>1. newest = {Len(s) + 1}
    <3>0. DOMAIN t = 1 .. Len(s) + 1 /\ Len(s) \in Nat
      BY <1>3, CellFacts
    <3>1. \A i \in 1 .. Len(s) : s[i].id \in Nat /\ s[i].id < r.id /\ t[i].id # r.id
      BY <1>3, CellFacts DEF Below, Placed
    <3>2. \A i \in DOMAIN t : i \in 1 .. Len(s) \/ i = Len(s) + 1
      BY <3>0
    <3>3. Len(s) + 1 \in DOMAIN t
      BY <3>0
    <3> QED BY <3>1, <3>2, <3>3, <1>2, <1>3, <1>4
  <2>2. (CHOOSE i \in newest : \A j \in newest : i <= j) = Len(s) + 1
    <3>1. Len(s) + 1 \in Nat
      BY CellFacts
    <3> HIDE DEF newest
    <3> QED BY <2>1, <3>1
  <2>3. ViewOf(t) = t[CHOOSE i \in newest : \A j \in newest : i <= j].v
    BY <1>3 DEF ViewOf
  <2> HIDE DEF newest
  <2> QED BY <2>2, <2>3, <1>2, <1>3
<1> QED BY <1>1, <1>4, <1>5 DEF t, c

-----------------------------------------------------------------------------
(* The records of the log and the heaps published after each of them.  l   *)
(* is a log, h its heaps: h[i] is the heap before record i.                *)

AtIn(l, i) == [type |-> l[i].type, key |-> l[i].key, id |-> l[i].id, tx |-> l[i].tx, at |-> i - 1]

\* Record j is what the publication that follows record p makes of key k: record p
\* itself, or a write of the transaction that record p commits.
Hit(l, p, k, j) ==
    /\ l[j].key = k
    /\ \/ ~l[p].tx /\ j = p
       \/ l[p].type = "commit" /\ l[j].tx /\ l[j].id = l[p].id

\* A delete of the key takes effect after one of the records from .. to.
Dropped(l, k, from, to) ==
    \E p \in from .. to : \E j \in 1 .. p : Hit(l, p, k, j) /\ l[j].type = "del"

\* The identifiers of the log, below c: only the records of a transaction share one,
\* they touch different keys and the mark is the last of them.
Logged(l, c, muts) ==
    /\ l \in Seq(Record)
    /\ \A i \in 1 .. Len(l) :
          /\ 0 < l[i].id /\ l[i].id < c
          /\ l[i].type = "commit" => l[i].tx /\ l[i].key = NoKey
          /\ l[i].type # "commit" => l[i].key \in Keys
          /\ l[i].type = "mut" => ~l[i].tx /\ muts
    /\ \A i, j \in 1 .. Len(l) : i < j =>
          /\ l[i].id <= l[j].id
          /\ l[i].id = l[j].id =>
                l[i].tx /\ l[j].tx /\ l[i].type # "commit" /\ l[i].key # l[j].key

Step(l, h, p, k) ==
    /\ \A j \in 1 .. p : Hit(l, p, k, j) => h[p + 1][k] = Done(h[p][k], AtIn(l, j))
    /\ (\A j \in 1 .. p : ~Hit(l, p, k, j)) => h[p + 1][k] = h[p][k]

\* What a record writes is newer than every version before it, and as long as no
\* delete follows, the key keeps a version as new.
History(l, h) ==
    /\ h \in Seq(Heaps) /\ Len(h) >= Len(l) + 1
    /\ \A p \in 1 .. Len(l), k \in Keys : Step(l, h, p, k)
    /\ \A k \in Keys : \A i, j \in 1 .. Len(l) : i <= j => Below(h[i][k], l[j].id)
    /\ \A k \in Keys : \A p, a \in 1 .. Len(l) : p <= a =>
          \A j \in 1 .. p :
             Hit(l, p, k, j) /\ ~Dropped(l, k, p, a) => l[p].id <= LastId(h[a + 1][k])

LEMMA LogFacts ==
    ASSUME NEW l, NEW c, NEW m, Logged(l, c, m)
    PROVE  /\ Len(l) \in Nat
           /\ \A i \in 1 .. Len(l) : l[i] \in Record /\ l[i].id \in Nat /\ AtIn(l, i) \in Placed
<1>1. l \in Seq(Record) /\ Len(l) \in Nat
  BY DEF Logged
<1>2. \A i \in 1 .. Len(l) : l[i] \in Record
  BY <1>1
<1>3. ASSUME NEW i \in 1 .. Len(l) PROVE l[i].id \in Nat /\ AtIn(l, i) \in Placed
  <2>1. l[i] \in Record /\ i - 1 \in Nat
    BY <1>1, <1>2
  <2> QED BY <2>1 DEF AtIn, Placed, Record
<1> QED BY <1>1, <1>2, <1>3

LEMMA PastFacts ==
    ASSUME NEW l, NEW c, NEW m, Logged(l, c, m), NEW h, History(l, h)
    PROVE  /\ Len(h) \in Nat /\ Len(l) < Len(h)
           /\ \A i \in 1 .. Len(h), k \in Keys : h[i][k] \in Cells
<1>1. h \in Seq(Heaps) /\ Len(h) \in Nat
  BY DEF History
<1>2. \A i \in 1 .. Len(h) : h[i] \in Heaps
  BY <1>1
<1> QED BY <1>1, <1>2, LogFacts DEF History, Heaps

\* One record at most makes what a publication changes of a key.
LEMMA HitOne ==
    ASSUME NEW l, NEW c, NEW m, Logged(l, c, m), NEW p \in 1 .. Len(l), NEW k \in Keys,
           NEW j \in 1 .. p, Hit(l, p, k, j)
    PROVE  /\ j \in 1 .. Len(l) /\ AtIn(l, j) \in Placed /\ l[j].id = l[p].id
           /\ AtIn(l, j).id = l[p].id /\ AtIn(l, j).type = l[j].type /\ l[j].type # "commit"
           /\ \A i \in 1 .. p : Hit(l, p, k, i) => i = j
<1>1. j \in 1 .. Len(l) /\ Len(l) \in Nat
  BY LogFacts
<1>2. l[j].id = l[p].id
  BY DEF Hit
<1>3. l[j].type # "commit"
  BY <1>1, RedoAssumption DEF Hit, Logged
<1>4. ASSUME NEW i \in 1 .. p, Hit(l, p, k, i), i # j PROVE FALSE
  <2>1. i \in 1 .. Len(l) /\ (i < j \/ j < i)
    BY <1>1, <1>4
  <2>2. l[i].id = l[j].id /\ l[i].key = l[j].key
    BY <1>4 DEF Hit
  <2> QED BY <2>1, <2>2, <1>1 DEF Logged
<1>5. AtIn(l, j).id = l[j].id /\ AtIn(l, j).type = l[j].type
  BY DEF AtIn
<1> QED BY <1>1, <1>2, <1>3, <1>4, <1>5, LogFacts

\* What a publication makes depends on the records before it only.
LEMMA HitSame ==
    ASSUME NEW l, NEW o, NEW n \in Nat, \A i \in 1 .. n : l[i] = o[i]
    PROVE  /\ \A p \in 1 .. n, k \in Keys : \A j \in 1 .. p :
                 (Hit(l, p, k, j) <=> Hit(o, p, k, j)) /\ AtIn(l, j) = AtIn(o, j)
           /\ \A k \in Keys, from \in Nat \ {0}, to \in 0 .. n :
                 Dropped(l, k, from, to) <=> Dropped(o, k, from, to)
<1>1. ASSUME NEW p \in 1 .. n, NEW k \in Keys, NEW j \in 1 .. p
      PROVE  (Hit(l, p, k, j) <=> Hit(o, p, k, j)) /\ AtIn(l, j) = AtIn(o, j)
  <2>1. l[p] = o[p] /\ l[j] = o[j]
    OBVIOUS
  <2> QED BY <2>1 DEF Hit, AtIn
<1>2. ASSUME NEW k \in Keys, NEW from \in Nat \ {0}, NEW to \in 0 .. n
      PROVE  Dropped(l, k, from, to) <=> Dropped(o, k, from, to)
  <2>1. \A p \in from .. to : p \in 1 .. n /\ \A j \in 1 .. p : l[j] = o[j]
    OBVIOUS
  <2> QED BY <2>1, <1>1 DEF Dropped
<1> QED BY <1>1, <1>2

\* A stop keeps what it keeps.
LEMMA Prefix ==
    ASSUME NEW l, NEW c, NEW m, Logged(l, c, m), NEW h, History(l, h), NEW n \in 0 .. Len(l)
    PROVE  /\ Logged(SubSeq(l, 1, n), c, m) /\ History(SubSeq(l, 1, n), h)
           /\ Len(SubSeq(l, 1, n)) = n
           /\ \A k \in Keys, from \in Nat \ {0}, to \in 0 .. n :
                 Dropped(SubSeq(l, 1, n), k, from, to) <=> Dropped(l, k, from, to)
<1> DEFINE o == SubSeq(l, 1, n)
<1>1. l \in Seq(Record) /\ Len(l) \in Nat /\ n \in Nat /\ n <= Len(l)
  BY LogFacts DEF Logged
<1>2. o \in Seq(Record) /\ Len(o) = n /\ \A i \in 1 .. n : o[i] = l[i] /\ i \in 1 .. Len(l)
  BY <1>1
<1> HIDE DEF o
<1>3. \A p \in 1 .. n, k \in Keys : \A j \in 1 .. p :
         (Hit(o, p, k, j) <=> Hit(l, p, k, j)) /\ AtIn(o, j) = AtIn(l, j)
  BY <1>1, <1>2, HitSame
<1>4. \A k \in Keys, from \in Nat \ {0}, to \in 0 .. n : Dropped(o, k, from, to) <=> Dropped(l, k, from, to)
  BY <1>1, <1>2, HitSame
<1>5. Logged(o, c, m)
  BY <1>2 DEF Logged
<1>6. History(o, h)
  <2>1. h \in Seq(Heaps) /\ Len(h) >= Len(o) + 1
    BY <1>1, <1>2 DEF History
  <2>2. ASSUME NEW p \in 1 .. n, NEW k \in Keys PROVE Step(o, h, p, k)
    <3>1. Step(l, h, p, k)
      BY <1>2 DEF History
    <3> QED BY <3>1, <1>3 DEF Step
  <2>3. \A k \in Keys : \A i, j \in 1 .. n : i <= j => Below(h[i][k], o[j].id)
    BY <1>2 DEF History
  <2>4. ASSUME NEW k \in Keys, NEW p \in 1 .. n, NEW a \in 1 .. n, p <= a, NEW j \in 1 .. p,
               Hit(o, p, k, j), ~Dropped(o, k, p, a)
        PROVE  o[p].id <= LastId(h[a + 1][k])
    <3>1. Hit(l, p, k, j) /\ ~Dropped(l, k, p, a) /\ o[p] = l[p] /\ p \in 1 .. Len(l) /\ a \in 1 .. Len(l)
      <4>1. p \in Nat \ {0} /\ a \in 0 .. n
        BY <1>1
      <4> QED BY <4>1, <2>4, <1>2, <1>3, <1>4
    <3> QED BY <3>1, <2>4 DEF History
  <2> QED BY <1>2, <2>1, <2>2, <2>3, <2>4 DEF History
<1> QED BY <1>2, <1>4, <1>5, <1>6 DEF o

\* A call adds a record and publishes what the record makes.
LEMMA Extend ==
    ASSUME NEW l, NEW c \in Nat, NEW m, Logged(l, c, m), NEW h, History(l, h), Len(h) = Len(l) + 1,
           NEW r \in Record, NEW new \in Heaps, NEW d \in Nat, c <= d, 0 < r.id, r.id < d,
           r.type = "commit" => r.tx /\ r.key = NoKey,
           r.type # "commit" => r.key \in Keys,
           r.type = "mut" => ~r.tx /\ m,
           \A i \in 1 .. Len(l) :
              /\ l[i].id <= r.id
              /\ l[i].id = r.id => l[i].tx /\ r.tx /\ l[i].type # "commit" /\ l[i].key # r.key,
           \A k \in Keys : \A i \in 1 .. Len(h) : Below(h[i][k], r.id),
           \A k \in Keys : Step(Append(l, r), Append(h, new), Len(l) + 1, k)
    PROVE  /\ Logged(Append(l, r), d, m) /\ History(Append(l, r), Append(h, new))
           /\ Len(Append(l, r)) = Len(l) + 1 /\ Len(Append(h, new)) = Len(l) + 2
           /\ \A k \in Keys, from \in Nat \ {0}, to \in 0 .. Len(l) :
                 Dropped(Append(l, r), k, from, to) <=> Dropped(l, k, from, to)
           /\ \A i \in 1 .. Len(h) : Append(h, new)[i] = h[i]
           /\ Append(h, new)[Len(l) + 2] = new
<1> DEFINE N == Len(l)
           o == Append(l, r)
           g == Append(h, new)
<1>1. l \in Seq(Record) /\ N \in Nat /\ h \in Seq(Heaps)
  BY LogFacts DEF Logged, History
<1>2. o \in Seq(Record) /\ Len(o) = N + 1 /\ (\A i \in 1 .. N : o[i] = l[i]) /\ o[N + 1] = r
  BY <1>1
<1>3. g \in Seq(Heaps) /\ Len(g) = N + 2 /\ (\A i \in 1 .. N + 1 : g[i] = h[i]) /\ g[N + 2] = new
  BY <1>1
<1>4. \A k \in Keys : Step(o, g, N + 1, k)
  OBVIOUS
<1>5. \A i \in 1 .. N + 1 : i \in 1 .. N \/ i = N + 1
  BY <1>1
<1> HIDE DEF o, g, N
<1>6. \A p \in 1 .. N, k \in Keys : \A j \in 1 .. p :
         (Hit(o, p, k, j) <=> Hit(l, p, k, j)) /\ AtIn(o, j) = AtIn(l, j)
  <2> TAKE p \in 1 .. N, k \in Keys
  <2> TAKE j \in 1 .. p
  <2>1. o[p] = l[p] /\ o[j] = l[j]
    BY <1>1, <1>2
  <2> QED BY <2>1 DEF Hit, AtIn
<1>7. \A k \in Keys, from \in Nat \ {0}, to \in 0 .. N : Dropped(o, k, from, to) <=> Dropped(l, k, from, to)
  BY <1>1, <1>2, HitSame
<1>8. Logged(o, d, m)
  <2>1. ASSUME NEW i \in 1 .. N + 1
        PROVE /\ 0 < o[i].id /\ o[i].id < d
              /\ o[i].type = "commit" => o[i].tx /\ o[i].key = NoKey
              /\ o[i].type # "commit" => o[i].key \in Keys
              /\ o[i].type = "mut" => ~o[i].tx /\ m
    <3>1. CASE i = N + 1
      BY <3>1, <1>2
    <3>2. CASE i \in 1 .. N
      <4>1. o[i] = l[i] /\ l[i].id \in Nat /\ i \in 1 .. Len(l)
        BY <3>2, <1>2, LogFacts DEF N
      <4>2. o[i].id < d
        BY <4>1 DEF Logged
      <4> QED BY <4>1, <4>2 DEF Logged
    <3> QED BY <3>1, <3>2, <1>5
  <2>2. ASSUME NEW i \in 1 .. N + 1, NEW j \in 1 .. N + 1, i < j
        PROVE /\ o[i].id <= o[j].id
              /\ o[i].id = o[j].id => o[i].tx /\ o[j].tx /\ o[i].type # "commit" /\ o[i].key # o[j].key
    <3>1. i \in 1 .. N /\ i \in 1 .. Len(l) /\ o[i] = l[i]
      BY <2>2, <1>1, <1>2 DEF N
    <3>2. CASE j = N + 1
      BY <3>1, <3>2, <1>2
    <3>3. CASE j \in 1 .. N
      BY <3>1, <3>3, <2>2, <1>2 DEF Logged, N
    <3> QED BY <3>2, <3>3, <1>5
  <2> QED BY <1>2, <2>1, <2>2 DEF Logged
<1>9. History(o, g)
  <2>1. ASSUME NEW p \in 1 .. N + 1, NEW k \in Keys PROVE Step(o, g, p, k)
    <3>1. CASE p = N + 1
      BY <3>1, <1>4
    <3>2. CASE p \in 1 .. N
      <4>1. Step(l, h, p, k)
        BY <3>2 DEF History, N
      <4>2. g[p] = h[p] /\ g[p + 1] = h[p + 1]
        BY <3>2, <1>1, <1>3
      <4> QED BY <3>2, <4>1, <4>2, <1>6 DEF Step
    <3> QED BY <3>1, <3>2, <1>5
  <2>2. ASSUME NEW k \in Keys, NEW i \in 1 .. N + 1, NEW j \in 1 .. N + 1, i <= j
        PROVE  Below(g[i][k], o[j].id)
    <3>1. g[i] = h[i] /\ i \in 1 .. Len(h)
      BY <1>3 DEF N
    <3>2. CASE j = N + 1
      BY <3>1, <3>2, <1>2
    <3>3. CASE j \in 1 .. N
      <4>1. i \in 1 .. N
        BY <3>3, <2>2, <1>1
      <4> QED BY <3>1, <3>3, <4>1, <2>2, <1>2 DEF History, N
    <3> QED BY <3>2, <3>3, <1>5
  <2>3. ASSUME NEW k \in Keys, NEW p \in 1 .. N + 1, NEW a \in 1 .. N + 1, p <= a, NEW j \in 1 .. p,
               Hit(o, p, k, j), ~Dropped(o, k, p, a)
        PROVE  o[p].id <= LastId(g[a + 1][k])
    <3>0. p \in Nat \ {0} /\ p \in 1 .. Len(o) /\ a \in 1 .. Len(o)
      BY <1>1, <1>2
    <3>1. CASE a \in 1 .. N
      <4>1. p \in 1 .. N /\ a \in 0 .. N
        BY <3>1, <2>3, <1>1
      <4>2. Hit(l, p, k, j) /\ ~Dropped(l, k, p, a) /\ o[p] = l[p] /\ g[a + 1] = h[a + 1]
        BY <4>1, <3>0, <3>1, <2>3, <1>1, <1>2, <1>3, <1>6, <1>7
      <4> QED BY <4>1, <4>2, <3>1, <2>3 DEF History, N
    <3>2. CASE a = N + 1
      <4>0. N + 1 \in 1 .. Len(o) /\ N + 1 \in 1 .. Len(h) /\ g[N + 1] = h[N + 1] /\ g[a + 1] = new /\ h[N + 1][k] \in Cells
        BY <3>2, <1>1, <1>2, <1>3, PastFacts DEF N
      <4>1. CASE \A i \in 1 .. N + 1 : ~Hit(o, N + 1, k, i)
        <5>1. p \in 1 .. N /\ g[a + 1][k] = g[N + 1][k]
          <6>1. p # N + 1
            BY <2>3, <4>1
          <6> QED BY <6>1, <4>1, <3>2, <1>1, <1>4, <1>5, <4>0 DEF Step
        <5>2. N \in 1 .. N /\ p <= N /\ p .. N \subseteq p .. a
          BY <5>1, <3>2, <1>1
        <5>3. ~Dropped(o, k, p, N)
          BY <5>2, <2>3 DEF Dropped
        <5>4. Hit(l, p, k, j) /\ ~Dropped(l, k, p, N) /\ o[p] = l[p]
          <6>1. N \in 0 .. N
            BY <1>1
          <6> QED BY <6>1, <5>1, <5>3, <3>0, <2>3, <1>2, <1>6, <1>7
        <5>5. l[p].id <= LastId(h[N + 1][k])
          BY <5>1, <5>2, <5>4 DEF History, N
        <5> QED BY <5>1, <5>4, <5>5, <4>0
      <4>2. ASSUME NEW i \in 1 .. N + 1, Hit(o, N + 1, k, i) PROVE o[p].id <= LastId(g[a + 1][k])
        <5>1. AtIn(o, i) \in Placed /\ AtIn(o, i).id = r.id /\ AtIn(o, i).type = o[i].type
          BY <4>0, <4>2, <1>2, <1>8, HitOne
        <5>2. o[i].type # "del"
          <6>1. N + 1 \in p .. a
            BY <3>0, <3>2, <1>1
          <6> QED BY <6>1, <4>2, <2>3 DEF Dropped
        <5>3. g[a + 1][k] = Done(h[N + 1][k], AtIn(o, i))
          BY <4>0, <4>2, <3>2, <1>4 DEF Step
        <5>4. Below(h[N + 1][k], r.id)
          BY <4>0
        <5>5. LastId(g[a + 1][k]) = r.id
          BY <5>1, <5>2, <5>3, <5>4, <4>0, DoneView
        <5>6. o[p].id <= r.id
          <6>1. p = N + 1 \/ (p \in 1 .. Len(l) /\ o[p] = l[p])
            BY <1>2, <1>5 DEF N
          <6>2. r.id \in Nat
            BY DEF Record
          <6> QED BY <6>1, <6>2, <1>2
        <5> QED BY <5>5, <5>6
      <4> QED BY <4>1, <4>2
    <3> QED BY <3>1, <3>2, <1>5
  <2>4. Len(g) >= Len(o) + 1
    BY <1>1, <1>2, <1>3
  <2> QED BY <1>2, <1>3, <2>1, <2>2, <2>3, <2>4 DEF History
<1> QED BY <1>2, <1>3, <1>7, <1>8, <1>9 DEF o, g, N

-----------------------------------------------------------------------------
(* The redo of a key.  a is the number of records that led to the image.   *)

\* The versions s of key k before record p is redone, when the image was published
\* after a of the records: those of that moment of the log, or of the image when it is
\* ahead; nothing is said of a key that one of the records up to a deletes, until that
\* record is redone.
Exact(l, h, k, s, a, p) ==
    /\ Dropped(l, k, 1, p - 1) => s = h[p][k]
    /\ ~Dropped(l, k, 1, p - 1) /\ ~Dropped(l, k, p, a) =>
          s = IF a >= p THEN h[a + 1][k] ELSE h[p][k]

\* A turn of the redo makes t of the versions s.
Turn(l, k, p, s, t) ==
    /\ \A j \in 1 .. p : Hit(l, p, k, j) => t = Redone(s, AtIn(l, j))
    /\ (\A j \in 1 .. p : ~Hit(l, p, k, j)) => t = s

LEMMA DroppedMore ==
    ASSUME NEW l, NEW k, NEW p \in Nat \ {0}, NEW a \in Nat
    PROVE  /\ Dropped(l, k, 1, p) <=> (Dropped(l, k, 1, p - 1) \/ Dropped(l, k, p, p))
           /\ p <= a => (Dropped(l, k, p, a) <=> (Dropped(l, k, p, p) \/ Dropped(l, k, p + 1, a)))
<1>1. 1 .. p = (1 .. p - 1) \cup (p .. p)
  OBVIOUS
<1>2. p <= a => p .. a = (p .. p) \cup (p + 1 .. a)
  OBVIOUS
<1> QED BY <1>1, <1>2 DEF Dropped

LEMMA ExactTurn ==
    ASSUME NEW l, NEW c, NEW m, Logged(l, c, m), NEW h, History(l, h), NEW p \in 1 .. Len(l),
           NEW a \in 0 .. Len(l), NEW k \in Keys, NEW s \in Cells, Exact(l, h, k, s, a, p),
           NEW t, Turn(l, k, p, s, t)
    PROVE  Exact(l, h, k, t, a, p + 1)
<1>0. Len(l) \in Nat /\ p \in Nat \ {0} /\ a \in Nat /\ p + 1 \in Nat \ {0} /\ (p + 1) - 1 = p
  BY LogFacts
<1>1. /\ Dropped(l, k, 1, p) <=> (Dropped(l, k, 1, p - 1) \/ Dropped(l, k, p, p))
      /\ p <= a => (Dropped(l, k, p, a) <=> (Dropped(l, k, p, p) \/ Dropped(l, k, p + 1, a)))
  BY <1>0, DroppedMore
<1>2. Step(l, h, p, k)
  BY DEF History
<1>3. ~(p <= a) => ~Dropped(l, k, p, a)
  <2>1. ~(p <= a) => p .. a = {}
    BY <1>0
  <2> QED BY <2>1 DEF Dropped
<1>4. CASE \A j \in 1 .. p : ~Hit(l, p, k, j)
  <2>1. t = s /\ h[p + 1][k] = h[p][k] /\ ~Dropped(l, k, p, p)
    <3>1. \A q \in p .. p : q = p
      BY <1>0
    <3> QED BY <3>1, <1>2, <1>4 DEF Turn, Step, Dropped
  <2>2. Dropped(l, k, 1, p) => t = h[p + 1][k]
    BY <2>1, <1>1 DEF Exact
  <2>3. ASSUME ~Dropped(l, k, 1, p), ~Dropped(l, k, p + 1, a)
        PROVE  t = IF a >= p + 1 THEN h[a + 1][k] ELSE h[p + 1][k]
    <3>1. ~Dropped(l, k, 1, p - 1) /\ ~Dropped(l, k, p, a)
      BY <2>1, <2>3, <1>1, <1>3
    <3>2. s = IF a >= p THEN h[a + 1][k] ELSE h[p][k]
      BY <3>1 DEF Exact
    <3>3. CASE a = p
      BY <3>2, <3>3, <2>1, <1>0
    <3>4. CASE a < p
      BY <3>2, <3>4, <2>1, <1>0
    <3>5. CASE a > p
      BY <3>2, <3>5, <2>1, <1>0
    <3> QED BY <3>3, <3>4, <3>5, <1>0
  <2> QED BY <2>2, <2>3, <1>0 DEF Exact
<1>5. ASSUME NEW j \in 1 .. p, Hit(l, p, k, j) PROVE Exact(l, h, k, t, a, p + 1)
  <2>1. /\ AtIn(l, j) \in Placed /\ AtIn(l, j).id = l[p].id /\ AtIn(l, j).type = l[j].type /\ l[p].id \in Nat
        /\ \A i \in 1 .. p : Hit(l, p, k, i) => i = j
    BY <1>5, HitOne, LogFacts
  <2>2. t = Redone(s, AtIn(l, j)) /\ h[p + 1][k] = Done(h[p][k], AtIn(l, j))
    BY <1>5, <1>2 DEF Turn, Step
  <2>3. Dropped(l, k, p, p) <=> l[j].type = "del"
    <3>1. \A q : q \in p .. p <=> q = p
      BY <1>0
    <3> QED BY <3>1, <2>1, <1>5 DEF Dropped
  <2>4. CASE l[j].type = "del"
    <3>1. t = <<>> /\ h[p + 1][k] = <<>>
      BY <2>1, <2>2, <2>4 DEF Redone, Done
    <3> QED BY <3>1, <2>3, <2>4, <1>0, <1>1 DEF Exact
  <2>5. CASE l[j].type # "del"
    <3>0. h[p][k] \in Cells /\ Below(h[p][k], l[p].id) /\ 0 < l[p].id
      <4>1. p \in 1 .. Len(h)
        BY <1>0, PastFacts
      <4>2. h[p][k] \in Cells
        BY <4>1, PastFacts
      <4>3. Below(h[p][k], l[p].id)
        BY <1>0 DEF History
      <4> QED BY <4>2, <4>3 DEF Logged
    <3>1. s = h[p][k] => t = h[p + 1][k]
      <4>1. LastId(h[p][k]) < l[p].id /\ LastId(h[p][k]) \in Nat
        BY <3>0, <2>1, BelowLast, CellFacts
      <4> QED BY <4>1, <2>1, <2>2 DEF Redone
    <3>2. Dropped(l, k, 1, p) => t = h[p + 1][k]
      BY <3>1, <2>3, <2>5, <1>1 DEF Exact
    <3>3. ASSUME ~Dropped(l, k, 1, p), ~Dropped(l, k, p + 1, a)
          PROVE  t = IF a >= p + 1 THEN h[a + 1][k] ELSE h[p + 1][k]
      <4>1. ~Dropped(l, k, 1, p - 1) /\ ~Dropped(l, k, p, a)
        BY <2>3, <2>5, <3>3, <1>1, <1>3
      <4>2. s = IF a >= p THEN h[a + 1][k] ELSE h[p][k]
        BY <4>1 DEF Exact
      <4>3. CASE a >= p
        <5>1. s = h[a + 1][k] /\ a \in 1 .. Len(l) /\ p <= a
          BY <4>2, <4>3, <1>0
        <5>2. l[p].id <= LastId(s)
          BY <5>1, <4>1, <1>5 DEF History
        <5>3. t = s
          <6>1. LastId(s) \in Nat
            BY CellFacts
          <6> QED BY <6>1, <5>2, <2>1, <2>2, <2>5 DEF Redone
        <5>4. CASE a = p
          BY <5>1, <5>3, <5>4, <1>0
        <5>5. CASE a > p
          BY <5>1, <5>3, <5>5, <1>0
        <5> QED BY <5>4, <5>5, <4>3, <1>0
      <4>4. CASE a < p
        BY <4>2, <4>4, <3>1, <1>0
      <4> QED BY <4>3, <4>4, <1>0
    <3> QED BY <3>2, <3>3, <1>0 DEF Exact
  <2> QED BY <2>4, <2>5
<1> QED BY <1>4, <1>5

\* What a turn makes is a sequence of versions, in their order.
LEMMA TurnTyped ==
    ASSUME NEW l, NEW c \in Nat, NEW m, Logged(l, c, m), NEW p \in 1 .. Len(l), NEW k \in Keys,
           NEW s \in Cells, Ordered(s), Below(s, c), NEW t, Turn(l, k, p, s, t)
    PROVE  t \in Cells /\ Ordered(t) /\ Below(t, c)
<1>1. CASE \A j \in 1 .. p : ~Hit(l, p, k, j)
  BY <1>1 DEF Turn
<1>2. ASSUME NEW j \in 1 .. p, Hit(l, p, k, j) PROVE t \in Cells /\ Ordered(t) /\ Below(t, c)
  <2> DEFINE r == AtIn(l, j)
  <2>1. r \in Placed /\ r.id = l[p].id /\ r.id \in Nat /\ r.id < c /\ t = Redone(s, r)
    <3>1. r \in Placed /\ r.id = l[p].id
      BY <1>2, HitOne
    <3>2. l[p].id \in Nat /\ l[p].id < c
      BY LogFacts DEF Logged
    <3> QED BY <1>2, <3>1, <3>2 DEF Turn
  <2> HIDE DEF r
  <2>2. t \in Cells
    BY <2>1, DoneTyped
  <2>3. CASE t = s
    BY <2>3
  <2>4. CASE r.type = "del"
    <3>1. t = <<>> /\ Len(<<>>) = 0
      BY <2>1, <2>4 DEF Redone, Done
    <3> QED BY <2>2, <3>1 DEF Ordered, Below
  <2>5. CASE ~(LastId(s) >= r.id)
    <3>1. t = Done(s, r) /\ Below(s, r.id)
      BY <2>1, <2>5, LastBelow, CellFacts DEF Redone
    <3>2. Ordered(t) /\ Below(t, r.id + 1)
      BY <2>1, <3>1, DoneOrder
    <3> QED BY <2>1, <2>2, <3>2, BelowMore
  <2> QED BY <2>1, <2>3, <2>4, <2>5 DEF Redone
<1> QED BY <1>1, <1>2

\* Get served of these versions what it served of the key at some moment from record
\* p on.
Seen(h, k, s, p) ==
    \E j \in p .. Len(h) : LastId(s) = LastId(h[j][k]) /\ ViewOf(s) = ViewOf(h[j][k])

LEMMA SeenTurn ==
    ASSUME NEW l, NEW c, Logged(l, c, FALSE), NEW h, History(l, h), NEW p \in 1 .. Len(l),
           NEW k \in Keys, NEW s \in Cells, Ordered(s), Seen(h, k, s, p), NEW t, Turn(l, k, p, s, t)
    PROVE  Seen(h, k, t, p + 1)
<1>0. Len(l) \in Nat /\ Len(h) \in Nat /\ Len(l) < Len(h) /\ p + 1 \in p + 1 .. Len(h) /\ h[p][k] \in Cells
  <2>1. Len(l) \in Nat /\ Len(h) \in Nat /\ Len(l) < Len(h)
    BY LogFacts, PastFacts
  <2>2. p \in 1 .. Len(h) /\ p + 1 \in p + 1 .. Len(h)
    BY <2>1
  <2> QED BY <2>1, <2>2, PastFacts
<1>1. PICK j \in p .. Len(h) : LastId(s) = LastId(h[j][k]) /\ ViewOf(s) = ViewOf(h[j][k])
  BY DEF Seen
<1>2. j = p \/ j \in p + 1 .. Len(h)
  BY <1>0
<1>3. Step(l, h, p, k)
  BY DEF History
<1>4. CASE \A i \in 1 .. p : ~Hit(l, p, k, i)
  <2>1. t = s /\ h[p + 1][k] = h[p][k]
    BY <1>3, <1>4 DEF Turn, Step
  <2> QED BY <2>1, <1>0, <1>1, <1>2 DEF Seen
<1>5. ASSUME NEW i \in 1 .. p, Hit(l, p, k, i) PROVE Seen(h, k, t, p + 1)
  <2> DEFINE r == AtIn(l, i)
  <2>1. r \in Placed /\ r.id = l[p].id /\ r.id \in Nat /\ 0 < r.id /\ r.type # "mut"
    <3>1. r \in Placed /\ r.id = l[p].id /\ r.type = l[i].type /\ i \in 1 .. Len(l)
      BY <1>5, HitOne
    <3>2. l[p].id \in Nat /\ 0 < l[p].id /\ l[i].type # "mut"
      BY <3>1, LogFacts DEF Logged
    <3> QED BY <3>1, <3>2
  <2>2. t = Redone(s, r) /\ h[p + 1][k] = Done(h[p][k], r)
    BY <1>5, <1>3 DEF Turn, Step
  <2> HIDE DEF r
  <2>3. CASE r.type = "del"
    <3>1. t = <<>> /\ h[p + 1][k] = <<>>
      BY <2>2, <2>3 DEF Redone, Done
    <3> QED BY <3>1, <1>0 DEF Seen
  <2>4. CASE r.type # "del"
    <3>1. Below(h[p][k], r.id)
      BY <1>0, <2>1 DEF History
    <3>2. LastId(h[p + 1][k]) = r.id /\ ViewOf(h[p + 1][k]) = PutValue(r)
      BY <3>1, <1>0, <2>1, <2>2, <2>4, DoneView
    <3>3. CASE ~(LastId(s) >= r.id)
      <4>1. t = Done(s, r) /\ Below(s, r.id)
        BY <3>3, <2>1, <2>2, LastBelow, CellFacts DEF Redone
      <4>2. LastId(t) = r.id /\ ViewOf(t) = PutValue(r)
        BY <4>1, <2>1, <2>4, DoneView
      <4> QED BY <3>2, <4>2, <1>0 DEF Seen
    <3>4. CASE LastId(s) >= r.id
      <4>1. t = s
        BY <3>4, <2>2, <2>4 DEF Redone
      <4>2. LastId(h[p][k]) < r.id
        BY <3>1, <1>0, <2>1, BelowLast
      <4>3. j \in p + 1 .. Len(h)
        <5>1. j # p
          BY <3>4, <4>2, <1>0, <1>1, <2>1, CellFacts
        <5> QED BY <5>1, <1>2
      <4> QED BY <4>1, <4>3, <1>1 DEF Seen
    <3> QED BY <3>3, <3>4
  <2> QED BY <2>3, <2>4
<1> QED BY <1>4, <1>5

-----------------------------------------------------------------------------
(* What applyRecord and applyTxGroup do of a heap.                         *)

\* The heap changes at the key of the record only.
LEMMA RedoOneIs ==
    ASSUME NEW pub \in Heaps, NEW g \in Heaps, NEW r \in Placed, r.type # "commit",
           r.key \in Keys, pub[r.key] = g[r.key]
    PROVE  /\ RedoOne(pub, g, r) \in Heaps
           /\ RedoOne(pub, g, r)[r.key] = Redone(g[r.key], r)
           /\ \A k \in Keys \ {r.key} : RedoOne(pub, g, r)[k] = g[k]
<1> DEFINE s == g[r.key]
<1>1. s \in Cells /\ LatestID(pub, r.key) = LastId(s) /\ Current(g, r.key) = ViewOf(s)
  BY DEF Heaps, LatestID, LastId, Current, ViewOf
<1>2. Redone(s, r) \in Cells
  BY <1>1, DoneTyped
<1>3. RedoOne(pub, g, r) = [g EXCEPT ![r.key] = Redone(s, r)]
  <2>1. g = [g EXCEPT ![r.key] = s]
    BY DEF Heaps
  <2>2. CASE r.type = "del"
    BY <2>1, <2>2 DEF RedoOne, Skipped, Written, Redone, Done, RemoveKey
  <2>3. CASE r.type # "del" /\ LastId(s) >= r.id
    BY <2>1, <2>3, <1>1 DEF RedoOne, Skipped, Redone
  <2>4. CASE r.type # "del" /\ ~(LastId(s) >= r.id) /\ r.type = "mut"
    BY <2>4, <1>1 DEF RedoOne, Skipped, Written, Redone, Done, Mutated, InsertVer
  <2>5. CASE r.type # "del" /\ ~(LastId(s) >= r.id) /\ r.type # "mut"
    BY <2>5, <1>1 DEF RedoOne, Skipped, Written, Redone, Done, InsertVer
  <2> QED BY <2>2, <2>3, <2>4, <2>5
<1>4. PICK X \in Cells : X = Redone(s, r) /\ RedoOne(pub, g, r) = [g EXCEPT ![r.key] = X]
  BY <1>2, <1>3
<1>5. /\ RedoOne(pub, g, r) \in Heaps /\ RedoOne(pub, g, r)[r.key] = X
      /\ \A k \in Keys \ {r.key} : RedoOne(pub, g, r)[k] = g[k]
  BY <1>4 DEF Heaps
<1> QED BY <1>4, <1>5

\* The loop of applyTxGroup over the first records.
GroupStep(u, g, l, id, i) ==
    IF i = 0 THEN g
    ELSE IF l[i].tx /\ l[i].id = id THEN RedoOne(g, u[i - 1], AtIn(l, i))
    ELSE u[i - 1]

\* The loop as it looks the keys up, where the root may be split on the way.
GroupTurn(u, root, id, i) ==
    IF i = 0 THEN heap
    ELSE IF i \in Group(id) THEN RedoOne(FoundAt(i, root), u[i - 1], At(i))
    ELSE u[i - 1]

IsGroup(u, root, id, n) == u = [i \in 0 .. n |-> GroupTurn(u, root, id, i)]

LEMMA GroupExists ==
    ASSUME NEW root, NEW id, NEW n \in Nat
    PROVE  \E u : IsGroup(u, root, id, n)
<1> DEFINE I == {q \in Nat : \E u : IsGroup(u, root, id, q)}
<1>1. 0 \in I
  <2> DEFINE u == [i \in 0 .. 0 |-> heap]
  <2>1. \A i \in 0 .. 0 : GroupTurn(u, root, id, i) = heap
    <3> HIDE DEF u
    <3> QED BY DEF GroupTurn
  <2>2. IsGroup(u, root, id, 0)
    BY <2>1 DEF IsGroup
  <2> QED BY <2>2
<1>2. ASSUME NEW q \in Nat, q \in I PROVE q + 1 \in I
  <2>1. PICK v : IsGroup(v, root, id, q)
    BY <1>2
  <2> DEFINE u == [i \in 0 .. q + 1 |-> IF i = q + 1 THEN GroupTurn(v, root, id, i) ELSE v[i]]
  <2>2. u[q + 1] = GroupTurn(v, root, id, q + 1) /\ \A i \in 0 .. q : u[i] = v[i]
    OBVIOUS
  <2>3. u = [i \in 0 .. q + 1 |-> u[i]]
    OBVIOUS
  <2> HIDE DEF u
  <2>4. \A i \in 0 .. q : v[i] = GroupTurn(v, root, id, i)
    BY <2>1 DEF IsGroup
  <2>5. \A i \in 0 .. q + 1 : GroupTurn(u, root, id, i) = GroupTurn(v, root, id, i)
    <3> TAKE i \in 0 .. q + 1
    <3>1. i # 0 => i - 1 \in 0 .. q
      OBVIOUS
    <3>2. i # 0 => u[i - 1] = v[i - 1]
      BY <3>1, <2>2
    <3> QED BY <3>2 DEF GroupTurn
  <2>6. \A i \in 0 .. q + 1 : u[i] = GroupTurn(u, root, id, i)
    <3> TAKE i \in 0 .. q + 1
    <3>1. i = q + 1 \/ i \in 0 .. q
      OBVIOUS
    <3> QED BY <3>1, <2>2, <2>4, <2>5
  <2>7. IsGroup(u, root, id, q + 1)
    BY <2>3, <2>6 DEF IsGroup
  <2> QED BY <2>7
<1> HIDE DEF I
<1>3. n \in I
  BY <1>1, <1>2, Induction
<1> QED BY <1>3 DEF I

LEMMA GroupUnfolds ==
    ASSUME NEW root, NEW id, pos \in Nat \ {0}
    PROVE  \E u : RedoGroup(id, root) = u[pos - 1] /\ \A i \in 0 .. pos - 1 : u[i] = GroupTurn(u, root, id, i)
<1> DEFINE U == CHOOSE u : u = [i \in 0 .. pos - 1 |-> GroupTurn(u, root, id, i)]
<1>1. \E u : u = [i \in 0 .. pos - 1 |-> GroupTurn(u, root, id, i)]
  <2>1. pos - 1 \in Nat
    OBVIOUS
  <2>2. PICK u : IsGroup(u, root, id, pos - 1)
    BY <2>1, GroupExists
  <2> QED BY <2>2 DEF IsGroup
<1>2. RedoGroup(id, root) = U[pos - 1]
  BY DEF RedoGroup, GroupTurn
<1>3. U = [i \in 0 .. pos - 1 |-> GroupTurn(U, root, id, i)]
  BY <1>1
<1> HIDE DEF U
<1> QED BY <1>2, <1>3

\* A split root changes nothing as long as it misleads no test.
LEMMA NotMisled ==
    ASSUME NEW root, NEW id, ~Misled(id, root), pos \in Nat \ {0}, NEW u, NEW i \in 0 .. pos - 1
    PROVE  GroupTurn(u, root, id, i) = GroupStep(u, heap, log, id, i)
<1>1. CASE i = 0
  BY <1>1 DEF GroupTurn, GroupStep
<1>2. CASE i # 0
  <2>1. i \in 1 .. pos - 1 /\ (i \in Group(id) <=> log[i].tx /\ log[i].id = id)
    BY <1>2 DEF Group
  <2>2. At(i) = AtIn(log, i)
    BY DEF At, AtIn
  <2>3. CASE i \in Group(id)
    <3>1. Skipped(FoundAt(i, root), At(i)) = Skipped(heap, At(i))
      BY <2>3 DEF Misled
    <3>2. RedoOne(FoundAt(i, root), u[i - 1], At(i)) = RedoOne(heap, u[i - 1], At(i))
      BY <3>1 DEF RedoOne
    <3> QED BY <1>2, <2>1, <2>2, <2>3, <3>2 DEF GroupTurn, GroupStep
  <2>4. CASE i \notin Group(id)
    BY <1>2, <2>1, <2>4 DEF GroupTurn, GroupStep
  <2> QED BY <2>3, <2>4
<1> QED BY <1>1, <1>2

\* The loop writes each key of the transaction once.
LEMMA GroupFrom ==
    ASSUME NEW l, NEW c, NEW m, Logged(l, c, m), NEW p \in 1 .. Len(l), l[p].type = "commit",
           NEW g \in Heaps, NEW u,
           \A i \in 0 .. p - 1 : u[i] = GroupStep(u, g, l, l[p].id, i)
    PROVE  \A i \in 0 .. p - 1 :
              /\ u[i] \in Heaps
              /\ \A k \in Keys :
                    /\ \A j \in 1 .. i : Hit(l, p, k, j) => u[i][k] = Redone(g[k], AtIn(l, j))
                    /\ (\A j \in 1 .. i : ~Hit(l, p, k, j)) => u[i][k] = g[k]
<1> DEFINE G(i) == /\ u[i] \in Heaps
                   /\ \A k \in Keys :
                         /\ \A j \in 1 .. i : Hit(l, p, k, j) => u[i][k] = Redone(g[k], AtIn(l, j))
                         /\ (\A j \in 1 .. i : ~Hit(l, p, k, j)) => u[i][k] = g[k]
           I == {i \in Nat : i <= p - 1 => G(i)}
<1>0. Len(l) \in Nat /\ p \in Nat \ {0} /\ p <= Len(l)
  BY LogFacts
<1>1. 0 \in I
  <2>1. u[0] = g /\ \A j : ~(j \in 1 .. 0)
    <3>1. 0 \in 0 .. p - 1
      BY <1>0
    <3>2. u[0] = GroupStep(u, g, l, l[p].id, 0)
      BY <3>1
    <3> QED BY <3>2 DEF GroupStep
  <2> QED BY <2>1
<1>2. ASSUME NEW n \in Nat, n \in I, n + 1 <= p - 1 PROVE G(n + 1)
  <2> DEFINE i == n + 1
             w == u[n]
  <2>1. G(n)
    BY <1>0, <1>2
  <2>2. i \in 1 .. Len(l) /\ i \in 1 .. p /\ i < p /\ i \in 0 .. p - 1 /\ i # 0 /\ i - 1 = n /\ 1 .. n \subseteq 1 .. p
    BY <1>0, <1>2
  <2>3. \A j \in 1 .. i : j \in 1 .. n \/ j = i
    OBVIOUS
  <2>4. u[i] = IF l[i].tx /\ l[i].id = l[p].id THEN RedoOne(g, w, AtIn(l, i)) ELSE w
    BY <2>2 DEF GroupStep
  <2>5. l[p].tx
    BY DEF Logged
  <2>6. CASE ~(l[i].tx /\ l[i].id = l[p].id)
    <3>1. u[i] = w
      BY <2>4, <2>6
    <3>2. \A k \in Keys : ~Hit(l, p, k, i)
      BY <2>5, <2>6 DEF Hit
    <3> HIDE DEF i, w
    <3>3. u[i] = u[n]
      BY <3>1 DEF w
    <3>4. G(i)
      <4>1. 1 .. n \subseteq 1 .. i
        BY DEF i
      <4>2. u[i] \in Heaps
        BY <2>1, <3>3
      <4>3. ASSUME NEW k \in Keys, NEW j \in 1 .. i, Hit(l, p, k, j) PROVE u[i][k] = Redone(g[k], AtIn(l, j))
        <5>1. j \in 1 .. n
          BY <2>3, <3>2, <4>3
        <5> QED BY <2>1, <3>3, <4>3, <5>1
      <4>4. ASSUME NEW k \in Keys, \A j \in 1 .. i : ~Hit(l, p, k, j) PROVE u[i][k] = g[k]
        BY <2>1, <3>3, <4>1, <4>4
      <4> QED BY <4>2, <4>3, <4>4
    <3> QED BY <3>4 DEF i
  <2>7. CASE l[i].tx /\ l[i].id = l[p].id
    <3> DEFINE r == AtIn(l, i)
    <3>1. l[i].type # "commit" /\ l[i].key \in Keys
      BY <2>2, <2>7 DEF Logged
    <3>2. r \in Placed /\ r.type # "commit" /\ r.key = l[i].key /\ r.key \in Keys
      BY <3>1, <2>2, LogFacts DEF AtIn
    <3>3. Hit(l, p, r.key, i) /\ \A k \in Keys : Hit(l, p, k, i) => k = r.key
      BY <3>2, <2>7 DEF Hit
    <3> HIDE DEF r, i
    <3>4. \A j \in 1 .. n : ~Hit(l, p, r.key, j)
      <4> SUFFICES ASSUME NEW j \in 1 .. n, Hit(l, p, r.key, j) PROVE FALSE
        OBVIOUS
      <4>1. j \in 1 .. p /\ j # i
        BY <2>2 DEF i
      <4> QED BY <4>1, <3>2, <3>3, <2>2, HitOne
    <3>5. w \in Heaps /\ w[r.key] = g[r.key]
      BY <2>1, <3>2, <3>4
    <3>6. u[i] = RedoOne(g, w, r)
      BY <2>4, <2>7 DEF r
    <3> HIDE DEF w
    <3>7. /\ u[i] \in Heaps /\ u[i][r.key] = Redone(g[r.key], r)
          /\ \A k \in Keys \ {r.key} : u[i][k] = w[k]
      <4>1. /\ RedoOne(g, w, r) \in Heaps
            /\ RedoOne(g, w, r)[r.key] = Redone(w[r.key], r)
            /\ \A k \in Keys \ {r.key} : RedoOne(g, w, r)[k] = w[k]
        BY <3>2, <3>5, RedoOneIs
      <4> QED BY <4>1, <3>5, <3>6
    <3>8. ASSUME NEW k \in Keys
          PROVE  /\ \A j \in 1 .. i : Hit(l, p, k, j) => u[i][k] = Redone(g[k], AtIn(l, j))
                 /\ (\A j \in 1 .. i : ~Hit(l, p, k, j)) => u[i][k] = g[k]
      <4>1. CASE k = r.key
        <5>1. \A j \in 1 .. i : Hit(l, p, k, j) => j = i
          BY <4>1, <2>3, <3>4
        <5>2. i \in 1 .. i
          BY <2>2
        <5> QED BY <4>1, <5>1, <5>2, <3>3, <3>7 DEF r
      <4>2. CASE k # r.key
        <5>1. u[i][k] = w[k] /\ ~Hit(l, p, k, i)
          BY <4>2, <3>3, <3>7
        <5>2. /\ \A j \in 1 .. n : Hit(l, p, k, j) => w[k] = Redone(g[k], AtIn(l, j))
              /\ (\A j \in 1 .. n : ~Hit(l, p, k, j)) => w[k] = g[k]
          BY <2>1 DEF w
        <5>3. 1 .. n \subseteq 1 .. i
          BY DEF i
        <5> QED BY <5>1, <5>2, <5>3, <2>3
      <4> QED BY <4>1, <4>2
    <3>9. G(i)
      BY <3>7, <3>8
    <3> QED BY <3>9 DEF i
  <2> QED BY <2>6, <2>7
<1>3. \A n \in Nat : n \in I => n + 1 \in I
  <2> HIDE DEF G
  <2> QED BY <1>0, <1>2
<1> HIDE DEF I
<1>4. Nat \subseteq I
  BY <1>1, <1>3, Induction
<1>5. \A i \in 0 .. p - 1 : G(i)
  <2> HIDE DEF G
  <2> QED BY <1>0, <1>4 DEF I
<1> QED BY <1>5

\* A turn of the loop of replay().
LEMMA RecordTurn ==
    ASSUME NEW c, NEW m, Logged(log, c, m), heap \in Heaps, pos \in 1 .. Len(log), RedoRecord, ~astray'
    PROVE  heap' \in Heaps /\ \A k \in Keys : Turn(log, k, pos, heap[k], heap'[k])
<1> DEFINE r == At(pos)
<1>0. pos \in Nat \ {0} /\ Len(log) \in Nat /\ pos <= Len(log)
  BY LogFacts
<1>1. r = AtIn(log, pos) /\ r \in Placed /\ r.type = log[pos].type /\ r.key = log[pos].key /\ r.tx = log[pos].tx /\ r.id = log[pos].id
  BY LogFacts DEF At, AtIn
<1>2. /\ r.type = "commit" => \E root : heap' = RedoGroup(r.id, root) /\ ~Misled(r.id, root)
      /\ r.type # "commit" => heap' = IF r.tx THEN heap ELSE RedoOne(heap, heap, r)
  BY DEF RedoRecord
<1> HIDE DEF r
<1>3. CASE r.type = "commit"
  <2>0. PICK root : heap' = RedoGroup(log[pos].id, root) /\ ~Misled(log[pos].id, root)
    BY <1>1, <1>2, <1>3
  <2>1. PICK u : /\ RedoGroup(log[pos].id, root) = u[pos - 1]
                 /\ \A i \in 0 .. pos - 1 : u[i] = GroupTurn(u, root, log[pos].id, i)
    BY <1>0, GroupUnfolds
  <2>2. \A i \in 0 .. pos - 1 :
              /\ u[i] \in Heaps
              /\ \A k \in Keys :
                    /\ \A j \in 1 .. i : Hit(log, pos, k, j) => u[i][k] = Redone(heap[k], AtIn(log, j))
                    /\ (\A j \in 1 .. i : ~Hit(log, pos, k, j)) => u[i][k] = heap[k]
    <3>1. log[pos].type = "commit"
      BY <1>1, <1>3
    <3>2. \A i \in 0 .. pos - 1 : u[i] = GroupStep(u, heap, log, log[pos].id, i)
      BY <2>0, <2>1, <1>0, NotMisled
    <3> QED BY <3>1, <3>2, GroupFrom
  <2>3. pos - 1 \in 0 .. pos - 1 /\ heap' = u[pos - 1]
    BY <1>0, <2>0, <2>1
  <2>4. ASSUME NEW k \in Keys PROVE Turn(log, k, pos, heap[k], heap'[k])
    <3>1. ~Hit(log, pos, k, pos)
      <4>1. log[pos].key = NoKey
        BY <1>1, <1>3 DEF Logged
      <4> QED BY <4>1, RedoAssumption DEF Hit
    <3>2. \A j \in 1 .. pos : j = pos \/ j \in 1 .. pos - 1
      BY <1>0
    <3>3. 1 .. pos - 1 \subseteq 1 .. pos
      BY <1>0
    <3> QED BY <2>2, <2>3, <3>1, <3>2, <3>3 DEF Turn
  <2> QED BY <2>2, <2>3, <2>4
<1>4. CASE r.type # "commit" /\ r.tx
  <2>1. heap' = heap
    BY <1>2, <1>4
  <2>2. \A k \in Keys : \A j \in 1 .. pos : ~Hit(log, pos, k, j)
    BY <1>1, <1>4 DEF Hit
  <2> QED BY <2>1, <2>2 DEF Turn
<1>5. CASE r.type # "commit" /\ ~r.tx
  <2>1. r.key \in Keys
    BY <1>1, <1>5 DEF Logged
  <2>2. heap' = RedoOne(heap, heap, r)
    BY <1>2, <1>5
  <2>3. heap' \in Heaps /\ heap'[r.key] = Redone(heap[r.key], r) /\ \A k \in Keys \ {r.key} : heap'[k] = heap[k]
    BY <1>1, <1>5, <2>1, <2>2, RedoOneIs
  <2>4. \A k \in Keys : \A j \in 1 .. pos : Hit(log, pos, k, j) <=> (k = r.key /\ j = pos)
    BY <1>0, <1>1, <1>5 DEF Hit
  <2>5. pos \in 1 .. pos
    BY <1>0
  <2> QED BY <2>3, <2>4, <2>5, <1>1 DEF Turn
<1> QED BY <1>3, <1>4, <1>5

-----------------------------------------------------------------------------
(* The invariant.                                                          *)

\* The identifier of the next write.
NextId == IF tx = 0 THEN counter ELSE tx

\* Record j is a write of the open transaction to key k.
Mine(k, j) == log[j].tx /\ log[j].id = tx /\ log[j].key = k

Fine(g) == g \in Heaps /\ \A k \in Keys : Ordered(g[k]) /\ Below(g[k], counter)

\* While the shard is open, the working buffer is the heap with the writes of the
\* transaction, whose records end the log.
UpInv ==
    mode = "up" =>
        /\ Len(past) = Len(log) + 1 /\ past[Len(log) + 1] = heap
        /\ imageAt <= Len(log) /\ pos = 1
        /\ \A k \in Keys : \A i \in 1 .. Len(past) : Below(past[i][k], NextId)
        /\ tx = 0 => work = heap
        /\ tx # 0 =>
              /\ tx < counter
              /\ \A i \in 1 .. Len(log) :
                    log[i].id <= tx /\ (log[i].id = tx => log[i].tx /\ log[i].type # "commit")
              /\ \A k \in Keys :
                    /\ \A j \in 1 .. Len(log) : Mine(k, j) => work[k] = Done(heap[k], AtIn(log, j))
                    /\ (\A j \in 1 .. Len(log) : ~Mine(k, j)) => work[k] = heap[k]

DownInv ==
    mode = "redo" =>
        /\ tx = 0 /\ work = heap
        /\ imageAt <= Len(log) => \A k \in Keys : Exact(log, past, k, heap[k], imageAt, pos)
        /\ ~with.muts => \A k \in Keys : Seen(past, k, heap[k], pos)

\* The image is the heap of its moment, but for keys deleted up to there.
ImageInv ==
    /\ imageAt <= Len(log) =>
          \A k \in Keys : image[k] = past[imageAt + 1][k] \/ Dropped(log, k, 1, imageAt)
    /\ ~with.muts => \A k \in Keys : Seen(past, k, image[k], 1)
    /\ ~with.ahead => imageAt <= durable

RedoInv ==
    /\ TypeOK /\ ~with.rewrites /\ ~astray
    /\ Fine(heap) /\ Fine(work) /\ Fine(image)
    /\ Logged(log, counter, with.muts) /\ History(log, past)
    /\ UpInv /\ DownInv /\ ImageInv

LEMMA InvFacts ==
    ASSUME RedoInv
    PROVE  /\ Len(log) \in Nat /\ Len(past) \in Nat /\ Len(past) > Len(log) /\ counter \in Nat /\ 0 < counter
           /\ tx \in Nat /\ imageAt \in Nat /\ durable \in 0 .. Len(log) /\ pos \in 1 .. Len(log) + 1
           /\ log \in Seq(Record) /\ past \in Seq(Heaps)
           /\ heap \in Heaps /\ work \in Heaps /\ image \in Heaps
           /\ \A k \in Keys : heap[k] \in Cells /\ work[k] \in Cells /\ image[k] \in Cells
           /\ mode = "up" => NextId \in Nat /\ 0 < NextId /\ NextId <= counter
<1>1. TypeOK
  BY DEF RedoInv
<1>2. \A k \in Keys : heap[k] \in Cells /\ work[k] \in Cells /\ image[k] \in Cells
  BY <1>1 DEF TypeOK, Heaps
<1>3. mode = "up" => NextId \in Nat /\ 0 < NextId /\ NextId <= counter
  BY <1>1 DEF TypeOK, RedoInv, UpInv, NextId
<1> QED BY <1>1, <1>2, <1>3 DEF TypeOK

LEMMA NothingYet ==
    ASSUME NEW g \in Heaps, NEW c \in Nat, NEW m
    PROVE  /\ Logged(<<>>, c, m) /\ History(<<>>, <<g>>) /\ Len(<<>>) = 0 /\ Len(<<g>>) = 1 /\ <<g>>[1] = g
           /\ <<g>> \in Seq(Heaps) /\ <<>> \in Seq(Record)
<1>1. Len(<<>>) = 0 /\ Len(<<g>>) = 1 /\ <<g>>[1] = g /\ <<g>> \in Seq(Heaps) /\ <<>> \in Seq(Record)
  OBVIOUS
<1>2. \A i : ~(i \in 1 .. 0)
  OBVIOUS
<1>3. Logged(<<>>, c, m)
  BY <1>1, <1>2 DEF Logged
<1>4. History(<<>>, <<g>>)
  BY <1>1, <1>2 DEF History
<1> QED BY <1>1, <1>3, <1>4

LEMMA RedoInit == ASSUME \A w \in Workloads : ~w.rewrites, Init PROVE RedoInv
<1>1. heap \in Heaps /\ Fine(heap)
  <2>1. CASE heap = Empty
    <3>1. heap \in Heaps
      BY <2>1 DEF Empty, Heaps, Cells
    <3>2. \A k \in Keys : heap[k] = <<>> /\ Len(heap[k]) = 0
      BY <2>1 DEF Empty
    <3> QED BY <3>1, <3>2 DEF Fine, Ordered, Below
  <2>2. ASSUME NEW q \in Keys, heap = InsertVer(Empty, q, 1, << 1 >>) PROVE heap \in Heaps /\ Fine(heap)
    <3> DEFINE c == [id |-> 1, v |-> << 1 >>]
    <3>1. c \in Cell /\ c.id = 1
      BY DEF Cell
    <3> HIDE DEF c
    <3>2. \A k \in Keys : heap[k] = IF k = q THEN <<c>> ELSE <<>>
      <4>1. Append(<<>>, c) = <<c>>
        OBVIOUS
      <4> QED BY <2>2, <4>1 DEF InsertVer, Empty, c
    <3>3. <<c>> \in Cells /\ <<>> \in Cells /\ Len(<<c>>) = 1 /\ <<c>>[1] = c /\ Len(<<>>) = 0
      BY <3>1 DEF Cells
    <3>4. heap \in Heaps
      <4>1. heap = [k \in Keys |-> heap[k]]
        BY <2>2 DEF InsertVer, Empty
      <4> QED BY <3>2, <3>3, <4>1 DEF Heaps
    <3>5. \A k \in Keys : Ordered(heap[k]) /\ Below(heap[k], 2)
      <4>1. \A i \in 1 .. 1 : i = 1
        OBVIOUS
      <4>2. Ordered(<<c>>) /\ Below(<<c>>, 2)
        BY <3>1, <3>3, <4>1 DEF Ordered, Below
      <4>3. Ordered(<<>>) /\ Below(<<>>, 2)
        BY <3>3 DEF Ordered, Below
      <4> QED BY <3>2, <4>2, <4>3
    <3> QED BY <3>4, <3>5 DEF Fine, Init
  <2> QED BY <2>1, <2>2 DEF Init
<1>2. /\ Logged(log, counter, with.muts) /\ History(log, past)
      /\ Len(log) = 0 /\ Len(past) = 1 /\ past[1] = heap /\ past \in Seq(Heaps) /\ log \in Seq(Record)
  BY <1>1, NothingYet DEF Init
<1>3. TypeOK /\ ~with.rewrites /\ ~astray
  <2>1. ~astray /\ astray \in BOOLEAN
    BY Zenon DEF Init
  <2> QED BY <2>1, <1>1, <1>2 DEF Init, TypeOK
<1>4. UpInv
  <2>1. \A i \in 1 .. 1 : i = 1
    OBVIOUS
  <2> QED BY <1>1, <1>2, <2>1 DEF Init, UpInv, NextId, Fine
<1>5. DownInv
  BY DEF Init, DownInv
<1>6. ImageInv
  <2>1. \A k \in Keys : Seen(past, k, image[k], 1)
    <3>1. 1 \in 1 .. Len(past) /\ image = past[1]
      BY <1>2 DEF Init
    <3> QED BY <3>1 DEF Seen
  <2> QED BY <1>2, <2>1 DEF Init, ImageInv
<1> QED BY <1>1, <1>2, <1>3, <1>4, <1>5, <1>6 DEF RedoInv, Init, Fine

\* What a call that appends a record keeps.
LEMMA Appended ==
    ASSUME RedoInv, mode = "up", NEW r \in Record, NEW new \in Heaps, NEW id, id = NextId, r.id = id,
           log' = Append(log, r), past' = Append(past, new),
           counter' \in Nat, counter <= counter', r.id < counter',
           r.type = "commit" => r.tx /\ r.key = NoKey,
           r.type # "commit" => r.key \in Keys,
           r.type = "mut" => ~r.tx /\ with.muts,
           tx = 0 => ~r.tx,
           tx # 0 => r.tx,
           \A i \in 1 .. Len(log) : log[i].tx /\ log[i].id = r.id => log[i].key # r.key,
           \A k \in Keys : Step(log', past', Len(log) + 1, k),
           UNCHANGED <<with, image, imageAt>>
    PROVE  /\ Logged(log', counter', with'.muts) /\ History(log', past')
           /\ log' \in Seq(Record) /\ past' \in Seq(Heaps)
           /\ Len(log') = Len(log) + 1 /\ Len(past') = Len(log) + 2
           /\ past'[Len(log') + 1] = new
           /\ \A i \in 1 .. Len(past) : past'[i] = past[i]
           /\ imageAt' <= Len(log')
           /\ \A k \in Keys : image'[k] = past'[imageAt' + 1][k] \/ Dropped(log', k, 1, imageAt')
           /\ ~with'.muts => \A k \in Keys : Seen(past', k, image'[k], 1)
<1>1. /\ Logged(log, counter, with.muts) /\ History(log, past) /\ Len(past) = Len(log) + 1 /\ imageAt <= Len(log)
      /\ \A k \in Keys : \A i \in 1 .. Len(past) : Below(past[i][k], id)
  BY DEF RedoInv, UpInv
<1>2. Len(log) \in Nat /\ counter \in Nat /\ imageAt \in Nat /\ id \in Nat /\ 0 < id
  BY InvFacts
<1>3. \A i \in 1 .. Len(log) :
              /\ log[i].id <= id
              /\ log[i].id = id => log[i].tx /\ r.tx /\ log[i].type # "commit" /\ log[i].key # r.key
  <2>1. CASE tx = 0
    <3>1. \A i \in 1 .. Len(log) : log[i].id < counter /\ log[i].id \in Nat
      BY <1>1, LogFacts DEF Logged
    <3> QED BY <2>1, <3>1, <1>2 DEF NextId
  <2>2. CASE tx # 0
    <3>1. \A i \in 1 .. Len(log) :
              log[i].id <= tx /\ (log[i].id = tx => log[i].tx /\ log[i].type # "commit")
      BY <2>2 DEF RedoInv, UpInv
    <3> QED BY <2>2, <3>1 DEF NextId
  <2> QED BY <2>1, <2>2
<1>4. /\ Logged(log', counter', with.muts) /\ History(log', past')
      /\ Len(log') = Len(log) + 1 /\ Len(past') = Len(log) + 2
      /\ \A k \in Keys, from \in Nat \ {0}, to \in 0 .. Len(log) :
            Dropped(log', k, from, to) <=> Dropped(log, k, from, to)
      /\ \A i \in 1 .. Len(past) : past'[i] = past[i]
      /\ past'[Len(log) + 2] = new
  BY <1>1, <1>2, <1>3, Extend
<1>5. log' \in Seq(Record) /\ past' \in Seq(Heaps)
  BY <1>4 DEF Logged, History
<1>6. ASSUME NEW k \in Keys PROVE image'[k] = past'[imageAt' + 1][k] \/ Dropped(log', k, 1, imageAt')
  <2>1. imageAt + 1 \in 1 .. Len(past) /\ imageAt \in 0 .. Len(log) /\ 1 \in Nat \ {0}
    BY <1>1, <1>2
  <2>2. image[k] = past[imageAt + 1][k] \/ Dropped(log, k, 1, imageAt)
    BY <1>1 DEF RedoInv, ImageInv
  <2> QED BY <2>1, <2>2, <1>4
<1>7. ASSUME ~with'.muts, NEW k \in Keys PROVE Seen(past', k, image'[k], 1)
  <2>1. Seen(past, k, image[k], 1)
    BY <1>7 DEF RedoInv, ImageInv
  <2>2. 1 .. Len(past) \subseteq 1 .. Len(past')
    BY <1>1, <1>2, <1>4
  <2> QED BY <2>1, <2>2, <1>4 DEF Seen
<1> QED BY <1>1, <1>2, <1>4, <1>5, <1>6, <1>7

\* Put, Delete, Mut.
LEMMA AutonomousHolds ==
    ASSUME RedoInv, NEW type \in {"put", "del", "mut"}, type = "mut" => with.muts, NEW k \in Keys, NEW new,
           Autonomous(type, k, new),
           new = [heap EXCEPT ![k] = Done(heap[k], [type |-> type, key |-> k, id |-> counter, tx |-> FALSE, at |-> Len(log)])]
    PROVE  RedoInv'
<1> DEFINE r == [type |-> type, key |-> k, id |-> counter, tx |-> FALSE]
           q == [type |-> type, key |-> k, id |-> counter, tx |-> FALSE, at |-> Len(log)]
           N == Len(log)
<1>1. /\ Logged(log, counter, with.muts) /\ History(log, past) /\ Len(past) = N + 1 /\ past[N + 1] = heap
      /\ Fine(heap) /\ Fine(image) /\ imageAt <= N /\ pos = 1 /\ mode = "up" /\ tx = 0 /\ NextId = counter
      /\ \A j \in Keys : \A i \in 1 .. Len(past) : Below(past[i][j], counter)
  BY DEF RedoInv, UpInv, Autonomous, NextId
<1>2. N \in Nat /\ counter \in Nat /\ 0 < counter /\ past \in Seq(Heaps) /\ log \in Seq(Record)
      /\ \A j \in Keys : heap[j] \in Cells /\ image[j] \in Cells
  BY InvFacts
<1>3. r \in Record /\ r.type = type /\ r.key = k /\ r.id = counter /\ ~r.tx
  BY <1>2 DEF Record, Types
<1>4. q \in Placed /\ q.type = type /\ q.key = k /\ q.id = counter
  BY <1>2 DEF Placed, Types
<1>5. log' = Append(log, r) /\ past' = Append(past, new) /\ heap' = new /\ work' = new /\ counter' = counter + 1
      /\ lastID' = counter
      /\ UNCHANGED <<with, tx, durable, image, imageAt, mode, pos, astray, crashes>>
  BY DEF Autonomous, Journaled
<1>6. new \in Heaps /\ new[k] = Done(heap[k], q) /\ (\A j \in Keys \ {k} : new[j] = heap[j])
  <2>1. Done(heap[k], q) \in Cells
    BY <1>2, <1>4, DoneTyped
  <2>2. heap \in Heaps /\ new = [heap EXCEPT ![k] = Done(heap[k], q)]
    BY <1>1 DEF Fine
  <2> HIDE DEF q
  <2> QED BY <2>1, <2>2 DEF Heaps
<1>7. Len(log') = N + 1 /\ log'[N + 1] = r /\ AtIn(log', N + 1) = q /\ (\A i \in 1 .. N : log'[i] = log[i])
      /\ past'[N + 1] = heap /\ past'[N + 2] = new
  <2>1. Len(log') = N + 1 /\ log'[N + 1] = r /\ \A i \in 1 .. N : log'[i] = log[i]
    <3> HIDE DEF r
    <3> QED BY <1>2, <1>3, <1>5
  <2>2. (N + 1) - 1 = N
    BY <1>2
  <2>3. AtIn(log', N + 1) = q
    BY <2>1, <2>2 DEF AtIn
  <2>4. past'[N + 1] = past[N + 1] /\ past'[N + 2] = new
    BY <1>1, <1>2, <1>5, <1>6
  <2> QED BY <2>1, <2>3, <2>4, <1>1
<1> HIDE DEF r, q
<1>8. ASSUME NEW j \in Keys PROVE Step(log', past', N + 1, j)
  <2>1. \A i \in 1 .. N + 1 : Hit(log', N + 1, j, i) <=> (j = k /\ i = N + 1)
    BY <1>3, <1>7 DEF Hit
  <2>2. N + 1 \in 1 .. N + 1 /\ (N + 1) + 1 = N + 2
    BY <1>2
  <2>3. past'[(N + 1) + 1] = new
    BY <2>2, <1>7
  <2>4. CASE j = k
    <3>1. new[j] = Done(heap[j], AtIn(log', N + 1))
      BY <2>4, <1>6, <1>7
    <3> QED BY <2>1, <2>2, <2>3, <2>4, <3>1, <1>7 DEF Step
  <2>5. CASE j # k
    <3>1. new[j] = heap[j]
      BY <2>5, <1>6
    <3> QED BY <2>1, <2>3, <2>5, <3>1, <1>7 DEF Step
  <2> QED BY <2>4, <2>5
<1>9. /\ Logged(log', counter', with'.muts) /\ History(log', past')
      /\ log' \in Seq(Record) /\ past' \in Seq(Heaps)
      /\ Len(log') = N + 1 /\ Len(past') = N + 2
      /\ past'[Len(log') + 1] = new
      /\ \A i \in 1 .. Len(past) : past'[i] = past[i]
      /\ imageAt' <= Len(log')
      /\ \A j \in Keys : image'[j] = past'[imageAt' + 1][j] \/ Dropped(log', j, 1, imageAt')
      /\ ~with'.muts => \A j \in Keys : Seen(past', j, image'[j], 1)
  <2>1. counter' \in Nat /\ counter <= counter' /\ r.id < counter'
    BY <1>2, <1>3, <1>5
  <2>2. r.type # "commit" /\ (r.type = "mut" => ~r.tx /\ with.muts)
    BY <1>3
  <2>3. \A i \in 1 .. Len(log) : log[i].tx /\ log[i].id = r.id => log[i].key # r.key
    <3>1. \A i \in 1 .. Len(log) : log[i].id < counter /\ log[i].id \in Nat
      BY <1>1, LogFacts DEF Logged
    <3> QED BY <3>1, <1>2, <1>3
  <2>4. counter = NextId
    BY <1>1
  <2>5. r.id = counter /\ r.key \in Keys /\ ~r.tx /\ tx = 0 /\ mode = "up"
    BY <1>1, <1>3
  <2>6. UNCHANGED <<with, image, imageAt>> /\ with' = with
    BY <1>5
  <2>7. \A j \in Keys : Step(log', past', Len(log) + 1, j)
    BY <1>8
  <2>8. r \in Record /\ new \in Heaps /\ log' = Append(log, r) /\ past' = Append(past, new)
    BY <1>3, <1>5, <1>6
  <2>9. /\ Logged(log', counter', with'.muts) /\ History(log', past')
        /\ log' \in Seq(Record) /\ past' \in Seq(Heaps)
        /\ Len(log') = Len(log) + 1 /\ Len(past') = Len(log) + 2
        /\ past'[Len(log') + 1] = new
        /\ \A i \in 1 .. Len(past) : past'[i] = past[i]
        /\ imageAt' <= Len(log')
        /\ \A j \in Keys : image'[j] = past'[imageAt' + 1][j] \/ Dropped(log', j, 1, imageAt')
        /\ ~with'.muts => \A j \in Keys : Seen(past', j, image'[j], 1)
    BY <2>1, <2>2, <2>3, <2>4, <2>5, <2>6, <2>7, <2>8, Appended
  <2> QED BY <2>9
<1>10. ASSUME NEW j \in Keys PROVE Ordered(new[j]) /\ Below(new[j], counter + 1)
  <2>1. Ordered(heap[j]) /\ Below(heap[j], counter) /\ heap[j] \in Cells
    BY <1>1, <1>2 DEF Fine
  <2>2. CASE j = k
    BY <2>1, <2>2, <1>4, <1>6, DoneOrder
  <2>3. CASE j # k
    BY <2>1, <2>3, <1>2, <1>6, BelowMore
  <2> QED BY <2>2, <2>3
<1>11. Fine(heap)' /\ Fine(work)' /\ Fine(image)'
  <2>1. Fine(heap)' /\ Fine(work)'
    BY <1>5, <1>6, <1>10 DEF Fine
  <2>2. image \in Heaps /\ \A j \in Keys : Ordered(image[j]) /\ Below(image[j], counter + 1)
    BY <1>1, <1>2, BelowMore DEF Fine
  <2> QED BY <2>1, <2>2, <1>5 DEF Fine
<1>12. TypeOK' /\ ~with'.rewrites /\ ~astray'
  <2>1. durable \in 0 .. N + 1 /\ pos \in 1 .. N + 2
    BY <1>2, InvFacts
  <2> QED BY <2>1, <1>2, <1>5, <1>9, <1>11 DEF RedoInv, TypeOK, Fine
<1>13. UpInv'
  <2>1. ASSUME NEW j \in Keys, NEW i \in 1 .. Len(past') PROVE Below(past'[i][j], counter + 1)
    <3>1. i \in 1 .. Len(past) \/ i = N + 2
      BY <1>1, <1>2, <1>9
    <3>2. CASE i = N + 2
      BY <3>2, <1>7, <1>10
    <3>3. CASE i \in 1 .. Len(past)
      <4>1. past[i][j] \in Cells
        BY <3>3, <1>1, PastFacts
      <4> QED BY <3>3, <4>1, <1>1, <1>2, <1>9, BelowMore
    <3> QED BY <3>1, <3>2, <3>3
  <2>2. tx' = 0 /\ NextId' = counter + 1
    BY <1>1, <1>5 DEF NextId
  <2>3. Len(past') = Len(log') + 1
    BY <1>2, <1>9
  <2>4. pos' = 1 /\ imageAt' <= Len(log') /\ past'[Len(log') + 1] = heap' /\ work' = heap'
    BY <1>1, <1>5, <1>9
  <2> QED BY <2>1, <2>2, <2>3, <2>4 DEF UpInv
<1>14. DownInv' /\ ImageInv'
  BY <1>1, <1>5, <1>9 DEF RedoInv, DownInv, ImageInv
<1> QED BY <1>9, <1>11, <1>12, <1>13, <1>14 DEF RedoInv

\* txPut, txDelete.
LEMMA TxWriteHolds ==
    ASSUME RedoInv, NEW type \in {"put", "del"}, NEW k \in Keys, NEW new, TxWrite(type, k, new),
           new = [work EXCEPT ![k] = Done(work[k], [type |-> type, key |-> k, id |-> tx, tx |-> TRUE, at |-> Len(log)])]
    PROVE  RedoInv'
<1> DEFINE r == [type |-> type, key |-> k, id |-> tx, tx |-> TRUE]
           q == [type |-> type, key |-> k, id |-> tx, tx |-> TRUE, at |-> Len(log)]
           N == Len(log)
<1>1. /\ Logged(log, counter, with.muts) /\ History(log, past) /\ Len(past) = N + 1 /\ past[N + 1] = heap
      /\ Fine(heap) /\ Fine(work) /\ Fine(image) /\ imageAt <= N /\ pos = 1 /\ mode = "up" /\ tx # 0 /\ NextId = tx
      /\ \A j \in Keys : \A i \in 1 .. Len(past) : Below(past[i][j], tx)
      /\ tx < counter
  BY DEF RedoInv, UpInv, TxWrite, NextId
<1>2. N \in Nat /\ counter \in Nat /\ tx \in Nat /\ 0 < tx /\ past \in Seq(Heaps) /\ log \in Seq(Record)
      /\ \A j \in Keys : heap[j] \in Cells /\ image[j] \in Cells /\ work[j] \in Cells
  BY <1>1, InvFacts
<1>3. r \in Record /\ r.type = type /\ r.key = k /\ r.id = tx /\ r.tx
  BY <1>2 DEF Record, Types
<1>4. q \in Placed /\ q.type = type /\ q.key = k /\ q.id = tx
  BY <1>2 DEF Placed, Types
<1>5. log' = Append(log, r) /\ past' = Append(past, heap) /\ work' = new
      /\ UNCHANGED <<with, heap, tx, counter, durable, image, imageAt, mode, pos, astray, crashes>>
  BY DEF TxWrite, Journaled
<1>6. \A j \in 1 .. N : ~Mine(k, j)
  <2>1. k \notin Touched
    BY DEF TxWrite, RedoInv
  <2>2. DOMAIN log = 1 .. N
    BY <1>2
  <2> QED BY <2>1, <2>2 DEF Touched, Mine
<1>7. work[k] = heap[k]
  BY <1>1, <1>6 DEF RedoInv, UpInv
<1>8. new \in Heaps /\ new[k] = Done(heap[k], q) /\ (\A j \in Keys \ {k} : new[j] = work[j])
  <2>1. Done(heap[k], q) \in Cells
    BY <1>2, <1>4, DoneTyped
  <2>2. work \in Heaps /\ new = [work EXCEPT ![k] = Done(heap[k], q)]
    BY <1>1, <1>7 DEF Fine
  <2> HIDE DEF q
  <2> QED BY <2>1, <2>2 DEF Heaps
<1>9. Len(log') = N + 1 /\ log'[N + 1] = r /\ AtIn(log', N + 1) = q /\ (\A i \in 1 .. N : log'[i] = log[i])
      /\ past'[N + 1] = heap /\ past'[N + 2] = heap
  <2>1. Len(log') = N + 1 /\ log'[N + 1] = r /\ \A i \in 1 .. N : log'[i] = log[i]
    <3> HIDE DEF r
    <3> QED BY <1>2, <1>3, <1>5
  <2>2. (N + 1) - 1 = N
    BY <1>2
  <2>3. AtIn(log', N + 1) = q
    BY <2>1, <2>2 DEF AtIn
  <2>4. past'[N + 1] = past[N + 1] /\ past'[N + 2] = heap
    BY <1>1, <1>2, <1>5 DEF Fine
  <2> QED BY <2>1, <2>3, <2>4, <1>1
<1> HIDE DEF r, q
<1>10. ASSUME NEW j \in Keys PROVE Step(log', past', N + 1, j)
  <2>1. \A i \in 1 .. N + 1 : ~Hit(log', N + 1, j, i)
    BY <1>3, <1>9 DEF Hit
  <2>2. (N + 1) + 1 = N + 2
    BY <1>2
  <2> QED BY <2>1, <2>2, <1>9 DEF Step
<1>11. /\ Logged(log', counter', with'.muts) /\ History(log', past')
       /\ log' \in Seq(Record) /\ past' \in Seq(Heaps)
       /\ Len(log') = N + 1 /\ Len(past') = N + 2
       /\ past'[Len(log') + 1] = heap
       /\ \A i \in 1 .. Len(past) : past'[i] = past[i]
       /\ imageAt' <= Len(log')
       /\ \A j \in Keys : image'[j] = past'[imageAt' + 1][j] \/ Dropped(log', j, 1, imageAt')
       /\ ~with'.muts => \A j \in Keys : Seen(past', j, image'[j], 1)
  <2>1. counter' \in Nat /\ counter <= counter' /\ r.id < counter'
    BY <1>1, <1>2, <1>3, <1>5
  <2>2. r.type # "commit" /\ r.type # "mut"
    BY <1>3
  <2>3. \A i \in 1 .. Len(log) : log[i].tx /\ log[i].id = r.id => log[i].key # r.key
    BY <1>3, <1>6 DEF Mine
  <2>4. tx = NextId /\ heap \in Heaps
    BY <1>1 DEF Fine
  <2> QED BY <2>1, <2>2, <2>3, <2>4, <1>1, <1>3, <1>5, <1>10, Appended
<1>12. ASSUME NEW j \in Keys PROVE Ordered(new[j]) /\ Below(new[j], counter)
  <2>1. CASE j = k
    <3>1. Ordered(heap[k]) /\ Below(heap[k], tx) /\ heap[k] \in Cells
      <4>1. N + 1 \in 1 .. Len(past)
        BY <1>1, <1>2
      <4> QED BY <4>1, <1>1, <1>2 DEF Fine
    <3>2. Ordered(new[k]) /\ Below(new[k], tx + 1)
      BY <3>1, <1>4, <1>8, DoneOrder
    <3>3. new[k] \in Cells /\ tx + 1 \in Nat /\ tx + 1 <= counter
      BY <1>1, <1>2, <1>8 DEF Heaps
    <3> QED BY <2>1, <3>2, <3>3, <1>2, BelowMore
  <2>2. CASE j # k
    BY <2>2, <1>1, <1>8 DEF Fine
  <2> QED BY <2>1, <2>2
<1>13. Fine(heap)' /\ Fine(work)' /\ Fine(image)'
  BY <1>1, <1>5, <1>8, <1>12 DEF Fine
<1>14. TypeOK' /\ ~with'.rewrites /\ ~astray'
  <2>1. durable \in 0 .. N + 1 /\ pos \in 1 .. N + 2
    BY <1>2, InvFacts
  <2> QED BY <2>1, <1>2, <1>5, <1>11, <1>13 DEF RedoInv, TypeOK, Fine
<1>15. UpInv'
  <2>1. ASSUME NEW j \in Keys, NEW i \in 1 .. Len(past') PROVE Below(past'[i][j], tx)
    <3>1. i \in 1 .. Len(past) \/ i = N + 2
      BY <1>1, <1>2, <1>11
    <3>2. N + 1 \in 1 .. Len(past)
      BY <1>1, <1>2
    <3> QED BY <3>1, <3>2, <1>1, <1>9, <1>11
  <2>2. tx' = tx /\ NextId' = tx
    BY <1>1, <1>5 DEF NextId
  <2>3. Len(past') = Len(log') + 1
    BY <1>2, <1>11
  <2>4. \A i \in 1 .. Len(log') : i \in 1 .. N \/ i = N + 1
    BY <1>2, <1>11
  <2>5. \A i \in 1 .. Len(log') :
              log'[i].id <= tx /\ (log'[i].id = tx => log'[i].tx /\ log'[i].type # "commit")
    <3>1. \A i \in 1 .. N : log[i].id <= tx /\ (log[i].id = tx => log[i].tx /\ log[i].type # "commit")
      BY <1>1 DEF RedoInv, UpInv
    <3> QED BY <3>1, <2>4, <1>2, <1>3, <1>9
  <2>6. ASSUME NEW j \in Keys
        PROVE  /\ \A i \in 1 .. Len(log') : Mine(j, i)' => work'[j] = Done(heap'[j], AtIn(log', i))
               /\ (\A i \in 1 .. Len(log') : ~Mine(j, i)') => work'[j] = heap'[j]
    <3>0. /\ \A i \in 1 .. N : Mine(j, i) => work[j] = Done(heap[j], AtIn(log, i))
          /\ (\A i \in 1 .. N : ~Mine(j, i)) => work[j] = heap[j]
      BY <1>1 DEF RedoInv, UpInv
    <3>1. \A i \in 1 .. N : (Mine(j, i)' <=> Mine(j, i)) /\ AtIn(log', i) = AtIn(log, i)
      BY <1>5, <1>9 DEF Mine, AtIn
    <3>2. \A i : i = N + 1 => (Mine(j, i)' <=> j = k)
      BY <1>3, <1>5, <1>9 DEF Mine
    <3>3. N + 1 \in 1 .. Len(log') /\ 1 .. N \subseteq 1 .. Len(log')
      BY <1>2, <1>11
    <3>4. CASE j = k
      <4>1. \A i \in 1 .. N : ~Mine(j, i)'
        BY <3>1, <3>4, <1>6
      <4>2. work'[j] = Done(heap'[j], AtIn(log', N + 1))
        BY <3>4, <1>5, <1>8, <1>9
      <4> QED BY <3>2, <3>3, <3>4, <4>1, <4>2, <2>4
    <3>5. CASE j # k
      <4>1. work'[j] = work[j] /\ heap'[j] = heap[j]
        BY <3>5, <1>5, <1>8
      <4> QED BY <3>0, <3>1, <3>2, <3>3, <3>5, <4>1, <2>4
    <3> QED BY <3>4, <3>5
  <2> QED BY <2>1, <2>2, <2>3, <2>5, <2>6, <1>1, <1>5, <1>11 DEF UpInv
<1>16. DownInv' /\ ImageInv'
  BY <1>1, <1>5, <1>11 DEF RedoInv, DownInv, ImageInv
<1> QED BY <1>11, <1>13, <1>14, <1>15, <1>16 DEF RedoInv

LEMMA WritesHold ==
    ASSUME RedoInv, NEW k \in Keys, Put(k) \/ Delete(k) \/ Mut(k) \/ TxPut(k) \/ TxDelete(k)
    PROVE  RedoInv'
<1>1. CASE Put(k)
  <2>1. InsertVer(heap, k, counter, <<counter>>)
          = [heap EXCEPT ![k] = Done(heap[k], [type |-> "put", key |-> k, id |-> counter, tx |-> FALSE, at |-> Len(log)])]
    BY DEF InsertVer, Done, PutValue
  <2> QED BY <1>1, <2>1, AutonomousHolds DEF Put
<1>2. CASE Delete(k)
  <2>1. RemoveKey(heap, k)
          = [heap EXCEPT ![k] = Done(heap[k], [type |-> "del", key |-> k, id |-> counter, tx |-> FALSE, at |-> Len(log)])]
    BY DEF RemoveKey, Done
  <2> QED BY <1>2, <2>1, AutonomousHolds DEF Delete
<1>3. CASE Mut(k)
  <2>1. Current(heap, k) = ViewOf(heap[k])
    BY DEF Current, ViewOf, LatestID, LastId
  <2>2. Mutated(heap, k, counter)
          = [heap EXCEPT ![k] = Done(heap[k], [type |-> "mut", key |-> k, id |-> counter, tx |-> FALSE, at |-> Len(log)])]
    BY <2>1 DEF Mutated, InsertVer, Done
  <2> QED BY <1>3, <2>2, AutonomousHolds DEF Mut
<1>4. CASE TxPut(k)
  <2>1. InsertVer(work, k, tx, <<tx, Len(log)>>)
          = [work EXCEPT ![k] = Done(work[k], [type |-> "put", key |-> k, id |-> tx, tx |-> TRUE, at |-> Len(log)])]
    BY DEF InsertVer, Done, PutValue
  <2> QED BY <1>4, <2>1, TxWriteHolds DEF TxPut
<1>5. CASE TxDelete(k)
  <2>1. RemoveKey(work, k)
          = [work EXCEPT ![k] = Done(work[k], [type |-> "del", key |-> k, id |-> tx, tx |-> TRUE, at |-> Len(log)])]
    BY DEF RemoveKey, Done
  <2> QED BY <1>5, <2>1, TxWriteHolds DEF TxDelete
<1> QED BY <1>1, <1>2, <1>3, <1>4, <1>5

LEMMA BeginHolds == ASSUME RedoInv, Begin PROVE RedoInv'
<1>1. /\ Logged(log, counter, with.muts) /\ History(log, past) /\ Len(past) = Len(log) + 1 /\ past[Len(log) + 1] = heap
      /\ Fine(heap) /\ Fine(image) /\ imageAt <= Len(log) /\ pos = 1 /\ mode = "up" /\ tx = 0 /\ NextId = counter /\ work = heap
      /\ \A k \in Keys : \A i \in 1 .. Len(past) : Below(past[i][k], counter)
  BY DEF RedoInv, UpInv, Begin, NextId
<1>2. counter \in Nat /\ 0 < counter /\ \A k \in Keys : heap[k] \in Cells /\ image[k] \in Cells
  BY InvFacts
<1>3. tx' = counter /\ counter' = counter + 1 /\ UNCHANGED <<with, heap, work, log, durable, image, imageAt, past, mode, pos, astray>>
  BY DEF Begin, disk
<1>4. Logged(log', counter', with'.muts)
  <2>1. \A i \in 1 .. Len(log) : log[i].id < counter /\ log[i].id \in Nat
    BY <1>1, LogFacts DEF Logged
  <2>2. \A i \in 1 .. Len(log) : log[i].id < counter + 1
    BY <2>1, <1>2
  <2> QED BY <2>2, <1>1, <1>3 DEF Logged
<1>5. \A k \in Keys : Below(heap[k], counter + 1) /\ Below(image[k], counter + 1)
  <2>1. counter + 1 \in Nat /\ counter <= counter + 1
    BY <1>2
  <2> QED BY <2>1, <1>1, <1>2, BelowMore DEF Fine
<1>6. Fine(heap)' /\ Fine(work)' /\ Fine(image)'
  BY <1>1, <1>3, <1>5 DEF Fine
<1>7. TypeOK'
  BY <1>2, <1>3 DEF RedoInv, TypeOK
<1>8. UpInv'
  <2>1. NextId' = counter /\ tx' # 0 /\ tx' < counter'
    BY <1>2, <1>3 DEF NextId
  <2>2. \A i \in 1 .. Len(log) : log[i].id < counter /\ log[i].id \in Nat
    BY <1>1, LogFacts DEF Logged
  <2>3. \A k : \A j \in 1 .. Len(log) : ~Mine(k, j)'
    BY <2>2, <1>2, <1>3 DEF Mine
  <2> QED BY <2>1, <2>2, <2>3, <1>1, <1>2, <1>3 DEF UpInv
<1>9. DownInv' /\ ImageInv'
  BY <1>1, <1>3 DEF RedoInv, DownInv, ImageInv
<1> QED BY <1>1, <1>3, <1>4, <1>6, <1>7, <1>8, <1>9 DEF RedoInv

LEMMA CommitHolds == ASSUME RedoInv, Commit PROVE RedoInv'
<1> DEFINE r == [type |-> "commit", key |-> NoKey, id |-> tx, tx |-> TRUE]
           N == Len(log)
<1>1. /\ Logged(log, counter, with.muts) /\ History(log, past) /\ Len(past) = N + 1 /\ past[N + 1] = heap
      /\ Fine(heap) /\ Fine(work) /\ Fine(image) /\ imageAt <= N /\ pos = 1 /\ mode = "up" /\ tx # 0 /\ NextId = tx
      /\ \A j \in Keys : \A i \in 1 .. Len(past) : Below(past[i][j], tx)
      /\ tx < counter
  BY DEF RedoInv, UpInv, Commit, NextId
<1>2. N \in Nat /\ counter \in Nat /\ tx \in Nat /\ 0 < tx /\ past \in Seq(Heaps) /\ log \in Seq(Record)
      /\ \A j \in Keys : heap[j] \in Cells /\ image[j] \in Cells /\ work[j] \in Cells
  BY <1>1, InvFacts
<1>3. r \in Record /\ r.type = "commit" /\ r.key = NoKey /\ r.id = tx /\ r.tx
  BY <1>2 DEF Record, Types
<1>5. log' = Append(log, r) /\ past' = Append(past, work) /\ heap' = work /\ tx' = 0 /\ durable' = Len(log')
      /\ UNCHANGED <<with, work, counter, image, imageAt, mode, pos, astray, crashes>>
  BY DEF Commit
<1>9. Len(log') = N + 1 /\ log'[N + 1] = r /\ (\A i \in 1 .. N : log'[i] = log[i])
      /\ past'[N + 1] = heap /\ past'[N + 2] = work
  <2>1. Len(log') = N + 1 /\ log'[N + 1] = r /\ \A i \in 1 .. N : log'[i] = log[i]
    <3> HIDE DEF r
    <3> QED BY <1>2, <1>3, <1>5
  <2>4. past'[N + 1] = past[N + 1] /\ past'[N + 2] = work
    BY <1>1, <1>2, <1>5 DEF Fine
  <2> QED BY <2>1, <2>4, <1>1
<1> HIDE DEF r
<1>10. ASSUME NEW j \in Keys PROVE Step(log', past', N + 1, j)
  <2>0. /\ \A i \in 1 .. N : Mine(j, i) => work[j] = Done(heap[j], AtIn(log, i))
        /\ (\A i \in 1 .. N : ~Mine(j, i)) => work[j] = heap[j]
    BY <1>1 DEF RedoInv, UpInv
  <2>1. \A i \in 1 .. N : (Hit(log', N + 1, j, i) <=> Mine(j, i)) /\ AtIn(log', i) = AtIn(log, i)
    BY <1>3, <1>9 DEF Hit, Mine, AtIn
  <2>2. ~Hit(log', N + 1, j, N + 1)
    BY <1>3, <1>9, RedoAssumption DEF Hit
  <2>3. (N + 1) + 1 = N + 2 /\ 1 .. N \subseteq 1 .. N + 1 /\ \A i \in 1 .. N + 1 : i \in 1 .. N \/ i = N + 1
    BY <1>2
  <2> QED BY <2>0, <2>1, <2>2, <2>3, <1>9 DEF Step
<1>11. /\ Logged(log', counter', with'.muts) /\ History(log', past')
       /\ log' \in Seq(Record) /\ past' \in Seq(Heaps)
       /\ Len(log') = N + 1 /\ Len(past') = N + 2
       /\ past'[Len(log') + 1] = work
       /\ \A i \in 1 .. Len(past) : past'[i] = past[i]
       /\ imageAt' <= Len(log')
       /\ \A j \in Keys : image'[j] = past'[imageAt' + 1][j] \/ Dropped(log', j, 1, imageAt')
       /\ ~with'.muts => \A j \in Keys : Seen(past', j, image'[j], 1)
  <2>1. counter' \in Nat /\ counter <= counter' /\ r.id < counter'
    BY <1>1, <1>2, <1>3, <1>5
  <2>2. r.type = "commit" /\ r.tx /\ r.key = NoKey /\ r.type # "mut" /\ r.id = tx
    BY <1>3
  <2>3. \A i \in 1 .. Len(log) : log[i].tx /\ log[i].id = r.id => log[i].key # r.key
    <3>1. \A i \in 1 .. Len(log) : log[i].id = tx => log[i].type # "commit"
      BY <1>1 DEF RedoInv, UpInv
    <3>2. \A i \in 1 .. Len(log) : log[i].id = tx => log[i].key \in Keys
      BY <3>1, <1>1 DEF Logged
    <3> QED BY <3>2, <1>3, RedoAssumption
  <2>4. tx = NextId /\ work \in Heaps
    BY <1>1 DEF Fine
  <2> QED BY <2>1, <2>2, <2>3, <2>4, <1>1, <1>3, <1>5, <1>10, Appended
<1>13. Fine(heap)' /\ Fine(work)' /\ Fine(image)'
  BY <1>1, <1>5 DEF Fine
<1>14. TypeOK' /\ ~with'.rewrites /\ ~astray'
  <2>1. N + 1 \in 0 .. N + 1 /\ pos \in 1 .. N + 2 /\ 0 \in Nat
    BY <1>2, InvFacts
  <2> QED BY <2>1, <1>2, <1>5, <1>11, <1>13 DEF RedoInv, TypeOK, Fine
<1>15. UpInv'
  <2>1. ASSUME NEW j \in Keys, NEW i \in 1 .. Len(past') PROVE Below(past'[i][j], counter)
    <3>1. i \in 1 .. Len(past) \/ i = N + 2
      BY <1>1, <1>2, <1>11
    <3>2. CASE i = N + 2
      BY <3>2, <1>1, <1>9 DEF Fine
    <3>3. CASE i \in 1 .. Len(past)
      <4>1. past[i][j] \in Cells /\ Below(past[i][j], tx) /\ tx <= counter
        BY <3>3, <1>1, <1>2, PastFacts
      <4> QED BY <3>3, <4>1, <1>2, <1>11, BelowMore
    <3> QED BY <3>1, <3>2, <3>3
  <2>2. tx' = 0 /\ NextId' = counter
    BY <1>5 DEF NextId
  <2>3. Len(past') = Len(log') + 1
    BY <1>2, <1>11
  <2>4. pos' = 1 /\ imageAt' <= Len(log') /\ past'[Len(log') + 1] = heap' /\ work' = heap'
    BY <1>1, <1>5, <1>11
  <2> QED BY <2>1, <2>2, <2>3, <2>4 DEF UpInv
<1>16. DownInv' /\ ImageInv'
  <2>1. imageAt' <= durable'
    BY <1>5, <1>11
  <2> QED BY <2>1, <1>1, <1>5, <1>11 DEF RedoInv, DownInv, ImageInv
<1> QED BY <1>11, <1>13, <1>14, <1>15, <1>16 DEF RedoInv

LEMMA RollbackHolds == ASSUME RedoInv, Rollback PROVE RedoInv'
<1>1. tx' = 0 /\ work' = heap /\ mode = "up" /\ tx # 0
      /\ UNCHANGED <<with, heap, counter, log, durable, image, imageAt, past, mode, pos, astray>>
  BY DEF Rollback, disk
<1>2. Fine(heap)' /\ Fine(work)' /\ Fine(image)' /\ TypeOK'
  BY <1>1 DEF RedoInv, Fine, TypeOK
<1>3. UpInv'
  <2>1. /\ Len(past) = Len(log) + 1 /\ past[Len(log) + 1] = heap /\ imageAt <= Len(log) /\ pos = 1 /\ tx < counter
        /\ \A k \in Keys : \A i \in 1 .. Len(past) : Below(past[i][k], tx)
    BY <1>1 DEF RedoInv, UpInv, NextId
  <2>2. \A k \in Keys : \A i \in 1 .. Len(past) : Below(past[i][k], counter)
    <3> TAKE k \in Keys
    <3> TAKE i \in 1 .. Len(past)
    <3>1. past[i][k] \in Cells
      BY PastFacts DEF RedoInv
    <3>2. tx \in Nat /\ counter \in Nat /\ tx <= counter
      BY <2>1, InvFacts
    <3> QED BY <3>1, <3>2, <2>1, BelowMore
  <2> QED BY <2>1, <2>2, <1>1 DEF UpInv, NextId
<1>4. DownInv' /\ ImageInv'
  BY <1>1 DEF RedoInv, DownInv, ImageInv
<1> QED BY <1>1, <1>2, <1>3, <1>4 DEF RedoInv

LEMMA FlushLogHolds == ASSUME RedoInv, FlushLog PROVE RedoInv'
<1>1. durable' = Len(log) /\ mode = "up" /\ durable < Len(log)
      /\ UNCHANGED <<with, heap, work, tx, counter, log, image, imageAt, past, mode, pos, astray>>
  BY DEF FlushLog, shard
<1>2. Len(log) \in 0 .. Len(log) /\ imageAt <= Len(log)
  BY <1>1, InvFacts DEF RedoInv, UpInv
<1>3. Fine(heap)' /\ Fine(work)' /\ Fine(image)' /\ TypeOK'
  BY <1>1, <1>2 DEF RedoInv, Fine, TypeOK
<1>4. UpInv' /\ DownInv'
  BY <1>1 DEF RedoInv, UpInv, DownInv, NextId, Mine
<1>5. ImageInv'
  BY <1>1, <1>2 DEF RedoInv, ImageInv
<1> QED BY <1>1, <1>3, <1>4, <1>5 DEF RedoInv

LEMMA FlushImageHolds == ASSUME RedoInv, FlushImage PROVE RedoInv'
<1>1. image' = heap /\ imageAt' = Len(log) /\ mode = "up" /\ (with.ahead \/ durable = Len(log))
      /\ UNCHANGED <<with, heap, work, tx, counter, log, durable, past, mode, pos, astray>>
  BY DEF FlushImage, shard
<1>2. Len(log) \in Nat /\ Len(past) = Len(log) + 1 /\ past[Len(log) + 1] = heap
  BY <1>1, InvFacts DEF RedoInv, UpInv
<1>3. Fine(heap)' /\ Fine(work)' /\ Fine(image)' /\ TypeOK'
  BY <1>1, <1>2 DEF RedoInv, Fine, TypeOK
<1>4. UpInv' /\ DownInv'
  BY <1>1, <1>2 DEF RedoInv, UpInv, DownInv, NextId, Mine
<1>5. ImageInv'
  <2>1. \A k \in Keys : Seen(past, k, heap[k], 1)
    <3>1. Len(log) + 1 \in 1 .. Len(past)
      BY <1>2
    <3> QED BY <3>1, <1>2 DEF Seen
  <2> QED BY <2>1, <1>1, <1>2 DEF RedoInv, ImageInv
<1> QED BY <1>1, <1>3, <1>4, <1>5 DEF RedoInv

\* What follows a checkpoint.
LEMMA Checkpointed ==
    ASSUME RedoInv, log' = <<>>, durable' = 0, image' = heap, imageAt' = 0, past' = <<heap>>,
           mode' = "up", tx' = 0, work' = heap, pos' = 1,
           UNCHANGED <<with, heap, counter, astray>>
    PROVE  RedoInv'
<1>1. heap \in Heaps /\ counter \in Nat /\ 0 < counter
  BY InvFacts
<1>2. /\ Logged(log', counter, with.muts) /\ History(log', past') /\ Len(log') = 0 /\ Len(past') = 1 /\ past'[1] = heap
      /\ past' \in Seq(Heaps) /\ log' \in Seq(Record)
  BY <1>1, NothingYet
<1>3. Fine(heap)' /\ Fine(work)' /\ Fine(image)'
  BY DEF RedoInv, Fine
<1>4. TypeOK'
  BY <1>1, <1>2 DEF RedoInv, TypeOK
<1>5. UpInv'
  <2>1. \A i \in 1 .. 1 : i = 1
    OBVIOUS
  <2>2. NextId' = counter /\ \A k \in Keys : Below(heap[k], counter)
    BY DEF NextId, RedoInv, Fine
  <2> QED BY <2>1, <2>2, <1>2 DEF UpInv
<1>6. DownInv'
  BY DEF DownInv
<1>7. ImageInv'
  <2>1. \A k \in Keys : Seen(past', k, image'[k], 1)
    <3>1. 1 \in 1 .. Len(past') /\ past'[1] = heap
      BY <1>2
    <3> QED BY <3>1 DEF Seen
  <2> QED BY <2>1, <1>2 DEF ImageInv
<1> QED BY <1>2, <1>3, <1>4, <1>5, <1>6, <1>7 DEF RedoInv

LEMMA CheckpointHolds == ASSUME RedoInv, Checkpoint PROVE RedoInv'
<1>1. work = heap /\ pos = 1
  BY DEF RedoInv, UpInv, Checkpoint
<1>2. /\ log' = <<>> /\ durable' = 0 /\ image' = heap /\ imageAt' = 0 /\ past' = <<heap>>
      /\ mode' = "up" /\ tx' = 0 /\ work' = heap /\ pos' = 1 /\ UNCHANGED <<with, heap, counter, astray>>
  BY <1>1 DEF Checkpoint, shard
<1> QED BY <1>2, Checkpointed

LEMMA ReopenedHolds == ASSUME RedoInv, Reopened PROVE RedoInv'
<1>1. work = heap /\ tx = 0
  BY DEF RedoInv, DownInv, Reopened
<1>2. /\ log' = <<>> /\ durable' = 0 /\ image' = heap /\ imageAt' = 0 /\ past' = <<heap>>
      /\ mode' = "up" /\ tx' = 0 /\ work' = heap /\ pos' = 1 /\ UNCHANGED <<with, heap, counter, astray>>
  BY <1>1 DEF Reopened
<1> QED BY <1>2, Checkpointed

LEMMA CrashHolds == ASSUME RedoInv, NEW n \in 0 .. Len(log), Crash(n) PROVE RedoInv'
<1>0. n \in durable .. Len(log) /\ log' = SubSeq(log, 1, n) /\ heap' = image /\ work' = image /\ tx' = 0
      /\ mode' = "redo" /\ pos' = 1 /\ UNCHANGED <<with, counter, durable, image, imageAt, past, astray>>
  BY DEF Crash
<1>1. Len(log) \in Nat /\ Len(past) > Len(log) /\ imageAt \in Nat /\ n \in Nat
  BY InvFacts
<1>2. /\ Logged(log', counter, with.muts) /\ History(log', past) /\ Len(log') = n
      /\ \A k \in Keys, from \in Nat \ {0}, to \in 0 .. n : Dropped(log', k, from, to) <=> Dropped(log, k, from, to)
  BY <1>0, Prefix DEF RedoInv
<1>3. Fine(heap)' /\ Fine(work)' /\ Fine(image)'
  BY <1>0 DEF RedoInv, Fine
<1>4. TypeOK'
  <2>1. log' \in Seq(Record)
    BY <1>2 DEF Logged
  <2>2. durable \in 0 .. n /\ Len(past) > n /\ 1 \in 1 .. n + 1 /\ 0 \in Nat
    BY <1>0, <1>1, InvFacts
  <2> QED BY <2>1, <2>2, <1>0, <1>2 DEF RedoInv, TypeOK
<1>5. UpInv'
  BY <1>0 DEF UpInv
<1>6. ASSUME imageAt <= n, NEW k \in Keys
      PROVE  /\ image[k] = past[imageAt + 1][k] \/ Dropped(log', k, 1, imageAt)
             /\ Exact(log', past, k, image[k], imageAt, 1)
  <2>1. image[k] = past[imageAt + 1][k] \/ Dropped(log, k, 1, imageAt)
    BY <1>1, <1>6 DEF RedoInv, ImageInv
  <2>2. Dropped(log', k, 1, imageAt) <=> Dropped(log, k, 1, imageAt)
    BY <1>1, <1>2, <1>6
  <2>3. ~Dropped(log', k, 1, 1 - 1)
    <3>1. 1 .. 1 - 1 = {}
      OBVIOUS
    <3> QED BY <3>1 DEF Dropped
  <2>4. past[imageAt + 1][k] = IF imageAt >= 1 THEN past[imageAt + 1][k] ELSE past[1][k]
    BY <1>1
  <2> QED BY <2>1, <2>2, <2>3, <2>4 DEF Exact
<1>7. DownInv' /\ ImageInv'
  BY <1>0, <1>1, <1>2, <1>6 DEF RedoInv, DownInv, ImageInv
<1> QED BY <1>0, <1>2, <1>3, <1>4, <1>5, <1>7 DEF RedoInv

LEMMA RecordHolds == ASSUME RedoInv, RedoRecord, ~astray' PROVE RedoInv'
<1>0. /\ mode = "redo" /\ pos <= Len(log) /\ work' = heap' /\ pos' = pos + 1
      /\ UNCHANGED <<with, tx, counter, log, durable, image, imageAt, past, mode>>
  BY DEF RedoRecord, disk
<1>1. /\ Logged(log, counter, with.muts) /\ History(log, past) /\ Fine(heap) /\ Fine(image) /\ tx = 0
      /\ imageAt <= Len(log) => \A k \in Keys : Exact(log, past, k, heap[k], imageAt, pos)
      /\ ~with.muts => \A k \in Keys : Seen(past, k, heap[k], pos)
  BY <1>0 DEF RedoInv, DownInv
<1>2. pos \in 1 .. Len(log) /\ Len(log) \in Nat /\ counter \in Nat /\ imageAt \in Nat /\ heap \in Heaps
      /\ \A k \in Keys : heap[k] \in Cells
  BY <1>0, InvFacts
<1>3. heap' \in Heaps /\ \A k \in Keys : Turn(log, k, pos, heap[k], heap'[k])
  BY <1>1, <1>2, RecordTurn
<1>4. \A k \in Keys : Ordered(heap'[k]) /\ Below(heap'[k], counter)
  BY <1>1, <1>2, <1>3, TurnTyped DEF Fine
<1>5. Fine(heap)' /\ Fine(work)' /\ Fine(image)'
  BY <1>0, <1>1, <1>3, <1>4 DEF Fine
<1>6. TypeOK'
  <2>1. pos + 1 \in 1 .. Len(log) + 1
    BY <1>2
  <2>2. astray' \in BOOLEAN
    BY DEF RedoRecord, RedoInv, TypeOK
  <2> QED BY <2>1, <2>2, <1>0, <1>3 DEF RedoInv, TypeOK
<1>7. ASSUME imageAt <= Len(log), NEW k \in Keys PROVE Exact(log, past, k, heap'[k], imageAt, pos + 1)
  <2>1. imageAt \in 0 .. Len(log)
    BY <1>2, <1>7
  <2>2. Exact(log, past, k, heap[k], imageAt, pos)
    BY <1>1, <1>7
  <2>3. Turn(log, k, pos, heap[k], heap'[k]) /\ heap[k] \in Cells
    BY <1>2, <1>3
  <2> QED BY <2>1, <2>2, <2>3, <1>1, <1>2, ExactTurn
<1>8. ASSUME ~with.muts, NEW k \in Keys PROVE Seen(past, k, heap'[k], pos + 1)
  <2>1. Logged(log, counter, FALSE)
    BY <1>1, <1>8 DEF Logged
  <2>2. Seen(past, k, heap[k], pos) /\ Ordered(heap[k]) /\ heap[k] \in Cells
    BY <1>1, <1>2, <1>8 DEF Fine
  <2>3. Turn(log, k, pos, heap[k], heap'[k])
    BY <1>3
  <2> QED BY <2>1, <2>2, <2>3, <1>1, <1>2, SeenTurn
<1>9. UpInv' /\ DownInv' /\ ImageInv'
  BY <1>0, <1>1, <1>7, <1>8 DEF RedoInv, UpInv, DownInv, ImageInv
<1> QED BY <1>0, <1>1, <1>5, <1>6, <1>9 DEF RedoInv

LEMMA RepackHolds == ASSUME RedoInv, RedoRepack PROVE RedoInv'
<1>0. /\ mode = "redo" /\ pos <= Len(log) /\ image' = heap /\ (with.ahead \/ durable = Len(log))
      /\ imageAt' = IF imageAt >= pos THEN imageAt ELSE pos - 1
      /\ UNCHANGED <<with, heap, work, tx, counter, log, durable, past, mode, pos, astray>>
  BY DEF RedoRepack, shard
<1>1. /\ imageAt <= Len(log) => \A k \in Keys : Exact(log, past, k, heap[k], imageAt, pos)
      /\ ~with.muts => \A k \in Keys : Seen(past, k, heap[k], pos)
  BY <1>0 DEF RedoInv, DownInv
<1>2. pos \in 1 .. Len(log) /\ pos \in Nat \ {0} /\ Len(log) \in Nat /\ Len(past) \in Nat /\ imageAt \in Nat /\ durable \in Nat
  BY <1>0, InvFacts
<1>3. /\ imageAt' \in Nat /\ pos - 1 <= imageAt' /\ imageAt <= imageAt'
      /\ imageAt' <= Len(log) => imageAt <= Len(log)
      /\ imageAt' = imageAt \/ (imageAt' = pos - 1 /\ imageAt < pos)
  BY <1>0, <1>2
<1>4. Fine(heap)' /\ Fine(work)' /\ Fine(image)' /\ TypeOK'
  BY <1>0, <1>3 DEF RedoInv, Fine, TypeOK
<1>5. ASSUME imageAt' <= Len(log), NEW k \in Keys
      PROVE  /\ Exact(log, past, k, heap[k], imageAt', pos)
             /\ heap[k] = past[imageAt' + 1][k] \/ Dropped(log, k, 1, imageAt')
  <2>1. Exact(log, past, k, heap[k], imageAt, pos)
    BY <1>1, <1>3, <1>5
  <2>2. imageAt < pos => ~Dropped(log, k, pos, imageAt)
    <3>1. imageAt < pos => pos .. imageAt = {}
      BY <1>2
    <3> QED BY <3>1 DEF Dropped
  <2>3. CASE imageAt' = imageAt
    <3>0. pos - 1 <= imageAt
      BY <1>3, <2>3
    <3>1. Dropped(log, k, 1, pos - 1) => Dropped(log, k, 1, imageAt)
      <4>1. 1 .. pos - 1 \subseteq 1 .. imageAt
        BY <1>2, <3>0
      <4> QED BY <4>1 DEF Dropped
    <3>2. Dropped(log, k, pos, imageAt) => Dropped(log, k, 1, imageAt)
      <4>1. pos .. imageAt \subseteq 1 .. imageAt
        BY <1>2
      <4> QED BY <4>1 DEF Dropped
    <3>3. ~Dropped(log, k, 1, imageAt) => heap[k] = past[imageAt + 1][k]
      <4>1. ~(imageAt >= pos) => imageAt + 1 = pos
        BY <1>2, <3>0
      <4> QED BY <4>1, <3>1, <3>2, <2>1 DEF Exact
    <3> QED BY <2>1, <2>3, <3>3
  <2>4. CASE imageAt' = pos - 1 /\ imageAt < pos
    <3>1. imageAt' + 1 = pos /\ ~(imageAt' >= pos) /\ ~(imageAt >= pos)
      BY <1>2, <2>4
    <3>2. ~Dropped(log, k, pos, imageAt')
      <4>1. pos .. imageAt' = {}
        BY <1>2, <2>4
      <4> QED BY <4>1 DEF Dropped
    <3>3. ~Dropped(log, k, 1, pos - 1) => heap[k] = past[pos][k]
      BY <2>1, <2>2, <2>4, <3>1 DEF Exact
    <3> QED BY <2>1, <2>4, <3>1, <3>2, <3>3 DEF Exact
  <2> QED BY <1>3, <2>3, <2>4
<1>6. ASSUME ~with.muts, NEW k \in Keys PROVE Seen(past, k, heap[k], 1)
  <2>1. pos .. Len(past) \subseteq 1 .. Len(past)
    BY <1>2
  <2> QED BY <2>1, <1>1, <1>6 DEF Seen
<1>7. ~with.ahead => imageAt' <= durable
  BY <1>0, <1>2, <1>3 DEF RedoInv, ImageInv
<1>8. UpInv' /\ DownInv' /\ ImageInv'
  BY <1>0, <1>1, <1>5, <1>6, <1>7 DEF RedoInv, UpInv, DownInv, ImageInv
<1> QED BY <1>0, <1>4, <1>8 DEF RedoInv

LEMMA RedoStep == ASSUME RedoInv, [Next]_vars, ~astray' PROVE RedoInv'
<1>1. ASSUME NEW k \in Keys, Put(k) \/ Delete(k) \/ Mut(k) \/ TxPut(k) \/ TxDelete(k) PROVE RedoInv'
  BY <1>1, WritesHold
<1>2. CASE Begin
  BY <1>2, BeginHolds
<1>3. CASE Commit
  BY <1>3, CommitHolds
<1>4. CASE Rollback
  BY <1>4, RollbackHolds
<1>5. CASE FlushLog
  BY <1>5, FlushLogHolds
<1>6. CASE FlushImage
  BY <1>6, FlushImageHolds
<1>7. CASE Checkpoint
  BY <1>7, CheckpointHolds
<1>8. ASSUME NEW n \in 0 .. Len(log), Crash(n) PROVE RedoInv'
  BY <1>8, CrashHolds
<1>9. CASE RedoRecord
  BY <1>9, RecordHolds
<1>10. CASE RedoRepack
  BY <1>10, RepackHolds
<1>11. CASE Reopened
  BY <1>11, ReopenedHolds
<1>12. CASE UNCHANGED vars
  BY <1>12 DEF vars, shard, disk, RedoInv, TypeOK, Fine, UpInv, DownInv, ImageInv, NextId, Mine
<1> QED BY <1>1, <1>2, <1>3, <1>4, <1>5, <1>6, <1>7, <1>8, <1>9, <1>10, <1>11, <1>12 DEF Next

\* Until a split root misleads the redo.
Inv == astray \/ RedoInv

LEMMA InvInit == ASSUME \A w \in Workloads : ~w.rewrites, Init PROVE Inv
BY RedoInit DEF Inv

LEMMA InvStep == Inv /\ [Next]_vars => Inv'
<1> SUFFICES ASSUME Inv, [Next]_vars, ~astray' PROVE RedoInv'
  BY DEF Inv
<1>1. ~astray
  <2>1. CASE UNCHANGED vars
    BY <2>1 DEF vars
  <2>2. CASE Next
    BY <2>2 DEF Next, Put, Delete, Mut, TxPut, TxDelete, Autonomous, TxWrite, Begin, Commit, Rollback,
               FlushLog, FlushImage, Checkpoint, Crash, RedoRecord, RedoRepack, Reopened
  <2> QED BY <2>1, <2>2
<1> QED BY <1>1, RedoStep DEF Inv

-----------------------------------------------------------------------------
(* The theorems.                                                           *)

LEMMA RecoveredExact == ASSUME RedoInv PROVE RedoExact
<1> SUFFICES ASSUME Recovered, imageAt <= Len(log) PROVE heap = past[Len(log) + 1]
  BY DEF RedoExact, RedoExactAlways
<1>1. pos = Len(log) + 1 /\ mode = "redo" /\ Len(log) \in Nat /\ imageAt \in Nat /\ heap \in Heaps
      /\ Len(past) \in Nat /\ Len(log) < Len(past) /\ past \in Seq(Heaps)
  BY InvFacts DEF Recovered
<1>2. past[Len(log) + 1] \in Heaps
  BY <1>1
<1>3. ASSUME NEW k \in Keys PROVE heap[k] = past[Len(log) + 1][k]
  <2>1. Exact(log, past, k, heap[k], imageAt, pos)
    BY <1>1 DEF RedoInv, DownInv
  <2>2. ~(imageAt >= pos) /\ pos .. imageAt = {}
    BY <1>1
  <2>3. ~Dropped(log, k, pos, imageAt)
    BY <2>2 DEF Dropped
  <2> QED BY <2>1, <2>2, <2>3, <1>1 DEF Exact
<1> QED BY <1>1, <1>2, <1>3 DEF Heaps

\* The redo of the whole log, whatever part of it the image already holds, gives back
\* the heap of its last record (replay), unless the root that a transaction split misled
\* its own tests: for any keys, records, workloads and number of stops, when no
\* transaction touches a key again.
THEOREM Exactly ==
    ASSUME \A w \in Workloads : ~w.rewrites
    PROVE  Spec => []((astray \/ TypeOK) /\ RedoExact)
<1>1. Init => Inv
  BY InvInit
<1>2. Inv => (astray \/ TypeOK) /\ RedoExact
  BY RecoveredExact DEF Inv, RedoInv, RedoExact
<1> QED BY <1>1, <1>2, InvStep, PTL DEF Spec

\* When moreover Mut is not called where the page cache may be ahead of the journal,
\* no key comes back with a value it did not have between the last durable record and
\* the stop, be the image ahead of the records that survived (replay).
THEOREM Plausibly ==
    ASSUME \A w \in Workloads : ~w.rewrites /\ ~(w.muts /\ w.ahead)
    PROVE  Spec => []RedoPlausible
<1>1. Init => Inv
  BY InvInit
<1>2. ASSUME RedoInv PROVE RedoPlausible
  <2> SUFFICES ASSUME Recovered, NEW k \in Keys
               PROVE  \E i \in (durable + 1)..Len(past) : Current(heap, k) = Current(past[i], k)
    BY DEF RedoPlausible
  <2>1. pos = Len(log) + 1 /\ mode = "redo" /\ Len(log) \in Nat /\ Len(past) \in Nat /\ Len(log) < Len(past)
        /\ durable \in 0 .. Len(log) /\ imageAt \in Nat
    BY <1>2, InvFacts DEF Recovered
  <2>2. with \in Workloads
    BY <1>2 DEF RedoInv, TypeOK
  <2>3. CASE ~with.ahead
    <3>1. imageAt <= Len(log)
      BY <1>2, <2>1, <2>3 DEF RedoInv, ImageInv
    <3>2. heap = past[Len(log) + 1]
      BY <1>2, <2>1, <3>1, RecoveredExact DEF RedoExact, RedoExactAlways, RedoInv, Recovered
    <3>3. Len(log) + 1 \in (durable + 1) .. Len(past)
      BY <2>1
    <3> QED BY <3>2, <3>3
  <2>4. CASE with.ahead
    <3>1. Seen(past, k, heap[k], pos)
      BY <1>2, <2>1, <2>2, <2>4 DEF RedoInv, DownInv
    <3>2. PICK j \in pos .. Len(past) : ViewOf(heap[k]) = ViewOf(past[j][k])
      BY <3>1 DEF Seen
    <3>3. \A h : Current(h, k) = ViewOf(h[k])
      BY DEF Current, ViewOf, LatestID, LastId
    <3>4. j \in (durable + 1) .. Len(past)
      BY <2>1
    <3> QED BY <3>2, <3>3, <3>4
  <2> QED BY <2>3, <2>4
<1>3. Inv => RedoPlausible
  BY <1>2 DEF Inv, RedoPlausible
<1> QED BY <1>1, <1>3, InvStep, PTL DEF Spec

=============================================================================
