------------------------------- MODULE Cursor -------------------------------
(***************************************************************************)
(* The iterator over the leaves of a pinned heap (pkg/c2db/cursor.go).     *)
(*                                                                         *)
(* A cursor is a record: the heap and the leaves found when it was opened, *)
(* the snapshot, the position (leaf, slot), whether it is valid, and the   *)
(* cell it stands on.  Positions count from 1.  A loop of the code is a    *)
(* recursive operator; First, Seek and stepForward share one loop, whose   *)
(* three copies differ only in how they step over an empty leaf.           *)
(***************************************************************************)
EXTENDS BTree

NoCell == [k |-> 0, id |-> 0, v |-> 0]

\* newCursor, initLeafPages
NewCursor(h, root, snap) ==
    [open |-> TRUE, h |-> h, pages |-> LeafPages(h, root), snap |-> snap,
     leaf |-> 0, slot |-> 0, valid |-> FALSE, cell |-> NoCell]

\* leafSlotCount
LeafSlotCount(c, l) == IF l \in DOMAIN c.pages THEN Len(c.h[c.pages[l]].slots) ELSE 0

\* readSlotCell: the slot exists, and its cell.
IsSlot(c, l, s) == s \in 1 .. LeafSlotCount(c, l)
SlotCell(c, l, s) == c.h[c.pages[l]].slots[s]

\* The slot after, where the end of a leaf leads to the next leaf.
Following(c, l, s) == IF s + 1 > LeafSlotCount(c, l) THEN <<l + 1, 1>> ELSE <<l, s + 1>>

\* resolveKeyAt: the run of slots of one key that starts at a position, with
\* the last version the snapshot sees; the run is inactive when it sees none,
\* or when that version is empty.
RECURSIVE ResolveKeyAt(_, _, _, _)
ResolveKeyAt(c, l, s, best) ==
    LET cell == SlotCell(c, l, s)
        now  == IF cell.id <= c.snap THEN {cell} ELSE best
        nxt  == Following(c, l, s)
    IN  IF ~IsSlot(c, l, s) THEN [best |-> best, leaf |-> l, slot |-> s]
        ELSE IF IsSlot(c, nxt[1], nxt[2]) /\ SlotCell(c, nxt[1], nxt[2]).k = cell.k
             THEN ResolveKeyAt(c, nxt[1], nxt[2], now)
             ELSE [best |-> now, leaf |-> l, slot |-> s]

Active(r) == \E b \in r.best : ValLen[b.v] > 0
Found(r) == CHOOSE b \in r.best : TRUE

\* resolveKeyEndingAt: the first slot of the run that ends at a position.
RECURSIVE RunStart(_, _, _)
RunStart(c, l, s) ==
    LET prv == IF s > 1 THEN <<l, s - 1>> ELSE <<l - 1, LeafSlotCount(c, l - 1)>>
    IN  IF IsSlot(c, prv[1], prv[2]) /\ SlotCell(c, prv[1], prv[2]).k = SlotCell(c, l, s).k
        THEN RunStart(c, prv[1], prv[2])
        ELSE <<l, s>>

Invalid(c) == [c EXCEPT !.valid = FALSE, !.cell = NoCell]
At(c, l, s, cell) == [c EXCEPT !.leaf = l, !.slot = s, !.valid = TRUE, !.cell = cell]

\* The first active key from a position on, not below lo.
RECURSIVE Forward(_, _, _, _)
Forward(c, l, s, lo) ==
    LET r   == ResolveKeyAt(c, l, s, {})
        nxt == Following(c, r.leaf, r.slot)
    IN  IF l > Len(c.pages) THEN Invalid(c)
        ELSE IF Active(r) /\ Found(r).k >= lo THEN At(c, l, s, Found(r))
        ELSE Forward(c, nxt[1], nxt[2], lo)

First(c) == IF c.pages = <<>> THEN Invalid(c) ELSE Forward(c, 1, 1, 0)

\* Next
Next_(c) ==
    LET r   == ResolveKeyAt(c, c.leaf, c.slot, {})
        nxt == Following(c, r.leaf, r.slot)
    IN  IF c.valid THEN Forward(c, nxt[1], nxt[2], 0) ELSE c

\* sort.Search over 1 .. n: external.
RECURSIVE Search(_, _, _)
Search(i, j, holds) ==
    LET m == (i + j) \div 2
    IN  IF i >= j THEN i ELSE IF m \in holds THEN Search(i, m, holds) ELSE Search(m + 1, j, holds)

\* Mutant of Seek: the search of the slot ends in the leaf it began in.
SeekOneLeaf(c, target) ==
    LET n   == Len(c.pages)
        l   == Max({Search(1, n + 1, {i \in 1 .. n : IsSlot(c, i, 1) => SlotCell(c, i, 1).k > target}) - 1, 1})
        ss  == {i \in 1 .. LeafSlotCount(c, l) : SlotCell(c, l, i).k >= target}
    IN  IF n = 0 \/ ss = {} THEN Invalid(c) ELSE Forward(c, l, Min(ss), target)

\* Seek: a binary search for the leaf, where an empty leaf counts as too far,
\* then one for the slot.
Seek(c, target) ==
    LET n     == Len(c.pages)
        tooFar == {l \in 1 .. n : IsSlot(c, l, 1) => SlotCell(c, l, 1).k > target}
        l     == Max({Search(1, n + 1, tooFar) - 1, 1})
        cnt   == LeafSlotCount(c, l)
        s     == Search(1, cnt + 1, {i \in 1 .. cnt : SlotCell(c, l, i).k >= target})
    IN  IF n = 0 THEN Invalid(c)
        ELSE IF cnt > 0 /\ s > cnt THEN Forward(c, l + 1, 1, target)
        ELSE Forward(c, l, s, target)

\* Last: from the right, over empty leaves and inactive runs.
RECURSIVE Backward(_, _, _)
Backward(c, l, s) ==
    LET from == RunStart(c, l, s)
        r    == ResolveKeyAt(c, from[1], from[2], {})
    IN  IF l = 0 THEN Invalid(c)
        ELSE IF s = 0 THEN Backward(c, l - 1, LeafSlotCount(c, l - 1))
        ELSE IF Active(r) THEN At(c, from[1], s, Found(r))
        ELSE Backward(c, from[1], from[2] - 1)
LastKey(c) == Backward(c, Len(c.pages), LeafSlotCount(c, Len(c.pages)))

\* stepBackward: an empty leaf ends the walk, and an inactive run is left by
\* the start of its leaf.
RECURSIVE StepBackward(_, _, _)
StepBackward(c, l, s) ==
    LET prv  == IF s > 1 THEN <<l, s - 1>> ELSE <<l - 1, LeafSlotCount(c, l - 1)>>
        from == RunStart(c, prv[1], prv[2])
        r    == ResolveKeyAt(c, from[1], from[2], {})
    IN  IF prv[1] = 0 \/ prv[2] = 0 THEN Invalid(c)
        ELSE IF Active(r) THEN At(c, from[1], prv[2], Found(r))
        ELSE StepBackward(c, from[1], 1)

\* Prev
Prev(c) ==
    LET from == RunStart(c, c.leaf, c.slot)
    IN  IF c.valid THEN StepBackward(c, from[1], from[2]) ELSE c

\* The cells a loop of Next visits from a position on (Range without an end,
\* and the enumeration of rebuildLatestLocked).
RECURSIVE Walk(_)
Walk(c) == IF c.valid THEN <<c.cell>> \o Walk(Next_(c)) ELSE <<>>

\* Cursor.Range: the keys of [start, end[, from Seek on.
RangeCells(c, start, end) == SelectSeq(Walk(Seek(c, start)), LAMBDA b : b.k < end)
=============================================================================
