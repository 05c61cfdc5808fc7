------------------------------- MODULE BTree -------------------------------
(***************************************************************************)
(* The versioned B-tree kernel over the pages of a heap                    *)
(* (pkg/c2db/db_btree_gen.go, the functions the engine calls, and          *)
(* c2db_slot_pack_compact_gen.go).                                         *)
(*                                                                         *)
(* A heap maps page numbers to pages.  A page is a leaf, an inner node or  *)
(* raw memory; "link" is the eight bytes at offset 8 (the next leaf, 0 for *)
(* none, or the leftmost child), "slots" its cells in slot order and       *)
(* "taken" the bytes between the lowest cell and the end of the page, dead *)
(* cells included.  A leaf cell is a version of a key, an inner cell a     *)
(* separator and the child at its right.  Keys, identifiers and values are *)
(* numbers in the order of their bytes; lengths count abstract units.      *)
(* Checks of offsets read from a page, which well-formed pages pass, are   *)
(* left out.  The recursive operators are loops of the code.               *)
(***************************************************************************)
EXTENDS Integers, Sequences, SequencesExt, FiniteSetsExt

CONSTANTS
    Keys,         \* the keys, numbers
    Vals,         \* the values, numbers; 0 is the empty value
    NPages,       \* npages: pages of the buffer
    PageCap,      \* bytes of a page after its header
    SlotLen,      \* bytes of a slot
    LeafOver,     \* bytes of a leaf cell besides the key and the value
    InnerOver,    \* bytes of an inner cell besides the key
    ValLen,       \* length of each value
    Reserve,      \* room a split leaves in the right leaf (0x9c4)
    MaskBits,     \* pages the mask of a call can name (64)
    AncMax        \* inner nodes a descent can remember (32)

ASSUME BTreeAssumption ==
    /\ Keys \subseteq Nat /\ Vals \subseteq Nat
    /\ NPages \in Nat \ {0} /\ MaskBits \in Nat
    /\ {PageCap, SlotLen, LeafOver, InnerOver, Reserve, AncMax} \subseteq Nat
    /\ ValLen \in [Vals -> Nat]

PageIds == 0 .. NPages - 1
KeyLen == 1
RawPage == [kind |-> "raw", link |-> 0, slots |-> <<>>, taken |-> 0]

CellLen(kind, c) == IF kind = "leaf" THEN LeafOver + KeyLen + ValLen[c.v] ELSE InnerOver + KeyLen
RECURSIVE LenOf(_, _)
LenOf(kind, cells) ==
    IF cells = <<>> THEN 0 ELSE CellLen(kind, Head(cells)) + LenOf(kind, Tail(cells))

\* Db_bt_leaf_init, bt_leaf_repack: a page that holds exactly these cells.
Packed(kind, link, cells) ==
    [kind |-> kind, link |-> link, slots |-> cells, taken |-> LenOf(kind, cells)]

\* The test of every insertion: the slot array and the cells must not meet.
Fits(pg, cell) ==
    SlotLen * (Len(pg.slots) + 1) <= PageCap - pg.taken - CellLen(pg.kind, cell)

WithCell(pg, pos, cell) ==
    [pg EXCEPT !.slots = InsertAt(@, pos, cell), !.taken = @ + CellLen(pg.kind, cell)]

-----------------------------------------------------------------------------
(* Inner nodes.                                                            *)

\* bt_internal_child: the child before the first separator above the key.
InternalChild(pg, k) ==
    LET above == {i \in 1 .. Len(pg.slots) : pg.slots[i].k > k}
        n     == IF above = {} THEN Len(pg.slots) ELSE Min(above) - 1
    IN  IF n = 0 THEN pg.link ELSE pg.slots[n].child

\* bt_internal_has_child
HasChild(pg, ch) ==
    pg.kind = "inner" /\ (pg.link = ch \/ \E i \in 1 .. Len(pg.slots) : pg.slots[i].child = ch)

\* The pages from p down to the leaf of a key; <<>> when the descent gives up.
RECURSIVE Descent(_, _, _, _)
Descent(h, p, k, fuel) ==
    IF p \notin PageIds \/ fuel = 0 THEN <<>>
    ELSE IF h[p].kind # "inner" THEN <<p>>
    ELSE LET below == IF InternalChild(h[p], k) = p THEN <<>>
                      ELSE Descent(h, InternalChild(h[p], k), k, fuel - 1)
         IN  IF below = <<>> THEN <<>> ELSE <<p>> \o below

\* The pages the loops visit from root towards the leaf of a key.
Path(h, root, k) == Descent(h, root, k, NPages + 1)

\* bt_internal_insert_kv: the separator goes right after the child it was
\* split from.
InsertSep(h, node, left, right, key) ==
    LET cell == [k |-> key, child |-> right]
        at   == IF h[node].link = left THEN {1}
                ELSE {i + 1 : i \in {j \in 1 .. Len(h[node].slots) : h[node].slots[j].child = left}}
    IN  IF h[node].kind = "inner" /\ node # right /\ Fits(h[node], cell) /\ at # {}
        THEN [ok |-> TRUE, h |-> [h EXCEPT ![node] = WithCell(@, Min(at), cell)]]
        ELSE [ok |-> FALSE, h |-> h]

\* bt_internal_insert_buf: the same, of a key kept aside.
InsertBuf(h, node, left, right, key) == InsertSep(h, node, left, right, key)

\* bt_internal_add_sep: the separator is the first key of the right leaf.
AddSep(h, node, left, right) == InsertSep(h, node, left, right, h[right].slots[1].k)

\* bt_make_root_buf
MakeRoot(h, left, right, nroot, key) ==
    [h EXCEPT ![nroot] = Packed("inner", left, <<[k |-> key, child |-> right]>>)]

\* bt_make_internal
MakeInternal(h, left, right, node) == MakeRoot(h, left, right, node, h[right].slots[1].k)

\* bt_split_internal: the middle separator moves up, those after it to dst.
SplitInternal(h, src, dst) ==
    LET s   == h[src].slots
        mid == Len(s) \div 2
    IN  IF h[src].kind # "inner" \/ mid = 0 \/ mid + 1 >= Len(s)
        THEN [ok |-> FALSE, h |-> h, key |-> 0]
        ELSE [ok |-> TRUE, key |-> s[mid + 1].k,
              h |-> [h EXCEPT ![dst] = Packed("inner", s[mid + 1].child, SubSeq(s, mid + 2, Len(s))),
                              ![src] = Packed("inner", @.link, SubSeq(s, 1, mid))]]

\* The half of a split node that holds a child takes the new separator.
AttachHalf(h, src, dst, left, right, key) ==
    IF HasChild(h[dst], left) THEN InsertBuf(h, dst, left, right, key)
    ELSE IF HasChild(h[src], left) THEN InsertBuf(h, src, left, right, key)
    ELSE [ok |-> FALSE, h |-> h]

\* bt_elevate_root: the root splits and a new root takes both halves.
ElevateRoot(h, src, dst, nroot, left, right) ==
    LET s == SplitInternal(h, src, dst)
    IN  IF ~s.ok THEN [ok |-> FALSE, h |-> h]
        ELSE AttachHalf(MakeRoot(s.h, src, dst, nroot, s.key), src, dst, left, right,
                        h[right].slots[1].k)

-----------------------------------------------------------------------------
(* Leaves.                                                                 *)

Newer(c, k, id) == c.k > k \/ (c.k = k /\ c.id > id)

\* bt_find_ver_pos_at: before the first cell of a greater key or version.
FindVerPos(slots, k, id) ==
    LET above == {i \in 1 .. Len(slots) : Newer(slots[i], k, id)}
    IN  IF above = {} THEN Len(slots) + 1 ELSE Min(above)

\* bt_find_at, bt_get_at
HasKey(pg, k) == pg.kind = "leaf" /\ \E i \in 1 .. Len(pg.slots) : pg.slots[i].k = k

\* bt_insert_ver_at, bt_slot_insert_at
InsertVerAt(pg, k, id, v) ==
    LET cell == [k |-> k, id |-> id, v |-> v]
    IN  IF pg.kind = "leaf" /\ Fits(pg, cell)
        THEN [ok |-> TRUE, pg |-> WithCell(pg, FindVerPos(pg.slots, k, id), cell)]
        ELSE [ok |-> FALSE, pg |-> pg]

\* The cells of a key no newer than snap; the loop of bt_get_as_of_at keeps
\* the first of those with the greatest identifier.
Upto(slots, k, snap) == {i \in 1 .. Len(slots) : slots[i].k = k /\ slots[i].id <= snap}
Latest(slots, k, snap) ==
    CHOOSE i \in Upto(slots, k, snap) :
        \A j \in Upto(slots, k, snap) :
            slots[j].id < slots[i].id \/ (slots[j].id = slots[i].id /\ i <= j)

\* bt_replace_same_value_at: when the newest version holds the same value,
\* its identifier is overwritten in place.
ReplaceSameValue(pg, k, id, v) ==
    LET all == {i \in 1 .. Len(pg.slots) : pg.slots[i].k = k}
        top == CHOOSE i \in all : \A j \in all :
                   pg.slots[j].id < pg.slots[i].id \/ (pg.slots[j].id = pg.slots[i].id /\ i <= j)
    IN  IF pg.kind = "leaf" /\ all # {} /\ pg.slots[top].v = v
        THEN [ok |-> TRUE, pg |-> [pg EXCEPT !.slots[top].id = id]]
        ELSE [ok |-> FALSE, pg |-> pg]

\* bt_get_as_of_at: the version found in one leaf, a set of at most one.
GetAsOfAt(pg, k, snap) ==
    IF pg.kind # "leaf" \/ Upto(pg.slots, k, snap) = {} THEN {}
    ELSE {pg.slots[Latest(pg.slots, k, snap)]}

\* bt_del_at: the slots of the key disappear, their cells stay as dead bytes.
DelAt(pg, k) ==
    IF pg.kind # "leaf" THEN pg
    ELSE [pg EXCEPT !.slots = SelectSeq(@, LAMBDA c : c.k # k)]

\* C2db_slot_pack_compact, without dropping tombstones: the page repacked and
\* the bytes freed.
SlotPackCompact(pg) ==
    [pg |-> Packed(pg.kind, pg.link, pg.slots),
     freed |-> IF pg.kind = "leaf" THEN pg.taken - LenOf("leaf", pg.slots) ELSE 0]

\* Mutant of SplitPoint: the cut may fall between two versions of a key.
SplitPointAnywhere(slots) == Len(slots) \div 2

\* bt_chain_split_ver, the choice of the split: from the middle, right until
\* the right half leaves Reserve bytes, right until a boundary between keys,
\* else left until one.  0 when there is none.
SplitPoint(slots) ==
    LET n == Len(slots)
        tail(m) == LenOf("leaf", SubSeq(slots, m + 1, n)) + SlotLen * (n - m)
        light(m) == tail(m) + Reserve <= PageCap
        boundary(m) == slots[m].k # slots[m + 1].k
        half  == n \div 2
        start == Min({m \in half .. n - 1 : m = n - 1 \/ light(m)})
        right == {m \in start .. n - 1 : boundary(m)}
        left  == {m \in 2 .. start : boundary(m) /\ \A j \in m .. start : light(j - 1)}
        cut   == IF right # {} THEN Min(right) ELSE IF left # {} THEN Max(left) ELSE 0
    IN  IF half = 0 \/ cut <= 1 THEN 0 ELSE cut

\* bt_chain_split_ver: dst takes the cells after the cut and follows src.
ChainSplitVer(h, src, dst) ==
    LET s == h[src].slots
        m == SplitPoint(s)
    IN  IF m = 0 THEN [ok |-> FALSE, h |-> [h EXCEPT ![dst] = Packed("leaf", @.link, <<>>)]]
        ELSE [ok |-> TRUE,
              h |-> [h EXCEPT ![dst] = Packed("leaf", h[src].link, SubSeq(s, m + 1, Len(s))),
                              ![src] = Packed("leaf", dst, SubSeq(s, 1, m))]]

-----------------------------------------------------------------------------
(* Insertion into a heap.  A call works on dirty; it copies a page from    *)
(* src the first time it touches it, which the mask remembers for the      *)
(* first MaskBits pages only.  src is either another buffer or dirty       *)
(* itself, where the copy does nothing.                                    *)

\* bt_cow_page
CowPage(d, src, p) ==
    IF p \notin PageIds \/ p \in d.mask THEN d
    ELSE [h |-> IF src.own THEN d.h ELSE [d.h EXCEPT ![p] = src.h[p]],
          mask |-> IF p < MaskBits THEN d.mask \cup {p} ELSE d.mask]
CowPages(d, src, ps) ==
    [h |-> IF src.own THEN d.h ELSE [p \in (ps \cap PageIds) \ d.mask |-> src.h[p]] @@ d.h,
     mask |-> d.mask \cup {p \in ps \cap PageIds : p < MaskBits}]

Failed(d, full) ==
    [ok |-> FALSE, full |-> full, root |-> 0, used |-> 0, h |-> d.h, mask |-> {}]
Done(d, h, root, used) ==
    [ok |-> TRUE, full |-> FALSE, root |-> root, used |-> used, h |-> h, mask |-> d.mask]

\* bt_split_attach_deep, the loop over the ancestors: the separator goes into
\* the parent, or the parent splits and the loop moves up; above the old root
\* a new one is made.
RECURSIVE AttachUp(_, _, _, _, _, _, _, _)
AttachUp(d, src, anc, l, r, key, root, used) ==
    IF anc = <<>>
    THEN IF used + 1 > NPages THEN Failed(d, TRUE)
         ELSE LET e == CowPage(d, src, used)
              IN  Done(e, MakeRoot(e.h, l, r, used, key), used, used + 1)
    ELSE LET node == Last(anc)
             put  == InsertBuf(d.h, node, l, r, key)
             e    == CowPage(d, src, used)
             s    == SplitInternal(e.h, node, used)
             half == AttachHalf(s.h, node, used, l, r, key)
         IN  IF put.ok THEN Done(d, put.h, root, used)
             ELSE IF used + 1 > NPages THEN Failed(d, TRUE)
             ELSE IF ~s.ok THEN Failed(e, FALSE)
             ELSE IF ~half.ok THEN Failed([e EXCEPT !.h = s.h], FALSE)
             ELSE AttachUp([e EXCEPT !.h = half.h], src, Front(anc), node, used, s.key, root, used + 1)

\* bt_split_attach_deep: node, the parent of the leaf that split, splits first.
SplitAttachDeep(d, src, anc, node, dst, left, right, root, used) ==
    LET s    == SplitInternal(d.h, node, dst)
        half == AttachHalf(s.h, node, dst, left, right, s.h[right].slots[1].k)
    IN  IF anc = <<>> \/ Len(anc) >= AncMax THEN Failed(d, TRUE)
        ELSE IF ~s.ok THEN Failed(d, FALSE)
        ELSE IF ~half.ok THEN Failed([d EXCEPT !.h = s.h], FALSE)
        ELSE AttachUp([d EXCEPT !.h = half.h], src, anc, node, dst, s.key, root, used)

\* The version goes into the half of a split leaf its key belongs to.
InsertHalf(h, left, right, k, id, v) ==
    LET p == IF h[right].slots[1].k > k THEN left ELSE right
        i == InsertVerAt(h[p], k, id, v)
    IN  [ok |-> i.ok, h |-> [h EXCEPT ![p] = i.pg]]

\* One leaf of the descent takes the version: replaced in place, or inserted.
InLeaf(pg, k, id, v, prune) ==
    LET same == ReplaceSameValue(pg, k, id, v)
    IN  IF prune /\ HasKey(pg, k) /\ same.ok THEN same ELSE InsertVerAt(pg, k, id, v)

\* bt_insert_ver_heap_impl, the root has split and has a new one above it.
RootSplit(g, up, used) ==
    IF up.ok THEN Done(g, up.h, used + 2, used + 3) ELSE Failed([g EXCEPT !.h = up.h], FALSE)

\* bt_insert_ver_heap_impl, the leaf has split: its parent takes the
\* separator, or splits in turn.
ParentTakes(f, src, anc, leaf, root, used) ==
    LET node == Last(anc)
        sep  == AddSep(f.h, node, leaf, used)
        g    == CowPages(f, src, {used + 1, used + 2})
    IN  IF sep.ok THEN Done(f, sep.h, root, used + 1)
        ELSE IF node = root
             THEN IF used + 2 >= NPages THEN Failed(f, TRUE)
                  ELSE RootSplit(g, ElevateRoot(g.h, root, used + 1, used + 2, leaf, used), used)
             ELSE IF used + 1 >= NPages THEN Failed(f, TRUE)
                  ELSE SplitAttachDeep(CowPage(f, src, used + 1), src, Front(anc), node,
                                       used + 1, leaf, used, root, used + 2)

\* bt_insert_ver_heap_impl, the version goes into a half of the split leaf; a
\* leaf that was alone gets an inner root.  A heap of two pages has no inner
\* root and is not modelled (the engine never opens one).
LeafSplit(e, cut, src, path, root, used, k, id, v) ==
    LET leaf == Last(path)
        put  == InsertHalf(cut.h, leaf, used, k, id, v)
        f    == [e EXCEPT !.h = put.h]
        g    == CowPage(f, src, used + 1)
    IN  IF ~cut.ok \/ ~put.ok THEN Failed([e EXCEPT !.h = cut.h], FALSE)
        ELSE IF Len(path) > 1 THEN ParentTakes(f, src, Front(path), leaf, root, used)
        ELSE Done(g, MakeInternal(g.h, root, used, used + 1), used + 1, used + 2)

\* bt_insert_ver_heap_impl once the leaf is found: it takes the version, or
\* splits.
InsertAlong(d, src, path, root, used, k, id, v, prune) ==
    LET leaf == Last(path)
        in   == InLeaf(d.h[leaf], k, id, v, prune)
        e    == CowPage(d, src, used)
    IN  IF Len(path) > AncMax + 1 THEN Failed(d, FALSE)
        ELSE IF in.ok THEN Done(d, [d.h EXCEPT ![leaf] = in.pg], root, used)
        ELSE IF used + 2 > NPages THEN Failed(d, Len(path) > 1)
        ELSE LeafSplit(e, ChainSplitVer(e.h, leaf, used), src, path, root, used, k, id, v)

\* Db_bt_insert_ver_heap_prune
InsertVerHeap(src, dirty, root, used, k, id, v, prune) ==
    LET start == CowPage([h |-> dirty, mask |-> {}], src, root)
        path  == Path(IF src.own THEN dirty ELSE src.h, root, k)
        d     == CowPages(start, src, ToSet(path))
    IN  IF path = <<>> \/ d.h[Last(path)].kind # "leaf" THEN Failed(start, FALSE)
        ELSE InsertAlong(d, src, path, root, used, k, id, v, prune)

\* Db_bt_del_heap: the key's versions leave its leaf; no page is given back.
DelHeap(src, dirty, root, used, k) ==
    LET start == CowPage([h |-> dirty, mask |-> {}], src, root)
        path  == Path(IF src.own THEN dirty ELSE src.h, root, k)
        d     == CowPages(start, src, ToSet(path))
    IN  IF path = <<>> \/ d.h[Last(path)].kind # "leaf" THEN Failed(start, FALSE)
        ELSE Done(d, [d.h EXCEPT ![Last(path)] = DelAt(@, k)], root, used)

-----------------------------------------------------------------------------
(* Reading a heap.                                                         *)

\* Db_bt_get_as_of_heap
GetAsOfHeap(h, root, k, snap) ==
    LET path == Path(h, root, k)
    IN  IF path = <<>> THEN {} ELSE GetAsOfAt(h[Last(path)], k, snap)

\* Cursor.initLeafPages, and the walks of Db_bt_scan_prefix_heap and
\* bt_heap_nkeys: down the leftmost links, then along the leaves.
RECURSIVE Leaves(_, _, _)
Leaves(h, p, fuel) ==
    IF p \notin PageIds \/ fuel = 0 THEN <<>>
    ELSE CASE h[p].kind = "inner" -> IF h[p].link = p THEN <<>> ELSE Leaves(h, h[p].link, fuel - 1)
           [] h[p].kind = "leaf"  -> <<p>> \o (IF h[p].link \in {0, p} THEN <<>>
                                               ELSE Leaves(h, h[p].link, fuel - 1))
           [] OTHER -> <<>>

LeafPages(h, root) == Leaves(h, root, 2 * NPages)
LeafCells(h, root) == FlattenSeq([i \in 1 .. Len(LeafPages(h, root)) |-> h[LeafPages(h, root)[i]].slots])

\* bt_scan_prefix_at: the keys of a leaf that lie in an interval.
InPrefix(pg, lo, hi) ==
    SelectSeq([i \in 1 .. Len(pg.slots) |-> pg.slots[i].k], LAMBDA k : lo <= k /\ k <= hi)

\* Db_bt_scan_prefix_heap, along the leaves
ScanPrefixHeap(h, root, lo, hi) ==
    LET ps == LeafPages(h, root)
    IN  FlattenSeq([i \in 1 .. Len(ps) |-> InPrefix(h[ps[i]], lo, hi)])

\* scanPrefixHeap: a key that repeats the one before it is dropped.
ScanPrefix(h, root, lo, hi) ==
    FoldLeft(LAMBDA out, k : IF out # <<>> /\ Last(out) = k THEN out ELSE Append(out, k),
             <<>>, ScanPrefixHeap(h, root, lo, hi))
=============================================================================
