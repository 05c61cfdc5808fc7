---------------------------- MODULE VFSFileProofs ----------------------------
(***************************************************************************)
(* A VFS file, for every number of clients, states, cells and calls.       *)
(*                                                                         *)
(* Its generations, when openings may overlap any other call, and          *)
(* creations and deletions run alone (OpensOverlap).  Then what it holds:  *)
(* what handles read, what the store keeps, what a stop leaves, when       *)
(* openings run alone too (Serial).                                        *)
(***************************************************************************)
EXTENDS VFSFile, FiniteSetTheorems, TLAPS

OpensOverlap == Overlaps \subseteq {"open"}

-----------------------------------------------------------------------------
(* The invariant.                                                          *)

Handles   == {"idle", "flush", "save", "barrier", "truncate"}
Replacing == {"purge", "creating", "createPurge"}
Pcs       == Handles \cup Replacing \cup {"none", "fresh", "revive", "found"}
Gens      == 0 .. MaxGen
Rows      == [Cells -> Nat]

StateRec ==
    [size : Sizes, generation : Gens, refCount : Int, dirty : SUBSET Blocks, cells : Rows, metaDirty : BOOLEAN]
ClientRec ==
    [pc : Pcs, st : States \cup {None}, generation : Gens, seen : Gens, todo : SUBSET Blocks,
     size : Sizes, after : {"return", "sync", "close"}]

Types ==
    /\ meta \in Metas /\ blocks \in [1 .. MaxGen -> Rows] /\ registry \in States \cup {None}
    /\ state \in [States -> StateRec] /\ client \in [Clients -> ClientRec] /\ writes \in Nat

\* What a client knows of the metadata: a handle never has a newer generation than
\* the store, nor the one of a tombstone; between its two operations of the store,
\* an opening finds the generation it read, or that another opening made of it.
Knows(y, m) ==
    /\ y.pc \in Handles =>
          /\ y.st \in States /\ 1 <= y.generation /\ y.generation <= m.generation
          /\ m.deleted => y.generation < m.generation
    /\ y.pc = "save" => y.generation = m.generation
    /\ y.pc \in {"fresh", "revive"} =>
          \/ y.generation = m.generation /\ (m.generation = 0 \/ m.deleted)
          \/ m.generation = y.generation + 1 /\ ~m.deleted
    /\ y.pc = "found" => 1 <= y.generation /\ y.generation = m.generation /\ ~m.deleted
    /\ y.pc = "purge" => 1 <= y.generation /\ y.generation < MaxGen /\ y.generation = m.generation
    /\ y.pc = "creating" => y.st \in States /\ y.generation > m.generation
    /\ y.pc = "createPurge" => y.st \in States /\ 1 <= y.generation /\ y.generation = m.generation /\ ~m.deleted

\* Nothing runs beside a creation or a deletion.
Apart(y, z) == y.pc \in Replacing => z.pc \in {"none", "idle"}

GenInv ==
    /\ Types
    /\ \A c \in Clients : Knows(client[c], meta)
    /\ \A c \in Clients : \A d \in Clients \ {c} : Apart(client[c], client[d])

\* What a stop brings back is no older than the last Sync that returned, and no newer
\* than the store.
Durable ==
    /\ kept \in [meta : Metas, blocks : [1 .. MaxGen -> Rows]]
    /\ sure \in Nat /\ sure <= kept.meta.generation /\ kept.meta.generation <= meta.generation

-----------------------------------------------------------------------------
(* The values that the calls build.                                        *)

LEMMA Grounds ==
    /\ Zeros \in Rows /\ NewState \in StateRec /\ Outside \in ClientRec /\ Sizes \subseteq Nat
    /\ 0 \in Sizes /\ 0 \in Gens /\ Outside.pc = "none" /\ NewState.generation = 0
<1>1. Zeros \in Rows
  BY DEF Zeros, Rows
<1>2. 0 \in Sizes /\ 0 \in Gens /\ Sizes \subseteq Nat
  BY VFSFileAssumption DEF Sizes, Gens
<1>3. NewState \in StateRec /\ NewState.generation = 0
  BY <1>1, <1>2 DEF NewState, StateRec
<1>4. Outside \in ClientRec /\ Outside.pc = "none"
  BY <1>2 DEF Outside, ClientRec, Pcs
<1> QED
  BY <1>1, <1>2, <1>3, <1>4

LEMMA PageNat ==
    ASSUME Types, NEW st \in StateRec, NEW g \in 1 .. MaxGen, NEW x \in Cells
    PROVE  Page(st, g, x) \in Nat
<1>1. blocks[g] \in Rows /\ st.cells \in Rows
  BY DEF Types, StateRec
<1> QED
  BY <1>1 DEF Page, Rows

LEMMA LoadedRec ==
    ASSUME Types, NEW st \in StateRec, NEW g \in 1 .. MaxGen, NEW bs \in SUBSET Blocks
    PROVE  /\ Loaded(st, g, bs) \in StateRec
           /\ Loaded(st, g, bs).generation = st.generation /\ Loaded(st, g, bs).size = st.size
<1>1. PICK D, K : /\ D = st.dirty \cup bs
                  /\ K = [x \in Cells |-> IF x \div BlockSize \in bs THEN Page(st, g, x) ELSE st.cells[x]]
  OBVIOUS
<1>2. Loaded(st, g, bs) = [st EXCEPT !.dirty = D, !.cells = K]
  BY <1>1 DEF Loaded
<1>3. D \in SUBSET Blocks
  BY <1>1 DEF StateRec
<1>4. K \in Rows
  <2>1. st.cells \in Rows
    BY DEF StateRec
  <2> QED
    BY <1>1, <2>1, PageNat DEF Rows
<1> QED
  BY <1>2, <1>3, <1>4 DEF StateRec

LEMMA WipedRow ==
    ASSUME NEW row \in Rows, NEW n PROVE Wiped(row, n) \in Rows
BY DEF Wiped, Rows

LEMMA CutRec ==
    ASSUME Types, NEW st \in StateRec, NEW g \in 1 .. MaxGen, NEW size \in Sizes
    PROVE  Cut(st, g, size) \in StateRec /\ Cut(st, g, size).generation = st.generation
<1>1. PICK last, l : /\ last = size \div BlockSize
                     /\ l = IF size % BlockSize > 0 /\ \E x \in Of(last) : Page(st, g, x) # 0
                              THEN Loaded(st, g, {last}) ELSE st
  OBVIOUS
<1>2. l \in StateRec /\ l.generation = st.generation
  <2>1. CASE \E x \in Of(last) : Page(st, g, x) # 0
    <3>1. {last} \in SUBSET Blocks
      BY <2>1 DEF Of, Blocks
    <3>2. Loaded(st, g, {last}) \in StateRec /\ Loaded(st, g, {last}).generation = st.generation
      BY <3>1, LoadedRec
    <3> QED
      BY <1>1, <3>2
  <2>2. CASE ~\E x \in Of(last) : Page(st, g, x) # 0
    BY <1>1, <2>2
  <2> QED
    BY <2>1, <2>2
<1>3. PICK D, K : D = {b \in l.dirty : b * BlockSize < size} /\ K = Wiped(l.cells, size)
  OBVIOUS
<1>4. Cut(st, g, size) = [l EXCEPT !.dirty = D, !.cells = K]
  BY <1>1, <1>3 DEF Cut
<1>5. D \in SUBSET Blocks /\ K \in Rows
  BY <1>2, <1>3, WipedRow DEF StateRec
<1> QED
  BY <1>2, <1>4, <1>5 DEF StateRec

-----------------------------------------------------------------------------
(* The steps of a client.                                                  *)

\* A client whose turn it is runs beside no creation and no deletion.
LEMMA Turn ==
    ASSUME OpensOverlap, NEW c \in Clients, Free(c)
    PROVE  \A d \in Clients \ {c} : client[d].pc \notin Replacing
<1> SUFFICES ASSUME NEW d \in Clients \ {c}, client[d].pc \in Replacing PROVE FALSE
  OBVIOUS
<1>1. client[d].pc \in Lifecycle /\ KindOf(client[d].pc) \in {"delete", "create"}
  BY DEF Replacing, Lifecycle, KindOf
<1> QED
  BY <1>1 DEF Free, OpensOverlap

TypesKept ==
    /\ blocks' \in [1 .. MaxGen -> Rows] /\ registry' \in States \cup {None}
    /\ state' \in [States -> StateRec] /\ writes' \in Nat

\* One client moves, with the metadata it leaves.
LEMMA Goes ==
    ASSUME GenInv, NEW c \in Clients, NEW w \in ClientRec, client' = [client EXCEPT ![c] = w], TypesKept,
           meta' \in Metas, Knows(w, meta'),
           \A d \in Clients \ {c} : Knows(client[d], meta') /\ Apart(w, client[d]) /\ Apart(client[d], w)
    PROVE  GenInv'
<1>1. client \in [Clients -> ClientRec]
  BY DEF GenInv, Types
<1>2. client' \in [Clients -> ClientRec] /\ client'[c] = w /\ \A d \in Clients \ {c} : client'[d] = client[d]
  BY <1>1
<1>3. Types'
  BY <1>2 DEF Types, TypesKept
<1>4. \A d \in Clients : Knows(client'[d], meta')
  BY <1>2
<1>5. \A d \in Clients : \A e \in Clients \ {d} : Apart(client'[d], client'[e])
  <2> SUFFICES ASSUME NEW d \in Clients, NEW e \in Clients \ {d} PROVE Apart(client'[d], client'[e])
    OBVIOUS
  <2>1. CASE d = c
    BY <1>2, <2>1
  <2>2. CASE e = c
    BY <1>2, <2>2
  <2>3. CASE d # c /\ e # c
    BY <1>2, <2>3 DEF GenInv
  <2> QED
    BY <2>1, <2>2, <2>3
<1> QED
  BY <1>3, <1>4, <1>5 DEF GenInv

\* The step that GenerationMonotone allows.
Forward ==
    /\ meta'.generation >= meta.generation
    /\ meta.deleted /\ meta'.generation = meta.generation => meta'.deleted

\* The metadata keep their generation.
SameFile == meta' \in Metas /\ meta'.generation = meta.generation /\ meta'.deleted = meta.deleted

LEMMA Stays ==
    ASSUME GenInv, SameFile
    PROVE  Forward /\ \A y : Knows(y, meta) => Knows(y, meta')
<1>1. meta.generation \in Int
  BY DEF GenInv, Types, Metas
<1>2. Forward
  BY <1>1 DEF Forward, SameFile
<1> QED
  BY <1>2 DEF SameFile, Knows

LEMMA Untouched ==
    ASSUME GenInv, UNCHANGED meta PROVE SameFile
BY DEF GenInv, Types, SameFile

\* The client replaces nothing.
LEMMA GoesOn ==
    ASSUME OpensOverlap, GenInv, NEW c \in Clients, Free(c), NEW w \in ClientRec,
           client' = [client EXCEPT ![c] = w], TypesKept, SameFile,
           Knows(w, meta), w.pc \notin Replacing
    PROVE  GenInv' /\ Forward
<1>1. \A d \in Clients \ {c} : Knows(client[d], meta) /\ Apart(w, client[d]) /\ Apart(client[d], w)
  BY Turn DEF GenInv, Apart
<1>2. Knows(w, meta') /\ \A d \in Clients \ {c} : Knows(client[d], meta')
  BY <1>1, Stays
<1>3. meta' \in Metas
  BY DEF SameFile
<1>4. GenInv'
  BY <1>1, <1>2, <1>3, Goes
<1> QED
  BY <1>4, Stays

\* A client in the middle of a creation or a deletion, or at its start.
LEMMA Replaces ==
    ASSUME OpensOverlap, GenInv, NEW c \in Clients, Free(c), NEW w \in ClientRec,
           client' = [client EXCEPT ![c] = w], TypesKept, meta' \in Metas, Knows(w, meta'),
           \A d \in Clients \ {c} : client[d].pc \in {"none", "idle"} /\ Knows(client[d], meta')
    PROVE  GenInv'
<1>1. \A d \in Clients \ {c} : Apart(w, client[d]) /\ Apart(client[d], w)
  BY DEF Apart, Replacing
<1> QED
  BY <1>1, Goes

\* The state a handle works on.
LEMMA AtHandle ==
    ASSUME GenInv, NEW c \in Clients, client[c].pc \in Handles
    PROVE  /\ client[c] \in ClientRec /\ client[c].st \in States /\ state[client[c].st] \in StateRec
           /\ client[c].generation \in 1 .. MaxGen /\ Knows(client[c], meta)
           /\ client[c].generation <= meta.generation /\ (meta.deleted => client[c].generation < meta.generation)
<1>1. client[c] \in ClientRec /\ Knows(client[c], meta)
  BY DEF GenInv, Types
<1>2. client[c].st \in States /\ client[c].generation \in 1 .. MaxGen
  BY <1>1, VFSFileAssumption DEF Knows, ClientRec, Gens
<1> QED
  BY <1>1, <1>2 DEF Knows, GenInv, Types

\* A call on a handle returns.
LEMMA Returns ==
    ASSUME OpensOverlap, GenInv, NEW c \in Clients, Free(c), client[c].pc \in Handles,
           Back(c, client[c].st), TypesKept, SameFile
    PROVE  GenInv' /\ Forward
<1>1. PICK o, s, g : o = Outside /\ s = client[c].st /\ g = client[c].generation
  OBVIOUS
<1>2. PICK w : w = [o EXCEPT !.pc = "idle", !.st = s, !.generation = g]
  OBVIOUS
<1>3. client' = [client EXCEPT ![c] = w]
  BY <1>1, <1>2 DEF Back
<1>4. o \in ClientRec /\ s \in States /\ g \in Gens /\ "idle" \in Pcs
  BY <1>1, AtHandle, Grounds DEF Gens, Pcs, Handles
<1>5. w \in ClientRec /\ w.pc = "idle" /\ w.st = s /\ w.generation = g
  BY <1>2, <1>4 DEF ClientRec
<1>6. Knows(w, meta)
  BY <1>1, <1>4, <1>5, AtHandle DEF Knows
<1> QED
  BY <1>3, <1>5, <1>6, GoesOn DEF Replacing

-----------------------------------------------------------------------------
(* Openings.                                                               *)

LEMMA OpenReadSteps ==
    ASSUME OpensOverlap, GenInv, NEW c \in Clients, OpenRead(c)
    PROVE  GenInv' /\ Forward
<1>1. PICK o, p, g, n : /\ o = Outside /\ g = meta.generation /\ n = meta.size
                        /\ p = IF meta.generation = 0 THEN "fresh" ELSE IF meta.deleted THEN "revive" ELSE "found"
  OBVIOUS
<1>2. PICK w : w = [o EXCEPT !.pc = p, !.generation = g, !.size = n]
  OBVIOUS
<1>3. client' = [client EXCEPT ![c] = w] /\ Free(c)
  BY <1>1, <1>2 DEF OpenRead, At
<1>4. o \in ClientRec /\ g \in Gens /\ n \in Sizes /\ p \in {"fresh", "revive", "found"} /\ p \in Pcs
  BY <1>1, Grounds DEF GenInv, Types, Metas, Gens, Pcs
<1>5. w \in ClientRec /\ w.pc = p /\ w.generation = g
  BY <1>2, <1>4 DEF ClientRec
<1>6. Knows(w, meta)
  BY <1>1, <1>4, <1>5 DEF Knows, Handles, Gens
<1>7. TypesKept /\ SameFile
  BY Untouched DEF OpenRead, disk, memory, bounds, TypesKept, GenInv, Types
<1> QED
  BY <1>3, <1>4, <1>5, <1>6, <1>7, GoesOn DEF Replacing

LEMMA OpenPutSteps ==
    ASSUME OpensOverlap, GenInv, NEW c \in Clients, OpenPut(c)
    PROVE  GenInv' /\ Forward
<1>1. PICK y, g : y = client[c] /\ g = y.generation + 1
  OBVIOUS
<1>2. PICK w : w = [y EXCEPT !.pc = "found", !.generation = g, !.size = 0]
  OBVIOUS
<1>3. /\ y.pc \in {"fresh", "revive"} /\ Free(c) /\ y.generation < MaxGen
      /\ meta' = [size |-> 0, generation |-> g, deleted |-> FALSE]
      /\ client' = [client EXCEPT ![c] = w]
  BY <1>1, <1>2 DEF OpenPut, At, GenInv, Types
<1>4. y \in ClientRec /\ Knows(y, meta) /\ meta.generation \in Nat /\ meta.deleted \in BOOLEAN
  BY <1>1 DEF GenInv, Types, Metas
<1>5. y.generation \in Nat /\ g \in Gens /\ 1 <= g /\ 0 \in Sizes
  BY <1>1, <1>3, <1>4, Grounds, VFSFileAssumption DEF ClientRec, Gens
<1>6. w \in ClientRec /\ w.pc = "found" /\ w.generation = g
  BY <1>2, <1>4, <1>5 DEF ClientRec, Pcs
<1>7. meta' \in Metas /\ meta'.generation = g /\ meta'.deleted = FALSE
  BY <1>3, <1>5 DEF Metas, Gens
<1>8. \/ y.generation = meta.generation /\ (meta.generation = 0 \/ meta.deleted)
      \/ meta.generation = g /\ ~meta.deleted
  BY <1>1, <1>3, <1>4 DEF Knows
<1>9. TypesKept
  BY DEF OpenPut, memory, bounds, TypesKept, GenInv, Types
<1>10. CASE meta.generation = g /\ ~meta.deleted
  <2>1. SameFile
    BY <1>4, <1>7, <1>10 DEF SameFile
  <2>2. Knows(w, meta)
    BY <1>5, <1>6, <1>10 DEF Knows, Handles
  <2> QED
    BY <1>3, <1>6, <1>9, <2>1, <2>2, GoesOn DEF Replacing
<1>11. CASE y.generation = meta.generation /\ (meta.generation = 0 \/ meta.deleted)
  <2>1. g = meta.generation + 1
    BY <1>1, <1>11
  <2>2. ASSUME NEW d \in Clients \ {c} PROVE Knows(client[d], meta')
    <3>1. client[d].pc \notin Replacing /\ Knows(client[d], meta) /\ client[d].generation \in Nat
      BY <1>3, Turn DEF GenInv, Types, ClientRec, Gens
    <3>2. client[d].pc # "found"
      BY <1>11, <3>1 DEF Knows
    <3>3. client[d].pc \in Handles => /\ client[d].st \in States /\ 1 <= client[d].generation
                                      /\ client[d].generation <= meta.generation /\ client[d].pc # "save"
      BY <1>4, <1>11, <3>1 DEF Knows
    <3>4. client[d].pc \in {"fresh", "revive"} => client[d].generation = meta.generation
      BY <1>4, <1>11, <3>1 DEF Knows
    <3> QED
      BY <1>4, <1>7, <2>1, <3>1, <3>2, <3>3, <3>4 DEF Knows, Replacing, Handles
  <2>3. Knows(w, meta')
    BY <1>5, <1>6, <1>7 DEF Knows, Handles
  <2>4. \A d \in Clients \ {c} : Apart(w, client[d]) /\ Apart(client[d], w)
    BY <1>3, <1>6, Turn DEF Apart, Replacing
  <2>5. Forward
    BY <1>4, <1>7, <2>1 DEF Forward
  <2> QED
    BY <1>3, <1>6, <1>7, <1>9, <2>2, <2>3, <2>4, <2>5, Goes
<1> QED
  BY <1>8, <1>10, <1>11

LEMMA JoinedRec ==
    ASSUME GenInv, NEW s \in States PROVE Joined(s) \in StateRec
<1>1. NewState \in StateRec /\ state[s] \in StateRec
  BY Grounds DEF GenInv, Types
<1>2. PICK n, x : n = NewState /\ x = state[s]
  OBVIOUS
<1>3. [n EXCEPT !.refCount = 1] \in StateRec /\ [x EXCEPT !.refCount = x.refCount + 1] \in StateRec
  BY <1>1, <1>2 DEF StateRec
<1> QED
  BY <1>2, <1>3 DEF Joined

LEMMA OpenRegisterSteps ==
    ASSUME OpensOverlap, GenInv, NEW c \in Clients, OpenRegister(c)
    PROVE  GenInv' /\ Forward
<1>1. PICK s \in States :
          /\ Registered(s)
          /\ LET g == client[c].generation
                 j == Joined(s)
             IN  state' = [state EXCEPT ![s] =
                     IF g > j.generation
                       THEN [j EXCEPT !.generation = g, !.size = client[c].size,
                                      !.dirty = {}, !.cells = Zeros, !.metaDirty = FALSE]
                       ELSE j]
          /\ Back(c, s)
  BY DEF OpenRegister
<1>2. client[c].pc = "found" /\ Free(c) /\ UNCHANGED <<meta, blocks, writes>>
  BY DEF OpenRegister, At, disk, bounds
<1>3. PICK y, g, j, n, zz : y = client[c] /\ g = y.generation /\ j = Joined(s) /\ n = y.size /\ zz = Zeros
  OBVIOUS
<1>4. PICK k : k = [j EXCEPT !.generation = g, !.size = n, !.dirty = {}, !.cells = zz, !.metaDirty = FALSE]
  OBVIOUS
<1>5. y \in ClientRec /\ Knows(y, meta)
  BY <1>3 DEF GenInv, Types
<1>6. g \in Gens /\ n \in Sizes /\ j \in StateRec /\ zz \in Rows
  BY <1>3, <1>5, JoinedRec, Grounds DEF ClientRec
<1>7. k \in StateRec
  BY <1>4, <1>6 DEF StateRec
<1>8. state' \in [States -> StateRec]
  <2>1. state' = [state EXCEPT ![s] = IF g > j.generation THEN k ELSE j]
    BY <1>1, <1>3, <1>4
  <2> QED
    BY <1>6, <1>7, <2>1 DEF GenInv, Types
<1>9. TypesKept /\ SameFile
  BY <1>1, <1>2, <1>8, Untouched DEF TypesKept, Registered, GenInv, Types
<1>10. PICK o : o = Outside
  OBVIOUS
<1>11. PICK w : w = [o EXCEPT !.pc = "idle", !.st = s, !.generation = g]
  OBVIOUS
<1>12. client' = [client EXCEPT ![c] = w]
  BY <1>1, <1>3, <1>10, <1>11 DEF Back
<1>13. o \in ClientRec /\ "idle" \in Pcs
  BY <1>10, Grounds DEF Pcs, Handles
<1>14. w \in ClientRec /\ w.pc = "idle" /\ w.st = s /\ w.generation = g
  BY <1>6, <1>11, <1>13 DEF ClientRec
<1>15. Knows(w, meta)
  <2>1. 1 <= g /\ g = meta.generation /\ ~meta.deleted /\ meta.generation \in Nat
    BY <1>2, <1>3, <1>5 DEF Knows, GenInv, Types, Metas
  <2> QED
    BY <1>14, <2>1 DEF Knows
<1> QED
  BY <1>2, <1>9, <1>12, <1>14, <1>15, GoesOn DEF Replacing

LEMMA OpenFailsSteps ==
    ASSUME OpensOverlap, GenInv, NEW c \in Clients, OpenFails(c)
    PROVE  GenInv' /\ Forward
<1>1. Outside \in ClientRec /\ Outside.pc = "none" /\ Knows(Outside, meta)
  BY Grounds DEF Knows, Handles
<1>2. TypesKept /\ SameFile /\ Free(c) /\ client' = [client EXCEPT ![c] = Outside]
  BY Untouched DEF OpenFails, Fail, disk, memory, TypesKept, GenInv, Types
<1> QED
  BY <1>1, <1>2, GoesOn DEF Replacing

-----------------------------------------------------------------------------
(* Calls on a handle.                                                      *)

\* A handle goes from a position of its calls to another.
LEMMA Works ==
    ASSUME OpensOverlap, GenInv, NEW c \in Clients, Free(c), client[c].pc \in Handles,
           NEW w \in ClientRec, client' = [client EXCEPT ![c] = w],
           w.pc \in Handles \ {"save"}, w.st = client[c].st, w.generation = client[c].generation,
           TypesKept, SameFile
    PROVE  GenInv' /\ Forward
<1>1. Knows(w, meta)
  BY AtHandle DEF Knows, Handles
<1> QED
  BY <1>1, GoesOn DEF Handles, Replacing

\* A state changes.
LEMMA StateSet ==
    ASSUME GenInv, NEW s \in States, NEW z \in StateRec, state' = [state EXCEPT ![s] = z]
    PROVE  state' \in [States -> StateRec] /\ state'[s] = z
BY DEF GenInv, Types

\* The handle starts a flush.
LEMMA FlushStarts ==
    ASSUME OpensOverlap, GenInv, NEW c \in Clients, Free(c), client[c].pc = "idle", NEW a \in {"return", "sync"},
           StartFlush(c, client[c].st, a), TypesKept, SameFile
    PROVE  GenInv' /\ Forward
<1>1. PICK y, D : y = client[c] /\ D = state'[client[c].st].dirty
  OBVIOUS
<1>2. PICK w : w = [y EXCEPT !.pc = "flush", !.todo = D, !.after = a]
  OBVIOUS
<1>3. y \in ClientRec /\ y.st \in States
  BY <1>1, AtHandle DEF Handles
<1>4. D \in SUBSET Blocks
  BY <1>1, <1>3 DEF TypesKept, StateRec
<1>5. client' = [client EXCEPT ![c] = w]
  BY <1>1, <1>2 DEF StartFlush, GenInv, Types
<1>6. w \in ClientRec /\ w.pc = "flush" /\ w.st = y.st /\ w.generation = y.generation
  BY <1>2, <1>3, <1>4 DEF ClientRec, Pcs, Handles
<1> QED
  BY <1>1, <1>5, <1>6, Works DEF Handles

\* The handle comes to the barrier of Sync.
LEMMA Barred ==
    ASSUME OpensOverlap, GenInv, NEW c \in Clients, Free(c), client[c].pc \in Handles,
           Move(c, "barrier"), TypesKept, SameFile
    PROVE  GenInv' /\ Forward
<1>1. PICK y : y = client[c]
  OBVIOUS
<1>2. PICK w : w = [y EXCEPT !.pc = "barrier"]
  OBVIOUS
<1>3. y \in ClientRec
  BY <1>1, AtHandle
<1>4. client' = [client EXCEPT ![c] = w]
  BY <1>1, <1>2 DEF Move, GenInv, Types
<1>5. w \in ClientRec /\ w.pc = "barrier" /\ w.st = y.st /\ w.generation = y.generation
  BY <1>2, <1>3 DEF ClientRec, Pcs, Handles
<1> QED
  BY <1>1, <1>4, <1>5, Works DEF Handles

LEMMA WriteSteps ==
    ASSUME OpensOverlap, GenInv, NEW c \in Clients, NEW a \in Cells, NEW b \in Cells, Write(c, a, b)
    PROVE  GenInv' /\ Forward
<1>1. PICK y, s, bs : y = client[c] /\ s = y.st /\ bs = {x \div BlockSize : x \in a .. b}
  OBVIOUS
<1>2. y.pc = "idle" /\ Free(c) /\ UNCHANGED <<meta, blocks, registry>> /\ writes' = writes + 1
  BY <1>1 DEF Write, Enter, Valid, disk
<1>3. y \in ClientRec /\ s \in States /\ state[s] \in StateRec /\ y.generation \in 1 .. MaxGen
  BY <1>1, <1>2, AtHandle DEF Handles
<1>4. a .. b \subseteq Cells /\ bs \in SUBSET Blocks
  <2>1. a .. b \subseteq Cells
    BY VFSFileAssumption DEF Cells
  <2> QED
    BY <1>1, <2>1 DEF Blocks
<1>5. PICK st, n, K, m : /\ st = Loaded(state[s], y.generation, bs) /\ n = Max({b + 1, st.size})
                         /\ K = [x \in Cells |-> IF x \in a .. b THEN writes + 1 ELSE st.cells[x]]
                         /\ m = (st.metaDirty \/ b >= st.size)
  OBVIOUS
<1>6. PICK z : z = [st EXCEPT !.cells = K, !.size = n, !.metaDirty = m]
  OBVIOUS
<1>7. state' = [state EXCEPT ![s] = z]
  BY <1>1, <1>5, <1>6 DEF Write
<1>8. st \in StateRec
  BY <1>3, <1>4, <1>5, LoadedRec DEF GenInv
<1>9. n \in Sizes
  <2>1. b + 1 \in Sizes /\ st.size \in Sizes
    BY <1>8, VFSFileAssumption DEF Cells, Sizes, StateRec
  <2>2. PICK S : S = {b + 1, st.size} /\ S \subseteq Sizes
    BY <2>1
  <2>3. \E x \in S : \A v \in S : x >= v
    BY <2>1, <2>2 DEF Sizes
  <2>4. Max(S) \in S
    BY <2>3 DEF Max
  <2> QED
    BY <1>5, <2>2, <2>4
<1>10. K \in Rows /\ m \in BOOLEAN
  <2>1. st.cells \in Rows /\ writes + 1 \in Nat
    BY <1>8 DEF StateRec, GenInv, Types
  <2> QED
    BY <1>5, <2>1 DEF Rows
<1>11. z \in StateRec
  BY <1>6, <1>8, <1>9, <1>10 DEF StateRec
<1>12. TypesKept /\ SameFile
  BY <1>2, <1>3, <1>7, <1>11, StateSet, Untouched DEF TypesKept, GenInv, Types
<1>13. StartFlush(c, s, "return") \/ client' = client
  BY <1>1, <1>5 DEF Write
<1>14. CASE client' = client
  <2>1. client' = [client EXCEPT ![c] = y]
    BY <1>1, <1>14 DEF GenInv, Types
  <2> QED
    BY <1>1, <1>2, <1>3, <1>12, <2>1, Works DEF Handles
<1> QED
  BY <1>1, <1>2, <1>12, <1>13, <1>14, FlushStarts

LEMMA SyncSteps ==
    ASSUME OpensOverlap, GenInv, NEW c \in Clients, Sync(c)
    PROVE  GenInv' /\ Forward
<1>1. /\ client[c].pc = "idle" /\ Free(c) /\ (StartFlush(c, client[c].st, "sync") \/ Move(c, "barrier"))
      /\ UNCHANGED <<meta, blocks, registry, state, writes>>
  BY DEF Sync, Enter, Valid, disk, bounds
<1>2. TypesKept /\ SameFile
  BY <1>1, Untouched DEF TypesKept, GenInv, Types
<1> QED
  BY <1>1, <1>2, FlushStarts, Barred DEF Handles

LEMMA CloseDirtySteps ==
    ASSUME OpensOverlap, GenInv, NEW c \in Clients, CloseDirty(c)
    PROVE  GenInv' /\ Forward
<1>1. PICK y, D : y = client[c] /\ D = state[y.st].dirty
  OBVIOUS
<1>2. PICK w : w = [y EXCEPT !.pc = "flush", !.todo = D, !.after = "close"]
  OBVIOUS
<1>3. y.pc = "idle" /\ Free(c) /\ UNCHANGED <<meta, blocks, registry, state, writes>>
  BY <1>1 DEF CloseDirty, Valid, disk, bounds
<1>4. y \in ClientRec /\ D \in SUBSET Blocks
  BY <1>1, <1>3, AtHandle DEF Handles, StateRec
<1>5. client' = [client EXCEPT ![c] = w]
  BY <1>1, <1>2 DEF CloseDirty, GenInv, Types
<1>6. w \in ClientRec /\ w.pc = "flush" /\ w.st = y.st /\ w.generation = y.generation
  BY <1>2, <1>4 DEF ClientRec, Pcs, Handles
<1>7. TypesKept /\ SameFile
  BY <1>3, Untouched DEF TypesKept, GenInv, Types
<1> QED
  BY <1>1, <1>3, <1>5, <1>6, <1>7, Works DEF Handles

\* A block of the store is written or removed.
LEMMA BlockSet ==
    ASSUME GenInv, NEW g, NEW B, NEW row \in Rows,
           blocks' = [blocks EXCEPT ![g] = [x \in Cells |-> IF x \in B THEN row[x] ELSE blocks[g][x]]]
    PROVE  blocks' \in [1 .. MaxGen -> Rows]
<1>1. blocks \in [1 .. MaxGen -> Rows]
  BY DEF GenInv, Types
<1>2. PICK r : r = [x \in Cells |-> IF x \in B THEN row[x] ELSE blocks[g][x]]
  OBVIOUS
<1>3. ASSUME g \in 1 .. MaxGen PROVE r \in Rows
  <2>1. blocks[g] \in Rows
    BY <1>1, <1>3
  <2> QED
    BY <1>2, <2>1 DEF Rows
<1>4. blocks' = [blocks EXCEPT ![g] = r]
  BY <1>2
<1> QED
  BY <1>1, <1>3, <1>4

LEMMA FlushBlockSteps ==
    ASSUME OpensOverlap, GenInv, NEW c \in Clients, NEW b \in Blocks, FlushBlock(c, b)
    PROVE  GenInv' /\ Forward
<1>1. PICK y, D, row : y = client[c] /\ D = y.todo \ {b} /\ row = state[y.st].cells
  OBVIOUS
<1>2. PICK w : w = [y EXCEPT !.todo = D]
  OBVIOUS
<1>3. y.pc = "flush" /\ Free(c) /\ UNCHANGED <<meta, registry, state, writes>>
  BY <1>1 DEF FlushBlock, At, memory, bounds
<1>4. y \in ClientRec /\ D \in SUBSET Blocks /\ row \in Rows
  BY <1>1, <1>3, AtHandle DEF Handles, StateRec, ClientRec
<1>5. client' = [client EXCEPT ![c] = w]
  BY <1>1, <1>2 DEF FlushBlock, GenInv, Types
<1>6. w \in ClientRec /\ w.pc = "flush" /\ w.st = y.st /\ w.generation = y.generation
  BY <1>2, <1>3, <1>4 DEF ClientRec
<1>7. blocks' \in [1 .. MaxGen -> Rows]
  <2>1. blocks' = [blocks EXCEPT ![y.generation] = [x \in Cells |-> IF x \in Of(b) THEN row[x] ELSE blocks[y.generation][x]]]
    BY <1>1 DEF FlushBlock
  <2> QED
    BY <1>4, <2>1, BlockSet
<1>8. TypesKept /\ SameFile
  BY <1>3, <1>7, Untouched DEF TypesKept, GenInv, Types
<1> QED
  BY <1>1, <1>3, <1>5, <1>6, <1>8, Works DEF Handles

LEMMA SaveCheckSteps ==
    ASSUME OpensOverlap, GenInv, NEW c \in Clients, SaveCheck(c)
    PROVE  GenInv' /\ Forward
<1>1. client[c].pc = "flush" /\ Free(c) /\ UNCHANGED <<meta, blocks, registry, state, writes>>
  BY DEF SaveCheck, At, disk, bounds
<1>2. TypesKept /\ SameFile
  BY <1>1, Untouched DEF TypesKept, GenInv, Types
<1>3. CASE Back(c, client[c].st)
  BY <1>1, <1>2, <1>3, Returns DEF Handles
<1>4. CASE ~Newer(c) /\ Move(c, "save")
  <2>1. PICK y : y = client[c]
    OBVIOUS
  <2>2. PICK w : w = [y EXCEPT !.pc = "save"]
    OBVIOUS
  <2>3. /\ y \in ClientRec /\ y.st \in States /\ y.generation \in 1 .. MaxGen /\ Knows(y, meta)
        /\ y.generation <= meta.generation /\ (meta.deleted => y.generation < meta.generation) /\ meta.generation \in Nat
    BY <1>1, <2>1, AtHandle DEF Handles, GenInv, Types, Metas
  <2>4. client' = [client EXCEPT ![c] = w]
    BY <1>4, <2>1, <2>2 DEF Move, GenInv, Types
  <2>5. w \in ClientRec /\ w.pc = "save" /\ w.st = y.st /\ w.generation = y.generation
    BY <2>2, <2>3 DEF ClientRec, Pcs, Handles
  <2>6. Knows(w, meta)
    BY <1>4, <2>1, <2>3, <2>5 DEF Knows, Newer
  <2> QED
    BY <1>1, <1>2, <2>4, <2>5, <2>6, GoesOn DEF Replacing
<1> QED
  BY <1>3, <1>4 DEF SaveCheck

\* saveMetaLocked writes the generation it found.
LEMMA SaveKeeps ==
    ASSUME GenInv, NEW c \in Clients, client[c].pc \in Handles, meta.generation <= client[c].generation,
           NEW n \in Sizes, meta' = [size |-> n, generation |-> client[c].generation, deleted |-> FALSE]
    PROVE  SameFile
<1>1. /\ client[c].generation \in 1 .. MaxGen /\ client[c].generation <= meta.generation
      /\ (meta.deleted => client[c].generation < meta.generation)
      /\ meta.generation \in Nat /\ meta.deleted \in BOOLEAN
  BY AtHandle DEF GenInv, Types, Metas
<1>2. meta.generation = client[c].generation /\ meta.deleted = FALSE
  BY <1>1
<1>3. meta' \in Metas
  BY <1>1 DEF Metas
<1> QED
  BY <1>2, <1>3 DEF SameFile

\* What a flush leaves, and a handle.
LEMMA CleanRec ==
    ASSUME NEW st \in StateRec PROVE Clean(st) \in StateRec
<1>1. PICK k : k = Zeros /\ k \in Rows
  BY Grounds
<1> QED
  BY <1>1 DEF Clean, StateRec

LEMMA LeftRec ==
    ASSUME NEW st \in StateRec PROVE Left(st) \in StateRec
<1>1. PICK n : n = st.refCount - 1 /\ n \in Int
  BY DEF StateRec
<1>2. [st EXCEPT !.refCount = n] \in StateRec
  BY <1>1 DEF StateRec
<1> QED
  BY <1>1, <1>2, Grounds DEF Left

LEMMA ReleasedRec ==
    ASSUME GenInv, NEW s \in States, NEW st \in StateRec, Released(s, st)
    PROVE  registry' \in States \cup {None} /\ state' \in [States -> StateRec]
<1>1. Left(st) \in StateRec /\ state' = [state EXCEPT ![s] = Left(st)]
  BY LeftRec DEF Released
<1>2. state' \in [States -> StateRec]
  BY <1>1, StateSet
<1> QED
  BY <1>2 DEF Released, GenInv, Types

LEMMA SavePutSteps ==
    ASSUME OpensOverlap, GenInv, NEW c \in Clients, SavePut(c)
    PROVE  GenInv' /\ Forward
<1>1. PICK s, x : s = client[c].st /\ x = state[s]
  OBVIOUS
<1>2. /\ client[c].pc = "save" /\ Free(c) /\ (Back(c, client[c].st) \/ Move(c, "barrier"))
      /\ UNCHANGED <<blocks, registry, writes>>
      /\ meta' = [size |-> x.size, generation |-> client[c].generation, deleted |-> FALSE]
      /\ state' = [state EXCEPT ![s] = Clean(x)]
  BY <1>1 DEF SavePut, At, bounds
<1>3. /\ s \in States /\ x \in StateRec /\ x.size \in Sizes
      /\ meta.generation = client[c].generation /\ meta.generation \in Nat
  BY <1>1, <1>2, AtHandle DEF Handles, StateRec, Knows, GenInv, Types, Metas
<1>4. Clean(x) \in StateRec
  BY <1>3, CleanRec
<1>5. state' \in [States -> StateRec]
  BY <1>2, <1>3, <1>4, StateSet
<1>6. TypesKept
  BY <1>2, <1>5 DEF TypesKept, GenInv, Types
<1>7. SameFile
  BY <1>2, <1>3, SaveKeeps DEF Handles
<1> QED
  BY <1>2, <1>6, <1>7, Returns, Barred DEF Handles

LEMMA BarrierSteps ==
    ASSUME OpensOverlap, GenInv, NEW c \in Clients, Barrier(c)
    PROVE  GenInv' /\ Forward
<1>1. /\ client[c].pc = "barrier" /\ Free(c) /\ Back(c, client[c].st)
      /\ UNCHANGED <<meta, blocks, registry, state, writes>>
  BY DEF Barrier, At, disk, bounds
<1>2. TypesKept /\ SameFile
  BY <1>1, Untouched DEF TypesKept, GenInv, Types
<1> QED
  BY <1>1, <1>2, Returns DEF Handles

LEMMA SaveCloseSteps ==
    ASSUME OpensOverlap, GenInv, NEW c \in Clients, SaveClose(c)
    PROVE  GenInv' /\ Forward
<1>1. PICK s, x : s = client[c].st /\ x = state[s]
  OBVIOUS
<1>2. /\ client[c].pc = "save" /\ Free(c) /\ client' = [client EXCEPT ![c] = Outside] /\ UNCHANGED <<blocks, writes>>
      /\ meta' = [size |-> x.size, generation |-> client[c].generation, deleted |-> FALSE]
      /\ Released(s, Clean(x))
  BY <1>1 DEF SaveClose, At, bounds
<1>3. /\ s \in States /\ x \in StateRec /\ x.size \in Sizes
      /\ meta.generation = client[c].generation /\ meta.generation \in Nat
  BY <1>1, <1>2, AtHandle DEF Handles, StateRec, Knows, GenInv, Types, Metas
<1>4. Clean(x) \in StateRec
  BY <1>3, CleanRec
<1>5. registry' \in States \cup {None} /\ state' \in [States -> StateRec]
  BY <1>2, <1>3, <1>4, ReleasedRec
<1>6. TypesKept
  BY <1>2, <1>5 DEF TypesKept, GenInv, Types
<1>7. SameFile
  BY <1>2, <1>3, SaveKeeps DEF Handles
<1>8. Outside \in ClientRec /\ Outside.pc = "none" /\ Knows(Outside, meta)
  BY Grounds DEF Knows, Handles
<1> QED
  BY <1>2, <1>6, <1>7, <1>8, GoesOn DEF Replacing

LEMMA CloseCleanSteps ==
    ASSUME OpensOverlap, GenInv, NEW c \in Clients, CloseClean(c)
    PROVE  GenInv' /\ Forward
<1>1. /\ client[c].pc = "idle" /\ Free(c) /\ client' = [client EXCEPT ![c] = Outside]
      /\ Released(client[c].st, state[client[c].st]) /\ UNCHANGED <<meta, blocks, writes>>
  BY DEF CloseClean, At, disk, bounds
<1>2. client[c].st \in States /\ state[client[c].st] \in StateRec
  BY <1>1, AtHandle DEF Handles
<1>3. TypesKept /\ SameFile
  BY <1>1, <1>2, ReleasedRec, Untouched DEF TypesKept, GenInv, Types
<1>4. Outside \in ClientRec /\ Outside.pc = "none" /\ Knows(Outside, meta)
  BY Grounds DEF Knows, Handles
<1> QED
  BY <1>1, <1>3, <1>4, GoesOn DEF Replacing

LEMMA TruncateSteps ==
    ASSUME OpensOverlap, GenInv, NEW c \in Clients, NEW size \in Sizes, Truncate(c, size)
    PROVE  GenInv' /\ Forward
<1>1. PICK y, s, x, D : /\ y = client[c] /\ s = y.st /\ x = state[s]
                        /\ D = {b \in Blocks : b >= numBlocks(size) /\ b < numBlocks(x.size)}
  OBVIOUS
<1>2. PICK w, z : /\ w = [y EXCEPT !.pc = "truncate", !.size = size, !.todo = D]
                  /\ z = IF size < x.size THEN Cut(x, y.generation, size) ELSE x
  OBVIOUS
<1>3. y.pc = "idle" /\ Free(c) /\ UNCHANGED <<meta, blocks, registry>> /\ writes' = writes + 1
  BY <1>1 DEF Truncate, Enter, Valid, disk
<1>4. y \in ClientRec /\ s \in States /\ x \in StateRec /\ y.generation \in 1 .. MaxGen /\ D \in SUBSET Blocks
  BY <1>1, <1>3, AtHandle DEF Handles
<1>5. state' = [state EXCEPT ![s] = z]
  BY <1>1, <1>2 DEF Truncate
<1>6. z \in StateRec
  BY <1>2, <1>4, CutRec DEF GenInv
<1>7. client' = [client EXCEPT ![c] = w]
  BY <1>1, <1>2 DEF Truncate, GenInv, Types
<1>8. w \in ClientRec /\ w.pc = "truncate" /\ w.st = y.st /\ w.generation = y.generation
  BY <1>2, <1>4 DEF ClientRec, Pcs, Handles
<1>9. TypesKept /\ SameFile
  BY <1>3, <1>4, <1>5, <1>6, StateSet, Untouched DEF TypesKept, GenInv, Types
<1> QED
  BY <1>1, <1>3, <1>7, <1>8, <1>9, Works DEF Handles

\* A block is removed from the store.
LEMMA BlockErased ==
    ASSUME GenInv, NEW g, NEW b, Erase(g, b)
    PROVE  blocks' \in [1 .. MaxGen -> Rows]
<1>1. blocks \in [1 .. MaxGen -> Rows]
  BY DEF GenInv, Types
<1>2. PICK r : r = [x \in Cells |-> IF x \in Of(b) THEN 0 ELSE blocks[g][x]]
  OBVIOUS
<1>3. ASSUME g \in 1 .. MaxGen PROVE r \in Rows
  <2>1. blocks[g] \in Rows
    BY <1>1, <1>3
  <2> QED
    BY <1>2, <2>1 DEF Rows
<1>4. blocks' = [blocks EXCEPT ![g] = r]
  BY <1>2 DEF Erase
<1> QED
  BY <1>1, <1>3, <1>4

LEMMA TruncateBlockSteps ==
    ASSUME OpensOverlap, GenInv, NEW c \in Clients, TruncateBlock(c)
    PROVE  GenInv' /\ Forward
<1>0. PICK b \in client[c].todo : NextBlock(c, b) /\ Erase(client[c].generation, b)
  BY DEF TruncateBlock
<1>1. PICK y, D : y = client[c] /\ D = y.todo \ {b}
  OBVIOUS
<1>2. PICK w : w = [y EXCEPT !.todo = D]
  OBVIOUS
<1>3. y.pc = "truncate" /\ Free(c) /\ UNCHANGED <<meta, registry, state, writes>>
  BY <1>1 DEF TruncateBlock, At, memory, bounds
<1>4. y \in ClientRec /\ D \in SUBSET Blocks
  BY <1>1, <1>3, AtHandle DEF Handles, ClientRec
<1>5. client' = [client EXCEPT ![c] = w]
  BY <1>0, <1>1, <1>2 DEF NextBlock, GenInv, Types
<1>6. w \in ClientRec /\ w.pc = "truncate" /\ w.st = y.st /\ w.generation = y.generation
  BY <1>2, <1>3, <1>4 DEF ClientRec
<1>7. blocks' \in [1 .. MaxGen -> Rows]
  BY <1>0, BlockErased
<1>8. TypesKept /\ SameFile
  BY <1>3, <1>7, Untouched DEF TypesKept, GenInv, Types
<1> QED
  BY <1>1, <1>3, <1>5, <1>6, <1>8, Works DEF Handles

\* The size of a truncation reaches the state.
LEMMA SizeSet ==
    ASSUME GenInv, NEW c \in Clients, client[c].pc \in Handles, NEW m \in BOOLEAN,
           state' = [state EXCEPT ![client[c].st].size = client[c].size, ![client[c].st].metaDirty = m]
    PROVE  state' \in [States -> StateRec]
<1>1. PICK s, x, n : s = client[c].st /\ x = state[s] /\ n = client[c].size
  OBVIOUS
<1>2. PICK z : z = [x EXCEPT !.size = n, !.metaDirty = m]
  OBVIOUS
<1>3. s \in States /\ x \in StateRec /\ n \in Sizes
  BY <1>1, AtHandle DEF ClientRec
<1>4. z \in StateRec
  BY <1>2, <1>3 DEF StateRec
<1>5. state' = [state EXCEPT ![s] = z]
  BY <1>1, <1>2, <1>3 DEF GenInv, Types
<1> QED
  BY <1>3, <1>4, <1>5, StateSet

LEMMA TruncateMetaSteps ==
    ASSUME OpensOverlap, GenInv, NEW c \in Clients, TruncateMeta(c)
    PROVE  GenInv' /\ Forward
<1>1. PICK m \in BOOLEAN : m = Newer(c)
  BY Zenon DEF Newer
<1>2. /\ client[c].pc = "truncate" /\ Free(c) /\ Back(c, client[c].st) /\ UNCHANGED <<blocks, registry, writes>>
      /\ state' = [state EXCEPT ![client[c].st].size = client[c].size, ![client[c].st].metaDirty = m]
  BY <1>1 DEF TruncateMeta, At, bounds
<1>3. \/ UNCHANGED meta
      \/ /\ ~Newer(c)
         /\ meta' = [size |-> client[c].size, generation |-> client[c].generation, deleted |-> FALSE]
  BY DEF TruncateMeta
<1>4. state' \in [States -> StateRec]
  BY <1>2, SizeSet DEF Handles
<1>5. TypesKept
  BY <1>2, <1>4 DEF TypesKept, GenInv, Types
<1>6. SameFile
  <2>1. CASE UNCHANGED meta
    BY <2>1, Untouched
  <2>2. CASE /\ ~Newer(c)
             /\ meta' = [size |-> client[c].size, generation |-> client[c].generation, deleted |-> FALSE]
    <3>1. client[c].size \in Sizes /\ client[c].generation \in Nat /\ meta.generation \in Nat
      BY <1>2, AtHandle DEF Handles, ClientRec, Gens, GenInv, Types, Metas
    <3>2. meta.generation <= client[c].generation
      BY <2>2, <3>1 DEF Newer
    <3> QED
      BY <1>2, <2>2, <3>1, <3>2, SaveKeeps DEF Handles
  <2> QED
    BY <1>3, <2>1, <2>2
<1> QED
  BY <1>2, <1>5, <1>6, Returns DEF Handles

LEMMA FlushFailsSteps ==
    ASSUME OpensOverlap, GenInv, NEW c \in Clients, FlushFails(c)
    PROVE  GenInv' /\ Forward
<1>1. /\ client[c].pc \in {"flush", "save", "barrier"} /\ Free(c) /\ Back(c, client[c].st)
      /\ UNCHANGED <<meta, blocks, registry, state, writes>>
  BY DEF FlushFails, Fail, disk
<1>2. TypesKept /\ SameFile
  BY <1>1, Untouched DEF TypesKept, GenInv, Types
<1> QED
  BY <1>1, <1>2, Returns DEF Handles

LEMMA TruncateFailsSteps ==
    ASSUME OpensOverlap, GenInv, NEW c \in Clients, TruncateFails(c) \/ TruncateStops(c)
    PROVE  GenInv' /\ Forward
<1>1. /\ client[c].pc = "truncate" /\ Free(c) /\ Back(c, client[c].st) /\ UNCHANGED <<meta, blocks, registry, writes>>
      /\ \/ state' = [state EXCEPT ![client[c].st].size = client[c].size, ![client[c].st].metaDirty = TRUE]
         \/ UNCHANGED state
  BY DEF TruncateFails, TruncateStops, Fail, disk
<1>2. state' \in [States -> StateRec]
  BY <1>1, SizeSet DEF Handles, GenInv, Types
<1>3. TypesKept /\ SameFile
  BY <1>1, <1>2, Untouched DEF TypesKept, GenInv, Types
<1> QED
  BY <1>1, <1>3, Returns DEF Handles

-----------------------------------------------------------------------------
(* Deletions and creations: nothing runs beside them.                      *)

LEMMA Beside ==
    ASSUME GenInv, NEW c \in Clients, client[c].pc \in Replacing
    PROVE  \A d \in Clients \ {c} : client[d].pc \in {"none", "idle"} /\ Knows(client[d], meta)
BY DEF GenInv, Apart

\* What the others know does not change when the generation grows.
LEMMA KnowsNewer ==
    ASSUME GenInv, NEW d \in Clients, client[d].pc \in {"none", "idle"}, meta' \in Metas,
           meta'.generation > meta.generation
    PROVE  Knows(client[d], meta')
<1>1. Knows(client[d], meta) /\ client[d] \in ClientRec /\ meta.generation \in Nat /\ meta'.generation \in Nat
  BY DEF GenInv, Types, Metas
<1>2. client[d].generation \in Nat
  BY <1>1 DEF ClientRec, Gens
<1> QED
  BY <1>1, <1>2 DEF Knows, Handles

LEMMA AloneQuiet ==
    ASSUME OpensOverlap, NEW c \in Clients, NEW kind \in {"delete", "create"}, Alone(c, kind)
    PROVE  \A d \in Clients \ {c} : client[d].pc \in {"none", "idle"}
BY DEF OpensOverlap, Alone

LEMMA DeleteStartSteps ==
    ASSUME OpensOverlap, GenInv, NEW c \in Clients, DeleteStart(c)
    PROVE  GenInv' /\ Forward
<1>1. PICK o, g, r, D : /\ o = Outside /\ g = meta.generation /\ r = registry
                        /\ D = {b \in Blocks : b < numBlocks(meta.size)}
  OBVIOUS
<1>2. PICK w : w = [o EXCEPT !.pc = "purge", !.st = r, !.generation = g, !.todo = D]
  OBVIOUS
<1>3. /\ Free(c) /\ Alone(c, "delete") /\ g \in 1 .. (MaxGen - 1)
      /\ UNCHANGED <<meta, blocks, registry, state, writes>>
      /\ client' = [client EXCEPT ![c] = w]
  BY <1>1, <1>2 DEF DeleteStart, At, disk, bounds
<1>4. o \in ClientRec /\ r \in States \cup {None} /\ g \in Gens /\ D \in SUBSET Blocks /\ "purge" \in Pcs
  BY <1>1, Grounds DEF GenInv, Types, Metas, Gens, Pcs, Replacing
<1>5. w \in ClientRec /\ w.pc = "purge" /\ w.generation = g
  BY <1>2, <1>4 DEF ClientRec
<1>6. 1 <= g /\ g < MaxGen
  BY <1>3, VFSFileAssumption
<1>7. Knows(w, meta)
  BY <1>1, <1>5, <1>6 DEF Knows, Handles
<1>8. TypesKept /\ SameFile
  BY <1>3, Untouched DEF TypesKept, GenInv, Types
<1>9. meta' \in Metas /\ Knows(w, meta')
  BY <1>7, <1>8, Stays DEF SameFile
<1>10. \A d \in Clients \ {c} : client[d].pc \in {"none", "idle"} /\ Knows(client[d], meta')
  BY <1>3, <1>8, AloneQuiet, Stays DEF GenInv
<1> QED
  BY <1>3, <1>5, <1>8, <1>9, <1>10, Replaces, Stays

\* A block of an old generation is removed.
LEMMA PurgeSteps ==
    ASSUME OpensOverlap, GenInv, NEW c \in Clients, PurgeBlock(c) \/ CreatePurgeBlock(c)
    PROVE  GenInv' /\ Forward
<1>0. PICK b \in client[c].todo : NextBlock(c, b) /\ \E g : Erase(g, b)
  BY DEF PurgeBlock, CreatePurgeBlock
<1>1. PICK y, D : y = client[c] /\ D = y.todo \ {b}
  OBVIOUS
<1>2. PICK w : w = [y EXCEPT !.todo = D]
  OBVIOUS
<1>3. y.pc \in {"purge", "createPurge"} /\ Free(c) /\ UNCHANGED <<meta, registry, state, writes>>
  BY <1>1 DEF PurgeBlock, CreatePurgeBlock, At, memory, bounds
<1>4. y \in ClientRec /\ D \in SUBSET Blocks /\ Knows(y, meta)
  BY <1>1 DEF GenInv, Types, ClientRec
<1>5. client' = [client EXCEPT ![c] = w]
  BY <1>0, <1>1, <1>2 DEF NextBlock, GenInv, Types
<1>6. w \in ClientRec /\ w.pc = y.pc /\ w.st = y.st /\ w.generation = y.generation
  BY <1>2, <1>3, <1>4 DEF ClientRec
<1>7. blocks' \in [1 .. MaxGen -> Rows]
  BY <1>0, BlockErased
<1>8. TypesKept /\ SameFile
  BY <1>3, <1>7, Untouched DEF TypesKept, GenInv, Types
<1>9. Knows(w, meta)
  BY <1>4, <1>6 DEF Knows
<1>10. meta' \in Metas /\ Knows(w, meta')
  BY <1>8, <1>9, Stays DEF SameFile
<1>11. \A d \in Clients \ {c} : client[d].pc \in {"none", "idle"} /\ Knows(client[d], meta')
  BY <1>1, <1>3, <1>8, Beside, Stays DEF Replacing
<1> QED
  BY <1>3, <1>5, <1>6, <1>8, <1>10, <1>11, Replaces, Stays

\* The state of the file takes a new generation.
LEMMA RebornRec ==
    ASSUME NEW st \in StateRec, NEW g \in Gens PROVE Reborn(st, g) \in StateRec
<1>1. PICK k : k = Zeros /\ k \in Rows /\ 0 \in Sizes
  BY Grounds
<1> QED
  BY <1>1 DEF Reborn, StateRec

LEMMA TombstoneSteps ==
    ASSUME OpensOverlap, GenInv, NEW c \in Clients, Tombstone(c)
    PROVE  GenInv' /\ Forward
<1>1. PICK y, s, g : y = client[c] /\ s = y.st /\ g = y.generation + 1
  OBVIOUS
<1>2. /\ y.pc = "purge" /\ Free(c) /\ UNCHANGED <<blocks, registry, writes>>
      /\ meta' = [size |-> 0, generation |-> g, deleted |-> TRUE]
      /\ state' = IF s = None THEN state ELSE [state EXCEPT ![s] = Reborn(state[s], g)]
      /\ client' = [client EXCEPT ![c] = Outside]
  BY <1>1 DEF Tombstone, DeletedGeneration, At, bounds
<1>3. y \in ClientRec /\ Knows(y, meta) /\ meta.generation \in Nat
  BY <1>1 DEF GenInv, Types, Metas
<1>4. y.generation = meta.generation /\ y.generation < MaxGen /\ s \in States \cup {None}
  BY <1>1, <1>2, <1>3 DEF Knows, ClientRec
<1>5. g \in Gens /\ g > meta.generation
  BY <1>1, <1>3, <1>4, VFSFileAssumption DEF Gens
<1>6. meta' \in Metas /\ meta'.generation = g
  BY <1>2, <1>5, Grounds DEF Metas, Gens
<1>7. state' \in [States -> StateRec]
  <2>1. CASE s = None
    BY <1>2, <2>1 DEF GenInv, Types
  <2>2. CASE s # None
    <3>1. s \in States /\ state[s] \in StateRec
      BY <1>4, <2>2 DEF GenInv, Types
    <3>2. Reborn(state[s], g) \in StateRec
      BY <1>5, <3>1, RebornRec
    <3> QED
      BY <1>2, <2>2, <3>1, <3>2, StateSet
  <2> QED
    BY <2>1, <2>2
<1>8. TypesKept
  BY <1>2, <1>7 DEF TypesKept, GenInv, Types
<1>9. \A d \in Clients \ {c} : client[d].pc \in {"none", "idle"} /\ Knows(client[d], meta')
  BY <1>1, <1>2, <1>5, <1>6, Beside, KnowsNewer DEF Replacing
<1>10. Outside \in ClientRec /\ Knows(Outside, meta')
  BY Grounds DEF Knows, Handles
<1>11. Forward
  BY <1>3, <1>5, <1>6 DEF Forward, Gens
<1> QED
  BY <1>2, <1>6, <1>8, <1>9, <1>10, <1>11, Replaces

LEMMA CreateStartSteps ==
    ASSUME OpensOverlap, GenInv, NEW c \in Clients, CreateStart(c)
    PROVE  GenInv' /\ Forward
<1>1. PICK s \in States :
          /\ Registered(s)
          /\ state' = [state EXCEPT ![s] = Joined(s)]
          /\ LET g == Max({meta.generation, Joined(s).generation}) + 1
             IN  /\ g <= MaxGen
                 /\ client' = [client EXCEPT ![c] =
                       [Outside EXCEPT !.pc = "creating", !.st = s, !.generation = g,
                                       !.seen = meta.generation,
                                       !.todo = {b \in Blocks : b < numBlocks(meta.size)}]]
  BY DEF CreateStart
<1>2. PICK o, g, m, j, D : /\ o = Outside /\ m = meta.generation /\ j = Joined(s)
                           /\ g = Max({m, j.generation}) + 1
                           /\ D = {b \in Blocks : b < numBlocks(meta.size)}
  OBVIOUS
<1>3. PICK w : w = [o EXCEPT !.pc = "creating", !.st = s, !.generation = g, !.seen = m, !.todo = D]
  OBVIOUS
<1>4. /\ Free(c) /\ Alone(c, "create") /\ UNCHANGED <<meta, blocks, writes>>
      /\ g <= MaxGen /\ client' = [client EXCEPT ![c] = w]
  BY <1>1, <1>2, <1>3 DEF CreateStart, At, disk, bounds
<1>5. j \in StateRec /\ m \in Nat /\ m \in Gens /\ j.generation \in Nat
  BY <1>2, JoinedRec DEF StateRec, Gens, GenInv, Types, Metas
<1>6. g \in Nat /\ g > m
  <2>1. PICK S : S = {m, j.generation} /\ S \subseteq Nat
    BY <1>5
  <2>2. \E x \in S : \A v \in S : x >= v
    BY <1>5, <2>1
  <2>3. Max(S) \in S /\ Max(S) >= m
    BY <2>1, <2>2 DEF Max
  <2> QED
    BY <1>2, <1>5, <2>1, <2>3
<1>7. o \in ClientRec /\ g \in Gens /\ D \in SUBSET Blocks /\ "creating" \in Pcs
  BY <1>2, <1>4, <1>6, Grounds, VFSFileAssumption DEF Gens, Pcs, Replacing
<1>8. w \in ClientRec /\ w.pc = "creating" /\ w.st = s /\ w.generation = g
  BY <1>3, <1>5, <1>7 DEF ClientRec
<1>9. Knows(w, meta)
  BY <1>2, <1>6, <1>8 DEF Knows, Handles
<1>10. TypesKept /\ SameFile
  BY <1>1, <1>2, <1>4, <1>5, StateSet, Untouched DEF TypesKept, Registered, GenInv, Types
<1>11. meta' \in Metas /\ Knows(w, meta')
  BY <1>9, <1>10, Stays DEF SameFile
<1>12. \A d \in Clients \ {c} : client[d].pc \in {"none", "idle"} /\ Knows(client[d], meta')
  BY <1>4, <1>10, AloneQuiet, Stays DEF GenInv
<1> QED
  BY <1>4, <1>8, <1>10, <1>11, <1>12, Replaces, Stays

LEMMA CreatePutSteps ==
    ASSUME OpensOverlap, GenInv, NEW c \in Clients, CreatePut(c)
    PROVE  GenInv' /\ Forward
<1>1. PICK y : y = client[c]
  OBVIOUS
<1>2. PICK w : w = [y EXCEPT !.pc = "createPurge"]
  OBVIOUS
<1>3. /\ y.pc = "creating" /\ Free(c) /\ UNCHANGED <<blocks, registry, state, writes>>
      /\ meta' = [size |-> 0, generation |-> y.generation, deleted |-> FALSE]
      /\ client' = [client EXCEPT ![c] = w]
  BY <1>1, <1>2 DEF CreatePut, Move, At, memory, bounds, GenInv, Types
<1>4. y \in ClientRec /\ Knows(y, meta) /\ meta.generation \in Nat
  BY <1>1 DEF GenInv, Types, Metas
<1>5. y.st \in States /\ y.generation > meta.generation /\ y.generation \in Gens /\ y.generation \in Nat
  BY <1>3, <1>4 DEF Knows, ClientRec, Gens
<1>6. meta' \in Metas /\ meta'.generation = y.generation /\ meta'.deleted = FALSE
  BY <1>3, <1>5, Grounds DEF Metas, Gens
<1>7. w \in ClientRec /\ w.pc = "createPurge" /\ w.st = y.st /\ w.generation = y.generation
  BY <1>2, <1>4 DEF ClientRec, Pcs, Replacing
<1>8. Knows(w, meta')
  BY <1>4, <1>5, <1>6, <1>7 DEF Knows, Handles
<1>9. \A d \in Clients \ {c} : client[d].pc \in {"none", "idle"} /\ Knows(client[d], meta')
  BY <1>1, <1>3, <1>5, <1>6, Beside, KnowsNewer DEF Replacing
<1>10. TypesKept
  BY <1>3 DEF TypesKept, GenInv, Types
<1>11. Forward
  BY <1>4, <1>5, <1>6 DEF Forward
<1> QED
  BY <1>3, <1>6, <1>7, <1>8, <1>9, <1>10, <1>11, Replaces

LEMMA CreateDoneSteps ==
    ASSUME OpensOverlap, GenInv, NEW c \in Clients, CreateDone(c)
    PROVE  GenInv' /\ Forward
<1>1. PICK y, o, s, g : y = client[c] /\ o = Outside /\ s = y.st /\ g = y.generation
  OBVIOUS
<1>2. PICK w : w = [o EXCEPT !.pc = "idle", !.st = s, !.generation = g]
  OBVIOUS
<1>3. /\ y.pc = "createPurge" /\ Free(c) /\ UNCHANGED <<meta, blocks, registry, writes>>
      /\ state' = [state EXCEPT ![s] = Reborn(state[s], g)]
      /\ client' = [client EXCEPT ![c] = w]
  BY <1>1, <1>2 DEF CreateDone, Back, At, disk, bounds
<1>4. y \in ClientRec /\ Knows(y, meta) /\ meta.generation \in Nat
  BY <1>1 DEF GenInv, Types, Metas
<1>5. s \in States /\ 1 <= g /\ g = meta.generation /\ ~meta.deleted /\ g \in Gens /\ state[s] \in StateRec
  BY <1>1, <1>3, <1>4 DEF Knows, ClientRec, GenInv, Types
<1>6. o \in ClientRec /\ "idle" \in Pcs
  BY <1>1, Grounds DEF Pcs, Handles
<1>7. w \in ClientRec /\ w.pc = "idle" /\ w.st = s /\ w.generation = g
  BY <1>2, <1>5, <1>6 DEF ClientRec
<1>8. Knows(w, meta)
  BY <1>4, <1>5, <1>7 DEF Knows
<1>9. Reborn(state[s], g) \in StateRec
  BY <1>5, RebornRec
<1>10. TypesKept /\ SameFile
  BY <1>3, <1>5, <1>9, StateSet, Untouched DEF TypesKept, GenInv, Types
<1> QED
  BY <1>3, <1>7, <1>8, <1>10, GoesOn DEF Replacing

LEMMA CreateFailsSteps ==
    ASSUME OpensOverlap, GenInv, NEW c \in Clients, CreateFails(c)
    PROVE  GenInv' /\ Forward
<1>1. /\ client[c].pc \in {"creating", "createPurge"} /\ Free(c) /\ client' = [client EXCEPT ![c] = Outside]
      /\ Released(client[c].st, state[client[c].st]) /\ UNCHANGED <<meta, blocks, writes>>
  BY DEF CreateFails, Fail, disk
<1>2. client[c].st \in States /\ state[client[c].st] \in StateRec
  BY <1>1 DEF Knows, GenInv, Types
<1>3. TypesKept /\ SameFile
  BY <1>1, <1>2, ReleasedRec, Untouched DEF TypesKept, GenInv, Types
<1>4. Outside \in ClientRec /\ Outside.pc = "none" /\ Knows(Outside, meta)
  BY Grounds DEF Knows, Handles
<1> QED
  BY <1>1, <1>3, <1>4, GoesOn DEF Replacing

LEMMA DeleteFailsSteps ==
    ASSUME OpensOverlap, GenInv, NEW c \in Clients, DeleteFails(c)
    PROVE  GenInv' /\ Forward
<1>1. Free(c) /\ client' = [client EXCEPT ![c] = Outside] /\ UNCHANGED <<meta, blocks, registry, state, writes>>
  BY DEF DeleteFails, Fail, disk
<1>2. TypesKept /\ SameFile
  BY <1>1, Untouched DEF TypesKept, GenInv, Types
<1>3. Outside \in ClientRec /\ Outside.pc = "none" /\ Knows(Outside, meta)
  BY Grounds DEF Knows, Handles
<1> QED
  BY <1>1, <1>2, <1>3, GoesOn DEF Replacing

-----------------------------------------------------------------------------
(* All steps.                                                              *)

LEMMA CrashSteps ==
    ASSUME GenInv, Durable, Crash PROVE GenInv'
<1>1. /\ meta' = kept.meta /\ blocks' = kept.blocks /\ UNCHANGED writes /\ registry' = None
      /\ state' = [s \in States |-> NewState] /\ client' = [c \in Clients |-> Outside]
  BY DEF Crash
<1>2. Types'
  BY <1>1, Grounds DEF Types, Durable, GenInv
<1>3. \A c \in Clients : client'[c].pc = "none" /\ Knows(client'[c], meta')
  BY <1>1, Grounds DEF Knows, Handles
<1>4. \A c \in Clients : \A d \in Clients \ {c} : Apart(client'[c], client'[d])
  BY <1>3 DEF Apart, Replacing
<1> QED
  BY <1>2, <1>3, <1>4 DEF GenInv

LEMMA GenInit ==
    Init => GenInv
<1> SUFFICES ASSUME Init PROVE GenInv
  OBVIOUS
<1>1. meta \in Metas
  BY Grounds DEF Init, NoFile, Metas, Gens
<1>2. blocks \in [1 .. MaxGen -> Rows]
  BY Grounds DEF Init
<1>3. Types
  BY <1>1, <1>2, Grounds DEF Init, Types
<1>4. \A c \in Clients : client[c].pc = "none" /\ Knows(client[c], meta)
  BY Grounds DEF Init, Knows, Handles
<1>5. \A c \in Clients : \A d \in Clients \ {c} : Apart(client[c], client[d])
  BY <1>4 DEF Apart, Replacing
<1> QED
  BY <1>3, <1>4, <1>5 DEF GenInv

LEMMA DurableInit ==
    Init => Durable /\ crashes \in Nat
<1> SUFFICES ASSUME Init PROVE Durable /\ crashes \in Nat
  OBVIOUS
<1>1. PICK k : k = [meta |-> meta, blocks |-> blocks]
  OBVIOUS
<1>2. kept = k /\ k.meta = meta /\ sure = 0 /\ crashes = 0 /\ meta.generation = 0
  BY <1>1 DEF Init, Store, NoFile
<1>3. k \in [meta : Metas, blocks : [1 .. MaxGen -> Rows]]
  BY <1>1, GenInit DEF GenInv, Types
<1> QED
  BY <1>2, <1>3 DEF Durable

\* No client counts stops.
LEMMA ClientCrashes ==
    ASSUME NEW c \in Clients, ClientNext(c) PROVE UNCHANGED crashes
<1>1. CASE OpenRead(c) \/ OpenPut(c) \/ OpenRegister(c) \/ OpenFails(c)
  BY <1>1 DEF OpenRead, OpenPut, OpenRegister, OpenFails, Fail, bounds
<1>2. CASE \/ \E a, b \in Cells : a <= b /\ << a, b >> \in Spans /\ Write(c, a, b)
           \/ \E size \in Sizes : Truncate(c, size)
           \/ \E b \in Blocks : FlushBlock(c, b)
  BY <1>2 DEF Write, Truncate, FlushBlock, bounds
<1>3. CASE Sync(c) \/ SaveCheck(c) \/ SavePut(c) \/ TruncateBlock(c) \/ TruncateMeta(c)
  BY <1>3 DEF Sync, SaveCheck, SavePut, TruncateBlock, TruncateMeta, bounds
<1>4. CASE CloseDirty(c) \/ SaveClose(c) \/ CloseClean(c)
  BY <1>4 DEF CloseDirty, SaveClose, CloseClean, bounds
<1>5. CASE DeleteStart(c) \/ PurgeBlock(c) \/ Tombstone(c) \/ DeleteFails(c)
  BY <1>5 DEF DeleteStart, PurgeBlock, Tombstone, DeleteFails, Fail, bounds
<1>6. CASE CreateStart(c) \/ CreatePut(c) \/ CreatePurgeBlock(c) \/ CreateDone(c) \/ CreateFails(c)
  BY <1>6 DEF CreateStart, CreatePut, CreatePurgeBlock, CreateDone, CreateFails, Fail, bounds
<1>7. CASE FlushFails(c) \/ TruncateFails(c) \/ TruncateStops(c)
  BY <1>7 DEF FlushFails, TruncateFails, TruncateStops, Fail
<1> QED
  BY <1>1, <1>2, <1>3, <1>4, <1>5, <1>6, <1>7, Zenon DEF ClientNext

LEMMA ClientSteps ==
    ASSUME OpensOverlap, GenInv, NEW c \in Clients, ClientNext(c)
    PROVE  GenInv' /\ Forward
<1>1. CASE OpenRead(c) \/ OpenPut(c) \/ OpenRegister(c) \/ OpenFails(c)
  BY <1>1, OpenReadSteps, OpenPutSteps, OpenRegisterSteps, OpenFailsSteps
<1>2. CASE \/ \E a, b \in Cells : a <= b /\ << a, b >> \in Spans /\ Write(c, a, b)
           \/ \E size \in Sizes : Truncate(c, size)
           \/ \E b \in Blocks : FlushBlock(c, b)
  BY <1>2, WriteSteps, TruncateSteps, FlushBlockSteps
<1>3. CASE Sync(c) \/ SaveCheck(c) \/ SavePut(c) \/ TruncateBlock(c) \/ TruncateMeta(c)
  BY <1>3, SyncSteps, SaveCheckSteps, SavePutSteps, TruncateBlockSteps, TruncateMetaSteps
<1>4. CASE CloseDirty(c) \/ SaveClose(c) \/ CloseClean(c)
  BY <1>4, CloseDirtySteps, SaveCloseSteps, CloseCleanSteps
<1>5. CASE DeleteStart(c) \/ PurgeBlock(c) \/ Tombstone(c) \/ DeleteFails(c)
  BY <1>5, DeleteStartSteps, PurgeSteps, TombstoneSteps, DeleteFailsSteps
<1>6. CASE CreateStart(c) \/ CreatePut(c) \/ CreatePurgeBlock(c) \/ CreateDone(c) \/ CreateFails(c)
  BY <1>6, CreateStartSteps, CreatePutSteps, PurgeSteps, CreateDoneSteps, CreateFailsSteps
<1>7. CASE FlushFails(c) \/ TruncateFails(c) \/ TruncateStops(c)
  BY <1>7, FlushFailsSteps, TruncateFailsSteps
<1> QED
  BY <1>1, <1>2, <1>3, <1>4, <1>5, <1>6, <1>7, Zenon DEF ClientNext

\* The store may be ahead of what a stop brings back.
LEMMA DurableKept ==
    ASSUME GenInv, Durable, GenInv', Forward, UNCHANGED durable PROVE Durable'
<1>1. meta.generation \in Int /\ meta'.generation \in Int /\ kept.meta.generation \in Int
  BY DEF GenInv, Types, Metas, Durable
<1> QED
  BY <1>1 DEF Durable, Forward, durable

\* What the store holds becomes durable.
LEMMA DurableNow ==
    ASSUME GenInv, Durable, kept' = Store, UNCHANGED <<meta, blocks>>, sure' \in {sure, meta.generation}
    PROVE  Durable'
<1>1. PICK k : k = [meta |-> meta, blocks |-> blocks]
  OBVIOUS
<1>2. kept' = k /\ k.meta = meta /\ meta \in Metas /\ blocks \in [1 .. MaxGen -> Rows]
  BY <1>1 DEF Store, GenInv, Types
<1>3. meta.generation \in Nat /\ kept.meta.generation \in Nat
  BY <1>2 DEF Metas, Durable
<1>4. k \in [meta : Metas, blocks : [1 .. MaxGen -> Rows]]
  BY <1>1, <1>2
<1> QED
  BY <1>2, <1>3, <1>4 DEF Durable

\* The step that GenerationMonotone allows, stops included.
Onward ==
    /\ crashes' = crashes =>
          /\ meta'.generation >= meta.generation
          /\ meta.deleted /\ meta'.generation = meta.generation => meta'.deleted
    /\ meta'.generation >= sure

LEMMA Onwards ==
    ASSUME GenInv, Durable, GenInv', Forward PROVE Onward
<1>1. meta.generation \in Int /\ meta'.generation \in Int /\ kept.meta.generation \in Int
  BY DEF GenInv, Types, Metas, Durable
<1> QED
  BY <1>1 DEF Onward, Forward, Durable

LEMMA GenStep ==
    ASSUME OpensOverlap
    PROVE  GenInv /\ Durable /\ crashes \in Nat /\ [Next]_vars =>
               GenInv' /\ Durable' /\ crashes' \in Nat /\ [Onward]_vars
<1> SUFFICES ASSUME GenInv, Durable, crashes \in Nat, [Next]_vars
             PROVE  GenInv' /\ Durable' /\ crashes' \in Nat /\ [Onward]_vars
  OBVIOUS
<1>1. CASE Crash
  <2>1. /\ crashes' = crashes + 1 /\ meta' = kept.meta /\ UNCHANGED <<kept, sure>>
    BY <1>1 DEF Crash, durable
  <2>2. GenInv' /\ Durable'
    <3>1. GenInv'
      BY <1>1, CrashSteps
    <3>2. kept.meta.generation \in Nat
      BY DEF Durable, Metas
    <3> QED
      BY <2>1, <3>1, <3>2 DEF Durable
  <2>3. Onward
    <3>1. kept.meta.generation \in Nat
      BY DEF Durable, Metas
    <3> QED
      BY <2>1, <3>1 DEF Onward, Durable
  <2> QED
    BY <2>1, <2>2, <2>3
<1>2. CASE Persist
  <2>1. UNCHANGED <<meta, blocks, registry, state, client, writes, crashes>> /\ kept' = Store /\ sure' = sure
    BY <1>2 DEF Persist, disk, memory, bounds
  <2>2. GenInv'
    BY <2>1 DEF GenInv, Types
  <2>3. Forward
    BY <2>1, Untouched, Stays
  <2> QED
    BY <2>1, <2>2, <2>3, DurableNow, Onwards
<1>3. ASSUME NEW c \in Clients, Barrier(c) PROVE GenInv' /\ Durable' /\ crashes' \in Nat /\ [Onward]_vars
  <2>1. UNCHANGED <<meta, blocks, crashes>> /\ kept' = Store /\ sure' = meta.generation
    BY <1>3 DEF Barrier, disk, bounds
  <2>2. GenInv' /\ Forward
    BY <1>3, BarrierSteps
  <2> QED
    BY <2>1, <2>2, DurableNow, Onwards
<1>4. ASSUME NEW c \in Clients, ClientNext(c), UNCHANGED durable
      PROVE  GenInv' /\ Durable' /\ crashes' \in Nat /\ [Onward]_vars
  <2>1. GenInv' /\ Forward
    BY <1>4, ClientSteps
  <2>2. UNCHANGED crashes
    BY <1>4, ClientCrashes
  <2> QED
    BY <1>4, <2>1, <2>2, DurableKept, Onwards
<1>5. CASE UNCHANGED vars
  BY <1>5 DEF vars, disk, durable, memory, ghost, bounds, GenInv, Types, Durable
<1> QED
  BY <1>1, <1>2, <1>3, <1>4, <1>5 DEF Next

\* While the process runs, the metadata of a file never go back to an earlier
\* generation, and no deleted generation comes back, whatever the handles and the
\* failures (vfs_file.go, OpenVFSFile and saveMetaLocked); a stop, which may lose the
\* metadata of a creation or of a deletion, brings back none from before the last Sync
\* that returned (SyncKey, vfs_file.go:853): when only openings overlap other calls.
THEOREM Generations ==
    ASSUME OpensOverlap PROVE Spec => GenerationMonotone
<1>1. /\ GenInv /\ Durable /\ crashes \in Nat /\ [Next]_vars =>
            GenInv' /\ Durable' /\ (crashes \in Nat)' /\ [Onward]_vars
  BY GenStep
<1>2. Init => GenInv /\ Durable /\ crashes \in Nat
  BY GenInit, DurableInit
<1>3. Spec => [][Onward]_vars
  BY <1>1, <1>2, PTL DEF Spec
<1> QED
  BY <1>3 DEF GenerationMonotone, Onward

-----------------------------------------------------------------------------
(* What the file holds, when every call that opens, creates or deletes it  *)
(* runs alone.                                                             *)

Serial == Overlaps = {} /\ ~PurgeFaults /\ ~GhostFaults /\ ~WritesAfterCrash

Quiet   == {"none", "idle"}
Working == {"flush", "save", "barrier", "truncate"}
Holders == {c \in Clients : client[c].pc \in Handles \cup {"creating", "createPurge"}}
Nobody(P) == \A c \in Clients : client[c].pc \notin P

\* One call is under way at a time.
Lone == \A c \in Clients : \A d \in Clients \ {c} : client[c].pc \in Quiet \/ client[d].pc \in Quiet

\* Where a call stands.
Placed(c) ==
    /\ client[c].pc \in Handles \cup Replacing => client[c].st = registry
    /\ client[c].pc \in Working => mu[registry] = c /\ client[c].generation = state[registry].generation
    /\ client[c].pc \in {"fresh", "revive"} =>
          client[c].generation = meta.generation /\ (meta.generation = 0 \/ meta.deleted)
    /\ client[c].pc = "found" => client[c].size = meta.size
    /\ client[c].pc = "creating" => state[registry].generation = meta.generation \/ state[registry].refCount = 1
    /\ client[c].pc = "createPurge" => meta.size = 0 /\ state[registry].generation < meta.generation

\* The registered state counts its handles, follows the generation in the store, and
\* is dirty for a handle that is not stale.
Counts == IsFiniteSet(Holders) /\ (registry # None => state[registry].refCount = Cardinality(Holders))
Agreed ==
    registry # None =>
        /\ state[registry].generation <= meta.generation
        /\ Nobody({"found", "creating", "createPurge"}) => state[registry].generation = meta.generation
Watched ==
    registry # None /\ (state[registry].dirty # {} \/ state[registry].metaDirty) =>
        \E c \in Clients : client[c].pc \in Handles /\ client[c].generation = state[registry].generation

\* No block of a generation to come, nor of a tombstone.
Fresh ==
    \A h \in 1 .. MaxGen :
        h > meta.generation \/ (h = meta.generation /\ meta.deleted) => blocks[h] = Zeros

SerialInv ==
    /\ GenInv /\ mu \in [States -> Clients \cup {None}]
    /\ Lone /\ (\A c \in Clients : Placed(c)) /\ Counts /\ Agreed /\ Watched /\ Fresh

\* The file as a handle of the current generation sees it, or will.
Known == registry # None /\ meta.generation # 0 /\ state[registry].generation = meta.generation
Size  == IF Known THEN state[registry].size ELSE StoredSize
Cell(x) ==
    IF meta.generation = 0 THEN 0
    ELSE IF Known THEN Page(state[registry], meta.generation, x) ELSE blocks[meta.generation][x]

Ended  == /\ truth \in [size : Sizes, cells : Rows]
          /\ \A x \in Cells : x >= truth.size => truth.cells[x] = 0
Below  == registry # None => \A b \in state[registry].dirty : b * BlockSize < state[registry].size
Linked == /\ Known /\ ~state[registry].metaDirty => state[registry].size = StoredSize
          /\ meta.generation = 0 => meta.size = 0
Same   == Nobody({"purge", "createPurge", "truncate"}) =>
              Size = truth.size /\ \A x \in Cells : x < truth.size => Cell(x) = truth.cells[x]
Tail   == /\ crashes \in Nat
          /\ crashes = 0 /\ Nobody({"truncate"}) => \A x \in Cells : x >= Size => Cell(x) = 0

\* A flush: what it has written is in the store.  At its barrier a Sync has nothing left
\* to write.
Flushing(c) ==
    /\ client[c].pc \in {"flush", "save"} =>
          /\ client[c].todo \subseteq state[registry].dirty /\ (client[c].pc = "save" => client[c].todo = {})
          /\ \A x \in Cells : x \div BlockSize \in state[registry].dirty \ client[c].todo =>
                blocks[client[c].generation][x] = state[registry].cells[x]
    /\ client[c].pc = "barrier" => state[registry].dirty = {} /\ ~state[registry].metaDirty

\* A truncation: below the new end nothing changes, above it what is left is in the
\* blocks it has still to remove.
Cutting(c) ==
    client[c].pc = "truncate" =>
        LET n == client[c].size
            S == state[registry]
        IN  /\ truth.size = n /\ (client[c].todo # {} => n < S.size)
            /\ \A b \in S.dirty : b * BlockSize < n
            /\ \A b \in client[c].todo : b * BlockSize >= n
            /\ \A x \in Cells : x < n => Page(S, client[c].generation, x) = truth.cells[x]
            /\ \A x \in Cells : x >= n => x \div BlockSize \in client[c].todo \/ Page(S, client[c].generation, x) = 0

FileInv ==
    /\ Ended /\ Below /\ Linked /\ Same /\ Tail
    /\ \A c \in Clients : Flushing(c) /\ Cutting(c)

\* What a stop brings back has no block of a generation to come either.
KeptInv ==
    /\ Durable
    /\ \A h \in 1 .. MaxGen :
          h > kept.meta.generation \/ (h = kept.meta.generation /\ kept.meta.deleted) => kept.blocks[h] = Zeros
    /\ kept.meta.generation = 0 => kept.meta.size = 0

-----------------------------------------------------------------------------
(* One client steps, the others are quiet.                                 *)

LEMMA SerialOpens == ASSUME Serial PROVE OpensOverlap
BY DEF Serial, OpensOverlap

LEMMA Pcss ==
    ASSUME SerialInv, NEW d \in Clients
    PROVE  /\ client[d] \in ClientRec /\ client[d].pc \in Quiet \cup Working \cup Lifecycle
           /\ Knows(client[d], meta) /\ Placed(d)
BY DEF SerialInv, GenInv, Types, ClientRec, Pcs, Handles, Replacing, Quiet, Working, Lifecycle

Others(c) == \A d \in Clients \ {c} : client[d].pc \in Quiet

LEMMA OthersBusy ==
    ASSUME SerialInv, NEW c \in Clients, client[c].pc \notin Quiet PROVE Others(c)
BY DEF SerialInv, Lone, Others

LEMMA OthersAlone ==
    ASSUME Serial, NEW c \in Clients, NEW kind, Alone(c, kind) PROVE Others(c)
BY DEF Serial, Alone, Others, Quiet

LEMMA OthersIdle ==
    ASSUME Serial, SerialInv, NEW c \in Clients, client[c].pc = "idle", Free(c), mu[client[c].st] = None
    PROVE  Others(c)
<1> SUFFICES ASSUME NEW d \in Clients \ {c} PROVE client[d].pc \in Quiet
  BY DEF Others
<1>1. client[d].pc \notin Lifecycle
  BY DEF Free, Serial
<1>2. client[c].st = registry
  BY Pcss DEF Placed, Handles
<1>3. client[d].pc \notin Working
  <2> SUFFICES ASSUME client[d].pc \in Working PROVE FALSE
    OBVIOUS
  <2>1. mu[registry] = d
    BY Pcss DEF Placed
  <2> QED
    BY <1>2, <2>1, VFSFileAssumption
<1> QED
  BY <1>1, <1>3, Pcss

\* What everybody does is what this client does.
LEMMA Only ==
    ASSUME NEW c \in Clients, Others(c), NEW P, P \cap Quiet = {}
    PROVE  Nobody(P) <=> client[c].pc \notin P
BY DEF Nobody, Others

Moved(c, w) == w \in ClientRec /\ client' = [client EXCEPT ![c] = w] /\ Others(c)

LEMMA MovedTo ==
    ASSUME SerialInv, NEW c \in Clients, NEW w, Moved(c, w)
    PROVE  /\ client'[c] = w /\ \A d \in Clients \ {c} : client'[d] = client[d]
           /\ Others(c)'
           /\ \A P : P \cap Quiet = {} => (Nobody(P)' <=> w.pc \notin P) /\ (Nobody(P) <=> client[c].pc \notin P)
<1>1. client \in [Clients -> ClientRec]
  BY DEF SerialInv, GenInv, Types
<1>2. client'[c] = w /\ \A d \in Clients \ {c} : client'[d] = client[d]
  BY <1>1 DEF Moved
<1>3. Others(c)' /\ Others(c)
  BY <1>2 DEF Moved, Others
<1>4. ASSUME NEW P, P \cap Quiet = {} PROVE (Nobody(P)' <=> w.pc \notin P) /\ (Nobody(P) <=> client[c].pc \notin P)
  BY <1>2, <1>3, <1>4 DEF Nobody, Others
<1> QED
  BY <1>2, <1>3, <1>4

LEMMA SerialStep ==
    ASSUME SerialInv, NEW c \in Clients, NEW w, Moved(c, w), GenInv', mu' \in [States -> Clients \cup {None}],
           \A d \in Clients \ {c} : client[d].pc = "idle" => registry' = registry,
           Placed(c)', Counts', Agreed', Watched', Fresh'
    PROVE  SerialInv'
<1>1. Others(c)' /\ \A d \in Clients \ {c} : client'[d] = client[d] /\ client[d].pc \in Quiet
  BY MovedTo DEF Moved, Others
<1>2. Lone'
  BY <1>1 DEF Lone, Others
<1>3. ASSUME NEW d \in Clients \ {c} PROVE Placed(d)'
  <2>1. client'[d] = client[d] /\ client[d].pc \in Quiet
    BY <1>1, <1>3
  <2>2. client[d].pc = "idle" => client[d].st = registry
    BY Pcss DEF Placed, Handles
  <2> QED
    BY <2>1, <2>2 DEF Placed, Quiet, Handles, Replacing, Working
<1>4. \A d \in Clients : Placed(d)'
  BY <1>3
<1> QED
  BY <1>2, <1>4 DEF SerialInv

LEMMA FileStep ==
    ASSUME SerialInv, NEW c \in Clients, NEW w, Moved(c, w),
           Ended', Below', Linked', Same', Tail', Flushing(c)', Cutting(c)'
    PROVE  FileInv'
<1>1. Others(c)'
  BY MovedTo
<1>2. ASSUME NEW d \in Clients \ {c} PROVE Flushing(d)' /\ Cutting(d)'
  BY <1>1 DEF Others, Quiet, Flushing, Cutting
<1>3. \A d \in Clients : Flushing(d)' /\ Cutting(d)'
  BY <1>2
<1> QED
  BY <1>3 DEF FileInv

-----------------------------------------------------------------------------
(* What the invariant says of the file.                                    *)

\* Nothing is under way.
LEMMA AtRest ==
    ASSUME SerialInv, FileInv, \A c \in Clients : client[c].pc \in Quiet
    PROVE  /\ registry # None /\ meta.generation # 0 => Known
           /\ Size = truth.size /\ \A x \in Cells : x < truth.size => Cell(x) = truth.cells[x]
<1>1. Nobody({"found", "creating", "createPurge"}) /\ Nobody({"purge", "createPurge", "truncate"})
  BY DEF Nobody, Quiet
<1> QED
  BY <1>1 DEF SerialInv, Agreed, FileInv, Same, Known

LEMMA ViewIs ==
    ASSUME Serial, SerialInv, FileInv PROVE ViewExact
<1> SUFFICES ASSUME NEW c \in Clients, Free(c), Valid(c), mu[client[c].st] = None
             PROVE  View(state[client[c].st], client[c].generation) = truth
  BY DEF ViewExact
<1>1. \A d \in Clients : client[d].pc \in Quiet
  BY OthersIdle DEF Others, Valid, Quiet
<1>2. client[c].pc = "idle" /\ client[c].st = registry /\ registry # None /\ client[c].generation = state[registry].generation
  BY Pcss, VFSFileAssumption DEF Valid, Placed, Knows, Handles
<1>3. meta.generation # 0 /\ Known /\ client[c].generation = meta.generation
  <2>1. 1 <= client[c].generation /\ client[c].generation <= meta.generation
    BY <1>2, Pcss DEF Knows, Handles
  <2>2. meta.generation # 0
    BY <2>1, Pcss DEF ClientRec, Gens
  <2> QED
    BY <1>1, <1>2, <2>2, AtRest DEF Known
<1>4. /\ state[registry].size = truth.size
      /\ \A x \in Cells : x < truth.size => Page(state[registry], client[c].generation, x) = truth.cells[x]
  BY <1>1, <1>3, AtRest DEF Size, Cell
<1>5. truth \in [size : Sizes, cells : Rows] /\ \A x \in Cells : x >= truth.size => truth.cells[x] = 0
  BY DEF FileInv, Ended
<1>6. PICK K : K = [x \in Cells |-> IF x < state[registry].size THEN Page(state[registry], client[c].generation, x) ELSE 0]
  OBVIOUS
<1>7. \A x \in Cells : x \in Nat
  BY VFSFileAssumption DEF Cells
<1>8. truth.cells \in Rows /\ truth.size \in Nat
  BY <1>5, Grounds
<1>9. K = truth.cells
  <2>1. \A x \in Cells : K[x] = truth.cells[x]
    BY <1>4, <1>5, <1>6, <1>7, <1>8
  <2> QED
    BY <1>6, <1>8, <2>1 DEF Rows
<1>10. View(state[registry], client[c].generation) = [size |-> truth.size, cells |-> truth.cells]
  BY <1>4, <1>6, <1>9 DEF View
<1> QED
  BY <1>2, <1>5, <1>10

LEMMA StoreIs ==
    ASSUME SerialInv, FileInv PROVE StoreExact
<1> SUFFICES ASSUME \A c \in Clients : client[c].pc \in {"none", "idle"},
                    registry # None => state[registry].dirty = {} /\ ~state[registry].metaDirty
             PROVE  StoredSize = truth.size /\ Stored = truth.cells
  BY DEF StoreExact
<1>1. /\ registry # None /\ meta.generation # 0 => Known
      /\ Size = truth.size /\ \A x \in Cells : x < truth.size => Cell(x) = truth.cells[x]
  BY AtRest DEF Quiet
<1>2. StoredSize = truth.size
  BY <1>1 DEF Size, Known, FileInv, Linked
<1>3. truth \in [size : Sizes, cells : Rows] /\ \A x \in Cells : x >= truth.size => truth.cells[x] = 0
  BY DEF FileInv, Ended
<1>4. truth.cells \in Rows /\ truth.size \in Nat /\ \A x \in Cells : x \in Nat
  <2>1. \A x \in Cells : x \in Nat
    BY VFSFileAssumption DEF Cells
  <2> QED
    BY <1>3, <2>1, Grounds
<1>5. \A x \in Cells : x < truth.size => (IF meta.generation = 0 THEN 0 ELSE blocks[meta.generation][x]) = truth.cells[x]
  BY <1>1 DEF Cell, Page, Known
<1>6. CASE meta.generation = 0
  <2>1. \A x \in Cells : Zeros[x] = truth.cells[x]
    BY <1>3, <1>4, <1>5, <1>6 DEF Zeros
  <2>2. Zeros = truth.cells
    BY <1>4, <2>1 DEF Zeros, Rows
  <2> QED
    BY <1>2, <1>6, <2>2 DEF Stored
<1>7. CASE meta.generation # 0
  <2>1. PICK K : K = Wiped(blocks[meta.generation], truth.size)
    OBVIOUS
  <2>2. \A x \in Cells : K[x] = truth.cells[x]
    BY <1>3, <1>4, <1>5, <1>7, <2>1 DEF Wiped
  <2>3. K = truth.cells
    BY <1>4, <2>1, <2>2 DEF Wiped, Rows
  <2> QED
    BY <1>2, <1>7, <2>1, <2>3 DEF Stored
<1> QED
  BY <1>6, <1>7

-----------------------------------------------------------------------------
(* The handles that the registered state counts.                           *)

LEMMA NoHolders ==
    ASSUME SerialInv, registry = None PROVE Holders = {}
<1> SUFFICES ASSUME NEW c \in Holders PROVE FALSE
  OBVIOUS
<1>1. client[c].st = registry /\ client[c].st \in States
  BY Pcss DEF Holders, Placed, Knows, Handles, Replacing
<1> QED
  BY <1>1, VFSFileAssumption

LEMMA HoldersMoved ==
    ASSUME SerialInv, NEW c \in Clients, NEW w, Moved(c, w)
    PROVE  Holders' = IF w.pc \in Handles \cup {"creating", "createPurge"} THEN Holders \cup {c} ELSE Holders \ {c}
BY MovedTo DEF Holders

LEMMA CountsKept ==
    ASSUME SerialInv, NEW c \in Clients, NEW w, Moved(c, w), registry' = registry,
           c \in Holders <=> w.pc \in Handles \cup {"creating", "createPurge"},
           registry # None => state'[registry].refCount = state[registry].refCount
    PROVE  Counts'
<1>1. Holders' = Holders
  BY HoldersMoved
<1> QED
  BY <1>1 DEF SerialInv, Counts

LEMMA CountsJoined ==
    ASSUME SerialInv, NEW c \in Clients, NEW w, Moved(c, w), c \notin Holders,
           w.pc \in Handles \cup {"creating", "createPurge"}, NEW s \in States, Registered(s),
           state'[s].refCount = Joined(s).refCount
    PROVE  Counts'
<1>1. Holders' = Holders \cup {c} /\ IsFiniteSet(Holders)
  BY HoldersMoved DEF SerialInv, Counts
<1>2. IsFiniteSet(Holders') /\ Cardinality(Holders') = Cardinality(Holders) + 1 /\ Cardinality(Holders) \in Nat
  BY <1>1, FS_AddElement, FS_CardinalityType
<1>3. CASE registry = None
  <2>1. Cardinality(Holders) = 0
    BY <1>3, NoHolders, FS_EmptySet
  <2>2. Joined(s).refCount = 1
    BY <1>3, Grounds DEF Joined, StateRec
  <2> QED
    BY <1>2, <2>1, <2>2 DEF Counts, Registered
<1>4. CASE registry # None
  <2>1. s = registry /\ state[s] \in StateRec
    BY <1>4 DEF Registered, SerialInv, GenInv, Types
  <2>2. Joined(s).refCount = state[s].refCount + 1
    BY <1>4, <2>1 DEF Joined, StateRec
  <2> QED
    BY <1>2, <1>4, <2>1, <2>2 DEF Counts, Registered, SerialInv
<1> QED
  BY <1>3, <1>4

\* The last one to leave is alone.
LEMMA LastHolder ==
    ASSUME SerialInv, NEW c \in Holders, registry # None, state[registry].refCount = 1
    PROVE  Holders = {c}
<1>1. IsFiniteSet(Holders) /\ Cardinality(Holders) = 1
  BY DEF SerialInv, Counts
<1>2. IsFiniteSet(Holders \ {c}) /\ Cardinality(Holders \ {c}) = 0
  BY <1>1, FS_RemoveElement
<1>3. Holders \ {c} = {}
  BY <1>2, FS_EmptySet
<1> QED
  BY <1>3

LEMMA CountsLeft ==
    ASSUME SerialInv, NEW c \in Holders, NEW w, Moved(c, w), w.pc \notin Handles \cup {"creating", "createPurge"},
           registry # None, NEW st \in StateRec, st.refCount = state[registry].refCount, Released(registry, st)
    PROVE  Counts'
<1>1. c \in Clients /\ registry \in States
  BY DEF Holders, SerialInv, GenInv, Types
<1>2. Holders' = Holders \ {c} /\ IsFiniteSet(Holders)
  BY <1>1, HoldersMoved DEF SerialInv, Counts
<1>3. IsFiniteSet(Holders') /\ Cardinality(Holders') = Cardinality(Holders) - 1
  BY <1>2, FS_RemoveElement
<1>4. CASE st.refCount = 1
  BY <1>3, <1>4 DEF Counts, Released
<1>5. CASE st.refCount # 1
  <2>1. registry' = registry /\ state'[registry] = Left(st)
    BY <1>1, <1>5 DEF Released, SerialInv, GenInv, Types
  <2>2. Left(st).refCount = st.refCount - 1
    BY <1>5 DEF Left, StateRec
  <2> QED
    BY <1>3, <2>1, <2>2 DEF Counts, SerialInv
<1> QED
  BY <1>4, <1>5

-----------------------------------------------------------------------------
(* Steps that change neither the metadata nor the states.                  *)

Exact == SerialInv /\ FileInv

LEMMA SerialKept ==
    ASSUME SerialInv, NEW c \in Clients, NEW w, Moved(c, w), GenInv', mu' \in [States -> Clients \cup {None}],
           UNCHANGED <<meta, registry, state>>, Fresh', Placed(c)',
           c \in Holders <=> w.pc \in Handles \cup {"creating", "createPurge"},
           client[c].pc \in Handles => w.pc \in Handles /\ w.generation = client[c].generation,
           client[c].pc \in {"found", "creating", "createPurge"} => w.pc \in {"found", "creating", "createPurge"}
    PROVE  SerialInv'
<1>1. Counts'
  BY CountsKept
<1>2. Agreed'
  <2>1. Nobody({"found", "creating", "createPurge"})' => Nobody({"found", "creating", "createPurge"})
    <3>1. {"found", "creating", "createPurge"} \cap Quiet = {}
      BY DEF Quiet
    <3> QED
      BY <3>1, MovedTo
  <2> QED
    BY <2>1 DEF SerialInv, Agreed
<1>3. Watched'
  <2> SUFFICES ASSUME registry # None, state[registry].dirty # {} \/ state[registry].metaDirty
               PROVE  \E e \in Clients : client'[e].pc \in Handles /\ client'[e].generation = state[registry].generation
    BY DEF Watched
  <2>1. PICK e \in Clients : client[e].pc \in Handles /\ client[e].generation = state[registry].generation
    BY DEF SerialInv, Watched
  <2>2. client'[e].pc \in Handles /\ client'[e].generation = state[registry].generation
    BY <2>1, MovedTo
  <2> QED
    BY <2>2
<1> QED
  BY <1>1, <1>2, <1>3, SerialStep

\* The cells stay, except where the call under way hides them.
LEMMA FileCells ==
    ASSUME Exact, NEW c \in Clients, NEW w, Moved(c, w),
           UNCHANGED <<meta, registry, state, truth, crashes>>, Flushing(c)', Cutting(c)',
           w.pc \notin {"purge", "createPurge", "truncate"} =>
               client[c].pc \notin {"purge", "createPurge", "truncate"} /\ \A x \in Cells : Cell(x)' = Cell(x),
           w.pc # "truncate" =>
               client[c].pc # "truncate" /\ \A x \in Cells : Cell(x) = 0 => Cell(x)' = 0
    PROVE  FileInv'
<1>1. {"purge", "createPurge", "truncate"} \cap Quiet = {} /\ {"truncate"} \cap Quiet = {}
  BY DEF Quiet
<1>2. /\ Nobody({"purge", "createPurge", "truncate"})' =>
            Nobody({"purge", "createPurge", "truncate"}) /\ \A x \in Cells : Cell(x)' = Cell(x)
      /\ Nobody({"truncate"})' => Nobody({"truncate"}) /\ \A x \in Cells : Cell(x) = 0 => Cell(x)' = 0
  BY <1>1, MovedTo DEF Exact
<1>3. (Known <=> Known') /\ StoredSize' = StoredSize /\ Size' = Size
  BY DEF Known, StoredSize, Size
<1>4. Ended' /\ Below' /\ Linked'
  BY <1>3 DEF Exact, FileInv, Ended, Below, Linked
<1>5. Same' /\ Tail'
  BY <1>2, <1>3 DEF Exact, FileInv, Same, Tail
<1> QED
  BY <1>4, <1>5, FileStep DEF Exact

LEMMA FileKept ==
    ASSUME Exact, NEW c \in Clients, NEW w, Moved(c, w),
           UNCHANGED <<meta, blocks, registry, state, truth, crashes>>, Flushing(c)', Cutting(c)',
           client[c].pc \in {"purge", "createPurge", "truncate"} => w.pc \in {"purge", "createPurge", "truncate"},
           client[c].pc = "truncate" => w.pc = "truncate"
    PROVE  FileInv'
<1>1. \A x \in Cells : Cell(x)' = Cell(x)
  BY DEF Cell, Known, Page
<1> QED
  BY <1>1, FileCells

\* A call on a handle, or an opening, is at a position where nothing is known of blocks.
LEMMA Elsewhere ==
    ASSUME NEW c, client'[c].pc \notin Working PROVE Flushing(c)' /\ Cutting(c)'
BY DEF Flushing, Cutting, Working

LEMMA FreshKept ==
    ASSUME SerialInv, UNCHANGED <<meta, blocks>> PROVE Fresh'
BY DEF SerialInv, Fresh

LEMMA ExactGen == ASSUME Exact PROVE GenInv /\ SerialInv /\ FileInv
BY DEF Exact, SerialInv

LEMMA OpenReadKeeps ==
    ASSUME Serial, Exact, NEW c \in Clients, OpenRead(c) PROVE Exact'
<1>1. PICK o, p, g, n : /\ o = Outside /\ g = meta.generation /\ n = meta.size
                        /\ p = IF meta.generation = 0 THEN "fresh" ELSE IF meta.deleted THEN "revive" ELSE "found"
  OBVIOUS
<1>2. PICK w : w = [o EXCEPT !.pc = p, !.generation = g, !.size = n]
  OBVIOUS
<1>3. /\ client' = [client EXCEPT ![c] = w] /\ Alone(c, "open") /\ client[c].pc = "none"
      /\ UNCHANGED <<meta, blocks, registry, state, mu, truth, crashes>>
  BY <1>1, <1>2 DEF OpenRead, At, disk, memory, ghost, bounds
<1>4. o \in ClientRec /\ g \in Gens /\ n \in Sizes /\ p \in {"fresh", "revive", "found"} /\ p \in Pcs
  BY <1>1, Grounds, ExactGen DEF GenInv, Types, Metas, Gens, Pcs
<1>5. w \in ClientRec /\ w.pc = p /\ w.generation = g /\ w.size = n
  BY <1>2, <1>4 DEF ClientRec
<1>6. Moved(c, w)
  BY <1>3, <1>5, OthersAlone DEF Moved
<1>7. client'[c] = w
  BY <1>6, MovedTo, ExactGen
<1>8. Placed(c)'
  BY <1>1, <1>3, <1>4, <1>5, <1>7 DEF Placed, Handles, Replacing, Working
<1>9. GenInv'
  BY OpenReadSteps, SerialOpens, ExactGen
<1>10. Flushing(c)' /\ Cutting(c)'
  BY <1>4, <1>5, <1>7, Elsewhere DEF Working
<1>11. SerialInv'
  BY <1>3, <1>4, <1>5, <1>6, <1>8, <1>9, SerialKept, FreshKept, ExactGen DEF Holders, Handles, SerialInv
<1>12. FileInv'
  BY <1>3, <1>6, <1>10, FileKept
<1> QED
  BY <1>11, <1>12 DEF Exact

LEMMA OpenFailsKeeps ==
    ASSUME Serial, Exact, NEW c \in Clients, OpenFails(c) PROVE Exact'
<1>1. /\ client' = [client EXCEPT ![c] = Outside] /\ client[c].pc \in {"fresh", "revive"}
      /\ UNCHANGED <<meta, blocks, registry, state, mu, truth, crashes>>
  BY DEF OpenFails, Fail, disk, memory, ghost
<1>2. Outside \in ClientRec /\ Outside.pc = "none"
  BY Grounds
<1>3. Moved(c, Outside)
  BY <1>1, <1>2, OthersBusy, ExactGen DEF Moved, Quiet
<1>4. client'[c] = Outside
  BY <1>3, MovedTo, ExactGen
<1>5. Placed(c)' /\ Flushing(c)' /\ Cutting(c)'
  BY <1>2, <1>4, Elsewhere DEF Placed, Handles, Replacing, Working
<1>6. GenInv'
  BY OpenFailsSteps, SerialOpens, ExactGen
<1>7. SerialInv'
  BY <1>1, <1>2, <1>3, <1>5, <1>6, SerialKept, FreshKept, ExactGen DEF Holders, Handles, SerialInv
<1>8. FileInv'
  BY <1>1, <1>3, <1>5, FileKept
<1> QED
  BY <1>7, <1>8 DEF Exact

\* The state under a handle, when the other clients are quiet.
LEMMA Handle ==
    ASSUME Exact, NEW c \in Clients, client[c].pc \in Handles
    PROVE  /\ registry \in States /\ registry # None /\ client[c].st = registry
           /\ state \in [States -> StateRec] /\ state[registry] \in StateRec
           /\ client[c] \in ClientRec /\ client[c].generation \in 1 .. MaxGen /\ c \in Holders
           /\ meta.generation \in 1 .. MaxGen /\ meta.generation # 0
           /\ mu \in [States -> Clients \cup {None}] /\ mu[registry] \in Clients \cup {None}
<1>1. /\ client[c] \in ClientRec /\ client[c].st \in States /\ client[c].generation \in 1 .. MaxGen
      /\ client[c].generation <= meta.generation
  BY AtHandle, ExactGen
<1>2. client[c].st = registry
  BY Pcss, ExactGen DEF Placed
<1>3. registry # None /\ state \in [States -> StateRec] /\ mu \in [States -> Clients \cup {None}]
  BY <1>1, <1>2, VFSFileAssumption DEF Exact, SerialInv, GenInv, Types
<1>4. meta.generation \in 0 .. MaxGen
  BY DEF Exact, SerialInv, GenInv, Types, Metas
<1>5. meta.generation \in 1 .. MaxGen /\ meta.generation # 0
  BY <1>1, <1>4, VFSFileAssumption
<1>6. state[registry] \in StateRec /\ mu[registry] \in Clients \cup {None}
  BY <1>1, <1>2, <1>3
<1> QED
  BY <1>1, <1>2, <1>3, <1>5, <1>6 DEF Holders

LEMMA HandleKnown ==
    ASSUME Exact, NEW c \in Clients, client[c].pc \in Handles, Others(c)
    PROVE  Known /\ state[registry].generation = meta.generation
<1>1. Nobody({"found", "creating", "createPurge"})
  BY DEF Nobody, Others, Quiet, Handles
<1>2. registry # None /\ meta.generation # 0
  BY Handle
<1> QED
  BY <1>1, <1>2 DEF Known, Exact, SerialInv, Agreed

LEMMA MuSet ==
    ASSUME Exact, NEW s \in States, NEW v \in Clients \cup {None}, mu' = [mu EXCEPT ![s] = v]
    PROVE  mu' \in [States -> Clients \cup {None}] /\ mu'[s] = v
BY DEF Exact, SerialInv

\* A handle comes back, without having changed anything since.
LEMMA CallEnds ==
    ASSUME Exact, NEW c \in Clients, client[c].pc \in Handles \ {"truncate"}, Others(c), Back(c, client[c].st),
           mu' \in [States -> Clients \cup {None}],
           UNCHANGED <<meta, blocks, registry, state, truth, crashes>>, GenInv'
    PROVE  Exact'
<1>1. PICK o, s, g : o = Outside /\ s = client[c].st /\ g = client[c].generation
  OBVIOUS
<1>2. PICK w : w = [o EXCEPT !.pc = "idle", !.st = s, !.generation = g]
  OBVIOUS
<1>3. client' = [client EXCEPT ![c] = w]
  BY <1>1, <1>2 DEF Back
<1>4. client[c].pc \in Handles /\ client[c].pc \notin {"purge", "createPurge", "truncate", "found", "creating"}
  BY DEF Handles
<1>5. o \in ClientRec /\ s \in States /\ g \in Gens /\ s = registry /\ "idle" \in Pcs
  BY <1>1, <1>4, Handle, Grounds DEF Gens, Pcs, Handles
<1>6. w \in ClientRec /\ w.pc = "idle" /\ w.st = registry /\ w.generation = g
  BY <1>2, <1>5 DEF ClientRec
<1>7. Moved(c, w)
  BY <1>3, <1>6 DEF Moved
<1>8. client'[c] = w
  BY <1>7, MovedTo, ExactGen
<1>9. Placed(c)' /\ Flushing(c)' /\ Cutting(c)'
  BY <1>6, <1>8, Elsewhere DEF Placed, Working
<1>10. SerialInv'
  <2>1. c \in Holders /\ w.pc \in Handles
    BY <1>4, <1>6, Handle DEF Handles
  <2> QED
    BY <1>1, <1>4, <1>6, <1>7, <1>9, <2>1, SerialKept, FreshKept, ExactGen
<1>11. FileInv'
  BY <1>4, <1>7, <1>9, FileKept
<1> QED
  BY <1>10, <1>11 DEF Exact

\* A handle that is not stale starts a flush.
LEMMA FlushBegins ==
    ASSUME Exact, NEW c \in Clients, client[c].pc = "idle", Others(c), NEW w \in ClientRec,
           client' = [client EXCEPT ![c] = w], w.pc = "flush", w.st = client[c].st,
           w.generation = client[c].generation, w.generation = state[registry].generation,
           w.todo = state[registry].dirty, mu' = [mu EXCEPT ![registry] = c],
           UNCHANGED <<meta, blocks, registry, state, truth, crashes>>, GenInv'
    PROVE  Exact'
<1>1. registry \in States /\ client[c].st = registry /\ c \in Holders
  BY Handle DEF Handles
<1>2. mu' \in [States -> Clients \cup {None}] /\ mu'[registry] = c
  BY <1>1, MuSet
<1>3. Moved(c, w)
  BY DEF Moved
<1>4. client'[c] = w
  BY <1>3, MovedTo, ExactGen
<1>5. Placed(c)' /\ Flushing(c)' /\ Cutting(c)'
  BY <1>1, <1>2, <1>4 DEF Placed, Flushing, Cutting
<1>6. SerialInv'
  BY <1>1, <1>2, <1>3, <1>5, SerialKept, FreshKept, ExactGen DEF Handles
<1>7. FileInv'
  BY <1>3, <1>5, FileKept
<1> QED
  BY <1>6, <1>7 DEF Exact

\* A Sync comes to its barrier.
LEMMA BarrierBegins ==
    ASSUME Exact, NEW c \in Clients, client[c].pc = "idle", Others(c), Move(c, "barrier"),
           client[c].generation = state[registry].generation, state[registry].dirty = {}, ~state[registry].metaDirty,
           mu' = [mu EXCEPT ![registry] = c], UNCHANGED <<meta, blocks, registry, state, truth, crashes>>, GenInv'
    PROVE  Exact'
<1>1. PICK y : y = client[c]
  OBVIOUS
<1>2. PICK w : w = [y EXCEPT !.pc = "barrier"]
  OBVIOUS
<1>3. y \in ClientRec /\ y.st = registry /\ c \in Holders /\ registry \in States
  BY <1>1, Handle DEF Handles
<1>4. client' = [client EXCEPT ![c] = w]
  BY <1>1, <1>2 DEF Move, Exact, SerialInv, GenInv, Types
<1>5. w \in ClientRec /\ w.pc = "barrier" /\ w.st = y.st /\ w.generation = y.generation
  BY <1>2, <1>3 DEF ClientRec, Pcs, Handles
<1>6. mu' \in [States -> Clients \cup {None}] /\ mu'[registry] = c
  BY <1>3, MuSet
<1>7. Moved(c, w)
  BY <1>4, <1>5 DEF Moved
<1>8. client'[c] = w
  BY <1>7, MovedTo, ExactGen
<1>9. Placed(c)' /\ Flushing(c)' /\ Cutting(c)'
  BY <1>1, <1>3, <1>5, <1>6, <1>8 DEF Placed, Flushing, Cutting
<1>10. SerialInv'
  BY <1>1, <1>3, <1>5, <1>6, <1>7, <1>9, SerialKept, FreshKept, ExactGen DEF Handles
<1>11. FileInv'
  BY <1>7, <1>9, FileKept
<1> QED
  BY <1>10, <1>11 DEF Exact

LEMMA SyncKeeps ==
    ASSUME Serial, Exact, NEW c \in Clients, Sync(c) PROVE Exact'
<1>1. PICK y, D : y = client[c] /\ D = state'[y.st].dirty
  OBVIOUS
<1>2. PICK w : w = [y EXCEPT !.pc = "flush", !.todo = D, !.after = "sync"]
  OBVIOUS
<1>3. /\ y.pc = "idle" /\ Free(c) /\ mu[y.st] = None /\ y.generation = state[y.st].generation
      /\ UNCHANGED <<meta, blocks, registry, state, truth, crashes>>
  BY <1>1 DEF Sync, Enter, Valid, disk, ghost, bounds
<1>4. y \in ClientRec /\ y.st = registry /\ D \in SUBSET Blocks /\ D = state[registry].dirty
  BY <1>1, <1>3, Handle DEF Handles, StateRec
<1>5. Others(c) /\ GenInv'
  BY <1>1, <1>3, OthersIdle, SyncSteps, SerialOpens, ExactGen
<1>6. CASE StartFlush(c, y.st, "sync")
  <2>1. client' = [client EXCEPT ![c] = w] /\ mu' = [mu EXCEPT ![y.st] = c]
    BY <1>1, <1>2, <1>6 DEF StartFlush, Exact, SerialInv, GenInv, Types
  <2>2. w \in ClientRec /\ w.pc = "flush" /\ w.st = y.st /\ w.generation = y.generation /\ w.todo = D
    BY <1>2, <1>4 DEF ClientRec, Pcs, Handles
  <2> QED
    BY <1>1, <1>3, <1>4, <1>5, <2>1, <2>2, FlushBegins
<1>7. CASE Move(c, "barrier") /\ mu' = [mu EXCEPT ![y.st] = c] /\ state[y.st].dirty = {} /\ ~state[y.st].metaDirty
  BY <1>1, <1>3, <1>4, <1>5, <1>7, BarrierBegins
<1> QED
  BY <1>1, <1>6, <1>7 DEF Sync

LEMMA CloseDirtyKeeps ==
    ASSUME Serial, Exact, NEW c \in Clients, CloseDirty(c) PROVE Exact'
<1>1. PICK y, D : y = client[c] /\ D = state[y.st].dirty
  OBVIOUS
<1>2. PICK w : w = [y EXCEPT !.pc = "flush", !.todo = D, !.after = "close"]
  OBVIOUS
<1>3. /\ y.pc = "idle" /\ Free(c) /\ mu[y.st] = None /\ mu' = [mu EXCEPT ![y.st] = c]
      /\ y.generation = state[y.st].generation
      /\ UNCHANGED <<meta, blocks, registry, state, truth, crashes>>
  BY <1>1 DEF CloseDirty, Valid, disk, ghost, bounds
<1>4. y \in ClientRec /\ y.st = registry /\ D \in SUBSET Blocks /\ D = state[registry].dirty
  BY <1>1, <1>3, Handle DEF Handles, StateRec
<1>5. client' = [client EXCEPT ![c] = w]
  BY <1>1, <1>2 DEF CloseDirty, Exact, SerialInv, GenInv, Types
<1>6. w \in ClientRec /\ w.pc = "flush" /\ w.st = y.st /\ w.generation = y.generation /\ w.todo = D
  BY <1>2, <1>4 DEF ClientRec, Pcs, Handles
<1>7. Others(c) /\ GenInv'
  BY <1>1, <1>3, OthersIdle, CloseDirtySteps, SerialOpens, ExactGen
<1> QED
  BY <1>1, <1>3, <1>4, <1>5, <1>6, <1>7, FlushBegins

LEMMA FlushFailsKeeps ==
    ASSUME Serial, Exact, NEW c \in Clients, FlushFails(c) PROVE Exact'
<1>1. /\ client[c].pc \in {"flush", "save", "barrier"} /\ Back(c, client[c].st)
      /\ mu' = [mu EXCEPT ![client[c].st] = None]
      /\ UNCHANGED <<meta, blocks, registry, state, truth, crashes>>
  BY DEF FlushFails, Fail, disk, ghost
<1>2. Others(c) /\ GenInv'
  BY <1>1, OthersBusy, FlushFailsSteps, SerialOpens, ExactGen DEF Quiet
<1>3. mu' \in [States -> Clients \cup {None}]
  BY <1>1, Handle, MuSet DEF Handles
<1> QED
  BY <1>1, <1>2, <1>3, CallEnds DEF Handles

LEMMA BarrierKeeps ==
    ASSUME Serial, Exact, NEW c \in Clients, Barrier(c) PROVE Exact'
<1>1. /\ client[c].pc = "barrier" /\ Back(c, client[c].st) /\ mu' = [mu EXCEPT ![client[c].st] = None]
      /\ UNCHANGED <<meta, blocks, registry, state, truth, crashes>>
  BY DEF Barrier, At, disk, bounds
<1>2. Others(c) /\ GenInv'
  BY <1>1, OthersBusy, BarrierSteps, SerialOpens, ExactGen DEF Quiet
<1>3. mu' \in [States -> Clients \cup {None}]
  BY <1>1, Handle, MuSet DEF Handles
<1> QED
  BY <1>1, <1>2, <1>3, CallEnds DEF Handles

LEMMA SaveCheckKeeps ==
    ASSUME Serial, Exact, NEW c \in Clients, SaveCheck(c) PROVE Exact'
<1>1. /\ client[c].pc = "flush" /\ client[c].todo = {}
      /\ UNCHANGED <<meta, blocks, registry, state, truth, crashes>>
  BY DEF SaveCheck, At, disk, ghost, bounds
<1>2. Others(c) /\ GenInv'
  BY <1>1, OthersBusy, SaveCheckSteps, SerialOpens, ExactGen DEF Quiet
<1>3. CASE Back(c, client[c].st) /\ mu' = [mu EXCEPT ![client[c].st] = None]
  <2>1. mu' \in [States -> Clients \cup {None}]
    BY <1>1, <1>3, Handle, MuSet DEF Handles
  <2> QED
    BY <1>1, <1>2, <1>3, <2>1, CallEnds DEF Handles
<1>4. CASE Move(c, "save") /\ UNCHANGED mu
  <2>1. PICK y : y = client[c]
    OBVIOUS
  <2>2. PICK w : w = [y EXCEPT !.pc = "save"]
    OBVIOUS
  <2>3. y \in ClientRec /\ y.st = registry /\ c \in Holders /\ mu \in [States -> Clients \cup {None}]
    BY <1>1, <2>1, Handle DEF Handles
  <2>4. client' = [client EXCEPT ![c] = w]
    BY <1>4, <2>1, <2>2 DEF Move, Exact, SerialInv, GenInv, Types
  <2>5. w \in ClientRec /\ w.pc = "save" /\ w.st = y.st /\ w.generation = y.generation /\ w.todo = y.todo
    BY <2>2, <2>3 DEF ClientRec, Pcs, Handles
  <2>6. Moved(c, w)
    BY <1>2, <2>4, <2>5 DEF Moved
  <2>7. client'[c] = w
    BY <2>6, MovedTo, ExactGen
  <2>8. Placed(c) /\ Flushing(c)
    BY Pcss DEF Exact, FileInv
  <2>9. Placed(c)'
    BY <1>1, <1>4, <2>1, <2>3, <2>5, <2>7, <2>8 DEF Placed, Working
  <2>10. Flushing(c)' /\ Cutting(c)'
    BY <1>1, <2>1, <2>5, <2>7, <2>8 DEF Flushing, Cutting
  <2>11. SerialInv'
    BY <1>1, <1>2, <1>4, <2>1, <2>3, <2>5, <2>6, <2>9, SerialKept, FreshKept, ExactGen DEF Handles
  <2>12. FileInv'
    BY <1>1, <2>6, <2>10, FileKept
  <2> QED
    BY <2>11, <2>12 DEF Exact
<1> QED
  BY <1>3, <1>4 DEF SaveCheck

LEMMA DeleteStartKeeps ==
    ASSUME Serial, Exact, NEW c \in Clients, DeleteStart(c) PROVE Exact'
<1>1. PICK o, g, r, D : /\ o = Outside /\ g = meta.generation /\ r = registry
                        /\ D = {b \in Blocks : b < numBlocks(meta.size)}
  OBVIOUS
<1>2. PICK w : w = [o EXCEPT !.pc = "purge", !.st = r, !.generation = g, !.todo = D]
  OBVIOUS
<1>3. /\ Alone(c, "delete") /\ client[c].pc = "none" /\ client' = [client EXCEPT ![c] = w]
      /\ UNCHANGED <<meta, blocks, registry, state, truth, crashes>>
      /\ (mu' = mu \/ (registry # None /\ mu' = [mu EXCEPT ![registry] = c]))
  BY <1>1, <1>2 DEF DeleteStart, At, disk, bounds
<1>4. o \in ClientRec /\ r \in States \cup {None} /\ g \in Gens /\ D \in SUBSET Blocks /\ "purge" \in Pcs
  BY <1>1, Grounds, ExactGen DEF GenInv, Types, Metas, Gens, Pcs, Replacing
<1>5. w \in ClientRec /\ w.pc = "purge" /\ w.generation = g /\ w.st = r
  BY <1>2, <1>4 DEF ClientRec
<1>6. Moved(c, w)
  BY <1>3, <1>5, OthersAlone DEF Moved
<1>7. client'[c] = w
  BY <1>6, MovedTo, ExactGen
<1>8. Placed(c)' /\ Flushing(c)' /\ Cutting(c)'
  BY <1>1, <1>3, <1>5, <1>7, Elsewhere DEF Placed, Working
<1>9. GenInv'
  BY DeleteStartSteps, SerialOpens, ExactGen
<1>10. mu' \in [States -> Clients \cup {None}]
  BY <1>1, <1>3, <1>4, MuSet DEF Exact, SerialInv
<1>11. SerialInv'
  BY <1>3, <1>5, <1>6, <1>8, <1>9, <1>10, SerialKept, FreshKept, ExactGen DEF Holders, Handles
<1>12. FileInv'
  BY <1>3, <1>6, <1>8, FileKept
<1> QED
  BY <1>11, <1>12 DEF Exact

-----------------------------------------------------------------------------
(* Cells and blocks.                                                       *)

LEMMA CellBlock ==
    ASSUME NEW x \in Nat
    PROVE  /\ x \div BlockSize \in Nat /\ (x \div BlockSize) * BlockSize \in Nat
           /\ (x \div BlockSize) * BlockSize <= x /\ x < (x \div BlockSize) * BlockSize + BlockSize
<1>1. x \div BlockSize \in Nat
  BY VFSFileAssumption
<1>2. (x \div BlockSize) * BlockSize <= x
  BY VFSFileAssumption
<1>3. x < (x \div BlockSize) * BlockSize + BlockSize
  BY VFSFileAssumption
<1>4. (x \div BlockSize) * BlockSize \in Nat
  BY <1>1, VFSFileAssumption
<1> QED
  BY <1>1, <1>2, <1>3, <1>4

LEMMA BlockOrder ==
    ASSUME NEW a \in Nat, NEW b \in Nat, a < b
    PROVE  a * BlockSize \in Nat /\ b * BlockSize \in Nat /\ a * BlockSize + BlockSize <= b * BlockSize
<1>1. a * BlockSize + BlockSize <= b * BlockSize
  BY VFSFileAssumption
<1> QED
  BY <1>1, VFSFileAssumption

LEMMA CellsNat == /\ Cells \subseteq Nat /\ Blocks \subseteq Nat
                  /\ \A b \in Blocks : b * BlockSize \in Nat
                  /\ \A x \in Cells : x \div BlockSize \in Blocks
<1>1. Cells \subseteq Nat
  BY VFSFileAssumption DEF Cells
<1>2. Blocks \subseteq Nat
  BY <1>1, CellBlock DEF Blocks
<1>3. \A b \in Blocks : b * BlockSize \in Nat
  BY <1>2, VFSFileAssumption
<1> QED
  BY <1>1, <1>2, <1>3 DEF Blocks

\* The blocks from numBlocks on start at the end of the file, or beyond.
LEMMA BlocksAbove ==
    ASSUME NEW b \in Nat, NEW n \in Nat
    PROVE  b >= numBlocks(n) <=> b * BlockSize >= n
<1>1. PICK q : q = numBlocks(n)
  OBVIOUS
<1>2. n + BlockSize - 1 \in Nat /\ BlockSize \in Nat /\ b * BlockSize \in Nat
  BY VFSFileAssumption
<1>3. q \in Nat /\ q * BlockSize \in Nat /\ q * BlockSize <= n + BlockSize - 1 /\ n + BlockSize - 1 < q * BlockSize + BlockSize
  BY <1>1, <1>2, CellBlock DEF numBlocks
<1>4. CASE b = q
  BY <1>1, <1>2, <1>3, <1>4
<1>5. CASE b > q
  <2>1. q * BlockSize + BlockSize <= b * BlockSize
    BY <1>3, <1>5, BlockOrder
  <2> QED
    BY <1>1, <1>2, <1>3, <1>5, <2>1
<1>6. CASE b < q
  <2>1. b * BlockSize + BlockSize <= q * BlockSize
    BY <1>3, <1>6, BlockOrder
  <2> QED
    BY <1>1, <1>2, <1>3, <1>6, <2>1
<1> QED
  BY <1>3, <1>4, <1>5, <1>6

LEMMA EraseIs ==
    ASSUME GenInv, NEW g, NEW b, Erase(g, b), NEW h \in 1 .. MaxGen, NEW x \in Cells
    PROVE  blocks'[h][x] = IF h = g /\ x \div BlockSize = b THEN 0 ELSE blocks[h][x]
<1>1. blocks \in [1 .. MaxGen -> Rows]
  BY DEF GenInv, Types
<1>2. PICK r : r = [z \in Cells |-> IF z \in Of(b) THEN 0 ELSE blocks[g][z]]
  OBVIOUS
<1>3. blocks' = [blocks EXCEPT ![g] = r]
  BY <1>2 DEF Erase
<1>4. h = g => blocks'[h] = r
  BY <1>1, <1>3
<1>5. h # g => blocks'[h] = blocks[h]
  BY <1>1, <1>3
<1>6. r[x] = IF x \div BlockSize = b THEN 0 ELSE blocks[g][x]
  BY <1>2 DEF Of
<1> QED
  BY <1>4, <1>5, <1>6

LEMMA FreshErased ==
    ASSUME SerialInv, NEW g, NEW b, Erase(g, b), UNCHANGED meta PROVE Fresh'
<1> SUFFICES ASSUME NEW h \in 1 .. MaxGen, h > meta.generation \/ (h = meta.generation /\ meta.deleted)
             PROVE  blocks'[h] = Zeros
  BY DEF Fresh
<1>1. blocks[h] = Zeros /\ GenInv
  BY DEF SerialInv, Fresh
<1>2. blocks' \in [1 .. MaxGen -> Rows]
  BY <1>1, BlockErased
<1>3. blocks'[h] \in Rows
  BY <1>2
<1>4. \A x \in Cells : blocks'[h][x] = 0
  BY <1>1, EraseIs DEF Zeros
<1> QED
  BY <1>3, <1>4 DEF Zeros, Rows

\* A cell that is zero stays so when a block leaves the store.
LEMMA CellErased ==
    ASSUME SerialInv, NEW g, NEW b, Erase(g, b), UNCHANGED <<meta, registry, state>>, NEW x \in Cells, Cell(x) = 0
    PROVE  Cell(x)' = 0
<1>1. Known <=> Known'
  BY DEF Known
<1>2. CASE meta.generation = 0
  BY <1>2 DEF Cell
<1>3. CASE meta.generation # 0
  <2>1. meta.generation \in 1 .. MaxGen /\ GenInv
    BY <1>3, VFSFileAssumption DEF SerialInv, GenInv, Types, Metas
  <2>2. blocks'[meta.generation][x] \in {0, blocks[meta.generation][x]}
    BY <2>1, EraseIs
  <2> QED
    BY <1>1, <1>3, <2>2 DEF Cell, Page
<1> QED
  BY <1>2, <1>3

LEMMA FlushBlockKeeps ==
    ASSUME Serial, Exact, NEW c \in Clients, NEW b \in Blocks, FlushBlock(c, b) PROVE Exact'
<1>1. PICK y, D, S, g : y = client[c] /\ D = y.todo \ {b} /\ S = state[registry] /\ g = y.generation
  OBVIOUS
<1>2. PICK w : w = [y EXCEPT !.todo = D]
  OBVIOUS
<1>3. y.pc = "flush" /\ b \in y.todo /\ UNCHANGED <<meta, registry, state, mu, truth, crashes>>
  BY <1>1 DEF FlushBlock, At, memory, ghost, bounds
<1>4. Others(c) /\ GenInv'
  BY <1>1, <1>3, OthersBusy, FlushBlockSteps, SerialOpens, ExactGen DEF Quiet
<1>5. /\ y \in ClientRec /\ D \in SUBSET Blocks /\ y.st = registry /\ S \in StateRec /\ c \in Holders
      /\ g \in 1 .. MaxGen /\ mu \in [States -> Clients \cup {None}]
  BY <1>1, <1>3, Handle DEF Handles, ClientRec
<1>6. client' = [client EXCEPT ![c] = w]
  BY <1>1, <1>2 DEF FlushBlock, Exact, SerialInv, GenInv, Types
<1>7. w \in ClientRec /\ w.pc = "flush" /\ w.st = y.st /\ w.generation = g /\ w.todo = D
  BY <1>1, <1>2, <1>3, <1>5 DEF ClientRec
<1>8. Moved(c, w) /\ client'[c] = w
  BY <1>4, <1>6, <1>7, MovedTo, ExactGen DEF Moved
<1>9. Placed(c) /\ Flushing(c) /\ Known /\ S.generation = meta.generation
  BY <1>1, <1>3, <1>4, Pcss, HandleKnown DEF Exact, FileInv, Handles
<1>10. g = meta.generation
  BY <1>1, <1>3, <1>9 DEF Placed, Working
<1>11. ASSUME NEW h \in 1 .. MaxGen, NEW x \in Cells
       PROVE  blocks'[h][x] = IF h = g /\ x \div BlockSize = b THEN S.cells[x] ELSE blocks[h][x]
  <2>1. blocks \in [1 .. MaxGen -> Rows]
    BY DEF Exact, SerialInv, GenInv, Types
  <2>2. PICK r : r = [z \in Cells |-> IF z \in Of(b) THEN S.cells[z] ELSE blocks[g][z]]
    OBVIOUS
  <2>3. blocks' = [blocks EXCEPT ![g] = r]
    BY <1>1, <1>5, <2>2 DEF FlushBlock
  <2>4. h = g => blocks'[h] = r
    BY <2>1, <2>3
  <2>5. h # g => blocks'[h] = blocks[h]
    BY <2>1, <2>3
  <2>6. r[x] = IF x \div BlockSize = b THEN S.cells[x] ELSE blocks[g][x]
    BY <2>2 DEF Of
  <2> QED
    BY <2>4, <2>5, <2>6
<1>12. Placed(c)'
  BY <1>1, <1>3, <1>5, <1>7, <1>8, <1>9 DEF Placed, Working
<1>13. Flushing(c)' /\ Cutting(c)'
  <2>1. D \subseteq S.dirty
    BY <1>1, <1>3, <1>9 DEF Flushing
  <2>2. ASSUME NEW x \in Cells, x \div BlockSize \in S.dirty \ D PROVE blocks'[g][x] = S.cells[x]
    <3>1. CASE x \div BlockSize = b
      BY <1>5, <1>11, <3>1
    <3>2. CASE x \div BlockSize # b
      BY <1>1, <1>3, <1>5, <1>9, <1>11, <2>2, <3>2 DEF Flushing
    <3> QED
      BY <3>1, <3>2
  <2>3. Flushing(c)'
    BY <1>1, <1>3, <1>7, <1>8, <2>1, <2>2 DEF Flushing
  <2> QED
    BY <1>7, <1>8, <2>3 DEF Cutting
<1>14. Fresh'
  <2>1. g <= meta.generation /\ (meta.deleted => g < meta.generation)
    BY <1>1, <1>3, AtHandle, ExactGen DEF Handles
  <2> SUFFICES ASSUME NEW h \in 1 .. MaxGen, h > meta.generation \/ (h = meta.generation /\ meta.deleted)
               PROVE  blocks'[h] = Zeros
    BY <1>3 DEF Fresh
  <2>2. h # g /\ blocks[h] = Zeros
    BY <1>5, <1>10, <2>1 DEF Exact, SerialInv, Fresh
  <2>3. blocks'[h] = blocks[h]
    BY <1>1, <2>2 DEF FlushBlock, Exact, SerialInv, GenInv, Types
  <2> QED
    BY <2>2, <2>3
<1>15. \A x \in Cells : Cell(x)' = Cell(x)
  <2> SUFFICES ASSUME NEW x \in Cells PROVE Cell(x)' = Cell(x)
    OBVIOUS
  <2>1. Known' /\ Known /\ meta.generation # 0
    BY <1>3, <1>9 DEF Known
  <2>2. x \div BlockSize = b => x \div BlockSize \in S.dirty
    BY <1>1, <1>3, <1>9 DEF Flushing
  <2> QED
    BY <1>1, <1>3, <1>5, <1>10, <1>11, <2>1, <2>2 DEF Cell, Page
<1>16. SerialInv'
  BY <1>1, <1>3, <1>4, <1>5, <1>7, <1>8, <1>12, <1>14, SerialKept, ExactGen DEF Handles
<1>17. FileInv'
  BY <1>1, <1>3, <1>7, <1>8, <1>13, <1>15, FileCells
<1> QED
  BY <1>16, <1>17 DEF Exact

LEMMA PurgeKeeps ==
    ASSUME Serial, Exact, NEW c \in Clients, PurgeBlock(c) \/ CreatePurgeBlock(c) PROVE Exact'
<1>1. PICK b \in client[c].todo : NextBlock(c, b) /\ \E g : Erase(g, b)
  BY DEF PurgeBlock, CreatePurgeBlock
<1>2. PICK y, D : y = client[c] /\ D = y.todo \ {b}
  OBVIOUS
<1>3. PICK w : w = [y EXCEPT !.todo = D]
  OBVIOUS
<1>4. y.pc \in {"purge", "createPurge"} /\ UNCHANGED <<meta, registry, state, mu, truth, crashes>>
  BY <1>2 DEF PurgeBlock, CreatePurgeBlock, At, memory, ghost, bounds
<1>5. Others(c) /\ GenInv' /\ y \in ClientRec /\ D \in SUBSET Blocks /\ mu \in [States -> Clients \cup {None}]
  BY <1>2, <1>4, OthersBusy, PurgeSteps, SerialOpens, ExactGen DEF Quiet, Exact, SerialInv, GenInv, Types, ClientRec
<1>6. client' = [client EXCEPT ![c] = w]
  BY <1>1, <1>2, <1>3 DEF NextBlock, Exact, SerialInv, GenInv, Types
<1>7. w \in ClientRec /\ w.pc = y.pc /\ w.st = y.st /\ w.generation = y.generation
  BY <1>3, <1>5 DEF ClientRec
<1>8. Moved(c, w) /\ client'[c] = w
  BY <1>5, <1>6, <1>7, MovedTo, ExactGen DEF Moved
<1>9. Placed(c)' /\ Flushing(c)' /\ Cutting(c)'
  <2>1. Placed(c)
    BY Pcss, ExactGen
  <2> QED
    BY <1>2, <1>4, <1>7, <1>8, <2>1, Elsewhere DEF Placed, Working, Replacing
<1>10. SerialInv'
  <2>1. Fresh'
    BY <1>1, <1>4, FreshErased, ExactGen
  <2>2. c \in Holders <=> w.pc \in Handles \cup {"creating", "createPurge"}
    BY <1>2, <1>7 DEF Holders
  <2> QED
    BY <1>2, <1>4, <1>5, <1>7, <1>8, <1>9, <2>1, <2>2, SerialKept, ExactGen DEF Handles
<1>11. FileInv'
  <2>1. \A x \in Cells : Cell(x) = 0 => Cell(x)' = 0
    BY <1>1, <1>4, CellErased, ExactGen
  <2> QED
    BY <1>2, <1>4, <1>7, <1>8, <1>9, <2>1, FileCells
<1> QED
  BY <1>10, <1>11 DEF Exact

LEMMA TruncateBlockKeeps ==
    ASSUME Serial, Exact, NEW c \in Clients, TruncateBlock(c) PROVE Exact'
<1>1. PICK b \in client[c].todo : NextBlock(c, b) /\ Erase(client[c].generation, b)
  BY DEF TruncateBlock
<1>2. PICK y, D, S, g, n : y = client[c] /\ D = y.todo \ {b} /\ S = state[registry] /\ g = y.generation /\ n = y.size
  OBVIOUS
<1>3. PICK w : w = [y EXCEPT !.todo = D]
  OBVIOUS
<1>4. y.pc = "truncate" /\ UNCHANGED <<meta, registry, state, mu, truth, crashes>>
  BY <1>2 DEF TruncateBlock, At, memory, ghost, bounds
<1>5. Others(c) /\ GenInv'
  BY <1>2, <1>4, OthersBusy, TruncateBlockSteps, SerialOpens, ExactGen DEF Quiet
<1>6. /\ y \in ClientRec /\ D \in SUBSET Blocks /\ b \in Blocks /\ y.st = registry /\ S \in StateRec /\ c \in Holders
      /\ g \in 1 .. MaxGen /\ n \in Nat /\ mu \in [States -> Clients \cup {None}]
  BY <1>2, <1>4, Handle, Grounds DEF Handles, ClientRec
<1>7. client' = [client EXCEPT ![c] = w]
  BY <1>1, <1>2, <1>3 DEF NextBlock, Exact, SerialInv, GenInv, Types
<1>8. w \in ClientRec /\ w.pc = "truncate" /\ w.st = y.st /\ w.generation = g /\ w.todo = D /\ w.size = n
  BY <1>2, <1>3, <1>4, <1>6 DEF ClientRec
<1>9. Moved(c, w) /\ client'[c] = w
  BY <1>5, <1>7, <1>8, MovedTo, ExactGen DEF Moved
<1>10. Placed(c) /\ Cutting(c)
  BY Pcss DEF Exact, FileInv
<1>11. Placed(c)'
  BY <1>2, <1>4, <1>6, <1>8, <1>9, <1>10 DEF Placed, Working
<1>12. \A x \in Cells : blocks'[g][x] = IF x \div BlockSize = b THEN 0 ELSE blocks[g][x]
  BY <1>1, <1>2, <1>6, EraseIs, ExactGen
<1>13. b * BlockSize >= n /\ b \notin S.dirty
  <2>1. b * BlockSize >= n /\ (b \in S.dirty => b * BlockSize < n) /\ b * BlockSize \in Nat
    BY <1>1, <1>2, <1>4, <1>6, <1>10, CellsNat DEF Cutting
  <2> QED
    BY <1>6, <2>1
<1>14. ASSUME NEW x \in Cells, x < n PROVE x \div BlockSize # b
  BY <1>6, <1>13, <1>14, CellBlock, CellsNat
<1>15. Cutting(c)'
  <2>1. truth.size = n /\ (D # {} => n < S.size)
    BY <1>1, <1>2, <1>4, <1>10 DEF Cutting
  <2>2. \A d \in S.dirty : d * BlockSize < n
    BY <1>2, <1>4, <1>10 DEF Cutting
  <2>3. \A d \in D : d * BlockSize >= n
    BY <1>2, <1>4, <1>10 DEF Cutting
  <2>4. ASSUME NEW x \in Cells, x < n PROVE Page(S, g, x)' = truth.cells[x]
    <3>1. Page(S, g, x) = truth.cells[x]
      BY <1>2, <1>4, <1>10, <2>4 DEF Cutting
    <3>2. blocks'[g][x] = blocks[g][x]
      BY <1>12, <1>14, <2>4
    <3> QED
      BY <3>1, <3>2 DEF Page
  <2>5. ASSUME NEW x \in Cells, x >= n PROVE x \div BlockSize \in D \/ Page(S, g, x)' = 0
    <3>1. x \div BlockSize \in y.todo \/ Page(S, g, x) = 0
      BY <1>2, <1>4, <1>10, <2>5 DEF Cutting
    <3>2. CASE x \div BlockSize = b
      BY <1>12, <1>13, <3>2 DEF Page
    <3>3. CASE x \div BlockSize # b
      <4>1. blocks'[g][x] = blocks[g][x]
        BY <1>12, <3>3
      <4> QED
        BY <1>2, <3>1, <3>3, <4>1 DEF Page
    <3> QED
      BY <3>2, <3>3
  <2>6. \A x \in Cells : x < n => Page(state[registry], client[c].generation, x)' = truth.cells[x]
    BY <1>2, <1>4, <1>8, <1>9, <2>4 DEF Page
  <2>7. \A x \in Cells : x >= n => x \div BlockSize \in D \/ Page(state[registry], client[c].generation, x)' = 0
    BY <1>2, <1>4, <1>8, <1>9, <2>5 DEF Page
  <2> QED
    BY <1>2, <1>4, <1>8, <1>9, <2>1, <2>2, <2>3, <2>6, <2>7 DEF Cutting
<1>16. Flushing(c)'
  BY <1>8, <1>9 DEF Flushing
<1>17. SerialInv'
  <2>1. Fresh'
    BY <1>1, <1>4, FreshErased, ExactGen
  <2> QED
    BY <1>2, <1>4, <1>5, <1>6, <1>8, <1>9, <1>11, <2>1, SerialKept, ExactGen DEF Handles
<1>18. FileInv'
  BY <1>4, <1>8, <1>9, <1>15, <1>16, FileCells
<1> QED
  BY <1>17, <1>18 DEF Exact

-----------------------------------------------------------------------------
(* Calls that change the registered state.                                 *)

\* The call of a handle that is not stale leaves z in the registered state.
Changes(c, w, z) ==
    /\ client[c].pc \in Handles /\ Moved(c, w) /\ w.pc \in Handles /\ w.st = registry
    /\ w.generation = client[c].generation /\ client[c].generation = state[registry].generation
    /\ z \in StateRec /\ registry' = registry /\ state' = [state EXCEPT ![registry] = z]
    /\ z.generation = state[registry].generation /\ z.refCount = state[registry].refCount
    /\ SameFile /\ UNCHANGED <<blocks, crashes>>

LEMMA ChangesIs ==
    ASSUME Exact, NEW c \in Clients, NEW w, NEW z, Changes(c, w, z)
    PROVE  /\ client'[c] = w /\ state'[registry] = z /\ Known /\ Known' /\ registry \in States
           /\ meta'.generation = meta.generation /\ meta.generation = w.generation /\ w.generation \in 1 .. MaxGen
           /\ Size' = z.size /\ \A x \in Cells : Cell(x)' = Page(z, w.generation, x)
           /\ Size = state[registry].size /\ \A x \in Cells : Cell(x) = Page(state[registry], w.generation, x)
<1>1. /\ client[c].pc \in Handles /\ Moved(c, w) /\ Others(c) /\ z \in StateRec /\ registry' = registry
      /\ state' = [state EXCEPT ![registry] = z] /\ UNCHANGED blocks
  BY DEF Changes, Moved
<1>2. client'[c] = w /\ registry \in States /\ registry # None /\ state'[registry] = z
  BY <1>1, MovedTo, Handle, ExactGen
<1>3. Known /\ state[registry].generation = meta.generation /\ meta.generation # 0
  BY <1>1, HandleKnown, Handle
<1>4. meta'.generation = meta.generation
  BY DEF Changes, SameFile
<1>5. meta.generation = w.generation /\ w.generation \in 1 .. MaxGen /\ z.generation = meta.generation
  BY <1>1, <1>3, Handle DEF Changes
<1>6. Known'
  BY <1>1, <1>2, <1>3, <1>4, <1>5 DEF Known
<1>7. Size' = z.size /\ Size = state[registry].size
  BY <1>1, <1>2, <1>3, <1>6 DEF Size
<1>8. \A x \in Cells : Cell(x)' = Page(z, w.generation, x)
  BY <1>1, <1>2, <1>3, <1>4, <1>5, <1>6 DEF Cell, Page
<1>9. \A x \in Cells : Cell(x) = Page(state[registry], w.generation, x)
  BY <1>3, <1>5 DEF Cell
<1> QED
  BY <1>2, <1>3, <1>4, <1>5, <1>6, <1>7, <1>8, <1>9

LEMMA SerialChanges ==
    ASSUME Exact, NEW c \in Clients, NEW w, NEW z, Changes(c, w, z), GenInv',
           mu' \in [States -> Clients \cup {None}], w.pc \in Working => mu'[registry] = c
    PROVE  SerialInv'
<1>1. /\ client'[c] = w /\ state'[registry] = z /\ Known /\ meta'.generation = meta.generation /\ registry \in States
      /\ meta.generation = w.generation
  BY ChangesIs
<1>2. c \in Holders /\ registry' = registry /\ registry # None /\ Moved(c, w) /\ meta.generation \in Nat
  BY Handle DEF Changes
<1>3. Placed(c)'
  BY <1>1, <1>2 DEF Placed, Changes, Handles
<1>4. Counts'
  BY <1>1, <1>2, CountsKept, ExactGen DEF Changes
<1>5. Agreed'
  BY <1>1, <1>2 DEF Agreed, Changes
<1>6. Watched'
  BY <1>1, <1>2 DEF Watched, Changes
<1>7. Fresh'
  BY <1>1 DEF Changes, SameFile, Exact, SerialInv, Fresh
<1> QED
  BY <1>2, <1>3, <1>4, <1>5, <1>6, <1>7, SerialStep, ExactGen

LEMMA FileChanges ==
    ASSUME Exact, NEW c \in Clients, NEW w, NEW z, Changes(c, w, z), Ended',
           \A b \in z.dirty : b * BlockSize < z.size, ~z.metaDirty => z.size = StoredSize',
           w.pc # "truncate" =>
               /\ z.size = truth'.size
               /\ \A x \in Cells : x < truth'.size => Page(z, w.generation, x) = truth'.cells[x]
               /\ crashes = 0 => \A x \in Cells : x >= z.size => Page(z, w.generation, x) = 0,
           Flushing(c)', Cutting(c)'
    PROVE  FileInv'
<1>1. /\ state'[registry] = z /\ Known' /\ Size' = z.size /\ registry' = registry /\ Moved(c, w) /\ UNCHANGED crashes
      /\ \A x \in Cells : Cell(x)' = Page(z, w.generation, x)
  BY ChangesIs DEF Changes
<1>2. {"purge", "createPurge", "truncate"} \cap Quiet = {} /\ {"truncate"} \cap Quiet = {}
  BY DEF Quiet
<1>3. /\ Nobody({"purge", "createPurge", "truncate"})' => w.pc # "truncate"
      /\ Nobody({"truncate"})' => w.pc # "truncate"
  BY <1>1, <1>2, MovedTo, ExactGen
<1>4. Below' /\ Linked'
  BY <1>1 DEF Below, Linked, Known
<1>5. Same' /\ Tail'
  BY <1>1, <1>3 DEF Same, Tail, Exact, FileInv
<1> QED
  BY <1>1, <1>4, <1>5, FileStep, ExactGen

\* When a call that writes starts, the state and the store hold the file.
LEMMA Whole ==
    ASSUME Serial, Exact, NEW c \in Clients, client[c].pc = "idle", Others(c), MayWrite
    PROVE  /\ Known /\ crashes = 0 /\ state[registry].size = truth.size
           /\ \A x \in Cells : Page(state[registry], meta.generation, x) = truth.cells[x]
<1>1. Known /\ crashes = 0 /\ meta.generation # 0
  BY HandleKnown DEF Handles, MayWrite, Serial, Known
<1>2. Nobody({"purge", "createPurge", "truncate"}) /\ Nobody({"truncate"})
  BY DEF Nobody, Others, Quiet
<1>3. state[registry].size = truth.size
  BY <1>1, <1>2 DEF Exact, FileInv, Same, Size
<1>4. ASSUME NEW x \in Cells PROVE Page(state[registry], meta.generation, x) = truth.cells[x]
  <2>1. x < truth.size => Cell(x) = truth.cells[x]
    BY <1>2 DEF Exact, FileInv, Same
  <2>2. x >= truth.size => Cell(x) = 0 /\ truth.cells[x] = 0
    BY <1>1, <1>2, <1>3 DEF Exact, FileInv, Tail, Ended, Size
  <2>3. x \in Nat /\ truth.size \in Nat
    BY CellsNat, Grounds DEF Exact, FileInv, Ended
  <2> QED
    BY <1>1, <2>1, <2>2, <2>3 DEF Cell
<1> QED
  BY <1>1, <1>3, <1>4

LEMMA TwoMax ==
    ASSUME NEW a \in Nat, NEW b \in Nat
    PROVE  Max({a, b}) = IF a >= b THEN a ELSE b
<1>1. PICK S : S = {a, b}
  OBVIOUS
<1>2. \E x \in S : \A v \in S : x >= v
  BY <1>1
<1>3. Max(S) \in S /\ \A v \in S : Max(S) >= v
  BY <1>2 DEF Max
<1> QED
  BY <1>1, <1>3

\* Loading pages changes nothing of what is read.
LEMMA LoadedIs ==
    ASSUME NEW st \in StateRec, NEW g, NEW bs
    PROVE  /\ Loaded(st, g, bs).dirty = st.dirty \cup bs /\ Loaded(st, g, bs).metaDirty = st.metaDirty
           /\ Loaded(st, g, bs).refCount = st.refCount
           /\ \A x \in Cells : Loaded(st, g, bs).cells[x] = IF x \div BlockSize \in bs THEN Page(st, g, x) ELSE st.cells[x]
<1>1. PICK D, K : /\ D = st.dirty \cup bs
                  /\ K = [z \in Cells |-> IF z \div BlockSize \in bs THEN Page(st, g, z) ELSE st.cells[z]]
  OBVIOUS
<1>2. PICK l : l = Loaded(st, g, bs)
  OBVIOUS
<1>3. l = [st EXCEPT !.dirty = D, !.cells = K]
  BY <1>1, <1>2 DEF Loaded
<1>4. l.dirty = D /\ l.cells = K /\ l.metaDirty = st.metaDirty /\ l.refCount = st.refCount
  BY <1>3 DEF StateRec
<1>5. \A x \in Cells : K[x] = IF x \div BlockSize \in bs THEN Page(st, g, x) ELSE st.cells[x]
  BY <1>1
<1> QED
  BY <1>1, <1>2, <1>4, <1>5

LEMMA LoadedPage ==
    ASSUME NEW st \in StateRec, NEW g, NEW bs, NEW x \in Cells
    PROVE  Page(Loaded(st, g, bs), g, x) = Page(st, g, x)
<1>1. PICK l : l = Loaded(st, g, bs)
  OBVIOUS
<1>2. l.dirty = st.dirty \cup bs /\ l.cells[x] = IF x \div BlockSize \in bs THEN Page(st, g, x) ELSE st.cells[x]
  BY <1>1, LoadedIs
<1> QED
  BY <1>1, <1>2 DEF Page

LEMMA WriteKeeps ==
    ASSUME Serial, Exact, NEW c \in Clients, NEW a \in Cells, NEW b \in Cells, a <= b, Write(c, a, b)
    PROVE  Exact'
<1>1. PICK y, S, g, bs : y = client[c] /\ S = state[registry] /\ g = y.generation /\ bs = {x \div BlockSize : x \in a .. b}
  OBVIOUS
<1>2. /\ y.pc = "idle" /\ Free(c) /\ mu[y.st] = None /\ MayWrite /\ g = state[y.st].generation
      /\ UNCHANGED <<meta, blocks, registry, crashes>> /\ writes' = writes + 1
  BY <1>1 DEF Write, Enter, Valid, disk
<1>3. /\ y \in ClientRec /\ y.st = registry /\ registry \in States /\ S \in StateRec /\ g \in 1 .. MaxGen
      /\ mu \in [States -> Clients \cup {None}] /\ Others(c) /\ GenInv'
  BY <1>1, <1>2, Handle, OthersIdle, WriteSteps, SerialOpens, ExactGen DEF Handles
<1>4. a \in Nat /\ b \in Nat /\ a .. b \subseteq Cells /\ bs \in SUBSET Blocks /\ b + 1 \in Sizes
  BY <1>1, VFSFileAssumption DEF Cells, Blocks, Sizes
<1>5. PICK st, n, K, m : /\ st = Loaded(S, g, bs) /\ n = Max({b + 1, st.size})
                         /\ K = [x \in Cells |-> IF x \in a .. b THEN writes + 1 ELSE st.cells[x]]
                         /\ m = (st.metaDirty \/ b >= st.size)
  OBVIOUS
<1>6. PICK z : z = [st EXCEPT !.cells = K, !.size = n, !.metaDirty = m]
  OBVIOUS
<1>7. state' = [state EXCEPT ![registry] = z]
  BY <1>1, <1>3, <1>5, <1>6 DEF Write
<1>8. /\ st \in StateRec /\ st.generation = S.generation /\ st.size = S.size /\ st.refCount = S.refCount
      /\ st.dirty = S.dirty \cup bs /\ st.metaDirty = S.metaDirty
  <2>1. st \in StateRec /\ st.generation = S.generation /\ st.size = S.size
    BY <1>3, <1>4, <1>5, LoadedRec, ExactGen DEF GenInv
  <2> QED
    BY <1>3, <1>5, <2>1, LoadedIs
<1>9. S.size \in Sizes /\ S.size \in Nat /\ n = (IF b + 1 >= S.size THEN b + 1 ELSE S.size) /\ n \in Sizes /\ n \in Nat
  <2>1. S.size \in Sizes /\ S.size \in Nat
    BY <1>3, Grounds DEF StateRec
  <2>2. Max({b + 1, S.size}) = (IF b + 1 >= S.size THEN b + 1 ELSE S.size)
    BY <1>4, <2>1, TwoMax
  <2> QED
    BY <1>4, <1>5, <1>8, <2>1, <2>2
<1>10. K \in Rows /\ m \in BOOLEAN /\ \A x \in Cells : K[x] = IF x \in a .. b THEN writes + 1 ELSE st.cells[x]
  <2>1. st.cells \in Rows /\ writes + 1 \in Nat
    BY <1>8 DEF StateRec, Exact, SerialInv, GenInv, Types
  <2> QED
    BY <1>5, <2>1 DEF Rows
<1>11. /\ z \in StateRec /\ z.cells = K /\ z.size = n /\ z.metaDirty = m /\ z.dirty = S.dirty \cup bs
       /\ z.generation = S.generation /\ z.refCount = S.refCount
  BY <1>6, <1>8, <1>9, <1>10 DEF StateRec
<1>12. PICK w : /\ w \in ClientRec /\ client' = [client EXCEPT ![c] = w] /\ w.pc \in {"idle", "flush"} /\ w.st = registry
                /\ w.generation = g /\ (w.pc = "flush" => w.todo = z.dirty)
                /\ mu' \in [States -> Clients \cup {None}] /\ (w.pc = "flush" => mu'[registry] = c)
  <2>1. StartFlush(c, registry, "return") \/ UNCHANGED <<mu, client>>
    BY <1>1, <1>3, <1>5 DEF Write
  <2>2. CASE UNCHANGED <<mu, client>>
    <3>1. client' = [client EXCEPT ![c] = y]
      BY <1>1, <2>2 DEF Exact, SerialInv, GenInv, Types
    <3> QED
      BY <1>1, <1>2, <1>3, <2>2, <3>1
  <2>3. CASE StartFlush(c, registry, "return")
    <3>1. PICK D : D = z.dirty
      OBVIOUS
    <3>2. PICK v : v = [y EXCEPT !.pc = "flush", !.todo = D, !.after = "return"]
      OBVIOUS
    <3>3. state'[registry] = z
      BY <1>3, <1>7 DEF Exact, SerialInv, GenInv, Types
    <3>4. client' = [client EXCEPT ![c] = v]
      BY <1>1, <2>3, <3>1, <3>2, <3>3 DEF StartFlush, Exact, SerialInv, GenInv, Types
    <3>5. D \in SUBSET Blocks
      BY <1>11, <3>1 DEF StateRec
    <3>6. v \in ClientRec /\ v.pc = "flush" /\ v.st = registry /\ v.generation = g /\ v.todo = z.dirty
      BY <1>1, <1>3, <3>1, <3>2, <3>5 DEF ClientRec, Pcs, Handles
    <3>7. mu' \in [States -> Clients \cup {None}] /\ mu'[registry] = c
      BY <1>3, <2>3, MuSet DEF StartFlush
    <3> QED
      BY <3>4, <3>6, <3>7
  <2> QED
    BY <2>1, <2>2, <2>3
<1>13. Changes(c, w, z)
  BY <1>1, <1>2, <1>3, <1>7, <1>11, <1>12, Untouched, ExactGen DEF Changes, Moved, Handles
<1>14. client'[c] = w /\ state'[registry] = z /\ Known /\ meta.generation = g
  BY <1>12, <1>13, ChangesIs
<1>15. SerialInv'
  BY <1>3, <1>12, <1>13, SerialChanges DEF Working
<1>16. /\ crashes = 0 /\ S.size = truth.size /\ truth \in [size : Sizes, cells : Rows]
       /\ \A x \in Cells : Page(S, g, x) = truth.cells[x] /\ (x >= truth.size => truth.cells[x] = 0)
  BY <1>1, <1>2, <1>3, <1>14, Whole DEF Exact, FileInv, Ended
<1>17. PICK N, T : N = Max({b + 1, truth.size}) /\ T = [x \in Cells |-> IF x \in a .. b THEN writes + 1 ELSE truth.cells[x]]
  OBVIOUS
<1>18. /\ truth' = [size |-> N, cells |-> T] /\ truth'.size = N /\ truth'.cells = T /\ N = n
       /\ \A x \in Cells : T[x] = IF x \in a .. b THEN writes + 1 ELSE truth.cells[x]
  <2>1. truth' = [size |-> N, cells |-> T]
    BY <1>17 DEF Write
  <2>2. N = n
    BY <1>5, <1>8, <1>16, <1>17
  <2> QED
    BY <1>17, <2>1, <2>2
<1>19. \A x \in Cells : Page(z, g, x) = T[x]
  <2> SUFFICES ASSUME NEW x \in Cells PROVE Page(z, g, x) = T[x]
    OBVIOUS
  <2>1. CASE x \in a .. b
    <3>1. x \div BlockSize \in z.dirty
      BY <1>1, <1>11, <2>1
    <3> QED
      BY <1>10, <1>11, <1>18, <2>1, <3>1 DEF Page
  <2>2. CASE x \notin a .. b
    <3>1. Page(st, g, x) = Page(S, g, x)
      BY <1>3, <1>5, LoadedPage
    <3>2. Page(z, g, x) = Page(st, g, x)
      BY <1>8, <1>10, <1>11, <2>2 DEF Page
    <3> QED
      BY <1>16, <1>18, <2>2, <3>1, <3>2
  <2> QED
    BY <2>1, <2>2
<1>20. ASSUME NEW x \in Cells, x >= n PROVE T[x] = 0
  <2>1. x \in Nat /\ x \notin a .. b /\ x >= truth.size
    BY <1>4, <1>9, <1>16, <1>20, CellsNat
  <2> QED
    BY <1>16, <1>18, <2>1
<1>21. Ended'
  <2>1. T \in Rows
    <3>1. truth.cells \in Rows /\ writes + 1 \in Nat
      BY <1>16 DEF Exact, SerialInv, GenInv, Types
    <3> QED
      BY <1>17, <3>1 DEF Rows
  <2> QED
    BY <1>9, <1>18, <1>20, <2>1 DEF Ended
<1>22. \A d \in z.dirty : d * BlockSize < z.size
  <2> SUFFICES ASSUME NEW d \in z.dirty PROVE d * BlockSize < n
    BY <1>11
  <2>1. CASE d \in S.dirty
    <3>1. d * BlockSize < S.size /\ registry # None /\ d \in Blocks
      BY <1>1, <1>3, <2>1, VFSFileAssumption DEF Exact, FileInv, Below, StateRec
    <3> QED
      BY <1>4, <1>9, <3>1, CellsNat
  <2>2. CASE d \in bs
    <3>1. PICK x \in a .. b : d = x \div BlockSize
      BY <1>1, <2>2
    <3>2. x \in Nat /\ x < b + 1
      BY <1>4, <3>1
    <3>3. d * BlockSize <= x /\ d * BlockSize \in Nat
      BY <3>1, <3>2, CellBlock
    <3> QED
      BY <1>4, <1>9, <3>2, <3>3
  <2> QED
    BY <1>11, <2>1, <2>2
<1>23. ~z.metaDirty => z.size = StoredSize'
  <2> SUFFICES ASSUME ~m PROVE n = StoredSize
    BY <1>2, <1>11 DEF StoredSize
  <2>1. ~S.metaDirty /\ ~(b >= S.size)
    BY <1>5, <1>8, <1>10
  <2>2. n = S.size
    BY <1>4, <1>9, <2>1
  <2> QED
    BY <1>1, <1>14, <2>1, <2>2 DEF Exact, FileInv, Linked
<1>24. Flushing(c)' /\ Cutting(c)'
  <2>1. registry' = registry
    BY <1>2
  <2> QED
    BY <1>12, <1>14, <2>1 DEF Flushing, Cutting
<1>25. FileInv'
  BY <1>11, <1>12, <1>13, <1>18, <1>19, <1>20, <1>21, <1>22, <1>23, <1>24, FileChanges
<1> QED
  BY <1>15, <1>25 DEF Exact

\* A call comes back to its handle.
LEMMA BackMoved ==
    ASSUME Exact, NEW c \in Clients, client[c].pc \in Handles, Others(c), Back(c, client[c].st)
    PROVE  \E w : Moved(c, w) /\ w.pc = "idle" /\ w.st = registry /\ w.generation = client[c].generation
<1>1. PICK o, s, g : o = Outside /\ s = client[c].st /\ g = client[c].generation
  OBVIOUS
<1>2. PICK w : w = [o EXCEPT !.pc = "idle", !.st = s, !.generation = g]
  OBVIOUS
<1>3. client' = [client EXCEPT ![c] = w]
  BY <1>1, <1>2 DEF Back
<1>4. o \in ClientRec /\ s \in States /\ g \in Gens /\ s = registry /\ "idle" \in Pcs
  BY <1>1, Handle, Grounds DEF Gens, Pcs, Handles
<1>5. w \in ClientRec /\ w.pc = "idle" /\ w.st = registry /\ w.generation = g
  BY <1>2, <1>4 DEF ClientRec
<1> QED
  BY <1>1, <1>3, <1>5 DEF Moved

LEMMA CleanIs ==
    ASSUME NEW st \in StateRec
    PROVE  /\ Clean(st) \in StateRec /\ Clean(st).dirty = {} /\ Clean(st).metaDirty = FALSE /\ Clean(st).size = st.size
           /\ Clean(st).generation = st.generation /\ Clean(st).refCount = st.refCount
<1>1. PICK k : k = Zeros /\ k \in Rows
  BY Grounds
<1> QED
  BY <1>1 DEF Clean, StateRec

\* At the end of a flush the store has what the state had.
LEMMA FlushedPage ==
    ASSUME Exact, NEW c \in Clients, client[c].pc = "save", NEW x \in Cells
    PROVE  Page(state[registry], client[c].generation, x) = blocks[client[c].generation][x]
<1>1. Flushing(c)
  BY DEF Exact, FileInv
<1> QED
  BY <1>1 DEF Flushing, Page

\* After its metadata a flush returns, or goes on to the barrier of Sync.
LEMMA Saved ==
    ASSUME Exact, NEW c \in Clients, SavePut(c)
    PROVE  /\ client[c].pc = "save" /\ client[c].st = registry /\ registry \in States /\ Others(c)
           /\ \E w : /\ Moved(c, w) /\ w.pc \in {"idle", "barrier"} /\ w.st = registry
                    /\ w.generation = client[c].generation
                    /\ mu' \in [States -> Clients \cup {None}] /\ (w.pc = "barrier" => mu'[registry] = c)
<1>1. client[c].pc = "save" /\ client[c].pc \in Handles
  BY DEF SavePut, At, Handles
<1>2. client[c].st = registry /\ registry \in States /\ Others(c)
  BY <1>1, Handle, OthersBusy, ExactGen DEF Quiet
<1>3. CASE Back(c, registry) /\ mu' = [mu EXCEPT ![registry] = None]
  <2>1. mu' \in [States -> Clients \cup {None}]
    BY <1>2, <1>3, MuSet
  <2> QED
    BY <1>1, <1>2, <1>3, <2>1, BackMoved
<1>4. CASE Move(c, "barrier") /\ UNCHANGED mu
  <2>1. PICK y : y = client[c]
    OBVIOUS
  <2>2. PICK w : w = [y EXCEPT !.pc = "barrier"]
    OBVIOUS
  <2>3. y \in ClientRec /\ Placed(c) /\ mu \in [States -> Clients \cup {None}]
    BY <2>1, Pcss, ExactGen DEF SerialInv
  <2>4. client' = [client EXCEPT ![c] = w]
    BY <1>4, <2>1, <2>2 DEF Move, Exact, SerialInv, GenInv, Types
  <2>5. w \in ClientRec /\ w.pc = "barrier" /\ w.st = y.st /\ w.generation = y.generation
    BY <2>2, <2>3 DEF ClientRec, Pcs, Handles
  <2>6. mu[registry] = c
    BY <1>1, <2>3 DEF Placed, Working
  <2> QED
    BY <1>1, <1>2, <1>4, <2>1, <2>3, <2>4, <2>5, <2>6 DEF Moved
<1> QED
  BY <1>1, <1>2, <1>3, <1>4 DEF SavePut

LEMMA SavePutKeeps ==
    ASSUME Serial, Exact, NEW c \in Clients, SavePut(c) PROVE Exact'
<1>1. PICK y, S, g : y = client[c] /\ S = state[registry] /\ g = y.generation
  OBVIOUS
<1>2. y.pc = "save" /\ y.pc \in Handles
  BY <1>1 DEF SavePut, At, Handles
<1>3. /\ y.st = registry /\ registry \in States /\ S \in StateRec /\ g \in 1 .. MaxGen /\ Others(c) /\ GenInv'
  BY <1>1, <1>2, Handle, OthersBusy, SavePutSteps, SerialOpens, ExactGen DEF Quiet
<1>4. /\ UNCHANGED <<blocks, registry, truth, crashes>>
      /\ meta' = [size |-> S.size, generation |-> g, deleted |-> FALSE]
      /\ state' = [state EXCEPT ![registry] = Clean(S)]
  BY <1>1, <1>3 DEF SavePut, At, bounds, ghost
<1>5. PICK w : /\ Moved(c, w) /\ w.pc \in {"idle", "barrier"} /\ w.st = registry /\ w.generation = g
               /\ mu' \in [States -> Clients \cup {None}] /\ (w.pc = "barrier" => mu'[registry] = c)
  BY <1>1, Saved
<1>6. g = S.generation /\ g = meta.generation
  BY <1>1, <1>2, <1>3, Pcss, HandleKnown, ExactGen DEF Placed, Working
<1>7. SameFile
  <2>1. S.size \in Sizes /\ meta.generation <= client[c].generation
    BY <1>1, <1>3, <1>6 DEF StateRec
  <2> QED
    BY <1>1, <1>2, <1>4, <2>1, SaveKeeps, ExactGen
<1>8. PICK z : z = Clean(S)
  OBVIOUS
<1>9. z \in StateRec /\ z.dirty = {} /\ z.metaDirty = FALSE /\ z.size = S.size /\ z.generation = S.generation /\ z.refCount = S.refCount
  BY <1>3, <1>8, CleanIs
<1>10. Changes(c, w, z)
  BY <1>1, <1>2, <1>4, <1>5, <1>6, <1>7, <1>8, <1>9 DEF Changes, Handles
<1>11. SerialInv'
  BY <1>3, <1>5, <1>10, SerialChanges DEF Working
<1>12. Nobody({"purge", "createPurge", "truncate"}) /\ Nobody({"truncate"})
  BY <1>1, <1>2, <1>3 DEF Nobody, Others, Quiet
<1>13. /\ Known /\ Size = S.size /\ client'[c] = w /\ state'[registry] = z
       /\ \A x \in Cells : Cell(x) = Page(S, g, x)
  BY <1>1, <1>5, <1>10, ChangesIs
<1>14. \A x \in Cells : Page(z, g, x) = Page(S, g, x)
  BY <1>1, <1>2, <1>9, FlushedPage DEF Page
<1>15. /\ S.size = truth.size
       /\ \A x \in Cells : x < truth.size => Page(z, g, x) = truth.cells[x]
       /\ crashes = 0 => \A x \in Cells : x >= z.size => Page(z, g, x) = 0
  BY <1>9, <1>12, <1>13, <1>14 DEF Exact, FileInv, Same, Tail
<1>16. Ended'
  BY <1>4 DEF Exact, FileInv, Ended
<1>17. StoredSize' = S.size
  BY <1>4 DEF StoredSize
<1>18. Flushing(c)' /\ Cutting(c)'
  BY <1>4, <1>5, <1>9, <1>13 DEF Flushing, Cutting
<1>19. FileInv'
  BY <1>4, <1>5, <1>9, <1>10, <1>15, <1>16, <1>17, <1>18, FileChanges
<1> QED
  BY <1>11, <1>19 DEF Exact

\* A block that starts below an end and reaches it is the last one, and partial.
LEMMA LastBlock ==
    ASSUME NEW x \in Nat, NEW n \in Nat, (x \div BlockSize) * BlockSize < n, x >= n
    PROVE  x \div BlockSize = n \div BlockSize /\ n % BlockSize > 0
<1>1. PICK p, q : p = x \div BlockSize /\ q = n \div BlockSize
  OBVIOUS
<1>2. /\ p \in Nat /\ p * BlockSize \in Nat /\ p * BlockSize <= x /\ x < p * BlockSize + BlockSize
      /\ q \in Nat /\ q * BlockSize \in Nat /\ q * BlockSize <= n /\ n < q * BlockSize + BlockSize /\ BlockSize \in Nat
  BY <1>1, CellBlock, VFSFileAssumption
<1>3. ~(p < q)
  <2> SUFFICES ASSUME p < q PROVE FALSE
    OBVIOUS
  <2>1. p * BlockSize + BlockSize <= q * BlockSize
    BY <1>2, BlockOrder
  <2> QED
    BY <1>2, <2>1
<1>4. ~(q < p)
  <2> SUFFICES ASSUME q < p PROVE FALSE
    OBVIOUS
  <2>1. q * BlockSize + BlockSize <= p * BlockSize
    BY <1>2, BlockOrder
  <2> QED
    BY <1>1, <1>2, <2>1
<1>5. p = q
  BY <1>2, <1>3, <1>4
<1>6. n % BlockSize \in Nat
  BY VFSFileAssumption
<1>7. n = ((n \div BlockSize) * BlockSize) + (n % BlockSize)
  BY VFSFileAssumption
<1> QED
  BY <1>1, <1>2, <1>5, <1>6, <1>7

LEMMA CutIs ==
    ASSUME Types, NEW st \in StateRec, NEW g \in 1 .. MaxGen, NEW size \in Sizes
    PROVE  /\ Cut(st, g, size).size = st.size /\ Cut(st, g, size).metaDirty = st.metaDirty
           /\ Cut(st, g, size).refCount = st.refCount
           /\ \A b \in Cut(st, g, size).dirty : b * BlockSize < size
           /\ \A x \in Cells :
                 /\ x < size => Page(Cut(st, g, size), g, x) = Page(st, g, x)
                 /\ x >= size /\ (x \div BlockSize) * BlockSize < size => Page(Cut(st, g, size), g, x) = 0
                 /\ (x \div BlockSize) * BlockSize >= size => Page(Cut(st, g, size), g, x) = blocks[g][x]
<1>1. PICK last, l : /\ last = size \div BlockSize
                     /\ l = IF size % BlockSize > 0 /\ \E x \in Of(last) : Page(st, g, x) # 0
                              THEN Loaded(st, g, {last}) ELSE st
  OBVIOUS
<1>2. PICK D, K : D = {b \in l.dirty : b * BlockSize < size} /\ K = Wiped(l.cells, size)
  OBVIOUS
<1>3. PICK q : q = [l EXCEPT !.dirty = D, !.cells = K]
  OBVIOUS
<1>4. Cut(st, g, size) = q
  BY <1>1, <1>2, <1>3 DEF Cut
<1>5. CASE size % BlockSize > 0 /\ \E x \in Of(last) : Page(st, g, x) # 0
  <2>1. {last} \in SUBSET Blocks
    BY <1>5 DEF Of, Blocks
  <2>2. l = Loaded(st, g, {last})
    BY <1>1, <1>5
  <2>3. l \in StateRec /\ l.size = st.size
    BY <2>1, <2>2, LoadedRec
  <2>4. l.dirty = st.dirty \cup {last} /\ l.metaDirty = st.metaDirty /\ l.refCount = st.refCount
    BY <2>2, LoadedIs
  <2>5. \A x \in Cells : Page(l, g, x) = Page(st, g, x)
    BY <2>2, LoadedPage
  <2>6. q.size = st.size /\ q.metaDirty = st.metaDirty /\ q.refCount = st.refCount /\ q.dirty = D /\ q.cells = K
    BY <1>3, <2>3, <2>4 DEF StateRec
  <2>7. ASSUME NEW x \in Cells
        PROVE  /\ x < size => Page(q, g, x) = Page(st, g, x)
               /\ x >= size /\ (x \div BlockSize) * BlockSize < size => Page(q, g, x) = 0
               /\ (x \div BlockSize) * BlockSize >= size => Page(q, g, x) = blocks[g][x]
    <3>1. x \in Nat /\ size \in Nat /\ (x \div BlockSize) * BlockSize <= x /\ (x \div BlockSize) * BlockSize \in Nat
      BY CellsNat, Grounds, CellBlock
    <3>2. K[x] = IF x >= size THEN 0 ELSE l.cells[x]
      BY <1>2 DEF Wiped
    <3>3. x < size => Page(q, g, x) = Page(l, g, x)
      BY <1>2, <2>6, <3>1, <3>2 DEF Page
    <3>4. x >= size /\ (x \div BlockSize) * BlockSize < size => x \div BlockSize \in D
      BY <1>1, <1>2, <2>4, <3>1, LastBlock
    <3> QED
      BY <1>2, <2>5, <2>6, <3>1, <3>2, <3>3, <3>4 DEF Page
  <2> QED
    BY <1>2, <1>4, <2>6, <2>7
<1>6. CASE ~(size % BlockSize > 0 /\ \E x \in Of(last) : Page(st, g, x) # 0)
  <2>1. l = st
    BY <1>1, <1>6
  <2>2. q.size = st.size /\ q.metaDirty = st.metaDirty /\ q.refCount = st.refCount /\ q.dirty = D /\ q.cells = K
    BY <1>3, <2>1 DEF StateRec
  <2>3. ASSUME NEW x \in Cells
        PROVE  /\ x < size => Page(q, g, x) = Page(st, g, x)
               /\ x >= size /\ (x \div BlockSize) * BlockSize < size => Page(q, g, x) = 0
               /\ (x \div BlockSize) * BlockSize >= size => Page(q, g, x) = blocks[g][x]
    <3>1. x \in Nat /\ size \in Nat /\ (x \div BlockSize) * BlockSize <= x /\ (x \div BlockSize) * BlockSize \in Nat
      BY CellsNat, Grounds, CellBlock
    <3>2. K[x] = IF x >= size THEN 0 ELSE st.cells[x]
      BY <1>2, <2>1 DEF Wiped
    <3>3. x < size => Page(q, g, x) = Page(st, g, x)
      BY <1>2, <2>1, <2>2, <3>1, <3>2 DEF Page
    <3>4. x >= size /\ (x \div BlockSize) * BlockSize < size => Page(st, g, x) = 0
      <4> SUFFICES ASSUME x >= size, (x \div BlockSize) * BlockSize < size PROVE Page(st, g, x) = 0
        OBVIOUS
      <4>1. x \div BlockSize = last /\ size % BlockSize > 0
        BY <1>1, <3>1, LastBlock
      <4> QED
        BY <1>6, <4>1 DEF Of
    <3>5. x >= size /\ (x \div BlockSize) * BlockSize < size => Page(q, g, x) = 0
      BY <1>2, <2>1, <2>2, <3>2, <3>4 DEF Page
    <3>6. (x \div BlockSize) * BlockSize >= size => Page(q, g, x) = blocks[g][x]
      BY <1>2, <2>2, <3>1 DEF Page
    <3> QED
      BY <3>3, <3>5, <3>6
  <2> QED
    BY <1>2, <1>4, <2>2, <2>3
<1> QED
  BY <1>5, <1>6

LEMMA TruncateKeeps ==
    ASSUME Serial, Exact, NEW c \in Clients, NEW size \in Sizes, Truncate(c, size) PROVE Exact'
<1>1. PICK y, S, g, D : /\ y = client[c] /\ S = state[registry] /\ g = y.generation
                        /\ D = {b \in Blocks : b >= numBlocks(size) /\ b < numBlocks(S.size)}
  OBVIOUS
<1>2. PICK w, z : /\ w = [y EXCEPT !.pc = "truncate", !.size = size, !.todo = D]
                  /\ z = IF size < S.size THEN Cut(S, g, size) ELSE S
  OBVIOUS
<1>3. /\ y.pc = "idle" /\ Free(c) /\ mu[y.st] = None /\ MayWrite /\ g = state[y.st].generation
      /\ UNCHANGED <<meta, blocks, registry, crashes>>
  BY <1>1 DEF Truncate, Enter, Valid, disk
<1>4. /\ y \in ClientRec /\ y.st = registry /\ registry \in States /\ S \in StateRec /\ g \in 1 .. MaxGen
      /\ mu \in [States -> Clients \cup {None}] /\ Others(c) /\ GenInv' /\ D \in SUBSET Blocks
  BY <1>1, <1>3, Handle, OthersIdle, TruncateSteps, SerialOpens, ExactGen DEF Handles
<1>5. /\ state' = [state EXCEPT ![registry] = z] /\ mu' = [mu EXCEPT ![registry] = c]
      /\ client' = [client EXCEPT ![c] = w]
  BY <1>1, <1>2, <1>4 DEF Truncate, Exact, SerialInv, GenInv, Types
<1>6. w \in ClientRec /\ w.pc = "truncate" /\ w.st = registry /\ w.generation = g /\ w.todo = D /\ w.size = size
  BY <1>1, <1>2, <1>4 DEF ClientRec, Pcs, Handles
<1>7. size \in Nat /\ S.size \in Nat /\ S.size \in Sizes /\ Types
  BY <1>4, Grounds, ExactGen DEF StateRec, GenInv
<1>8. /\ z \in StateRec /\ z.generation = S.generation /\ z.refCount = S.refCount /\ z.size = S.size
      /\ z.metaDirty = S.metaDirty
  BY <1>2, <1>4, <1>7, CutRec, CutIs
<1>9. Changes(c, w, z)
  BY <1>1, <1>3, <1>4, <1>5, <1>6, <1>8, Untouched, ExactGen DEF Changes, Moved, Handles
<1>10. client'[c] = w /\ state'[registry] = z /\ Known /\ meta.generation = g /\ registry # None
  BY <1>4, <1>6, <1>9, ChangesIs, VFSFileAssumption
<1>11. SerialInv'
  BY <1>4, <1>5, <1>9, MuSet, SerialChanges
<1>12. /\ S.size = truth.size /\ truth \in [size : Sizes, cells : Rows]
       /\ \A x \in Cells : Page(S, g, x) = truth.cells[x] /\ (x >= truth.size => truth.cells[x] = 0)
  BY <1>1, <1>3, <1>4, <1>10, Whole DEF Exact, FileInv, Ended
<1>13. PICK T : T = Wiped(truth.cells, size)
  OBVIOUS
<1>14. truth' = [size |-> size, cells |-> T] /\ truth'.size = size /\ truth'.cells = T
  BY <1>13 DEF Truncate
<1>15. \A x \in Cells : T[x] = IF x >= size THEN 0 ELSE truth.cells[x]
  BY <1>13 DEF Wiped
<1>16. Ended'
  <2>1. T \in Rows
    BY <1>12, <1>13, WipedRow
  <2> QED
    BY <1>14, <1>15, <2>1 DEF Ended
<1>17. ASSUME NEW d \in z.dirty PROVE d * BlockSize < size /\ d * BlockSize < S.size
  <2>1. d \in Blocks /\ d * BlockSize \in Nat
    BY <1>8, <1>17, CellsNat DEF StateRec
  <2>2. CASE size < S.size
    BY <1>2, <1>4, <1>7, <1>17, <2>1, <2>2, CutIs
  <2>3. CASE ~(size < S.size)
    <3>1. d * BlockSize < S.size
      BY <1>1, <1>2, <1>10, <1>17, <2>3 DEF Exact, FileInv, Below
    <3> QED
      BY <1>7, <2>1, <2>3, <3>1
  <2> QED
    BY <2>2, <2>3
<1>18. ASSUME NEW d \in Blocks PROVE d \in D <=> d * BlockSize >= size /\ ~(d * BlockSize >= S.size)
  <2>1. d \in Nat /\ numBlocks(size) \in Nat /\ numBlocks(S.size) \in Nat
    BY <1>7, CellsNat, CellBlock, VFSFileAssumption DEF numBlocks
  <2> QED
    BY <1>1, <1>7, <2>1, BlocksAbove
<1>19. ASSUME NEW x \in Cells, x < size PROVE Page(z, g, x) = T[x]
  <2>1. x \in Nat /\ Page(z, g, x) = Page(S, g, x)
    BY <1>2, <1>4, <1>7, <1>19, CutIs, CellsNat
  <2> QED
    BY <1>7, <1>12, <1>15, <1>19, <2>1
<1>20. ASSUME NEW x \in Cells, x >= size PROVE x \div BlockSize \in D \/ Page(z, g, x) = 0
  <2>1. PICK b : b = x \div BlockSize
    OBVIOUS
  <2>2. x \in Nat /\ b \in Blocks /\ b * BlockSize \in Nat /\ b * BlockSize <= x
    BY <2>1, CellsNat, CellBlock
  <2>3. CASE ~(size < S.size)
    <3>1. x >= truth.size
      BY <1>7, <1>12, <1>20, <2>2, <2>3
    <3> QED
      BY <1>2, <1>12, <2>3, <3>1
  <2>4. CASE size < S.size /\ b * BlockSize < size
    BY <1>2, <1>4, <1>7, <1>20, <2>1, <2>4, CutIs
  <2>5. CASE size < S.size /\ b * BlockSize >= size
    <3>1. Page(z, g, x) = blocks[g][x]
      BY <1>2, <1>4, <1>7, <2>1, <2>5, CutIs
    <3>2. CASE b * BlockSize >= S.size
      <4>1. b \notin S.dirty
        BY <1>1, <1>7, <1>10, <2>2, <3>2 DEF Exact, FileInv, Below
      <4>2. x >= truth.size
        BY <1>7, <1>12, <2>2, <3>2
      <4> QED
        BY <1>12, <2>1, <3>1, <4>1, <4>2 DEF Page
    <3> QED
      BY <1>18, <2>1, <2>2, <2>5, <3>2
  <2> QED
    BY <1>7, <2>2, <2>3, <2>4, <2>5
<1>21. Cutting(c)'
  <2>1. D # {} => size < S.size
    <3> SUFFICES ASSUME NEW d \in D PROVE size < S.size
      OBVIOUS
    <3>1. d \in Blocks /\ d * BlockSize \in Nat
      BY <1>4, CellsNat
    <3> QED
      BY <1>7, <1>18, <3>1
  <2>2. \A b \in z.dirty : b * BlockSize < size
    BY <1>17
  <2>3. \A b \in D : b * BlockSize >= size
    BY <1>4, <1>18
  <2>4. \A x \in Cells : x < size => Page(z, g, x)' = truth'.cells[x]
    BY <1>3, <1>14, <1>19 DEF Page
  <2>5. \A x \in Cells : x >= size => x \div BlockSize \in D \/ Page(z, g, x)' = 0
    BY <1>3, <1>20 DEF Page
  <2>6. state'[registry'] = z
    BY <1>3, <1>10
  <2> QED
    BY <1>6, <1>8, <1>10, <1>14, <2>1, <2>2, <2>3, <2>4, <2>5, <2>6 DEF Cutting, Page
<1>22. Flushing(c)'
  BY <1>6, <1>10 DEF Flushing
<1>23. \A b \in z.dirty : b * BlockSize < z.size
  BY <1>8, <1>17
<1>24. ~z.metaDirty => z.size = StoredSize'
  BY <1>1, <1>3, <1>8, <1>10 DEF StoredSize, Exact, FileInv, Linked
<1>25. FileInv'
  BY <1>6, <1>9, <1>16, <1>21, <1>22, <1>23, <1>24, FileChanges
<1> QED
  BY <1>11, <1>25 DEF Exact

\* The blocks are removed: the state takes its new size.
LEMMA TruncateEnds ==
    ASSUME Exact, NEW c \in Clients, client[c].pc = "truncate", client[c].todo = {}, Back(c, client[c].st),
           mu' = [mu EXCEPT ![client[c].st] = None], UNCHANGED <<blocks, registry, truth, crashes>>, SameFile, GenInv',
           NEW m \in BOOLEAN,
           state' = [state EXCEPT ![client[c].st].size = client[c].size, ![client[c].st].metaDirty = m],
           ~m => StoredSize' = client[c].size
    PROVE  Exact'
<1>1. PICK y, S, g, n : y = client[c] /\ S = state[registry] /\ g = y.generation /\ n = y.size
  OBVIOUS
<1>2. client[c].pc \in Handles /\ client[c].pc \in Working /\ Others(c)
  BY OthersBusy, ExactGen DEF Handles, Working, Quiet
<1>3. /\ y.st = registry /\ registry \in States /\ S \in StateRec /\ g \in 1 .. MaxGen /\ n \in Sizes
      /\ state \in [States -> StateRec]
  BY <1>1, <1>2, Handle DEF ClientRec
<1>4. PICK z : z = [S EXCEPT !.size = n, !.metaDirty = m]
  OBVIOUS
<1>5. state' = [state EXCEPT ![registry] = z]
  BY <1>1, <1>3, <1>4
<1>6. /\ z \in StateRec /\ z.size = n /\ z.metaDirty = m /\ z.dirty = S.dirty /\ z.cells = S.cells
      /\ z.generation = S.generation /\ z.refCount = S.refCount
  BY <1>3, <1>4 DEF StateRec
<1>7. PICK w : Moved(c, w) /\ w.pc = "idle" /\ w.st = registry /\ w.generation = g
  BY <1>1, <1>2, BackMoved
<1>8. g = S.generation /\ Cutting(c)
  BY <1>1, <1>2, Pcss DEF Placed, Exact, FileInv
<1>9. Changes(c, w, z)
  BY <1>1, <1>2, <1>5, <1>6, <1>7, <1>8 DEF Changes, Handles
<1>10. SerialInv'
  BY <1>1, <1>3, <1>7, <1>9, MuSet, SerialChanges DEF Working
<1>11. \A x \in Cells : Page(z, g, x) = Page(S, g, x)
  BY <1>6 DEF Page
<1>12. /\ truth.size = n /\ \A b \in S.dirty : b * BlockSize < n
       /\ \A x \in Cells : x < n => Page(z, g, x) = truth.cells[x]
       /\ \A x \in Cells : x >= n => Page(z, g, x) = 0
  BY <1>1, <1>8, <1>11 DEF Cutting
<1>13. Ended'
  BY DEF Exact, FileInv, Ended
<1>14. Flushing(c)' /\ Cutting(c)'
  BY <1>7, <1>9, ChangesIs, Elsewhere DEF Working
<1>15. FileInv'
  BY <1>1, <1>6, <1>7, <1>9, <1>12, <1>13, <1>14, FileChanges
<1> QED
  BY <1>10, <1>15 DEF Exact

LEMMA TruncateMetaKeeps ==
    ASSUME Serial, Exact, NEW c \in Clients, TruncateMeta(c) PROVE Exact'
<1>1. PICK m \in BOOLEAN : m = Newer(c)
  BY Zenon DEF Newer
<1>2. /\ client[c].pc = "truncate" /\ client[c].todo = {} /\ Back(c, client[c].st)
      /\ UNCHANGED <<blocks, registry, truth, crashes>> /\ mu' = [mu EXCEPT ![client[c].st] = None]
      /\ state' = [state EXCEPT ![client[c].st].size = client[c].size, ![client[c].st].metaDirty = m]
  BY <1>1 DEF TruncateMeta, At, bounds, ghost
<1>3. GenInv'
  BY TruncateMetaSteps, SerialOpens, ExactGen
<1>4. CASE Newer(c)
  <2>1. UNCHANGED meta /\ m
    BY <1>1, <1>4 DEF TruncateMeta
  <2> QED
    BY <1>2, <1>3, <2>1, TruncateEnds, Untouched, ExactGen
<1>5. CASE ~Newer(c)
  <2>1. meta' = [size |-> client[c].size, generation |-> client[c].generation, deleted |-> FALSE]
    BY <1>5 DEF TruncateMeta
  <2>2. client[c].size \in Sizes /\ meta.generation <= client[c].generation /\ client[c].pc \in Handles
    BY <1>2, <1>5, Handle DEF Newer, ClientRec, Handles
  <2>3. SameFile
    BY <2>1, <2>2, SaveKeeps, ExactGen
  <2>4. StoredSize' = client[c].size
    BY <2>1 DEF StoredSize
  <2> QED
    BY <1>2, <1>3, <2>3, <2>4, TruncateEnds
<1> QED
  BY <1>4, <1>5

LEMMA TruncateFailsKeeps ==
    ASSUME Serial, Exact, NEW c \in Clients, TruncateFails(c) PROVE Exact'
<1>1. /\ client[c].pc = "truncate" /\ client[c].todo = {} /\ Back(c, client[c].st)
      /\ UNCHANGED <<meta, blocks, registry, truth, crashes>> /\ mu' = [mu EXCEPT ![client[c].st] = None]
      /\ state' = [state EXCEPT ![client[c].st].size = client[c].size, ![client[c].st].metaDirty = TRUE]
  BY DEF TruncateFails, Fail, disk, ghost
<1>2. GenInv' /\ SameFile
  BY <1>1, TruncateFailsSteps, SerialOpens, Untouched, ExactGen
<1> QED
  BY <1>1, <1>2, TruncateEnds

LEMMA TruncateStopsKeeps ==
    ASSUME Serial, Exact, NEW c \in Clients, TruncateStops(c) PROVE Exact'
<1>1. PICK y, S, g, n : y = client[c] /\ S = state[registry] /\ g = y.generation /\ n = y.size
  OBVIOUS
<1>2. client[c].pc = "truncate" /\ client[c].pc \in Handles /\ client[c].pc \in Working /\ Others(c)
  BY OthersBusy, ExactGen DEF TruncateStops, Handles, Working, Quiet
<1>3. /\ y.st = registry /\ registry \in States /\ registry # None /\ S \in StateRec /\ g \in 1 .. MaxGen /\ n \in Sizes
      /\ state \in [States -> StateRec]
  BY <1>1, <1>2, Handle DEF ClientRec
<1>4. /\ client[c].todo # {} /\ Back(c, client[c].st) /\ mu' = [mu EXCEPT ![registry] = None] /\ ~Ghosts(S, g)
      /\ truth' = View(S, g) /\ UNCHANGED <<meta, blocks, registry, state, crashes>>
  BY <1>1, <1>3 DEF TruncateStops, Fail, disk, Serial
<1>5. GenInv' /\ SameFile
  BY <1>4, TruncateFailsSteps, SerialOpens, Untouched, ExactGen
<1>6. PICK w : Moved(c, w) /\ w.pc = "idle" /\ w.st = registry /\ w.generation = g
  BY <1>1, <1>2, <1>4, BackMoved
<1>7. g = S.generation /\ Cutting(c)
  BY <1>1, <1>2, Pcss DEF Placed, Exact, FileInv
<1>8. state' = [state EXCEPT ![registry] = S]
  BY <1>1, <1>3, <1>4
<1>9. Changes(c, w, S)
  BY <1>1, <1>2, <1>3, <1>4, <1>5, <1>6, <1>7, <1>8 DEF Changes, Handles
<1>10. SerialInv'
  BY <1>3, <1>4, <1>5, <1>6, <1>9, MuSet, SerialChanges DEF Working
<1>11. Known /\ client'[c] = w
  BY <1>9, ChangesIs
<1>12. S.size \in Sizes /\ S.size \in Nat /\ n \in Nat
  BY <1>3, Grounds DEF StateRec
<1>13. PICK T : T = [x \in Cells |-> IF x < S.size THEN Page(S, g, x) ELSE 0]
  OBVIOUS
<1>14. truth' = [size |-> S.size, cells |-> T] /\ truth'.size = S.size /\ truth'.cells = T
  BY <1>4, <1>13 DEF View
<1>15. Ended'
  <2>1. \A x \in Cells : Page(S, g, x) \in Nat
    BY <1>3, PageNat, ExactGen DEF GenInv
  <2>2. T \in Rows
    BY <1>13, <2>1 DEF Rows
  <2>3. \A x \in Cells : x >= S.size => T[x] = 0
    BY <1>12, <1>13, CellsNat
  <2> QED
    BY <1>12, <1>14, <2>2, <2>3 DEF Ended
<1>16. \A x \in Cells : x < S.size => Page(S, g, x) = T[x]
  BY <1>13
<1>17. ASSUME NEW x \in Cells, x >= S.size PROVE Page(S, g, x) = 0
  <2>1. blocks[g][x] = 0
    BY <1>4, <1>17 DEF Ghosts
  <2>2. n < S.size /\ x \in Nat
    BY <1>1, <1>2, <1>4, <1>7, CellsNat DEF Cutting
  <2>3. x >= n
    BY <1>12, <1>17, <2>2
  <2>4. x \div BlockSize \in y.todo \/ Page(S, g, x) = 0
    BY <1>1, <1>2, <1>7, <2>3 DEF Cutting
  <2>5. x \div BlockSize \in y.todo => x \div BlockSize \notin S.dirty
    <3>1. \A b \in S.dirty : b * BlockSize < n
      BY <1>1, <1>2, <1>7 DEF Cutting
    <3>2. \A b \in y.todo : b * BlockSize >= n
      BY <1>1, <1>2, <1>7 DEF Cutting
    <3>3. (x \div BlockSize) * BlockSize \in Nat
      BY <2>2, CellBlock
    <3> QED
      BY <1>12, <3>1, <3>2, <3>3
  <2> QED
    BY <2>1, <2>4, <2>5 DEF Page
<1>18. Flushing(c)' /\ Cutting(c)'
  BY <1>6, <1>11, Elsewhere DEF Working
<1>19. \A b \in S.dirty : b * BlockSize < S.size
  BY <1>1, <1>3 DEF Exact, FileInv, Below
<1>20. ~S.metaDirty => S.size = StoredSize'
  BY <1>1, <1>4, <1>11 DEF StoredSize, Exact, FileInv, Linked
<1>21. FileInv'
  BY <1>6, <1>9, <1>14, <1>15, <1>16, <1>17, <1>18, <1>19, <1>20, FileChanges
<1> QED
  BY <1>10, <1>21 DEF Exact

-----------------------------------------------------------------------------
(* A new generation.                                                       *)

\* The metadata of a new generation are written; no state knows it yet.
LEMMA NewGeneration ==
    ASSUME Exact, NEW c \in Clients, NEW w, Moved(c, w), GenInv', client[c].pc \in {"fresh", "revive", "creating"},
           w.pc = (IF client[c].pc = "creating" THEN "createPurge" ELSE "found"), w.st = client[c].st,
           NEW g \in 1 .. MaxGen, g > meta.generation, meta' = [size |-> 0, generation |-> g, deleted |-> FALSE],
           UNCHANGED <<blocks, registry, state, mu, truth, crashes>>,
           w.pc = "found" => truth.size = 0 /\ w.size = 0
    PROVE  Exact'
<1>1. client'[c] = w /\ Placed(c) /\ w.pc \in {"found", "createPurge"}
  BY MovedTo, Pcss, ExactGen
<1>2. meta'.size = 0 /\ meta'.generation = g /\ ~meta'.deleted /\ StoredSize' = 0 /\ meta.generation \in Nat /\ g # 0
  BY DEF StoredSize, Exact, SerialInv, GenInv, Types, Metas
<1>3. registry # None => registry \in States /\ state[registry].generation \in Nat /\ state[registry].generation <= meta.generation
  BY DEF Exact, SerialInv, Agreed, GenInv, Types, StateRec, Gens
<1>4. blocks[g] = Zeros
  BY DEF Exact, SerialInv, Fresh
<1>5. Placed(c)'
  <2>1. w.pc = "createPurge" => client[c].pc = "creating" /\ w.st = registry /\ registry # None
    BY <1>1, Pcss, ExactGen, VFSFileAssumption DEF Placed, Replacing, Knows
  <2> QED
    BY <1>1, <1>2, <1>3, <2>1 DEF Placed, Handles, Working, Replacing
<1>6. Counts'
  BY <1>1, CountsKept, ExactGen DEF Holders, Handles
<1>7. Agreed'
  <2>1. {"found", "creating", "createPurge"} \cap Quiet = {}
    BY DEF Quiet
  <2>2. ~Nobody({"found", "creating", "createPurge"})'
    BY <1>1, <2>1, MovedTo, ExactGen
  <2> QED
    BY <1>2, <1>3, <2>2 DEF Agreed
<1>8. Watched'
  <2> SUFFICES ASSUME registry # None, state[registry].dirty # {} \/ state[registry].metaDirty
               PROVE  \E e \in Clients : client'[e].pc \in Handles /\ client'[e].generation = state[registry].generation
    BY DEF Watched
  <2>1. PICK e \in Clients : client[e].pc \in Handles /\ client[e].generation = state[registry].generation
    BY DEF Exact, SerialInv, Watched
  <2>2. e # c
    BY <2>1 DEF Handles
  <2> QED
    BY <2>1, <2>2, MovedTo, ExactGen
<1>9. Fresh'
  BY <1>2 DEF Fresh, Exact, SerialInv
<1>10. SerialInv'
  BY <1>5, <1>6, <1>7, <1>8, <1>9, SerialStep, ExactGen DEF SerialInv
<1>11. ~Known'
  BY <1>2, <1>3 DEF Known
<1>12. Ended' /\ Below' /\ Linked'
  BY <1>2, <1>11 DEF Exact, FileInv, Ended, Below, Linked
<1>13. Size' = 0 /\ \A x \in Cells : Cell(x)' = 0
  BY <1>2, <1>4, <1>11 DEF Size, Cell, Zeros
<1>14. Same'
  <2>1. {"purge", "createPurge", "truncate"} \cap Quiet = {}
    BY DEF Quiet
  <2>2. Nobody({"purge", "createPurge", "truncate"})' => w.pc = "found"
    BY <1>1, <2>1, MovedTo, ExactGen
  <2>3. \A x \in Cells : ~(x < 0)
    BY CellsNat
  <2> QED
    BY <1>13, <2>2, <2>3 DEF Same
<1>15. Tail'
  BY <1>13 DEF Tail, Exact, FileInv
<1>16. Flushing(c)' /\ Cutting(c)'
  BY <1>1, Elsewhere DEF Working
<1>17. FileInv'
  BY <1>12, <1>14, <1>15, <1>16, FileStep, ExactGen
<1> QED
  BY <1>10, <1>17 DEF Exact

\* A file that is not there, or deleted, is empty.
LEMMA NothingThere ==
    ASSUME Exact, NEW c \in Clients, client[c].pc \in {"fresh", "revive"}
    PROVE  truth.size = 0 /\ client[c].generation = meta.generation
<1>1. client[c].generation = meta.generation /\ (meta.generation = 0 \/ meta.deleted)
  BY Pcss, ExactGen DEF Placed
<1>2. Size = truth.size
  <2>1. Nobody({"purge", "createPurge", "truncate"})
    BY OthersBusy, ExactGen DEF Nobody, Others, Quiet
  <2> QED
    BY <2>1 DEF Exact, FileInv, Same
<1>3. StoredSize = 0
  BY <1>1 DEF StoredSize, Exact, FileInv, Linked
<1>4. CASE ~Known
  BY <1>1, <1>2, <1>3, <1>4 DEF Size
<1>5. CASE Known
  <2>1. meta.deleted /\ registry # None /\ state[registry].generation = meta.generation
    BY <1>1, <1>5 DEF Known
  <2>2. ~state[registry].metaDirty
    <3> SUFFICES ASSUME state[registry].metaDirty PROVE FALSE
      OBVIOUS
    <3>1. PICK e \in Clients : client[e].pc \in Handles /\ client[e].generation = meta.generation
      BY <2>1 DEF Exact, SerialInv, Watched
    <3>2. client[e].generation < meta.generation /\ client[e].generation \in 1 .. MaxGen
      BY <2>1, <3>1, AtHandle, ExactGen
    <3> QED
      BY <3>1, <3>2
  <2>3. state[registry].size = StoredSize
    BY <1>5, <2>2 DEF Exact, FileInv, Linked
  <2> QED
    BY <1>1, <1>2, <1>3, <1>5, <2>3 DEF Size
<1> QED
  BY <1>1, <1>4, <1>5

LEMMA OpenPutKeeps ==
    ASSUME Serial, Exact, NEW c \in Clients, OpenPut(c) PROVE Exact'
<1>1. PICK y, g : y = client[c] /\ g = y.generation + 1
  OBVIOUS
<1>2. PICK w : w = [y EXCEPT !.pc = "found", !.generation = g, !.size = 0]
  OBVIOUS
<1>3. /\ y.pc \in {"fresh", "revive"} /\ y.generation < MaxGen
      /\ meta' = [size |-> 0, generation |-> g, deleted |-> FALSE]
      /\ client' = [client EXCEPT ![c] = w] /\ UNCHANGED <<blocks, registry, state, mu, truth, crashes>>
  BY <1>1, <1>2 DEF OpenPut, At, memory, ghost, bounds, Exact, SerialInv, GenInv, Types
<1>4. y \in ClientRec /\ truth.size = 0 /\ y.generation = meta.generation /\ Others(c) /\ GenInv'
  BY <1>1, <1>3, Pcss, NothingThere, OthersBusy, OpenPutSteps, SerialOpens, ExactGen DEF Quiet
<1>5. g \in 1 .. MaxGen /\ g \in Gens /\ g > meta.generation /\ 0 \in Sizes
  BY <1>1, <1>3, <1>4, Grounds, VFSFileAssumption DEF ClientRec, Gens
<1>6. w \in ClientRec /\ w.pc = "found" /\ w.st = y.st /\ w.size = 0
  BY <1>2, <1>4, <1>5 DEF ClientRec, Pcs
<1>7. Moved(c, w)
  BY <1>3, <1>4, <1>6 DEF Moved
<1> QED
  BY <1>1, <1>3, <1>4, <1>5, <1>6, <1>7, NewGeneration

LEMMA CreatePutKeeps ==
    ASSUME Serial, Exact, NEW c \in Clients, CreatePut(c) PROVE Exact'
<1>1. PICK y, g : y = client[c] /\ g = y.generation
  OBVIOUS
<1>2. PICK w : w = [y EXCEPT !.pc = "createPurge"]
  OBVIOUS
<1>3. /\ y.pc = "creating" /\ meta' = [size |-> 0, generation |-> g, deleted |-> FALSE]
      /\ client' = [client EXCEPT ![c] = w] /\ UNCHANGED <<blocks, registry, state, mu, truth, crashes>>
  BY <1>1, <1>2 DEF CreatePut, Move, At, memory, bounds, Exact, SerialInv, GenInv, Types
<1>4. y \in ClientRec /\ Knows(y, meta) /\ Others(c) /\ GenInv' /\ meta.generation \in Nat
  <2>1. meta.generation \in Nat
    BY DEF Exact, SerialInv, GenInv, Types, Metas
  <2> QED
    BY <1>1, <1>3, <2>1, Pcss, OthersBusy, CreatePutSteps, SerialOpens, ExactGen DEF Quiet
<1>5. g \in 1 .. MaxGen /\ g > meta.generation
  BY <1>1, <1>3, <1>4, VFSFileAssumption DEF Knows, ClientRec, Gens
<1>6. w \in ClientRec /\ w.pc = "createPurge" /\ w.st = y.st
  BY <1>2, <1>4 DEF ClientRec, Pcs, Replacing
<1>7. Moved(c, w)
  BY <1>3, <1>4, <1>6 DEF Moved
<1> QED
  BY <1>1, <1>3, <1>4, <1>5, <1>6, <1>7, NewGeneration

-----------------------------------------------------------------------------
(* Handles come and go.                                                    *)

\* The file is the same, wherever it is.
LEMMA FileSame ==
    ASSUME Exact, NEW c \in Clients, NEW w, Moved(c, w), UNCHANGED <<truth, crashes>>, Below', Linked',
           Size' = Size, \A x \in Cells : Cell(x)' = Cell(x), w.pc \notin Working,
           client[c].pc \notin {"purge", "createPurge", "truncate"}
    PROVE  FileInv'
<1>1. {"purge", "createPurge", "truncate"} \cap Quiet = {} /\ {"truncate"} \cap Quiet = {}
  BY DEF Quiet
<1>2. Nobody({"purge", "createPurge", "truncate"}) /\ Nobody({"truncate"})
  BY <1>1, MovedTo, ExactGen
<1>3. Ended' /\ Same' /\ Tail'
  BY <1>2 DEF Exact, FileInv, Ended, Same, Tail
<1>4. Flushing(c)' /\ Cutting(c)'
  BY MovedTo, Elsewhere, ExactGen
<1> QED
  BY <1>3, <1>4, FileStep, ExactGen

\* A handle that waits has its state registered.
LEMMA IdleRegistered ==
    ASSUME Exact, NEW c \in Clients, NEW s, Registered(s)
    PROVE  \A d \in Clients \ {c} : client[d].pc = "idle" => registry' = registry
<1>1. \A d \in Clients : client[d].pc = "idle" => registry # None
  BY Handle DEF Handles
<1> QED
  BY <1>1 DEF Registered

LEMMA JoinedIs ==
    ASSUME Exact, NEW s \in States, Registered(s)
    PROVE  /\ Joined(s) \in StateRec /\ registry' = s /\ s # None
           /\ registry = None => /\ Joined(s).generation = 0 /\ Joined(s).refCount = 1 /\ Joined(s).dirty = {}
                                 /\ Joined(s).metaDirty = FALSE
           /\ registry # None => /\ registry = s /\ state[s] \in StateRec /\ Joined(s).generation = state[s].generation
                                 /\ Joined(s).size = state[s].size
                                 /\ Joined(s).dirty = state[s].dirty /\ Joined(s).cells = state[s].cells
                                 /\ Joined(s).metaDirty = state[s].metaDirty
<1>1. Joined(s) \in StateRec /\ registry' = s /\ s # None /\ state[s] \in StateRec
  BY JoinedRec, ExactGen, VFSFileAssumption DEF Registered, GenInv, Types
<1>2. PICK n, x : n = NewState /\ x = state[s]
  OBVIOUS
<1>3. CASE registry = None
  <2>1. n \in StateRec /\ n.generation = 0 /\ n.dirty = {} /\ n.metaDirty = FALSE
    BY <1>2, Grounds DEF NewState
  <2>2. Joined(s) = [n EXCEPT !.refCount = 1]
    BY <1>2, <1>3 DEF Joined
  <2> QED
    BY <1>1, <1>3, <2>1, <2>2 DEF StateRec
<1>4. CASE registry # None
  <2>1. Joined(s) = [x EXCEPT !.refCount = x.refCount + 1] /\ registry = s
    BY <1>2, <1>4 DEF Joined, Registered
  <2> QED
    BY <1>1, <1>2, <1>4, <2>1 DEF StateRec
<1> QED
  BY <1>3, <1>4

LEMMA OpenRegisterKeeps ==
    ASSUME Serial, Exact, NEW c \in Clients, OpenRegister(c) PROVE Exact'
<1>1. PICK s \in States :
          /\ Registered(s)
          /\ LET g == client[c].generation
                 j == Joined(s)
             IN  state' = [state EXCEPT ![s] =
                     IF g > j.generation
                       THEN [j EXCEPT !.generation = g, !.size = client[c].size,
                                      !.dirty = {}, !.cells = Zeros, !.metaDirty = FALSE]
                       ELSE j]
          /\ Back(c, s)
  BY DEF OpenRegister
<1>2. PICK y, g, j, n, zz, o : /\ y = client[c] /\ g = y.generation /\ j = Joined(s) /\ n = y.size /\ zz = Zeros
                               /\ o = Outside
  OBVIOUS
<1>3. PICK k, w : /\ k = [j EXCEPT !.generation = g, !.size = n, !.dirty = {}, !.cells = zz, !.metaDirty = FALSE]
                  /\ w = [o EXCEPT !.pc = "idle", !.st = s, !.generation = g]
  OBVIOUS
<1>4. PICK z : z = IF g > j.generation THEN k ELSE j
  OBVIOUS
<1>5. /\ y.pc = "found" /\ UNCHANGED <<meta, blocks, mu, truth, crashes>>
      /\ state' = [state EXCEPT ![s] = z] /\ client' = [client EXCEPT ![c] = w]
  BY <1>1, <1>2, <1>3, <1>4 DEF OpenRegister, At, Back, disk, ghost, bounds
<1>6. y \in ClientRec /\ Knows(y, meta) /\ Placed(c) /\ Others(c) /\ GenInv'
  BY <1>2, <1>5, Pcss, OthersBusy, OpenRegisterSteps, SerialOpens, ExactGen DEF Quiet
<1>7. /\ 1 <= g /\ g = meta.generation /\ ~meta.deleted /\ g \in Gens /\ g \in Nat /\ g # 0 /\ g \in 1 .. MaxGen
      /\ n \in Sizes /\ n = meta.size /\ n = StoredSize
  BY <1>2, <1>5, <1>6, VFSFileAssumption DEF Knows, Placed, ClientRec, Gens, StoredSize
<1>8. j \in StateRec /\ registry' = s /\ s # None /\ zz \in Rows /\ o \in ClientRec /\ "idle" \in Pcs
  BY <1>1, <1>2, JoinedIs, Grounds DEF Pcs, Handles
<1>9. /\ k \in StateRec /\ k.generation = g /\ k.size = n /\ k.dirty = {} /\ k.metaDirty = FALSE
      /\ k.refCount = j.refCount
  BY <1>3, <1>7, <1>8 DEF StateRec
<1>10. w \in ClientRec /\ w.pc = "idle" /\ w.st = s /\ w.generation = g
  BY <1>3, <1>7, <1>8 DEF ClientRec
<1>11. Moved(c, w) /\ client'[c] = w /\ state'[s] = z
  BY <1>5, <1>6, <1>10, MovedTo, ExactGen DEF Moved, GenInv, Types
<1>12. /\ registry # None => state[registry].generation <= g /\ state[registry].generation \in Nat
       /\ j.generation \in Nat /\ j.generation <= g
       /\ registry = None => j.generation = 0
       /\ registry # None => registry = s /\ j.generation = state[registry].generation
  <2>1. registry # None => state[registry].generation <= g /\ state[registry].generation \in Nat
    BY <1>7 DEF Exact, SerialInv, Agreed, GenInv, Types, StateRec, Gens
  <2>2. /\ registry = None => j.generation = 0
        /\ registry # None => registry = s /\ j.generation = state[registry].generation
    BY <1>1, <1>2, JoinedIs
  <2> QED
    BY <1>7, <2>1, <2>2
<1>13. z \in StateRec /\ z.generation = g /\ z.refCount = j.refCount
  BY <1>4, <1>7, <1>8, <1>9, <1>12
<1>14. SerialInv'
  <2>1. Placed(c)'
    BY <1>8, <1>10, <1>11 DEF Placed, Working
  <2>2. Counts'
    BY <1>1, <1>2, <1>5, <1>10, <1>11, <1>13, CountsJoined, ExactGen DEF Holders, Handles
  <2>3. Agreed'
    BY <1>5, <1>7, <1>8, <1>11, <1>13 DEF Agreed
  <2>4. Watched'
    BY <1>8, <1>10, <1>11, <1>13 DEF Watched, Handles
  <2>5. mu' \in [States -> Clients \cup {None}]
    BY <1>5 DEF Exact, SerialInv
  <2> QED
    BY <1>1, <1>5, <1>6, <1>11, <2>1, <2>2, <2>3, <2>4, <2>5, SerialStep, FreshKept, IdleRegistered, ExactGen
<1>15. Known' /\ Size' = z.size /\ \A x \in Cells : Cell(x)' = Page(z, g, x)
  <2>1. Known'
    BY <1>5, <1>7, <1>8, <1>11, <1>13 DEF Known
  <2> QED
    BY <1>5, <1>7, <1>8, <1>11, <2>1 DEF Size, Cell, Page
<1>16. CASE g > j.generation
  <2>1. ~Known
    BY <1>7, <1>12, <1>16 DEF Known
  <2>2. z = k
    BY <1>4, <1>16
  <2>3. Size' = Size /\ \A x \in Cells : Cell(x)' = Cell(x)
    BY <1>7, <1>9, <1>15, <2>1, <2>2 DEF Size, Cell, Page
  <2>4. Below' /\ Linked'
    BY <1>5, <1>7, <1>8, <1>9, <1>11, <2>2 DEF Below, Linked, StoredSize
  <2>5. FileInv'
    BY <1>2, <1>5, <1>10, <1>11, <2>3, <2>4, FileSame DEF Working
  <2> QED
    BY <1>14, <2>5 DEF Exact
<1>17. CASE ~(g > j.generation)
  <2>1. registry # None /\ j.generation = g
    BY <1>7, <1>12, <1>17
  <2>2. /\ registry = s /\ z = j /\ j.generation = state[registry].generation /\ j.size = state[registry].size
        /\ j.dirty = state[registry].dirty /\ j.cells = state[registry].cells /\ j.metaDirty = state[registry].metaDirty
    BY <1>1, <1>2, <1>4, <1>17, <2>1, JoinedIs
  <2>3. Known
    BY <1>7, <2>1, <2>2 DEF Known
  <2>4. Size' = Size /\ \A x \in Cells : Cell(x)' = Cell(x)
    BY <1>7, <1>15, <2>2, <2>3 DEF Size, Cell, Page
  <2>5. Below'
    BY <1>8, <1>11, <2>1, <2>2 DEF Exact, FileInv, Below
  <2>6. StoredSize' = StoredSize
    BY <1>5 DEF StoredSize
  <2>7. Linked'
    BY <1>5, <1>7, <1>8, <1>11, <2>2, <2>3, <2>6 DEF Exact, FileInv, Linked
  <2>8. FileInv'
    BY <1>2, <1>5, <1>10, <1>11, <2>4, <2>5, <2>7, FileSame DEF Working
  <2> QED
    BY <1>14, <2>8 DEF Exact
<1> QED
  BY <1>16, <1>17

LEMMA CreateStartKeeps ==
    ASSUME Serial, Exact, NEW c \in Clients, CreateStart(c) PROVE Exact'
<1>1. PICK s \in States :
          /\ Registered(s)
          /\ state' = [state EXCEPT ![s] = Joined(s)]
          /\ LET g == Max({meta.generation, Joined(s).generation}) + 1
             IN  client' = [client EXCEPT ![c] =
                       [Outside EXCEPT !.pc = "creating", !.st = s, !.generation = g,
                                       !.seen = meta.generation,
                                       !.todo = {b \in Blocks : b < numBlocks(meta.size)}]]
  BY DEF CreateStart
<1>2. PICK o, g, m, z, D : /\ o = Outside /\ m = meta.generation /\ z = Joined(s)
                           /\ g = Max({m, z.generation}) + 1
                           /\ D = {b \in Blocks : b < numBlocks(meta.size)}
  OBVIOUS
<1>3. PICK w : w = [o EXCEPT !.pc = "creating", !.st = s, !.generation = g, !.seen = m, !.todo = D]
  OBVIOUS
<1>4. /\ client[c].pc = "none" /\ Alone(c, "create") /\ client' = [client EXCEPT ![c] = w]
      /\ state' = [state EXCEPT ![s] = z] /\ UNCHANGED <<meta, blocks, mu, truth, crashes>>
  BY <1>1, <1>2, <1>3 DEF CreateStart, At, disk, ghost, bounds
<1>5. GenInv' /\ Others(c)
  BY <1>4, CreateStartSteps, OthersAlone, SerialOpens, ExactGen
<1>6. client'[c] = w /\ o \in ClientRec
  BY <1>2, <1>4, Grounds, ExactGen DEF GenInv, Types
<1>7. w \in ClientRec
  BY <1>5, <1>6 DEF GenInv, Types
<1>8. w.pc = "creating" /\ w.st = s
  BY <1>3, <1>6 DEF ClientRec
<1>9. Moved(c, w) /\ state'[s] = z
  BY <1>4, <1>5, <1>7, ExactGen DEF Moved, GenInv, Types
<1>10. Nobody({"found", "creating", "createPurge"})
  BY <1>4, <1>5 DEF Nobody, Others, Quiet
<1>11. meta.generation \in Nat /\ registry' = s /\ s # None /\ z \in StateRec
  <2>1. meta.generation \in Nat
    BY DEF Exact, SerialInv, GenInv, Types, Metas
  <2> QED
    BY <1>1, <1>2, <2>1, JoinedIs
<1>12. registry # None => /\ registry = s /\ z.generation = meta.generation /\ z.generation = state[registry].generation
                          /\ z.size = state[registry].size /\ z.dirty = state[registry].dirty
                          /\ z.cells = state[registry].cells /\ z.metaDirty = state[registry].metaDirty
  BY <1>1, <1>2, <1>10, JoinedIs DEF Exact, SerialInv, Agreed
<1>13. registry = None => z.generation = 0 /\ z.refCount = 1 /\ z.dirty = {} /\ z.metaDirty = FALSE
  BY <1>1, <1>2, JoinedIs
<1>14. SerialInv'
  <2>1. Placed(c)'
    BY <1>4, <1>6, <1>8, <1>9, <1>11, <1>12, <1>13 DEF Placed, Handles, Working
  <2>2. Counts'
    BY <1>1, <1>2, <1>4, <1>8, <1>9, CountsJoined, ExactGen DEF Holders, Handles
  <2>3. Agreed'
    <3>1. {"found", "creating", "createPurge"} \cap Quiet = {}
      BY DEF Quiet
    <3>2. ~Nobody({"found", "creating", "createPurge"})'
      BY <1>8, <1>9, <3>1, MovedTo, ExactGen
    <3>3. z.generation <= meta.generation
      BY <1>11, <1>12, <1>13
    <3> QED
      BY <1>4, <1>9, <1>11, <3>2, <3>3 DEF Agreed
  <2>4. Watched'
    <3> SUFFICES ASSUME z.dirty # {} \/ z.metaDirty
                 PROVE  \E e \in Clients : client'[e].pc \in Handles /\ client'[e].generation = z.generation
      BY <1>9, <1>11 DEF Watched
    <3>1. registry # None
      BY <1>13
    <3>2. state[registry].dirty # {} \/ state[registry].metaDirty
      BY <1>12, <3>1
    <3>3. PICK e \in Clients : client[e].pc \in Handles /\ client[e].generation = state[registry].generation
      BY <3>1, <3>2 DEF Exact, SerialInv, Watched
    <3>4. e # c
      BY <1>4, <3>3 DEF Handles
    <3>5. client'[e] = client[e]
      BY <1>9, <3>4, MovedTo, ExactGen
    <3> QED
      BY <1>12, <3>1, <3>3, <3>5
  <2>5. mu' \in [States -> Clients \cup {None}]
    BY <1>4 DEF Exact, SerialInv
  <2> QED
    BY <1>1, <1>4, <1>5, <1>9, <2>1, <2>2, <2>3, <2>4, <2>5, SerialStep, FreshKept, IdleRegistered, ExactGen
<1>15. StoredSize' = StoredSize
  BY <1>4 DEF StoredSize
<1>16. CASE registry = None
  <2>1. ~Known /\ ~Known'
    BY <1>4, <1>9, <1>11, <1>13, <1>16 DEF Known
  <2>2. Size' = Size /\ \A x \in Cells : Cell(x)' = Cell(x)
    BY <1>4, <1>15, <2>1 DEF Size, Cell
  <2>3. Below' /\ Linked'
    BY <1>4, <1>9, <1>11, <1>13, <1>16, <2>1 DEF Below, Linked, Exact, FileInv
  <2>4. FileInv'
    BY <1>4, <1>8, <1>9, <2>2, <2>3, FileSame DEF Working
  <2> QED
    BY <1>14, <2>4 DEF Exact
<1>17. CASE registry # None
  <2>1. Known <=> Known'
    BY <1>4, <1>9, <1>11, <1>12, <1>17 DEF Known
  <2>2. Size' = Size
    BY <1>9, <1>11, <1>12, <1>15, <1>17, <2>1 DEF Size
  <2>3. \A x \in Cells : Page(z, meta.generation, x) = Page(state[registry], meta.generation, x)
    BY <1>12, <1>17 DEF Page
  <2>4. \A x \in Cells : Page(z, meta.generation, x)' = Page(z, meta.generation, x)
    BY <1>4 DEF Page
  <2>5. \A x \in Cells : Cell(x)' = Cell(x)
    BY <1>4, <1>9, <1>11, <2>1, <2>3, <2>4 DEF Cell, Page
  <2>6. Below' /\ Linked'
    BY <1>4, <1>9, <1>11, <1>12, <1>15, <1>17, <2>1 DEF Below, Linked, Exact, FileInv
  <2>7. FileInv'
    BY <1>4, <1>8, <1>9, <2>2, <2>5, <2>6, FileSame DEF Working
  <2> QED
    BY <1>14, <2>7 DEF Exact
<1> QED
  BY <1>16, <1>17

LEMMA HolderAt ==
    ASSUME Exact, NEW c \in Holders
    PROVE  /\ c \in Clients /\ registry \in States /\ registry # None /\ client[c].st = registry
           /\ state[registry] \in StateRec
<1>1. c \in Clients /\ client[c].pc \in Handles \cup {"creating", "createPurge"}
  BY DEF Holders
<1>2. client[c].st = registry /\ client[c].st \in States
  BY <1>1, Pcss, ExactGen DEF Placed, Knows, Replacing
<1> QED
  BY <1>1, <1>2, VFSFileAssumption DEF Exact, SerialInv, GenInv, Types

LEMMA LeftIs ==
    ASSUME NEW st \in StateRec, st.refCount # 1
    PROVE  /\ Left(st) \in StateRec /\ Left(st).size = st.size /\ Left(st).generation = st.generation
           /\ Left(st).dirty = st.dirty /\ Left(st).cells = st.cells /\ Left(st).metaDirty = st.metaDirty
<1>1. Left(st) = [st EXCEPT !.refCount = st.refCount - 1]
  BY DEF Left
<1> QED
  BY <1>1 DEF StateRec

\* A client leaves the registered state, as st; if it was the last one, everything is
\* in the store.
LEMMA Leaves ==
    ASSUME Exact, NEW c \in Holders, client[c].pc \in {"idle", "save", "creating"}, Others(c),
           client' = [client EXCEPT ![c] = Outside], mu' \in [States -> Clients \cup {None}], GenInv', SameFile,
           UNCHANGED <<blocks, truth, crashes>>, NEW st \in StateRec, Released(registry, st),
           st.refCount = state[registry].refCount, st.generation = state[registry].generation,
           st.size = state[registry].size, \A b \in st.dirty : b * BlockSize < st.size,
           state[registry].generation = meta.generation \/ state[registry].refCount = 1,
           Known => \A x \in Cells : Page(st, meta.generation, x) = Page(state[registry], meta.generation, x),
           Known /\ ~st.metaDirty => st.size = StoredSize',
           ~Known => StoredSize' = StoredSize,
           meta'.generation = 0 => meta'.size = 0,
           st.dirty # {} \/ st.metaDirty =>
               \E e \in Clients \ {c} : client[e].pc \in Handles /\ client[e].generation = st.generation
    PROVE  Exact'
<1>1. /\ c \in Clients /\ registry \in States /\ registry # None /\ Outside \in ClientRec /\ Outside.pc = "none"
      /\ state \in [States -> StateRec]
  BY HolderAt, Grounds DEF Exact, SerialInv, GenInv, Types
<1>2. Moved(c, Outside) /\ client'[c] = Outside
  BY <1>1, MovedTo, ExactGen DEF Moved
<1>3. Placed(c)'
  BY <1>1, <1>2 DEF Placed, Handles, Replacing, Working
<1>4. Counts'
  BY <1>1, <1>2, CountsLeft, ExactGen DEF Handles
<1>5. Fresh' /\ meta'.generation = meta.generation /\ meta.generation \in Nat
  BY DEF SameFile, Exact, SerialInv, Fresh, GenInv, Types, Metas
<1>6. CASE st.refCount = 1
  <2>1. Holders = {c} /\ registry' = None
    BY <1>1, <1>6, LastHolder, ExactGen DEF Released
  <2>2. \A d \in Clients \ {c} : client[d].pc \notin Handles
    BY <2>1 DEF Holders
  <2>3. \A d \in Clients \ {c} : client[d].pc # "idle"
    BY <2>2 DEF Handles
  <2>4. st.dirty = {} /\ ~st.metaDirty
    BY <2>2
  <2>5. Agreed' /\ Watched' /\ ~Known' /\ Below'
    BY <2>1 DEF Agreed, Watched, Known, Below
  <2>6. SerialInv'
    BY <1>1, <1>2, <1>3, <1>4, <1>5, <2>3, <2>5, SerialStep, ExactGen
  <2>7. Size' = Size
    BY <2>4, <2>5 DEF Size
  <2>8. \A x \in Cells : Known => Page(state[registry], meta.generation, x) = blocks[meta.generation][x]
    BY <2>4 DEF Page
  <2>9. \A x \in Cells : Cell(x)' = Cell(x)
    BY <1>5, <2>5, <2>8 DEF Cell
  <2>10. Linked'
    BY <2>5 DEF Linked
  <2>11. FileInv'
    BY <1>1, <1>2, <2>5, <2>7, <2>9, <2>10, FileSame DEF Working
  <2> QED
    BY <2>6, <2>11 DEF Exact
<1>7. CASE st.refCount # 1
  <2>1. PICK z : z = Left(st)
    OBVIOUS
  <2>2. registry' = registry /\ state'[registry] = z
    BY <1>1, <1>7, <2>1 DEF Released
  <2>3. /\ z.generation = st.generation /\ z.size = st.size /\ z.dirty = st.dirty /\ z.cells = st.cells
        /\ z.metaDirty = st.metaDirty
    BY <1>7, <2>1, LeftIs
  <2>4. st.generation = meta.generation
    BY <1>7
  <2>5. Agreed'
    BY <1>5, <2>2, <2>3, <2>4 DEF Agreed
  <2>6. Watched'
    <3> SUFFICES ASSUME z.dirty # {} \/ z.metaDirty
                 PROVE  \E e \in Clients : client'[e].pc \in Handles /\ client'[e].generation = z.generation
      BY <2>2 DEF Watched
    <3>1. st.dirty # {} \/ st.metaDirty
      BY <2>3
    <3>2. PICK e \in Clients \ {c} : client[e].pc \in Handles /\ client[e].generation = st.generation
      BY <3>1
    <3>3. client'[e] = client[e]
      BY <1>1, <1>2, <3>2, MovedTo, ExactGen
    <3> QED
      BY <2>3, <3>2, <3>3
  <2>7. SerialInv'
    BY <1>1, <1>2, <1>3, <1>4, <1>5, <2>2, <2>5, <2>6, SerialStep, ExactGen
  <2>8. Known <=> Known'
    BY <1>5, <2>2, <2>3 DEF Known
  <2>9. Size' = Size
    BY <2>2, <2>3, <2>8 DEF Size
  <2>10. \A x \in Cells : Page(z, meta.generation, x) = Page(st, meta.generation, x)
    BY <2>3 DEF Page
  <2>11. \A x \in Cells : Cell(x)' = Cell(x)
    <3>1. \A x \in Cells : Page(z, meta.generation, x)' = Page(z, meta.generation, x)
      BY <1>5 DEF Page
    <3> QED
      BY <1>5, <2>2, <2>8, <2>10, <3>1 DEF Cell, Page
  <2>12. Below'
    BY <2>2, <2>3 DEF Below
  <2>13. Linked'
    BY <2>2, <2>3, <2>8 DEF Linked
  <2>14. FileInv'
    BY <1>1, <1>2, <2>9, <2>11, <2>12, <2>13, FileSame DEF Working
  <2> QED
    BY <2>7, <2>14 DEF Exact
<1> QED
  BY <1>6, <1>7

LEMMA SaveCloseKeeps ==
    ASSUME Serial, Exact, NEW c \in Clients, SaveClose(c) PROVE Exact'
<1>1. PICK y, S, g, st : y = client[c] /\ S = state[registry] /\ g = y.generation /\ st = Clean(S)
  OBVIOUS
<1>2. y.pc = "save" /\ y.pc \in Handles
  BY <1>1 DEF SaveClose, At, Handles
<1>3. /\ y.st = registry /\ registry \in States /\ S \in StateRec /\ Others(c) /\ GenInv' /\ c \in Holders
  BY <1>1, <1>2, Handle, OthersBusy, SaveCloseSteps, SerialOpens, ExactGen DEF Quiet
<1>4. /\ client' = [client EXCEPT ![c] = Outside] /\ UNCHANGED <<blocks, truth, crashes>>
      /\ meta' = [size |-> S.size, generation |-> g, deleted |-> FALSE]
      /\ Released(registry, st) /\ mu' = [mu EXCEPT ![registry] = None]
  BY <1>1, <1>3 DEF SaveClose, At, bounds, ghost
<1>5. g = S.generation /\ g = meta.generation /\ Known
  BY <1>1, <1>2, <1>3, Pcss, HandleKnown, ExactGen DEF Placed, Working
<1>6. SameFile
  <2>1. S.size \in Sizes /\ meta.generation <= client[c].generation
    BY <1>1, <1>2, <1>3, <1>5, Handle DEF StateRec
  <2> QED
    BY <1>1, <1>2, <1>4, <2>1, SaveKeeps, ExactGen
<1>7. /\ st \in StateRec /\ st.dirty = {} /\ st.metaDirty = FALSE /\ st.size = S.size
      /\ st.generation = S.generation /\ st.refCount = S.refCount
  BY <1>1, <1>3, CleanIs
<1>8. \A x \in Cells : Page(st, meta.generation, x) = Page(S, meta.generation, x)
  BY <1>1, <1>2, <1>5, <1>7, FlushedPage DEF Page
<1>9. StoredSize' = S.size /\ meta'.generation # 0
  BY <1>1, <1>2, <1>4, <1>5, Handle DEF StoredSize
<1>10. mu' \in [States -> Clients \cup {None}]
  BY <1>3, <1>4, MuSet
<1> QED
  BY <1>1, <1>2, <1>3, <1>4, <1>5, <1>6, <1>7, <1>8, <1>9, <1>10, Leaves

LEMMA CloseCleanKeeps ==
    ASSUME Serial, Exact, NEW c \in Clients, CloseClean(c) PROVE Exact'
<1>1. PICK y, S : y = client[c] /\ S = state[registry]
  OBVIOUS
<1>2. y.pc = "idle" /\ y.pc \in Handles /\ Free(c) /\ mu[y.st] = None
  BY <1>1 DEF CloseClean, At, Handles
<1>3. /\ y.st = registry /\ registry \in States /\ registry # None /\ S \in StateRec /\ Others(c) /\ GenInv' /\ c \in Holders
      /\ meta.generation # 0
  BY <1>1, <1>2, Handle, OthersIdle, CloseCleanSteps, SerialOpens, ExactGen
<1>4. /\ client' = [client EXCEPT ![c] = Outside] /\ UNCHANGED <<meta, blocks, mu, truth, crashes>>
      /\ Released(registry, S) /\ (y.generation = S.generation => S.dirty = {} /\ ~S.metaDirty)
  BY <1>1, <1>2, <1>3 DEF CloseClean, Valid, disk, ghost, bounds
<1>5. Known /\ S.generation = meta.generation
  BY <1>1, <1>2, <1>3, HandleKnown
<1>6. SameFile /\ StoredSize' = StoredSize /\ mu' \in [States -> Clients \cup {None}]
  BY <1>4, Untouched, ExactGen DEF StoredSize, Exact, SerialInv
<1>7. \A b \in S.dirty : b * BlockSize < S.size
  BY <1>1, <1>3 DEF Exact, FileInv, Below
<1>8. ~S.metaDirty => S.size = StoredSize'
  BY <1>1, <1>5, <1>6 DEF Exact, FileInv, Linked
<1>9. S.dirty # {} \/ S.metaDirty =>
          \E e \in Clients \ {c} : client[e].pc \in Handles /\ client[e].generation = S.generation
  <2> SUFFICES ASSUME S.dirty # {} \/ S.metaDirty
               PROVE  \E e \in Clients \ {c} : client[e].pc \in Handles /\ client[e].generation = S.generation
    OBVIOUS
  <2>1. PICK e \in Clients : client[e].pc \in Handles /\ client[e].generation = S.generation
    BY <1>1, <1>3 DEF Exact, SerialInv, Watched
  <2>2. e # c
    BY <1>1, <1>4, <2>1
  <2> QED
    BY <2>1, <2>2
<1> QED
  BY <1>1, <1>2, <1>3, <1>4, <1>5, <1>6, <1>7, <1>8, <1>9, Leaves

LEMMA CreateFailsKeeps ==
    ASSUME Serial, Exact, NEW c \in Clients, CreateFails(c) PROVE Exact'
<1>1. PICK y, S : y = client[c] /\ S = state[registry]
  OBVIOUS
<1>2. y.pc = "creating" /\ c \in Holders
  BY <1>1 DEF CreateFails, Serial, Holders
<1>3. y.st = registry /\ registry \in States /\ registry # None /\ S \in StateRec
  BY <1>1, <1>2, HolderAt
<1>4. /\ client' = [client EXCEPT ![c] = Outside] /\ UNCHANGED <<meta, blocks, mu, truth, crashes>>
      /\ Released(registry, S)
  BY <1>1, <1>2, <1>3 DEF CreateFails, Fail, disk, ghost
<1>5. Others(c) /\ GenInv' /\ Placed(c)
  BY <1>1, <1>2, Pcss, OthersBusy, CreateFailsSteps, SerialOpens, ExactGen DEF Quiet
<1>6. SameFile /\ StoredSize' = StoredSize /\ mu' \in [States -> Clients \cup {None}]
  BY <1>4, Untouched, ExactGen DEF StoredSize, Exact, SerialInv
<1>7. S.generation = meta.generation \/ S.refCount = 1
  BY <1>1, <1>2, <1>5 DEF Placed
<1>8. \A b \in S.dirty : b * BlockSize < S.size
  BY <1>1, <1>3 DEF Exact, FileInv, Below
<1>9. Known /\ ~S.metaDirty => S.size = StoredSize'
  BY <1>1, <1>6 DEF Exact, FileInv, Linked
<1>10. meta'.generation = 0 => meta'.size = 0
  BY <1>4 DEF Exact, FileInv, Linked
<1>11. S.dirty # {} \/ S.metaDirty =>
          \E e \in Clients \ {c} : client[e].pc \in Handles /\ client[e].generation = S.generation
  <2> SUFFICES ASSUME S.dirty # {} \/ S.metaDirty
               PROVE  \E e \in Clients \ {c} : client[e].pc \in Handles /\ client[e].generation = S.generation
    OBVIOUS
  <2>1. PICK e \in Clients : client[e].pc \in Handles /\ client[e].generation = S.generation
    BY <1>1, <1>3 DEF Exact, SerialInv, Watched
  <2>2. e # c
    BY <1>1, <1>2, <2>1 DEF Handles
  <2> QED
    BY <2>1, <2>2
<1> QED
  BY <1>1, <1>2, <1>3, <1>4, <1>5, <1>6, <1>7, <1>8, <1>9, <1>10, <1>11, Leaves

-----------------------------------------------------------------------------
(* The file is empty again, or what is left of it.                         *)

LEMMA RebornIs ==
    ASSUME NEW st \in StateRec, NEW g \in Gens
    PROVE  /\ Reborn(st, g) \in StateRec /\ Reborn(st, g).size = 0 /\ Reborn(st, g).generation = g
           /\ Reborn(st, g).dirty = {} /\ Reborn(st, g).metaDirty = FALSE /\ Reborn(st, g).refCount = st.refCount
<1>1. PICK k : k = Zeros /\ k \in Rows /\ 0 \in Sizes
  BY Grounds
<1> QED
  BY <1>1 DEF Reborn, StateRec

\* An empty file, whose state, if it is registered, knows it.
LEMMA Emptied ==
    ASSUME Exact, NEW c \in Clients, NEW w, Moved(c, w), SerialInv', Erased, UNCHANGED crashes,
           w.pc \notin Working \cup Replacing, meta'.generation # 0, StoredSize' = 0,
           registry' # None => state'[registry'].size = 0 /\ state'[registry'].dirty = {},
           crashes = 0 => \A x \in Cells : blocks'[meta'.generation][x] = 0
    PROVE  FileInv'
<1>1. truth' = [size |-> 0, cells |-> Zeros] /\ truth'.size = 0 /\ truth'.cells = Zeros
  BY DEF Erased
<1>2. Ended'
  BY <1>1, Grounds DEF Ended, Zeros
<1>3. Below' /\ Linked'
  BY DEF Below, Linked, Known
<1>4. Size' = 0
  BY DEF Size, Known
<1>5. crashes = 0 => \A x \in Cells : Cell(x)' = 0
  BY DEF Cell, Known, Page
<1>6. Same'
  <2>1. \A x \in Cells : ~(x < 0)
    BY CellsNat
  <2> QED
    BY <1>1, <1>4, <2>1 DEF Same
<1>7. Tail'
  BY <1>5 DEF Tail, Exact, FileInv
<1>8. Flushing(c)' /\ Cutting(c)'
  BY MovedTo, Elsewhere, ExactGen
<1> QED
  BY <1>2, <1>3, <1>6, <1>7, <1>8, FileStep, ExactGen

LEMMA CreateDoneKeeps ==
    ASSUME Serial, Exact, NEW c \in Clients, CreateDone(c) PROVE Exact'
<1>1. PICK y, o, S, g, r : y = client[c] /\ o = Outside /\ S = state[registry] /\ g = y.generation /\ r = registry
  OBVIOUS
<1>2. PICK w, z : w = [o EXCEPT !.pc = "idle", !.st = r, !.generation = g] /\ z = Reborn(S, g)
  OBVIOUS
<1>3. y.pc = "createPurge" /\ c \in Holders
  BY <1>1 DEF CreateDone, At, Holders
<1>4. y.st = registry /\ registry \in States /\ registry # None /\ S \in StateRec /\ state \in [States -> StateRec]
  BY <1>1, <1>3, HolderAt DEF Exact, SerialInv, GenInv, Types
<1>5. /\ client' = [client EXCEPT ![c] = w] /\ UNCHANGED <<meta, blocks, registry, mu, crashes>> /\ Erased
      /\ state' = [state EXCEPT ![registry] = z]
  BY <1>1, <1>2, <1>4 DEF CreateDone, Back, disk, bounds
<1>6. y \in ClientRec /\ Knows(y, meta) /\ Placed(c) /\ Others(c) /\ GenInv'
  BY <1>1, <1>3, Pcss, OthersBusy, CreateDoneSteps, SerialOpens, ExactGen DEF Quiet
<1>7. /\ g \in 1 .. MaxGen /\ g \in Gens /\ g = meta.generation /\ ~meta.deleted /\ meta.size = 0 /\ g # 0
      /\ S.generation < g
  BY <1>1, <1>3, <1>6, VFSFileAssumption DEF Knows, Placed, ClientRec, Gens
<1>8. w \in ClientRec /\ w.pc = "idle" /\ w.st = registry /\ w.generation = g
  BY <1>1, <1>2, <1>4, <1>7, Grounds DEF ClientRec, Pcs, Handles
<1>9. Moved(c, w) /\ client'[c] = w /\ state'[registry] = z
  BY <1>4, <1>5, <1>6, <1>8, MovedTo, ExactGen DEF Moved
<1>10. z.size = 0 /\ z.generation = g /\ z.dirty = {} /\ z.metaDirty = FALSE /\ z.refCount = S.refCount
  BY <1>2, <1>4, <1>7, RebornIs
<1>11. SerialInv'
  <2>1. Placed(c)'
    BY <1>5, <1>8, <1>9 DEF Placed, Working
  <2>2. Counts'
    BY <1>1, <1>3, <1>5, <1>8, <1>9, <1>10, CountsKept, ExactGen DEF Handles
  <2>3. Agreed' /\ Watched'
    BY <1>5, <1>7, <1>9, <1>10 DEF Agreed, Watched
  <2>4. mu' \in [States -> Clients \cup {None}]
    BY <1>5 DEF Exact, SerialInv
  <2> QED
    BY <1>5, <1>6, <1>9, <2>1, <2>2, <2>3, <2>4, SerialStep, FreshKept, ExactGen
<1>12. ASSUME crashes = 0, NEW x \in Cells PROVE blocks[meta.generation][x] = 0
  <2>1. Nobody({"truncate"})
    BY <1>1, <1>3, <1>6 DEF Nobody, Others, Quiet
  <2>2. ~Known /\ Size = 0 /\ x >= 0
    BY <1>1, <1>4, <1>7, CellsNat DEF Known, Size, StoredSize, StateRec, Gens
  <2>3. Cell(x) = 0
    BY <1>12, <2>1, <2>2 DEF Exact, FileInv, Tail
  <2> QED
    BY <1>7, <2>2, <2>3 DEF Cell
<1>13. StoredSize' = 0
  BY <1>5, <1>7 DEF StoredSize
<1>14. FileInv'
  BY <1>5, <1>7, <1>8, <1>9, <1>10, <1>11, <1>12, <1>13, Emptied DEF Working, Replacing
<1> QED
  BY <1>11, <1>14 DEF Exact

LEMMA TombstoneKeeps ==
    ASSUME Serial, Exact, NEW c \in Clients, Tombstone(c) PROVE Exact'
<1>1. PICK y, S, g : y = client[c] /\ S = state[registry] /\ g = y.generation + 1
  OBVIOUS
<1>2. y.pc = "purge" /\ y.pc \notin Quiet
  BY <1>1 DEF Tombstone, At, Quiet
<1>3. y \in ClientRec /\ Knows(y, meta) /\ Placed(c) /\ Others(c) /\ GenInv'
  BY <1>1, <1>2, Pcss, OthersBusy, TombstoneSteps, SerialOpens, ExactGen
<1>4. y.st = registry /\ y.generation = meta.generation /\ 1 <= y.generation /\ y.generation < MaxGen
  BY <1>1, <1>2, <1>3 DEF Placed, Knows, Replacing
<1>5. g \in 1 .. MaxGen /\ g \in Gens /\ g > meta.generation /\ g # 0 /\ meta.generation \in Nat
  BY <1>1, <1>3, <1>4, VFSFileAssumption DEF ClientRec, Gens
<1>6. /\ client' = [client EXCEPT ![c] = Outside] /\ UNCHANGED <<blocks, registry, crashes>> /\ Erased
      /\ meta' = [size |-> 0, generation |-> g, deleted |-> TRUE]
      /\ state' = IF registry = None THEN state ELSE [state EXCEPT ![registry] = Reborn(S, g)]
      /\ mu' = IF registry = None THEN mu ELSE [mu EXCEPT ![registry] = None]
  BY <1>1, <1>4 DEF Tombstone, DeletedGeneration, bounds
<1>7. Moved(c, Outside) /\ client'[c] = Outside /\ Outside.pc = "none"
  BY <1>3, <1>6, MovedTo, Grounds, ExactGen DEF Moved
<1>8. registry # None => /\ registry \in States /\ state'[registry].size = 0 /\ state'[registry].generation = g
                         /\ state'[registry].dirty = {} /\ state'[registry].metaDirty = FALSE
                         /\ state'[registry].refCount = S.refCount
  <2> SUFFICES ASSUME registry # None
               PROVE  /\ registry \in States /\ state'[registry].size = 0 /\ state'[registry].generation = g
                      /\ state'[registry].dirty = {} /\ state'[registry].metaDirty = FALSE
                      /\ state'[registry].refCount = S.refCount
    OBVIOUS
  <2>1. registry \in States /\ state \in [States -> StateRec] /\ S \in StateRec
    BY <1>1 DEF Exact, SerialInv, GenInv, Types
  <2>2. state'[registry] = Reborn(S, g)
    BY <1>6, <2>1
  <2>3. PICK z : z = Reborn(S, g)
    OBVIOUS
  <2>4. z.size = 0 /\ z.generation = g /\ z.dirty = {} /\ z.metaDirty = FALSE /\ z.refCount = S.refCount
    BY <1>5, <2>1, <2>3, RebornIs
  <2> QED
    BY <2>1, <2>2, <2>3, <2>4
<1>9. meta'.size = 0 /\ meta'.generation = g /\ meta'.deleted /\ StoredSize' = 0
  BY <1>6 DEF StoredSize
<1>10. blocks[g] = Zeros
  BY <1>5 DEF Exact, SerialInv, Fresh
<1>11. SerialInv'
  <2>1. Placed(c)'
    BY <1>7 DEF Placed, Handles, Replacing, Working
  <2>2. Counts'
    BY <1>1, <1>2, <1>6, <1>7, <1>8, CountsKept, ExactGen DEF Holders, Handles
  <2>3. Agreed' /\ Watched'
    BY <1>5, <1>6, <1>8, <1>9 DEF Agreed, Watched
  <2>4. Fresh'
    BY <1>5, <1>6, <1>9 DEF Fresh, Exact, SerialInv
  <2>5. mu' \in [States -> Clients \cup {None}]
    BY <1>6, <1>8, MuSet DEF Exact, SerialInv
  <2> QED
    BY <1>3, <1>6, <1>7, <2>1, <2>2, <2>3, <2>4, <2>5, SerialStep, ExactGen
<1>12. \A x \in Cells : blocks'[meta'.generation][x] = 0
  BY <1>6, <1>9, <1>10 DEF Zeros
<1>13. FileInv'
  BY <1>5, <1>6, <1>7, <1>8, <1>9, <1>11, <1>12, Emptied DEF Working, Replacing
<1> QED
  BY <1>11, <1>13 DEF Exact

LEMMA StoredIs ==
    ASSUME GenInv
    PROVE  /\ StoredSize \in Sizes /\ Stored \in Rows
           /\ \A x \in Cells : x >= StoredSize => Stored[x] = 0
           /\ \A x \in Cells : x < StoredSize => Stored[x] = IF meta.generation = 0 THEN 0 ELSE blocks[meta.generation][x]
<1>1. meta \in Metas /\ blocks \in [1 .. MaxGen -> Rows]
  BY DEF GenInv, Types
<1>2. StoredSize \in Sizes /\ StoredSize \in Nat
  BY <1>1, Grounds DEF StoredSize, Metas
<1>3. CASE meta.generation = 0
  BY <1>2, <1>3, Grounds DEF Stored, Zeros
<1>4. CASE meta.generation # 0
  <2>1. PICK R : R = blocks[meta.generation]
    OBVIOUS
  <2>2. meta.generation \in 1 .. MaxGen
    BY <1>1, <1>4, VFSFileAssumption DEF Metas
  <2>3. R \in Rows /\ Stored = Wiped(R, StoredSize)
    BY <1>1, <1>4, <2>1, <2>2 DEF Stored
  <2>4. \A x \in Cells : Wiped(R, StoredSize)[x] = IF x >= StoredSize THEN 0 ELSE R[x]
    BY DEF Wiped
  <2> QED
    BY <1>2, <1>4, <2>1, <2>3, <2>4, WipedRow, CellsNat
<1> QED
  BY <1>3, <1>4

LEMMA DeleteFailsKeeps ==
    ASSUME Serial, Exact, NEW c \in Clients, DeleteFails(c) PROVE Exact'
<1>1. PICK y, S, g : y = client[c] /\ S = state[registry] /\ g = y.generation
  OBVIOUS
<1>2. y.pc = "purge" /\ y.pc \notin Quiet
  BY <1>1 DEF DeleteFails, Quiet
<1>3. y \in ClientRec /\ Knows(y, meta) /\ Placed(c) /\ Others(c) /\ GenInv'
  BY <1>1, <1>2, Pcss, OthersBusy, DeleteFailsSteps, SerialOpens, ExactGen
<1>4. y.st = registry /\ g = meta.generation /\ g \in 1 .. MaxGen /\ g # 0
  BY <1>1, <1>2, <1>3, VFSFileAssumption DEF Placed, Knows, Replacing, ClientRec, Gens
<1>5. /\ client' = [client EXCEPT ![c] = Outside] /\ UNCHANGED <<meta, blocks, registry, state, crashes>>
      /\ mu' = (IF registry = None THEN mu ELSE [mu EXCEPT ![registry] = None])
      /\ truth' = IF registry = None THEN [size |-> StoredSize, cells |-> Stored] ELSE View(S, g)
  BY <1>1, <1>4 DEF DeleteFails, Fail, disk
<1>6. Moved(c, Outside) /\ client'[c] = Outside /\ Outside.pc = "none"
  BY <1>3, <1>5, MovedTo, Grounds, ExactGen DEF Moved
<1>7. registry # None => registry \in States /\ S \in StateRec
  BY <1>1 DEF Exact, SerialInv, GenInv, Types
<1>8. mu' \in [States -> Clients \cup {None}]
  BY <1>5, <1>7, MuSet DEF Exact, SerialInv
<1>9. Placed(c)' /\ Flushing(c)' /\ Cutting(c)'
  BY <1>6, Elsewhere DEF Placed, Handles, Replacing, Working
<1>10. SerialInv'
  BY <1>1, <1>2, <1>3, <1>5, <1>6, <1>8, <1>9, SerialKept, FreshKept, ExactGen DEF Holders, Handles
<1>11. (Known <=> Known') /\ StoredSize' = StoredSize /\ Size' = Size /\ \A x \in Cells : Cell(x)' = Cell(x)
  BY <1>5 DEF Known, StoredSize, Size, Cell, Page
<1>12. Below' /\ Linked'
  BY <1>5, <1>11 DEF Exact, FileInv, Below, Linked
<1>13. Tail'
  <2>1. Nobody({"truncate"})
    BY <1>1, <1>2, <1>3 DEF Nobody, Others, Quiet
  <2> QED
    BY <1>5, <1>11, <2>1 DEF Exact, FileInv, Tail
<1>14. Ended' /\ Same'
  <2>1. CASE registry = None
    <3>1. truth' = [size |-> StoredSize, cells |-> Stored] /\ truth'.size = StoredSize /\ truth'.cells = Stored
      BY <1>5, <2>1
    <3>2. Size = StoredSize /\ \A x \in Cells : Cell(x) = blocks[g][x]
      BY <1>4, <2>1 DEF Size, Cell, Known
    <3>3. Ended'
      BY <3>1, StoredIs, ExactGen DEF Ended
    <3>4. Same'
      BY <1>4, <1>11, <3>1, <3>2, StoredIs, ExactGen DEF Same
    <3> QED
      BY <3>3, <3>4
  <2>2. CASE registry # None
    <3>1. PICK T : T = [x \in Cells |-> IF x < S.size THEN Page(S, g, x) ELSE 0]
      OBVIOUS
    <3>2. truth' = [size |-> S.size, cells |-> T] /\ truth'.size = S.size /\ truth'.cells = T
      BY <1>5, <2>2, <3>1 DEF View
    <3>3. Nobody({"found", "creating", "createPurge"})
      BY <1>1, <1>2, <1>3 DEF Nobody, Others, Quiet
    <3>4. Known
      BY <1>4, <2>2, <3>3 DEF Known, Exact, SerialInv, Agreed
    <3>5. Size = S.size /\ \A x \in Cells : Cell(x) = Page(S, g, x)
      BY <1>1, <1>4, <3>4 DEF Size, Cell
    <3>6. S.size \in Sizes /\ S.size \in Nat
      BY <1>7, <2>2, Grounds DEF StateRec
    <3>7. \A x \in Cells : Page(S, g, x) \in Nat
      BY <1>4, <1>7, <2>2, PageNat, ExactGen DEF GenInv
    <3>8. T \in Rows /\ \A x \in Cells : x >= S.size => T[x] = 0
      <4>1. T \in Rows
        BY <3>1, <3>7 DEF Rows
      <4> QED
        BY <3>1, <3>6, <4>1, CellsNat
    <3>9. Ended'
      BY <3>2, <3>6, <3>8 DEF Ended
    <3>10. Same'
      BY <1>11, <3>1, <3>2, <3>5 DEF Same
    <3> QED
      BY <3>9, <3>10
  <2> QED
    BY <2>1, <2>2
<1>15. FileInv'
  BY <1>6, <1>9, <1>12, <1>13, <1>14, FileStep, ExactGen
<1> QED
  BY <1>10, <1>15 DEF Exact

-----------------------------------------------------------------------------
(* All steps.                                                              *)

\* Nobody has the file open, and nothing is under way.
Closed ==
    /\ GenInv /\ mu \in [States -> Clients \cup {None}] /\ registry = None
    /\ (\A c \in Clients : client[c].pc = "none") /\ Fresh /\ Ended /\ StoredSize = truth.size
    /\ \A x \in Cells : x < truth.size =>
          (IF meta.generation = 0 THEN 0 ELSE blocks[meta.generation][x]) = truth.cells[x]
    /\ crashes \in Nat /\ (crashes = 0 => meta.generation = 0) /\ (meta.generation = 0 => meta.size = 0)

LEMMA ClosedExact ==
    Closed => Exact
<1> SUFFICES ASSUME Closed PROVE Exact
  OBVIOUS
<1>1. Lone /\ \A c \in Clients : Placed(c)
  BY DEF Closed, Lone, Placed, Quiet, Handles, Replacing, Working
<1>2. Holders = {}
  BY DEF Closed, Holders, Handles
<1>3. Counts
  BY <1>2, FS_EmptySet DEF Closed, Counts
<1>4. Agreed /\ Watched /\ Below /\ ~Known
  BY DEF Closed, Agreed, Watched, Below, Known
<1>5. SerialInv
  BY <1>1, <1>3, <1>4 DEF Closed, SerialInv
<1>6. Linked /\ Same /\ Tail
  BY <1>4 DEF Closed, Linked, Same, Tail, Size, Cell
<1>7. \A c \in Clients : Flushing(c) /\ Cutting(c)
  BY DEF Closed, Flushing, Cutting
<1> QED
  BY <1>4, <1>5, <1>6, <1>7 DEF Closed, Exact, FileInv

\* What the store holds of the file, as a handle would read it.
Readable ==
    /\ StoredSize \in Sizes /\ Stored \in Rows
    /\ \A x \in Cells : x >= StoredSize => Stored[x] = 0
    /\ \A x \in Cells : x < StoredSize => Stored[x] = IF meta.generation = 0 THEN 0 ELSE blocks[meta.generation][x]

LEMMA StoreReadable == GenInv => Readable
BY StoredIs DEF Readable

LEMMA CrashKeeps ==
    ASSUME Exact, KeptInv, Crash PROVE Exact'
<1>1. /\ meta' = kept.meta /\ blocks' = kept.blocks /\ crashes' = crashes + 1 /\ registry' = None
      /\ mu' = [s \in States |-> None] /\ client' = [c \in Clients |-> Outside]
      /\ truth' = [size |-> StoredSize', cells |-> Stored']
  BY DEF Crash
<1>2. GenInv'
  BY CrashSteps, ExactGen DEF KeptInv
<1>3. mu' \in [States -> Clients \cup {None}] /\ \A c \in Clients : client'[c].pc = "none"
  BY <1>1, Grounds
<1>4. Fresh'
  BY <1>1 DEF KeptInv, Fresh
<1>5. truth'.size = StoredSize' /\ truth'.cells = Stored'
  BY <1>1
<1>6. Readable'
  BY <1>2, StoreReadable, PTL
<1>7. Ended' /\ \A x \in Cells : x < truth'.size =>
          (IF meta'.generation = 0 THEN 0 ELSE blocks'[meta'.generation][x]) = truth'.cells[x]
  BY <1>1, <1>5, <1>6 DEF Ended, Readable
<1>8. crashes' \in Nat /\ crashes' # 0
  BY <1>1 DEF Exact, FileInv, Tail
<1>9. meta'.generation = 0 => meta'.size = 0
  BY <1>1 DEF KeptInv
<1>10. Closed'
  BY <1>1, <1>2, <1>3, <1>4, <1>5, <1>7, <1>8, <1>9 DEF Closed
<1> QED
  BY <1>10, ClosedExact, PTL

\* The store becomes durable.
LEMMA KeptNow ==
    ASSUME Exact, KeptInv, kept' = Store, Durable' PROVE KeptInv'
<1>1. PICK k : k = [meta |-> meta, blocks |-> blocks]
  OBVIOUS
<1>2. kept' = k /\ k.meta = meta /\ k.blocks = blocks
  BY <1>1 DEF Store
<1>3. Fresh /\ (meta.generation = 0 => meta.size = 0)
  BY DEF Exact, SerialInv, FileInv, Linked
<1> QED
  BY <1>2, <1>3 DEF KeptInv, Fresh

LEMMA KeptStep ==
    ASSUME Serial, Exact, KeptInv, [Next]_vars PROVE KeptInv'
<1>1. Durable' /\ crashes \in Nat
  BY GenStep, SerialOpens, ExactGen DEF KeptInv, Exact, FileInv, Tail
<1>2. CASE kept' = Store
  BY <1>1, <1>2, KeptNow
<1>3. CASE UNCHANGED kept
  BY <1>1, <1>3 DEF KeptInv
<1> QED
  BY <1>2, <1>3 DEF Next, Crash, Persist, Barrier, durable, vars

LEMMA ExactInit ==
    Init => Exact
<1> SUFFICES ASSUME Init PROVE Exact
  OBVIOUS
<1>1. /\ meta.generation = 0 /\ meta.size = 0 /\ StoredSize = 0 /\ truth.size = 0 /\ truth.cells = Zeros
      /\ truth = [size |-> 0, cells |-> Zeros] /\ registry = None /\ crashes = 0
  BY DEF Init, NoFile, StoredSize
<1>2. mu \in [States -> Clients \cup {None}] /\ \A c \in Clients : client[c].pc = "none"
  BY Grounds DEF Init
<1>3. Fresh
  BY DEF Init, Fresh
<1>4. Ended
  BY <1>1, Grounds DEF Ended, Zeros
<1>5. \A x \in Cells : ~(x < 0)
  BY CellsNat
<1> QED
  BY <1>1, <1>2, <1>3, <1>4, <1>5, GenInit, ClosedExact DEF Closed

LEMMA KeptInit ==
    Init => KeptInv
<1> SUFFICES ASSUME Init PROVE KeptInv
  OBVIOUS
<1>1. PICK k : k = [meta |-> meta, blocks |-> blocks]
  OBVIOUS
<1>2. kept = k /\ k.meta = meta /\ k.blocks = blocks
  BY <1>1 DEF Init, Store
<1>3. Fresh /\ (meta.generation = 0 => meta.size = 0)
  BY ExactInit DEF Exact, SerialInv, FileInv, Linked
<1> QED
  BY <1>2, <1>3, DurableInit DEF KeptInv, Fresh

LEMMA ClientKeeps ==
    ASSUME Serial, Exact, NEW c \in Clients, ClientNext(c) PROVE Exact'
<1>1. CASE OpenRead(c) \/ OpenPut(c) \/ OpenRegister(c) \/ OpenFails(c)
  BY <1>1, OpenReadKeeps, OpenPutKeeps, OpenRegisterKeeps, OpenFailsKeeps
<1>2. CASE \/ \E a, b \in Cells : a <= b /\ << a, b >> \in Spans /\ Write(c, a, b)
           \/ \E size \in Sizes : Truncate(c, size)
           \/ \E b \in Blocks : FlushBlock(c, b)
  BY <1>2, WriteKeeps, TruncateKeeps, FlushBlockKeeps
<1>3. CASE Sync(c) \/ SaveCheck(c) \/ SavePut(c) \/ TruncateBlock(c) \/ TruncateMeta(c)
  BY <1>3, SyncKeeps, SaveCheckKeeps, SavePutKeeps, TruncateBlockKeeps, TruncateMetaKeeps
<1>4. CASE CloseDirty(c) \/ SaveClose(c) \/ CloseClean(c)
  BY <1>4, CloseDirtyKeeps, SaveCloseKeeps, CloseCleanKeeps
<1>5. CASE DeleteStart(c) \/ PurgeBlock(c) \/ Tombstone(c) \/ DeleteFails(c)
  BY <1>5, DeleteStartKeeps, PurgeKeeps, TombstoneKeeps, DeleteFailsKeeps
<1>6. CASE CreateStart(c) \/ CreatePut(c) \/ CreatePurgeBlock(c) \/ CreateDone(c) \/ CreateFails(c)
  BY <1>6, CreateStartKeeps, CreatePutKeeps, PurgeKeeps, CreateDoneKeeps, CreateFailsKeeps
<1>7. CASE FlushFails(c) \/ TruncateFails(c) \/ TruncateStops(c)
  BY <1>7, FlushFailsKeeps, TruncateFailsKeeps, TruncateStopsKeeps
<1> QED
  BY <1>1, <1>2, <1>3, <1>4, <1>5, <1>6, <1>7, Zenon DEF ClientNext

LEMMA ExactStep ==
    ASSUME Serial PROVE Exact /\ KeptInv /\ [Next]_vars => Exact' /\ KeptInv'
<1> SUFFICES ASSUME Exact, KeptInv, [Next]_vars PROVE Exact'
  BY KeptStep
<1>1. CASE Crash
  BY <1>1, CrashKeeps
<1>2. CASE \E c \in Clients : Barrier(c) \/ ClientNext(c)
  BY <1>2, BarrierKeeps, ClientKeeps
<1>3. CASE UNCHANGED vars \/ Persist
  <2>1. UNCHANGED <<meta, blocks, registry, state, mu, client, truth, crashes, writes>>
    BY <1>3 DEF vars, Persist, disk, memory, ghost, bounds
  <2>2. GenInv'
    BY <2>1, ExactGen DEF GenInv, Types
  <2>3. SerialInv'
    BY <2>1, <2>2 DEF Exact, SerialInv, Lone, Placed, Counts, Agreed, Watched, Fresh, Holders, Nobody
  <2>4. (Known <=> Known') /\ StoredSize' = StoredSize /\ Size' = Size /\ \A x \in Cells : Cell(x)' = Cell(x)
    BY <2>1 DEF Known, StoredSize, Size, Cell, Page
  <2>5. Ended' /\ Below' /\ Linked' /\ Same' /\ Tail'
    BY <2>1, <2>4 DEF Exact, FileInv, Ended, Below, Linked, Same, Tail, Nobody
  <2>6. \A c \in Clients : Flushing(c)' /\ Cutting(c)'
    BY <2>1 DEF Exact, FileInv, Flushing, Cutting, Page
  <2> QED
    BY <2>3, <2>5, <2>6 DEF Exact, FileInv
<1> QED
  BY <1>1, <1>2, <1>3 DEF Next

\* What every handle that is not stale reads is what the calls of all handles left in
\* the file, whatever the order of writes, truncations, flushes, closings, failures and
\* stops (vfs_file.go, ReadAt over dirtyBlocks and the sparse blocks of the store), when
\* the calls that open, create or delete the file run alone, the purge of a creation and
\* a truncation over hidden cells do not fail, and nothing is written after a stop.
THEOREM Contents ==
    ASSUME Serial PROVE Spec => []ViewExact
<1>1. Exact /\ KeptInv /\ [Next]_vars => Exact' /\ KeptInv'
  BY ExactStep
<1>2. Exact => ViewExact
  BY ViewIs DEF Exact
<1> QED
  BY <1>1, <1>2, ExactInit, KeptInit, PTL DEF Spec

\* Under the same conditions, when no call is under way and the registered state has
\* nothing dirty (after Sync, Truncate or the last Close), the metadata and the blocks in
\* the store alone are the file (vfs_file.go, flushDirtyLocked and saveMetaLocked).
THEOREM StoreHolds ==
    ASSUME Serial PROVE Spec => []StoreExact
<1>1. Exact /\ KeptInv /\ [Next]_vars => Exact' /\ KeptInv'
  BY ExactStep
<1>2. Exact => StoreExact
  BY StoreIs DEF Exact
<1> QED
  BY <1>1, <1>2, ExactInit, KeptInit, PTL DEF Spec

-----------------------------------------------------------------------------
(* What a stop leaves.                                                     *)

\* What the store holds of the current generation, and what the file would be, is
\* among what it was since the last Sync that returned.
Seen ==
    /\ truth.size \in may.size /\ StoredSize \in may.size
    /\ \A x \in Cells : truth.cells[x] \in may.cells[x]
    /\ \A x \in Cells :
          meta.generation # 0 /\ (crashes = 0 \/ x < StoredSize) => blocks[meta.generation][x] \in may.cells[x]
    /\ ~Nobody({"truncate", "purge"}) => Size \in may.size
    /\ ~Nobody({"purge"}) /\ crashes = 0 => \A x \in Cells : Cell(x) \in may.cells[x]
    /\ ~Nobody({"purge", "createPurge"}) => 0 \in may.size /\ \A x \in Cells : 0 \in may.cells[x]

\* Nothing is written after a stop.
Calm ==
    crashes # 0 =>
        Nobody({"truncate"}) /\ (registry # None => state[registry].dirty = {} /\ ~state[registry].metaDirty)

\* One client steps.
Steps(c) == Others(c) /\ \A d \in Clients \ {c} : client'[d] = client[d]

LEMMA StepsNobody ==
    ASSUME NEW c \in Clients, Steps(c), NEW P, P \cap Quiet = {}
    PROVE  (Nobody(P)' <=> client'[c].pc \notin P) /\ (Nobody(P) <=> client[c].pc \notin P)
BY DEF Steps, Others, Nobody

LEMMA Removals ==
    /\ {"truncate", "purge"} \cap Quiet = {} /\ {"purge"} \cap Quiet = {} /\ {"purge", "createPurge"} \cap Quiet = {}
    /\ {"truncate"} \cap Quiet = {} /\ {"purge", "createPurge", "truncate"} \cap Quiet = {}
BY DEF Quiet

LEMMA StepsOf ==
    ASSUME Exact, NEW c \in Clients, Others(c), NEW y, client' = [client EXCEPT ![c] = y]
    PROVE  Steps(c) /\ client'[c] = y
BY DEF Steps, Exact, SerialInv, GenInv, Types

\* What the step of a client has to show.
LEMMA SeenStep ==
    ASSUME NEW c \in Clients, Steps(c),
           truth'.size \in may'.size, StoredSize' \in may'.size, \A x \in Cells : truth'.cells[x] \in may'.cells[x],
           \A x \in Cells :
              meta'.generation # 0 /\ (crashes' = 0 \/ x < StoredSize') => blocks'[meta'.generation][x] \in may'.cells[x],
           client'[c].pc \in {"truncate", "purge"} => Size' \in may'.size,
           client'[c].pc = "purge" /\ crashes' = 0 => \A x \in Cells : Cell(x)' \in may'.cells[x],
           client'[c].pc \in {"purge", "createPurge"} => 0 \in may'.size /\ \A x \in Cells : 0 \in may'.cells[x]
    PROVE  Seen'
<1>1. /\ Nobody({"truncate", "purge"})' <=> client'[c].pc \notin {"truncate", "purge"}
      /\ Nobody({"purge"})' <=> client'[c].pc \notin {"purge"}
      /\ Nobody({"purge", "createPurge"})' <=> client'[c].pc \notin {"purge", "createPurge"}
  BY StepsNobody, Removals
<1> QED
  BY <1>1 DEF Seen

LEMMA CalmStep ==
    ASSUME Calm, NEW c \in Clients, Steps(c), crashes' = crashes, client'[c].pc # "truncate" \/ crashes = 0,
           crashes # 0 /\ registry' # None => state'[registry'].dirty = {} /\ ~state'[registry'].metaDirty
    PROVE  Calm'
<1>1. crashes # 0 => Nobody({"truncate"})'
  BY StepsNobody, Removals
<1> QED
  BY <1>1 DEF Calm

Past == Seen /\ Calm

\* Steps that change nothing of the file, nor of what is registered.
LEMMA PastKept ==
    ASSUME Past, NEW c \in Clients, Steps(c), client'[c].pc \notin {"truncate", "purge", "createPurge"},
           UNCHANGED <<meta, blocks, truth, may, crashes>>,
           crashes # 0 /\ registry' # None => state'[registry'].dirty = {} /\ ~state'[registry'].metaDirty
    PROVE  Past'
<1>1. StoredSize' = StoredSize
  BY DEF StoredSize
<1>2. Seen'
  BY <1>1, SeenStep DEF Past, Seen
<1>3. Calm'
  BY CalmStep DEF Past
<1> QED
  BY <1>2, <1>3 DEF Past

LEMMA CalmNow ==
    ASSUME Past
    PROVE  crashes # 0 /\ registry # None => state[registry].dirty = {} /\ ~state[registry].metaDirty
BY DEF Past, Calm

LEMMA OpenReadPast ==
    ASSUME Serial, Exact, Past, NEW c \in Clients, OpenRead(c) PROVE Past'
<1>1. PICK o, p, g, n : /\ o = Outside /\ g = meta.generation /\ n = meta.size
                        /\ p = IF meta.generation = 0 THEN "fresh" ELSE IF meta.deleted THEN "revive" ELSE "found"
  OBVIOUS
<1>2. PICK w : w = [o EXCEPT !.pc = p, !.generation = g, !.size = n]
  OBVIOUS
<1>3. /\ client' = [client EXCEPT ![c] = w] /\ Alone(c, "open")
      /\ UNCHANGED <<meta, blocks, registry, state, truth, may, crashes>>
  BY <1>1, <1>2 DEF OpenRead, disk, memory, ghost, bounds
<1>4. w.pc = p /\ p \in {"fresh", "revive", "found"}
  BY <1>1, <1>2, Grounds DEF ClientRec
<1>5. Steps(c) /\ client'[c] = w
  BY <1>3, OthersAlone, StepsOf
<1> QED
  BY <1>3, <1>4, <1>5, PastKept, CalmNow

LEMMA OpenFailsPast ==
    ASSUME Serial, Exact, Past, NEW c \in Clients, OpenFails(c) PROVE Past'
<1>1. /\ client' = [client EXCEPT ![c] = Outside] /\ client[c].pc \in {"fresh", "revive"}
      /\ UNCHANGED <<meta, blocks, registry, state, truth, may, crashes>>
  BY DEF OpenFails, Fail, disk, memory, ghost
<1>2. Steps(c) /\ client'[c].pc = "none"
  BY <1>1, OthersBusy, StepsOf, Grounds, ExactGen DEF Quiet
<1> QED
  BY <1>1, <1>2, PastKept, CalmNow

\* A handle comes back to idle.
LEMMA BackSteps ==
    ASSUME Exact, NEW c \in Clients, client[c].pc \in Handles, Others(c), Back(c, client[c].st)
    PROVE  Steps(c) /\ client'[c].pc = "idle"
<1>1. PICK w : Moved(c, w) /\ w.pc = "idle"
  BY BackMoved
<1> QED
  BY <1>1, StepsOf DEF Moved

LEMMA FlushFailsPast ==
    ASSUME Serial, Exact, Past, NEW c \in Clients, FlushFails(c) PROVE Past'
<1>1. /\ client[c].pc \in {"flush", "save", "barrier"} /\ Back(c, client[c].st)
      /\ UNCHANGED <<meta, blocks, registry, state, truth, may, crashes>>
  BY DEF FlushFails, Fail, disk, ghost
<1>2. Steps(c) /\ client'[c].pc = "idle"
  BY <1>1, OthersBusy, BackSteps, ExactGen DEF Quiet, Handles
<1> QED
  BY <1>1, <1>2, PastKept, CalmNow

LEMMA FlushBeginsPast ==
    ASSUME Serial, Exact, Past, NEW c \in Clients, Sync(c) \/ CloseDirty(c) PROVE Past'
<1>1. PICK y : y = client[c]
  OBVIOUS
<1>2. /\ y.pc = "idle" /\ Free(c) /\ mu[y.st] = None
      /\ UNCHANGED <<meta, blocks, registry, state, truth, may, crashes>>
  BY <1>1 DEF Sync, CloseDirty, Enter, Valid, disk, ghost, bounds
<1>3. y \in ClientRec /\ y.after \in {"return", "sync", "close"}
  BY <1>1, ExactGen DEF GenInv, Types, ClientRec
<1>4. \E w : client' = [client EXCEPT ![c] = w] /\ w.pc \in {"flush", "barrier"}
  <2>1. CASE Sync(c)
    <3>1. CASE StartFlush(c, y.st, "sync")
      <4>1. PICK D : D = state'[y.st].dirty
        OBVIOUS
      <4>2. PICK w : w = [y EXCEPT !.pc = "flush", !.todo = D, !.after = "sync"]
        OBVIOUS
      <4>3. client' = [client EXCEPT ![c].pc = "flush", ![c].todo = D, ![c].after = "sync"]
        BY <3>1, <4>1 DEF StartFlush
      <4>4. client' = [client EXCEPT ![c] = w]
        BY <1>1, <4>2, <4>3, ExactGen DEF GenInv, Types
      <4>5. w.pc = "flush"
        BY <1>3, <4>2 DEF ClientRec
      <4> QED
        BY <4>4, <4>5
    <3>2. CASE Move(c, "barrier")
      <4>1. PICK w : w = [y EXCEPT !.pc = "barrier"]
        OBVIOUS
      <4>2. client' = [client EXCEPT ![c] = w]
        BY <1>1, <3>2, <4>1, ExactGen DEF Move, GenInv, Types
      <4>3. w.pc = "barrier"
        BY <1>3, <4>1 DEF ClientRec
      <4> QED
        BY <4>2, <4>3
    <3> QED
      BY <1>1, <2>1, <3>1, <3>2 DEF Sync
  <2>2. CASE CloseDirty(c)
    <3>1. PICK D : D = state[y.st].dirty
      OBVIOUS
    <3>2. PICK w : w = [y EXCEPT !.pc = "flush", !.todo = D, !.after = "close"]
      OBVIOUS
    <3>3. client' = [client EXCEPT ![c].pc = "flush", ![c].todo = D, ![c].after = "close"]
      BY <1>1, <2>2, <3>1 DEF CloseDirty
    <3>4. client' = [client EXCEPT ![c] = w]
      BY <1>1, <3>2, <3>3, ExactGen DEF GenInv, Types
    <3>5. w.pc = "flush"
      BY <1>3, <3>2 DEF ClientRec
    <3> QED
      BY <3>4, <3>5
  <2> QED
    BY <2>1, <2>2
<1>5. Steps(c) /\ client'[c].pc \in {"flush", "barrier"}
  BY <1>1, <1>2, <1>4, OthersIdle, StepsOf, ExactGen
<1> QED
  BY <1>2, <1>5, PastKept, CalmNow

LEMMA SaveCheckPast ==
    ASSUME Serial, Exact, Past, NEW c \in Clients, SaveCheck(c) PROVE Past'
<1>1. client[c].pc = "flush" /\ UNCHANGED <<meta, blocks, registry, state, truth, may, crashes>>
  BY DEF SaveCheck, At, disk, ghost, bounds
<1>2. Others(c)
  BY <1>1, OthersBusy, ExactGen DEF Quiet
<1>3. Steps(c) /\ client'[c].pc \in {"idle", "save"}
  <2>1. CASE Back(c, client[c].st)
    BY <1>1, <1>2, <2>1, BackSteps DEF Handles
  <2>2. CASE Move(c, "save")
    BY <1>2, <2>2 DEF Move, Steps, Exact, SerialInv, GenInv, Types, ClientRec
  <2> QED
    BY <2>1, <2>2 DEF SaveCheck
<1> QED
  BY <1>1, <1>3, PastKept, CalmNow

LEMMA OpenRegisterPast ==
    ASSUME Serial, Exact, Past, NEW c \in Clients, OpenRegister(c) PROVE Past'
<1>1. PICK s \in States :
          /\ Registered(s)
          /\ LET g == client[c].generation
                 j == Joined(s)
             IN  state' = [state EXCEPT ![s] =
                     IF g > j.generation
                       THEN [j EXCEPT !.generation = g, !.size = client[c].size,
                                      !.dirty = {}, !.cells = Zeros, !.metaDirty = FALSE]
                       ELSE j]
          /\ Back(c, s)
  BY DEF OpenRegister
<1>2. PICK y, g, j, n, zz, o : /\ y = client[c] /\ g = y.generation /\ j = Joined(s) /\ n = y.size /\ zz = Zeros
                               /\ o = Outside
  OBVIOUS
<1>3. PICK k, w : /\ k = [j EXCEPT !.generation = g, !.size = n, !.dirty = {}, !.cells = zz, !.metaDirty = FALSE]
                  /\ w = [o EXCEPT !.pc = "idle", !.st = s, !.generation = g]
  OBVIOUS
<1>4. /\ y.pc = "found" /\ UNCHANGED <<meta, blocks, truth, may, crashes>>
      /\ state' = [state EXCEPT ![s] = IF g > j.generation THEN k ELSE j] /\ client' = [client EXCEPT ![c] = w]
  BY <1>1, <1>2, <1>3 DEF OpenRegister, At, Back, disk, ghost, bounds
<1>5. Steps(c) /\ client'[c].pc = "idle"
  <2>1. w.pc = "idle"
    BY <1>2, <1>3, Grounds DEF ClientRec
  <2> QED
    BY <1>2, <1>4, <2>1, OthersBusy, StepsOf, ExactGen DEF Quiet
<1>6. j \in StateRec /\ registry' = s
  BY <1>1, <1>2, JoinedIs
<1>7. k.dirty = {} /\ k.metaDirty = FALSE
  BY <1>3, <1>6 DEF StateRec
<1>8. crashes # 0 => j.dirty = {} /\ ~j.metaDirty
  <2>1. registry = None => j.dirty = {} /\ j.metaDirty = FALSE
    BY <1>1, <1>2, JoinedIs
  <2>2. registry # None => registry = s /\ j.dirty = state[s].dirty /\ j.metaDirty = state[s].metaDirty
    BY <1>1, <1>2, JoinedIs
  <2> QED
    BY <2>1, <2>2, CalmNow
<1>9. state'[s].dirty \in {k.dirty, j.dirty} /\ (state'[s] = k \/ state'[s] = j)
  BY <1>4, ExactGen DEF GenInv, Types
<1> QED
  BY <1>4, <1>5, <1>6, <1>7, <1>8, <1>9, PastKept

LEMMA CreateStartPast ==
    ASSUME Serial, Exact, Past, NEW c \in Clients, CreateStart(c) PROVE Past'
<1>1. PICK s \in States :
          /\ Registered(s)
          /\ state' = [state EXCEPT ![s] = Joined(s)]
          /\ LET g == Max({meta.generation, Joined(s).generation}) + 1
             IN  client' = [client EXCEPT ![c] =
                       [Outside EXCEPT !.pc = "creating", !.st = s, !.generation = g,
                                       !.seen = meta.generation,
                                       !.todo = {b \in Blocks : b < numBlocks(meta.size)}]]
  BY DEF CreateStart
<1>2. PICK o, g, m, j, D : /\ o = Outside /\ m = meta.generation /\ j = Joined(s)
                           /\ g = Max({m, j.generation}) + 1
                           /\ D = {b \in Blocks : b < numBlocks(meta.size)}
  OBVIOUS
<1>3. PICK w : w = [o EXCEPT !.pc = "creating", !.st = s, !.generation = g, !.seen = m, !.todo = D]
  OBVIOUS
<1>4. /\ Alone(c, "create") /\ client' = [client EXCEPT ![c] = w]
      /\ state' = [state EXCEPT ![s] = j] /\ UNCHANGED <<meta, blocks, truth, may, crashes>>
  BY <1>1, <1>2, <1>3 DEF CreateStart, disk, ghost, bounds
<1>5. Steps(c) /\ client'[c].pc = "creating"
  <2>1. w.pc = "creating"
    BY <1>2, <1>3, Grounds DEF ClientRec
  <2> QED
    BY <1>4, <2>1, OthersAlone, StepsOf
<1>6. registry' = s /\ state'[s] = j
  BY <1>1, <1>2, <1>4, JoinedIs, ExactGen DEF GenInv, Types
<1>7. crashes # 0 => j.dirty = {} /\ ~j.metaDirty
  <2>1. registry = None => j.dirty = {} /\ j.metaDirty = FALSE
    BY <1>1, <1>2, JoinedIs
  <2>2. registry # None => registry = s /\ j.dirty = state[s].dirty /\ j.metaDirty = state[s].metaDirty
    BY <1>1, <1>2, JoinedIs
  <2> QED
    BY <2>1, <2>2, CalmNow
<1> QED
  BY <1>4, <1>5, <1>6, <1>7, PastKept

\* What is left in the registry is as clean as what was released.
LEMMA ReleasedCalm ==
    ASSUME Exact, registry \in States, NEW st \in StateRec, Released(registry, st), registry' # None
    PROVE  registry' = registry /\ state'[registry].dirty = st.dirty /\ state'[registry].metaDirty = st.metaDirty
<1>1. st.refCount # 1 /\ registry' = registry /\ state'[registry] = Left(st)
  BY ExactGen DEF Released, GenInv, Types
<1> QED
  BY <1>1, LeftIs

LEMMA CloseCleanPast ==
    ASSUME Serial, Exact, Past, NEW c \in Clients, CloseClean(c) \/ CreateFails(c) PROVE Past'
<1>1. /\ client' = [client EXCEPT ![c] = Outside] /\ UNCHANGED <<meta, blocks, truth, may, crashes>>
      /\ Released(client[c].st, state[client[c].st])
  BY DEF CloseClean, CreateFails, Fail, disk, ghost, bounds, Serial
<1>2. c \in Holders /\ Others(c)
  <2>1. CASE CloseClean(c)
    <3>1. client[c].pc = "idle" /\ Free(c) /\ mu[client[c].st] = None
      BY <2>1 DEF CloseClean, At
    <3> QED
      BY <3>1, OthersIdle, ExactGen DEF Holders, Handles
  <2>2. CASE CreateFails(c)
    <3>1. client[c].pc = "creating"
      BY <2>2 DEF CreateFails, Serial
    <3> QED
      BY <3>1, OthersBusy, ExactGen DEF Holders, Quiet
  <2> QED
    BY <2>1, <2>2
<1>3. client[c].st = registry /\ registry \in States /\ registry # None /\ state[registry] \in StateRec
  BY <1>2, HolderAt
<1>4. Steps(c) /\ client'[c].pc = "none"
  BY <1>1, <1>2, StepsOf, Grounds
<1>5. crashes # 0 /\ registry' # None => state'[registry'].dirty = {} /\ ~state'[registry'].metaDirty
  BY <1>1, <1>3, ReleasedCalm, CalmNow
<1> QED
  BY <1>1, <1>4, <1>5, PastKept

\* Before any stop, what handles read of each cell is among what it was.
LEMMA CellSeen ==
    ASSUME Exact, Past, crashes = 0, NEW x \in Cells
    PROVE  Cell(x) \in may.cells[x]
<1>1. truth.cells[x] \in may.cells[x] /\ (meta.generation # 0 => blocks[meta.generation][x] \in may.cells[x])
  BY DEF Past, Seen
<1>2. CASE Nobody({"purge", "createPurge", "truncate"})
  <2>1. Nobody({"truncate"}) /\ truth.size \in Nat /\ x \in Nat
    BY <1>2, Grounds, CellsNat DEF Nobody, Exact, FileInv, Ended
  <2>2. Size = truth.size /\ (x < truth.size => Cell(x) = truth.cells[x])
    BY <1>2 DEF Exact, FileInv, Same
  <2>3. x >= truth.size => Cell(x) = 0 /\ truth.cells[x] = 0
    BY <2>1, <2>2 DEF Exact, FileInv, Tail, Ended
  <2> QED
    BY <1>1, <2>1, <2>2, <2>3
<1>3. CASE ~Nobody({"purge"})
  BY <1>3 DEF Past, Seen
<1>4. ASSUME NEW c \in Clients, client[c].pc = "createPurge" PROVE Cell(x) \in may.cells[x]
  <2>1. Placed(c) /\ Knows(client[c], meta) /\ client[c] \in ClientRec
    BY Pcss, ExactGen
  <2>2. state[registry].generation < meta.generation /\ meta.generation \in Nat /\ meta.generation # 0
    BY <1>4, <2>1 DEF Placed, Knows, Exact, SerialInv, GenInv, Types, Metas
  <2>3. registry # None => state[registry] \in StateRec
    BY DEF Exact, SerialInv, GenInv, Types
  <2>4. ~Known
    BY <2>2, <2>3 DEF Known, StateRec, Gens
  <2> QED
    BY <1>1, <2>2, <2>4 DEF Cell
<1>5. ASSUME NEW c \in Clients, client[c].pc = "truncate" PROVE Cell(x) \in may.cells[x]
  <2>1. PICK S, g, n : S = state[registry] /\ g = meta.generation /\ n = client[c].size
    OBVIOUS
  <2>2. Known /\ Cutting(c) /\ Placed(c) /\ n \in Nat /\ x \in Nat /\ S \in StateRec /\ g # 0
    BY <1>5, <2>1, Handle, HandleKnown, OthersBusy, Pcss, CellsNat, Grounds
       DEF Handles, Quiet, Exact, FileInv, ClientRec
  <2>3. client[c].generation = g /\ Cell(x) = Page(S, g, x)
    BY <1>5, <2>1, <2>2 DEF Placed, Working, Known, Cell
  <2>4. x < n => Page(S, g, x) = truth.cells[x]
    BY <1>5, <2>1, <2>2, <2>3 DEF Cutting
  <2>5. x >= n => truth.cells[x] = 0
    BY <1>5, <2>1, <2>2 DEF Cutting, Exact, FileInv, Ended
  <2>6. x >= n => x \div BlockSize \in client[c].todo \/ Page(S, g, x) = 0
    BY <1>5, <2>1, <2>2, <2>3 DEF Cutting
  <2>7. x \div BlockSize \in client[c].todo => x \div BlockSize \notin S.dirty
    <3>1. \A b \in S.dirty : b * BlockSize < n
      BY <1>5, <2>1, <2>2 DEF Cutting
    <3>2. \A b \in client[c].todo : b * BlockSize >= n
      BY <1>5, <2>1, <2>2 DEF Cutting
    <3>3. (x \div BlockSize) * BlockSize \in Nat
      BY <2>2, CellBlock
    <3> QED
      BY <2>2, <3>1, <3>2, <3>3
  <2>8. x \div BlockSize \in client[c].todo => Page(S, g, x) = blocks[g][x]
    BY <2>7 DEF Page
  <2> QED
    BY <1>1, <2>1, <2>2, <2>3, <2>4, <2>5, <2>6, <2>8
<1> QED
  BY <1>2, <1>3, <1>4, <1>5 DEF Nobody

LEMMA Saws ==
    ASSUME NEW row, NEW size, Saw(row, size)
    PROVE  may'.size = may.size \cup {size} /\ \A x \in Cells : may'.cells[x] = may.cells[x] \cup {row[x]}
BY DEF Saw

LEMMA Settles ==
    ASSUME Settled
    PROVE  may'.size = {truth.size} /\ \A x \in Cells : may'.cells[x] = {truth.cells[x]}
BY DEF Settled

LEMMA MayErased ==
    ASSUME Erased
    PROVE  truth'.size = 0 /\ may' = may /\ \A x \in Cells : truth'.cells[x] = 0
BY DEF Erased, Zeros

\* A step before any stop, that changes no metadata and no block of the generation.
LEMMA PastGrows ==
    ASSUME Past, NEW c \in Clients, Steps(c), client'[c].pc \notin {"purge", "createPurge"}, crashes = 0,
           UNCHANGED <<meta, blocks, crashes>>, Saw(truth'.cells, truth'.size),
           client'[c].pc = "truncate" => Size' \in may.size
    PROVE  Past'
<1>1. /\ may'.size = may.size \cup {truth'.size}
      /\ \A x \in Cells : may'.cells[x] = may.cells[x] \cup {truth'.cells[x]}
  BY Saws
<1>2. StoredSize' = StoredSize
  BY DEF StoredSize
<1>3. Seen'
  BY <1>1, <1>2, SeenStep DEF Past, Seen
<1>4. Calm'
  BY CalmStep DEF Past
<1> QED
  BY <1>3, <1>4 DEF Past

LEMMA FlushBlockPast ==
    ASSUME Serial, Exact, Past, NEW c \in Clients, NEW b \in Blocks, FlushBlock(c, b) PROVE Past'
<1>1. PICK y, D, S, g : y = client[c] /\ D = y.todo \ {b} /\ S = state[registry] /\ g = y.generation
  OBVIOUS
<1>2. PICK w : w = [y EXCEPT !.todo = D]
  OBVIOUS
<1>3. y.pc = "flush" /\ b \in y.todo /\ UNCHANGED <<meta, registry, state, truth, may, crashes>>
  BY <1>1 DEF FlushBlock, At, memory, ghost, bounds
<1>4. /\ Others(c) /\ y \in ClientRec /\ y.st = registry /\ registry # None /\ g \in 1 .. MaxGen
      /\ meta.generation # 0
  BY <1>1, <1>3, OthersBusy, Handle, ExactGen DEF Quiet, Handles
<1>5. client' = [client EXCEPT ![c] = w]
  BY <1>1, <1>2 DEF FlushBlock, Exact, SerialInv, GenInv, Types
<1>6. Steps(c) /\ client'[c].pc = "flush"
  <2>1. w.pc = "flush"
    BY <1>2, <1>3, <1>4 DEF ClientRec
  <2> QED
    BY <1>4, <1>5, <2>1, StepsOf
<1>7. Placed(c) /\ Flushing(c) /\ Known /\ S.generation = meta.generation
  BY <1>1, <1>3, <1>4, Pcss, HandleKnown DEF Exact, FileInv, Handles
<1>8. g = meta.generation /\ b \in S.dirty
  BY <1>1, <1>3, <1>7 DEF Placed, Working, Flushing
<1>9. crashes = 0
  BY <1>1, <1>4, <1>8, CalmNow
<1>10. ASSUME NEW x \in Cells PROVE blocks'[g][x] \in may.cells[x]
  <2>1. PICK r : r = [z \in Cells |-> IF z \in Of(b) THEN S.cells[z] ELSE blocks[g][z]]
    OBVIOUS
  <2>2. blocks' = [blocks EXCEPT ![g] = r]
    BY <1>1, <1>4, <2>1 DEF FlushBlock
  <2>3. blocks'[g] = r
    BY <1>4, <2>2 DEF Exact, SerialInv, GenInv, Types
  <2>4. CASE x \in Of(b)
    <3>1. x \div BlockSize \in S.dirty
      BY <1>8, <2>4 DEF Of
    <3>2. Cell(x) = S.cells[x]
      BY <1>1, <1>4, <1>7, <3>1 DEF Cell, Page
    <3> QED
      BY <1>9, <2>1, <2>3, <2>4, <3>2, CellSeen
  <2>5. CASE x \notin Of(b)
    <3>1. blocks[g][x] \in may.cells[x]
      BY <1>4, <1>8, <1>9 DEF Past, Seen
    <3> QED
      BY <2>1, <2>3, <2>5, <3>1
  <2> QED
    BY <2>4, <2>5
<1>11. StoredSize' = StoredSize
  BY <1>3 DEF StoredSize
<1>12. Seen'
  BY <1>3, <1>6, <1>8, <1>10, <1>11, SeenStep DEF Past, Seen
<1>13. Calm'
  BY <1>3, <1>6, <1>9, CalmStep DEF Past
<1> QED
  BY <1>12, <1>13 DEF Past

\* At the end of a flush, and at the barrier of a Sync, the store has the cells of the
\* file.
LEMMA Written ==
    ASSUME Exact, NEW c \in Clients, client[c].pc \in {"save", "barrier"}, Others(c)
    PROVE  /\ Known /\ client[c].generation = meta.generation /\ meta.generation # 0
           /\ state[registry].size = truth.size
           /\ \A x \in Cells : crashes = 0 \/ x < truth.size => blocks[meta.generation][x] = truth.cells[x]
<1>1. PICK S, g : S = state[registry] /\ g = client[c].generation
  OBVIOUS
<1>2. client[c].pc \in Handles
  BY DEF Handles
<1>3. Known /\ S \in StateRec /\ g = meta.generation /\ g # 0 /\ S.size \in Nat
  BY <1>1, <1>2, Handle, HandleKnown, Pcss, Grounds, ExactGen DEF Placed, Working, StateRec
<1>4. Nobody({"purge", "createPurge", "truncate"}) /\ Nobody({"truncate"})
  BY <1>2 DEF Nobody, Others, Quiet
<1>5. S.size = truth.size
  BY <1>1, <1>3, <1>4 DEF Size, Exact, FileInv, Same
<1>6. ASSUME NEW x \in Cells PROVE Page(S, g, x) = blocks[g][x]
  <2>1. CASE client[c].pc = "save"
    BY <1>1, <2>1, FlushedPage
  <2>2. CASE client[c].pc = "barrier"
    BY <1>1, <2>2 DEF Page, Exact, FileInv, Flushing
  <2> QED
    BY <2>1, <2>2
<1>7. ASSUME NEW x \in Cells, crashes = 0 \/ x < truth.size PROVE blocks[g][x] = truth.cells[x]
  <2>1. Cell(x) = blocks[g][x]
    BY <1>1, <1>3, <1>6 DEF Cell
  <2>2. x < truth.size => Cell(x) = truth.cells[x]
    BY <1>4 DEF Exact, FileInv, Same
  <2>3. crashes = 0 /\ x >= truth.size => Cell(x) = 0 /\ truth.cells[x] = 0
    BY <1>1, <1>3, <1>4, <1>5 DEF Size, Exact, FileInv, Tail, Ended
  <2> QED
    BY <1>3, <1>5, <1>7, <2>1, <2>2, <2>3, CellsNat
<1> QED
  BY <1>1, <1>3, <1>5, <1>7

\* The metadata of a flush are written: the store holds the file.
LEMMA SavedSeen ==
    ASSUME Exact, Past, NEW c \in Clients, client[c].pc = "save", Steps(c), client'[c].pc \in Quiet \cup {"barrier"},
           meta' = [size |-> state[registry].size, generation |-> client[c].generation, deleted |-> FALSE],
           UNCHANGED <<blocks, truth, may, crashes>>
    PROVE  Seen'
<1>1. Others(c)
  BY DEF Steps
<1>2. /\ client[c].generation = meta.generation /\ state[registry].size = truth.size
      /\ \A x \in Cells : crashes = 0 \/ x < truth.size => blocks[meta.generation][x] = truth.cells[x]
  BY <1>1, Written
<1>3. meta'.generation = meta.generation /\ StoredSize' = truth.size
  BY <1>2 DEF StoredSize
<1> QED
  BY <1>2, <1>3, SeenStep DEF Quiet, Past, Seen

LEMMA SavePutPast ==
    ASSUME Serial, Exact, Past, NEW c \in Clients, SavePut(c) PROVE Past'
<1>1. /\ client[c].pc = "save" /\ client[c].st = registry /\ registry \in States /\ Others(c)
      /\ \E w : Moved(c, w) /\ w.pc \in {"idle", "barrier"}
  BY Saved
<1>2. state[registry] \in StateRec
  BY <1>1, ExactGen DEF GenInv, Types
<1>3. /\ UNCHANGED <<blocks, registry, truth, may, crashes>>
      /\ meta' = [size |-> state[registry].size, generation |-> client[c].generation, deleted |-> FALSE]
      /\ state' = [state EXCEPT ![registry] = Clean(state[registry])]
  BY <1>1 DEF SavePut, At, bounds, ghost
<1>4. Steps(c) /\ client'[c].pc \in {"idle", "barrier"}
  BY <1>1, StepsOf DEF Moved
<1>5. Seen'
  BY <1>1, <1>3, <1>4, SavedSeen DEF Quiet
<1>6. PICK z : z = Clean(state[registry])
  OBVIOUS
<1>7. state'[registry] = z /\ z.dirty = {} /\ z.metaDirty = FALSE
  BY <1>1, <1>2, <1>3, <1>6, CleanIs DEF Exact, SerialInv, GenInv, Types
<1>8. Calm'
  BY <1>3, <1>4, <1>7, CalmStep DEF Past
<1> QED
  BY <1>5, <1>8 DEF Past

LEMMA SaveClosePast ==
    ASSUME Serial, Exact, Past, NEW c \in Clients, SaveClose(c) PROVE Past'
<1>1. client[c].pc = "save" /\ client[c].pc \in Handles
  BY DEF SaveClose, At, Handles
<1>2. client[c].st = registry /\ registry \in States /\ state[registry] \in StateRec /\ Others(c)
  BY <1>1, Handle, OthersBusy, ExactGen DEF Quiet
<1>3. PICK z : z = Clean(state[registry])
  OBVIOUS
<1>4. /\ client' = [client EXCEPT ![c] = Outside] /\ UNCHANGED <<blocks, truth, may, crashes>>
      /\ meta' = [size |-> state[registry].size, generation |-> client[c].generation, deleted |-> FALSE]
      /\ Released(registry, z)
  BY <1>2, <1>3 DEF SaveClose, At, bounds, ghost
<1>5. Steps(c) /\ client'[c].pc = "none"
  BY <1>2, <1>4, StepsOf, Grounds
<1>6. Seen'
  BY <1>1, <1>4, <1>5, SavedSeen DEF Quiet
<1>7. z \in StateRec /\ z.dirty = {} /\ z.metaDirty = FALSE
  BY <1>2, <1>3, CleanIs
<1>8. registry' # None => state'[registry'].dirty = {} /\ ~state'[registry'].metaDirty
  BY <1>2, <1>4, <1>7, ReleasedCalm
<1>9. Calm'
  BY <1>4, <1>5, <1>8, CalmStep DEF Past
<1> QED
  BY <1>6, <1>9 DEF Past

\* The barrier of a Sync: what the file was before no longer counts.
LEMMA BarrierPast ==
    ASSUME Serial, Exact, Past, NEW c \in Clients, Barrier(c) PROVE Past'
<1>1. /\ client[c].pc = "barrier" /\ Back(c, client[c].st) /\ Settled
      /\ UNCHANGED <<meta, blocks, registry, state, truth, crashes>>
  BY DEF Barrier, At, disk, bounds
<1>2. Others(c) /\ Steps(c) /\ client'[c].pc = "idle"
  BY <1>1, OthersBusy, BackSteps, ExactGen DEF Quiet, Handles
<1>3. /\ Known /\ state[registry].size = truth.size
      /\ \A x \in Cells : crashes = 0 \/ x < truth.size => blocks[meta.generation][x] = truth.cells[x]
  BY <1>1, <1>2, Written
<1>4. ~state[registry].metaDirty
  BY <1>1 DEF Exact, FileInv, Flushing
<1>5. StoredSize = truth.size
  BY <1>3, <1>4 DEF Exact, FileInv, Linked
<1>6. StoredSize' = StoredSize
  BY <1>1 DEF StoredSize
<1>7. may'.size = {truth.size} /\ \A x \in Cells : may'.cells[x] = {truth.cells[x]}
  BY <1>1, Settles
<1>8. Seen'
  BY <1>1, <1>2, <1>3, <1>5, <1>6, <1>7, SeenStep
<1>9. Calm'
  BY <1>1, <1>2, CalmNow, CalmStep DEF Past
<1> QED
  BY <1>8, <1>9 DEF Past

LEMMA WritePast ==
    ASSUME Serial, Exact, Past, NEW c \in Clients, NEW a \in Cells, NEW b \in Cells, Write(c, a, b) PROVE Past'
<1>1. PICK y : y = client[c]
  OBVIOUS
<1>2. /\ y.pc = "idle" /\ Free(c) /\ mu[y.st] = None /\ MayWrite
      /\ UNCHANGED <<meta, blocks, crashes>> /\ Saw(truth'.cells, truth'.size)
  BY <1>1 DEF Write, Enter, Valid, disk
<1>3. y \in ClientRec /\ Others(c) /\ crashes = 0
  BY <1>1, <1>2, OthersIdle, ExactGen DEF MayWrite, Serial, GenInv, Types
<1>4. Steps(c) /\ client'[c].pc \in {"idle", "flush"}
  <2>1. StartFlush(c, y.st, "return") \/ UNCHANGED <<mu, client>>
    BY <1>1 DEF Write
  <2>2. CASE UNCHANGED <<mu, client>>
    BY <1>1, <1>2, <1>3, <2>2 DEF Steps
  <2>3. CASE StartFlush(c, y.st, "return")
    <3>1. PICK D : D = state'[y.st].dirty
      OBVIOUS
    <3>2. PICK w : w = [y EXCEPT !.pc = "flush", !.todo = D, !.after = "return"]
      OBVIOUS
    <3>3. client' = [client EXCEPT ![c].pc = "flush", ![c].todo = D, ![c].after = "return"]
      BY <2>3, <3>1 DEF StartFlush
    <3>4. client' = [client EXCEPT ![c] = w]
      BY <1>1, <3>2, <3>3, ExactGen DEF GenInv, Types
    <3>5. w.pc = "flush"
      BY <1>3, <3>2 DEF ClientRec
    <3> QED
      BY <1>3, <3>4, <3>5, StepsOf
  <2> QED
    BY <2>1, <2>2, <2>3
<1> QED
  BY <1>2, <1>3, <1>4, PastGrows

LEMMA TruncatePast ==
    ASSUME Serial, Exact, Past, NEW c \in Clients, NEW size \in Sizes, Truncate(c, size) PROVE Past'
<1>1. PICK y, S, g, D : /\ y = client[c] /\ S = state[registry] /\ g = y.generation
                        /\ D = {b \in Blocks : b >= numBlocks(size) /\ b < numBlocks(S.size)}
  OBVIOUS
<1>2. PICK w, z : /\ w = [y EXCEPT !.pc = "truncate", !.size = size, !.todo = D]
                  /\ z = IF size < S.size THEN Cut(S, g, size) ELSE S
  OBVIOUS
<1>3. /\ y.pc = "idle" /\ Free(c) /\ mu[y.st] = None /\ MayWrite
      /\ UNCHANGED <<meta, blocks, registry, crashes>>
  BY <1>1 DEF Truncate, Enter, Valid, disk
<1>4. /\ y \in ClientRec /\ y.st = registry /\ registry \in States /\ S \in StateRec /\ g \in 1 .. MaxGen /\ Others(c)
  BY <1>1, <1>3, Handle, OthersIdle, ExactGen DEF Handles
<1>5. /\ state' = [state EXCEPT ![registry] = z] /\ client' = [client EXCEPT ![c] = w]
  BY <1>1, <1>2, <1>4 DEF Truncate, Exact, SerialInv, GenInv, Types
<1>6. Steps(c) /\ client'[c].pc = "truncate"
  <2>1. w.pc = "truncate"
    BY <1>2, <1>4 DEF ClientRec
  <2> QED
    BY <1>4, <1>5, <2>1, StepsOf
<1>7. Known /\ crashes = 0 /\ S.size = truth.size
  BY <1>1, <1>3, <1>4, Whole
<1>8. z.size = S.size /\ z.generation = S.generation
  BY <1>2, <1>4, CutRec, CutIs, ExactGen DEF GenInv
<1>9. state'[registry'] = z
  BY <1>3, <1>4, <1>5 DEF Exact, SerialInv, GenInv, Types
<1>10. Size' \in may.size
  BY <1>1, <1>3, <1>7, <1>8, <1>9 DEF Size, Known, Past, Seen
<1>11. Saw(truth'.cells, truth'.size)
  BY DEF Truncate
<1> QED
  BY <1>3, <1>6, <1>7, <1>10, <1>11, PastGrows

\* A block that a call removes leaves zeros, which the file then had.
LEMMA ErasedSeen ==
    ASSUME Exact, Past, NEW c \in Clients, NEW g, NEW b, Erase(g, b), UNCHANGED <<meta, registry, state, truth, may, crashes>>,
           Steps(c), client'[c].pc = client[c].pc, client[c].pc \in {"truncate", "purge", "createPurge"},
           \A x \in Cells : g = meta.generation /\ x \div BlockSize = b => 0 \in may.cells[x]
    PROVE  Past'
<1>1. StoredSize' = StoredSize /\ Size' = Size /\ (Known' <=> Known)
  BY DEF StoredSize, Size, Known
<1>2. ASSUME NEW x \in Cells, meta.generation # 0
      PROVE  blocks'[meta.generation][x] =
                 IF meta.generation = g /\ x \div BlockSize = b THEN 0 ELSE blocks[meta.generation][x]
  <2>1. meta.generation \in 1 .. MaxGen
    BY <1>2, VFSFileAssumption DEF Exact, SerialInv, GenInv, Types, Metas
  <2> QED
    BY <2>1, EraseIs, ExactGen
<1>3. \A x \in Cells : meta.generation # 0 /\ (crashes = 0 \/ x < StoredSize) => blocks'[meta.generation][x] \in may.cells[x]
  BY <1>2 DEF Past, Seen
<1>4. client[c].pc \in {"truncate", "purge"} => Size \in may.size
  BY DEF Past, Seen, Nobody
<1>5. client[c].pc \in {"purge", "createPurge"} => 0 \in may.size /\ \A x \in Cells : 0 \in may.cells[x]
  BY DEF Past, Seen, Nobody
<1>6. ASSUME client[c].pc = "purge", crashes = 0, NEW x \in Cells PROVE Cell(x)' \in may.cells[x]
  <2>1. Cell(x)' = Cell(x) \/ Cell(x)' = 0
    BY <1>1, <1>2 DEF Cell, Known, Page
  <2> QED
    BY <1>5, <1>6, <2>1, CellSeen
<1>7. Seen'
  BY <1>1, <1>3, <1>4, <1>5, <1>6, SeenStep DEF Past, Seen
<1>8. Calm'
  <2>1. client[c].pc = "truncate" => crashes = 0
    BY DEF Past, Calm, Nobody
  <2> QED
    BY <2>1, CalmNow, CalmStep DEF Past
<1> QED
  BY <1>7, <1>8 DEF Past

\* The call goes to its next block.
LEMMA NextSteps ==
    ASSUME Exact, NEW c \in Clients, Others(c), NEW b, NextBlock(c, b)
    PROVE  Steps(c) /\ client'[c].pc = client[c].pc
<1>1. PICK y, D : y = client[c] /\ D = y.todo \ {b}
  OBVIOUS
<1>2. PICK w : w = [y EXCEPT !.todo = D]
  OBVIOUS
<1>3. client' = [client EXCEPT ![c] = w] /\ y \in ClientRec
  BY <1>1, <1>2 DEF NextBlock, Exact, SerialInv, GenInv, Types
<1>4. w.pc = y.pc
  BY <1>2, <1>3 DEF ClientRec
<1> QED
  BY <1>1, <1>3, <1>4, StepsOf

LEMMA TruncateBlockPast ==
    ASSUME Serial, Exact, Past, NEW c \in Clients, TruncateBlock(c) PROVE Past'
<1>1. PICK b \in client[c].todo : NextBlock(c, b) /\ Erase(client[c].generation, b)
  BY DEF TruncateBlock
<1>2. client[c].pc = "truncate" /\ UNCHANGED <<meta, registry, state, truth, may, crashes>>
  BY DEF TruncateBlock, At, memory, ghost, bounds
<1>3. Others(c) /\ Cutting(c) /\ client[c] \in ClientRec
  BY <1>2, OthersBusy, ExactGen, Pcss DEF Quiet, Exact, FileInv
<1>4. Steps(c) /\ client'[c].pc = client[c].pc
  BY <1>1, <1>3, NextSteps
<1>5. ASSUME NEW x \in Cells, x \div BlockSize = b PROVE 0 \in may.cells[x]
  <2>1. b * BlockSize >= client[c].size /\ truth.size = client[c].size
    BY <1>1, <1>2, <1>3 DEF Cutting
  <2>2. x \in Nat /\ b * BlockSize <= x /\ b * BlockSize \in Nat /\ client[c].size \in Nat
    BY <1>3, <1>5, CellsNat, CellBlock, Grounds DEF ClientRec
  <2>3. truth.cells[x] = 0
    BY <2>1, <2>2 DEF Exact, FileInv, Ended
  <2> QED
    BY <2>3 DEF Past, Seen
<1> QED
  BY <1>1, <1>2, <1>4, <1>5, ErasedSeen

LEMMA PurgePast ==
    ASSUME Serial, Exact, Past, NEW c \in Clients, PurgeBlock(c) \/ CreatePurgeBlock(c) PROVE Past'
<1>1. PICK b \in client[c].todo : NextBlock(c, b) /\ \E g : Erase(g, b)
  BY DEF PurgeBlock, CreatePurgeBlock
<1>2. client[c].pc \in {"purge", "createPurge"} /\ UNCHANGED <<meta, registry, state, truth, may, crashes>>
  BY DEF PurgeBlock, CreatePurgeBlock, At, memory, ghost, bounds
<1>3. Others(c)
  BY <1>2, OthersBusy, ExactGen DEF Quiet
<1>4. Steps(c) /\ client'[c].pc = client[c].pc
  BY <1>1, <1>3, NextSteps
<1>5. \A x \in Cells : 0 \in may.cells[x]
  BY <1>2 DEF Past, Seen, Nobody
<1> QED
  BY <1>1, <1>2, <1>4, <1>5, ErasedSeen

\* A truncation has removed its blocks: its size is the file's.
LEMMA TruncateEndsPast ==
    ASSUME Serial, Exact, Past, NEW c \in Clients, TruncateMeta(c) \/ TruncateFails(c) PROVE Past'
<1>1. /\ client[c].pc = "truncate" /\ Back(c, client[c].st) /\ UNCHANGED <<blocks, truth, may, crashes>>
      /\ \/ UNCHANGED meta
         \/ meta' = [size |-> client[c].size, generation |-> client[c].generation, deleted |-> FALSE]
  BY DEF TruncateMeta, TruncateFails, Fail, At, disk, ghost, bounds
<1>2. client[c].pc \in Handles /\ Others(c) /\ crashes = 0
  BY <1>1, OthersBusy, ExactGen DEF Handles, Quiet, Past, Calm, Nobody
<1>3. Steps(c) /\ client'[c].pc = "idle"
  BY <1>1, <1>2, BackSteps
<1>4. truth.size = client[c].size /\ client[c].generation = meta.generation
  <2>1. Cutting(c) /\ Placed(c) /\ Known
    BY <1>2, Pcss, HandleKnown DEF Exact, FileInv
  <2> QED
    BY <1>1, <2>1 DEF Cutting, Placed, Working, Known
<1>5. StoredSize' \in may.size /\ meta'.generation = meta.generation
  <2>1. CASE UNCHANGED meta
    BY <2>1 DEF StoredSize, Past, Seen
  <2>2. CASE meta' = [size |-> client[c].size, generation |-> client[c].generation, deleted |-> FALSE]
    BY <1>4, <2>2 DEF StoredSize, Past, Seen
  <2> QED
    BY <1>1, <2>1, <2>2
<1>6. Seen'
  BY <1>1, <1>2, <1>3, <1>5, SeenStep DEF Past, Seen
<1>7. Calm'
  BY <1>1, <1>2, <1>3, CalmStep DEF Past
<1> QED
  BY <1>6, <1>7 DEF Past

LEMMA TruncateStopsPast ==
    ASSUME Serial, Exact, Past, NEW c \in Clients, TruncateStops(c) PROVE Past'
<1>1. PICK S, g : S = state[registry] /\ g = client[c].generation
  OBVIOUS
<1>2. client[c].pc = "truncate" /\ client[c].pc \in Handles /\ Others(c) /\ crashes = 0
  BY OthersBusy, ExactGen DEF TruncateStops, Handles, Quiet, Past, Calm, Nobody
<1>3. client[c].st = registry /\ Known /\ g = meta.generation /\ S \in StateRec /\ g # 0
  BY <1>1, <1>2, Handle, HandleKnown, Pcss, ExactGen DEF Placed, Working
<1>4. /\ Back(c, client[c].st) /\ ~Ghosts(S, g) /\ truth' = View(S, g)
      /\ UNCHANGED <<meta, blocks, registry, state, may, crashes>>
  BY <1>1, <1>3 DEF TruncateStops, Fail, disk, Serial
<1>5. Steps(c) /\ client'[c].pc = "idle"
  BY <1>2, <1>3, <1>4, BackSteps
<1>6. PICK T : T = [x \in Cells |-> IF x < S.size THEN Page(S, g, x) ELSE 0]
  OBVIOUS
<1>7. truth'.size = S.size /\ truth'.cells = T
  BY <1>4, <1>6 DEF View
<1>8. S.size \in may.size
  BY <1>1, <1>2, <1>3 DEF Past, Seen, Nobody, Size
<1>9. ASSUME NEW x \in Cells PROVE T[x] \in may.cells[x]
  <2>1. CASE x < S.size
    BY <1>1, <1>2, <1>3, <1>6, <2>1, CellSeen DEF Cell
  <2>2. CASE ~(x < S.size)
    <3>1. S.size \in Nat /\ x \in Nat
      BY <1>3, Grounds, CellsNat DEF StateRec
    <3>2. x >= S.size
      BY <2>2, <3>1
    <3>3. blocks[g][x] = 0
      BY <1>4, <3>2 DEF Ghosts
    <3> QED
      BY <1>2, <1>3, <1>6, <2>2, <3>3 DEF Past, Seen
  <2> QED
    BY <2>1, <2>2
<1>10. StoredSize' = StoredSize
  BY <1>4 DEF StoredSize
<1>11. Seen'
  BY <1>2, <1>4, <1>5, <1>7, <1>8, <1>9, <1>10, SeenStep DEF Past, Seen
<1>12. Calm'
  BY <1>2, <1>4, <1>5, CalmStep DEF Past
<1> QED
  BY <1>11, <1>12 DEF Past

LEMMA DeleteStartPast ==
    ASSUME Serial, Exact, Past, NEW c \in Clients, DeleteStart(c) PROVE Past'
<1>1. PICK o, g, r, D : /\ o = Outside /\ g = meta.generation /\ r = registry
                        /\ D = {b \in Blocks : b < numBlocks(meta.size)}
  OBVIOUS
<1>2. PICK w : w = [o EXCEPT !.pc = "purge", !.st = r, !.generation = g, !.todo = D]
  OBVIOUS
<1>3. /\ Alone(c, "delete") /\ client[c].pc = "none" /\ client' = [client EXCEPT ![c] = w] /\ Saw(Zeros, 0)
      /\ UNCHANGED <<meta, blocks, registry, state, truth, crashes>>
  BY <1>1, <1>2 DEF DeleteStart, At, disk, bounds
<1>4. Steps(c) /\ client'[c].pc = "purge"
  <2>1. w.pc = "purge"
    BY <1>1, <1>2, Grounds DEF ClientRec
  <2> QED
    BY <1>3, <2>1, OthersAlone, StepsOf
<1>5. may'.size = may.size \cup {0} /\ \A x \in Cells : may'.cells[x] = may.cells[x] \cup {0}
  BY <1>3, Saws DEF Zeros
<1>6. Nobody({"purge", "createPurge", "truncate"})
  BY <1>3, <1>4, StepsNobody, Removals
<1>7. StoredSize' = StoredSize /\ Size' = Size /\ \A x \in Cells : Cell(x)' = Cell(x)
  BY <1>3 DEF StoredSize, Size, Cell, Known, Page
<1>8. Size = truth.size
  BY <1>6 DEF Exact, FileInv, Same
<1>9. crashes' = 0 => \A x \in Cells : Cell(x)' \in may'.cells[x]
  BY <1>3, <1>5, <1>7, CellSeen
<1>10. Seen'
  BY <1>3, <1>4, <1>5, <1>7, <1>8, <1>9, SeenStep DEF Past, Seen
<1>11. Calm'
  BY <1>3, <1>4, CalmNow, CalmStep DEF Past
<1> QED
  BY <1>10, <1>11 DEF Past

\* The generation and all that it was are gone.
LEMMA ErasedPast ==
    ASSUME Exact, Past, NEW c \in Clients, Steps(c), client[c].pc \in {"purge", "createPurge"},
           client'[c].pc \in Quiet, Erased, UNCHANGED crashes, StoredSize' = 0,
           crashes = 0 => \A x \in Cells : blocks'[meta'.generation][x] = 0,
           registry' # None => state'[registry'].dirty = {} /\ ~state'[registry'].metaDirty
    PROVE  Past'
<1>1. truth'.size = 0 /\ may' = may /\ \A x \in Cells : truth'.cells[x] = 0
  BY MayErased
<1>2. 0 \in may.size /\ \A x \in Cells : 0 \in may.cells[x] /\ ~(x < 0)
  BY CellsNat DEF Past, Seen, Nobody
<1>3. Seen'
  BY <1>1, <1>2, SeenStep DEF Quiet
<1>4. Calm'
  BY CalmStep DEF Past, Quiet
<1> QED
  BY <1>3, <1>4 DEF Past

LEMMA TombstonePast ==
    ASSUME Serial, Exact, Past, NEW c \in Clients, Tombstone(c) PROVE Past'
<1>1. PICK y, S, g : y = client[c] /\ S = state[registry] /\ g = y.generation + 1
  OBVIOUS
<1>2. y.pc = "purge" /\ y.pc \notin Quiet
  BY <1>1 DEF Tombstone, At, Quiet
<1>3. y \in ClientRec /\ Knows(y, meta) /\ Placed(c) /\ Others(c)
  BY <1>1, <1>2, Pcss, OthersBusy, ExactGen
<1>4. y.st = registry /\ y.generation = meta.generation /\ 1 <= y.generation /\ y.generation < MaxGen
  BY <1>1, <1>2, <1>3 DEF Placed, Knows, Replacing
<1>5. g \in 1 .. MaxGen /\ g \in Gens /\ g > meta.generation /\ meta.generation \in Nat
  BY <1>1, <1>3, <1>4, VFSFileAssumption DEF ClientRec, Gens
<1>6. /\ client' = [client EXCEPT ![c] = Outside] /\ UNCHANGED <<blocks, registry, crashes>> /\ Erased
      /\ meta' = [size |-> 0, generation |-> g, deleted |-> TRUE]
      /\ state' = IF registry = None THEN state ELSE [state EXCEPT ![registry] = Reborn(S, g)]
  BY <1>1, <1>4 DEF Tombstone, DeletedGeneration, bounds
<1>7. Steps(c) /\ client'[c].pc = "none"
  BY <1>3, <1>6, StepsOf, Grounds
<1>8. registry # None => state'[registry].dirty = {} /\ ~state'[registry].metaDirty
  <2> SUFFICES ASSUME registry # None PROVE state'[registry].dirty = {} /\ ~state'[registry].metaDirty
    OBVIOUS
  <2>1. registry \in States /\ state \in [States -> StateRec] /\ S \in StateRec
    BY <1>1 DEF Exact, SerialInv, GenInv, Types
  <2>2. PICK z : z = Reborn(S, g)
    OBVIOUS
  <2>3. z.dirty = {} /\ z.metaDirty = FALSE
    BY <1>5, <2>1, <2>2, RebornIs
  <2>4. state'[registry] = z
    BY <1>6, <2>1, <2>2
  <2> QED
    BY <2>3, <2>4
<1>9. meta'.generation = g /\ StoredSize' = 0
  BY <1>6 DEF StoredSize
<1>10. \A x \in Cells : blocks'[meta'.generation][x] = 0
  <2>1. blocks[g] = Zeros
    BY <1>5 DEF Exact, SerialInv, Fresh
  <2> QED
    BY <1>6, <1>9, <2>1 DEF Zeros
<1> QED
  BY <1>1, <1>2, <1>6, <1>7, <1>8, <1>9, <1>10, ErasedPast DEF Quiet

LEMMA CreateDonePast ==
    ASSUME Serial, Exact, Past, NEW c \in Clients, CreateDone(c) PROVE Past'
<1>1. PICK y, o, S, g, r : y = client[c] /\ o = Outside /\ S = state[registry] /\ g = y.generation /\ r = registry
  OBVIOUS
<1>2. PICK w, z : w = [o EXCEPT !.pc = "idle", !.st = r, !.generation = g] /\ z = Reborn(S, g)
  OBVIOUS
<1>3. y.pc = "createPurge" /\ c \in Holders
  BY <1>1 DEF CreateDone, At, Holders
<1>4. y.st = registry /\ registry \in States /\ registry # None /\ S \in StateRec /\ state \in [States -> StateRec]
  BY <1>1, <1>3, HolderAt DEF Exact, SerialInv, GenInv, Types
<1>5. /\ client' = [client EXCEPT ![c] = w] /\ UNCHANGED <<meta, blocks, registry, crashes>> /\ Erased
      /\ state' = [state EXCEPT ![registry] = z]
  BY <1>1, <1>2, <1>4 DEF CreateDone, Back, disk, bounds
<1>6. y \in ClientRec /\ Knows(y, meta) /\ Placed(c) /\ Others(c)
  BY <1>1, <1>3, Pcss, OthersBusy, ExactGen DEF Quiet
<1>7. g \in Gens /\ meta.generation \in Nat /\ meta.generation # 0 /\ meta.size = 0 /\ S.generation < meta.generation
  BY <1>1, <1>3, <1>6 DEF Knows, Placed, ClientRec, Gens
<1>8. Steps(c) /\ client'[c].pc = "idle"
  <2>1. w.pc = "idle"
    BY <1>1, <1>2, Grounds DEF ClientRec
  <2> QED
    BY <1>5, <1>6, <2>1, StepsOf
<1>9. state'[registry].dirty = {} /\ ~state'[registry].metaDirty
  <2>1. z.dirty = {} /\ z.metaDirty = FALSE
    BY <1>2, <1>4, <1>7, RebornIs
  <2> QED
    BY <1>4, <1>5, <2>1
<1>10. ASSUME crashes = 0, NEW x \in Cells PROVE blocks[meta.generation][x] = 0
  <2>1. Nobody({"truncate"})
    BY <1>1, <1>3, <1>6 DEF Nobody, Others, Quiet
  <2>2. ~Known /\ Size = 0 /\ x >= 0
    BY <1>1, <1>4, <1>7, CellsNat DEF Known, Size, StoredSize, StateRec, Gens
  <2>3. Cell(x) = 0
    BY <1>10, <2>1, <2>2 DEF Exact, FileInv, Tail
  <2> QED
    BY <1>7, <2>2, <2>3 DEF Cell
<1>11. StoredSize' = 0
  BY <1>5, <1>7 DEF StoredSize
<1> QED
  BY <1>1, <1>3, <1>5, <1>8, <1>9, <1>10, <1>11, ErasedPast DEF Quiet

LEMMA OpenPutPast ==
    ASSUME Serial, Exact, Past, NEW c \in Clients, OpenPut(c) PROVE Past'
<1>1. PICK y, g : y = client[c] /\ g = y.generation + 1
  OBVIOUS
<1>2. PICK w : w = [y EXCEPT !.pc = "found", !.generation = g, !.size = 0]
  OBVIOUS
<1>3. /\ y.pc \in {"fresh", "revive"} /\ y.generation < MaxGen
      /\ meta' = [size |-> 0, generation |-> g, deleted |-> FALSE]
      /\ client' = [client EXCEPT ![c] = w] /\ UNCHANGED <<blocks, registry, state, truth, may, crashes>>
  BY <1>1, <1>2 DEF OpenPut, At, memory, ghost, bounds, Exact, SerialInv, GenInv, Types
<1>4. y \in ClientRec /\ truth.size = 0 /\ y.generation = meta.generation /\ Others(c)
  BY <1>1, <1>3, Pcss, NothingThere, OthersBusy, ExactGen DEF Quiet
<1>5. g \in 1 .. MaxGen /\ g > meta.generation
  BY <1>1, <1>3, <1>4, VFSFileAssumption DEF ClientRec, Gens
<1>6. Steps(c) /\ client'[c].pc = "found"
  <2>1. w.pc = "found"
    BY <1>2, <1>4 DEF ClientRec
  <2> QED
    BY <1>3, <1>4, <2>1, StepsOf
<1>7. StoredSize' = truth.size /\ meta'.generation = g
  BY <1>3, <1>4 DEF StoredSize
<1>8. \A x \in Cells : blocks[g][x] = 0 /\ truth.cells[x] = 0
  <2>1. blocks[g] = Zeros
    BY <1>5 DEF Exact, SerialInv, Fresh
  <2>2. \A x \in Cells : x >= truth.size
    BY <1>4, CellsNat
  <2> QED
    BY <2>1, <2>2 DEF Zeros, Exact, FileInv, Ended
<1>9. Seen'
  BY <1>3, <1>6, <1>7, <1>8, SeenStep DEF Past, Seen
<1>10. Calm'
  BY <1>3, <1>6, CalmNow, CalmStep DEF Past
<1> QED
  BY <1>9, <1>10 DEF Past

LEMMA CreatePutPast ==
    ASSUME Serial, Exact, Past, NEW c \in Clients, CreatePut(c) PROVE Past'
<1>1. PICK y, g : y = client[c] /\ g = y.generation
  OBVIOUS
<1>2. PICK w : w = [y EXCEPT !.pc = "createPurge"]
  OBVIOUS
<1>3. /\ y.pc = "creating" /\ meta' = [size |-> 0, generation |-> g, deleted |-> FALSE] /\ Saw(Zeros, 0)
      /\ client' = [client EXCEPT ![c] = w] /\ UNCHANGED <<blocks, registry, state, truth, crashes>>
  BY <1>1, <1>2 DEF CreatePut, Move, At, memory, bounds, Exact, SerialInv, GenInv, Types
<1>4. y \in ClientRec /\ Knows(y, meta) /\ Others(c) /\ meta.generation \in Nat
  <2>1. meta.generation \in Nat
    BY DEF Exact, SerialInv, GenInv, Types, Metas
  <2> QED
    BY <1>1, <1>3, <2>1, Pcss, OthersBusy, ExactGen DEF Quiet
<1>5. g \in 1 .. MaxGen /\ g > meta.generation
  BY <1>1, <1>3, <1>4, VFSFileAssumption DEF Knows, ClientRec, Gens
<1>6. Steps(c) /\ client'[c].pc = "createPurge"
  <2>1. w.pc = "createPurge"
    BY <1>2, <1>4 DEF ClientRec
  <2> QED
    BY <1>3, <1>4, <2>1, StepsOf
<1>7. StoredSize' = 0 /\ meta'.generation = g
  BY <1>3 DEF StoredSize
<1>8. may'.size = may.size \cup {0} /\ \A x \in Cells : may'.cells[x] = may.cells[x] \cup {0}
  BY <1>3, Saws DEF Zeros
<1>9. \A x \in Cells : blocks[g][x] = 0
  <2>1. blocks[g] = Zeros
    BY <1>5 DEF Exact, SerialInv, Fresh
  <2> QED
    BY <2>1 DEF Zeros
<1>10. Seen'
  BY <1>3, <1>6, <1>7, <1>8, <1>9, SeenStep DEF Past, Seen
<1>11. Calm'
  BY <1>3, <1>6, CalmNow, CalmStep DEF Past
<1> QED
  BY <1>10, <1>11 DEF Past

LEMMA DeleteFailsPast ==
    ASSUME Serial, Exact, Past, NEW c \in Clients, DeleteFails(c) PROVE Past'
<1>1. PICK y, S, g : y = client[c] /\ S = state[registry] /\ g = y.generation
  OBVIOUS
<1>2. y.pc = "purge" /\ y.pc \notin Quiet
  BY <1>1 DEF DeleteFails, Quiet
<1>3. y \in ClientRec /\ Knows(y, meta) /\ Placed(c) /\ Others(c)
  BY <1>1, <1>2, Pcss, OthersBusy, ExactGen
<1>4. y.st = registry /\ g = meta.generation /\ g \in 1 .. MaxGen /\ g # 0
  BY <1>1, <1>2, <1>3, VFSFileAssumption DEF Placed, Knows, Replacing, ClientRec, Gens
<1>5. /\ client' = [client EXCEPT ![c] = Outside] /\ UNCHANGED <<meta, blocks, registry, state, may, crashes>>
      /\ truth' = IF registry = None THEN [size |-> StoredSize, cells |-> Stored] ELSE View(S, g)
  BY <1>1, <1>4 DEF DeleteFails, Fail, disk
<1>6. Steps(c) /\ client'[c].pc = "none"
  BY <1>3, <1>5, StepsOf, Grounds
<1>7. StoredSize' = StoredSize
  BY <1>5 DEF StoredSize
<1>8. \A x \in Cells : 0 \in may.cells[x]
  BY <1>1, <1>2 DEF Past, Seen, Nobody
<1>9. truth'.size \in may.size /\ \A x \in Cells : truth'.cells[x] \in may.cells[x]
  <2>1. CASE registry = None
    <3>1. truth' = [size |-> StoredSize, cells |-> Stored] /\ truth'.size = StoredSize /\ truth'.cells = Stored
      BY <1>5, <2>1
    <3>2. ASSUME NEW x \in Cells PROVE Stored[x] \in may.cells[x]
      <4>1. StoredSize \in Nat /\ x \in Nat
        BY StoredIs, ExactGen, Grounds, CellsNat
      <4>2. CASE x < StoredSize
        BY <1>4, <4>2, StoredIs, ExactGen DEF Past, Seen
      <4>3. CASE x >= StoredSize
        BY <1>8, <4>3, StoredIs, ExactGen
      <4> QED
        BY <4>1, <4>2, <4>3
    <3> QED
      BY <3>1, <3>2 DEF Past, Seen
  <2>2. CASE registry # None
    <3>1. PICK T : T = [x \in Cells |-> IF x < S.size THEN Page(S, g, x) ELSE 0]
      OBVIOUS
    <3>2. truth'.size = S.size /\ truth'.cells = T
      BY <1>5, <2>2, <3>1 DEF View
    <3>3. Nobody({"found", "creating", "createPurge"})
      BY <1>1, <1>2, <1>3 DEF Nobody, Others, Quiet
    <3>4. Known
      BY <1>4, <2>2, <3>3 DEF Known, Exact, SerialInv, Agreed
    <3>5. Size = S.size /\ \A x \in Cells : Cell(x) = Page(S, g, x)
      BY <1>1, <1>4, <3>4 DEF Size, Cell
    <3>6. S.size \in may.size
      BY <1>1, <1>2, <3>5 DEF Past, Seen, Nobody
    <3>7. ASSUME NEW x \in Cells PROVE T[x] \in may.cells[x]
      <4>1. CASE ~(x < S.size)
        BY <1>8, <3>1, <4>1
      <4>2. CASE x < S.size /\ crashes = 0
        BY <3>1, <3>5, <4>2, CellSeen
      <4>3. CASE x < S.size /\ crashes # 0
        <5>1. S.dirty = {} /\ ~S.metaDirty
          BY <1>1, <2>2, <4>3, CalmNow
        <5>2. S.size = StoredSize
          BY <1>1, <3>4, <5>1 DEF Exact, FileInv, Linked
        <5>3. Page(S, g, x) = blocks[g][x]
          BY <5>1 DEF Page
        <5> QED
          BY <1>4, <3>1, <4>3, <5>2, <5>3 DEF Past, Seen
      <4> QED
        BY <4>1, <4>2, <4>3
    <3> QED
      BY <3>2, <3>6, <3>7
  <2> QED
    BY <2>1, <2>2
<1>10. Seen'
  BY <1>5, <1>6, <1>7, <1>9, SeenStep DEF Past, Seen
<1>11. Calm'
  BY <1>5, <1>6, CalmNow, CalmStep DEF Past
<1> QED
  BY <1>10, <1>11 DEF Past

LEMMA CrashPast ==
    ASSUME Exact, KeptInv, Past, Crash PROVE Past'
<1>1. /\ crashes' = crashes + 1 /\ registry' = None /\ client' = [c \in Clients |-> Outside]
      /\ truth' = [size |-> StoredSize', cells |-> Stored']
      /\ may' = [size |-> {StoredSize'}, cells |-> [x \in Cells |-> {Stored'[x]}]]
  BY DEF Crash
<1>2. /\ truth'.size = StoredSize' /\ truth'.cells = Stored' /\ crashes' # 0
      /\ may'.size = {StoredSize'} /\ \A x \in Cells : may'.cells[x] = {Stored'[x]}
  BY <1>1 DEF Exact, FileInv, Tail
<1>3. /\ Nobody({"truncate", "purge"})' /\ Nobody({"purge"})' /\ Nobody({"purge", "createPurge"})'
      /\ Nobody({"truncate"})'
  BY <1>1, Grounds DEF Nobody
<1>4. Readable'
  BY CrashSteps, StoreReadable, ExactGen, PTL DEF KeptInv
<1>5. Seen'
  BY <1>2, <1>3, <1>4 DEF Seen, Readable
<1>6. Calm'
  BY <1>1, <1>3 DEF Calm
<1> QED
  BY <1>5, <1>6 DEF Past

LEMMA PastInit ==
    Init => Past
<1> SUFFICES ASSUME Init PROVE Past
  OBVIOUS
<1>1. /\ meta.generation = 0 /\ StoredSize = 0 /\ truth.size = 0 /\ truth.cells = Zeros /\ crashes = 0
      /\ may.size = {0} /\ \A x \in Cells : may.cells[x] = {0}
  BY DEF Init, NoFile, StoredSize
<1>2. Nobody({"truncate", "purge"}) /\ Nobody({"purge"}) /\ Nobody({"purge", "createPurge"})
  BY Grounds DEF Init, Nobody
<1>3. Seen
  BY <1>1, <1>2 DEF Seen, Zeros
<1> QED
  BY <1>1, <1>3 DEF Past, Calm

LEMMA ClientPast ==
    ASSUME Serial, Exact, Past, NEW c \in Clients, ClientNext(c) PROVE Past'
<1>1. CASE OpenRead(c) \/ OpenPut(c) \/ OpenRegister(c) \/ OpenFails(c)
  BY <1>1, OpenReadPast, OpenPutPast, OpenRegisterPast, OpenFailsPast
<1>2. CASE \/ \E a, b \in Cells : a <= b /\ << a, b >> \in Spans /\ Write(c, a, b)
           \/ \E size \in Sizes : Truncate(c, size)
           \/ \E b \in Blocks : FlushBlock(c, b)
  BY <1>2, WritePast, TruncatePast, FlushBlockPast
<1>3. CASE Sync(c) \/ CloseDirty(c) \/ SaveCheck(c) \/ SavePut(c) \/ SaveClose(c) \/ CloseClean(c)
  BY <1>3, FlushBeginsPast, SaveCheckPast, SavePutPast, SaveClosePast, CloseCleanPast
<1>4. CASE TruncateBlock(c) \/ TruncateMeta(c) \/ TruncateFails(c) \/ TruncateStops(c)
  BY <1>4, TruncateBlockPast, TruncateEndsPast, TruncateStopsPast
<1>5. CASE DeleteStart(c) \/ PurgeBlock(c) \/ Tombstone(c) \/ DeleteFails(c)
  BY <1>5, DeleteStartPast, PurgePast, TombstonePast, DeleteFailsPast
<1>6. CASE CreateStart(c) \/ CreatePut(c) \/ CreatePurgeBlock(c) \/ CreateDone(c) \/ CreateFails(c)
  BY <1>6, CreateStartPast, CreatePutPast, PurgePast, CreateDonePast, CloseCleanPast
<1>7. CASE FlushFails(c)
  BY <1>7, FlushFailsPast
<1> QED
  BY <1>1, <1>2, <1>3, <1>4, <1>5, <1>6, <1>7, Zenon DEF ClientNext

LEMMA PastStep ==
    ASSUME Serial PROVE Exact /\ KeptInv /\ Past /\ [Next]_vars => Past'
<1> SUFFICES ASSUME Exact, KeptInv, Past, [Next]_vars PROVE Past'
  OBVIOUS
<1>1. CASE Crash
  BY <1>1, CrashPast
<1>2. CASE \E c \in Clients : Barrier(c) \/ ClientNext(c)
  BY <1>2, BarrierPast, ClientPast
<1>3. CASE UNCHANGED vars \/ Persist
  <2>1. UNCHANGED <<meta, blocks, registry, state, client, truth, may, crashes>>
    BY <1>3 DEF vars, Persist, disk, memory, ghost, bounds
  <2>2. (Known <=> Known') /\ StoredSize' = StoredSize /\ Size' = Size /\ \A x \in Cells : Cell(x)' = Cell(x)
    BY <2>1 DEF Known, StoredSize, Size, Cell, Page
  <2>3. Seen'
    BY <2>1, <2>2 DEF Past, Seen, Nobody
  <2> QED
    BY <2>1, <2>3 DEF Past, Calm, Nobody
<1> QED
  BY <1>1, <1>2, <1>3 DEF Next

-----------------------------------------------------------------------------
(* What a stop brings back.                                                *)

\* What is durable is among what the file was since the last Sync that returned.
KeptSize == IF kept.meta.deleted THEN 0 ELSE kept.meta.size
KeptSeen ==
    kept.meta.generation # 0 =>
        /\ KeptSize \in may.size
        /\ \A x \in Cells : x < KeptSize => kept.blocks[kept.meta.generation][x] \in may.cells[x]

\* Only a barrier and a stop forget what the file was.
LEMMA MayGrows ==
    ASSUME NEW c \in Clients, ClientNext(c)
    PROVE  may.size \subseteq may'.size /\ \A x \in Cells : may.cells[x] \subseteq may'.cells[x]
<1>1. CASE UNCHANGED may
  BY <1>1
<1>2. CASE \E row, size : Saw(row, size)
  BY <1>2, Saws
<1>3. CASE OpenRead(c) \/ OpenPut(c) \/ OpenRegister(c) \/ OpenFails(c)
  BY <1>1, <1>3 DEF OpenRead, OpenPut, OpenRegister, OpenFails, ghost
<1>4. CASE \/ \E a, b \in Cells : a <= b /\ << a, b >> \in Spans /\ Write(c, a, b)
           \/ \E size \in Sizes : Truncate(c, size)
  BY <1>2, <1>4 DEF Write, Truncate
<1>5. CASE Sync(c) \/ (\E b \in Blocks : FlushBlock(c, b)) \/ SaveCheck(c) \/ SavePut(c) \/ FlushFails(c)
  BY <1>1, <1>5 DEF Sync, FlushBlock, SaveCheck, SavePut, FlushFails, ghost
<1>6. CASE CloseDirty(c) \/ SaveClose(c) \/ CloseClean(c)
  BY <1>1, <1>6 DEF CloseDirty, SaveClose, CloseClean, ghost
<1>7. CASE TruncateBlock(c) \/ TruncateMeta(c) \/ TruncateFails(c) \/ TruncateStops(c)
  BY <1>1, <1>7 DEF TruncateBlock, TruncateMeta, TruncateFails, TruncateStops, ghost
<1>8. CASE DeleteStart(c) \/ PurgeBlock(c) \/ Tombstone(c) \/ DeleteFails(c)
  BY <1>1, <1>2, <1>8 DEF DeleteStart, PurgeBlock, Tombstone, Erased, DeleteFails, ghost
<1>9. CASE CreateStart(c) \/ CreatePut(c) \/ CreatePurgeBlock(c) \/ CreateDone(c) \/ CreateFails(c)
  BY <1>1, <1>2, <1>9 DEF CreateStart, CreatePut, CreatePurgeBlock, CreateDone, CreateFails, Erased, ghost
<1> QED
  BY <1>3, <1>4, <1>5, <1>6, <1>7, <1>8, <1>9, Zenon DEF ClientNext

\* The store becomes durable.
LEMMA KeptSeenNow ==
    ASSUME Past', kept' = Store, UNCHANGED <<meta, blocks>> PROVE KeptSeen'
<1>1. PICK k : k = [meta |-> meta, blocks |-> blocks]
  OBVIOUS
<1>2. kept' = k /\ k.meta = meta /\ k.blocks = blocks
  BY <1>1 DEF Store
<1>3. KeptSize' = StoredSize'
  BY <1>2 DEF KeptSize, StoredSize
<1> QED
  BY <1>2, <1>3 DEF Past, Seen, KeptSeen

LEMMA KeptSeenStep ==
    ASSUME Serial PROVE Exact /\ KeptInv /\ Past /\ KeptSeen /\ [Next]_vars => KeptSeen'
<1> SUFFICES ASSUME Exact, KeptInv, Past, KeptSeen, [Next]_vars PROVE KeptSeen'
  OBVIOUS
<1>1. CASE Crash
  <2>1. /\ meta' = kept.meta /\ blocks' = kept.blocks /\ kept' = kept
        /\ may' = [size |-> {StoredSize'}, cells |-> [x \in Cells |-> {Stored'[x]}]]
    BY <1>1 DEF Crash, durable
  <2>2. may'.size = {StoredSize'} /\ \A x \in Cells : may'.cells[x] = {Stored'[x]}
    BY <2>1
  <2>3. KeptSize' = StoredSize'
    BY <2>1 DEF KeptSize, StoredSize
  <2>4. Readable'
    BY <1>1, CrashSteps, StoreReadable, ExactGen, PTL DEF KeptInv
  <2> QED
    BY <2>1, <2>2, <2>3, <2>4 DEF KeptSeen, Readable
<1>2. CASE Persist \/ \E c \in Clients : Barrier(c)
  <2>1. Past' /\ kept' = Store /\ UNCHANGED <<meta, blocks>>
    BY <1>2, PastStep DEF Persist, Barrier, disk
  <2> QED
    BY <2>1, KeptSeenNow
<1>3. ASSUME NEW c \in Clients, ClientNext(c), UNCHANGED durable PROVE KeptSeen'
  <2>1. kept' = kept /\ KeptSize' = KeptSize
    BY <1>3 DEF durable, KeptSize
  <2>2. may.size \subseteq may'.size /\ \A x \in Cells : may.cells[x] \subseteq may'.cells[x]
    BY <1>3, MayGrows
  <2> QED
    BY <2>1, <2>2 DEF KeptSeen
<1>4. CASE UNCHANGED vars
  BY <1>4 DEF vars, durable, ghost, KeptSeen, KeptSize
<1> QED
  BY <1>1, <1>2, <1>3, <1>4 DEF Next

LEMMA KeptSeenInit ==
    Init => KeptSeen
<1> SUFFICES ASSUME Init PROVE kept.meta.generation = 0
  BY DEF KeptSeen
<1>1. PICK k : k = [meta |-> meta, blocks |-> blocks]
  OBVIOUS
<1> QED
  BY <1>1 DEF Init, Store, NoFile

\* The stop that StopPlausible allows.
Plausible ==
    crashes' # crashes /\ meta'.generation # 0 =>
        /\ StoredSize' \in may.size
        /\ \A x \in Cells : x < StoredSize' => Stored'[x] \in may.cells[x]

LEMMA Stops ==
    ASSUME Exact, KeptInv, KeptSeen, [Next]_vars PROVE [Plausible]_vars
<1>1. CASE Crash
  <2>1. meta' = kept.meta /\ blocks' = kept.blocks
    BY <1>1 DEF Crash
  <2>2. KeptSize = StoredSize'
    BY <2>1 DEF KeptSize, StoredSize
  <2>3. Readable'
    BY <1>1, CrashSteps, StoreReadable, ExactGen, PTL DEF KeptInv
  <2> QED
    BY <2>1, <2>2, <2>3 DEF KeptSeen, Readable, Plausible
<1>2. CASE Persist \/ \E c \in Clients : Barrier(c)
  BY <1>2 DEF Persist, Barrier, bounds, Plausible
<1>3. ASSUME NEW c \in Clients, ClientNext(c) PROVE Plausible
  BY <1>3, ClientCrashes DEF Plausible
<1> QED
  BY <1>1, <1>2, <1>3 DEF Next

\* Whenever the process stops, in the middle of a flush, a truncation, a deletion or a
\* creation, and whatever the store loses of what it has acknowledged since, the size in
\* the metadata and each cell of the blocks below it are among those the file had since
\* the last Sync that returned (vfs_file.go: blocks before metadata in flushDirtyLocked
\* and in DeleteVFSFile, metadata last in Truncate, SyncKey at the end of Sync), under
\* the same conditions.
THEOREM StopsPlausible ==
    ASSUME Serial PROVE Spec => StopPlausible
<1>1. Exact /\ KeptInv /\ [Next]_vars => Exact' /\ KeptInv'
  BY ExactStep
<1>2. Exact /\ KeptInv /\ Past /\ [Next]_vars => Past'
  BY PastStep
<1>3. Exact /\ KeptInv /\ Past /\ KeptSeen /\ [Next]_vars => KeptSeen'
  BY KeptSeenStep
<1>4. Exact /\ KeptInv /\ KeptSeen /\ [Next]_vars => [Plausible]_vars
  BY Stops
<1>5. Spec => [][Plausible]_vars
  BY <1>1, <1>2, <1>3, <1>4, ExactInit, KeptInit, PastInit, KeptSeenInit, PTL DEF Spec
<1> QED
  BY <1>5 DEF StopPlausible, Plausible

=============================================================================
