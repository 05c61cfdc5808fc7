--------------------------------- MODULE CAS ---------------------------------
(***************************************************************************)
(* The content store: objects under the hash of their content, one after   *)
(* the other in the blocks of a device (pkg/c2db/cas.go).                  *)
(*                                                                         *)
(* An object is its hash.  A block is vacant or part i of an object; part  *)
(* 1 starts with the header, the hash and the length.  A Put writes its    *)
(* blocks, then makes them durable: a stop in between leaves any of them   *)
(* on the device.                                                          *)
(***************************************************************************)
EXTENDS Naturals, FiniteSets

CONSTANTS
    Objects,
    Length,        \* of each object, its length in blocks (packedLBAs)
    NBlocks,       \* maxLBA
    TornWrites,    \* whether a stop may keep only some blocks of a write
    MaxCrashes     \* bound on the stops

\* what the runs and the proofs assume of the constants
CASAssumption ==
    /\ Length \in [Objects -> Nat \ {0}] /\ "none" \notin Objects
    /\ NBlocks \in Nat /\ MaxCrashes \in Nat /\ TornWrites \in BOOLEAN

VARIABLES
    block,     \* the device
    index,     \* of each indexed object, its first block
    next,      \* c.next
    putting,   \* the Put in progress: the object, or a set of none
    stored,    \* history: the objects whose Put returned
    open,      \* "open", "down" after a stop, "refused" by an opening that failed
    crashes

CASVars == <<block, index, next, putting, stored, open, crashes>>

LBAs == 0 .. NBlocks - 1
Vacant == [obj |-> "none", part |-> 0]
Parts(o) == 1 .. Length[o]

CASInit ==
    /\ block = [b \in LBAs |-> Vacant] /\ index = <<>> /\ next = 0
    /\ putting = {} /\ stored = {} /\ open = "open" /\ crashes = 0

\* Put of an object that is indexed
PutKnown(o) ==
    /\ open = "open" /\ putting = {} /\ o \in DOMAIN index /\ o \notin stored
    /\ stored' = stored \cup {o}
    /\ UNCHANGED <<block, index, next, putting, open, crashes>>

\* dev.Write
PutWrite(o) ==
    /\ open = "open" /\ putting = {} /\ o \notin DOMAIN index
    /\ next + Length[o] <= NBlocks
    /\ block' = [b \in LBAs |-> IF b - next + 1 \in Parts(o) THEN [obj |-> o, part |-> b - next + 1]
                                ELSE block[b]]
    /\ putting' = {o}
    /\ UNCHANGED <<index, next, stored, open, crashes>>

\* dev.Flush, then the index
PutFlush ==
    /\ open = "open" /\ putting # {}
    /\ \E o \in putting :
          /\ index' = [x \in DOMAIN index \cup {o} |-> IF x = o THEN next ELSE index[x]]
          /\ next' = next + Length[o]
          /\ stored' = stored \cup {o}
    /\ putting' = {}
    /\ UNCHANGED <<block, open, crashes>>

\* What the blocks of a write in progress may be when it is interrupted:
\* those that did not reach the device are vacant, as they were.
Left(lost) ==
    /\ \A b \in lost : block[b].obj \in putting
    /\ TornWrites \/ lost = {b \in LBAs : block[b].obj \in putting}
    /\ block' = [b \in LBAs |-> IF b \in lost THEN Vacant ELSE block[b]]

\* dev.Write or dev.Flush fails: the next object goes to the same place
PutFails(lost) ==
    /\ open = "open" /\ putting # {} /\ Left(lost)
    /\ putting' = {}
    /\ UNCHANGED <<index, next, stored, open, crashes>>

CASCrash(lost) ==
    /\ open = "open" /\ crashes < MaxCrashes
    /\ Left(lost) \/ (lost = {} /\ UNCHANGED block)
    /\ index' = <<>> /\ next' = 0 /\ putting' = {}
    /\ open' = "down" /\ crashes' = crashes + 1
    /\ UNCHANGED stored

\* Mutant of ReplayEnd: the walk goes on one block at a time.
ReplayEndByOne(b) == b + 1
\* the block after the object whose header is at b
ReplayEnd(b) == b + Length[block[b].obj]

\* replay: from header to header, up to a vacant one
Replayed[b \in 0 .. NBlocks] ==
    IF b = NBlocks THEN [ok |-> TRUE, at |-> <<>>, next |-> b]
    ELSE IF block[b] = Vacant THEN [ok |-> TRUE, at |-> <<>>, next |-> b]
    ELSE IF block[b].part # 1 \/ ReplayEnd(b) > NBlocks THEN [ok |-> FALSE, at |-> <<>>, next |-> b]
    ELSE LET rest == Replayed[ReplayEnd(b)]
         IN  [rest EXCEPT !.at = [x \in DOMAIN @ \cup {block[b].obj} |->
                                      IF x \in DOMAIN @ THEN @[x] ELSE b]]

\* OpenCAS.  What a walk makes of the middle of an object depends on its
\* content; here the length it reads is out of range.
Reopen ==
    /\ open = "down"
    /\ open' = IF Replayed[0].ok THEN "open" ELSE "refused"
    /\ index' = Replayed[0].at /\ next' = Replayed[0].next
    /\ UNCHANGED <<block, putting, stored, crashes>>

CASNext ==
    \/ \E o \in Objects : PutKnown(o) \/ PutWrite(o)
    \/ PutFlush \/ Reopen
    \/ \E lost \in SUBSET LBAs : PutFails(lost) \/ CASCrash(lost)

CASSpec == CASInit /\ [][CASNext]_CASVars

-----------------------------------------------------------------------------

\* Get returns the content of an object: its blocks are at its place.
Gets(o) ==
    /\ o \in DOMAIN index
    /\ \A i \in Parts(o) : block[index[o] + i - 1] = [obj |-> o, part |-> i]

\* The types; no object lies beyond next.
CASTypeOK ==
    /\ next \in 0 .. NBlocks /\ putting \subseteq Objects /\ stored \subseteq Objects
    /\ \A o \in DOMAIN index : index[o] + Length[o] <= next

\* Every object whose Put returned is found, with its content, by every later
\* process; no opening is refused.
ContentKept ==
    /\ open # "refused"
    /\ open = "open" => \A o \in stored : Gets(o)
=============================================================================
