------------------------------- MODULE MCFiles -------------------------------
(***************************************************************************)
(* The files of a shard and what stops them: data.img and tags.img behind  *)
(* the page cache (Pager, for transactions with the process killed, and    *)
(* for puts with the power lost), the archived versions and the            *)
(* transaction events (Segments), the content store (CAS).  They share no  *)
(* state: a behaviour is that of one of them, the variables of the others  *)
(* stay as they are.                                                       *)
(***************************************************************************)
EXTENDS Pager, CAS, Segments

CONSTANTS Stores,      \* the stores to explore
          PutSlots     \* PagerSlots of the second setting
VARIABLE store

MCBlockOf == [p \in Pages |-> p % 2]
MCLength == [o \in Objects |-> IF o = "long" THEN 2 ELSE 1]
MCStops == [l \in {"history", "txlog"} |->
                IF l = "history" THEN {"whole", "torn", "empty", "gone"} ELSE {"whole"}]
MCStopsTorn == [l \in {"history", "txlog"} |-> {"whole", "torn", "empty", "gone"}]
MCLeftovers == [l \in {"history", "txlog"} |-> IF l = "history" THEN {0} ELSE {}]
MCLeftoversSome == [l \in {"history", "txlog"} |-> {0, 1}]

Puts == INSTANCE Pager WITH NSlots <- PutSlots, Kinds <- {"put"}, PowerLoss <- TRUE

ASSUME SegmentsAssumption
ASSUME CASAssumption

MCInit ==
    /\ store \in Stores /\ LogInit /\ CASInit
    /\ store # "segments" => log = "history"
    /\ IF store = "puts" THEN Puts!Init ELSE Init
TxNext == store = "transactions" /\ Next /\ UNCHANGED <<LogVars, CASVars, store>>
PutsNext == store = "puts" /\ Puts!Next /\ UNCHANGED <<LogVars, CASVars, store>>
SegmentsNext == store = "segments" /\ LogNext /\ UNCHANGED <<vars, CASVars, store>>
StoreNext == store = "cas" /\ CASNext /\ UNCHANGED <<vars, LogVars, store>>

\* a log, or a content store, that is full
Rest == store \in {"segments", "cas"} /\ UNCHANGED <<vars, LogVars, CASVars, store>>
MCNext == TxNext \/ PutsNext \/ SegmentsNext \/ StoreNext \/ Rest
MCSpec == MCInit /\ [][MCNext]_<<vars, LogVars, CASVars, store>>
=============================================================================
