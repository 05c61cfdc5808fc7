----------------------------- MODULE Snapshots -----------------------------
(***************************************************************************)
(* What a shard promises its readers: one current image, replaced in one   *)
(* step, and views that keep the image that was current when they were     *)
(* opened, or that of the view they were opened on.                        *)
(***************************************************************************)
CONSTANT Readers
VARIABLES
    current,      \* the published image
    view          \* of each reader, the set that holds its image, or {}

vars == <<current, view>>

Init == view = [r \in Readers |-> {}]

Publish == current' # current /\ UNCHANGED view

Open(r) ==
    /\ view[r] = {}
    /\ view' = [view EXCEPT ![r] = {current}]
    /\ UNCHANGED current

OpenOn(v, r) ==
    /\ view[v] # {} /\ view[r] = {}
    /\ view' = [view EXCEPT ![r] = view[v]]
    /\ UNCHANGED current

Close(r) ==
    /\ view[r] # {}
    /\ view' = [view EXCEPT ![r] = {}]
    /\ UNCHANGED current

Next ==
    \/ Publish
    \/ \E r \in Readers : Open(r) \/ Close(r) \/ \E v \in Readers : OpenOn(v, r)

Spec == Init /\ [][Next]_vars
=============================================================================
