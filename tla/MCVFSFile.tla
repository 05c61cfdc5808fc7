----------------------------- MODULE MCVFSFile -----------------------------
(* VFSFile with interchangeable clients and states. *)
EXTENDS VFSFile, TLC
MCSpans == {<<0, 0>>, <<1, 2>>}
Symmetry == Permutations(Clients) \cup Permutations(States)
=============================================================================
