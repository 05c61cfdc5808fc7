---------------------------- MODULE MCLiveHeap ----------------------------
(* LiveHeap with readers and buffers as interchangeable model values.      *)
EXTENDS LiveHeap, TLC

Symmetry == Permutations(Readers) \cup Permutations(Bufs)
===========================================================================
