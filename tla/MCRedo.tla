------------------------------- MODULE MCRedo -------------------------------
EXTENDS Redo, TLC
CONSTANTS k1, k2
TwoKeys == {k1, k2}
AnyKey == Permutations(TwoKeys)
\* Mut is left out where the image may be ahead of the journal
SafeMixes == {[muts |-> m, ahead |-> ~m, rewrites |-> FALSE, splits |-> TRUE] : m \in BOOLEAN}
MutAhead == {[muts |-> TRUE, ahead |-> TRUE, rewrites |-> FALSE, splits |-> FALSE]}
TxRewrites == {[muts |-> FALSE, ahead |-> FALSE, rewrites |-> TRUE, splits |-> FALSE]}
LogAhead == {[muts |-> FALSE, ahead |-> TRUE, rewrites |-> FALSE, splits |-> FALSE]}
=============================================================================
