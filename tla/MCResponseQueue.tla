--------------------------- MODULE MCResponseQueue ---------------------------
EXTENDS ResponseQueue, TLC

Symmetry == Permutations(Tasks)
=============================================================================
