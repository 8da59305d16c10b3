------------------------------ MODULE MCBilling ------------------------------
EXTENDS Billing, TLC

CONSTANTS w1, w2
Symmetry == Permutations(Workers)
=============================================================================
