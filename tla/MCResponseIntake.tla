-------------------------- MODULE MCResponseIntake --------------------------
EXTENDS ResponseIntake, TLC

CONSTANTS r1, r2, r3, w1, w2, yes, no

\* A quota that ends the survey and counts partial responses, older than one
\* that counts only finished ones.
MCQuota == << [accepts |-> {yes}, limit |-> 2, ends |-> FALSE, partial |-> FALSE],
              [accepts |-> {yes}, limit |-> 1, ends |-> TRUE, partial |-> TRUE] >>

Symmetry == Permutations(Responses) \union Permutations(Workers)
=============================================================================
