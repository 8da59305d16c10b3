---------------------------- MODULE MCImportCommit ----------------------------
EXTENDS ImportCommit, TLC

\* Sources, users and contents are only ever compared for equality.
Symmetry ==
  Permutations(Sources) \cup Permutations(Clients) \cup Permutations(Contents)
=============================================================================
