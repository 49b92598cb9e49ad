--------------------------- MODULE MCDracSession ---------------------------
EXTENDS DracSession, TLC
Symm == Permutations(Sessions) \cup Permutations(Viewers) \cup Permutations(Requests)
=============================================================================
