--------------------------- MODULE MCNameVersions ---------------------------
EXTENDS NameVersions, TLC
Symmetry == Permutations(Calls) \cup Permutations(Contents) \cup Permutations(Accounts)
=============================================================================
