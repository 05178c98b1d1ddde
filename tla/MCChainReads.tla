---------------------------- MODULE MCChainReads ----------------------------
EXTENDS ChainReads, TLC

Symmetry == Permutations(Accounts) \cup Permutations(Endpoints \ Faulty)
=============================================================================
