----------------------------- MODULE MCRepoLock -----------------------------
\* Small instances of RepoLock.  Processes are interchangeable.
EXTENDS RepoLock, TLC

Symmetry == Permutations(Procs)
=============================================================================
