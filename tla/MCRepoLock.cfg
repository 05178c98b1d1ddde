\* Three fair processes that may crash anywhere, twice between them, and whose imports end.
SPECIFICATION FairSpec
CONSTANTS
    None = None
    Gone = Gone
    Procs = {p1, p2, p3}
    CrashesMax = 2
INVARIANTS
    MutualExclusion
    HolderHasLock
PROPERTY LeftoverReclaimed
