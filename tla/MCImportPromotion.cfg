\* Three versions, two crashes, and one of four sets of troubles.
SPECIFICATION Spec
CONSTANTS
    None = None
    v1 = v1
    v2 = v2
    v3 = v3
    h1 = h1
    h2 = h2
    Versions = {v1, v2, v3}
    Infohashes = {h1, h2}
    HashOf <- MCHashOf
    CrashesMax = 2
    Troubles = {{"demand"}, {"publish"}, {"haste", "write", "unsized"}, {"delete", "write"}}
INVARIANTS
    CurrentComplete
    LinkComplete
    ContentKept
    RecordsMatch
PROPERTIES
    RecoveryRepairs
