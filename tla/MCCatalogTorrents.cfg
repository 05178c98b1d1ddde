\* Two publishers with identical catalogs, and one event of the environment.
SPECIFICATION Spec
CONSTANTS
    NoRef = NoRef
    NoLoad = NoLoad
    Pubs = {p1, p2}
    Infohashes = {h1}
    Loads = {l1, l2, l3}
    Callers = {c1, c2}
    TorrentsMax = 1
    CacheMax = 1
    EventsMax = 1
SYMMETRY Symmetry
INVARIANTS
    TypeOK
    ReaderCount
    WaitersCount
    OneLoadPerKey
    InUseNotReaped
    LiveIsKept
    RetentionAgrees
