\* One publisher that may change its catalog once, two loads, no symmetry.
SPECIFICATION FairSpec
CONSTANTS
    NoRef = NoRef
    NoLoad = NoLoad
    Pubs = {p1}
    Infohashes = {h1, h2}
    Loads = {l1, l2}
    Callers = {c1}
    TorrentsMax = 1
    CacheMax = 1
    EventsMax = 1
INVARIANTS
    NothingLeaks
PROPERTIES
    UnusedEnds
