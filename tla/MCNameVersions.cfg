\* Two calls, two accounts; the clock and MAX_DHT_SEQ are small, so the cap is met.
SPECIFICATION Spec
CONSTANTS
    None = None
    Calls = {c1, c2}
    Contents = {i1, i2}
    Accounts = {a1, a2}
    MaxDhtSeq = 2
    TogetherMax = 2
    NowMax = 2
    EventsMax = 1
    LooksMax = 2
SYMMETRY Symmetry
INVARIANTS
    TypeOK
    VersionsOrdered
    SharedResolves
PROPERTIES
    FailureRestores
CHECK_DEADLOCK FALSE
