SPECIFICATION FairSpec
CONSTANTS
    weights = weights
    WEIGHTS = WEIGHTS
    model = model
    config = config
    readme = readme
    empty = empty
    sha1 = sha1
    sha2 = sha2
    text = text
    None = None
    Junk = Junk
    Wrong = Wrong
    Mixed = Mixed
    Skip = Skip
    Fold <- MCFold
    Infos <- MCInfos
    Published <- MCPublished
    Whole <- MCWhole
    MaxFiles = 3
    MaxDepth = 2
    MaxFileBytes = 2
    MaxTotalBytes = 5
    TroublesMax = 4
INVARIANTS
    PromotedExact
    WithinLimits
PROPERTIES
    KeptForResume
    Promoted
CHECK_DEADLOCK FALSE
