SPECIFICATION DiscoveryFairSpec
CONSTANTS
    seed1 = seed1
    seed2 = seed2
    seed3 = seed3
    seed4 = seed4
    router = router
    seed2alias = seed2alias
    dom1 = dom1
    dom2 = dom2
    dom3 = dom3
    Junk = Junk
    Endpoints = {seed1, seed2, seed3, seed4, router}
    Hostnames = {router}
    Canon <- MCCanon
    RememberedCap = 2
    BytesPerDomain = 3
    EndpointsPerDomain = 2
    EndpointsTotal = 3
    BootstrapTotal = 4
    Domains = {dom1, dom2, dom3}
    Answers <- MCAnswers
    Sources <- MCSources
    RetriesMax = 3
INVARIANTS
    SeedsAdmitted
    Bounded
    FirstContact
PROPERTIES
    StopIsClean
    Retried
CHECK_DEADLOCK FALSE
