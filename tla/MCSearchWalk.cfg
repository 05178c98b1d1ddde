SPECIFICATION FairSpec
CONSTANTS
    pub1 = pub1
    pub2 = pub2
    pub3 = pub3
    addr1 = addr1
    addr2 = addr2
    addr3 = addr3
    addr4 = addr4
    Junk = Junk
    Self = Self
    Pubs = {pub1, pub2, pub3}
    Addrs = {addr1, addr2, addr3, addr4}
    SubnetOf <- MCSubnetOf
    Lists <- MCLists
    Follows <- MCFollows
    Webs <- MCWebs
    TxsMax = 2
    PerPublisher = 2
    PerSession = 2
    PerSubnet = 1
    PerRead = 2
    Inspect = 4
    TableFull = 1
    ReAdvertise = 1
    Ttl = 2
    TimesMax = 2
    CrashesMax = 1
    Infohashes = {1, 2}
    Options <- MCOptions
    MaxResults = 4
    MaxEntries = 3
    MaxEndorse = 2
INVARIANTS
    BudgetsHold
    NoLaundering
    WalkIsExact
PROPERTIES
    EverythingEnds
CHECK_DEADLOCK FALSE
