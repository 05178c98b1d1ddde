SPECIFICATION Spec
CONSTANTS
    Keys = {k1}
    Accounts = {a1, a2}
    Names = {n1}
    Contents = {c1, c2}
    Chains = {here, there}
    Here = here
    Nodes = {host}
    BadNodes = {bad}
    MaxNodes = 1
    MaxU64 = 1
    None = None
    Endpoints = {e1, e2, e3}
    Faulty = {e3}
    MinAgree = 2
    SnapshotLag = 1
    MaxHeadLag = 1
    BlocksMax = 3
    SignedMax = 2
    HeightMax = 5
SYMMETRY Symmetry
INVARIANTS
    OwnerSigned
    RisesAlongForks
    HonestHeight
    AnswerIsTrue
