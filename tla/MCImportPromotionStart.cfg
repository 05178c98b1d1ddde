\* Nothing fails; there is one crash.
SPECIFICATION FairSpec
CONSTANTS
    None = None
    v1 = v1
    v2 = v2
    v3 = v3
    h1 = h1
    h2 = h2
    Versions = {v1, v2, v3}
    Infohashes = {h1, h2}
    HashOf <- MCHashOf
    CrashesMax = 1
    Troubles = {{}}
PROPERTIES
    StartsAgain
