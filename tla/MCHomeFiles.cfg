\* Two transactions and an unserialised change of one file, with a crash.
SPECIFICATION FairSpec
CONSTANTS
    None = None
    Txns = {t1, t2}
    Loose = {l1}
    CrashesMax = 1
INVARIANTS
    ConfirmedStays
PROPERTIES
    ImplementsAtomicFile
CHECK_DEADLOCK FALSE
