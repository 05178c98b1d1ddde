\* Three processes, none of which crashes.
SPECIFICATION Spec
CONSTANTS
    None = None
    Gone = Gone
    Procs = {p1, p2, p3}
    CrashesMax = 0
SYMMETRY Symmetry
INVARIANT ImportsExclude
CHECK_DEADLOCK FALSE
