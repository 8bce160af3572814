SPECIFICATION Spec
CONSTANTS
    None = None
    Threads = {t1, t2}
    Daemons = {d1, d2}
    MAX_REQ = 4
SYMMETRY ProcessSymmetry
CHECK_DEADLOCK FALSE
INVARIANTS
    TypeOK
    StrandedOnlyByRead
    ListsHoldLiveEntries
    HandedOnce
PROPERTY DecidedOnce
