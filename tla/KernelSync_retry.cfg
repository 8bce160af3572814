SPECIFICATION Spec
CONSTANTS
    t1 = t1
    t2 = t2
    t3 = t3
    sem1 = sem1
    mtx1 = mtx1
    auto1 = auto1
    manual1 = manual1
    None = None
    Threads = {t1, t2, t3}
    Semaphores = {sem1}
    Mutexes = {}
    AutoEvents = {}
    ManualEvents = {}
    WaitCalls <- SemCalls
    ReleaseCounts = {1}
    MaxCount = 2
    WORD = 8
    MAX_SETS = 0
    MAX_REC = 2
SYMMETRY ThreadSymmetry
CHECK_DEADLOCK FALSE
INVARIANT LosersRetry
