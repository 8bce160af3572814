SPECIFICATION Spec
CONSTANTS
    t1 = t1
    t2 = t2
    t3 = t3
    sem1 = sem1
    mtx1 = mtx1
    auto1 = auto1
    manual1 = manual1
    None = None
    Threads = {t1, t2}
    Semaphores = {sem1}
    Mutexes = {mtx1}
    AutoEvents = {auto1}
    ManualEvents = {manual1}
    WaitCalls <- Calls
    ReleaseCounts = {1, 2}
    MaxCount = 2
    WORD = 5
    MAX_SETS = 2
    MAX_REC = 2
SYMMETRY ThreadSymmetry
CHECK_DEADLOCK FALSE
INVARIANTS
    TypeOK
    SemConserved
    QueuedOnlyWhileWaiting
    NoMissedWake
    GrantExact
