SPECIFICATION Spec
CONSTANTS
    t1 = t1
    t2 = t2
    t3 = t3
    p1 = p1
    p2 = p2
    None = None
    Threads = {t1, t2, t3}
    Processes = {p1, p2}
    ProcessOf <- Owner
    Handles = {"h"}
    Jobs = {j1, j2}
    j1 = j1
    j2 = j2
    NoJob = NoJob
    MAX_MSGS = 3
    MAX_WAITERS = 2
CHECK_DEADLOCK FALSE
SYMMETRY Twins
CONSTRAINT Families
INVARIANTS
    TypeOK
    NeverQueuedWhileWaited
    MessagesOnce
    ZeroNeverEarly
