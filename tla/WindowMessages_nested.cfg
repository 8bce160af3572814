SPECIFICATION Spec
CONSTANTS
    t1 = t1
    t2 = t2
    t3 = t3
    Threads = {t1, t2, t3}
    ProcessOf <- TwoProcesses
    Codes = {"c"}
    RING_CAPACITY = 2
    MIN_OBSERVATIONS = 1
    Windows = {}
    OwnerOf <- Owners
    ChildrenOf <- SameThreadChildren
    ExplicitIds = {}
    TIMER_TOP = 2
    TIMER_LOW = 1
    Quitters = {}
    Callers = {}
    MAX_SENDS = 3
    MAX_WAITS = 2
    MAX_TIMERS = 0
CHECK_DEADLOCK FALSE
INVARIANTS
    NoSenderStranded
