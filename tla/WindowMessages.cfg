SPECIFICATION FairSpec
CONSTANTS
    t1 = t1
    t2 = t2
    t3 = t3
    Threads = {t1, t2, t3}
    ProcessOf <- TwoProcesses
    Codes = {"c"}
    RING_CAPACITY = 1
    MIN_OBSERVATIONS = 1
    Windows = {1, 2}
    OwnerOf <- Owners
    ChildrenOf <- SameThreadChildren
    ExplicitIds = {0, 3}
    TIMER_TOP = 3
    TIMER_LOW = 1
    Quitters = {t1}
    Callers = {t3}
    MAX_SENDS = 3
    MAX_WAITS = 1
    MAX_TIMERS = 2
CHECK_DEADLOCK FALSE
CONSTRAINT Families
INVARIANTS
    TypeOK
    
    PromotionEarned
    
    

    
