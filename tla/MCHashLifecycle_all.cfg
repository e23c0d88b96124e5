\* A hash that is freed when the pool has no submission of it; every step of
\* the constructor and of the calls may fail.
CONSTANTS
    w1 = w1
    w2 = w2
    s1 = s1
    s2 = s2
    s3 = s3
    STOP = STOP
    None = None
    Workers <- Workers2
    Subs <- Subs3
    QueueSize = 2
    Faults <- AllFaults
    FreeEarly = FALSE
    HashFaults <- AllHashFaults
SPECIFICATION FairSpecHash
INVARIANTS PoolHasRoom QueueInOrder NoUseAfterFree NothingLeaks
PROPERTIES CallReturnsIfStarted FreeReturns
CHECK_DEADLOCK FALSE
