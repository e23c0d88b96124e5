\* A hash whose constructor may fail.
CONSTANTS
    w1 = w1
    w2 = w2
    s1 = s1
    s2 = s2
    s3 = s3
    STOP = STOP
    None = None
    Workers <- Workers2
    Subs <- Subs3
    QueueSize = 2
    Faults <- ThreadFault
    FreeEarly = FALSE
    HashFaults <- AllHashFaults
SPECIFICATION SpecHash
INVARIANT ReleasedOnce
CHECK_DEADLOCK FALSE
