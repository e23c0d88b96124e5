\* Workers that may fail to create their digest.
CONSTANTS
    w1 = w1
    w2 = w2
    s1 = s1
    s2 = s2
    s3 = s3
    STOP = STOP
    None = None
    Workers <- Workers2
    Subs <- Subs3
    QueueSize = 2
    Faults <- StartFault
    FreeEarly = FALSE
    HashFaults <- NoFaults
SPECIFICATION FairSpecHash
PROPERTY CallReturns
CHECK_DEADLOCK FALSE
