\* 3 requests for a queue of 2 with a pipe, reaped one by one; every call may fail.
CONSTANTS
    u1 = u1
    u2 = u2
    u3 = u3
    s1 = s1
    s2 = s2
    None = None
    Updates <- Updates3
    Slots <- Slots2
    MaxBlocks = 2
    QueueDepth = 2
    ReapCount = 1
    Pipe = TRUE
    Faults <- AllFaults
SPECIFICATION FairSpec
INVARIANTS ReportedOnce QueueHasRoom BufferReleased FailureReported OneNotification
PROPERTIES EventuallyReported ImplementsAsync
CHECK_DEADLOCK FALSE
