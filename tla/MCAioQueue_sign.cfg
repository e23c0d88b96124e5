\* The pool fails with the error of a worker that could not start.
CONSTANTS
    u1 = u1
    u2 = u2
    u3 = u3
    s1 = s1
    s2 = s2
    None = None
    Updates <- Updates2
    Slots <- Slots2
    MaxBlocks = 1
    QueueDepth = 2
    ReapCount = 2
    Pipe = FALSE
    Faults <- PoolFault
SPECIFICATION Spec
INVARIANT ErrorsAreNegative
CHECK_DEADLOCK FALSE
