\* 2 workers, 4 submissions and a queue of 2 that fills up; every call may fail.
CONSTANTS
    w1 = w1
    w2 = w2
    s1 = s1
    s2 = s2
    s3 = s3
    s4 = s4
    STOP = STOP
    None = None
    Workers <- Workers2
    Subs <- Subs4
    QueueSize = 2
    Faults <- AllFaults
SPECIFICATION FairSpec
INVARIANTS TypeOK IdleCounted EnoughAwake StopForEveryone QueueBounded OnePlace
PROPERTIES FrozenAfterCompleted Handled StopTerminates
