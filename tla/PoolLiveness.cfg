SPECIFICATION FairSpec
CONSTANTS
    w1 = w1
    w2 = w2
    c1 = c1
    c2 = c2
    None = None
    Threads <- MCThreads
    Callers <- OneCaller
    Jobs <- MixedJobs
    QueueSize = 4
    StartUnitNo = 5
    MaxCalls = 4
PROPERTIES CallsAndStopReturn
CHECK_DEADLOCK FALSE
