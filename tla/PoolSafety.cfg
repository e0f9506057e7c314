SPECIFICATION Spec
CONSTANTS
    w1 = w1
    w2 = w2
    c1 = c1
    c2 = c2
    None = None
    Threads <- MCThreads
    Callers <- MCCallers
    Jobs <- AllJobs
    QueueSize = 4
    StartUnitNo = 5
    MaxCalls = 2
SYMMETRY PoolSymmetry
INVARIANTS ItemsSound ReturnedDataTransformed
CHECK_DEADLOCK FALSE
