CONSTANTS
    n1 = n1
    n2 = n2
    w1 = w1
    w2 = w2
    Notifications <- MCNotifications
    Workers <- MCWorkers
    PriorityOf <- MCPriorityOf
    Scheduled <- MCScheduled
    CancelRequests <- MCCancelFirst
    Capacity <- MCCapacity
    MaxRetries = 2
    RepoMayFail = FALSE
    MayShutdown = FALSE
    AttemptBound = 3
SPECIFICATION Spec
SYMMETRY WorkerSymmetry
INVARIANT AtMostOnceDelivery
INVARIANT NoDoubleDispatch
INVARIANT RetryCountTracksFailures
