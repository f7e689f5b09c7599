CONSTANTS
    n1 = n1
    n2 = n2
    w1 = w1
    w2 = w2
    Notifications <- MCNotifications
    Workers <- MCOneWorker
    PriorityOf <- MCPriorityOf
    Scheduled <- MCScheduled
    CancelRequests <- MCCancelRequests
    Capacity <- MCWideCapacity
    MaxRetries = 1
    RepoMayFail = FALSE
    MayShutdown = FALSE
    AttemptBound = 2
SPECIFICATION Spec
PROPERTY CancelStopsDispatch
