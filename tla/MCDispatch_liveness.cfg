CONSTANTS
    n1 = n1
    n2 = n2
    w1 = w1
    w2 = w2
    Notifications <- MCNotifications
    Workers <- MCOneWorker
    PriorityOf <- MCPriorityOf
    Scheduled <- MCScheduled
    CancelRequests <- MCNoCancel
    Capacity <- MCCapacity
    MaxRetries = 2
    RepoMayFail = FALSE
    MayShutdown = TRUE
    AttemptBound = 3
SPECIFICATION FairSpec
PROPERTY DueRowsReadmitted
PROPERTY ShutdownCompletes
