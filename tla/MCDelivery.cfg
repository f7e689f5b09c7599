CONSTANTS
    r1 = r1
    r2 = r2
    w1 = w1
    w2 = w2
    Null = Null
    Rows <- MCRows
    Workers <- MCWorkers
    Backoff <- MCBackoff
    RatePerSec = 1
    MaxRetries = 3
    RetryInterval = 1
    Capacity = 2
    ReplyMayBeLost = TRUE
    AttemptBound = 3
SPECIFICATION Spec
INVARIANT RetryAtFollowsBackoff
INVARIANT DuplicatesOnlyAfterLostReply
