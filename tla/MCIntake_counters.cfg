CONSTANTS
    r1 = r1
    r2 = r2
    r3 = r3
    k1 = k1
    b1 = b1
    b2 = b2
    b3 = b3
    NoKey = NoKey
    Absent = Absent
    None = None
    CreateReqs <- MCNoCreates
    KeyOf <- MCKeyOf
    BatchReqs <- MCOneBatch
    BatchSize <- MCBatchSize
    BatchLimit = 2
    Scheduled <- MCScheduled
    QueueCap = 1
    RepoMayFail = FALSE
    Stores = {"pg"}
    Reads <- MCNoReads
SPECIFICATION FairSpec
CHECK_DEADLOCK FALSE
PROPERTY BatchCountersConverge
