CONSTANTS
    r1 = r1
    r2 = r2
    r3 = r3
    k1 = k1
    b1 = b1
    b2 = b2
    b3 = b3
    NoKey = NoKey
    Absent = Absent
    None = None
    CreateReqs <- MCCreateReqs
    KeyOf <- MCKeyOf
    BatchReqs <- MCBatchReqs
    BatchSize <- MCBatchSize
    BatchLimit = 2
    Scheduled <- MCScheduled
    QueueCap = 1
    RepoMayFail = TRUE
    Stores = {"pg", "mock"}
    Reads <- MCOneBatch
SPECIFICATION Spec
SYMMETRY MCSymmetry
CONSTRAINT MCRejectedFirst
CHECK_DEADLOCK FALSE
INVARIANT OneRowPerKey
INVARIANT IdempotentAnswers
INVARIANT BatchAllOrNothing
