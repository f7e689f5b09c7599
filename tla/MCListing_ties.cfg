CONSTANTS
    x1 = x1
    x2 = x2
    x3 = x3
    NoParam = NoParam
    Junk = Junk
    Absent = Absent
    None = None
    Rows <- MCRows
    Commits <- MCCommits
    CreatedAt <- MCCreatedAt
    ChannelOf <- MCChannelOf
    Queries <- MCQueries
    DefaultLimit = 2
    MaxLimit = 3
    RepoMayFail = FALSE
SPECIFICATION Spec
CHECK_DEADLOCK FALSE
INVARIANT PagesPartition
