SPECIFICATION MCSpec
CONSTANTS
    MaxRequests = 3
    Batches = 3
    PoolSize = 2
    ErrorsInInit = FALSE
    Uploaded = {f1, f2}
    PanelDeals = {d1}
    PanelDeal = d1
    NoDeal = NoDeal
    NumSlots = 2
    GatewayEnabled = TRUE
    LoadsFail = FALSE
    FilesVanish = TRUE
    MaxRuns = 2
    MaxUploads = 2
    MaxCommits = 2
    MovingFiles = {f1}
    MovingDeals = {d1, d2}
    Requests = {1, 2, 3}
    Shards = 1
    MaxTries = 2
    MaxRestarts = 1
    DiskErrors = TRUE
    Pair = {1, 2}
INVARIANTS
    AnswersAreWhole
    CommitFollowsUpload
    OwnBuilder
    SlabStaysWhole
    LockExcludes
PROPERTIES
    UploadsSettle
CHECK_DEADLOCK FALSE
