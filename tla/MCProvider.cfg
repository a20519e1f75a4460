SPECIFICATION MCSpec
CONSTANTS
    MaxCrashes = 2
    BlobCount = 3
    MaxFetches = 5
    MaxRequests = 4
    Nonces = {n1, n2}
    Chunks = {k1, k2}
    FirstNonce = n1
    FirstChunk = k1
INVARIANTS
    GivenIsRecorded
    UsedOnce
    AckedIsStored
PROPERTIES
    ConfirmedIsProved
CHECK_DEADLOCK FALSE
