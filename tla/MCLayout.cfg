SPECIFICATION MCSpec
CONSTANTS
    Word = 256
    Half = 64
    BlobsPerMdu = 8
    DealBaseReplication = 4
    BlobSizeBytes = 4
    Available = 3
    Hints <- MCHints
    MduIndices = {0, 1, 7, 31, 40}
    BlobCounts = {0, 1, 2, 3, 4, 5, 6, 7, 8, 9, 17}
    Sizes = {0, 1, 100, 250}
    Duration = 2
    StoragePrice = 1
    MaxDeposit = 150
    ScalarBytes = 4
    BlobScalars = 2
    MduBlobs = 2
    WitnessBytes = 5
    Lengths = {1, 3, 5, 6, 7, 11, 12, 13, 25}
    MaxFiles = 3
    MaxSlabs = 2
    MaxMdu = 15
INVARIANTS
    LocalReadsBack
    OpenedCanBeProved
PROPERTIES
    GrowthIsPaid
CHECK_DEADLOCK FALSE
