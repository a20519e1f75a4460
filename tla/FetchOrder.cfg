SPECIFICATION Spec
CONSTANTS
    K = 2
    M = 1
    Rows = 2
    Blobs = 4
    Striped = TRUE
    GatewayPresent = TRUE
    ReqSigRequired = FALSE
CHECK_DEADLOCK FALSE
INVARIANTS
    FileInOrder
