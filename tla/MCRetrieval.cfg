SPECIFICATION MCSpec
CONSTANTS
    Calls = {c1}
    Statuses = {404, 429, 500}
    NoCall = NoCall
    K = 2
    M = 1
    Rows = 2
    Blobs = 8
    Striped = TRUE
    GatewayPresent = TRUE
    ReqSigRequired = FALSE
INVARIANTS
    FallbackIsSound
    UploadSentOnce
    OnlyDeliveredIsPaid
PROPERTIES
    TimedCallsSettle
    DeliveredIsPaid
CHECK_DEADLOCK FALSE
