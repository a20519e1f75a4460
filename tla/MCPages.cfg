SPECIFICATION MCSpec
CONSTANTS
    Owners = {a1}
    Files = {f1}
    NoAccount = NoAccount
    NoFile = NoFile
    NumDeals = 2
    MaxOps = 3
    MaxRefreshes = 2
    MaxRecent = 2
    MaxReloads = 1
    Expires = TRUE
    Deals = {d1}
    Paths = {p1}
    FirstDeal = d1
    NoPath = NoPath
    MaxContents = 2
    MaxResets = 1
    MaxDownloads = 1
    RootOnly = TRUE
INVARIANTS
    ContentIsOfTarget
    PendingIsUnderWay
    ExplorerShowsTheDeal
    LoadingIsTrue
PROPERTIES
    NewDealIsSelected
CHECK_DEADLOCK FALSE
