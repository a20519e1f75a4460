SPECIFICATION MCSpec
CONSTANTS
    u1 = u1
    u2 = u2
    p1 = p1
    p2 = p2
    p3 = p3
    r1 = r1
    r2 = r2
    f1 = f1
    f2 = f2
    Module = Module
    FeeCollector = FeeCollector
    NoRoot = NoRoot
    NoProvider = NoProvider
    NoProfile = NoProfile
    GenesisCoins = 0
    DealBaseReplication = 2
    ProofWindow = 10
    SlashAmount = 1
    BlobSize = 1
    InitialReputation = 100
    MaxDeals = 1
    MaxHeight = 3
    MaxNonce = 2
    MaxGen = 2
    MaxProofs = 1
    MaxReplication = 4
    WordSize = 65536
    PriceScale = 10
    BytesPerUnit = 2
    InitialReward = 4
    ZeroAfter = 8
    PlatinumBlocks = 1
    GoldBlocks = 2
    SilverBlocks = 3
    Users <- OneUser
    Providers <- ThreeProviders
    Roots <- TwoRoots
    Files <- NoMsgs
    DealMsgs <- MCDealMsgs
    Contents <- MCContents
    Amounts <- NoMsgs
    SessionReqs <- MCSessionReqs
    Receipts <- NoMsgs
    Batches <- NoMsgs
    Downloads <- NoMsgs
    ParamSets <- MCParamSets
INVARIANTS TypeOK Solvent
PROPERTIES FeeFollowsOutcome SessionsAreEscrowed HeldFeesAreReleased
