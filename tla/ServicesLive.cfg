SPECIFICATION FairServicesSpec
CONSTANTS
    Parts = {"pool", "rpc", "native"}
    Sockets = {s1, s2}
    Shares = {x1}
    PoolJobs = {pj1}
    OldSocket = OldSocket NoSocket = NoSocket NoPoolJob = NoPoolJob
    Workers = {w1}
    mj1 = mj1 mj2 = mj2 seedA = seedA seedB = seedB
    MinerJobs = {mj1, mj2}
    SeedOf <- MCSeedOf
    NoMinerJob = NoMinerJob NoSeed = NoSeed
    MaxQueue = 1
    MaxWaiting = 2
    u1 = u1 u2 = u2 u3 = u3
    Urls <- MCTwoUrls
    Alive = {u2} Dying = {u1}
    RpcCalls = {c1, c2}
    Retries = 1
    Latencies = {1}
    Degradation = 2
    RacesBy = {"interval", "user"}
    Infinity = 9 Unknown <- MCUnknown Nobody = Nobody
    Connections = {cn1, cn2}
    Priority <- MCPriority
    NoClient = NoClient
    MaxChecks = 2
    Signers = {sg1, sg2, sg3}
    Junk = Junk
    g = g a1 = a1 a2 = a2 a3 = a3 a4 = a4 b1 = b1 b2 = b2 b3 = b3
    c3 = c3 x2 = x2 y3 = y3 e3 = e3 None = None
    Blocks <- Mixed Genesis = g Parent <- MixedParent Work <- MixedWork
    BadTime = {x2} RejectMain = {c3} RejectAlt = {y3}
    MinSamples = 2 MaxAge = 2
    Threads = {t1, t2} NonceSpace = 1 LastTip = 2 SeedTip = 2
    MaxJobs = 2 MaxCommands = 2 MaxFound = 1 MaxHashErrors = 1
    MinerWallet = mw Wallets = {mw, aw} Callers = {k1, k2}
    Reward = 4 Amounts = {3, 5} Fee = 1 UnlockWindow = 2 SpendableAge = 2
    RingSize = 2 MaxInputs = 2 MaxBlocks = 5 MaxTransfers = 2 MaxMempool = 2
    p1 = p1 p2 = p2 p3 = p3
    Purse <- MCPurse DecoySeq <- MCDecoys RandomSeqs <- MCRandom
    Order = 31 LogH = 3 LogT = 12 Masks = {2, 19} Wishes = {3, 13, 15, 40}
    WeightBase = 1 WeightPerInput = 1 WeightPerOutput = 1
    MostInputs = 2 RctTypes = {8, 9}
    Target = 20 LwmaWindow = 3 LwmaMinimum = 4 LegacyWindow = 4 LegacyCut = 1
    LongWindow = 2 ShortWindow = 2 ZoneV1 = 4 ZoneV5 = 10 Surge = 3
    Supply = 1000 Shift = 3 MinSubsidy = 5 Premine = 100 ForkHeights <- MCForks
    SolveTimes <- MCTimes Difficulties = {8, 24} Multiple = 24 BlockWeights = {4, 55}
    Emissions = {100, 900} Stakes = {2, 5, 7} Slippages = {0, 3, 10} MaxHeight = 5
    Holders = {h1, h2} SubIndices = {1} Coin = 2 MostDests = 2 NoHolder = NoHolder
    MaxMined = 1 MaxPaid = 2
    Radix = 16 MaxVarint = 3 HashLen = 2 AmountLen = 1 TagLen = 1 AnchorLen = 1 PidLen = 1
    MaxRounds = 4 Oracle = 12 ByteValues = 32 WordLen = 2 ProofRounds = {}
    CodecTxs <- MCCodecTxs CodecBlocks <- MCCodecBlocks CodecAnswers <- MCCodecAnswers
    PurseAmounts = {3000, 9000, 30000} SpendAmounts = {5666, 7609, 3200} Slips = {0, 100, 300}
    Priorities = {"low", "default"} DustLimit = 4000 MostSelected = 2 MostSwept = 2
    Confirmations = 1 MostCoins = 3 MostSent = 1 LastHeight = 2
PROPERTIES
    ComesBack SharesSettle
    HealsItself
    JobsAreTaken
CHECK_DEADLOCK FALSE
