SPECIFICATION LibrarySpec
CONSTANTS
    g = g a1 = a1 a2 = a2 a3 = a3 b2 = b2 b3 = b3
    pay = pay move = move late = late coin = coin
    o1 = o1 o2 = o2 o3 = o3 o4 = o4
    None = None
    Backend = "memory"
    Outs <- MCOuts
    Keys <- MCKeys
    Txs <- MCTxs
    Hashes <- MCHashes
    MaxHeight = 4
    Chains <- MCChains
    TxsIn <- MCTxsIn
    Regular <- MCRegular
    JsonOnly = {}
    Creates <- MCCreates
    Spends <- MCSpends
    KeyOf <- FullKeyOf
    MaxBatch = 2
    StartHeights = {}
    RescanHeights = {}
    Events = {"reorgIdle", "stop"}
    Sides = {"engine", "plain", "addresses", "oracle", "admission", "mining", "curve"}
    w1 = w1 w2 = w2 w3 = w3
    WalletKinds = {"full", "view_only", "watch"}
    DaemonBlocks <- MCDaemonBlocks
    FirstBlocks = 3
    Handed <- MCHanded
    PerBatch = 2
    Programs = {{"startSyncing", "stopSyncing"}, {"sync", "addOutput", "markSpent"},
                {"getSubaddress", "createAccount", "createSubaddress", "fromJSON"},
                {"sync", "fromJSON"}}
    MostSyncs = 2
    MostBegun = 3
    MostRefused = 1
    MostCalls = 3
    MostAccounts = 2
    AskedMinors = {1}
    ByteBase = 8
    Alphabet = 5
    EncodedSizes <- MCSizes
    Networks = {"mainnet", "testnet"}
    PREFIXES <- MCPrefixes
    Order = 61
    KeyBytes = 2
    IdBytes = 1
    Lengths = {9, 10, 11, 12, 13, 14, 15}
    IndexBase = 4
    Ids <- MCIds
    Indices = {0, 1, 2}
    Lookahead = 2
    Languages <- MCLanguages
    GroupBytes = 2
    Seeds <- MCSeeds
    Texts <- MCTexts
    OracleCoin = 20
    RateRounding = 2
    SlippageShift = 2
    ExactLimit = 12
    FreshLimit = 1
    OracleFork = 255
    OracleForks = {1, 255}
    Prices = {0, 5, 12, 13}
    Supplies = {0, 15}
    RecordTimes = {0, 3, 6}
    BlockTimes = {0, 4}
    Traded = {1, 3, 4, 9, 30}
    SlippageLimits = {0, 8}
    FEE_PER_BYTE = 2
    FEE_PER_KB = 6
    Kilo = 4
    BaseFeePerKb = 8
    RewardReference = 60
    ReferenceWeight = 3
    ScalingRounding = 4
    Quantum = 10
    Tolerance = 5
    RewardZoneV1 = 9
    RewardZoneV5 = 12
    CoinbaseReserved = 1
    MaxTxSize = 8
    MaxTxExtra = 3
    MaxOutputs = 2
    RingSize = 2
    SpendableAge = 1
    MinedWindow = 3
    LockDelta = 1
    LockThreshold = 12
    TargetTime = 6
    FutureLimit = 1
    CheckWindow = 4
    MaxMoney = 40
    MoneySupply = 64
    EmissionShift = 2
    FinalSubsidy = 3
    PremineAmount = 10
    CarrotFork = 10
    NetworkNames = {"mainnet", "testnet", "stagenet", "fakechain"}
    HardForkHeights <- MCForkHeights
    StakeLockPeriods <- MCLockPeriods
    Drafts <- MCDrafts
    Rewards = {0, 5, 60, 200}
    MedianWeights = {0, 2, 12, 20, 50}
    Forks = {1, 2, 5, 10}
    MinerTxs <- MCMinerTxs
    MinerFees = {0, 4, 34}
    TimeSteps <- MCTimeSteps
    Locks = {0, 2, 5, 12, 14}
    MostBlocks = 6
    PrevBytes = 1
    NonceBytes = 1
    HashBytes = 2
    LowDifficulty = 4
    Templates <- MCTemplates
    MaxExtraNonce = 1
    ExtraNonces <- MCExtraNonces
    Starts = {0, 6}
    RangeSize = 4
    TxLists <- MCTxLists
    Difficulties = {1, 3, 6, 40}
    FieldSize = 37
    CurveD = 2
    MontgomeryA = 24
    RootOfMinus1 = 31
    GroupOrder = 5
    BaseX = 8
    BaseY = 10
    SecondGenerator = 30
    WholeX = 4
    WholeY = 3
    SignBit = 64
INVARIANTS LibraryTypeOK PlainHolds KeysHold OracleHolds AdmissionHolds TemplatesHold TablesExact HashesCoverSync
PROPERTIES FollowsChain NoSilentRewind
