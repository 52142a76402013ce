SPECIFICATION UseSpec
CONSTANTS
    g = g a1 = a1 a2 = a2 b2 = b2
    pay = pay move = move coin = coin
    o1 = o1 o2 = o2 o4 = o4
    None = None
    Backend = "memory"
    Outs <- MCOuts
    Keys <- MCOuts
    Txs <- MCTxs
    Hashes <- MCHashes
    MaxHeight = 3
    Chains <- MCChains
    TxsIn <- MCTxsIn
    Regular <- MCRegular
    JsonOnly = {}
    Creates <- MCCreates
    Spends <- MCSpends
    KeyOf <- MCKeyOf
    MaxBatch = 2
    StartHeights = {}
    RescanHeights = {0}
    Events = {"reorgIdle","reorgBusy"}
    Calls = {"startSyncing","stopSyncing"}
    Overlap = TRUE
    SpendableAge = 1
    MaxTimers = 2
INVARIANTS WalletTypeOK CallsHold
PROPERTY UseCatchesUp
