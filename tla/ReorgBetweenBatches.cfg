SPECIFICATION Spec
CONSTANTS
    g = g a1 = a1 a2 = a2 a3 = a3 b2 = b2 b3 = b3
    pay = pay move = move late = late coin = coin
    o1 = o1 o2 = o2 o3 = o3 o4 = o4
    None = None
    Backend = "memory"
    Outs <- MCOuts
    Keys <- MCKeys
    Txs <- MCTxs
    Hashes <- MCHashes
    MaxHeight = 4
    Chains <- MCChains
    TxsIn <- MCTxsIn
    Regular <- MCRegular
    JsonOnly = {}
    Creates <- MCCreates
    Spends <- MCSpends
    KeyOf <- FullKeyOf
    MaxBatch = 2
    StartHeights = {}
    RescanHeights = {}
    Events = {"reorgBusy"}
INVARIANTS HashesExact
