----------------------------- MODULE WalletSync -----------------------------
(***************************************************************************)
(* The wallet synchronisation engine (src/wallet-sync.js, class WalletSync) *)
(* over the storage tables of WalletStore, talking to a daemon whose best   *)
(* chain grows and reorganises while the engine runs.                       *)
(*                                                                         *)
(* One action is the code between two awaits: the engine is one async call  *)
(* chain, so everything another caller, the daemon or a crash can do may    *)
(* happen between two actions.  pc names the await the call is parked at.   *)
(* A read of the storage and the request that depends on it are one action  *)
(* where only the engine itself writes what was read.                       *)
(*                                                                         *)
(* The daemon is external.  A chain is a sequence of blocks, the block at   *)
(* height h being chain[h + 1]; a block stands for its hash, which commits  *)
(* to the whole history below it (ChainsAssumption).                        *)
(***************************************************************************)
EXTENDS WalletStore, Sequences, FiniteSets

CONSTANTS
    Chains,       \* the best chains the daemon may ever report
    TxsIn,        \* block -> the wallet's transactions in it
    Regular,      \* transactions listed in tx_hashes; the others are a block's
                  \* miner_tx or protocol_tx, embedded in the block JSON
    JsonOnly,     \* regular transactions the daemon can serve only as JSON
    Creates,      \* transaction -> outputs of it the wallet owns
    Spends,       \* transaction -> key images its inputs carry
    KeyOf,        \* output -> the storage key the scan computes for it
    MaxBatch,     \* bounds the adaptive batch size
    StartHeights, \* explicit heights callers give start()
    RescanHeights,\* heights callers give rescan()
    Events        \* what the environment of a run may do, see EventKinds

EventKinds ==
    {"reorgIdle",   \* the chain reorganises while no sync is running
     "reorgBusy",   \* ... or between two awaits of a running sync
     "rpcError",    \* getInfo, a header call or getBlock fails
     "txsError",    \* getTransactions fails
     "txError",     \* parsing or storing a transaction throws
     "storeError",  \* another storage call of the engine throws
     "crash",       \* the process dies; the storage survives (IndexedDB)
     "stop",        \* stop() is called
     "rescan",      \* rescan() is called while no sync is running
     "rescanBusy"}  \* rescan() is called while a sync is running

Keyless == Txs \ Regular

ASSUME ChainsAssumption ==
    /\ Chains # {}
    /\ \A c \in Chains : c \in Seq(Hashes) /\ Len(c) \in 1 .. MaxHeight
    /\ \A c, d \in Chains : c[1] = d[1] /\ TxsIn[c[1]] = {}
    /\ \A c, d \in Chains : \A i \in DOMAIN c \cap DOMAIN d :
          c[i] = d[i] => \A j \in 1 .. i : c[j] = d[j]

ASSUME WalletAssumption ==
    /\ TxsIn \in [Hashes -> SUBSET Txs]
    /\ Regular \subseteq Txs /\ JsonOnly \subseteq Regular
    /\ Creates \in [Txs -> SUBSET Outs]
    /\ Spends \in [Txs -> SUBSET Keys]
    /\ \A t \in Keyless : Spends[t] = {}
    /\ KeyOf \in [Outs -> Keys]
    /\ MaxBatch \in Nat \ {0}
    /\ StartHeights \subseteq 0 .. MaxHeight
    /\ RescanHeights \subseteq 0 .. MaxHeight
    /\ Events \subseteq EventKinds

VARIABLES
    chain,          \* the daemon's best chain
    outputs, txs, hashes, spentKeys, syncHeight,    \* the storage
    status,         \* this.status, one of SYNC_STATUS
    pc,             \* the await the engine is parked at
    stopRequested,  \* this._stopRequested
    startHeight,    \* this.startHeight
    currentHeight,  \* this.currentHeight
    targetHeight,   \* this.targetHeight
    probe,          \* the height _findCommonAncestor is at, then commonHeight
    headers,        \* headers of the batch not processed yet
    block,          \* the block getBlock returned
    todo,           \* its transactions not processed yet
    cur,            \* the transaction being processed
    rescanCall      \* the await a rescan() call is parked at, and its height

callerVars == <<chain, rescanCall>>   \* what no step of the engine changes
storeVars == <<outputs, txs, hashes, spentKeys, syncHeight>>
heightVars == <<startHeight, currentHeight, targetHeight>>
scanVars == <<headers, block, todo, cur>>
engineVars == <<status, pc, stopRequested, heightVars, probe, scanVars>>
vars == <<callerVars, storeVars, engineVars>>

SYNC_STATUS == {"idle", "syncing", "complete", "error"}

Places == {"idle", "info", "tip", "ancestor", "rollbackOutputs",
           "rollbackTxs", "rollbackSpends", "rollbackHashes", "rollbackSync",
           "loop", "block", "embedded", "regular", "tx", "save", "recheck"}

\* A transaction in processing: the owned outputs and the inputs still to do,
\* the input found unspent and about to be marked, the ones found so far.
Transaction == [tx : Txs, outs : SUBSET Outs, ins : SUBSET Keys,
                found : Keys \union {None}, spent : SUBSET Keys]
NoTransaction == [tx |-> None, outs |-> {}, ins |-> {}, found |-> None, spent |-> {}]

RescanCall == [at : {"setSyncHeight", "start"}, from : 0 .. MaxHeight]
NoRescan == [at |-> "none", from |-> 0]

\* The types of the engine's state; a batch never passes the highest block.
TypeOK ==
    /\ chain \in Chains
    /\ outputs \in [Keys -> OutputRecord \union {None}]
    /\ txs \in [Txs -> TxRecord \union {None}]
    /\ hashes \in [Heights -> Hashes \union {None}]
    /\ spentKeys \subseteq Keys
    /\ syncHeight \in 0 .. MaxHeight
    /\ status \in SYNC_STATUS
    /\ pc \in Places
    /\ stopRequested \in BOOLEAN
    /\ startHeight \in 0 .. MaxHeight
    /\ currentHeight \in 0 .. MaxHeight
    /\ targetHeight \in 0 .. MaxHeight
    /\ probe \in Heights
    /\ headers \in Seq(Hashes)
    /\ currentHeight + Len(headers) <= MaxHeight
    /\ block \in Hashes \union {None}
    /\ todo \subseteq Txs
    /\ cur \in Transaction \union {NoTransaction}
    /\ rescanCall \in RescanCall \union {NoRescan}

Init ==
    /\ chain \in Chains
    /\ outputs = NoOutputs /\ txs = NoTransactions /\ hashes = NoHashes
    /\ spentKeys = {} /\ syncHeight = 0
    /\ status = "idle" /\ pc = "idle" /\ stopRequested = FALSE
    /\ startHeight = 0 /\ currentHeight = 0 /\ targetHeight = 0
    /\ probe = 0
    /\ headers = <<>> /\ block = None /\ todo = {} /\ cur = NoTransaction
    /\ rescanCall = NoRescan

Syncing == status = "syncing"
Goto(p) == pc' = p

-----------------------------------------------------------------------------
(***************************************************************************)
(* The daemon                                                              *)
(***************************************************************************)
Extends(c, d) == Len(d) > Len(c) /\ SubSeq(d, 1, Len(c)) = c

\* The daemon answers a question about height h of its best chain.
HasBlock(h) == h < Len(chain)
BlockAt(h) == chain[h + 1]

ChainMoves ==
    /\ \E c \in Chains \ {chain} :
        /\ chain' = c
        /\ \/ Extends(chain, c)
           \/ ~Syncing /\ "reorgIdle" \in Events
           \/ Syncing /\ "reorgBusy" \in Events
    /\ UNCHANGED <<rescanCall, storeVars, engineVars>>

-----------------------------------------------------------------------------
(***************************************************************************)
(* start(), stop(), rescan()                                               *)
(***************************************************************************)
\* Seeded fault: the last saved block is scanned again, for safety.
Begin_Overlap(from) ==
    /\ stopRequested' = FALSE
    /\ status' = "syncing"
    /\ startHeight' = from
    /\ currentHeight' = IF from = 0 THEN 0 ELSE from - 1
    /\ Goto("info")
    /\ UNCHANGED <<targetHeight, probe, scanVars>>

Begin(from) ==
    /\ stopRequested' = FALSE
    /\ status' = "syncing"
    /\ startHeight' = from
    /\ currentHeight' = from
    /\ Goto("info")
    /\ UNCHANGED <<targetHeight, probe, scanVars>>

\* start(): 'Already syncing' is thrown, and nothing changes, when status is
\* SYNCING.  h is the caller's height; None asks for the stored one.
Start(h) ==
    /\ ~Syncing
    /\ Begin(IF h = None THEN syncHeight ELSE h)
    /\ UNCHANGED <<callerVars, storeVars>>

Stop ==
    /\ "stop" \in Events
    /\ stopRequested' = TRUE
    /\ UNCHANGED <<callerVars, storeVars, status, pc, heightVars, probe, scanVars>>

\* rescan(): the storage is cleared before start() finds out whether a sync is
\* already running.
RescanClear(h) ==
    /\ rescanCall = NoRescan
    /\ (IF Syncing THEN "rescanBusy" ELSE "rescan") \in Events
    /\ outputs' = NoOutputs /\ txs' = NoTransactions /\ hashes' = NoHashes
    /\ spentKeys' = {} /\ syncHeight' = 0
    /\ rescanCall' = [at |-> "setSyncHeight", from |-> h]
    /\ UNCHANGED <<chain, engineVars>>

RescanSetHeight ==
    /\ rescanCall.at = "setSyncHeight"
    /\ syncHeight' = rescanCall.from
    /\ rescanCall' = [rescanCall EXCEPT !.at = "start"]
    /\ UNCHANGED <<chain, outputs, txs, hashes, spentKeys, engineVars>>

\* The start() inside rescan(), which throws when a sync is running.
RescanStart ==
    /\ rescanCall.at = "start"
    /\ rescanCall' = NoRescan
    /\ IF Syncing THEN UNCHANGED engineVars ELSE Begin(rescanCall.from)
    /\ UNCHANGED <<chain, storeVars>>

\* The variables local to _syncBatch and below are gone.
ScanAbandoned == headers' = <<>> /\ block' = None /\ todo' = {} /\ cur' = NoTransaction

\* The catch block of start().
Fail ==
    /\ status' = "error"
    /\ Goto("idle")
    /\ ScanAbandoned
    /\ UNCHANGED <<callerVars, storeVars, stopRequested, heightVars, probe>>

RpcMayFail == "rpcError" \in Events

GetInfo ==
    /\ pc = "info"
    /\ targetHeight' = Len(chain)
    /\ Goto("tip")
    /\ UNCHANGED <<callerVars, storeVars, status, stopRequested, startHeight,
                   currentHeight, probe, scanVars>>

GetInfoFails == pc = "info" /\ RpcMayFail /\ Fail

-----------------------------------------------------------------------------
(***************************************************************************)
(* Reorg detection and rollback                                            *)
(***************************************************************************)
TipHeight == startHeight - 1

\* The stored hash of height h is not the one the daemon answers with (no
\* answer counts as a difference when there is a stored hash).
Differs(h) == hashes[h] # None /\ (HasBlock(h) => hashes[h] # BlockAt(h))

TipIsStale == startHeight # 0 /\ HasBlock(TipHeight) /\ Differs(TipHeight)

\* _detectReorg finds nothing to do: a first sync, no stored hash, the hash the
\* daemon has, or no answer.
TipMatches ==
    /\ pc = "tip"
    /\ ~TipIsStale \/ RpcMayFail
    /\ Goto("loop")
    /\ UNCHANGED <<callerVars, storeVars, status, stopRequested, heightVars,
                   probe, scanVars>>

TipDiffers ==
    /\ pc = "tip"
    /\ TipIsStale
    /\ probe' = TipHeight
    /\ Goto("ancestor")
    /\ UNCHANGED <<callerVars, storeVars, status, stopRequested, heightVars,
                   scanVars>>

\* One iteration of _findCommonAncestor returns: there is no stored hash at
\* this height, or it is the daemon's.
AncestorFound ==
    /\ pc = "ancestor"
    /\ ~Differs(probe)
    /\ Goto("rollbackOutputs")
    /\ UNCHANGED <<callerVars, storeVars, status, stopRequested, heightVars,
                   probe, scanVars>>

\* ... or goes one block down; below height 0 the loop ends and the answer is 0.
AncestorLower ==
    /\ pc = "ancestor"
    /\ hashes[probe] # None
    /\ Differs(probe) \/ RpcMayFail
    /\ IF probe = 0 THEN probe' = 0 /\ Goto("rollbackOutputs")
                    ELSE probe' = probe - 1 /\ UNCHANGED pc
    /\ UNCHANGED <<callerVars, storeVars, status, stopRequested, heightVars,
                   scanVars>>

\* Seeded fault: the set of spent key images is left alone.
RollbackOutputs_KeepsSpentKeys ==
    /\ pc = "rollbackOutputs"
    /\ outputs' = DeleteOutputsAbove(outputs, probe)
    /\ Goto("rollbackTxs")
    /\ UNCHANGED <<callerVars, txs, hashes, spentKeys, syncHeight, status,
                   stopRequested, heightVars, probe, scanVars>>

RollbackOutputs ==
    /\ pc = "rollbackOutputs"
    /\ outputs' = DeleteOutputsAbove(outputs, probe)
    /\ spentKeys' = spentKeys \ OutputsAbove(outputs, probe)
    /\ Goto("rollbackTxs")
    /\ UNCHANGED <<callerVars, txs, hashes, syncHeight, status, stopRequested,
                   heightVars, probe, scanVars>>

RollbackTransactions ==
    /\ pc = "rollbackTxs"
    /\ txs' = DeleteTransactionsAbove(txs, probe)
    /\ Goto("rollbackSpends")
    /\ UNCHANGED <<callerVars, outputs, hashes, spentKeys, syncHeight, status,
                   stopRequested, heightVars, probe, scanVars>>

RollbackSpends ==
    /\ pc = "rollbackSpends"
    /\ outputs' = UnspendOutputsAbove(outputs, probe)
    /\ spentKeys' = UnspendKeysAbove(spentKeys, outputs, probe)
    /\ Goto("rollbackHashes")
    /\ UNCHANGED <<callerVars, txs, hashes, syncHeight, status, stopRequested,
                   heightVars, probe, scanVars>>

\* Seeded fault: the scan restarts at the common block.
RollbackHashes_FromAncestor ==
    /\ pc = "rollbackHashes"
    /\ hashes' = DeleteBlockHashesAbove(hashes, probe)
    /\ startHeight' = probe
    /\ currentHeight' = probe
    /\ Goto("rollbackSync")
    /\ UNCHANGED <<callerVars, outputs, txs, spentKeys, syncHeight, status,
                   stopRequested, targetHeight, probe, scanVars>>

\* deleteBlockHashesAbove, then startHeight and currentHeight are reset in the
\* same turn, before the await of setSyncHeight.
RollbackHashes ==
    /\ pc = "rollbackHashes"
    /\ hashes' = DeleteBlockHashesAbove(hashes, probe)
    /\ startHeight' = probe + 1
    /\ currentHeight' = probe + 1
    /\ Goto("rollbackSync")
    /\ UNCHANGED <<callerVars, outputs, txs, spentKeys, syncHeight, status,
                   stopRequested, targetHeight, probe, scanVars>>

RollbackSyncHeight ==
    /\ pc = "rollbackSync"
    /\ syncHeight' = startHeight
    /\ Goto("loop")
    /\ UNCHANGED <<callerVars, outputs, txs, hashes, spentKeys, status,
                   stopRequested, heightVars, probe, scanVars>>

\* _detectReorg catches whatever the rollback throws and lets the sync go on.
RollbackFails ==
    /\ "storeError" \in Events
    /\ pc \in {"ancestor", "rollbackOutputs", "rollbackTxs", "rollbackSpends",
              "rollbackHashes", "rollbackSync"}
    /\ Goto("loop")
    /\ UNCHANGED <<callerVars, storeVars, status, stopRequested, heightVars,
                   probe, scanVars>>

-----------------------------------------------------------------------------
(***************************************************************************)
(* The sync loop and _syncBatch                                            *)
(***************************************************************************)
SyncEnds ==
    /\ pc = "loop"
    /\ currentHeight >= targetHeight \/ stopRequested
    /\ status' = IF stopRequested THEN "idle" ELSE "complete"
    /\ Goto("idle")
    /\ UNCHANGED <<callerVars, storeVars, stopRequested, heightVars, probe, scanVars>>

BatchEnd(n) ==
    IF currentHeight + n < targetHeight THEN currentHeight + n ELSE targetHeight

\* getBlockHeadersRange(currentHeight, endHeight - 1).  The batch size is
\* adapted to the time the last batch took: any size up to MaxBatch.
GetHeaders(n) ==
    /\ pc = "loop"
    /\ currentHeight < targetHeight
    /\ ~stopRequested
    /\ BatchEnd(n) <= Len(chain)
    /\ headers' = SubSeq(chain, currentHeight + 1, BatchEnd(n))
    /\ Goto("block")
    /\ UNCHANGED <<callerVars, storeVars, status, stopRequested, heightVars,
                   probe, block, todo, cur>>

\* The daemon refuses a range that passes its tip.
GetHeadersFails(n) ==
    /\ pc = "loop"
    /\ currentHeight < targetHeight
    /\ ~stopRequested
    /\ BatchEnd(n) > Len(chain) \/ RpcMayFail
    /\ Fail

BatchDone ==
    /\ pc = "block"
    /\ headers = <<>> \/ stopRequested
    /\ headers' = <<>>
    /\ Goto("save")
    /\ UNCHANGED <<callerVars, storeVars, status, stopRequested, heightVars,
                   probe, block, todo, cur>>

MoreHeaders == pc = "block" /\ headers # <<>> /\ ~stopRequested

\* getBlock asks by height, so the block can be another one than the header's.
\* Its JSON is there and can be read.
GetBlock ==
    /\ MoreHeaders
    /\ HasBlock(currentHeight)
    /\ block' = BlockAt(currentHeight)
    /\ todo' = TxsIn[block'] \ Regular
    /\ Goto("embedded")
    /\ UNCHANGED <<callerVars, storeVars, status, stopRequested, heightVars,
                   probe, headers, cur>>

GetBlockFails ==
    /\ MoreHeaders
    /\ ~HasBlock(currentHeight) \/ RpcMayFail
    /\ Fail

\* Seeded fault: the height is advanced twice.
PutHash_SkipsHeight ==
    /\ pc = "regular" /\ todo = {}
    /\ hashes' = PutBlockHash(hashes, currentHeight, Head(headers))
    /\ currentHeight' = currentHeight + 2
    /\ headers' = Tail(headers)
    /\ block' = None
    /\ Goto("block")
    /\ UNCHANGED <<callerVars, outputs, txs, spentKeys, syncHeight, status,
                   stopRequested, startHeight, targetHeight, probe, todo>>
    /\ UNCHANGED cur

\* The block is done: its header's hash is stored under the height.
PutHash ==
    /\ pc = "regular" /\ todo = {}
    /\ hashes' = PutBlockHash(hashes, currentHeight, Head(headers))
    /\ currentHeight' = currentHeight + 1
    /\ headers' = Tail(headers)
    /\ block' = None
    /\ Goto("block")
    /\ UNCHANGED <<callerVars, outputs, txs, spentKeys, syncHeight, status,
                   stopRequested, startHeight, targetHeight, probe, todo, cur>>

SaveSyncHeight ==
    /\ pc = "save"
    /\ syncHeight' = currentHeight
    /\ Goto(IF currentHeight >= targetHeight THEN "recheck" ELSE "loop")
    /\ UNCHANGED <<callerVars, outputs, txs, hashes, spentKeys, status,
                   stopRequested, heightVars, probe, scanVars>>

\* getBlockHash, getTransaction, putBlockHash and setSyncHeight are called
\* outside every inner try block.
StoreFails ==
    /\ "storeError" \in Events
    /\ pc \in {"tip", "embedded", "regular", "save"}
    /\ Fail

\* getInfo once the target is reached; a failure leaves the target alone.
Recheck ==
    /\ pc = "recheck"
    /\ \/ targetHeight' = Len(chain)
       \/ RpcMayFail /\ targetHeight' = targetHeight
    /\ Goto("loop")
    /\ UNCHANGED <<callerVars, storeVars, status, stopRequested, startHeight,
                   currentHeight, probe, scanVars>>

-----------------------------------------------------------------------------
(***************************************************************************)
(* _processBlock and the processing of one transaction                     *)
(***************************************************************************)
\* The transactions of the block JSON are done; getTransactions is asked for
\* the others, and answers with all of them or none.  When it fails they are
\* skipped and the block counts as done.
GetTransactions ==
    /\ pc = "embedded" /\ todo = {}
    /\ \/ todo' = TxsIn[block] \cap Regular
       \/ "txsError" \in Events /\ todo' = {}
    /\ Goto("regular")
    /\ UNCHANGED <<callerVars, storeVars, status, stopRequested, heightVars,
                   probe, headers, block, cur>>

\* getTransaction: a transaction already stored is not processed again.
SkipTransaction(t) ==
    /\ pc \in {"embedded", "regular"} /\ t \in todo
    /\ txs[t] # None
    /\ todo' = todo \ {t}
    /\ UNCHANGED <<callerVars, storeVars, status, pc, stopRequested,
                   heightVars, probe, headers, block, cur>>

\* Embedded transactions and the JSON fallback are not searched for spends.
InputsChecked(t) == IF t \in Regular \ JsonOnly THEN Spends[t] ELSE {}

TakeTransaction(t) ==
    /\ pc \in {"embedded", "regular"} /\ t \in todo
    /\ txs[t] = None
    /\ todo' = todo \ {t}
    /\ cur' = [tx |-> t, outs |-> Creates[t], ins |-> InputsChecked(t),
                found |-> None, spent |-> {}]
    /\ Goto("tx")
    /\ UNCHANGED <<callerVars, storeVars, status, stopRequested, heightVars,
                   probe, headers, block>>

NextTransaction ==
    /\ cur' = NoTransaction
    /\ Goto(IF cur.tx \in Regular THEN "regular" ELSE "embedded")

\* Seeded fault: the output is stored under the height the sync began at.
PutOwnedOutput_StartHeight(o) ==
    /\ pc = "tx" /\ o \in cur.outs
    /\ outputs' = PutOutput(outputs, KeyOf[o], NewOutput(o, startHeight))
    /\ spentKeys' = PutKeyState(spentKeys, KeyOf[o], FALSE)
    /\ cur' = [cur EXCEPT !.outs = @ \ {o}]
    /\ UNCHANGED <<callerVars, txs, hashes, syncHeight, status, pc,
                   stopRequested, heightVars, probe, headers, block, todo>>

\* One turn of _scanOutputs: an owned output is stored as a new, unspent one.
PutOwnedOutput(o) ==
    /\ pc = "tx" /\ o \in cur.outs
    /\ outputs' = PutOutput(outputs, KeyOf[o], NewOutput(o, currentHeight))
    /\ spentKeys' = PutKeyState(spentKeys, KeyOf[o], FALSE)
    /\ cur' = [cur EXCEPT !.outs = @ \ {o}]
    /\ UNCHANGED <<callerVars, txs, hashes, syncHeight, status, pc,
                   stopRequested, heightVars, probe, headers, block, todo>>

\* One turn of _checkSpentOutputs: getOutput, then, if the output is known and
\* unspent, markOutputSpent.
CheckInput(k) ==
    /\ pc = "tx" /\ cur.outs = {} /\ cur.found = None /\ k \in cur.ins
    /\ cur' = [cur EXCEPT !.ins = @ \ {k},
                          !.found = IF outputs[k] # None /\ ~outputs[k].isSpent
                                    THEN k ELSE None]
    /\ UNCHANGED <<callerVars, storeVars, status, pc, stopRequested,
                   heightVars, probe, headers, block, todo>>

MarkInput ==
    /\ pc = "tx" /\ cur.found # None
    /\ outputs' = MarkOutputSpent(outputs, cur.found, cur.tx, currentHeight)
    /\ spentKeys' = MarkKeySpent(spentKeys, outputs, cur.found)
    /\ cur' = [cur EXCEPT !.found = None, !.spent = @ \union {cur.found}]
    /\ UNCHANGED <<callerVars, txs, hashes, syncHeight, status, pc,
                   stopRequested, heightVars, probe, headers, block, todo>>

\* Seeded fault: the history entry is written before the outputs.
RecordTransaction_BeforeOutputs ==
    /\ pc = "tx" /\ cur.ins = {} /\ cur.found = None
    /\ txs' = PutTransaction(txs, cur.tx,
                 [blockHeight |-> currentHeight,
                  received |-> Creates[cur.tx], spent |-> cur.spent])
    /\ IF cur.outs = {} THEN NextTransaction ELSE UNCHANGED <<cur, pc>>
    /\ UNCHANGED <<callerVars, outputs, hashes, spentKeys, syncHeight, status,
                   stopRequested, heightVars, probe, headers, block, todo>>

\* A transaction that neither pays nor spends as far as the scan saw is not
\* recorded.
RecordTransaction ==
    /\ pc = "tx" /\ cur.outs = {} /\ cur.ins = {} /\ cur.found = None
    /\ txs' = IF Creates[cur.tx] = {} /\ cur.spent = {} THEN txs
              ELSE PutTransaction(txs, cur.tx,
                     [blockHeight |-> currentHeight,
                      received |-> Creates[cur.tx], spent |-> cur.spent])
    /\ NextTransaction
    /\ UNCHANGED <<callerVars, outputs, hashes, spentKeys, syncHeight, status,
                   stopRequested, heightVars, probe, headers, block, todo>>

\* The catch block around the processing of a transaction: what is stored
\* stays, and the block goes on with the next transaction.
TransactionFails ==
    /\ "txError" \in Events
    /\ pc = "tx"
    /\ NextTransaction
    /\ UNCHANGED <<callerVars, storeVars, status, stopRequested, heightVars,
                   probe, headers, block, todo>>

-----------------------------------------------------------------------------
\* The process dies and a new engine is built over the surviving storage.
Crash ==
    /\ "crash" \in Events
    /\ status' = "idle" /\ pc' = "idle" /\ stopRequested' = FALSE
    /\ startHeight' = 0 /\ currentHeight' = 0 /\ targetHeight' = 0
    /\ probe' = 0
    /\ ScanAbandoned
    /\ rescanCall' = NoRescan
    /\ UNCHANGED <<chain, storeVars>>

EngineStep ==
    \/ GetInfo \/ GetInfoFails
    \/ TipMatches \/ TipDiffers \/ AncestorFound \/ AncestorLower
    \/ RollbackOutputs \/ RollbackTransactions \/ RollbackSpends
    \/ RollbackHashes \/ RollbackSyncHeight \/ RollbackFails \/ StoreFails
    \/ SyncEnds
    \/ \E n \in 1 .. MaxBatch : GetHeaders(n) \/ GetHeadersFails(n)
    \/ BatchDone \/ GetBlock \/ GetBlockFails \/ PutHash \/ SaveSyncHeight
    \/ Recheck
    \/ GetTransactions
    \/ \E t \in Txs : SkipTransaction(t) \/ TakeTransaction(t)
    \/ \E o \in Outs : PutOwnedOutput(o)
    \/ \E k \in Keys : CheckInput(k)
    \/ MarkInput
    \/ RecordTransaction \/ TransactionFails

CallerStep ==
    \/ \E h \in StartHeights \union {None} : Start(h)
    \/ \E h \in RescanHeights : RescanClear(h)
    \/ RescanSetHeight \/ RescanStart
    \/ Stop

Next == EngineStep \/ CallerStep \/ ChainMoves \/ Crash

Spec == Init /\ [][Next]_vars

-----------------------------------------------------------------------------
(***************************************************************************)
(* What the wallet promises: the ledger of a chain prefix                   *)
(***************************************************************************)
Prefix(n) == {BlockAt(h) : h \in 0 .. n - 1}
TxsBelow(n) == UNION {TxsIn[b] : b \in Prefix(n)}
HeightOf(t) == CHOOSE h \in 0 .. Len(chain) - 1 : t \in TxsIn[BlockAt(h)]

\* The wallet's outputs the first n blocks of the best chain pay, and their
\* transactions that spend key image k.
PaidBelow(n) ==
    UNION {{<<o, HeightOf(t)>> : o \in Creates[t]} : t \in TxsBelow(n)}
SpendersOf(k, n) == {t \in TxsBelow(n) : k \in Spends[t]}

\* The storage agrees with the best chain on the block below syncHeight: the
\* one check _detectReorg makes before it trusts everything below.
AgreesOnTip ==
    /\ ~Syncing
    /\ syncHeight \in 1 .. Len(chain)
    /\ hashes[syncHeight - 1] = BlockAt(syncHeight - 1)

\* When the tip agrees, the outputs stored below syncHeight are the ones the
\* chain pays there, each at the height of its block.  (Above it there can be
\* outputs of a batch that was interrupted.)
OutputsExact ==
    AgreesOnTip =>
        {<<outputs[k].out, outputs[k].blockHeight>> :
            k \in {k \in Keys : outputs[k] # None /\ outputs[k].blockHeight < syncHeight}}
        = PaidBelow(syncHeight)

\* When the tip agrees, a stored output is marked spent below syncHeight iff a
\* transaction of the chain spends its key image there, and by that one.
SpendsExact ==
    AgreesOnTip =>
        \A k \in Keys : outputs[k] # None =>
            LET spent == outputs[k].isSpent /\ outputs[k].spentHeight < syncHeight IN
            IF SpendersOf(k, syncHeight) = {} THEN ~spent
            ELSE /\ spent
                 /\ outputs[k].spentTx \in SpendersOf(k, syncHeight)
                 /\ outputs[k].spentHeight = HeightOf(outputs[k].spentTx)

\* When the tip agrees, the history below syncHeight is the transactions of the
\* chain there, each with all it pays to and spends of the wallet.
HistoryExact ==
    AgreesOnTip =>
        \A t \in Txs :
            LET stored == txs[t] # None /\ txs[t].blockHeight < syncHeight IN
            IF t \notin TxsBelow(syncHeight) THEN ~stored
            ELSE stored /\ txs[t] = [blockHeight |-> HeightOf(t),
                                     received |-> Creates[t], spent |-> Spends[t]]

\* The wallet says what the chain says: outputs, spends and history.
TablesExact == OutputsExact /\ SpendsExact /\ HistoryExact

\* When the tip agrees, every stored hash below is the chain's: the walk back
\* of _findCommonAncestor stops at a real common ancestor.
HashesExact ==
    AgreesOnTip => \A h \in 0 .. syncHeight - 1 : hashes[h] = BlockAt(h)

\* Every block below syncHeight has its hash stored, so that the next start
\* can tell whether it is still on the best chain.
HashesCoverSync ==
    pc # "rollbackSync" =>
        \A h \in Heights : h < syncHeight => hashes[h] # None

\* Nothing in the storage is invented: every stored output, spend and history
\* entry comes from a transaction of a block that some best chain has at the
\* recorded height, whatever failed, crashed or reorganised on the way.
MinedAt(t, h) == \E c \in Chains : h < Len(c) /\ t \in TxsIn[c[h + 1]]

OutputsFromChain ==
    \A k \in Keys : outputs[k] # None =>
        /\ KeyOf[outputs[k].out] = k
        /\ \E t \in Txs : outputs[k].out \in Creates[t]
                         /\ MinedAt(t, outputs[k].blockHeight)

SpendsFromChain ==
    \A k \in Keys : outputs[k] # None /\ outputs[k].isSpent =>
        /\ outputs[k].spentTx # None
        /\ k \in Spends[outputs[k].spentTx]
        /\ outputs[k].spentHeight # None
        /\ MinedAt(outputs[k].spentTx, outputs[k].spentHeight)

HistoryFromChain ==
    \A t \in Txs : txs[t] # None =>
        /\ txs[t].received = Creates[t]
        /\ txs[t].spent \subseteq Spends[t]
        /\ MinedAt(t, txs[t].blockHeight)

Provenance == OutputsFromChain /\ SpendsFromChain /\ HistoryFromChain

\* isSpent and the set of spent key images tell the same.
SpentKeysAgree ==
    spentKeys = {k \in Keys : outputs[k] # None /\ outputs[k].isSpent}

\* The saved height goes back only when a rollback saves the height after the
\* common ancestor: no batch saves a height that is out of date.
NoSilentRewind == [][syncHeight' < syncHeight => pc = "rollbackSync"]_vars

\* When the best chain stops moving, the wallet reaches its tip, again and
\* again, unless it is left above the tip of a shorter chain, where
\* _detectReorg gets no answer.
CatchesUp ==
    \A c \in Chains :
        <>[](chain = c) =>
            \/ []<>(AgreesOnTip /\ syncHeight = Len(c))
            \/ <>[](syncHeight > Len(c))

\* The synchronised blocks follow the best chain (see ChainFollower).
SyncedLength == IF pc = "rollbackSync" THEN startHeight ELSE syncHeight
Followed == [i \in 1 .. SyncedLength |-> hashes[i - 1]]
Follower == INSTANCE ChainFollower WITH followed <- Followed
FollowsChain == Follower!Spec
=============================================================================
