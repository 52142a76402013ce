-------------------------- MODULE PersistentWallet --------------------------
(***************************************************************************)
(* The persistent wallet (src/persistent-wallet.js, class PersistentWallet) *)
(* over the engine of WalletSync: background synchronisation by an interval *)
(* timer, the balance cache, and the calls that read a record, wait, and    *)
(* write it back (freezeOutput, thawOutput, setTransactionNote).            *)
(*                                                                         *)
(* getOutput and getTransaction return copies in both storage classes, so a *)
(* call holds what it read across its await.  One call of each kind may be  *)
(* pending at a time.  createTransaction() and transfer() throw before they  *)
(* select an output, because they call estimateTransactionFee with an object *)
(* where it takes numbers, and sendTransaction() leaves the storage alone: they *)
(* have no action here.  close() and a second open() are not modelled.      *)
(***************************************************************************)
EXTENDS WalletSync

CONSTANTS
    Calls,          \* the calls the wallet's user makes, see CallKinds
    Overlap,        \* whether a call may overlap a sync or another call
    SpendableAge,   \* blocks until an output can be spent (10 in the code)
    MaxTimers       \* bounds the intervals running at once

CallKinds == {"startSyncing", "stopSyncing", "sync", "getBalance",
              "freezeOutput", "thawOutput", "setTransactionNote"}

ASSUME CallsAssumption ==
    /\ Calls \subseteq CallKinds
    /\ Overlap \in BOOLEAN
    /\ SpendableAge \in Nat
    /\ MaxTimers \in Nat

\* A key image is no transaction hash: they name records of different tables.
ASSUME RecordsAssumption == Keys \cap Txs = {}

VARIABLES
    walletHeight,   \* this._currentHeight
    balanceCache,   \* this._balanceCache: the outputs summed up in it
    balanceDirty,   \* this._balanceDirty
    timers,         \* intervals that are running
    interval,       \* this._syncInterval is set
    initialSync,    \* startSyncing() is waiting for its first sync
    stopped,        \* stopSyncing() was the last of the two to be called
    balanceCall,    \* the outputs a getBalance() has read, or None
    updateCall      \* the copy an update holds, or None

cacheVars == <<walletHeight, balanceCache, balanceDirty>>
timerVars == <<timers, interval, initialSync, stopped>>
callVars == <<balanceCall, updateCall>>
walletVars == <<cacheVars, timerVars, callVars>>
allVars == <<vars, walletVars>>

NoCalls ==
    /\ balanceCall = None /\ updateCall = None
    /\ rescanCall = NoRescan

\* A call may begin; a sync may begin: without Overlap each waits for the
\* others to return.
CallsOpen == Overlap \/ (~Syncing /\ NoCalls)
SyncOpen == Overlap \/ NoCalls

\* isSpendable at a height, for an output without an unlock time.
IsSpendable(rec, height) ==
    ~rec.isSpent /\ ~rec.isFrozen /\ height >= rec.blockHeight + SpendableAge

\* The key images counted in a balance: all unspent ones, and the spendable.
BalanceOf(table, height) ==
    LET unspent == {k \in Keys : table[k] # None /\ ~table[k].isSpent} IN
    [balance  |-> unspent,
     unlocked |-> {k \in unspent : IsSpendable(table[k], height)}]

WalletInit ==
    /\ Init
    /\ walletHeight \in {0, Len(chain)}      \* what open() got from the daemon
    /\ balanceCache = [balance |-> {}, unlocked |-> {}]
    /\ balanceDirty = TRUE
    /\ timers = 0 /\ interval = FALSE /\ initialSync = FALSE /\ stopped = TRUE
    /\ balanceCall = None /\ updateCall = None

-----------------------------------------------------------------------------
(***************************************************************************)
(* Background synchronisation                                              *)
(***************************************************************************)
\* Seeded fault: only the events of transactions invalidate the cache.
BalanceDirties_TransactionsOnly == pc = "tx" /\ txs' # txs

\* The steps of the engine that invalidate the balance cache: the handlers of
\* outputReceived and outputSpent, the one of syncComplete, and the end of
\* sync() when it did not throw.
BalanceDirties ==
    \/ pc = "tx" /\ txs' # txs
    \/ pc = "loop" /\ status' \in {"idle", "complete"}

\* A sync that startSyncing() waits for is followed by a new interval, unless
\* it throws.
InitialSyncReturns ==
    IF initialSync /\ ~Syncing'
    THEN /\ initialSync' = FALSE
         /\ IF status' = "error" THEN UNCHANGED <<timers, interval>>
            ELSE timers' = timers + 1 /\ interval' = TRUE
         /\ UNCHANGED stopped
    ELSE UNCHANGED timerVars

\* A step of the engine, with the event handlers open() installed.
WalletEngineStep ==
    /\ EngineStep
    /\ walletHeight' = IF pc = "regular" /\ pc' = "block" THEN currentHeight'
                       ELSE walletHeight
    /\ balanceDirty' = (balanceDirty \/ BalanceDirties)
    /\ InitialSyncReturns
    /\ UNCHANGED <<balanceCache, callVars>>

\* sync(), when no sync is running; otherwise it throws and changes nothing.
Sync ==
    /\ "sync" \in Calls /\ SyncOpen
    /\ Start(None)
    /\ UNCHANGED walletVars

StartSyncing ==
    /\ "startSyncing" \in Calls /\ SyncOpen
    /\ timers < MaxTimers
    /\ Start(None)
    /\ initialSync' = TRUE /\ stopped' = FALSE
    /\ UNCHANGED <<timers, interval, cacheVars, callVars>>

\* Seeded fault: the interval goes on only after a sync that succeeded.
TimerFires_AfterSuccess ==
    /\ timers > 0 /\ SyncOpen /\ status = "complete"
    /\ Start(None)
    /\ UNCHANGED walletVars

TimerFires ==
    /\ timers > 0 /\ SyncOpen
    /\ Start(None)
    /\ UNCHANGED walletVars

\* Seeded fault: the wallet does not look whether it has an interval.
StopSyncing_Unguarded ==
    /\ "stopSyncing" \in Calls
    /\ timers' = timers - 1
    /\ interval' = FALSE
    /\ stopped' = TRUE
    /\ stopRequested' = TRUE
    /\ UNCHANGED <<callerVars, storeVars, status, pc, heightVars, probe, scanVars>>
    /\ UNCHANGED <<initialSync, cacheVars, callVars>>

\* stopSyncing(): the interval known to the wallet is cleared, and the engine
\* asked to stop.
StopSyncing ==
    /\ "stopSyncing" \in Calls
    /\ timers' = IF interval THEN timers - 1 ELSE timers
    /\ interval' = FALSE
    /\ stopped' = TRUE
    /\ stopRequested' = TRUE
    /\ UNCHANGED <<callerVars, storeVars, status, pc, heightVars, probe, scanVars>>
    /\ UNCHANGED <<initialSync, cacheVars, callVars>>

-----------------------------------------------------------------------------
(***************************************************************************)
(* The balance cache                                                       *)
(***************************************************************************)
\* _updateBalanceIfNeeded before and after its await of getOutputs.
BalanceRead ==
    /\ "getBalance" \in Calls /\ CallsOpen
    /\ balanceDirty /\ balanceCall = None
    /\ balanceCall' = outputs
    /\ UNCHANGED <<vars, cacheVars, timerVars, updateCall>>

BalanceWrite ==
    /\ balanceCall # None
    /\ balanceCache' = BalanceOf(balanceCall, walletHeight)
    /\ balanceDirty' = FALSE
    /\ balanceCall' = None
    /\ UNCHANGED <<vars, walletHeight, timerVars, updateCall>>

-----------------------------------------------------------------------------
(***************************************************************************)
(* freezeOutput, thawOutput and setTransactionNote                          *)
(***************************************************************************)
\* The read of the record; nothing follows when it is absent.
FreezeRead(k, frozen) ==
    /\ (IF frozen THEN "freezeOutput" ELSE "thawOutput") \in Calls /\ CallsOpen
    /\ updateCall = None /\ outputs[k] # None
    /\ updateCall' = [key |-> k, copy |-> [outputs[k] EXCEPT !.isFrozen = frozen]]
    /\ UNCHANGED <<vars, cacheVars, timerVars, balanceCall>>

\* Seeded fault: the record is rebuilt from the output alone.
UpdateWrite_Rebuilt ==
    /\ updateCall # None
    /\ IF updateCall.key \in Keys
       THEN /\ outputs' = PutOutput(outputs, updateCall.key,
                   NewOutput(updateCall.copy.out, updateCall.copy.blockHeight))
            /\ UNCHANGED <<txs, spentKeys>>
            /\ balanceDirty' = TRUE
       ELSE UNCHANGED <<outputs, txs, spentKeys, balanceDirty>>
    /\ updateCall' = None
    /\ UNCHANGED <<callerVars, hashes, syncHeight, engineVars, walletHeight,
                   balanceCache, timerVars, balanceCall>>

NoteRead(t) ==
    /\ "setTransactionNote" \in Calls /\ CallsOpen
    /\ updateCall = None /\ txs[t] # None
    /\ updateCall' = [key |-> t, copy |-> txs[t]]
    /\ UNCHANGED <<vars, cacheVars, timerVars, balanceCall>>

\* The copy is stored, whatever became of the record meanwhile.
UpdateWrite ==
    /\ updateCall # None
    /\ IF updateCall.key \in Keys
       THEN /\ outputs' = PutOutput(outputs, updateCall.key, updateCall.copy)
            /\ spentKeys' = PutKeyState(spentKeys, updateCall.key,
                                        updateCall.copy.isSpent)
            /\ balanceDirty' = TRUE
            /\ UNCHANGED txs
       ELSE /\ txs' = PutTransaction(txs, updateCall.key, updateCall.copy)
            /\ UNCHANGED <<outputs, spentKeys, balanceDirty>>
    /\ updateCall' = None
    /\ UNCHANGED <<callerVars, hashes, syncHeight, engineVars, walletHeight,
                   balanceCache, timerVars, balanceCall>>

-----------------------------------------------------------------------------
Rescan ==
    /\ \/ SyncOpen /\ \E h \in RescanHeights : RescanClear(h)
       \/ RescanSetHeight
       \/ RescanStart
    /\ UNCHANGED walletVars

DaemonMoves == ChainMoves /\ UNCHANGED walletVars

WalletNext ==
    \/ WalletEngineStep
    \/ Sync \/ StartSyncing \/ TimerFires \/ StopSyncing \/ Rescan
    \/ BalanceRead \/ BalanceWrite
    \/ \E k \in Keys, frozen \in BOOLEAN : FreezeRead(k, frozen)
    \/ \E t \in Txs : NoteRead(t)
    \/ UpdateWrite
    \/ DaemonMoves

WalletSpec == WalletInit /\ [][WalletNext]_allVars

\* The event loop runs every continuation (an RPC call that gets no answer ends
\* by its timeout), and an interval that is running goes off again and again.
WalletFairSpec ==
    /\ WalletSpec
    /\ WF_allVars(WalletEngineStep)
    /\ WF_allVars(TimerFires)
    /\ WF_allVars(BalanceWrite) /\ WF_allVars(UpdateWrite)

-----------------------------------------------------------------------------
\* The types of the wallet's own variables.
WalletTypeOK ==
    /\ walletHeight \in 0 .. MaxHeight
    /\ balanceCache \in [balance : SUBSET Keys, unlocked : SUBSET Keys]
    /\ balanceDirty \in BOOLEAN
    /\ timers \in 0 .. MaxTimers
    /\ interval \in BOOLEAN /\ initialSync \in BOOLEAN /\ stopped \in BOOLEAN
    /\ balanceCall \in [Keys -> OutputRecord \union {None}] \union {None}
    /\ updateCall \in [key : Keys, copy : OutputRecord]
                        \union [key : Txs, copy : TxRecord] \union {None}

\* At rest, a balance cache that is not marked dirty is the balance of the
\* stored outputs: getBalance() answers from it without looking.
BalanceFresh ==
    ~Syncing /\ NoCalls /\ ~balanceDirty =>
        balanceCache = BalanceOf(outputs, walletHeight)

\* After stopSyncing(), and until the next startSyncing(), no interval runs.
StoppedMeansNoTimer == stopped => timers = 0

\* While an interval runs and is not stopped, and the chain rests, the wallet
\* reaches the tip of the chain again and again (or is above the tip of a
\* shorter one).
BackgroundCatchesUp == <>[](timers > 0 /\ ~stopped) => CatchesUp
=============================================================================
