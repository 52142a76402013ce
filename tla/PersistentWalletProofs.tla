----------------------- MODULE PersistentWalletProofs -----------------------
(***************************************************************************)
(* The persistent wallet over the engine: its types, what its calls leave of *)
(* what is proved of WalletSync, and its balance cache.                     *)
(*                                                                         *)
(* A wallet whose user makes no call that writes a record back is, as far   *)
(* as the storage and the engine can tell, the engine of WalletSync called  *)
(* from outside: what is proved of WalletSync holds in it.  When calls that  *)
(* write back wait for each other and for the syncs, a record they hold is   *)
(* still the stored one when they write it.                                 *)
(***************************************************************************)
EXTENDS PersistentWallet, WalletLedgerProofs

-----------------------------------------------------------------------------
(***************************************************************************)
(* Types                                                                   *)
(***************************************************************************)
\* What makes WalletTypeOK inductive: a known interval runs, and a sync that
\* startSyncing() waits for has room for one more.
WalletTypeInv ==
    /\ TypeInv /\ WalletTypeOK
    /\ interval => timers > 0
    /\ initialSync => timers < MaxTimers

\* The steps of the wallet that are steps of the engine, of a caller of it, or
\* of the daemon.
EngineCall == WalletEngineStep \/ Sync \/ StartSyncing \/ TimerFires \/ Rescan \/ DaemonMoves

\* They are steps of WalletSync.
LEMMA EngineCallIsStep == EngineCall => Next
BY DEF EngineCall, WalletEngineStep, Sync, StartSyncing, TimerFires, Rescan,
     DaemonMoves, Next, CallerStep

\* A wallet that is opened has well-typed, empty state.
LEMMA InitWalletTypeInv == WalletInit => WalletTypeInv
<1> SUFFICES ASSUME WalletInit PROVE WalletTypeInv
  OBVIOUS
<1>1. TypeInv
  BY InitTypeInv DEF WalletInit
<1>2. Len(chain) \in 0 .. MaxHeight /\ 0 \in 0 .. MaxHeight
  BY <1>1, ChainFacts, StoreAssumption DEF TypeInv, TypeOK
<1>3. balanceCache \in [balance : SUBSET Keys, unlocked : SUBSET Keys]
  BY DEF WalletInit
<1>4. /\ timers = 0 /\ 0 \in 0 .. MaxTimers /\ interval = FALSE /\ initialSync = FALSE
      /\ walletHeight \in 0 .. MaxHeight
  BY <1>2, CallsAssumption DEF WalletInit
<1>5. /\ balanceDirty \in BOOLEAN /\ stopped \in BOOLEAN
      /\ balanceCall = None /\ updateCall = None
  BY DEF WalletInit
<1>6. WalletTypeOK
  BY <1>3, <1>4, <1>5 DEF WalletTypeOK
<1> QED
  BY <1>1, <1>4, <1>6 DEF WalletTypeInv

\* The steps of the engine and its callers keep the types.
LEMMA EngineCallTypes ==
    ASSUME WalletTypeInv, EngineCall
    PROVE  WalletTypeInv'
<1>1. TypeInv'
  BY EngineCallIsStep, NextTypeInv DEF WalletTypeInv
<1>2. CASE WalletEngineStep
  <2>1. walletHeight' \in 0 .. MaxHeight
    BY <1>1, <1>2 DEF WalletEngineStep, TypeInv, TypeOK, WalletTypeInv, WalletTypeOK
  <2>2. balanceDirty' \in BOOLEAN
    BY <1>2 DEF WalletEngineStep
  <2>3. /\ timers' \in 0 .. MaxTimers /\ interval' \in BOOLEAN
        /\ initialSync' \in BOOLEAN /\ stopped' \in BOOLEAN
        /\ interval' => timers' > 0
        /\ initialSync' => timers' < MaxTimers
    <3>1. CASE initialSync /\ ~Syncing' /\ status' # "error"
      <4>1. /\ timers' = timers + 1 /\ interval' = TRUE /\ initialSync' = FALSE
            /\ stopped' = stopped
        BY <1>2, <3>1 DEF WalletEngineStep, InitialSyncReturns
      <4>2. timers \in 0 .. MaxTimers /\ timers < MaxTimers /\ stopped \in BOOLEAN
        BY <3>1 DEF WalletTypeInv, WalletTypeOK
      <4>3. timers + 1 \in 0 .. MaxTimers /\ timers + 1 > 0
        BY <4>2, CallsAssumption
      <4> QED BY <4>1, <4>2, <4>3
    <3>2. CASE ~(initialSync /\ ~Syncing' /\ status' # "error")
      <4>1. /\ timers' = timers /\ interval' = interval /\ stopped' = stopped
        BY <1>2, <3>2 DEF WalletEngineStep, InitialSyncReturns, timerVars
      <4>3. (initialSync' => initialSync) /\ initialSync' \in BOOLEAN
        BY <1>2, <3>2 DEF WalletEngineStep, InitialSyncReturns, timerVars,
           WalletTypeInv, WalletTypeOK
      <4>2. /\ timers \in 0 .. MaxTimers /\ interval \in BOOLEAN
            /\ initialSync \in BOOLEAN /\ stopped \in BOOLEAN
            /\ interval => timers > 0
            /\ initialSync => timers < MaxTimers
        BY DEF WalletTypeInv, WalletTypeOK
      <4>4. /\ timers' \in 0 .. MaxTimers /\ (interval' => timers' > 0)
            /\ initialSync' => timers' < MaxTimers
        BY <4>1, <4>2, <4>3
      <4> QED BY <4>1, <4>2, <4>3, <4>4
    <3> QED BY <3>1, <3>2
  <2>4. UNCHANGED <<balanceCache, balanceCall, updateCall>>
    BY <1>2 DEF WalletEngineStep, callVars
  <2> QED
    BY <1>1, <2>1, <2>2, <2>3, <2>4 DEF WalletTypeInv, WalletTypeOK
<1>3. CASE StartSyncing
  BY <1>1, <1>3 DEF StartSyncing, cacheVars, callVars,
     WalletTypeInv, WalletTypeOK
<1>4. CASE Sync \/ TimerFires \/ Rescan \/ DaemonMoves
  <2>1. UNCHANGED walletVars
    BY <1>4 DEF Sync, TimerFires, Rescan, DaemonMoves
  <2> QED
    BY <1>1, <2>1 DEF walletVars, cacheVars, timerVars, callVars,
       WalletTypeInv, WalletTypeOK
<1> QED BY <1>2, <1>3, <1>4 DEF EngineCall

\* stopSyncing() keeps them: an interval it knows is one that runs.
LEMMA StopSyncingTypes ==
    ASSUME WalletTypeInv, StopSyncing
    PROVE  WalletTypeInv'
<1>1. TypeInv'
  BY DEF StopSyncing, TypeInv, TypeOK, InBlock, Syncing, WalletTypeInv, callerVars,
     storeVars, heightVars, scanVars
<1>2. /\ timers' \in 0 .. MaxTimers /\ interval' = FALSE /\ stopped' = TRUE
      /\ timers' <= timers
  BY CallsAssumption DEF StopSyncing, WalletTypeInv, WalletTypeOK
<1>3. UNCHANGED <<initialSync, walletHeight, balanceCache, balanceDirty, balanceCall,
                  updateCall>>
  BY DEF StopSyncing, cacheVars, callVars
<1>4. initialSync' => timers' < MaxTimers
  BY <1>2, <1>3, CallsAssumption DEF WalletTypeInv, WalletTypeOK
<1>5. WalletTypeOK'
  BY <1>2, <1>3 DEF WalletTypeInv, WalletTypeOK
<1> QED
  BY <1>1, <1>2, <1>4, <1>5 DEF WalletTypeInv

\* The write of an update stores a record of the type of its table.
LEMMA UpdateWriteTypes ==
    ASSUME WalletTypeInv, UpdateWrite
    PROVE  WalletTypeInv'
<1>1. CASE updateCall.key \in Keys
  <2>1. updateCall \in [key : Keys, copy : OutputRecord]
    BY <1>1, RecordsAssumption DEF UpdateWrite, WalletTypeInv, WalletTypeOK
  <2>2. /\ outputs' \in [Keys -> OutputRecord \union {None}]
        /\ spentKeys' \subseteq Keys
    BY <1>1, <2>1 DEF UpdateWrite, PutOutput, PutKeyState, WalletTypeInv, TypeInv, TypeOK
  <2>3. TypeInv'
    BY <1>1, <2>2 DEF UpdateWrite, TypeInv, TypeOK, InBlock, Syncing, WalletTypeInv,
       callerVars, engineVars, heightVars, scanVars
  <2> QED
    BY <1>1, <2>3 DEF UpdateWrite, timerVars, WalletTypeInv, WalletTypeOK
<1>2. CASE updateCall.key \notin Keys
  <2>1. updateCall \in [key : Txs, copy : TxRecord]
    BY <1>2 DEF UpdateWrite, WalletTypeInv, WalletTypeOK
  <2>2. txs' \in [Txs -> TxRecord \union {None}]
    BY <1>2, <2>1 DEF UpdateWrite, PutTransaction, WalletTypeInv, TypeInv, TypeOK
  <2>3. TypeInv'
    BY <1>2, <2>2 DEF UpdateWrite, TypeInv, TypeOK, InBlock, Syncing, WalletTypeInv,
       callerVars, engineVars, heightVars, scanVars
  <2> QED
    BY <1>2, <2>3 DEF UpdateWrite, timerVars, WalletTypeInv, WalletTypeOK
<1> QED BY <1>1, <1>2

\* The calls of the wallet's user that leave the engine and the storage alone.
UserCall ==
    \/ BalanceRead \/ BalanceWrite
    \/ \E k \in Keys, frozen \in BOOLEAN : FreezeRead(k, frozen)
    \/ \E t \in Txs : NoteRead(t)

\* They do.
LEMMA UserCallLeaves == UserCall => UNCHANGED <<vars, walletHeight, timerVars>>
BY DEF UserCall, BalanceRead, BalanceWrite, FreezeRead, NoteRead, cacheVars

\* They keep the types: a copy has the type of its table.
LEMMA UserCallTypes ==
    ASSUME WalletTypeInv, UserCall
    PROVE  WalletTypeInv'
<1>1. TypeInv'
  BY UserCallLeaves DEF TypeInv, TypeOK, InBlock, Syncing, WalletTypeInv, vars,
     callerVars, storeVars, engineVars, heightVars, scanVars
<1>2. /\ walletHeight' \in 0 .. MaxHeight
      /\ timers' \in 0 .. MaxTimers
      /\ interval' \in BOOLEAN /\ initialSync' \in BOOLEAN /\ stopped' \in BOOLEAN
      /\ interval' => timers' > 0
      /\ initialSync' => timers' < MaxTimers
  BY UserCallLeaves DEF timerVars, WalletTypeInv, WalletTypeOK
<1>3. CASE BalanceRead
  BY <1>1, <1>2, <1>3 DEF BalanceRead, cacheVars, WalletTypeInv, WalletTypeOK,
     TypeInv, TypeOK
<1>4. CASE BalanceWrite
  BY <1>1, <1>2, <1>4 DEF BalanceWrite, BalanceOf, WalletTypeInv, WalletTypeOK
<1>5. ASSUME NEW k \in Keys, NEW frozen \in BOOLEAN, FreezeRead(k, frozen)
      PROVE  WalletTypeInv'
  <2>1. outputs[k] \in OutputRecord
    BY <1>5 DEF FreezeRead, WalletTypeInv, TypeInv, TypeOK
  <2>2. [outputs[k] EXCEPT !.isFrozen = frozen] \in OutputRecord
    BY <2>1 DEF OutputRecord
  <2>3. updateCall' \in [key : Keys, copy : OutputRecord]
    BY <1>5, <2>2 DEF FreezeRead
  <2> QED
    BY <1>1, <1>2, <1>5, <2>3 DEF FreezeRead, cacheVars, WalletTypeInv, WalletTypeOK
<1>6. ASSUME NEW t \in Txs, NoteRead(t) PROVE WalletTypeInv'
  <2>1. updateCall' \in [key : Txs, copy : TxRecord]
    BY <1>6 DEF NoteRead, WalletTypeInv, TypeInv, TypeOK
  <2> QED
    BY <1>1, <1>2, <1>6, <2>1 DEF NoteRead, cacheVars, WalletTypeInv, WalletTypeOK
<1> QED BY <1>3, <1>4, <1>5, <1>6 DEF UserCall

\* The kinds of steps.
LEMMA WalletSteps ==
    [WalletNext]_allVars <=>
        EngineCall \/ StopSyncing \/ UserCall \/ UpdateWrite \/ UNCHANGED allVars
BY DEF WalletNext, EngineCall, UserCall

\* Every step keeps the types.
LEMMA WalletTypeStep == WalletTypeInv /\ [WalletNext]_allVars => WalletTypeInv'
<1> SUFFICES ASSUME WalletTypeInv, UNCHANGED allVars PROVE WalletTypeInv'
  BY WalletSteps, EngineCallTypes, StopSyncingTypes, UpdateWriteTypes, UserCallTypes
<1> QED
  BY DEF allVars, vars, callerVars, storeVars, engineVars, heightVars, scanVars,
     walletVars, cacheVars, timerVars, callVars,
     WalletTypeInv, WalletTypeOK, TypeInv, TypeOK, InBlock, Syncing

\* Every variable of the wallet keeps its type, whatever its user calls and
\* whenever: in particular the intervals never outnumber the calls of
\* startSyncing() the bound allows nor fall below zero, and a record that is
\* written back belongs in the table it is written to (startSyncing,
\* stopSyncing, _updateBalanceIfNeeded, freezeOutput, setTransactionNote).
THEOREM WalletTypeCorrect == WalletSpec => []WalletTypeOK
<1>1. WalletSpec => []WalletTypeInv
  BY InitWalletTypeInv, WalletTypeStep, PTL DEF WalletSpec
<1>2. WalletTypeInv => WalletTypeOK
  BY DEF WalletTypeInv
<1> QED BY <1>1, <1>2, PTL

-----------------------------------------------------------------------------
(***************************************************************************)
(* What the wallet's own steps leave alone                                  *)
(***************************************************************************)
\* The steps of the wallet that WalletSync does not have.
Aside == StopSyncing \/ UserCall \/ UpdateWrite \/ UNCHANGED allVars

\* Every step is one of the engine, of a caller of it or of the daemon, or one
\* of the wallet's own.
LEMMA StepOrAside == [WalletNext]_allVars => Next \/ Aside
BY WalletSteps, EngineCallIsStep DEF Aside

\* The wallet's own steps touch neither the engine, but for the request to
\* stop, nor the stored hashes and heights.
LEMMA AsideLeaves ==
    Aside => UNCHANGED <<chain, rescanCall, hashes, syncHeight, status, pc,
                         startHeight, currentHeight, targetHeight, probe,
                         headers, block, todo, cur>>
<1>1. StopSyncing => UNCHANGED <<callerVars, storeVars, status, pc, heightVars, probe, scanVars>>
  BY DEF StopSyncing
<1>2. UserCall => UNCHANGED vars
  BY UserCallLeaves
<1>3. UpdateWrite => UNCHANGED <<callerVars, hashes, syncHeight, engineVars>>
  BY DEF UpdateWrite
<1> QED
  BY <1>1, <1>2, <1>3 DEF Aside, allVars, vars, callerVars, storeVars, engineVars,
     heightVars, scanVars

\* All of them but the write of an update leave the tables alone.
LEMMA OnlyUpdatesWrite == Aside => UNCHANGED <<outputs, txs, spentKeys>> \/ UpdateWrite
BY UserCallLeaves DEF Aside, StopSyncing, allVars, vars, storeVars

\* What is proved of the heights and hashes of WalletSync holds in the wallet,
\* whatever its user calls.
LEMMA AsideKeepsChain ==
    ASSUME Aside
    PROVE  /\ CoverInv => CoverInv'
           /\ FollowInv => FollowInv'
<1>1. UNCHANGED <<chain, rescanCall, hashes, syncHeight, status, pc, startHeight,
                  currentHeight, targetHeight, probe, headers>>
  BY AsideLeaves
<1>2. CoverInv => CoverInv'
  BY <1>1 DEF CoverInv, Covered, BeforeHashesGo, Syncing
<1>3. FollowInv => FollowInv'
  BY <1>1 DEF FollowInv, Rooted, Forked, Common, Checked, HeadersAhead, Along,
     OnBestChain, SyncedLength, BeforeHashesGo, InBatch, InBlock, BlockAt
<1> QED BY <1>2, <1>3

-----------------------------------------------------------------------------
(***************************************************************************)
(* Nothing is invented                                                      *)
(***************************************************************************)
\* A copy that an update holds was a good record of the storage.
CopyGood ==
    updateCall # None =>
        IF updateCall.key \in Keys THEN GoodOutput(updateCall.key, updateCall.copy)
        ELSE GoodEntry(updateCall.key, updateCall.copy)

\* Every step keeps good records good, and every copy is of one.
LEMMA WalletProvenanceStep ==
    ASSUME WalletTypeInv, ProvenanceInv, CopyGood, [WalletNext]_allVars
    PROVE  ProvenanceInv' /\ CopyGood'
<1>1. CASE EngineCall
  <2>1. ProvenanceInv'
    BY <1>1, EngineCallIsStep, ProvenanceEngine, ProvenanceOthers DEF Next, WalletTypeInv
  <2>2. updateCall' = updateCall
    BY <1>1 DEF EngineCall, WalletEngineStep, Sync, StartSyncing, TimerFires, Rescan,
       DaemonMoves, walletVars, callVars
  <2> QED BY <2>1, <2>2 DEF CopyGood, GoodOutput, GoodEntry, MinedAt
<1>2. CASE UpdateWrite
  <2>1. /\ UNCHANGED <<pc, block, todo, cur, currentHeight>>
        /\ updateCall' = None
    BY <1>2, AsideLeaves DEF Aside, UpdateWrite
  <2>2. CASE updateCall.key \in Keys
    <3>1. /\ outputs' = [outputs EXCEPT ![updateCall.key] = updateCall.copy]
          /\ txs' = txs /\ GoodOutput(updateCall.key, updateCall.copy)
      BY <1>2, <2>2 DEF UpdateWrite, PutOutput, CopyGood
    <3>2. outputs \in [Keys -> OutputRecord \union {None}]
      BY DEF WalletTypeInv, TypeInv, TypeOK
    <3>3. GoodOutputs(outputs')
      BY <3>1, <3>2 DEF ProvenanceInv, GoodOutputs
    <3> QED BY <2>1, <3>1, <3>3 DEF ProvenanceInv, CopyGood, InBlock, GoodHistory
  <2>3. CASE updateCall.key \notin Keys
    <3>1. /\ txs' = [txs EXCEPT ![updateCall.key] = updateCall.copy]
          /\ outputs' = outputs /\ GoodEntry(updateCall.key, updateCall.copy)
      BY <1>2, <2>3 DEF UpdateWrite, PutTransaction, CopyGood
    <3>2. txs \in [Txs -> TxRecord \union {None}]
      BY DEF WalletTypeInv, TypeInv, TypeOK
    <3>3. GoodHistory(txs')
      BY <3>1, <3>2 DEF ProvenanceInv, GoodHistory
    <3> QED BY <2>1, <3>1, <3>3 DEF ProvenanceInv, CopyGood, InBlock, GoodOutputs
  <2> QED BY <2>2, <2>3
<1>3. CASE StopSyncing \/ UserCall \/ UNCHANGED allVars
  <2>1. UNCHANGED <<outputs, txs, pc, block, todo, cur, currentHeight>>
    BY <1>3, AsideLeaves, UserCallLeaves DEF Aside, StopSyncing, storeVars, allVars, vars
  <2>2. ProvenanceInv'
    BY <2>1 DEF ProvenanceInv, InBlock, GoodOutputs, GoodHistory
  <2>3. CASE updateCall' = updateCall
    BY <2>2, <2>3 DEF CopyGood, GoodOutput, GoodEntry, MinedAt
  <2>4. ASSUME NEW k \in Keys, NEW frozen \in BOOLEAN, FreezeRead(k, frozen)
        PROVE  CopyGood'
    <3>1. /\ updateCall' = [key |-> k, copy |-> [outputs[k] EXCEPT !.isFrozen = frozen]]
          /\ outputs[k] \in OutputRecord /\ outputs[k] # None
      BY <2>4 DEF FreezeRead, WalletTypeInv, TypeInv, TypeOK
    <3>2. GoodOutput(k, outputs[k])
      BY DEF ProvenanceInv, GoodOutputs
    <3> DEFINE rec == [outputs[k] EXCEPT !.isFrozen = frozen]
    <3>3. /\ rec.out = outputs[k].out /\ rec.blockHeight = outputs[k].blockHeight
          /\ rec.isSpent = outputs[k].isSpent /\ rec.spentTx = outputs[k].spentTx
          /\ rec.spentHeight = outputs[k].spentHeight
      BY <3>1 DEF OutputRecord
    <3>4. updateCall' = [key |-> k, copy |-> rec]
      BY <3>1
    <3> HIDE DEF rec
    <3>5. GoodOutput(k, rec)
      BY <3>1, <3>2, <3>3 DEF GoodOutput
    <3> QED BY <3>4, <3>5 DEF CopyGood
  <2>5. ASSUME NEW t \in Txs, NoteRead(t) PROVE CopyGood'
    <3>1. updateCall' = [key |-> t, copy |-> txs[t]] /\ t \notin Keys
      BY <2>5, RecordsAssumption DEF NoteRead
    <3> QED BY <3>1 DEF CopyGood, ProvenanceInv, GoodHistory
  <2>6. CASE StopSyncing \/ BalanceRead \/ BalanceWrite \/ UNCHANGED allVars
    <3>1. updateCall' = updateCall
      BY <2>6 DEF StopSyncing, callVars, BalanceRead, BalanceWrite, allVars,
         walletVars
    <3> QED BY <2>3, <3>1
  <2> QED BY <1>3, <2>2, <2>4, <2>5, <2>6 DEF UserCall
<1> QED BY <1>1, <1>2, <1>3, WalletSteps

\* Whatever the user of the wallet calls and however the calls overlap a sync, a
\* rescan or each other, every stored output, spend and history entry comes from
\* a transaction of a block that some best chain has at the recorded height: a
\* late write of a held copy may bring back what a rollback has removed, but no
\* record that never was (freezeOutput, thawOutput, setTransactionNote).
THEOREM WalletInventsNothing == WalletSpec => []Provenance
<1>1. WalletInit => WalletTypeInv /\ ProvenanceInv /\ CopyGood
  BY InitWalletTypeInv, InitProvenanceInv DEF WalletInit, CopyGood
<1>2. WalletTypeInv /\ ProvenanceInv /\ CopyGood /\ [WalletNext]_allVars
        => (WalletTypeInv /\ ProvenanceInv /\ CopyGood)'
  BY WalletTypeStep, WalletProvenanceStep
<1>3. ProvenanceInv => Provenance
  BY GoodRecordsSuffice DEF ProvenanceInv
<1> QED BY <1>1, <1>2, <1>3, PTL DEF WalletSpec

-----------------------------------------------------------------------------
(***************************************************************************)
(* Without updates, the wallet is a use of the engine                       *)
(***************************************************************************)
\* No freezeOutput, thawOutput or setTransactionNote; stop() may be called.
ReadOnlyCalls ==
    /\ Calls \cap {"freezeOutput", "thawOutput", "setTransactionNote"} = {}
    /\ "stop" \in Events

\* No update is pending, so no copy of a record is ever written back.
NoUpdate == updateCall = None

\* NoUpdate is kept by every step.
LEMMA NoUpdateStep ==
    ASSUME ReadOnlyCalls, NoUpdate, [WalletNext]_allVars
    PROVE  NoUpdate'
<1>1. CASE EngineCall \/ StopSyncing \/ UNCHANGED allVars
  BY <1>1 DEF EngineCall, WalletEngineStep, Sync, StartSyncing, TimerFires, Rescan,
     DaemonMoves, StopSyncing, NoUpdate, allVars, walletVars, callVars
<1>2. CASE BalanceRead \/ BalanceWrite \/ UpdateWrite
  BY <1>2 DEF BalanceRead, BalanceWrite, UpdateWrite, NoUpdate
<1>3. CASE \/ \E k \in Keys, frozen \in BOOLEAN : FreezeRead(k, frozen)
           \/ \E t \in Txs : NoteRead(t)
  BY <1>3 DEF FreezeRead, NoteRead, ReadOnlyCalls
<1> QED
  BY <1>1, <1>2, <1>3, WalletSteps DEF UserCall

\* Every step of the wallet is a step of the engine, of a caller of it or of
\* the daemon, or changes nothing they have.
LEMMA StepSimulates ==
    ASSUME ReadOnlyCalls, NoUpdate, [WalletNext]_allVars
    PROVE  [Next]_vars
<1>1. CASE EngineCall
  BY <1>1, EngineCallIsStep
<1>2. CASE StopSyncing
  BY <1>2 DEF StopSyncing, Stop, ReadOnlyCalls, Next, CallerStep
<1>3. CASE UserCall \/ UNCHANGED allVars
  BY <1>3, UserCallLeaves DEF allVars
<1>4. CASE UpdateWrite
  BY <1>4 DEF UpdateWrite, NoUpdate
<1> QED
  BY <1>1, <1>2, <1>3, <1>4, WalletSteps

\* The wallet implements the engine's specification.
THEOREM WalletImplementsSync ==
    ASSUME ReadOnlyCalls
    PROVE  WalletSpec => Spec
<1>1. WalletInit => Init /\ NoUpdate
  BY DEF WalletInit, NoUpdate
<1>2. NoUpdate /\ [WalletNext]_allVars => NoUpdate' /\ [Next]_vars
  BY NoUpdateStep, StepSimulates
<1> QED
  BY <1>1, <1>2, PTL DEF WalletSpec, Spec

-----------------------------------------------------------------------------
(***************************************************************************)
(* The wallet follows the chain                                             *)
(***************************************************************************)
\* What is known of the engine's heights and hashes.
SyncInv == WalletTypeInv /\ CoverInv /\ FollowInv /\ rescanCall = NoRescan

\* Every step keeps it.
LEMMA WalletFollowStep ==
    ASSUME OrderlyStorage, SteadyDaemon, SyncInv, [WalletNext]_allVars
    PROVE  SyncInv'
<1>1. WalletTypeInv'
  BY WalletTypeStep DEF SyncInv
<1>2. CASE Next
  BY <1>1, <1>2, FollowInvStep DEF SyncInv, WalletTypeInv
<1>3. CASE Aside
  BY <1>1, <1>3, AsideKeepsChain, AsideLeaves DEF SyncInv
<1> QED BY <1>2, <1>3, StepOrAside

\* A wallet that is opened has it.
LEMMA InitSyncInv == WalletInit => SyncInv
BY InitWalletTypeInv, InitCoverInv, InitFollowInv DEF WalletInit, Init, SyncInv

\* Whatever the user of the wallet calls, and whether calls overlap a sync or
\* not, what is saved as synchronised follows the best chain: no update
\* and no balance touches a hash or a height.
THEOREM WalletFollowsChain ==
    ASSUME OrderlyStorage, SteadyDaemon
    PROVE  WalletSpec => FollowsChain
<1>1. WalletInit => SyncInv /\ Follower!Init
  BY InitSyncInv, FollowerInit DEF WalletInit
<1>2. SyncInv /\ [WalletNext]_allVars => SyncInv' /\ [Follower!Next]_(Follower!vars)
  <2> SUFFICES ASSUME SyncInv, [WalletNext]_allVars
               PROVE  [Follower!Next]_(Follower!vars)
    BY WalletFollowStep
  <2>1. CASE Next
    BY <2>1, FollowerStep DEF SyncInv, WalletTypeInv
  <2>2. CASE Aside
    <3>1. UNCHANGED <<chain, hashes, syncHeight, pc, startHeight>>
      BY <2>2, AsideLeaves
    <3> QED BY <3>1 DEF Follower!vars, Followed, SyncedLength
  <2> QED BY <2>1, <2>2, StepOrAside
<1> QED
  BY <1>1, <1>2, PTL DEF WalletSpec, FollowsChain, Follower!Spec

-----------------------------------------------------------------------------
(***************************************************************************)
(* Calls that take turns                                                    *)
(***************************************************************************)
\* The record of a call's copy differs from the stored one at most in isFrozen.
SameButFrozen(copy, rec) ==
    /\ rec # None
    /\ \E frozen \in BOOLEAN : copy = [rec EXCEPT !.isFrozen = frozen]

\* While a call holds what it has read, nothing else happens: it is still what
\* is stored.
HeldInv ==
    /\ balanceCall # None \/ updateCall # None => ~Syncing /\ rescanCall = NoRescan
    /\ balanceCall # None => updateCall = None /\ balanceCall = outputs
    /\ updateCall # None =>
          IF updateCall.key \in Keys
          THEN SameButFrozen(updateCall.copy, outputs[updateCall.key])
          ELSE updateCall.copy = txs[updateCall.key]

\* The engine takes a step only while it is synchronising.
LEMMA EngineRuns == TypeInv /\ EngineStep => Syncing
BY DEF TypeInv, EngineStep, GetInfo, GetInfoFails, TipMatches, TipDiffers,
   AncestorFound, AncestorLower, RollbackOutputs, RollbackTransactions, RollbackSpends,
   RollbackHashes, RollbackSyncHeight, RollbackFails, StoreFails, SyncEnds, GetHeaders,
   GetHeadersFails, BatchDone, GetBlock, GetBlockFails, MoreHeaders, PutHash,
   SaveSyncHeight, Recheck, GetTransactions, SkipTransaction, TakeTransaction,
   PutOwnedOutput, CheckInput, MarkInput, RecordTransaction, TransactionFails

\* No step of the engine, of its callers or of the daemon comes between the
\* read and the write of a call but the daemon's.
LEMMA EngineCallWaits ==
    ASSUME ~Overlap, WalletTypeInv, HeldInv, EngineCall,
           balanceCall # None \/ updateCall # None
    PROVE  UNCHANGED <<outputs, txs, status, rescanCall>>
<1>1. ~Syncing /\ rescanCall = NoRescan /\ ~NoCalls
  BY DEF HeldInv, NoCalls
<1>2. ~WalletEngineStep
  BY <1>1, EngineRuns DEF WalletEngineStep, WalletTypeInv
<1>3. ~Sync /\ ~StartSyncing /\ ~TimerFires
  BY <1>1 DEF Sync, StartSyncing, TimerFires, SyncOpen
<1>4. ~Rescan
  BY <1>1 DEF Rescan, SyncOpen, RescanSetHeight, RescanStart, NoRescan
<1>5. DaemonMoves => UNCHANGED <<outputs, txs, status, rescanCall>>
  BY DEF DaemonMoves, ChainMoves, storeVars, engineVars
<1> QED BY <1>2, <1>3, <1>4, <1>5 DEF EngineCall

\* When calls take turns, what they hold stays what is stored.
LEMMA HeldStep ==
    ASSUME ~Overlap, WalletTypeInv, HeldInv, [WalletNext]_allVars
    PROVE  HeldInv'
<1>1. CASE EngineCall
  <2>1. UNCHANGED <<balanceCall, updateCall>>
    BY <1>1 DEF EngineCall, WalletEngineStep, Sync, StartSyncing, TimerFires, Rescan,
       DaemonMoves, walletVars, callVars
  <2>2. CASE balanceCall = None /\ updateCall = None
    BY <2>1, <2>2 DEF HeldInv
  <2>3. CASE balanceCall # None \/ updateCall # None
    BY <1>1, <2>1, <2>3, EngineCallWaits DEF HeldInv, SameButFrozen, Syncing
  <2> QED BY <2>2, <2>3
<1>2. CASE StopSyncing \/ UNCHANGED allVars
  <2>1. UNCHANGED <<outputs, txs, status, rescanCall, balanceCall, updateCall>>
    BY <1>2 DEF StopSyncing, allVars, vars, callerVars,
       storeVars, engineVars, walletVars, callVars
  <2> QED BY <2>1 DEF HeldInv, SameButFrozen, Syncing
<1>3. CASE UpdateWrite
  BY <1>3 DEF UpdateWrite, HeldInv
<1>4. CASE BalanceWrite
  BY <1>4 DEF BalanceWrite, HeldInv, SameButFrozen, Syncing, vars, callerVars, storeVars,
     engineVars
<1>5. CASE BalanceRead
  <2>1. ~Syncing /\ NoCalls
    BY <1>5 DEF BalanceRead, CallsOpen
  <2> QED
    BY <1>5, <2>1 DEF BalanceRead, NoCalls, HeldInv, Syncing, vars, callerVars, storeVars,
       engineVars
<1>6. ASSUME NEW k \in Keys, NEW frozen \in BOOLEAN, FreezeRead(k, frozen)
      PROVE  HeldInv'
  <2>1. ~Syncing /\ NoCalls
    BY <1>6 DEF FreezeRead, CallsOpen
  <2>2. UNCHANGED <<outputs, status, rescanCall, balanceCall>>
    BY <1>6 DEF FreezeRead, vars, callerVars, storeVars, engineVars
  <2>3. /\ updateCall' = [key |-> k, copy |-> [outputs[k] EXCEPT !.isFrozen = frozen]]
        /\ outputs[k] # None
    BY <1>6 DEF FreezeRead
  <2>4. SameButFrozen(updateCall'.copy, outputs'[k]) /\ updateCall'.key = k
    BY <2>2, <2>3 DEF SameButFrozen
  <2> QED BY <2>1, <2>2, <2>4 DEF NoCalls, HeldInv, Syncing, SameButFrozen
<1>7. ASSUME NEW t \in Txs, NoteRead(t) PROVE HeldInv'
  <2>1. ~Syncing /\ NoCalls
    BY <1>7 DEF NoteRead, CallsOpen
  <2>2. UNCHANGED <<txs, status, rescanCall, balanceCall>>
    BY <1>7 DEF NoteRead, vars, callerVars, storeVars, engineVars
  <2>3. updateCall' = [key |-> t, copy |-> txs[t]] /\ t \notin Keys
    BY <1>7, RecordsAssumption DEF NoteRead
  <2> QED BY <2>1, <2>2, <2>3 DEF NoCalls, HeldInv, Syncing
<1> QED
  BY <1>1, <1>2, <1>3, <1>4, <1>5, <1>6, <1>7, WalletSteps DEF UserCall

-----------------------------------------------------------------------------
(***************************************************************************)
(* The tables stay the ledger                                               *)
(***************************************************************************)
\* The write of an update that is still what is stored changes isFrozen at most.
LEMMA UpdateIsHarmless ==
    ASSUME WalletTypeInv, HeldInv, UpdateWrite
    PROVE  /\ txs' = txs
           /\ \A k \in Keys :
                /\ outputs'[k] = None <=> outputs[k] = None
                /\ outputs[k] # None =>
                      /\ outputs'[k].out = outputs[k].out
                      /\ outputs'[k].blockHeight = outputs[k].blockHeight
                      /\ outputs'[k].isSpent = outputs[k].isSpent
                      /\ outputs'[k].spentTx = outputs[k].spentTx
                      /\ outputs'[k].spentHeight = outputs[k].spentHeight
<1>1. /\ outputs \in [Keys -> OutputRecord \union {None}]
      /\ txs \in [Txs -> TxRecord \union {None}]
  BY DEF WalletTypeInv, TypeInv, TypeOK
<1>2. CASE updateCall.key \in Keys
  <2> DEFINE k == updateCall.key
  <2>1. PICK frozen \in BOOLEAN : updateCall.copy = [outputs[k] EXCEPT !.isFrozen = frozen]
    BY <1>2 DEF UpdateWrite, HeldInv, SameButFrozen
  <2>2. outputs[k] # None /\ outputs[k] \in OutputRecord
    BY <1>1, <1>2 DEF UpdateWrite, HeldInv, SameButFrozen
  <2> DEFINE rec == updateCall.copy
  <2>3. /\ rec \in OutputRecord
        /\ rec.out = outputs[k].out /\ rec.blockHeight = outputs[k].blockHeight
        /\ rec.isSpent = outputs[k].isSpent /\ rec.spentTx = outputs[k].spentTx
        /\ rec.spentHeight = outputs[k].spentHeight
    BY <2>1, <2>2 DEF OutputRecord
  <2>4. rec # None
    BY <2>3, NoneAssumption
  <2>5. outputs' = [outputs EXCEPT ![k] = rec] /\ txs' = txs
    BY <1>2 DEF UpdateWrite, PutOutput
  <2> HIDE DEF rec, k
  <2> QED BY <1>1, <2>2, <2>3, <2>4, <2>5
<1>3. CASE updateCall.key \notin Keys
  <2>1. txs' = [txs EXCEPT ![updateCall.key] = txs[updateCall.key]] /\ outputs' = outputs
    BY <1>3 DEF UpdateWrite, PutTransaction, HeldInv
  <2> QED BY <1>1, <2>1
<1> QED BY <1>2, <1>3

\* The wallet's own steps do not touch the ledger, nor what the tables say of it.
LEMMA AsideKeepsLedger ==
    ASSUME WalletTypeInv, HeldInv, LedgerInv, Aside
    PROVE  LedgerInv'
<1>1. UNCHANGED <<chain, hashes, syncHeight, pc, currentHeight, probe, headers,
                  block, todo, cur>>
  BY AsideLeaves
<1>2. /\ txs' = txs
      /\ \A k \in Keys :
            /\ outputs'[k] = None <=> outputs[k] = None
            /\ outputs[k] # None =>
                  /\ outputs'[k].out = outputs[k].out
                  /\ outputs'[k].blockHeight = outputs[k].blockHeight
                  /\ outputs'[k].isSpent = outputs[k].isSpent
                  /\ outputs'[k].spentTx = outputs[k].spentTx
                  /\ outputs'[k].spentHeight = outputs[k].spentHeight
  BY OnlyUpdatesWrite, UpdateIsHarmless
<1>3. \A t, h : /\ Stored(t, h, LedgerLength)' <=> Stored(t, h, LedgerLength)
                /\ Stored(t, h, SpendLength)' <=> Stored(t, h, SpendLength)
                /\ Stored(t, h, HistoryLength)' <=> Stored(t, h, HistoryLength)
  BY <1>1 DEF Stored, LedgerLength, SpendLength, HistoryLength, InBlock
<1>4. \A t, h : InHand(t, h)' <=> InHand(t, h)
  BY <1>1 DEF InHand
<1>5. \A t : Handled(t)' <=> Handled(t)
  BY <1>1 DEF Handled, InBlock
<1>6. \A t, h : /\ Scanned(t, h, LedgerLength)' <=> Scanned(t, h, LedgerLength)
                /\ Scanned(t, h, SpendLength)' <=> Scanned(t, h, SpendLength)
                /\ Scanned(t, h, HistoryLength)' <=> Scanned(t, h, HistoryLength)
  BY <1>1, <1>3, <1>5 DEF Scanned
<1>7. \A o, h : Paid(o, h)' <=> Paid(o, h)
  BY <1>1, <1>4, <1>6 DEF Paid
<1>8. \A k, t, h : Spent(k, t, h)' <=> Spent(k, t, h)
  BY <1>1, <1>4, <1>6, <1>7 DEF Spent
<1>9. OutputsAre'
  <2>1. KeyOf \in [Outs -> Keys]
    BY WalletAssumption
  <2>2. ASSUME NEW k \in Keys, outputs'[k] # None
        PROVE  KeyOf[outputs'[k].out] = k /\ Paid(outputs[k].out, outputs[k].blockHeight)'
    BY <1>2, <1>7, <2>2 DEF LedgerInv, OutputsAre
  <2>3. ASSUME NEW o \in Outs, NEW h \in Heights, Paid(o, h)'
        PROVE  /\ outputs'[KeyOf[o]] # None
               /\ outputs'[KeyOf[o]].out = o /\ outputs'[KeyOf[o]].blockHeight = h
    BY <1>2, <1>7, <2>1, <2>3 DEF LedgerInv, OutputsAre
  <2> QED BY <2>2, <2>3 DEF OutputsAre
<1>10. SpendsAre'
  <2>1. ASSUME NEW k \in Keys, outputs'[k] # None, outputs'[k].isSpent
        PROVE  /\ outputs'[k].spentTx # None /\ outputs'[k].spentHeight # None
               /\ Spent(k, outputs[k].spentTx, outputs[k].spentHeight)'
    BY <1>2, <1>8, <2>1 DEF LedgerInv, SpendsAre
  <2>2. ASSUME NEW k \in Keys, NEW t \in Txs, NEW h \in Heights, Spent(k, t, h)'
        PROVE  /\ outputs'[k] # None /\ outputs'[k].isSpent
               /\ outputs'[k].spentTx = t /\ outputs'[k].spentHeight = h
    BY <1>2, <1>8, <2>2 DEF LedgerInv, SpendsAre
  <2> QED BY <2>1, <2>2 DEF SpendsAre
<1>11. HistoryIs'
  BY <1>2, <1>6 DEF LedgerInv, HistoryIs
<1>12. Hand'
  <2>1. cur.found # None /\ pc = "tx" => cur.found \in Keys
    BY DEF WalletTypeInv, TypeInv, Transaction
  <2> QED BY <1>1, <1>2, <2>1 DEF LedgerInv, Hand, InBlock, BlockAt
<1> QED BY <1>9, <1>10, <1>11, <1>12 DEF LedgerInv

\* Rollbacks run to their end, and a rescan begins at block 0 and not during a sync.
OrderlyRescans ==
    /\ WholeRollbacks
    /\ "rescanBusy" \notin Events
    /\ "rescan" \in Events => RescanHeights \subseteq {0}

\* While rescan() is under way the storage is cleared and nothing else happens to it.
ClearedInv == rescanCall # NoRescan => ~Syncing /\ syncHeight = 0 /\ rescanCall.from = 0

\* What is known of the tables, between calls and inside them.
TablesInv ==
    /\ WalletTypeInv /\ HeldInv
    /\ CoverInv /\ FollowInv /\ LedgerInv /\ ClearedInv

\* The engine keeps it.
LEMMA TablesEngine ==
    ASSUME OrderlyRescans, SteadyDaemon, NothingSkipped, OneLedger, TablesInv,
           WalletEngineStep
    PROVE  CoverInv' /\ FollowInv' /\ LedgerInv' /\ ClearedInv'
<1>1. EngineStep /\ TypeInv /\ WholeRollbacks
  BY DEF WalletEngineStep, TablesInv, WalletTypeInv, OrderlyRescans
<1>2. CoverInv' /\ FollowInv' /\ LedgerInv'
  BY <1>1, CoverEngine, FollowEngine, LedgerEngine DEF TablesInv
<1>3. rescanCall = NoRescan /\ rescanCall' = rescanCall
  BY <1>1, EngineRuns, EngineLeavesCallers DEF TablesInv, ClearedInv, callerVars
<1> QED BY <1>2, <1>3 DEF ClearedInv

\* So does a sync that begins at the saved height, after a rescan or not.
LEMMA TablesBegin ==
    ASSUME TablesInv, ~Syncing, Begin(syncHeight), UNCHANGED <<chain, storeVars>>,
           rescanCall' = NoRescan
    PROVE  CoverInv' /\ FollowInv' /\ LedgerInv' /\ ClearedInv'
<1>1. TypeInv /\ UNCHANGED <<hashes, syncHeight>>
  BY DEF TablesInv, WalletTypeInv, storeVars
<1>2. CoverInv'
  BY <1>1, CoverStart DEF TablesInv
<1>3. FollowInv'
  BY <1>1, FollowBegin DEF TablesInv
<1>4. LedgerInv'
  BY <1>1, LedgerBegin DEF TablesInv
<1> QED BY <1>2, <1>3, <1>4 DEF ClearedInv

\* A wallet at rest over a cleared storage is like a new one.
AtRestCleared ==
    /\ chain \in Chains /\ pc = "idle" /\ ~Syncing /\ syncHeight = 0
    /\ outputs = NoOutputs /\ txs = NoTransactions

LEMMA Cleared == AtRestCleared => CoverInv /\ FollowInv /\ LedgerInv
BY NothingToCover, NothingToFollow, EmptyLedger DEF AtRestCleared

LEMMA ClearedNext == AtRestCleared' => CoverInv' /\ FollowInv' /\ LedgerInv'
BY Cleared, PTL

\* What is known of the tables depends on no call that is waiting.
LEMMA TablesApart ==
    ASSUME TypeInv, CoverInv, FollowInv, LedgerInv, UNCHANGED <<chain, storeVars, engineVars>>
    PROVE  CoverInv' /\ FollowInv' /\ LedgerInv'
<1>1. CoverInv'
  BY DEF CoverInv, Covered, BeforeHashesGo, Syncing, storeVars, engineVars, heightVars
<1>2. FollowInv'
  BY DEF FollowInv, Rooted, Forked, Common, Checked, HeadersAhead, InBatch, InBlock,
     BeforeHashesGo, OnBestChain, Along, SyncedLength, BlockAt, storeVars, engineVars,
     heightVars, scanVars
<1>3. \A t \in Txs, h \in Heights :
       /\ Scanned(t, h, LedgerLength)' <=> Scanned(t, h, LedgerLength)
       /\ Scanned(t, h, SpendLength)' <=> Scanned(t, h, SpendLength)
       /\ Scanned(t, h, HistoryLength)' <=> Scanned(t, h, HistoryLength)
       /\ InHand(t, h)' <=> InHand(t, h)
  BY DEF storeVars, engineVars, heightVars, scanVars, Scanned, Stored, Handled,
     InHand, InBlock, LedgerLength, SpendLength, HistoryLength
<1>4. OutputsAre' /\ SpendsAre' /\ HistoryIs'
  BY <1>3, LedgerSame DEF LedgerInv, storeVars, engineVars, scanVars
<1>5. Hand'
  BY DEF LedgerInv, Hand, InBlock, BlockAt, storeVars, engineVars, heightVars, scanVars
<1> QED BY <1>1, <1>2, <1>4, <1>5 DEF LedgerInv

\* The three steps of rescan().
LEMMA TablesRescan ==
    ASSUME OrderlyRescans, TablesInv, Rescan
    PROVE  CoverInv' /\ FollowInv' /\ LedgerInv' /\ ClearedInv'
<1>1. TypeInv
  BY DEF TablesInv, WalletTypeInv
<1>2. ASSUME NEW h \in RescanHeights, RescanClear(h)
      PROVE  CoverInv' /\ FollowInv' /\ LedgerInv' /\ ClearedInv'
  <2>1. ~Syncing /\ h = 0 /\ pc = "idle" /\ chain \in Chains
    BY <1>1, <1>2 DEF RescanClear, OrderlyRescans, TypeInv, TypeOK
  <2>2. UNCHANGED <<chain, pc, status>>
    BY <1>2 DEF RescanClear, engineVars
  <2>3. /\ syncHeight' = 0 /\ outputs' = NoOutputs /\ txs' = NoTransactions
        /\ rescanCall'.from = 0
    BY <1>2, <2>1 DEF RescanClear
  <2>4. CoverInv' /\ FollowInv' /\ LedgerInv'
    BY <2>1, <2>2, <2>3, ClearedNext DEF AtRestCleared, Syncing, NoOutputs, NoTransactions
  <2> QED BY <2>1, <2>2, <2>3, <2>4 DEF ClearedInv, Syncing
<1>3. CASE RescanSetHeight
  <2>1. rescanCall # NoRescan /\ rescanCall \in RescanCall
    BY <1>1, <1>3 DEF RescanSetHeight, NoRescan, TypeInv, TypeOK
  <2>2. /\ ~Syncing /\ pc = "idle" /\ syncHeight = 0 /\ rescanCall.from = 0
        /\ rescanCall' = [rescanCall EXCEPT !.at = "start"]
    BY <1>1, <1>3, <2>1 DEF TablesInv, ClearedInv, RescanSetHeight, TypeInv
  <2>3. rescanCall'.from = 0
    BY <2>1, <2>2 DEF RescanCall
  <2>4. UNCHANGED <<chain, storeVars, engineVars>>
    BY <1>3, <2>2 DEF RescanSetHeight, storeVars
  <2>5. CoverInv' /\ FollowInv' /\ LedgerInv'
    BY <1>1, <2>4, TablesApart DEF TablesInv
  <2>6. ~Syncing' /\ syncHeight' = 0
    BY <2>2, <2>4 DEF Syncing, storeVars, engineVars
  <2> QED BY <2>3, <2>5, <2>6 DEF ClearedInv
<1>4. CASE RescanStart
  <2>1. rescanCall # NoRescan
    BY <1>4 DEF RescanStart, NoRescan
  <2>2. ~Syncing /\ rescanCall.from = syncHeight
    BY <2>1 DEF TablesInv, ClearedInv
  <2>3. /\ Begin(syncHeight) /\ UNCHANGED <<chain, storeVars>>
        /\ rescanCall' = NoRescan
    BY <1>4, <2>2 DEF RescanStart
  <2> QED BY <2>2, <2>3, TablesBegin
<1> QED BY <1>2, <1>3, <1>4 DEF Rescan

\* Every step of the wallet keeps what is known of the tables.
LEMMA TablesStep ==
    ASSUME OrderlyRescans, SteadyDaemon, NothingSkipped, OneLedger, ~Overlap,
           TablesInv, [WalletNext]_allVars
    PROVE  TablesInv'
<1>1. WalletTypeInv' /\ HeldInv' /\ TypeInv
  BY WalletTypeStep, HeldStep DEF TablesInv, WalletTypeInv
<1>2. CASE WalletEngineStep
  BY <1>1, <1>2, TablesEngine DEF TablesInv
<1>3. CASE Sync \/ StartSyncing \/ TimerFires
  <2>1. rescanCall = NoRescan /\ Start(None)
    BY <1>3 DEF Sync, StartSyncing, TimerFires, SyncOpen, NoCalls
  <2>2. ~Syncing /\ Begin(syncHeight) /\ UNCHANGED <<chain, storeVars, rescanCall>>
    BY <2>1, StartIsBegin DEF callerVars
  <2> QED BY <1>1, <2>1, <2>2, TablesBegin DEF TablesInv
<1>4. CASE Rescan
  BY <1>1, <1>4, TablesRescan DEF TablesInv
<1>5. CASE DaemonMoves
  <2>1. ChainMoves /\ UNCHANGED <<status, syncHeight, rescanCall>>
    BY <1>5 DEF DaemonMoves, ChainMoves, storeVars, engineVars
  <2>2. CoverInv' /\ FollowInv' /\ LedgerInv'
    BY <1>1, <2>1, CoverQuiet, FollowChainMoves, LedgerChainMoves DEF TablesInv
  <2> QED BY <1>1, <2>1, <2>2 DEF TablesInv, ClearedInv, Syncing
<1>6. CASE Aside
  <2>1. CoverInv' /\ FollowInv' /\ LedgerInv'
    BY <1>6, AsideKeepsChain, AsideKeepsLedger DEF TablesInv
  <2>2. UNCHANGED <<status, syncHeight, rescanCall>>
    BY <1>6, AsideLeaves
  <2> QED BY <1>1, <2>1, <2>2 DEF TablesInv, ClearedInv, Syncing
<1> QED
  BY <1>2, <1>3, <1>4, <1>5, <1>6, WalletSteps DEF EngineCall, Aside

\* When the calls of its user wait for each other and for the syncs, the wallet
\* says of every block below the saved height exactly what the best chain says,
\* as soon as the tip is the chain's: freezing outputs and noting transactions
\* included, through reorganisations between syncs, stopSyncing() at any await
\* and rescans from block 0.  In particular no call loses or invents a spend
\* (SpendsExact).  (When calls overlap, a late write brings back what
\* was rolled back.)
THEOREM WalletTablesAreTheLedger ==
    ASSUME OrderlyRescans, SteadyDaemon, NothingSkipped, OneLedger, ~Overlap
    PROVE  WalletSpec => []TablesExact
<1>1. WalletInit => TablesInv
  BY InitWalletTypeInv, InitCoverInv, InitFollowInv, InitLedgerInv
     DEF WalletInit, Init, TablesInv, HeldInv, ClearedInv
<1>2. TablesInv /\ [WalletNext]_allVars => TablesInv'
  BY TablesStep
<1>3. TablesInv => TablesExact
  BY LedgerIsExact DEF TablesInv, WalletTypeInv
<1> QED BY <1>1, <1>2, <1>3, PTL DEF WalletSpec

-----------------------------------------------------------------------------
(***************************************************************************)
(* The balance cache                                                       *)
(***************************************************************************)
\* No sync fails: the daemon answers, and what it has told of its chain is still
\* so when a batch is fetched; the storage does not throw.  (A sync that fails
\* after a rollback or in the middle of a batch has changed the outputs and does
\* not invalidate the cache.)
SyncsSucceed == Events \cap {"reorgBusy", "rpcError", "storeError"} = {}

\* What a sync goes on to ask for, the daemon has.
AheadInv ==
    /\ pc \notin {"idle", "info"} => targetHeight <= Len(chain)
    /\ pc = "block" \/ InBlock => currentHeight + Len(headers) <= Len(chain)

\* No step of the engine ends a sync by its catch block.
LEMMA NoSyncFails ==
    ASSUME SyncsSucceed, TypeInv, AheadInv
    PROVE  /\ ~GetInfoFails /\ ~GetBlockFails /\ ~StoreFails /\ ~RollbackFails
           /\ \A n \in 1 .. MaxBatch : ~GetHeadersFails(n)
<1>1. /\ "rpcError" \notin Events /\ "storeError" \notin Events
  BY DEF SyncsSucceed
<1>2. /\ currentHeight \in Nat /\ targetHeight \in Nat /\ Len(chain) \in Nat
  BY StoreAssumption, ChainFacts DEF TypeInv, TypeOK
<1>3. ~GetInfoFails /\ ~StoreFails /\ ~RollbackFails
  BY <1>1 DEF GetInfoFails, StoreFails, RollbackFails, RpcMayFail
<1>4. ASSUME GetBlockFails PROVE FALSE
  <2>1. /\ pc = "block" /\ headers # <<>> /\ ~(currentHeight < Len(chain))
        /\ headers \in Seq(Hashes)
    BY <1>1, <1>4 DEF GetBlockFails, MoreHeaders, HasBlock, RpcMayFail, TypeInv, TypeOK
  <2>2. Len(headers) \in Nat \ {0} /\ currentHeight + Len(headers) <= Len(chain)
    BY <2>1, EmptySeq, LenProperties DEF AheadInv
  <2> QED BY <1>2, <2>1, <2>2
<1>5. ASSUME NEW n \in 1 .. MaxBatch, GetHeadersFails(n) PROVE FALSE
  <2>1. pc = "loop" /\ currentHeight < targetHeight /\ BatchEnd(n) > Len(chain)
    BY <1>1, <1>5 DEF GetHeadersFails, RpcMayFail
  <2>2. targetHeight <= Len(chain) /\ n \in Nat
    BY <2>1, WalletAssumption DEF AheadInv
  <2> QED BY <1>2, <2>1, <2>2 DEF BatchEnd
<1> QED BY <1>3, <1>4, <1>5

\* Every step of the engine keeps what it asks for ahead.
LEMMA AheadEngine ==
    ASSUME SyncsSucceed, TypeInv, AheadInv, EngineStep
    PROVE  AheadInv'
<1>0. /\ currentHeight \in Nat /\ targetHeight \in Nat /\ Len(chain) \in Nat
      /\ chain \in Seq(Hashes) /\ headers \in Seq(Hashes) /\ Len(headers) \in Nat
  BY StoreAssumption, ChainFacts, LenProperties DEF TypeInv, TypeOK
<1>1. CASE GetInfo \/ Recheck
  BY <1>0, <1>1 DEF GetInfo, Recheck, Goto, AheadInv, InBlock, callerVars
<1>2. CASE \/ TipMatches \/ TipDiffers \/ AncestorFound \/ AncestorLower
           \/ RollbackOutputs \/ RollbackTransactions \/ RollbackSpends
           \/ RollbackHashes \/ RollbackSyncHeight \/ SyncEnds \/ BatchDone
           \/ SaveSyncHeight
  <2>1. /\ pc \notin {"idle", "info"} /\ pc' \notin {"block", "embedded", "regular", "tx"}
        /\ UNCHANGED <<chain, targetHeight>>
    BY <1>2 DEF TipMatches, TipDiffers, AncestorFound, AncestorLower, RollbackOutputs,
       RollbackTransactions, RollbackSpends, RollbackHashes, RollbackSyncHeight, SyncEnds,
       BatchDone, SaveSyncHeight, Goto, callerVars, heightVars
  <2> QED BY <2>1 DEF AheadInv, InBlock
<1>3. ASSUME NEW n \in 1 .. MaxBatch, GetHeaders(n) PROVE AheadInv'
  <2>1. /\ pc = "loop" /\ pc' = "block" /\ currentHeight < targetHeight
        /\ BatchEnd(n) <= Len(chain)
        /\ headers' = SubSeq(chain, currentHeight + 1, BatchEnd(n))
        /\ UNCHANGED <<chain, targetHeight, currentHeight>>
    BY <1>3 DEF GetHeaders, Goto, callerVars, heightVars
  <2>2. BatchEnd(n) \in Nat /\ currentHeight < BatchEnd(n)
    BY <1>0, <2>1, WalletAssumption DEF BatchEnd
  <2>3. Len(headers') = BatchEnd(n) - currentHeight
    BY <1>0, <2>1, <2>2
  <2> QED BY <1>0, <2>1, <2>2, <2>3 DEF AheadInv
<1>4. CASE PutHash
  <2>1. /\ pc = "regular" /\ pc' = "block" /\ headers # <<>>
        /\ currentHeight' = currentHeight + 1 /\ headers' = Tail(headers)
        /\ UNCHANGED <<chain, targetHeight>>
    BY <1>4 DEF PutHash, Goto, callerVars, TypeInv, InBlock
  <2>2. Len(headers') = Len(headers) - 1
    BY <1>0, <2>1, EmptySeq, HeadTailProperties
  <2> QED BY <1>0, <2>1, <2>2 DEF AheadInv, InBlock
<1>5. CASE \/ GetBlock \/ GetTransactions \/ MarkInput \/ RecordTransaction \/ TransactionFails
           \/ \E t \in Txs : SkipTransaction(t) \/ TakeTransaction(t)
           \/ \E o \in Outs : PutOwnedOutput(o)
           \/ \E k \in Keys : CheckInput(k)
  <2>1. /\ pc = "block" \/ InBlock
        /\ UNCHANGED <<chain, targetHeight, currentHeight, headers>>
    BY <1>5 DEF GetBlock, MoreHeaders, GetTransactions, MarkInput, RecordTransaction,
       TransactionFails, SkipTransaction, TakeTransaction, PutOwnedOutput, CheckInput,
       callerVars, heightVars, InBlock
  <2> QED BY <2>1 DEF AheadInv, InBlock
<1> QED BY <1>1, <1>2, <1>3, <1>4, <1>5, NoSyncFails DEF EngineStep

\* So does every other step: while a sync runs, the chain only grows.
LEMMA AheadStep ==
    ASSUME SyncsSucceed, WalletTypeInv, AheadInv, [WalletNext]_allVars
    PROVE  AheadInv'
<1>1. CASE Aside
  BY <1>1, AsideLeaves DEF AheadInv, InBlock
<1>2. CASE EngineStep
  BY <1>2, AheadEngine DEF WalletTypeInv
<1>3. CASE ChainMoves
  <2>1. chain' \in Chains /\ chain \in Chains /\ Len(chain) \in Nat /\ Len(chain') \in Nat
    BY <1>3, ChainFacts DEF ChainMoves, WalletTypeInv, TypeInv, TypeOK
  <2>2. UNCHANGED <<pc, targetHeight, currentHeight, headers>>
    BY <1>3 DEF ChainMoves, engineVars, heightVars, scanVars
  <2>3. CASE pc = "idle"
    BY <2>2, <2>3 DEF AheadInv, InBlock
  <2>4. CASE pc # "idle"
    <3>1. Syncing /\ "reorgBusy" \notin Events
      BY <2>4 DEF WalletTypeInv, TypeInv, SyncsSucceed
    <3>2. Len(chain') > Len(chain)
      BY <1>3, <3>1 DEF ChainMoves, Extends
    <3>3. targetHeight \in Nat /\ currentHeight \in Nat /\ Len(headers) \in Nat
      BY StoreAssumption, LenProperties DEF WalletTypeInv, TypeInv, TypeOK
    <3> QED BY <2>1, <2>2, <3>2, <3>3 DEF AheadInv, InBlock
  <2> QED BY <2>3, <2>4
<1>4. CASE Sync \/ StartSyncing \/ TimerFires \/ Rescan
  <2>1. \/ pc' = "info"
        \/ UNCHANGED <<chain, pc, targetHeight, currentHeight, headers>>
    BY <1>4 DEF Sync, StartSyncing, TimerFires, Rescan, Start, Begin, Goto, RescanClear,
       RescanSetHeight, RescanStart, engineVars, heightVars, scanVars
  <2> QED BY <2>1 DEF AheadInv, InBlock
<1> QED
  BY <1>1, <1>2, <1>3, <1>4, WalletSteps DEF EngineCall, Aside, WalletEngineStep, DaemonMoves

\* A sync ends in one place, which invalidates the cache.
LEMMA SyncEndDirties ==
    ASSUME SyncsSucceed, WalletTypeInv, AheadInv, WalletEngineStep
    PROVE  Syncing' \/ balanceDirty'
<1>1. EngineStep /\ TypeInv /\ TypeInv'
  BY TypeEngine DEF WalletEngineStep, WalletTypeInv
<1>2. CASE SyncEnds
  BY <1>2 DEF SyncEnds, WalletEngineStep, BalanceDirties
<1>3. CASE EngineStep /\ ~SyncEnds
  <2>1. pc' # "idle"
    BY <1>1, <1>3, NoSyncFails DEF EngineStep, GetInfo, TipMatches, TipDiffers, AncestorFound,
       AncestorLower, RollbackOutputs, RollbackTransactions, RollbackSpends, RollbackHashes,
       RollbackSyncHeight, GetHeaders, BatchDone, GetBlock, PutHash, SaveSyncHeight, Recheck,
       GetTransactions, SkipTransaction, TakeTransaction, PutOwnedOutput, CheckInput,
       MarkInput, RecordTransaction, TransactionFails, NextTransaction, Goto
  <2> QED BY <1>1, <2>1 DEF TypeInv
<1> QED BY <1>1, <1>2, <1>3

\* The cache is the balance of the stored outputs, or marked dirty.
Fresh == balanceDirty \/ balanceCache = BalanceOf(outputs, walletHeight)

\* ... whenever neither a sync nor a rescan is under way.
FreshInv == ~Syncing /\ rescanCall = NoRescan => Fresh

\* Every step keeps it.
LEMMA FreshStep ==
    ASSUME SyncsSucceed, WalletTypeInv, HeldInv, AheadInv, FreshInv, [WalletNext]_allVars
    PROVE  FreshInv'
<1>1. CASE WalletEngineStep
  BY <1>1, SyncEndDirties DEF FreshInv, Fresh
<1>2. CASE Sync \/ StartSyncing \/ TimerFires
  BY <1>2 DEF Sync, StartSyncing, TimerFires, Start, Begin, FreshInv, Syncing
<1>3. CASE Rescan
  <2>1. ASSUME NEW h \in RescanHeights, RescanClear(h) PROVE FreshInv'
    BY <2>1 DEF RescanClear, FreshInv, NoRescan
  <2>2. CASE RescanSetHeight
    <3>1. rescanCall \in RescanCall /\ rescanCall' = [rescanCall EXCEPT !.at = "start"]
      BY <2>2 DEF RescanSetHeight, NoRescan, WalletTypeInv, TypeInv, TypeOK
    <3>2. rescanCall'.at = "start"
      BY <3>1 DEF RescanCall
    <3> QED BY <3>2 DEF FreshInv, NoRescan
  <2>3. CASE RescanStart
    <3>1. Syncing'
      BY <2>3 DEF RescanStart, Begin, Syncing, engineVars
    <3> QED BY <3>1 DEF FreshInv
  <2> QED BY <1>3, <2>1, <2>2, <2>3 DEF Rescan
<1>4. CASE \/ DaemonMoves \/ StopSyncing \/ UNCHANGED allVars \/ BalanceRead
           \/ \E k \in Keys, frozen \in BOOLEAN : FreezeRead(k, frozen)
           \/ \E t \in Txs : NoteRead(t)
  <2>1. UNCHANGED <<outputs, status, rescanCall, walletHeight, balanceCache, balanceDirty>>
    BY <1>4 DEF DaemonMoves, ChainMoves, StopSyncing, BalanceRead, FreezeRead,
       NoteRead, allVars, vars, callerVars, storeVars, engineVars, walletVars,
       cacheVars
  <2> QED BY <2>1 DEF FreshInv, Fresh, Syncing, BalanceOf, IsSpendable
<1>5. CASE BalanceWrite
  <2>1. /\ balanceCall = outputs
        /\ balanceCache' = BalanceOf(balanceCall, walletHeight)
        /\ outputs' = outputs /\ walletHeight' = walletHeight
    BY <1>5 DEF BalanceWrite, HeldInv, vars, storeVars
  <2> QED BY <2>1 DEF FreshInv, Fresh, BalanceOf, IsSpendable
<1>6. CASE UpdateWrite
  <2>1. /\ UNCHANGED <<status, rescanCall, walletHeight, balanceCache>>
        /\ balanceDirty' = TRUE \/ (outputs' = outputs /\ balanceDirty' = balanceDirty)
    BY <1>6 DEF UpdateWrite, callerVars, engineVars
  <2>2. CASE balanceDirty' = TRUE
    BY <2>2 DEF FreshInv, Fresh
  <2>3. CASE outputs' = outputs /\ balanceDirty' = balanceDirty
    BY <2>1, <2>3 DEF FreshInv, Fresh, Syncing, BalanceOf, IsSpendable
  <2> QED BY <2>1, <2>2, <2>3
<1> QED BY <1>1, <1>2, <1>3, <1>4, <1>5, <1>6, WalletSteps DEF EngineCall, UserCall

\* When the calls of the wallet's user wait for each other and for the syncs and
\* no sync fails, a balance cache that is not marked dirty is the balance of the
\* stored outputs whenever the wallet is at rest: after every sync, stopped or
\* complete, every rollback, rescan, freezeOutput, thawOutput and transaction
\* note (_updateBalanceIfNeeded and the handlers that set _balanceDirty).
THEOREM BalanceStaysFresh ==
    ASSUME SyncsSucceed, ~Overlap
    PROVE  WalletSpec => []BalanceFresh
<1> DEFINE Inv == WalletTypeInv /\ HeldInv /\ AheadInv /\ FreshInv
<1>1. WalletInit => Inv
  BY InitWalletTypeInv DEF WalletInit, Init, HeldInv, AheadInv, FreshInv, Fresh, InBlock
<1>2. Inv /\ [WalletNext]_allVars => Inv'
  BY WalletTypeStep, HeldStep, AheadStep, FreshStep
<1>3. Inv => BalanceFresh
  BY DEF BalanceFresh, FreshInv, Fresh, NoCalls
<1> QED BY <1>1, <1>2, <1>3, PTL DEF WalletSpec

-----------------------------------------------------------------------------
(***************************************************************************)
(* A wallet's next sync repairs what an interrupted one left                 *)
(***************************************************************************)
\* The wallet's own steps change nothing that a repair relies on.
LEMMA AsideKeepsRepairs ==
    ASSUME WalletTypeInv, HeldInv, RepairInv, Aside
    PROVE  RepairInv'
<1>1. UNCHANGED <<chain, rescanCall, hashes, syncHeight, status, pc, currentHeight,
                  headers, block, todo, cur>>
  BY AsideLeaves
<1>2. /\ txs' = txs
      /\ \A k \in Keys :
            /\ outputs'[k] = None <=> outputs[k] = None
            /\ outputs[k] # None =>
                  /\ outputs'[k].out = outputs[k].out
                  /\ outputs'[k].blockHeight = outputs[k].blockHeight
                  /\ outputs'[k].isSpent = outputs[k].isSpent
                  /\ outputs'[k].spentTx = outputs[k].spentTx
                  /\ outputs'[k].spentHeight = outputs[k].spentHeight
  BY OnlyUpdatesWrite, UpdateIsHarmless
<1>3. \A k \in Keys : \A t : SpentBy(k, t) => SpentBy(k, t)'
  BY <1>2 DEF SpentBy
<1>4. \A t \in Txs : (InTables(t) => InTables(t)') /\ (Finished(t) => Finished(t)')
  <2> SUFFICES ASSUME NEW t \in Txs
               PROVE  (InTables(t) => InTables(t)') /\ (Finished(t) => Finished(t)')
    OBVIOUS
  <2>1. (\A o \in Creates[t] : KeyOf[o] \in Keys) /\ Spends[t] \subseteq Keys
    BY WalletAssumption
  <2>2. InTables(t) => InTables(t)'
    BY <1>2, <1>3, <2>1 DEF InTables
  <2> QED BY <1>2, <2>2 DEF Finished
<1>5. \A h \in 0 .. Len(chain) - 1 : BlockScanned(h) => BlockScanned(h)'
  <2> SUFFICES ASSUME NEW h \in 0 .. Len(chain) - 1, BlockScanned(h) PROVE BlockScanned(h)'
    OBVIOUS
  <2>1. TxsIn[BlockAt(h)] \subseteq Txs
    BY BlocksOfChain DEF WalletTypeInv
  <2> QED BY <1>1, <1>4, <2>1 DEF BlockScanned, BlockAt
<1>6. TablesTrue'
  <2>1. \A k \in Keys : outputs'[k] # None => PaymentTrue(k)'
    BY <1>1, <1>2 DEF RepairInv, TablesTrue, PaymentTrue, OnChain, BlockAt
  <2>2. \A k \in Keys : outputs'[k] # None /\ outputs'[k].isSpent => SpendTrue(k)'
    BY <1>1, <1>2 DEF RepairInv, TablesTrue, SpendTrue, OnChain, BlockAt
  <2> QED BY <1>1, <1>2, <1>4, <2>1, <2>2 DEF RepairInv, TablesTrue, BlockAt
<1>7. Passed'
  <2>1. /\ Len(chain) \in Nat /\ syncHeight \in Nat /\ currentHeight \in Nat
        /\ Len(headers) \in Nat
    BY BlocksOfChain DEF WalletTypeInv
  <2>2. /\ syncHeight <= Len(chain) /\ \A h \in 0 .. syncHeight - 1 : BlockScanned(h)'
    BY <1>5, <2>1 DEF RepairInv, Passed
  <2>3. Syncing => /\ currentHeight + Len(headers) <= Len(chain)
                   /\ \A h \in 0 .. currentHeight - 1 : BlockScanned(h)'
    BY <1>5, <2>1 DEF RepairInv, Passed
  <2> QED BY <1>1, <2>2, <2>3 DEF RepairInv, Passed, Syncing
<1>8. BlockInHand'
  <2>1. \A t : Handled(t)' <=> Handled(t)
    BY <1>1 DEF Handled, InBlock
  <2> QED BY <1>1, <1>4, <2>1 DEF RepairInv, BlockInHand, InBlock, BlockAt
<1>9. TransactionInHand'
  <2> SUFFICES ASSUME pc = "tx" PROVE TransactionInHand'
    BY <1>1 DEF TransactionInHand
  <2>1. cur.tx \in Txs /\ cur.found \in Keys \union {None}
    BY TransactionAtHand DEF WalletTypeInv
  <2>2. (\A o \in Creates[cur.tx] : KeyOf[o] \in Keys) /\ Spends[cur.tx] \subseteq Keys
    BY <2>1, WalletAssumption
  <2>3. \A o \in Creates[cur.tx] \ cur.outs : outputs'[KeyOf[o]] # None
    BY <1>2, <2>2 DEF RepairInv, TransactionInHand
  <2>4. \A k \in Spends[cur.tx] : k \in cur.ins \/ k = cur.found \/ SpentBy(k, cur.tx)'
    BY <1>1, <1>2, <2>2 DEF RepairInv, TransactionInHand, SpentBy
  <2>5. cur.found # None => /\ cur.found \in Spends[cur.tx]
                            /\ outputs'[cur.found] # None /\ ~outputs'[cur.found].isSpent
    BY <1>2, <2>1 DEF RepairInv, TransactionInHand
  <2> QED BY <1>1, <1>2, <2>3, <2>4, <2>5 DEF RepairInv, TransactionInHand, SpentBy
<1> QED BY <1>6, <1>7, <1>8, <1>9 DEF RepairInv

\* The wallet of one user whose calls wait for each other and for the syncs, over a
\* chain that grows: after syncs that failed, were stopped or began again from a
\* rescan, with outputs frozen and thawed and notes written in between, the outputs
\* and the spends are exact when the stored tip is on the chain (sync() after a sync
\* that threw, rescan(), freezeOutput, thawOutput, setTransactionNote).
THEOREM WalletRecovers ==
    ASSUME GrowingChain, OneLedger, ~Overlap
    PROVE  WalletSpec => [](HashesExact /\ OutputsExact /\ SpendsExact)
<1> DEFINE Inv == WalletTypeInv /\ HeldInv /\ RepairInv
<1>1. WalletInit => Inv
  BY InitWalletTypeInv, InitRepairInv DEF WalletInit, HeldInv
<1>2. Inv /\ [WalletNext]_allVars => Inv'
  <2> SUFFICES ASSUME Inv, [WalletNext]_allVars PROVE Inv'
    OBVIOUS
  <2>1. WalletTypeInv' /\ HeldInv'
    BY WalletTypeStep, HeldStep
  <2>2. CASE Next
    BY <2>1, <2>2, RepairStep DEF WalletTypeInv
  <2>3. CASE Aside
    BY <2>1, <2>3, AsideKeepsRepairs
  <2> QED BY <2>2, <2>3, StepOrAside
<1>3. Inv => HashesExact /\ OutputsExact /\ SpendsExact
  BY RepairIsExact DEF WalletTypeInv
<1> QED BY <1>1, <1>2, <1>3, PTL DEF WalletSpec
=============================================================================
