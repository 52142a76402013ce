-------------------------- MODULE WalletSyncProofs --------------------------
(***************************************************************************)
(* Proofs about the synchronisation engine, for every set of chains, every   *)
(* wallet and every kind of environment the constants allow.                *)
(***************************************************************************)
EXTENDS WalletSync, TLAPS

\* The engine is inside the processing of a block.
InBlock == pc \in {"embedded", "regular", "tx"}

\* What makes TypeOK inductive: a block is processed for the first header that
\* is left, outside a batch no header is left, and a transaction is processed at
\* "tx" only.
TypeInv ==
    /\ TypeOK
    /\ InBlock => headers # <<>> /\ block \in Hashes
    /\ InBlock \/ pc = "block" \/ headers = <<>>
    /\ pc = "tx" => cur \in Transaction
    /\ Syncing <=> pc # "idle"

-----------------------------------------------------------------------------
(***************************************************************************)
(* The storage operations keep the types of the tables                      *)
(***************************************************************************)
\* The two ways putOutput and markOutputSpent change the table of outputs.
LEMMA OutputOperationsType ==
    ASSUME NEW tab \in [Keys -> OutputRecord \union {None}], NEW k \in Keys,
           NEW o \in Outs, NEW h \in Heights
    PROVE  PutOutput(tab, k, NewOutput(o, h)) \in [Keys -> OutputRecord \union {None}]
BY DEF PutOutput, NewOutput, OutputRecord

\* markOutputSpent keeps the output table well-typed.
LEMMA MarkType ==
    ASSUME NEW tab \in [Keys -> OutputRecord \union {None}], NEW k \in Keys,
           NEW t \in Txs, NEW h \in Heights
    PROVE  MarkOutputSpent(tab, k, t, h) \in [Keys -> OutputRecord \union {None}]
BY DEF MarkOutputSpent, OutputRecord

\* The four operations of a rollback.
LEMMA RollbackOperationsType ==
    ASSUME NEW tab \in [Keys -> OutputRecord \union {None}],
           NEW hist \in [Txs -> TxRecord \union {None}],
           NEW hs \in [Heights -> Hashes \union {None}], NEW h \in Heights
    PROVE  /\ DeleteOutputsAbove(tab, h) \in [Keys -> OutputRecord \union {None}]
           /\ UnspendOutputsAbove(tab, h) \in [Keys -> OutputRecord \union {None}]
           /\ DeleteTransactionsAbove(hist, h) \in [Txs -> TxRecord \union {None}]
           /\ DeleteBlockHashesAbove(hs, h) \in [Heights -> Hashes \union {None}]
<1>1. DeleteOutputsAbove(tab, h) \in [Keys -> OutputRecord \union {None}]
  BY DEF DeleteOutputsAbove
<1>2. UnspendOutputsAbove(tab, h) \in [Keys -> OutputRecord \union {None}]
  <2>1. ASSUME NEW k \in Keys, k \in SpentAbove(tab, h)
        PROVE  [tab[k] EXCEPT !.isSpent = FALSE, !.spentTx = None,
                              !.spentHeight = None] \in OutputRecord
    BY <2>1 DEF SpentAbove, OutputRecord
  <2> QED BY <2>1 DEF UnspendOutputsAbove
<1>3. DeleteTransactionsAbove(hist, h) \in [Txs -> TxRecord \union {None}]
  BY DEF DeleteTransactionsAbove
<1>4. DeleteBlockHashesAbove(hs, h) \in [Heights -> Hashes \union {None}]
  BY DEF DeleteBlockHashesAbove
<1> QED BY <1>1, <1>2, <1>3, <1>4

\* clear() leaves well-typed, empty tables.
LEMMA EmptyTablesType ==
    /\ NoOutputs \in [Keys -> OutputRecord \union {None}]
    /\ NoTransactions \in [Txs -> TxRecord \union {None}]
    /\ NoHashes \in [Heights -> Hashes \union {None}]
BY DEF NoOutputs, NoTransactions, NoHashes

\* A chain the daemon reports is a sequence of at most MaxHeight blocks.
LEMMA ChainFacts ==
    ASSUME NEW c \in Chains
    PROVE  /\ c \in Seq(Hashes)
           /\ Len(c) \in 1 .. MaxHeight
           /\ \A h \in 0 .. Len(c) - 1 : c[h + 1] \in Hashes
BY ChainsAssumption, StoreAssumption

-----------------------------------------------------------------------------
(***************************************************************************)
(* The type invariant                                                      *)
(***************************************************************************)
LEMMA EmptySequence == <<>> \in Seq(Hashes) /\ Len(<<>>) = 0
OBVIOUS

\* The strengthened type invariant holds in a new wallet.
LEMMA InitTypeInv == Init => TypeInv
<1> SUFFICES ASSUME Init PROVE TypeInv
  OBVIOUS
<1>1. 0 \in 0 .. MaxHeight /\ 0 \in Heights
  BY StoreAssumption DEF Heights
<1>2. currentHeight + Len(headers) <= MaxHeight /\ headers \in Seq(Hashes)
  BY EmptySequence, StoreAssumption DEF Init
<1> QED
  BY <1>1, <1>2, EmptyTablesType DEF Init, TypeInv, TypeOK, InBlock, SYNC_STATUS, Places, Syncing

\* The daemon does not touch the wallet.
LEMMA TypeChainMoves == TypeInv /\ ChainMoves => TypeInv'
BY DEF ChainMoves, TypeInv, TypeOK, InBlock, vars, callerVars, storeVars, engineVars, heightVars,
       scanVars, Goto, Places, SYNC_STATUS, Heights, Syncing

\* Both getInfo calls keep the types.
LEMMA TypeGetInfo == TypeInv /\ (GetInfo \/ Recheck) => TypeInv'
<1> SUFFICES ASSUME TypeInv, GetInfo \/ Recheck PROVE TypeInv'
  OBVIOUS
<1>1. Len(chain) \in 0 .. MaxHeight
  BY ChainFacts, StoreAssumption DEF TypeInv, TypeOK
<1>2. targetHeight' \in 0 .. MaxHeight
  BY <1>1 DEF GetInfo, Recheck, TypeInv, TypeOK
<1>3. headers' = headers /\ pc' \in {"tip", "loop"} /\ pc \in {"info", "recheck"}
  BY DEF GetInfo, Recheck, Goto, scanVars
<1>4. UNCHANGED <<callerVars, storeVars, status, stopRequested, startHeight,
                  currentHeight, probe, scanVars>>
  BY DEF GetInfo, Recheck
<1> QED
  BY <1>2, <1>3, <1>4 DEF TypeInv, TypeOK, InBlock, vars, callerVars, storeVars, engineVars, heightVars,
         scanVars, Goto, Places, SYNC_STATUS, Heights, Syncing

\* Every failure parks the engine, and keeps or empties the scan.
LEMMA TypeFail == TypeInv /\ Fail => TypeInv'
<1> SUFFICES ASSUME TypeInv, Fail PROVE TypeInv'
  OBVIOUS
<1>1. currentHeight' + Len(headers') <= MaxHeight /\ headers' \in Seq(Hashes)
  BY EmptySequence, StoreAssumption
     DEF Fail, ScanAbandoned, heightVars, TypeInv, TypeOK
<1> QED
  BY <1>1 DEF Fail, ScanAbandoned, TypeInv, TypeOK, InBlock, vars, callerVars,
         storeVars, engineVars, heightVars, scanVars, Goto, Places,
         SYNC_STATUS, Heights, Syncing

\* The catch block of start() leaves a well-typed, idle engine.
LEMMA TypeFails ==
    TypeInv /\ (GetInfoFails \/ GetBlockFails \/ StoreFails \/ RollbackFails) => TypeInv'
<1> SUFFICES ASSUME TypeInv,
                    GetInfoFails \/ GetBlockFails \/ StoreFails \/ RollbackFails
             PROVE  TypeInv'
  OBVIOUS
<1>0. Fail \/ RollbackFails
  BY DEF GetInfoFails, GetBlockFails, StoreFails
<1>1. CASE Fail
  BY <1>1, TypeFail
<1>2. CASE RollbackFails
  BY <1>2 DEF RollbackFails, TypeInv, TypeOK, InBlock, vars, callerVars, storeVars, engineVars, heightVars,
         scanVars, Goto, Places, SYNC_STATUS, Heights, Syncing
<1> QED BY <1>0, <1>1, <1>2

\* Reorg detection keeps the types: probe never leaves the heights.
LEMMA TypeTip ==
    TypeInv /\ (TipMatches \/ TipDiffers \/ AncestorFound \/ AncestorLower) => TypeInv'
<1> SUFFICES ASSUME TypeInv,
                    TipMatches \/ TipDiffers \/ AncestorFound \/ AncestorLower
             PROVE  TypeInv'
  OBVIOUS
<1>1. probe' \in Heights
  BY ChainFacts, StoreAssumption
     DEF TipMatches, TipDiffers, AncestorFound, AncestorLower, TipIsStale,
         TipHeight, HasBlock, TypeInv, TypeOK, Heights
<1>2. /\ pc \in {"tip", "ancestor"}
      /\ pc' \in {"loop", "ancestor", "rollbackOutputs"}
      /\ UNCHANGED <<callerVars, storeVars, status, stopRequested, heightVars, scanVars>>
  BY DEF TipMatches, TipDiffers, AncestorFound, AncestorLower, Goto
<1> QED
  BY <1>1, <1>2 DEF TypeInv, TypeOK, InBlock, vars, callerVars, storeVars, engineVars,
         heightVars, scanVars, Goto, Places, SYNC_STATUS, Heights, Syncing

\* Each step of _handleWalletReorg keeps the types.
LEMMA TypeRollback ==
    TypeInv /\ (\/ RollbackOutputs \/ RollbackTransactions \/ RollbackSpends
                \/ RollbackHashes \/ RollbackSyncHeight) => TypeInv'
<1> SUFFICES ASSUME TypeInv,
                    \/ RollbackOutputs \/ RollbackTransactions \/ RollbackSpends
                    \/ RollbackHashes \/ RollbackSyncHeight
             PROVE  TypeInv'
  OBVIOUS
<1>0. probe \in Heights
  BY DEF TypeInv, TypeOK
<1>1. ASSUME RollbackOutputs PROVE TypeInv'
  <2>1. DeleteOutputsAbove(outputs, probe) \in [Keys -> OutputRecord \union {None}]
    BY <1>0, RollbackOperationsType DEF TypeInv, TypeOK
  <2> QED
    BY <1>1, <2>1 DEF RollbackOutputs, TypeInv, TypeOK, InBlock, vars, callerVars, storeVars, engineVars, heightVars,
         scanVars, Goto, Places, SYNC_STATUS, Heights, Syncing
<1>2. ASSUME RollbackTransactions PROVE TypeInv'
  <2>1. DeleteTransactionsAbove(txs, probe) \in [Txs -> TxRecord \union {None}]
    BY <1>0, RollbackOperationsType DEF TypeInv, TypeOK
  <2> QED
    BY <1>2, <2>1 DEF RollbackTransactions, TypeInv, TypeOK, InBlock, vars, callerVars, storeVars, engineVars, heightVars,
         scanVars, Goto, Places, SYNC_STATUS, Heights, Syncing
<1>3. ASSUME RollbackSpends PROVE TypeInv'
  <2>1. UnspendOutputsAbove(outputs, probe) \in [Keys -> OutputRecord \union {None}]
    BY <1>0, RollbackOperationsType DEF TypeInv, TypeOK
  <2>2. UnspendKeysAbove(spentKeys, outputs, probe) \subseteq Keys
    BY DEF UnspendKeysAbove, TypeInv, TypeOK
  <2> QED
    BY <1>3, <2>1, <2>2 DEF RollbackSpends, TypeInv, TypeOK, InBlock, vars, callerVars, storeVars, engineVars, heightVars,
         scanVars, Goto, Places, SYNC_STATUS, Heights, Syncing
<1>4. ASSUME RollbackHashes PROVE TypeInv'
  <2>1. DeleteBlockHashesAbove(hashes, probe) \in [Heights -> Hashes \union {None}]
    BY <1>0, RollbackOperationsType DEF TypeInv, TypeOK
  <2>2. probe + 1 \in 0 .. MaxHeight
    BY <1>0, StoreAssumption DEF Heights
  <2> QED
    BY <1>4, <2>1, <2>2, EmptySequence, StoreAssumption DEF RollbackHashes, TypeInv, TypeOK, InBlock, vars, callerVars, storeVars, engineVars, heightVars,
         scanVars, Goto, Places, SYNC_STATUS, Heights, Syncing
<1>5. ASSUME RollbackSyncHeight PROVE TypeInv'
  BY <1>5 DEF RollbackSyncHeight, TypeInv, TypeOK, InBlock, vars, callerVars, storeVars, engineVars, heightVars,
         scanVars, Goto, Places, SYNC_STATUS, Heights, Syncing
<1> QED BY <1>1, <1>2, <1>3, <1>4, <1>5

\* The header range that is asked for begins at currentHeight and ends below
\* the daemon's tip.
LEMMA TypeGetHeaders ==
    ASSUME TypeInv, NEW n \in 1 .. MaxBatch, GetHeaders(n)
    PROVE  TypeInv'
<1>1. /\ currentHeight \in Nat /\ targetHeight \in Nat /\ n \in Nat /\ n > 0
      /\ currentHeight < targetHeight
      /\ BatchEnd(n) <= Len(chain)
  BY StoreAssumption, WalletAssumption DEF GetHeaders, TypeInv, TypeOK
<1>2. /\ BatchEnd(n) \in Nat /\ currentHeight < BatchEnd(n)
  BY <1>1 DEF BatchEnd
<1>3. chain \in Seq(Hashes) /\ Len(chain) \in Nat /\ Len(chain) <= MaxHeight
  BY ChainFacts, StoreAssumption DEF TypeInv, TypeOK
<1>4. /\ headers' \in Seq(Hashes)
      /\ Len(headers') = BatchEnd(n) - currentHeight
  <2>1. headers' = SubSeq(chain, currentHeight + 1, BatchEnd(n))
    BY DEF GetHeaders
  <2> QED BY <1>1, <1>2, <1>3, <2>1
<1>5. currentHeight' + Len(headers') <= MaxHeight
  BY <1>1, <1>2, <1>3, <1>4, StoreAssumption DEF GetHeaders, heightVars
<1> QED
  BY <1>4, <1>5 DEF GetHeaders, TypeInv, TypeOK, InBlock, vars, callerVars, storeVars, engineVars,
         heightVars, scanVars, Goto, Places, SYNC_STATUS, Heights, Syncing

\* Fetching, ending and saving a batch keep the types: the batch never
\* passes the highest block.
LEMMA TypeBatch ==
    TypeInv /\ (SyncEnds \/ BatchDone \/ SaveSyncHeight) => TypeInv'
<1> SUFFICES ASSUME TypeInv, SyncEnds \/ BatchDone \/ SaveSyncHeight PROVE TypeInv'
  OBVIOUS
<1>1. CASE SyncEnds
  BY <1>1 DEF SyncEnds, TypeInv, TypeOK, InBlock, vars, callerVars, storeVars, engineVars,
         heightVars, scanVars, Goto, Places, SYNC_STATUS, Heights, Syncing
<1>2. CASE BatchDone
  BY <1>2, EmptySequence, StoreAssumption DEF BatchDone, TypeInv, TypeOK, InBlock, vars, callerVars, storeVars, engineVars,
         heightVars, scanVars, Goto, Places, SYNC_STATUS, Heights, Syncing
<1>3. CASE SaveSyncHeight
  BY <1>3 DEF SaveSyncHeight, TypeInv, TypeOK, InBlock, vars, callerVars, storeVars, engineVars,
         heightVars, scanVars, Goto, Places, SYNC_STATUS, Heights, Syncing
<1> QED BY <1>1, <1>2, <1>3

\* Fetching a block keeps the types.
LEMMA TypeGetBlock ==
    TypeInv /\ (GetBlock \/ GetTransactions) => TypeInv'
<1> SUFFICES ASSUME TypeInv, GetBlock \/ GetTransactions PROVE TypeInv'
  OBVIOUS
<1>1. CASE GetBlock
  <2>1. block' \in Hashes
    BY <1>1, ChainFacts, StoreAssumption
       DEF GetBlock, HasBlock, BlockAt, MoreHeaders, TypeInv, TypeOK
  <2>2. todo' \subseteq Txs
    BY <1>1, <2>1, WalletAssumption DEF GetBlock
  <2> QED
    BY <1>1, <2>1, <2>2 DEF GetBlock, MoreHeaders, TypeInv, TypeOK, InBlock, vars, callerVars, storeVars, engineVars,
         heightVars, scanVars, Goto, Places, SYNC_STATUS, Heights, Syncing
<1>2. CASE GetTransactions
  <2>1. todo' \subseteq Txs
    BY <1>2, WalletAssumption DEF GetTransactions, TypeInv, TypeOK, InBlock
  <2> QED
    BY <1>2, <2>1 DEF GetTransactions, TypeInv, TypeOK, InBlock, vars, callerVars, storeVars, engineVars,
         heightVars, scanVars, Goto, Places, SYNC_STATUS, Heights, Syncing
<1> QED BY <1>1, <1>2

\* Inside a block the current height is below MaxHeight.
LEMMA CurrentHeightInBlock == TypeInv /\ InBlock => currentHeight \in Heights
<1> SUFFICES ASSUME TypeInv, InBlock PROVE currentHeight \in Heights
  OBVIOUS
<1>1. headers \in Seq(Hashes) /\ headers # <<>>
  BY DEF TypeInv, TypeOK
<1>2. Len(headers) \in Nat /\ Len(headers) > 0
  BY <1>1
<1> QED BY <1>2, StoreAssumption DEF TypeInv, TypeOK, Heights

\* Advancing over a header keeps the height within the bound.
LEMMA TypePutHash == TypeInv /\ PutHash => TypeInv'
<1> SUFFICES ASSUME TypeInv, PutHash PROVE TypeInv'
  OBVIOUS
<1>1. headers \in Seq(Hashes) /\ headers # <<>>
  BY DEF PutHash, TypeInv, TypeOK, InBlock
<1>2. /\ Head(headers) \in Hashes /\ Tail(headers) \in Seq(Hashes)
      /\ Len(Tail(headers)) = Len(headers) - 1
  BY <1>1
<1>3. currentHeight \in Heights
  BY CurrentHeightInBlock DEF PutHash, InBlock
<1>4. hashes' \in [Heights -> Hashes \union {None}]
  BY <1>2, <1>3 DEF PutHash, PutBlockHash, TypeInv, TypeOK
<1>5. currentHeight' \in 0 .. MaxHeight /\ currentHeight' + Len(headers') <= MaxHeight
  <2>1. Len(headers) \in Nat
    BY <1>1
  <2> QED BY <1>2, <1>3, <2>1, StoreAssumption DEF PutHash, TypeInv, TypeOK, Heights
<1> QED
  BY <1>2, <1>4, <1>5 DEF PutHash, TypeInv, TypeOK, InBlock, vars, callerVars, storeVars, engineVars,
         heightVars, scanVars, Goto, Places, SYNC_STATUS, Heights, Syncing

\* The choice of the next transaction, and giving one up.
LEMMA TypeTransactionChoice ==
    ASSUME TypeInv,
           TransactionFails \/ \E t \in Txs : SkipTransaction(t) \/ TakeTransaction(t)
    PROVE  TypeInv'
<1>1. ASSUME NEW t \in Txs, SkipTransaction(t) PROVE TypeInv'
  BY <1>1 DEF SkipTransaction, TypeInv, TypeOK, InBlock, vars, callerVars, storeVars, engineVars,
         heightVars, scanVars, Goto, Places, SYNC_STATUS, Heights, Syncing
<1>2. ASSUME NEW t \in Txs, TakeTransaction(t) PROVE TypeInv'
  <2>1. cur' \in Transaction
    BY <1>2, WalletAssumption DEF TakeTransaction, Transaction, InputsChecked
  <2> QED
    BY <1>2, <2>1 DEF TakeTransaction, TypeInv, TypeOK, InBlock, vars, callerVars, storeVars, engineVars,
         heightVars, scanVars, Goto, Places, SYNC_STATUS, Heights, Syncing
<1>3. CASE TransactionFails
  BY <1>3 DEF TransactionFails, NextTransaction, TypeInv, TypeOK, InBlock, vars, callerVars, storeVars, engineVars,
         heightVars, scanVars, Goto, Places, SYNC_STATUS, Heights, Syncing
<1> QED BY <1>1, <1>2, <1>3

\* Storing an owned output keeps the types.
LEMMA TypePutOwnedOutput ==
    ASSUME TypeInv, NEW o \in Outs, PutOwnedOutput(o)
    PROVE  TypeInv'
<1>1. cur \in Transaction /\ currentHeight \in Heights
  BY CurrentHeightInBlock DEF PutOwnedOutput, TypeInv, InBlock
<1>2. outputs' \in [Keys -> OutputRecord \union {None}]
  <2>1. outputs \in [Keys -> OutputRecord \union {None}] /\ KeyOf[o] \in Keys
    BY WalletAssumption DEF TypeInv, TypeOK
  <2>2. PutOutput(outputs, KeyOf[o], NewOutput(o, currentHeight))
          \in [Keys -> OutputRecord \union {None}]
    BY <1>1, <2>1, OutputOperationsType
  <2> QED BY <2>2 DEF PutOwnedOutput
<1>3. cur' \in Transaction
  BY <1>1 DEF PutOwnedOutput, Transaction
<1>4. spentKeys' \subseteq Keys
  BY WalletAssumption DEF PutOwnedOutput, PutKeyState, TypeInv, TypeOK
<1> QED
  BY <1>2, <1>3, <1>4 DEF PutOwnedOutput, TypeInv, TypeOK, InBlock, vars, callerVars, storeVars, engineVars,
         heightVars, scanVars, Goto, Places, SYNC_STATUS, Heights, Syncing

\* Both halves of the input check keep the types.
LEMMA TypeInputs ==
    ASSUME TypeInv, MarkInput \/ \E k \in Keys : CheckInput(k)
    PROVE  TypeInv'
<1>1. cur \in Transaction /\ currentHeight \in Heights
  BY CurrentHeightInBlock DEF CheckInput, MarkInput, TypeInv, InBlock
<1>2. ASSUME NEW k \in Keys, CheckInput(k) PROVE TypeInv'
  <2>1. cur' \in Transaction
    BY <1>1, <1>2 DEF CheckInput, Transaction
  <2> QED
    BY <1>2, <2>1 DEF CheckInput, TypeInv, TypeOK, InBlock, vars, callerVars, storeVars, engineVars,
         heightVars, scanVars, Goto, Places, SYNC_STATUS, Heights, Syncing
<1>3. CASE MarkInput
  <2>0. cur.found \in Keys /\ cur.tx \in Txs
    BY <1>1, <1>3 DEF MarkInput, Transaction
  <2>1. outputs' \in [Keys -> OutputRecord \union {None}]
    <3>1. \A k1 \in Keys, t1 \in Txs, h1 \in Heights :
             MarkOutputSpent(outputs, k1, t1, h1) \in [Keys -> OutputRecord \union {None}]
      <4>1. outputs \in [Keys -> OutputRecord \union {None}]
        BY DEF TypeInv, TypeOK
      <4> HIDE DEF TypeInv
      <4> QED BY <4>1, MarkType
    <3> QED BY <1>1, <1>3, <2>0, <3>1 DEF MarkInput
  <2>2. spentKeys' \subseteq Keys
    BY <1>3, <2>0 DEF MarkInput, MarkKeySpent, TypeInv, TypeOK
  <2>3. cur' \in Transaction
    BY <1>1, <1>3, <2>0 DEF MarkInput, Transaction
  <2> QED
    BY <1>3, <2>1, <2>2, <2>3 DEF MarkInput, TypeInv, TypeOK, InBlock, vars, callerVars, storeVars, engineVars,
         heightVars, scanVars, Goto, Places, SYNC_STATUS, Heights, Syncing
<1> QED BY <1>2, <1>3

\* Recording a transaction keeps the types.
LEMMA TypeRecordTransaction == TypeInv /\ RecordTransaction => TypeInv'
<1> SUFFICES ASSUME TypeInv, RecordTransaction PROVE TypeInv'
  OBVIOUS
<1>1. cur \in Transaction /\ currentHeight \in Heights
  BY CurrentHeightInBlock DEF RecordTransaction, TypeInv, InBlock
<1>2. txs' \in [Txs -> TxRecord \union {None}]
  <2>1. [blockHeight |-> currentHeight, received |-> Creates[cur.tx],
         spent |-> cur.spent] \in TxRecord
    BY <1>1, WalletAssumption DEF TxRecord, Transaction
  <2> QED
    BY <1>1, <2>1 DEF RecordTransaction, PutTransaction, TypeInv, TypeOK, Transaction
<1>3. cur' = NoTransaction /\ pc' \in {"embedded", "regular"}
  BY DEF RecordTransaction, NextTransaction, Goto
<1> QED
  BY <1>2, <1>3 DEF RecordTransaction, TypeInv, TypeOK, InBlock, vars, callerVars, storeVars, engineVars,
         heightVars, scanVars, Goto, Places, SYNC_STATUS, Heights, Syncing

\* start(), called with a height or by a rescan.
LEMMA TypeBegin ==
    ASSUME TypeInv, NEW h \in 0 .. MaxHeight, ~Syncing, Begin(h),
           UNCHANGED <<chain, storeVars>>,
           rescanCall' \in RescanCall \union {NoRescan}
    PROVE  TypeInv'
<1>1. headers = <<>>
  BY DEF TypeInv, InBlock
<1>2. currentHeight' + Len(headers') <= MaxHeight
  BY <1>1, EmptySequence, StoreAssumption DEF Begin, scanVars
<1>3. status' = "syncing" /\ pc' = "info" /\ pc = "idle"
  BY DEF Begin, Goto, TypeInv, Syncing
<1> QED
  BY <1>1, <1>2, <1>3
     DEF Begin, TypeInv, TypeOK, InBlock, storeVars, scanVars, Places,
         SYNC_STATUS, Syncing

\* A rescan that clears the storage or saves its height.
LEMMA TypeRescan ==
    ASSUME TypeInv, RescanSetHeight \/ \E h \in RescanHeights : RescanClear(h)
    PROVE  TypeInv'
<1>1. /\ outputs' \in [Keys -> OutputRecord \union {None}]
      /\ txs' \in [Txs -> TxRecord \union {None}]
      /\ hashes' \in [Heights -> Hashes \union {None}]
      /\ spentKeys' \subseteq Keys
      /\ syncHeight' \in 0 .. MaxHeight
      /\ rescanCall' \in RescanCall \union {NoRescan}
  <2>1. CASE \E h \in RescanHeights : RescanClear(h)
    BY <2>1, EmptyTablesType, WalletAssumption, StoreAssumption
       DEF RescanClear, RescanCall
  <2>2. CASE RescanSetHeight
    <3>1. rescanCall \in RescanCall
      BY <2>2 DEF RescanSetHeight, TypeInv, TypeOK, NoRescan
    <3> QED
      BY <2>2, <3>1 DEF RescanSetHeight, RescanCall, TypeInv, TypeOK
  <2> QED BY <2>1, <2>2
<1>2. UNCHANGED <<chain, engineVars>>
  BY DEF RescanClear, RescanSetHeight
<1> QED
  BY <1>1, <1>2 DEF TypeInv, TypeOK, InBlock, vars, callerVars, storeVars, engineVars,
         heightVars, scanVars, Goto, Places, SYNC_STATUS, Heights, Syncing

\* start(), stop(), rescan() and a crash keep the types.
LEMMA TypeCallers == TypeInv /\ (CallerStep \/ Crash) => TypeInv'
<1> SUFFICES ASSUME TypeInv, CallerStep \/ Crash PROVE TypeInv'
  OBVIOUS
<1>1. CASE Crash
  <2>1. 0 \in 0 .. MaxHeight /\ 0 \in Heights
    BY StoreAssumption DEF Heights
  <2>2. UNCHANGED <<chain, outputs, txs, hashes, spentKeys, syncHeight>>
    BY <1>1 DEF Crash, storeVars
  <2>3. /\ status' = "idle" /\ pc' = "idle" /\ stopRequested' = FALSE
        /\ startHeight' = 0 /\ currentHeight' = 0 /\ targetHeight' = 0 /\ probe' = 0
        /\ headers' = <<>> /\ block' = None /\ todo' = {} /\ cur' = NoTransaction
        /\ rescanCall' = NoRescan
    BY <1>1 DEF Crash, ScanAbandoned
  <2>4. /\ headers' \in Seq(Hashes)
        /\ currentHeight' + Len(headers') <= MaxHeight
    BY <2>1, <2>3, EmptySequence, StoreAssumption
  <2>5. TypeOK'
    BY <2>1, <2>2, <2>3, <2>4 DEF TypeInv, TypeOK, Places, SYNC_STATUS
  <2> QED
    BY <2>3, <2>5 DEF TypeInv, InBlock, Syncing
<1>2. CASE Stop
  BY <1>2 DEF Stop, TypeInv, TypeOK, InBlock, vars, callerVars, storeVars, engineVars,
         heightVars, scanVars, Goto, Places, SYNC_STATUS, Heights, Syncing
<1>3. ASSUME NEW h \in StartHeights \union {None}, Start(h) PROVE TypeInv'
  <2>1. ~Syncing /\ Begin(IF h = None THEN syncHeight ELSE h)
    BY <1>3 DEF Start
  <2>2. (IF h = None THEN syncHeight ELSE h) \in 0 .. MaxHeight
    BY WalletAssumption DEF TypeInv, TypeOK
  <2>3. UNCHANGED <<chain, storeVars>> /\ rescanCall' \in RescanCall \union {NoRescan}
    BY <1>3 DEF Start, callerVars, TypeInv, TypeOK
  <2> QED BY <2>1, <2>2, <2>3, TypeBegin
<1>4. CASE RescanStart
  <2>1. CASE Syncing
    BY <1>4, <2>1 DEF RescanStart, TypeInv, TypeOK, InBlock, vars, callerVars, storeVars, engineVars,
         heightVars, scanVars, Goto, Places, SYNC_STATUS, Heights, Syncing
  <2>2. CASE ~Syncing
    <3>1. rescanCall.from \in 0 .. MaxHeight
      BY <1>4 DEF RescanStart, NoRescan, RescanCall, TypeInv, TypeOK
    <3>2. Begin(rescanCall.from) /\ UNCHANGED <<chain, storeVars>> /\ rescanCall' = NoRescan
      BY <1>4, <2>2 DEF RescanStart
    <3> QED BY <2>2, <3>1, <3>2, TypeBegin
  <2> QED BY <2>1, <2>2
<1>5. CASE RescanSetHeight \/ \E h \in RescanHeights : RescanClear(h)
  BY <1>5, TypeRescan
<1> QED BY <1>1, <1>2, <1>3, <1>4, <1>5 DEF CallerStep

\* Every step of the engine keeps the types.
LEMMA TypeEngine == TypeInv /\ EngineStep => TypeInv'
<1> SUFFICES ASSUME TypeInv, EngineStep PROVE TypeInv'
  OBVIOUS
<1>1. CASE \/ GetInfo \/ Recheck
           \/ GetInfoFails \/ GetBlockFails \/ StoreFails \/ RollbackFails
  BY <1>1, TypeGetInfo, TypeFails
<1>2. CASE \/ TipMatches \/ TipDiffers \/ AncestorFound \/ AncestorLower
           \/ RollbackOutputs \/ RollbackTransactions \/ RollbackSpends
           \/ RollbackHashes \/ RollbackSyncHeight
  BY <1>2, TypeTip, TypeRollback
<1>3. CASE SyncEnds \/ BatchDone \/ SaveSyncHeight \/ GetBlock \/ GetTransactions \/ PutHash
  BY <1>3, TypeBatch, TypeGetBlock, TypePutHash
<1>4. CASE \E n \in 1 .. MaxBatch : GetHeaders(n) \/ GetHeadersFails(n)
  <2>2. PICK n \in 1 .. MaxBatch : GetHeaders(n) \/ GetHeadersFails(n)
    BY <1>4
  <2>3. CASE GetHeaders(n)
    BY <2>3, TypeGetHeaders
  <2>4. CASE GetHeadersFails(n)
    BY <2>4, TypeFail DEF GetHeadersFails
  <2> QED BY <2>2, <2>3, <2>4
<1>5. CASE TransactionFails \/ \E t \in Txs : SkipTransaction(t) \/ TakeTransaction(t)
  BY <1>5, TypeTransactionChoice
<1>6. CASE (\E o \in Outs : PutOwnedOutput(o)) \/ RecordTransaction
  BY <1>6, TypePutOwnedOutput, TypeRecordTransaction
<1>7. CASE MarkInput \/ \E k \in Keys : CheckInput(k)
  BY <1>7, TypeInputs
<1> QED
  BY <1>1, <1>2, <1>3, <1>4, <1>5, <1>6, <1>7 DEF EngineStep

\* Every step keeps the types.
LEMMA NextTypeInv == TypeInv /\ [Next]_vars => TypeInv'
<1>1. TypeInv /\ UNCHANGED vars => TypeInv'
  BY DEF TypeInv, TypeOK, InBlock, Syncing, vars, callerVars, storeVars,
         engineVars, heightVars, scanVars
<1> QED
  BY <1>1, TypeEngine, TypeCallers, TypeChainMoves DEF Next

\* Every variable keeps its type, whatever chains, wallet and faults the
\* constants allow: in particular the engine never stores a block hash or an
\* output outside the heights of the chains, and never processes a block
\* without a header (_syncBatch, _processBlock, _handleWalletReorg).
THEOREM TypeCorrect == Spec => []TypeOK
<1>1. Spec => []TypeInv
  BY InitTypeInv, NextTypeInv, PTL DEF Spec
<1>2. TypeInv => TypeOK
  BY DEF TypeInv
<1> QED BY <1>1, <1>2, PTL

-----------------------------------------------------------------------------
(***************************************************************************)
(* The hashes cover the saved height                                        *)
(***************************************************************************)
\* No crash and no storage failure separates the steps of a rollback.
WholeRollbacks == Events \cap {"crash", "storeError"} = {}

\* Moreover nothing is scanned again, and start() is only called without a
\* height.  The daemon may fail and reorganise at any time, transactions may be
\* skipped or given up.
OrderlyStorage ==
    /\ WholeRollbacks
    /\ Events \cap {"rescan", "rescanBusy"} = {}
    /\ StartHeights = {}

\* Every height below n has a stored hash.
Covered(n) == \A h \in Heights : h < n => hashes[h] # None

\* A rollback has been decided, and the hashes are still there.
BeforeHashesGo == pc \in {"ancestor", "rollbackOutputs", "rollbackTxs",
                          "rollbackSpends", "rollbackHashes"}

\* Why the hashes cover the saved height: the running sync has covered all it
\* has passed, never falls behind the saved height but between the last two
\* steps of a rollback, and looks for the common ancestor only below it.
CoverInv ==
    /\ pc # "rollbackSync" => Covered(syncHeight)
    /\ Syncing => Covered(currentHeight)
    /\ Syncing /\ pc # "rollbackSync" => currentHeight >= syncHeight
    /\ pc \in {"info", "tip"} => startHeight = syncHeight
    /\ BeforeHashesGo => probe < syncHeight
    /\ pc = "rollbackSync" => startHeight = currentHeight

\* The steps that touch neither a height nor a hash.
LEMMA CoverUntouched ==
    ASSUME TypeInv, CoverInv,
           UNCHANGED <<hashes, syncHeight, currentHeight, startHeight>>,
           Syncing' => Syncing,
           pc # "rollbackSync", pc' \notin {"rollbackSync", "info", "tip"},
           pc' \in {"ancestor", "rollbackOutputs", "rollbackTxs",
                   "rollbackSpends", "rollbackHashes"} => probe' < syncHeight
    PROVE  CoverInv'
BY DEF CoverInv, Covered, BeforeHashesGo, Heights

\* A rollback keeps the hashes below the saved height until it has
\* lowered that height.
LEMMA CoverRollback ==
    ASSUME TypeInv, CoverInv,
           \/ TipDiffers \/ AncestorFound \/ AncestorLower
           \/ RollbackOutputs \/ RollbackTransactions \/ RollbackSpends
           \/ RollbackHashes \/ RollbackSyncHeight
    PROVE  CoverInv'
<1>0. /\ syncHeight \in 0 .. MaxHeight /\ startHeight \in 0 .. MaxHeight
      /\ currentHeight \in 0 .. MaxHeight /\ probe \in 0 .. MaxHeight - 1
      /\ MaxHeight \in Nat
  BY StoreAssumption DEF TypeInv, TypeOK, Heights
<1>1. CASE \/ TipDiffers \/ AncestorFound \/ AncestorLower
           \/ RollbackOutputs \/ RollbackTransactions \/ RollbackSpends
  <2>1. /\ UNCHANGED <<hashes, syncHeight, currentHeight, startHeight, status>>
        /\ pc # "rollbackSync" /\ pc' \notin {"rollbackSync", "info", "tip"}
    BY <1>1 DEF TipDiffers, AncestorFound, AncestorLower, RollbackOutputs,
         RollbackTransactions, RollbackSpends, Goto, callerVars, storeVars, heightVars
  <2>2. probe' < syncHeight
    <3>1. CASE TipDiffers
      BY <1>0, <3>1 DEF TipDiffers, TipIsStale, TipHeight, CoverInv
    <3>2. CASE ~TipDiffers
      <4>1. BeforeHashesGo /\ (probe' = probe \/ (probe # 0 /\ probe' = probe - 1))
        BY <1>1, <3>2 DEF AncestorFound, AncestorLower, RollbackOutputs,
             RollbackTransactions, RollbackSpends, BeforeHashesGo
      <4> QED BY <1>0, <4>1 DEF CoverInv
    <3> QED BY <3>1, <3>2
  <2> QED BY <2>1, <2>2, CoverUntouched DEF Syncing
<1>2. CASE RollbackHashes
  <2>1. Covered(probe + 1)
    BY <1>0, <1>2 DEF RollbackHashes, CoverInv, Covered, BeforeHashesGo, Heights
  <2>2. /\ startHeight' = probe + 1 /\ currentHeight' = probe + 1
        /\ pc' = "rollbackSync"
        /\ \A h \in Heights : h < probe + 1 => hashes'[h] = hashes[h]
    BY <1>0, <1>2 DEF RollbackHashes, DeleteBlockHashesAbove, Goto, callerVars, Heights
  <2> QED
    BY <1>0, <2>1, <2>2 DEF CoverInv, Covered, BeforeHashesGo, Heights
<1>3. CASE RollbackSyncHeight
  <2>1. /\ pc = "rollbackSync" /\ pc' = "loop" /\ syncHeight' = startHeight
        /\ UNCHANGED <<hashes, status, startHeight, currentHeight>>
    BY <1>3 DEF RollbackSyncHeight, Goto, callerVars, heightVars
  <2>2. Syncing /\ Covered(currentHeight) /\ startHeight = currentHeight
    BY <2>1 DEF CoverInv, TypeInv
  <2> QED
    BY <1>0, <2>1, <2>2 DEF CoverInv, Covered, BeforeHashesGo, Syncing
<1> QED BY <1>1, <1>2, <1>3

\* A processed block has its hash stored before the height moves on.
LEMMA CoverPutHash ==
    ASSUME TypeInv, CoverInv, PutHash
    PROVE  CoverInv'
<1>1. currentHeight \in Heights
  BY CurrentHeightInBlock DEF PutHash, InBlock
<1>2. Head(headers) \in Hashes /\ Head(headers) # None
  <2>1. headers \in Seq(Hashes) /\ headers # <<>>
    BY DEF PutHash, TypeInv, TypeOK, InBlock
  <2> QED BY <2>1, StoreAssumption
<1>3. \A h \in Heights : hashes'[h] = IF h = currentHeight THEN Head(headers) ELSE hashes[h]
  BY <1>1 DEF PutHash, PutBlockHash, TypeInv, TypeOK
<1>4. /\ currentHeight' = currentHeight + 1 /\ pc' = "block" /\ pc = "regular"
      /\ UNCHANGED <<syncHeight, startHeight, status>>
  BY DEF PutHash, Goto, callerVars
<1>5. Syncing /\ Covered(currentHeight) /\ Covered(syncHeight) /\ currentHeight >= syncHeight
  BY <1>4 DEF CoverInv, TypeInv
<1>6. /\ \A h \in Heights : h < currentHeight + 1 => hashes'[h] # None
      /\ \A h \in Heights : h < syncHeight => hashes'[h] # None
  BY <1>1, <1>2, <1>3, <1>5 DEF Covered, Heights
<1>7. currentHeight + 1 >= syncHeight
  BY <1>1, <1>5 DEF Heights, TypeInv, TypeOK
<1> QED
  BY <1>4, <1>6, <1>7 DEF CoverInv, Covered, BeforeHashesGo, Syncing

\* Every step of the engine keeps the cover.
LEMMA CoverEngine ==
    ASSUME WholeRollbacks, TypeInv, CoverInv, EngineStep
    PROVE  CoverInv'
<1>1. ~("storeError" \in Events)
  BY DEF WholeRollbacks
<1>2. CASE \/ TipDiffers \/ AncestorFound \/ AncestorLower
           \/ RollbackOutputs \/ RollbackTransactions \/ RollbackSpends
           \/ RollbackHashes \/ RollbackSyncHeight \/ PutHash
  BY <1>2, CoverRollback, CoverPutHash
<1>3. CASE RollbackFails \/ StoreFails
  BY <1>1, <1>3 DEF RollbackFails, StoreFails
<1>4. CASE GetInfo
  BY <1>4 DEF GetInfo, Goto, callerVars, storeVars, CoverInv, Covered, BeforeHashesGo, Syncing
<1>5. CASE SaveSyncHeight
  <2>1. /\ pc = "save" /\ pc' \in {"recheck", "loop"} /\ syncHeight' = currentHeight
        /\ UNCHANGED <<hashes, status, startHeight, currentHeight>>
    BY <1>5 DEF SaveSyncHeight, Goto, callerVars, heightVars
  <2>2. Syncing /\ Covered(currentHeight)
    BY <2>1 DEF CoverInv, TypeInv
  <2>3. currentHeight >= currentHeight
    BY DEF TypeInv, TypeOK
  <2> QED
    BY <2>1, <2>2, <2>3 DEF CoverInv, Covered, BeforeHashesGo, Syncing
<1>6. ASSUME UNCHANGED <<hashes, syncHeight, currentHeight, startHeight>>,
             Syncing' => Syncing, pc # "rollbackSync",
             pc' \notin {"rollbackSync", "info", "tip", "ancestor", "rollbackOutputs",
                       "rollbackTxs", "rollbackSpends", "rollbackHashes"}
      PROVE  CoverInv'
  BY <1>6, CoverUntouched
<1>7. CASE Fail /\ pc # "rollbackSync"
  BY <1>6, <1>7 DEF Fail, Goto, callerVars, storeVars, heightVars, Syncing
<1>8. CASE GetInfoFails \/ GetBlockFails \/ (\E n \in 1 .. MaxBatch : GetHeadersFails(n))
  BY <1>7, <1>8 DEF GetInfoFails, GetBlockFails, GetHeadersFails, MoreHeaders
<1>9. CASE TipMatches \/ SyncEnds \/ BatchDone \/ GetBlock \/ GetTransactions \/ Recheck
  BY <1>6, <1>9 DEF TipMatches, SyncEnds, BatchDone, GetBlock, MoreHeaders,
       GetTransactions, Recheck, Goto, callerVars, storeVars, heightVars, Syncing
<1>10. CASE \E n \in 1 .. MaxBatch : GetHeaders(n)
  BY <1>6, <1>10 DEF GetHeaders, Goto, callerVars, storeVars, heightVars, Syncing
<1>11. CASE \/ \E t \in Txs : SkipTransaction(t) \/ TakeTransaction(t)
            \/ \E o \in Outs : PutOwnedOutput(o)
            \/ \E k \in Keys : CheckInput(k)
  BY <1>6, <1>11 DEF SkipTransaction, TakeTransaction, PutOwnedOutput,
       CheckInput, Goto, callerVars, storeVars, heightVars, Syncing
<1>12. CASE MarkInput \/ RecordTransaction \/ TransactionFails
  BY <1>6, <1>12 DEF MarkInput, RecordTransaction, TransactionFails,
       NextTransaction, Goto, callerVars, storeVars, heightVars, Syncing
<1> QED
  BY <1>2, <1>3, <1>4, <1>5, <1>8, <1>9, <1>10, <1>11, <1>12 DEF EngineStep

\* No step of the engine touches a waiting rescan() (or the daemon's chain).
LEMMA EngineLeavesCallers == EngineStep => UNCHANGED callerVars
<1> SUFFICES ASSUME EngineStep PROVE UNCHANGED callerVars
  OBVIOUS
<1>1. Fail => UNCHANGED callerVars
  BY DEF Fail
<1>2. CASE \/ GetInfoFails \/ GetBlockFails \/ StoreFails \/ RollbackFails
           \/ \E n \in 1 .. MaxBatch : GetHeaders(n) \/ GetHeadersFails(n)
  BY <1>1, <1>2 DEF GetInfoFails, GetBlockFails, StoreFails, RollbackFails,
       GetHeaders, GetHeadersFails
<1>3. CASE \/ GetInfo \/ Recheck \/ TipMatches \/ TipDiffers \/ AncestorFound
           \/ AncestorLower \/ SyncEnds \/ BatchDone \/ GetBlock \/ GetTransactions
           \/ TransactionFails \/ SaveSyncHeight \/ RollbackSyncHeight
  BY <1>3 DEF GetInfo, Recheck, TipMatches, TipDiffers, AncestorFound,
       AncestorLower, SyncEnds, BatchDone, GetBlock, GetTransactions,
       TransactionFails, SaveSyncHeight, RollbackSyncHeight
<1>4. CASE \/ RollbackOutputs \/ RollbackTransactions \/ RollbackSpends
           \/ RollbackHashes \/ PutHash \/ MarkInput \/ RecordTransaction
           \/ \E t \in Txs : SkipTransaction(t) \/ TakeTransaction(t)
           \/ \E o \in Outs : PutOwnedOutput(o)
           \/ \E k \in Keys : CheckInput(k)
  BY <1>4 DEF RollbackOutputs, RollbackTransactions, RollbackSpends,
       RollbackHashes, PutHash, MarkInput, RecordTransaction, SkipTransaction,
       TakeTransaction, PutOwnedOutput, CheckInput
<1> QED BY <1>2, <1>3, <1>4 DEF EngineStep

\* A sync that begins at the saved height keeps the cover.
LEMMA CoverStart ==
    ASSUME TypeInv, CoverInv, ~Syncing, Begin(syncHeight), UNCHANGED <<hashes, syncHeight>>
    PROVE  CoverInv'
<1>1. /\ pc = "idle" /\ pc' = "info"
      /\ startHeight' = syncHeight /\ currentHeight' = syncHeight
  BY DEF Begin, Goto, TypeInv
<1>2. syncHeight >= syncHeight
  BY DEF TypeInv, TypeOK
<1> QED
  BY <1>1, <1>2 DEF CoverInv, Covered, BeforeHashesGo

\* So do stop() and the daemon.
LEMMA CoverQuiet ==
    ASSUME CoverInv, ChainMoves \/ Stop \/ UNCHANGED vars
    PROVE  CoverInv'
BY DEF ChainMoves, Stop, vars, callerVars, storeVars, engineVars,
   heightVars, CoverInv, Covered, BeforeHashesGo, Syncing

\* start() without a height begins at the saved height.
LEMMA StartIsBegin ==
    ASSUME Start(None)
    PROVE  ~Syncing /\ Begin(syncHeight) /\ UNCHANGED <<callerVars, storeVars>>
BY DEF Start, Begin

\* Nobody rescans a wallet that keeps its storage in order.
LEMMA NobodyRescans ==
    ASSUME OrderlyStorage, rescanCall = NoRescan,
           Crash \/ RescanSetHeight \/ RescanStart \/ \E h \in RescanHeights : RescanClear(h)
    PROVE  FALSE
BY DEF Crash, RescanSetHeight, RescanStart, RescanClear, OrderlyStorage,
   WholeRollbacks, NoRescan

\* So no rescan() is ever waiting.
LEMMA NoRescanStep ==
    ASSUME OrderlyStorage, rescanCall = NoRescan, [Next]_vars
    PROVE  rescanCall' = NoRescan
<1>1. CASE EngineStep
  BY <1>1, EngineLeavesCallers DEF callerVars
<1>2. CASE ChainMoves \/ Stop \/ UNCHANGED vars
  BY <1>2 DEF ChainMoves, Stop, vars, callerVars, engineVars
<1>3. CASE \E h \in StartHeights \union {None} : Start(h)
  BY <1>3 DEF Start, callerVars
<1> QED BY <1>1, <1>2, <1>3, NobodyRescans DEF Next, CallerStep

\* Callers and the daemon keep the cover.
LEMMA CoverOthers ==
    ASSUME OrderlyStorage, TypeInv, CoverInv, rescanCall = NoRescan,
           CallerStep \/ ChainMoves \/ Crash \/ UNCHANGED vars
    PROVE  CoverInv'
<1>1. ASSUME NEW h \in StartHeights \union {None}, Start(h) PROVE CoverInv'
  <2>1. h = None
    BY DEF OrderlyStorage
  <2>2. ~Syncing /\ Begin(syncHeight) /\ UNCHANGED storeVars
    BY <1>1, <2>1, StartIsBegin
  <2>3. UNCHANGED <<hashes, syncHeight>>
    BY <2>2 DEF storeVars
  <2> QED BY <2>2, <2>3, CoverStart
<1> QED BY <1>1, CoverQuiet, NobodyRescans DEF CallerStep

\* Every step keeps the cover.
LEMMA CoverStep ==
    ASSUME OrderlyStorage, TypeInv, CoverInv, rescanCall = NoRescan, [Next]_vars
    PROVE  CoverInv'
BY CoverEngine, CoverOthers DEF Next, OrderlyStorage

\* The cover holds as long as nothing is synchronised, as in a new wallet.
LEMMA NothingToCover ==
    pc = "idle" /\ ~Syncing /\ syncHeight = 0 => CoverInv
BY DEF CoverInv, Covered, BeforeHashesGo, Heights

LEMMA InitCoverInv == Init => CoverInv
BY NothingToCover DEF Init, Syncing

\* As long as nothing separates the steps of a rollback, every block below the
\* saved height has its hash stored, however often the daemon fails, the chain
\* reorganises or transactions are skipped: the next _detectReorg never takes
\* a synchronised wallet for a first sync.
THEOREM HashesCovered == ASSUME OrderlyStorage PROVE Spec => []HashesCoverSync
<1>1. Spec => []TypeInv
  BY InitTypeInv, NextTypeInv, PTL DEF Spec
<1>2. TypeInv /\ CoverInv /\ rescanCall = NoRescan /\ [Next]_vars
        => CoverInv' /\ (rescanCall = NoRescan)'
  BY CoverStep, NoRescanStep
<1>3. CoverInv => HashesCoverSync
  BY DEF CoverInv, Covered, HashesCoverSync
<1>4. Init => rescanCall = NoRescan
  BY DEF Init
<1> QED BY <1>1, <1>2, <1>3, <1>4, InitCoverInv, PTL DEF Spec

\* Who writes the saved height.
LEMMA SyncHeightWriters ==
    ASSUME OrderlyStorage, rescanCall = NoRescan, Next, ~SaveSyncHeight, ~RollbackSyncHeight
    PROVE  syncHeight' = syncHeight
<1>1. CASE \/ GetInfo \/ Recheck \/ TipMatches \/ TipDiffers \/ AncestorFound
           \/ AncestorLower \/ RollbackFails \/ SyncEnds \/ BatchDone
           \/ GetBlock \/ GetTransactions \/ TransactionFails
  BY <1>1 DEF GetInfo, Recheck, TipMatches, TipDiffers, AncestorFound,
       AncestorLower, RollbackFails, SyncEnds, BatchDone, GetBlock,
       GetTransactions, TransactionFails, storeVars
<1>2. CASE \/ RollbackOutputs \/ RollbackTransactions \/ RollbackSpends
           \/ RollbackHashes \/ PutHash \/ MarkInput \/ RecordTransaction
  BY <1>2 DEF RollbackOutputs, RollbackTransactions, RollbackSpends,
       RollbackHashes, PutHash, MarkInput, RecordTransaction
<1>3. CASE Fail
  BY <1>3 DEF Fail, storeVars
<1>4. CASE GetInfoFails \/ GetBlockFails \/ StoreFails
  BY <1>3, <1>4 DEF GetInfoFails, GetBlockFails, StoreFails
<1>5. CASE \E n \in 1 .. MaxBatch : GetHeaders(n) \/ GetHeadersFails(n)
  BY <1>3, <1>5 DEF GetHeaders, GetHeadersFails, storeVars
<1>6. CASE \/ \E t \in Txs : SkipTransaction(t) \/ TakeTransaction(t)
           \/ \E o \in Outs : PutOwnedOutput(o)
           \/ \E k \in Keys : CheckInput(k)
  BY <1>6 DEF SkipTransaction, TakeTransaction, PutOwnedOutput, CheckInput, storeVars
<1>7. CASE ChainMoves \/ Crash \/ Stop
  BY <1>7 DEF ChainMoves, Crash, Stop, storeVars
<1>8. CASE \E h \in StartHeights \union {None} : Start(h)
  BY <1>8 DEF Start, storeVars
<1>9. CASE RescanSetHeight \/ RescanStart \/ \E h \in RescanHeights : RescanClear(h)
  BY <1>9, NobodyRescans
<1> QED
  BY <1>1, <1>2, <1>4, <1>5, <1>6, <1>7, <1>8, <1>9 DEF Next, EngineStep, CallerStep

\* Under the same conditions the saved height goes back in a rollback only: a
\* batch (_syncBatch) never saves a height below the one saved before.
THEOREM RewindsOnlyInRollback == ASSUME OrderlyStorage PROVE Spec => NoSilentRewind
<1> DEFINE Inv == TypeInv /\ CoverInv /\ rescanCall = NoRescan
<1>1. Inv /\ [Next]_vars => Inv'
  BY CoverStep, NoRescanStep, NextTypeInv
<1>2. Inv /\ [Next]_vars
        => [syncHeight' < syncHeight => pc = "rollbackSync"]_vars
  <2> SUFFICES ASSUME Inv, Next, syncHeight' < syncHeight
               PROVE  pc = "rollbackSync"
    OBVIOUS
  <2>1. syncHeight \in 0 .. MaxHeight /\ currentHeight \in 0 .. MaxHeight /\ MaxHeight \in Nat
    BY StoreAssumption DEF TypeInv, TypeOK
  <2>2. syncHeight' # syncHeight
    BY <2>1
  <2>3. SaveSyncHeight \/ RollbackSyncHeight
    BY <2>2, SyncHeightWriters
  <2>4. CASE SaveSyncHeight
    <3>1. currentHeight >= syncHeight
      BY <2>4 DEF SaveSyncHeight, CoverInv, TypeInv
    <3> QED BY <2>1, <2>4, <3>1 DEF SaveSyncHeight
  <2>5. CASE RollbackSyncHeight
    BY <2>5 DEF RollbackSyncHeight
  <2> QED BY <2>3, <2>4, <2>5
<1>3. Init => Inv
  BY InitTypeInv, InitCoverInv DEF Init
<1> QED
  BY <1>1, <1>2, <1>3, PTL DEF Spec, NoSilentRewind

-----------------------------------------------------------------------------
(***************************************************************************)
(* Nothing in the storage is invented                                       *)
(***************************************************************************)
\* What Provenance says of one record.
GoodOutput(k, rec) ==
    rec # None =>
        /\ KeyOf[rec.out] = k
        /\ \E t \in Txs : rec.out \in Creates[t] /\ MinedAt(t, rec.blockHeight)
        /\ rec.isSpent =>
              /\ rec.spentTx # None /\ k \in Spends[rec.spentTx]
              /\ rec.spentHeight # None /\ MinedAt(rec.spentTx, rec.spentHeight)

\* A history entry that is absent, or true of its transaction.
GoodEntry(t, rec) ==
    rec # None => /\ rec.received = Creates[t] /\ rec.spent \subseteq Spends[t]
                  /\ MinedAt(t, rec.blockHeight)

\* Tables of good records.
GoodOutputs(tab) == \A k \in Keys : GoodOutput(k, tab[k])
GoodHistory(hist) == \A t \in Txs : GoodEntry(t, hist[t])

\* Provenance of the tables, and of the block and transaction in processing.
ProvenanceInv ==
    /\ GoodOutputs(outputs)
    /\ GoodHistory(txs)
    /\ InBlock => \A t \in TxsIn[block] : MinedAt(t, currentHeight)
    /\ InBlock => todo \subseteq TxsIn[block]
    /\ pc = "tx" => /\ MinedAt(cur.tx, currentHeight)
                    /\ cur.outs \subseteq Creates[cur.tx]
                    /\ cur.ins \subseteq Spends[cur.tx]
                    /\ cur.spent \subseteq Spends[cur.tx]
                    /\ cur.found # None => cur.found \in Spends[cur.tx]

\* Good records are what Provenance asks for.
LEMMA GoodRecordsSuffice == GoodOutputs(outputs) /\ GoodHistory(txs) => Provenance
BY DEF GoodOutputs, GoodHistory, GoodOutput, GoodEntry, Provenance,
     OutputsFromChain, SpendsFromChain, HistoryFromChain

\* An output a mined transaction pays may be stored under its key.
LEMMA PutOutputGood ==
    ASSUME NEW tab \in [Keys -> OutputRecord \union {None}], GoodOutputs(tab),
           NEW o \in Outs, NEW t \in Txs, NEW h \in Heights,
           o \in Creates[t], MinedAt(t, h)
    PROVE  GoodOutputs(PutOutput(tab, KeyOf[o], NewOutput(o, h)))
<1>1. KeyOf[o] \in Keys
  BY WalletAssumption
<1>2. GoodOutput(KeyOf[o], NewOutput(o, h))
  BY DEF GoodOutput, NewOutput
<1> QED BY <1>1, <1>2 DEF GoodOutputs, PutOutput

\* An output may be marked spent by a mined transaction that carries its key
\* image.
LEMMA MarkGood ==
    ASSUME NEW tab \in [Keys -> OutputRecord \union {None}], GoodOutputs(tab),
           NEW k \in Keys, NEW t \in Txs, NEW h \in Heights,
           k \in Spends[t], MinedAt(t, h)
    PROVE  GoodOutputs(MarkOutputSpent(tab, k, t, h))
<1> DEFINE rec == [tab[k] EXCEPT !.isSpent = TRUE, !.spentTx = t, !.spentHeight = h]
<1>1. CASE tab[k] = None
  BY <1>1 DEF MarkOutputSpent
<1>2. CASE tab[k] # None
  <2>1. tab[k] \in OutputRecord /\ GoodOutput(k, tab[k])
    BY <1>2 DEF GoodOutputs
  <2>2. /\ rec.out = tab[k].out /\ rec.blockHeight = tab[k].blockHeight
        /\ rec.spentTx = t /\ rec.spentHeight = h
    BY <2>1 DEF OutputRecord
  <2>3. t # None /\ h # None
    BY StoreAssumption DEF Heights
  <2>4. GoodOutput(k, rec)
    BY <1>2, <2>1, <2>2, <2>3 DEF GoodOutput
  <2>5. MarkOutputSpent(tab, k, t, h) = [tab EXCEPT ![k] = rec]
    BY <1>2 DEF MarkOutputSpent
  <2> HIDE DEF rec
  <2> QED BY <2>4, <2>5 DEF GoodOutputs
<1> QED BY <1>1, <1>2

\* A rollback only removes records, or what says that one is spent.
LEMMA RollbackGood ==
    ASSUME NEW tab \in [Keys -> OutputRecord \union {None}], GoodOutputs(tab),
           NEW hist \in [Txs -> TxRecord \union {None}], GoodHistory(hist), NEW h
    PROVE  /\ GoodOutputs(DeleteOutputsAbove(tab, h))
           /\ GoodOutputs(UnspendOutputsAbove(tab, h))
           /\ GoodHistory(DeleteTransactionsAbove(hist, h))
<1>1. GoodOutputs(DeleteOutputsAbove(tab, h))
  BY DEF GoodOutputs, GoodOutput, DeleteOutputsAbove
<1>2. GoodOutputs(UnspendOutputsAbove(tab, h))
  <2> SUFFICES ASSUME NEW k \in Keys PROVE GoodOutput(k, UnspendOutputsAbove(tab, h)[k])
    BY DEF GoodOutputs
  <2>1. CASE k \notin SpentAbove(tab, h)
    BY <2>1 DEF GoodOutputs, UnspendOutputsAbove
  <2>2. CASE k \in SpentAbove(tab, h)
    <3> DEFINE rec == [tab[k] EXCEPT !.isSpent = FALSE, !.spentTx = None,
                                     !.spentHeight = None]
    <3>1. tab[k] # None /\ tab[k] \in OutputRecord /\ GoodOutput(k, tab[k])
      BY <2>2 DEF SpentAbove, GoodOutputs
    <3>2. /\ rec.out = tab[k].out /\ rec.blockHeight = tab[k].blockHeight
          /\ rec.isSpent = FALSE
      BY <3>1 DEF OutputRecord
    <3>3. UnspendOutputsAbove(tab, h)[k] = rec
      BY <2>2 DEF UnspendOutputsAbove
    <3> HIDE DEF rec
    <3> QED BY <3>1, <3>2, <3>3 DEF GoodOutput
  <2> QED BY <2>1, <2>2
<1>3. GoodHistory(DeleteTransactionsAbove(hist, h))
  BY DEF GoodHistory, GoodEntry, DeleteTransactionsAbove
<1> QED BY <1>1, <1>2, <1>3

\* The steps that write neither table, take no block and no transaction.
LEMMA ProvenanceUntouched ==
    ASSUME ProvenanceInv, UNCHANGED <<outputs, txs, block, currentHeight>>,
           InBlock' => InBlock, todo' \subseteq todo,
           pc' = "tx" => pc = "tx" /\ cur' = cur
    PROVE  ProvenanceInv'
BY DEF ProvenanceInv

\* The steps outside a block, and those that leave one.
LEMMA ProvenanceOutsideBlock ==
    ASSUME ProvenanceInv, UNCHANGED <<outputs, txs>>, ~InBlock'
    PROVE  ProvenanceInv'
BY DEF ProvenanceInv, InBlock

\* A rollback only removes records and spends.
LEMMA ProvenanceRollback ==
    ASSUME TypeInv, ProvenanceInv,
           RollbackOutputs \/ RollbackTransactions \/ RollbackSpends
    PROVE  ProvenanceInv'
<1>1. /\ outputs \in [Keys -> OutputRecord \union {None}] /\ GoodOutputs(outputs)
      /\ txs \in [Txs -> TxRecord \union {None}] /\ GoodHistory(txs)
  BY DEF TypeInv, TypeOK, ProvenanceInv
<1>2. GoodOutputs(outputs')
  <2>1. /\ GoodOutputs(DeleteOutputsAbove(outputs, probe))
        /\ GoodOutputs(UnspendOutputsAbove(outputs, probe))
    BY <1>1, RollbackGood
  <2>2. outputs' \in {outputs, DeleteOutputsAbove(outputs, probe),
                       UnspendOutputsAbove(outputs, probe)}
    BY DEF RollbackOutputs, RollbackTransactions, RollbackSpends
  <2> QED BY <1>1, <2>1, <2>2 DEF GoodOutputs
<1>3. GoodHistory(txs')
  <2>1. GoodHistory(DeleteTransactionsAbove(txs, probe))
    BY <1>1, RollbackGood
  <2>2. txs' \in {txs, DeleteTransactionsAbove(txs, probe)}
    BY DEF RollbackOutputs, RollbackTransactions, RollbackSpends
  <2> QED BY <1>1, <2>1, <2>2 DEF GoodHistory
<1>4. ~InBlock'
  BY DEF RollbackOutputs, RollbackTransactions, RollbackSpends, Goto, InBlock
<1> QED BY <1>2, <1>3, <1>4 DEF ProvenanceInv, InBlock, GoodOutputs, GoodHistory

\* The block fetched is one the daemon has at that height.
LEMMA ProvenanceGetBlock ==
    ASSUME TypeInv, ProvenanceInv, GetBlock \/ GetTransactions
    PROVE  ProvenanceInv'
<1>1. CASE GetBlock
  <2>1. /\ chain \in Chains /\ currentHeight < Len(chain)
        /\ block' = chain[currentHeight + 1]
    BY <1>1 DEF GetBlock, HasBlock, BlockAt, TypeInv, TypeOK
  <2>2. \A t \in TxsIn[block'] : MinedAt(t, currentHeight)
    BY <2>1 DEF MinedAt
  <2>3. /\ todo' \subseteq TxsIn[block'] /\ pc' = "embedded"
        /\ UNCHANGED <<outputs, txs, currentHeight>>
    BY <1>1 DEF GetBlock, Goto, storeVars, heightVars
  <2> QED BY <2>2, <2>3 DEF ProvenanceInv, InBlock
<1>2. CASE GetTransactions
  <2>1. /\ todo' \subseteq TxsIn[block] /\ pc = "embedded" /\ pc' = "regular"
        /\ UNCHANGED <<outputs, txs, currentHeight, block>>
    BY <1>2 DEF GetTransactions, Goto, storeVars, heightVars
  <2> QED BY <2>1 DEF ProvenanceInv, InBlock
<1> QED BY <1>1, <1>2

\* The transaction taken up is mined at the current height.
LEMMA ProvenanceTakeTransaction ==
    ASSUME TypeInv, ProvenanceInv, NEW t \in Txs, TakeTransaction(t)
    PROVE  ProvenanceInv'
<1>1. InBlock /\ t \in todo
  BY DEF TakeTransaction, InBlock
<1>2. MinedAt(t, currentHeight)
  BY <1>1 DEF ProvenanceInv
<1>3. /\ cur'.tx = t /\ cur'.outs = Creates[t] /\ cur'.ins = InputsChecked(t)
      /\ cur'.found = None /\ cur'.spent = {}
      /\ todo' \subseteq todo /\ UNCHANGED <<outputs, txs, block, currentHeight>>
      /\ pc' = "tx"
  BY DEF TakeTransaction, Goto, storeVars, heightVars
<1>4. InputsChecked(t) \subseteq Spends[t]
  BY DEF InputsChecked
<1> QED BY <1>1, <1>2, <1>3, <1>4 DEF ProvenanceInv, InBlock

\* The output stored is created by that transaction.
LEMMA ProvenancePutOwnedOutput ==
    ASSUME TypeInv, ProvenanceInv, NEW o \in Outs, PutOwnedOutput(o)
    PROVE  ProvenanceInv'
<1>1. /\ cur \in Transaction /\ currentHeight \in Heights /\ pc = "tx" /\ o \in cur.outs
      /\ outputs \in [Keys -> OutputRecord \union {None}]
  BY CurrentHeightInBlock DEF PutOwnedOutput, TypeInv, TypeOK, InBlock
<1>2. cur.tx \in Txs /\ o \in Creates[cur.tx] /\ MinedAt(cur.tx, currentHeight)
  BY <1>1 DEF ProvenanceInv, Transaction
<1>3. GoodOutputs(outputs')
  <2>1. GoodOutputs(outputs)
    BY DEF ProvenanceInv
  <2>2. GoodOutputs(PutOutput(outputs, KeyOf[o], NewOutput(o, currentHeight)))
    BY <1>1, <1>2, <2>1, PutOutputGood
  <2> QED BY <2>2 DEF PutOwnedOutput, GoodOutputs
<1>4. /\ cur'.tx = cur.tx /\ cur'.outs \subseteq cur.outs /\ cur'.ins = cur.ins
      /\ cur'.found = cur.found /\ cur'.spent = cur.spent
  BY <1>1 DEF PutOwnedOutput, Transaction
<1>5. UNCHANGED <<txs, block, currentHeight, todo, pc>>
  BY DEF PutOwnedOutput, heightVars
<1> QED BY <1>1, <1>3, <1>4, <1>5 DEF ProvenanceInv, InBlock, GoodOutputs, GoodHistory

\* The spend marked is one of that transaction.
LEMMA ProvenanceInputs ==
    ASSUME TypeInv, ProvenanceInv, MarkInput \/ \E k \in Keys : CheckInput(k)
    PROVE  ProvenanceInv'
<1>1. /\ cur \in Transaction /\ currentHeight \in Heights /\ pc = "tx"
      /\ outputs \in [Keys -> OutputRecord \union {None}]
  BY CurrentHeightInBlock DEF CheckInput, MarkInput, TypeInv, TypeOK, InBlock
<1>2. UNCHANGED <<txs, block, currentHeight, todo, pc>>
  BY DEF CheckInput, MarkInput, storeVars, heightVars
<1>3. ASSUME NEW k \in Keys, CheckInput(k) PROVE ProvenanceInv'
  <2>1. /\ cur'.tx = cur.tx /\ cur'.outs = cur.outs /\ cur'.ins \subseteq cur.ins
        /\ cur'.found \in {k, None} /\ cur'.spent = cur.spent /\ k \in cur.ins
    BY <1>1, <1>3 DEF CheckInput, Transaction
  <2>2. UNCHANGED outputs
    BY <1>3 DEF CheckInput, storeVars
  <2> QED BY <1>1, <1>2, <2>1, <2>2 DEF ProvenanceInv, InBlock
<1>4. CASE MarkInput
  <2>1. /\ cur.found \in Keys /\ cur.tx \in Txs /\ cur.found \in Spends[cur.tx]
        /\ MinedAt(cur.tx, currentHeight)
    BY <1>1, <1>4 DEF MarkInput, Transaction, ProvenanceInv
  <2>2. GoodOutputs(outputs')
    <3>1. GoodOutputs(outputs)
      BY DEF ProvenanceInv
    <3>2. GoodOutputs(MarkOutputSpent(outputs, cur.found, cur.tx, currentHeight))
      BY <1>1, <2>1, <3>1, MarkGood
    <3> QED BY <1>4, <3>2 DEF MarkInput, GoodOutputs
  <2>3. /\ cur'.tx = cur.tx /\ cur'.outs = cur.outs /\ cur'.ins = cur.ins
        /\ cur'.found = None /\ cur'.spent = cur.spent \union {cur.found}
    BY <1>1, <1>4 DEF MarkInput, Transaction
  <2> QED
    BY <1>1, <1>2, <2>1, <2>2, <2>3 DEF ProvenanceInv, InBlock, GoodOutputs, GoodHistory
<1> QED BY <1>3, <1>4

\* The history entry is the one of that transaction.
LEMMA ProvenanceRecord ==
    ASSUME TypeInv, ProvenanceInv, RecordTransaction
    PROVE  ProvenanceInv'
<1>1. cur \in Transaction /\ pc = "tx" /\ txs \in [Txs -> TxRecord \union {None}]
  BY DEF RecordTransaction, TypeInv, TypeOK
<1>2. /\ cur.tx \in Txs /\ MinedAt(cur.tx, currentHeight)
      /\ cur.spent \subseteq Spends[cur.tx]
  BY <1>1 DEF ProvenanceInv, Transaction
<1>3. GoodHistory(txs')
  BY <1>1, <1>2 DEF RecordTransaction, PutTransaction, GoodHistory, GoodEntry, ProvenanceInv
<1>4. /\ pc' \in {"embedded", "regular"}
      /\ UNCHANGED <<outputs, block, currentHeight, todo>>
  BY DEF RecordTransaction, NextTransaction, Goto, heightVars
<1> QED BY <1>1, <1>3, <1>4 DEF ProvenanceInv, InBlock, GoodOutputs, GoodHistory

\* Every step of the engine keeps the provenance.
LEMMA ProvenanceEngine ==
    ASSUME TypeInv, ProvenanceInv, EngineStep
    PROVE  ProvenanceInv'
<1>1. CASE RollbackOutputs \/ RollbackTransactions \/ RollbackSpends
  BY <1>1, ProvenanceRollback
<1>2. CASE GetBlock \/ GetTransactions \/ RecordTransaction
  BY <1>2, ProvenanceGetBlock, ProvenanceRecord
<1>3. CASE MarkInput \/ (\E k \in Keys : CheckInput(k)) \/ \E o \in Outs : PutOwnedOutput(o)
  BY <1>3, ProvenanceInputs, ProvenancePutOwnedOutput
<1>4. CASE \E t \in Txs : SkipTransaction(t) \/ TakeTransaction(t)
  <2>1. ASSUME NEW t \in Txs, SkipTransaction(t) PROVE ProvenanceInv'
    BY <2>1, ProvenanceUntouched DEF SkipTransaction, storeVars, heightVars, InBlock
  <2> QED BY <1>4, <2>1, ProvenanceTakeTransaction
<1>5. CASE TransactionFails
  <2>1. /\ UNCHANGED <<outputs, txs, block, currentHeight, todo>>
        /\ pc = "tx" /\ pc' \in {"embedded", "regular"}
    BY <1>5 DEF TransactionFails, NextTransaction, Goto, storeVars, heightVars
  <2> QED BY <2>1, ProvenanceUntouched DEF InBlock
<1>6. CASE Fail
  BY <1>6, ProvenanceOutsideBlock DEF Fail, Goto, storeVars, InBlock
<1>7. CASE \/ GetInfoFails \/ GetBlockFails \/ StoreFails
           \/ \E n \in 1 .. MaxBatch : GetHeadersFails(n)
  BY <1>6, <1>7 DEF GetInfoFails, GetBlockFails, StoreFails, GetHeadersFails
<1>8. CASE \/ GetInfo \/ TipMatches \/ TipDiffers \/ AncestorFound
           \/ AncestorLower \/ RollbackHashes \/ RollbackSyncHeight
           \/ RollbackFails \/ SyncEnds \/ BatchDone \/ PutHash
           \/ SaveSyncHeight \/ Recheck
  BY <1>8, ProvenanceOutsideBlock
     DEF GetInfo, TipMatches, TipDiffers, AncestorFound, AncestorLower,
         RollbackHashes, RollbackSyncHeight, RollbackFails, SyncEnds, BatchDone,
         PutHash, SaveSyncHeight, Recheck, Goto, storeVars, InBlock
<1>9. CASE \E n \in 1 .. MaxBatch : GetHeaders(n)
  BY <1>9, ProvenanceOutsideBlock DEF GetHeaders, Goto, storeVars, InBlock
<1> QED
  BY <1>1, <1>2, <1>3, <1>4, <1>5, <1>7, <1>8, <1>9 DEF EngineStep

\* Callers, a crash and the daemon keep the provenance.
LEMMA ProvenanceOthers ==
    ASSUME TypeInv, ProvenanceInv, CallerStep \/ ChainMoves \/ Crash \/ UNCHANGED vars
    PROVE  ProvenanceInv'
<1>1. CASE ChainMoves \/ Stop \/ RescanSetHeight \/ UNCHANGED vars
  BY <1>1 DEF ChainMoves, Stop, RescanSetHeight, vars, callerVars, storeVars,
       engineVars, heightVars, scanVars, ProvenanceInv, InBlock, GoodOutputs, GoodHistory
<1>2. CASE Crash
  BY <1>2, ProvenanceOutsideBlock DEF Crash, storeVars, InBlock
<1>3. ASSUME NEW h, Begin(h), UNCHANGED storeVars PROVE ProvenanceInv'
  BY <1>3, ProvenanceOutsideBlock DEF Begin, Goto, storeVars, InBlock
<1>4. CASE \E h \in StartHeights \union {None} : Start(h)
  BY <1>3, <1>4 DEF Start
<1>5. CASE RescanStart
  <2>1. CASE Syncing
    BY <1>5, <2>1 DEF RescanStart, storeVars, engineVars, heightVars, scanVars,
         ProvenanceInv, InBlock, GoodOutputs, GoodHistory
  <2> QED BY <1>3, <1>5, <2>1 DEF RescanStart
<1>6. CASE \E h \in RescanHeights : RescanClear(h)
  <2>1. /\ outputs' = NoOutputs /\ txs' = NoTransactions
        /\ UNCHANGED <<pc, block, todo, cur, currentHeight>>
    BY <1>6 DEF RescanClear, engineVars, heightVars, scanVars
  <2>2. GoodOutputs(NoOutputs) /\ GoodHistory(NoTransactions)
    BY DEF GoodOutputs, GoodOutput, GoodHistory, GoodEntry, NoOutputs, NoTransactions
  <2> QED BY <2>1, <2>2 DEF ProvenanceInv, InBlock, GoodOutputs, GoodHistory
<1> QED BY <1>1, <1>2, <1>4, <1>5, <1>6 DEF CallerStep

\* An empty storage invents nothing.
LEMMA InitProvenanceInv == Init => ProvenanceInv
BY DEF Init, ProvenanceInv, InBlock, GoodOutputs, GoodOutput, GoodHistory,
     GoodEntry, NoOutputs, NoTransactions

\* Whatever fails, crashes, reorganises or is rescanned on the way, every stored
\* output, spend and history entry comes from a transaction of a block that
\* some best chain has at the recorded height (_scanOutputs,
\* _checkSpentOutputs, _processTransaction and the rollback).
THEOREM NothingInvented == Spec => []Provenance
<1>1. TypeInv /\ ProvenanceInv /\ [Next]_vars => (TypeInv /\ ProvenanceInv)'
  BY ProvenanceEngine, ProvenanceOthers, NextTypeInv DEF Next
<1>2. ProvenanceInv => Provenance
  BY GoodRecordsSuffice DEF ProvenanceInv
<1> QED
  BY <1>1, <1>2, InitTypeInv, InitProvenanceInv, PTL DEF Spec

-----------------------------------------------------------------------------
(***************************************************************************)
(* The two tables of spent key images                                       *)
(***************************************************************************)
\* Each output has a key image of its own and is created by one transaction.
OwnKeys ==
    /\ \A o, p \in Outs : KeyOf[o] = KeyOf[p] => o = p
    /\ \A t, u \in Txs : Creates[t] \cap Creates[u] # {} => t = u

\* No transaction is left half way: the process does not die, and a transaction
\* whose processing has begun is recorded.
NothingGivenUp == Events \cap {"crash", "txError"} = {}

\* Transaction t has paid the output stored under k: it is recorded at the same
\* height, or it is the one in hand.
PaidBy(k, t) ==
    /\ outputs[k].out \in Creates[t]
    /\ \/ txs[t] # None /\ txs[t].blockHeight = outputs[k].blockHeight
       \/ /\ pc = "tx" /\ cur.tx = t /\ outputs[k].out \notin cur.outs
          /\ outputs[k].blockHeight = currentHeight

\* Why no output is stored a second time, as an unspent one: a transaction that
\* has paid a stored output is known, and a known one is skipped.
KnownInv ==
    /\ SpentKeysAgree
    /\ \A k \in Keys : outputs[k] # None =>
          KeyOf[outputs[k].out] = k /\ \E t \in Txs : PaidBy(k, t)
    /\ pc = "tx" => txs[cur.tx] = None /\ cur.outs \subseteq Creates[cur.tx]
    /\ pc = "rollbackTxs" =>
          \A k \in Keys : outputs[k] # None => outputs[k].blockHeight <= probe

\* The steps outside a transaction that leave the tables alone.
LEMMA KnownOutsideTransaction ==
    ASSUME KnownInv, UNCHANGED <<outputs, txs, spentKeys>>,
           pc # "tx", pc' # "tx", pc' # "rollbackTxs"
    PROVE  KnownInv'
BY DEF KnownInv, SpentKeysAgree, PaidBy

\* The steps that leave the engine alone, or only the inputs of the transaction
\* in hand.
LEMMA KnownSame ==
    ASSUME KnownInv, UNCHANGED <<outputs, txs, spentKeys, pc, currentHeight, probe>>,
           pc = "tx" => cur'.tx = cur.tx /\ cur'.outs = cur.outs
    PROVE  KnownInv'
BY DEF KnownInv, SpentKeysAgree, PaidBy

\* deleteOutputsAbove takes the key images of what it deletes.
LEMMA KnownRollbackOutputs ==
    ASSUME TypeInv, KnownInv, RollbackOutputs
    PROVE  KnownInv'
<1>1. /\ pc = "rollbackOutputs" /\ pc' = "rollbackTxs" /\ UNCHANGED <<txs, probe>>
      /\ outputs' = DeleteOutputsAbove(outputs, probe)
      /\ spentKeys' = spentKeys \ OutputsAbove(outputs, probe)
  BY DEF RollbackOutputs, Goto
<1>2. \A k \in Keys : outputs'[k] # None =>
         outputs'[k] = outputs[k] /\ outputs[k].blockHeight <= probe
  <2>1. ASSUME NEW k \in Keys, outputs'[k] # None
        PROVE  outputs'[k] = outputs[k] /\ outputs[k] # None /\ ~(outputs[k].blockHeight > probe)
    BY <1>1, <2>1 DEF DeleteOutputsAbove, OutputsAbove
  <2>2. ASSUME NEW k \in Keys, outputs[k] # None
        PROVE  outputs[k].blockHeight \in Nat /\ probe \in Nat
    BY <2>2, StoreAssumption DEF TypeInv, TypeOK, OutputRecord, Heights
  <2> QED BY <2>1, <2>2
<1>3. SpentKeysAgree'
  BY <1>1 DEF KnownInv, SpentKeysAgree, DeleteOutputsAbove, OutputsAbove
<1>4. \A k \in Keys : outputs'[k] # None =>
         KeyOf[outputs'[k].out] = k /\ \E t \in Txs : PaidBy(k, t)'
  BY <1>1, <1>2 DEF KnownInv, PaidBy
<1> QED BY <1>1, <1>2, <1>3, <1>4 DEF KnownInv

\* deleteTransactionsAbove forgets no transaction whose outputs are left.
LEMMA KnownRollbackTransactions ==
    ASSUME TypeInv, KnownInv, RollbackTransactions
    PROVE  KnownInv'
<1>1. /\ pc = "rollbackTxs" /\ pc' = "rollbackSpends" /\ UNCHANGED <<outputs, spentKeys>>
      /\ txs' = DeleteTransactionsAbove(txs, probe)
  BY DEF RollbackTransactions, Goto
<1>2. ASSUME NEW k \in Keys, outputs[k] # None, NEW t \in Txs, PaidBy(k, t)
      PROVE  PaidBy(k, t)'
  <2>1. txs[t] # None /\ txs[t].blockHeight = outputs[k].blockHeight
    BY <1>1, <1>2 DEF PaidBy
  <2>2. outputs[k].blockHeight <= probe
    BY <1>1, <1>2 DEF KnownInv
  <2>3. outputs[k].blockHeight \in Nat /\ probe \in Nat
    BY <1>2, StoreAssumption DEF TypeInv, TypeOK, OutputRecord, Heights
  <2>4. txs'[t] = txs[t]
    BY <1>1, <2>1, <2>2, <2>3 DEF DeleteTransactionsAbove
  <2> QED BY <1>1, <1>2, <2>1, <2>4 DEF PaidBy
<1> QED BY <1>1, <1>2 DEF KnownInv, SpentKeysAgree

\* unspendOutputsAbove of the in-memory tables deletes the key images.
LEMMA KnownRollbackSpends ==
    ASSUME Backend = "memory", TypeInv, KnownInv, RollbackSpends
    PROVE  KnownInv'
<1>1. /\ pc = "rollbackSpends" /\ pc' = "rollbackHashes" /\ UNCHANGED <<txs, probe>>
      /\ outputs' = UnspendOutputsAbove(outputs, probe)
      /\ spentKeys' = spentKeys \ SpentAbove(outputs, probe)
  BY DEF RollbackSpends, Goto, UnspendKeysAbove
<1>2. \A k \in Keys : /\ outputs[k] # None => outputs[k] \in OutputRecord
                      /\ None \notin OutputRecord
  BY NoneAssumption DEF TypeInv, TypeOK
<1>3. ASSUME NEW k \in Keys
      PROVE  /\ outputs'[k] # None => outputs[k] # None
             /\ outputs[k] # None =>
                   /\ outputs'[k] # None
                   /\ outputs'[k].out = outputs[k].out
                   /\ outputs'[k].blockHeight = outputs[k].blockHeight
                   /\ outputs'[k].isSpent <=> outputs[k].isSpent /\ k \notin SpentAbove(outputs, probe)
  BY <1>1, <1>2 DEF UnspendOutputsAbove, SpentAbove, OutputRecord
<1>4. SpentKeysAgree'
  BY <1>1, <1>3 DEF KnownInv, SpentKeysAgree
<1>5. \A k \in Keys : outputs'[k] # None =>
         KeyOf[outputs'[k].out] = k /\ \E t \in Txs : PaidBy(k, t)'
  BY <1>1, <1>3 DEF KnownInv, PaidBy
<1> QED BY <1>1, <1>4, <1>5 DEF KnownInv

\* An output is stored under a key image that nothing is stored under.
LEMMA KnownPutOwnedOutput ==
    ASSUME OwnKeys, Backend = "memory", TypeInv, KnownInv, NEW o \in Outs, PutOwnedOutput(o)
    PROVE  KnownInv'
<1> DEFINE k == KeyOf[o]
           rec == NewOutput(o, currentHeight)
<1>1. /\ cur \in Transaction /\ currentHeight \in Heights /\ pc = "tx" /\ o \in cur.outs
      /\ outputs \in [Keys -> OutputRecord \union {None}] /\ k \in Keys
      /\ None \notin OutputRecord
  BY CurrentHeightInBlock, WalletAssumption, NoneAssumption
     DEF PutOwnedOutput, TypeInv, TypeOK, InBlock
<1>2. cur.tx \in Txs /\ txs[cur.tx] = None /\ o \in Creates[cur.tx]
  BY <1>1 DEF KnownInv, Transaction
<1>3. outputs[k] = None
  <2>1. SUFFICES ASSUME outputs[k] # None PROVE FALSE
    OBVIOUS
  <2>2. PICK t \in Txs : PaidBy(k, t)
    BY <1>1, <2>1 DEF KnownInv
  <2>3. outputs[k].out = o
    BY <1>1, <2>1 DEF KnownInv, OwnKeys, TypeInv, TypeOK, OutputRecord
  <2>4. t = cur.tx
    BY <1>2, <2>2, <2>3 DEF PaidBy, OwnKeys
  <2> QED BY <1>1, <1>2, <2>2, <2>3, <2>4 DEF PaidBy
<1>4. /\ outputs' = [outputs EXCEPT ![k] = rec]
      /\ cur' = [cur EXCEPT !.outs = @ \ {o}]
      /\ UNCHANGED <<txs, spentKeys, pc, currentHeight, probe>>
  BY DEF PutOwnedOutput, PutOutput, PutKeyState, heightVars
<1>5. rec \in OutputRecord /\ rec.out = o /\ rec.blockHeight = currentHeight /\ ~rec.isSpent
  BY <1>1 DEF NewOutput, OutputRecord
<1> HIDE DEF k, rec
<1>6. outputs'[k] = rec /\ \A j \in Keys \ {k} : outputs'[j] = outputs[j]
  BY <1>1, <1>4
<1>7. SpentKeysAgree'
  BY <1>1, <1>3, <1>4, <1>5, <1>6 DEF KnownInv, SpentKeysAgree
<1>8. cur'.tx = cur.tx /\ cur'.outs = cur.outs \ {o}
  BY <1>1, <1>4 DEF Transaction
<1>9. \A j \in Keys : outputs'[j] # None =>
         KeyOf[outputs'[j].out] = j /\ \E t \in Txs : PaidBy(j, t)'
  <2>1. KeyOf[outputs'[k].out] = k
    BY <1>1, <1>5, <1>6 DEF k
  <2>2. ASSUME NEW t \in Txs, t = cur.tx, NEW j \in Keys, j = k
        PROVE  PaidBy(j, t)'
    BY <1>1, <1>2, <1>4, <1>5, <1>6, <1>8, <2>2 DEF PaidBy
  <2>3. ASSUME NEW j \in Keys, j = k
        PROVE  KeyOf[outputs'[j].out] = j /\ \E t \in Txs : PaidBy(j, t)'
    BY <1>2, <2>1, <2>2, <2>3
  <2>4. ASSUME NEW j \in Keys \ {k}, outputs'[j] # None
        PROVE  KeyOf[outputs'[j].out] = j /\ \E t \in Txs : PaidBy(j, t)'
    <3>1. outputs'[j] = outputs[j] /\ outputs[j] # None
      BY <1>6, <2>4
    <3>2. PICK t \in Txs : PaidBy(j, t)
      BY <3>1 DEF KnownInv
    <3>3. PaidBy(j, t)'
      BY <1>4, <1>8, <3>1, <3>2 DEF PaidBy
    <3>4. KeyOf[outputs[j].out] = j
      BY <3>1 DEF KnownInv
    <3> QED BY <3>1, <3>3, <3>4
  <2> QED BY <2>3, <2>4
<1> QED BY <1>1, <1>2, <1>4, <1>7, <1>8, <1>9 DEF KnownInv

\* A spend is marked in both tables.
LEMMA KnownMarkInput ==
    ASSUME TypeInv, KnownInv, MarkInput
    PROVE  KnownInv'
<1>1. /\ cur \in Transaction /\ pc = "tx" /\ cur.found \in Keys
      /\ outputs \in [Keys -> OutputRecord \union {None}] /\ None \notin OutputRecord
      /\ currentHeight \in Heights
      /\ UNCHANGED <<txs, pc, currentHeight>>
  BY NoneAssumption, CurrentHeightInBlock DEF InBlock, MarkInput, TypeInv, TypeOK, Transaction, heightVars
<1>2. /\ cur'.tx = cur.tx /\ cur'.outs = cur.outs
  BY <1>1 DEF MarkInput, Transaction
<1>3. ASSUME NEW k \in Keys
      PROVE  /\ outputs'[k] # None <=> outputs[k] # None
             /\ outputs[k] # None =>
                   /\ outputs'[k].out = outputs[k].out
                   /\ outputs'[k].blockHeight = outputs[k].blockHeight
                   /\ outputs'[k].isSpent <=> outputs[k].isSpent \/ k = cur.found
  <2>1. outputs' = MarkOutputSpent(outputs, cur.found, cur.tx, currentHeight)
    BY DEF MarkInput
  <2>2. CASE outputs[cur.found] = None
    BY <2>1, <2>2 DEF MarkOutputSpent
  <2>3. CASE outputs[cur.found] # None
    <3>1. outputs' = [outputs EXCEPT ![cur.found] =
             [@ EXCEPT !.isSpent = TRUE, !.spentTx = cur.tx, !.spentHeight = currentHeight]]
      BY <2>1, <2>3 DEF MarkOutputSpent
    <3>2. outputs[cur.found] \in OutputRecord
      BY <1>1, <2>3
    <3>3. CASE k = cur.found
      <4>1. outputs'[k] = [outputs[k] EXCEPT !.isSpent = TRUE, !.spentTx = cur.tx,
                                             !.spentHeight = currentHeight]
        BY <1>1, <3>1, <3>3
      <4>2. /\ outputs'[k].isSpent /\ outputs'[k].out = outputs[k].out
            /\ outputs'[k].blockHeight = outputs[k].blockHeight
            /\ DOMAIN outputs'[k] = DOMAIN outputs[k]
        BY <3>2, <3>3, <4>1 DEF OutputRecord
      <4>3. outputs'[k] \in OutputRecord
        BY <1>1, <3>2, <3>3, <4>1 DEF OutputRecord, Transaction
      <4> QED BY <1>1, <2>3, <3>3, <4>2, <4>3
    <3>4. CASE k # cur.found
      BY <1>1, <3>1, <3>4
    <3> QED BY <3>3, <3>4
  <2> QED BY <2>2, <2>3
<1>4. SpentKeysAgree'
  <2>1. spentKeys' = IF outputs[cur.found] = None THEN spentKeys ELSE spentKeys \union {cur.found}
    BY DEF MarkInput, MarkKeySpent
  <2> QED BY <1>1, <1>3, <2>1 DEF KnownInv, SpentKeysAgree
<1>5. \A k \in Keys : outputs'[k] # None =>
         KeyOf[outputs'[k].out] = k /\ \E t \in Txs : PaidBy(k, t)'
  BY <1>1, <1>2, <1>3 DEF KnownInv, PaidBy
<1> QED BY <1>1, <1>2, <1>4, <1>5 DEF KnownInv

\* What is taken up is not known yet; what is recorded is known.
LEMMA KnownTransactionChoice ==
    ASSUME TypeInv, KnownInv,
           RecordTransaction \/ \E t \in Txs : SkipTransaction(t) \/ TakeTransaction(t)
    PROVE  KnownInv'
<1>1. ASSUME NEW t \in Txs, SkipTransaction(t) PROVE KnownInv'
  BY <1>1, KnownOutsideTransaction DEF SkipTransaction, storeVars
<1>2. ASSUME NEW t \in Txs, TakeTransaction(t) PROVE KnownInv'
  <2>1. /\ pc \in {"embedded", "regular"} /\ pc' = "tx" /\ txs[t] = None
        /\ cur'.tx = t /\ cur'.outs = Creates[t]
        /\ UNCHANGED <<outputs, txs, spentKeys>>
    BY <1>2 DEF TakeTransaction, Goto, storeVars
  <2> QED BY <2>1 DEF KnownInv, SpentKeysAgree, PaidBy
<1>3. CASE RecordTransaction
  <2>1. /\ cur \in Transaction /\ pc = "tx" /\ cur.outs = {} /\ txs[cur.tx] = None
        /\ txs \in [Txs -> TxRecord \union {None}] /\ cur.tx \in Txs
    BY <1>3 DEF RecordTransaction, TypeInv, TypeOK, KnownInv, Transaction
  <2>2. pc' \in {"embedded", "regular"} /\ UNCHANGED <<outputs, spentKeys>>
    BY <1>3 DEF RecordTransaction, NextTransaction, Goto
  <2>3. /\ \A t \in Txs \ {cur.tx} : txs'[t] = txs[t]
        /\ Creates[cur.tx] # {} =>
              txs'[cur.tx] # None /\ txs'[cur.tx].blockHeight = currentHeight
    <3> DEFINE entry == [blockHeight |-> currentHeight,
                         received |-> Creates[cur.tx], spent |-> cur.spent]
    <3>1. txs' = IF Creates[cur.tx] = {} /\ cur.spent = {} THEN txs
                 ELSE [txs EXCEPT ![cur.tx] = entry]
      BY <1>3 DEF RecordTransaction, PutTransaction
    <3>2. entry \in TxRecord /\ entry.blockHeight = currentHeight
      BY <2>1, CurrentHeightInBlock, WalletAssumption DEF InBlock, TxRecord, Transaction
    <3>3. entry # None
      BY <3>2, NoneAssumption
    <3> HIDE DEF entry
    <3> QED BY <2>1, <3>1, <3>2, <3>3
  <2>4. ASSUME NEW k \in Keys, outputs[k] # None, NEW t \in Txs, PaidBy(k, t)
        PROVE  PaidBy(k, t)'
    <3>1. CASE t = cur.tx
      <4>1. outputs[k].blockHeight = currentHeight /\ outputs[k].out \in Creates[t]
        BY <2>1, <2>4, <3>1 DEF PaidBy
      <4> QED BY <2>2, <2>3, <3>1, <4>1 DEF PaidBy
    <3>2. CASE t # cur.tx
      BY <2>2, <2>3, <2>4, <3>2 DEF PaidBy
    <3> QED BY <3>1, <3>2
  <2> QED BY <2>2, <2>4 DEF KnownInv, SpentKeysAgree
<1> QED BY <1>1, <1>2, <1>3

\* Every step of the engine keeps it.
LEMMA KnownEngine ==
    ASSUME OwnKeys, NothingGivenUp, Backend = "memory", TypeInv, KnownInv, EngineStep
    PROVE  KnownInv'
<1>1. CASE RollbackOutputs \/ RollbackTransactions \/ RollbackSpends
  BY <1>1, KnownRollbackOutputs, KnownRollbackTransactions, KnownRollbackSpends
<1>2. CASE RecordTransaction \/ \E t \in Txs : SkipTransaction(t) \/ TakeTransaction(t)
  BY <1>2, KnownTransactionChoice
<1>3. CASE MarkInput \/ \E o \in Outs : PutOwnedOutput(o)
  BY <1>3, KnownMarkInput, KnownPutOwnedOutput
<1>4. CASE \E k \in Keys : CheckInput(k)
  <2>1. /\ UNCHANGED <<outputs, txs, spentKeys, pc, currentHeight, probe>>
        /\ pc = "tx" => cur'.tx = cur.tx /\ cur'.outs = cur.outs
    BY <1>4 DEF CheckInput, storeVars, heightVars, TypeInv, Transaction
  <2> QED BY <2>1, KnownSame
<1>5. ~TransactionFails
  BY DEF TransactionFails, NothingGivenUp
<1>6. CASE Fail /\ pc # "tx"
  BY <1>6, KnownOutsideTransaction DEF Fail, Goto, storeVars
<1>7. CASE \/ GetInfoFails \/ GetBlockFails \/ StoreFails
           \/ \E n \in 1 .. MaxBatch : GetHeadersFails(n)
  BY <1>6, <1>7
     DEF GetInfoFails, GetBlockFails, StoreFails, GetHeadersFails, MoreHeaders
<1>8. CASE \/ GetInfo \/ TipMatches \/ TipDiffers \/ AncestorFound
           \/ AncestorLower \/ RollbackHashes \/ RollbackSyncHeight
           \/ RollbackFails \/ SyncEnds \/ BatchDone \/ PutHash
           \/ SaveSyncHeight \/ Recheck
  BY <1>8, KnownOutsideTransaction
     DEF GetInfo, TipMatches, TipDiffers, AncestorFound, AncestorLower,
         RollbackHashes, RollbackSyncHeight, RollbackFails, SyncEnds, BatchDone,
         PutHash, SaveSyncHeight, Recheck, Goto, storeVars
<1>9. CASE GetBlock \/ GetTransactions \/ \E n \in 1 .. MaxBatch : GetHeaders(n)
  BY <1>9, KnownOutsideTransaction
     DEF GetBlock, GetTransactions, GetHeaders, MoreHeaders, Goto, storeVars
<1> QED
  BY <1>1, <1>2, <1>3, <1>4, <1>5, <1>7, <1>8, <1>9 DEF EngineStep

\* So do callers and the daemon; a rescan empties all tables, even under a sync.
LEMMA KnownOthers ==
    ASSUME NothingGivenUp, TypeInv, KnownInv,
           CallerStep \/ ChainMoves \/ Crash \/ UNCHANGED vars
    PROVE  KnownInv'
<1>1. CASE ChainMoves \/ Stop \/ RescanSetHeight \/ UNCHANGED vars
  <2>1. UNCHANGED <<outputs, txs, spentKeys, pc, currentHeight, probe, cur>>
    BY <1>1 DEF ChainMoves, Stop, RescanSetHeight, vars, callerVars, storeVars,
         engineVars, heightVars, scanVars
  <2> QED BY <2>1, KnownSame
<1>2. ~Crash
  BY DEF Crash, NothingGivenUp
<1>3. ASSUME NEW h, ~Syncing, Begin(h), UNCHANGED storeVars PROVE KnownInv'
  <2>1. pc = "idle" /\ pc' = "info" /\ UNCHANGED <<outputs, txs, spentKeys>>
    BY <1>3 DEF Begin, Goto, storeVars, TypeInv
  <2> QED BY <2>1, KnownOutsideTransaction
<1>4. CASE \E h \in StartHeights \union {None} : Start(h)
  BY <1>3, <1>4 DEF Start
<1>5. CASE RescanStart
  <2>1. CASE Syncing
    <3>1. UNCHANGED <<outputs, txs, spentKeys, pc, currentHeight, probe, cur>>
      BY <1>5, <2>1 DEF RescanStart, storeVars, engineVars, heightVars, scanVars
    <3> QED BY <3>1, KnownSame
  <2> QED BY <1>3, <1>5, <2>1 DEF RescanStart
<1>6. CASE \E h \in RescanHeights : RescanClear(h)
  <2>1. /\ outputs' = NoOutputs /\ txs' = NoTransactions /\ spentKeys' = {}
        /\ UNCHANGED <<pc, cur>>
    BY <1>6 DEF RescanClear, engineVars, heightVars, scanVars
  <2>2. pc = "tx" => cur.tx \in Txs
    BY DEF TypeInv, Transaction
  <2> QED BY <2>1, <2>2 DEF KnownInv, SpentKeysAgree, NoOutputs, NoTransactions
<1> QED BY <1>1, <1>2, <1>4, <1>5, <1>6 DEF CallerStep

\* Empty tables agree.
LEMMA InitKnownInv == Init => KnownInv
BY DEF Init, KnownInv, SpentKeysAgree, NoOutputs

\* In the in-memory tables isSpent and the set of spent key images always tell the
\* same, through reorganisations, interrupted batches and rollbacks and rescans, in
\* the middle of a sync too: a known transaction is skipped, so no spent output is
\* stored again as an unspent one (putOutput, markOutputSpent and the rollback of
\* MemoryStorage, _processTransaction).
THEOREM SpendsToldTwiceAgree ==
    ASSUME OwnKeys, NothingGivenUp, Backend = "memory"
    PROVE  Spec => []SpentKeysAgree
<1>1. TypeInv /\ KnownInv /\ [Next]_vars => (TypeInv /\ KnownInv)'
  BY KnownEngine, KnownOthers, NextTypeInv DEF Next
<1>2. Init => TypeInv /\ KnownInv
  BY InitTypeInv, InitKnownInv
<1>3. KnownInv => SpentKeysAgree
  BY DEF KnownInv
<1> QED BY <1>1, <1>2, <1>3, PTL DEF Spec
=============================================================================
