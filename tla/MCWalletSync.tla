---------------------------- MODULE MCWalletSync ----------------------------
(***************************************************************************)
(* A small wallet and a small block tree for WalletSync.                    *)
(*                                                                         *)
(*        g --- a1 --- a2 --- a3                                           *)
(*              |                                                          *)
(*              +----- b2 --- b3                                           *)
(*                                                                         *)
(* pay creates output o1; move spends it and returns change o2.  move is in *)
(* a3 on one branch and in b2 on the other; late, a payment of o3, is only  *)
(* on the a branch, and coin, the miner transaction of o4, only on b.       *)
(***************************************************************************)
EXTENDS WalletSync

CONSTANTS g, a1, a2, a3, b2, b3, pay, move, late, coin, o1, o2, o3, o4

MCHashes == {g, a1, a2, a3, b2, b3}
MCTxs == {pay, move, late, coin}
MCOuts == {o1, o2, o3, o4}
MCKeys == MCOuts

MCChains == {<<g, a1>>, <<g, a1, a2>>, <<g, a1, a2, a3>>,
             <<g, a1, b2>>, <<g, a1, b2, b3>>}

MCTxsIn == [b \in MCHashes |->
    CASE b = a1 -> {pay}
      [] b = a2 -> {late}
      [] b = a3 -> {move}
      [] b = b2 -> {move}
      [] b = b3 -> {coin}
      [] OTHER  -> {}]

\* A tree of height 3 for the runs with every kind of fault:
\* g --- a1 --- { a2 | b2 }, where a2 spends what a1 pays.
TinyChains == {<<g, a1>>, <<g, a1, a2>>, <<g, a1, b2>>}

TinyTxsIn == [b \in MCHashes |->
    CASE b = a1 -> {pay} [] b = a2 -> {move} [] b = b2 -> {coin} [] OTHER -> {}]

MCRegular == {pay, move, late}

MCCreates == [t \in MCTxs |->
    CASE t = pay -> {o1} [] t = move -> {o2} [] t = late -> {o3} [] t = coin -> {o4}]

MCSpends == [t \in MCTxs |-> IF t = move THEN {o1} ELSE {}]

\* A full wallet derives a key image for each output.  A view-only wallet has
\* no spend secret key: every key image is null, one and the same Map key.
FullKeyOf == [o \in MCOuts |-> o]
ViewOnlyKeyOf == [o \in MCOuts |-> o1]

-----------------------------------------------------------------------------
\* The steps of an engine whose calls succeed and that nobody interrupts but
\* with stop(): what is left of Next when Events has no fault.  The faults are
\* in MCSyncFaults.
SmoothStep ==
    \/ Start(None) \/ Stop \/ ChainMoves
    \/ GetInfo
    \/ TipMatches \/ TipDiffers \/ AncestorFound \/ AncestorLower
    \/ RollbackOutputs \/ RollbackTransactions \/ RollbackSpends
    \/ RollbackHashes \/ RollbackSyncHeight
    \/ \E n \in 1 .. MaxBatch : GetHeaders(n)
    \/ BatchDone \/ GetBlock \/ PutHash \/ SaveSyncHeight \/ Recheck \/ SyncEnds
    \/ GetTransactions
    \/ \E t \in Txs : TakeTransaction(t)
    \/ \E o \in Outs : PutOwnedOutput(o)
    \/ \E k \in Keys : CheckInput(k)
    \/ MarkInput \/ RecordTransaction

SmoothSpec == Init /\ [][SmoothStep]_vars
=============================================================================
