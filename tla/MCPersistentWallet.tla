------------------------- MODULE MCPersistentWallet -------------------------
(***************************************************************************)
(* The wallet and block tree of height 3 for PersistentWallet.              *)
(***************************************************************************)
EXTENDS PersistentWallet

CONSTANTS g, a1, a2, b2, pay, move, coin, o1, o2, o4

MCHashes == {g, a1, a2, b2}
MCTxs == {pay, move, coin}
MCOuts == {o1, o2, o4}

\* g --- a1 --- { a2 | b2 }: a1 pays o1, a2 moves it to o2, b2 mints o4.
MCChains == {<<g, a1>>, <<g, a1, a2>>, <<g, a1, b2>>}

MCTxsIn == [b \in MCHashes |->
    CASE b = a1 -> {pay} [] b = a2 -> {move} [] b = b2 -> {coin} [] OTHER -> {}]

MCRegular == {pay, move}

MCCreates == [t \in MCTxs |->
    CASE t = pay -> {o1} [] t = move -> {o2} [] t = coin -> {o4}]

MCSpends == [t \in MCTxs |-> IF t = move THEN {o1} ELSE {}]

MCKeyOf == [o \in MCOuts |-> o]
=============================================================================
