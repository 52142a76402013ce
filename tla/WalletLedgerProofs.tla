------------------------- MODULE WalletLedgerProofs -------------------------
(***************************************************************************)
(* The tables say what the best chain says (TablesExact), for every ledger   *)
(* in which a transaction is mined once, a key image is spent once and after *)
(* its output was paid.                                                     *)
(*                                                                         *)
(* The argument: at every await the tables are the ledger of the blocks      *)
(* whose hashes are stored, of the transactions of the block in hand that    *)
(* are done, and of the part done of the transaction in hand.  A rollback    *)
(* cuts the three tables to the common block one after the other; between    *)
(* two of its steps each table is the ledger up to a height of its own.      *)
(***************************************************************************)
EXTENDS WalletFollowProofs

\* No transaction is given up and none is missing from a block.
NothingSkipped == Events \cap {"txsError", "txError"} = {}

\* What the consensus rules and the keys of a full wallet provide: each output
\* has a key image of its own and is created by one transaction; on a chain a
\* transaction is mined once, a key image is spent once, and above the block
\* that paid its output (outputs mature for several blocks).  Txs are the
\* transactions that concern the wallet; it can read the inputs of those that
\* spend.
OneLedger ==
    /\ \A o, p \in Outs : KeyOf[o] = KeyOf[p] => o = p
    /\ \A t, u \in Txs : Creates[t] \cap Creates[u] # {} => t = u
    /\ \A t \in Txs : Creates[t] \union Spends[t] # {}
    /\ \A t \in JsonOnly : Spends[t] = {}
    /\ \A c \in Chains : \A i, j \in DOMAIN c : \A t \in TxsIn[c[i]], u \in TxsIn[c[j]] :
          /\ t = u => i = j
          /\ Spends[t] \cap Spends[u] # {} => t = u
    /\ \A c \in Chains : \A i \in DOMAIN c : \A t \in TxsIn[c[i]] : \A k \in Spends[t] :
          \E j \in 1 .. i - 1 : \E u \in TxsIn[c[j]] : \E o \in Creates[u] : KeyOf[o] = k

-----------------------------------------------------------------------------
(***************************************************************************)
(* The ledger of the stored blocks and of what is done of the next one      *)
(***************************************************************************)
\* Transaction t is in the stored block of height h, below n.
Stored(t, h, n) == h \in 0 .. n - 1 /\ t \in TxsIn[hashes[h]]

\* Transaction t of the block in hand is done.
Handled(t) ==
    /\ InBlock /\ t \in TxsIn[block] \ todo
    /\ pc = "tx" => t # cur.tx
    /\ t \in Regular => pc = "regular" \/ (pc = "tx" /\ cur.tx \in Regular)

\* Transaction t is in processing.
InHand(t, h) == pc = "tx" /\ t = cur.tx /\ h = currentHeight

\* Transaction t is done, at height h.
Scanned(t, h, n) == Stored(t, h, n) \/ (h = currentHeight /\ Handled(t))

\* Up to which height each table is the ledger.
LedgerLength ==
    IF pc \in {"rollbackTxs", "rollbackSpends", "rollbackHashes"} THEN probe + 1
    ELSE IF InBlock \/ pc \in {"rollbackSync", "block", "save"} THEN currentHeight
    ELSE syncHeight
SpendLength == IF pc \in {"rollbackTxs", "rollbackSpends"} THEN syncHeight ELSE LedgerLength
HistoryLength == IF pc = "rollbackTxs" THEN syncHeight ELSE LedgerLength

\* The ledger pays output o at height h.
Paid(o, h) ==
    \E t \in Txs :
        /\ o \in Creates[t]
        /\ Scanned(t, h, LedgerLength) \/ (InHand(t, h) /\ o \notin cur.outs)

\* The ledger spends key image k by transaction t at height h.
Spent(k, t, h) ==
    /\ k \in Spends[t]
    /\ Scanned(t, h, SpendLength) \/ (InHand(t, h) /\ k \in cur.spent)
    /\ \E o \in Outs, i \in Heights : KeyOf[o] = k /\ Paid(o, i)

OutputsAre ==
    /\ \A k \in Keys : outputs[k] # None =>
          KeyOf[outputs[k].out] = k /\ Paid(outputs[k].out, outputs[k].blockHeight)
    /\ \A o \in Outs, h \in Heights : Paid(o, h) =>
          /\ outputs[KeyOf[o]] # None
          /\ outputs[KeyOf[o]].out = o /\ outputs[KeyOf[o]].blockHeight = h

SpendsAre ==
    /\ \A k \in Keys : outputs[k] # None /\ outputs[k].isSpent =>
          /\ outputs[k].spentTx # None /\ outputs[k].spentHeight # None
          /\ Spent(k, outputs[k].spentTx, outputs[k].spentHeight)
    /\ \A k \in Keys, t \in Txs, h \in Heights : Spent(k, t, h) =>
          /\ outputs[k] # None /\ outputs[k].isSpent
          /\ outputs[k].spentTx = t /\ outputs[k].spentHeight = h

HistoryIs ==
    /\ \A t \in Txs : txs[t] # None =>
          /\ Scanned(t, txs[t].blockHeight, HistoryLength)
          /\ txs[t].received = Creates[t] /\ txs[t].spent = Spends[t]
    /\ \A t \in Txs, h \in Heights : Scanned(t, h, HistoryLength) =>
          txs[t] # None /\ txs[t].blockHeight = h

\* The block in hand is the best chain's, its transactions are taken in two
\* portions, and of the one in processing every input is still to do, found, or
\* spent.
Hand ==
    /\ InBlock => block = BlockAt(currentHeight) /\ currentHeight < Len(chain)
                  /\ todo \subseteq TxsIn[block]
    /\ pc = "embedded" => todo \cap Regular = {}
    /\ pc = "regular" => todo \subseteq Regular
    /\ pc = "tx" =>
        /\ cur.tx \in TxsIn[block] /\ cur.tx \notin todo
        /\ cur.tx \in Regular => todo \subseteq Regular
        /\ cur.tx \notin Regular => todo \cap Regular = {}
        /\ cur.outs \subseteq Creates[cur.tx]
        /\ Spends[cur.tx] = {k \in Keys : k \in cur.ins \/ k \in cur.spent \/ k = cur.found}
        /\ cur.ins \cap cur.spent = {} /\ cur.found \notin cur.ins \union cur.spent
        /\ cur.outs # {} => cur.spent = {} /\ cur.found = None
        /\ cur.found # None => outputs[cur.found] # None /\ ~outputs[cur.found].isSpent
    /\ pc \in {"loop", "recheck"} => currentHeight = syncHeight

\* Why the tables are exact.
LedgerInv == OutputsAre /\ SpendsAre /\ HistoryIs /\ Hand

-----------------------------------------------------------------------------
(***************************************************************************)
(* One chain vouches for the whole ledger                                   *)
(***************************************************************************)
\* Transaction t is in a stored block or in the block in hand.
Mined(t, h) ==
    Stored(t, h, SpendLength) \/ (InBlock /\ h = currentHeight /\ t \in TxsIn[block])

\* The lengths are heights, in order.
LEMMA Lengths ==
    ASSUME TypeInv, CoverInv
    PROVE  /\ LedgerLength \in 0 .. MaxHeight /\ SpendLength \in 0 .. MaxHeight
           /\ HistoryLength \in 0 .. MaxHeight
           /\ LedgerLength <= HistoryLength /\ HistoryLength <= SpendLength
           /\ InBlock => LedgerLength = currentHeight /\ SpendLength = currentHeight
                         /\ HistoryLength = currentHeight
           /\ MaxHeight \in Nat
<1>1. /\ syncHeight \in 0 .. MaxHeight /\ currentHeight \in 0 .. MaxHeight
      /\ probe \in 0 .. MaxHeight - 1 /\ MaxHeight \in Nat
  BY StoreAssumption DEF TypeInv, TypeOK, Heights
<1>2. pc \in {"rollbackTxs", "rollbackSpends", "rollbackHashes"} => probe < syncHeight
  BY DEF CoverInv, BeforeHashesGo
<1> QED
  BY <1>1, <1>2 DEF LedgerLength, SpendLength, HistoryLength, InBlock

\* What is done or in hand is mined.
LEMMA ScannedIsMined ==
    ASSUME TypeInv, CoverInv, Hand, NEW t, NEW h
    PROVE  /\ Scanned(t, h, LedgerLength) => Mined(t, h)
           /\ Scanned(t, h, SpendLength) => Mined(t, h)
           /\ Scanned(t, h, HistoryLength) => Mined(t, h)
           /\ InHand(t, h) => Mined(t, h)
<1>1. /\ LedgerLength \in Nat /\ HistoryLength \in Nat /\ SpendLength \in Nat
      /\ LedgerLength <= HistoryLength /\ HistoryLength <= SpendLength
  BY Lengths
<1>2. \A n \in {LedgerLength, HistoryLength, SpendLength} :
         Stored(t, h, n) => Stored(t, h, SpendLength)
  BY <1>1 DEF Stored
<1> QED
  BY <1>2 DEF Scanned, Mined, Handled, InHand, Hand, InBlock

\* A chain has all that is mined, at its height.
LEMMA OneChain ==
    ASSUME TypeInv, CoverInv, FollowInv, Hand
    PROVE  \E d \in Chains :
              /\ SpendLength <= Len(d) /\ \A h \in 0 .. SpendLength - 1 : hashes[h] = d[h + 1]
              /\ InBlock => currentHeight < Len(d) /\ block = d[currentHeight + 1]
<1>1. /\ syncHeight \in Nat /\ currentHeight \in Nat /\ probe \in Nat /\ chain \in Chains
  BY StoreAssumption DEF TypeInv, TypeOK, Heights
<1>2. CASE InBlock \/ pc \in {"block", "save", "rollbackSync"}
  <2>1. SpendLength = currentHeight
    BY <1>2 DEF SpendLength, LedgerLength, InBlock
  <2>2. OnBestChain(currentHeight)
    BY <1>2 DEF FollowInv, Checked, Common, InBatch, CoverInv
  <2> QED
    BY <1>1, <2>1, <2>2 DEF OnBestChain, Along, Hand, BlockAt
<1>3. CASE ~InBlock /\ pc \notin {"block", "save", "rollbackSync"}
  <2>1. PICK d \in Chains : Along(d, syncHeight)
    BY <1>3 DEF FollowInv, Rooted, SyncedLength
  <2>2. SpendLength \in Nat /\ SpendLength <= syncHeight
    <3>1. pc = "rollbackHashes" => probe < syncHeight
      BY DEF CoverInv, BeforeHashesGo
    <3> QED BY <1>1, <1>3, <3>1 DEF SpendLength, LedgerLength
  <2>3. Along(d, SpendLength)
    BY <1>1, <2>1, <2>2, AlongPrefix
  <2> QED BY <1>3, <2>3 DEF Along
<1> QED BY <1>2, <1>3

\* On it a transaction is mined once, and a key image is spent once, above the
\* stored block that pays its output.
LEMMA MinedOnce ==
    ASSUME OneLedger, TypeInv, CoverInv, FollowInv, Hand
    PROVE  /\ \A t, h, g : Mined(t, h) /\ Mined(t, g) => h = g
           /\ \A t, u, h, g : Mined(t, h) /\ Mined(u, g) /\ Spends[t] \cap Spends[u] # {}
                 => t = u
           /\ \A t, h : Mined(t, h) => t \in Txs /\ h \in Heights
           /\ \A t, h : Mined(t, h) => \A k \in Spends[t] :
                 \E u \in Txs, o \in Outs, g \in Heights :
                    /\ g < h /\ o \in Creates[u] /\ KeyOf[o] = k
                    /\ Stored(u, g, SpendLength)
<1>1. PICK d \in Chains :
              /\ SpendLength <= Len(d) /\ \A h \in 0 .. SpendLength - 1 : hashes[h] = d[h + 1]
              /\ InBlock => currentHeight < Len(d) /\ block = d[currentHeight + 1]
  BY OneChain
<1>2. /\ d \in Seq(Hashes) /\ Len(d) \in Nat /\ DOMAIN d = 1 .. Len(d) /\ Len(d) <= MaxHeight
      /\ SpendLength \in Nat /\ currentHeight \in Nat /\ MaxHeight \in Nat
      /\ InBlock => SpendLength = currentHeight
  BY Lengths, ChainFacts, LenProperties, StoreAssumption DEF TypeInv, TypeOK
<1>3. \A t, h : Mined(t, h) =>
         /\ h \in 0 .. Len(d) - 1 /\ h + 1 \in DOMAIN d /\ t \in TxsIn[d[h + 1]]
         /\ h <= SpendLength
  BY <1>1, <1>2 DEF Mined, Stored
<1>4. \A t, h, g : Mined(t, h) /\ Mined(t, g) => h = g
  <2> SUFFICES ASSUME NEW t, NEW h, NEW g, Mined(t, h), Mined(t, g) PROVE h = g
    OBVIOUS
  <2>1. h + 1 = g + 1
    BY <1>3 DEF OneLedger
  <2> QED BY <1>3, <2>1
<1>5. \A t, u, h, g : Mined(t, h) /\ Mined(u, g) /\ Spends[t] \cap Spends[u] # {}
                 => t = u
  BY <1>3 DEF OneLedger
<1>6. \A t, h : Mined(t, h) => t \in Txs /\ h \in Heights
  <2> SUFFICES ASSUME NEW t, NEW h, Mined(t, h) PROVE t \in Txs /\ h \in Heights
    OBVIOUS
  <2>1. d[h + 1] \in Hashes /\ h \in 0 .. Len(d) - 1
    BY <1>2, <1>3, ElementOfSeq
  <2> QED BY <1>2, <1>3, <2>1, WalletAssumption DEF Heights
<1>7. \A t, h : Mined(t, h) => \A k \in Spends[t] :
                 \E u \in Txs, o \in Outs, g \in Heights :
                    /\ g < h /\ o \in Creates[u] /\ KeyOf[o] = k
                    /\ Stored(u, g, SpendLength)
  <2> SUFFICES ASSUME NEW t, NEW h, Mined(t, h), NEW k \in Spends[t]
               PROVE  \E u \in Txs, o \in Outs, g \in Heights :
                        /\ g < h /\ o \in Creates[u] /\ KeyOf[o] = k
                        /\ Stored(u, g, SpendLength)
    OBVIOUS
  <2>1. PICK j \in 1 .. h : \E u \in TxsIn[d[j]] : \E o \in Creates[u] : KeyOf[o] = k
    <3>1. (h + 1) - 1 = h /\ h + 1 \in DOMAIN d /\ t \in TxsIn[d[h + 1]]
      BY <1>2, <1>3
    <3> QED BY <3>1 DEF OneLedger
  <2>6. PICK u \in TxsIn[d[j]] : \E o \in Creates[u] : KeyOf[o] = k
    BY <2>1
  <2>7. PICK o \in Creates[u] : KeyOf[o] = k
    BY <2>6
  <2>2. h \in 0 .. Len(d) - 1 /\ h <= SpendLength
    BY <1>3
  <2> DEFINE i == j - 1
  <2>3. /\ i \in 0 .. SpendLength - 1 /\ i < h /\ i \in Heights /\ i + 1 = j
        /\ j \in 1 .. Len(d)
    BY <1>1, <1>2, <2>2 DEF Heights
  <2>4. hashes[i] = d[j]
    BY <1>1, <2>3
  <2>5. d[j] \in Hashes /\ u \in Txs /\ o \in Outs
    <3>1. d[j] \in Hashes
      BY <1>2, <2>3, ElementOfSeq
    <3> QED BY <3>1, WalletAssumption
  <2> QED BY <2>3, <2>4, <2>5, <2>7 DEF Stored
<1> QED BY <1>4, <1>5, <1>6, <1>7

-----------------------------------------------------------------------------
(***************************************************************************)
(* Steps that leave the ledger as it is                                     *)
(***************************************************************************)
\* The records of the tables are about outputs, transactions and heights.
LEMMA RecordTypes ==
    ASSUME TypeInv
    PROVE  /\ \A k \in Keys : outputs[k] # None =>
                 /\ outputs[k] \in OutputRecord
                 /\ outputs[k].out \in Outs /\ outputs[k].blockHeight \in Heights
                 /\ outputs[k].isSpent \in BOOLEAN
                 /\ outputs[k].spentTx # None => outputs[k].spentTx \in Txs
                 /\ outputs[k].spentHeight # None => outputs[k].spentHeight \in Heights
           /\ \A t \in Txs : txs[t] # None => txs[t] \in TxRecord
                                           /\ txs[t].blockHeight \in Heights
BY DEF TypeInv, TypeOK, OutputRecord, TxRecord

\* The same ledger and the same tables.
LEMMA TablesSame ==
    ASSUME TypeInv, OutputsAre, SpendsAre, HistoryIs, UNCHANGED <<outputs, txs>>,
           \A o \in Outs, h \in Heights : Paid(o, h)' <=> Paid(o, h),
           \A k \in Keys, t \in Txs, h \in Heights : Spent(k, t, h)' <=> Spent(k, t, h),
           \A t \in Txs, h \in Heights :
              Scanned(t, h, HistoryLength)' <=> Scanned(t, h, HistoryLength)
    PROVE  OutputsAre' /\ SpendsAre' /\ HistoryIs'
<1>1. OutputsAre'
  BY RecordTypes DEF OutputsAre
<1>2. SpendsAre'
  BY RecordTypes DEF SpendsAre
<1>3. HistoryIs'
  BY RecordTypes DEF HistoryIs
<1> QED BY <1>1, <1>2, <1>3

\* What is scanned and what of the transaction in hand is done says what is paid
\* and spent.
LEMMA LedgerSame ==
    ASSUME TypeInv, OutputsAre, SpendsAre, HistoryIs, UNCHANGED <<outputs, txs>>,
           \A t \in Txs, h \in Heights :
              /\ Scanned(t, h, LedgerLength)' <=> Scanned(t, h, LedgerLength)
              /\ Scanned(t, h, SpendLength)' <=> Scanned(t, h, SpendLength)
              /\ Scanned(t, h, HistoryLength)' <=> Scanned(t, h, HistoryLength)
              /\ InHand(t, h)' <=> InHand(t, h),
           pc = "tx" => cur'.outs = cur.outs /\ cur'.spent = cur.spent
    PROVE  OutputsAre' /\ SpendsAre' /\ HistoryIs'
<1>1. \A o \in Outs, h \in Heights : Paid(o, h)' <=> Paid(o, h)
  BY DEF Paid, InHand
<1>2. \A k \in Keys, t \in Txs, h \in Heights : Spent(k, t, h)' <=> Spent(k, t, h)
  BY <1>1 DEF Spent, InHand
<1> QED BY <1>1, <1>2, TablesSame

\* Outside a block only the stored blocks count.
LEMMA OutsideBlock ==
    ASSUME ~InBlock, NEW t, NEW h, NEW n
    PROVE  (Scanned(t, h, n) <=> Stored(t, h, n)) /\ ~InHand(t, h)
BY DEF Scanned, Handled, InHand, InBlock

\* A step from outside a block to outside one.
LEMMA LedgerQuiet ==
    ASSUME TypeInv, OutputsAre, SpendsAre, HistoryIs, UNCHANGED <<outputs, txs>>,
           ~InBlock, ~InBlock', UNCHANGED <<LedgerLength, SpendLength, HistoryLength>>,
           LedgerLength \in Nat, SpendLength \in Nat, HistoryLength \in Nat,
           \A n \in {LedgerLength, SpendLength, HistoryLength} :
              \A h \in 0 .. n - 1 : hashes'[h] = hashes[h]
    PROVE  OutputsAre' /\ SpendsAre' /\ HistoryIs'
<1>1. \A t, h, n : Scanned(t, h, n) <=> Stored(t, h, n)
  BY OutsideBlock
<1>2. \A t, h, n : ~InHand(t, h)
  BY OutsideBlock
<1>3. \A t, h : /\ Scanned(t, h, LedgerLength)' <=> Stored(t, h, LedgerLength)'
                /\ Scanned(t, h, SpendLength)' <=> Stored(t, h, SpendLength)'
                /\ Scanned(t, h, HistoryLength)' <=> Stored(t, h, HistoryLength)'
                /\ ~InHand(t, h)'
  BY DEF Scanned, Handled, InHand, InBlock
<1>4. \A t, h : /\ Stored(t, h, LedgerLength)' <=> Stored(t, h, LedgerLength)
                /\ Stored(t, h, SpendLength)' <=> Stored(t, h, SpendLength)
                /\ Stored(t, h, HistoryLength)' <=> Stored(t, h, HistoryLength)
  BY DEF Stored
<1>5. pc # "tx"
  BY DEF InBlock
<1> QED BY <1>1, <1>2, <1>3, <1>4, <1>5, LedgerSame

\* The awaits between blocks that leave tables and lengths alone.
LEMMA LedgerBetween ==
    ASSUME SteadyDaemon, TypeInv, CoverInv, FollowInv, LedgerInv,
           \/ GetInfo \/ Recheck \/ TipMatches \/ TipDiffers \/ AncestorFound
           \/ AncestorLower \/ SyncEnds \/ BatchDone
           \/ \E n \in 1 .. MaxBatch : GetHeaders(n)
    PROVE  LedgerInv'
<1>1. /\ UNCHANGED <<storeVars, currentHeight, startHeight>> /\ ~InBlock /\ ~InBlock'
      /\ pc \notin {"rollbackTxs", "rollbackSpends", "rollbackHashes", "rollbackSync", "embedded"}
      /\ pc' \notin {"rollbackTxs", "rollbackSpends", "rollbackHashes", "rollbackSync", "embedded"}
      /\ pc \in {"block", "save"} <=> pc' \in {"block", "save"} /\ pc # "loop"
      /\ pc' \in {"block", "save"} => pc \in {"block", "save", "loop"}
      /\ pc' # "recheck" /\ (pc' = "loop" => pc \in {"tip", "recheck"})
      /\ pc = "tip" /\ pc' = "loop" => currentHeight = startHeight
  BY DEF GetInfo, Recheck, TipMatches, TipDiffers, AncestorFound, AncestorLower,
     SyncEnds, BatchDone, GetHeaders, Goto, InBlock, heightVars, FollowInv, Checked
<1>2. pc \in {"loop", "recheck"} => currentHeight = syncHeight
  BY DEF LedgerInv, Hand
<1>3. UNCHANGED <<LedgerLength, SpendLength, HistoryLength>>
  BY <1>1, <1>2 DEF LedgerLength, SpendLength, HistoryLength, storeVars
<1>4. OutputsAre' /\ SpendsAre' /\ HistoryIs'
  <2>1. LedgerLength \in Nat /\ SpendLength \in Nat /\ HistoryLength \in Nat
    BY Lengths
  <2>2. UNCHANGED <<outputs, txs, hashes>>
    BY <1>1 DEF storeVars
  <2> QED BY <1>1, <1>3, <2>1, <2>2, LedgerQuiet DEF LedgerInv
<1>5. Hand'
  <2>1. pc = "tip" => startHeight = syncHeight
    BY DEF CoverInv
  <2> QED BY <1>1, <1>2, <2>1 DEF Hand, InBlock, storeVars
<1> QED BY <1>4, <1>5 DEF LedgerInv

\* Saving a height, the end of a rollback included, changes only which variable
\* tells the length of the ledger.
LEMMA LedgerSaves ==
    ASSUME TypeInv, CoverInv, LedgerInv, SaveSyncHeight \/ RollbackSyncHeight
    PROVE  LedgerInv'
<1>1. /\ pc \in {"save", "rollbackSync"} /\ pc' \in {"loop", "recheck"}
      /\ UNCHANGED <<outputs, txs, hashes, currentHeight>>
      /\ syncHeight' = currentHeight
  BY DEF SaveSyncHeight, RollbackSyncHeight, Goto, heightVars, CoverInv
<1>2. ~InBlock /\ ~InBlock' /\ UNCHANGED <<LedgerLength, SpendLength, HistoryLength>>
  BY <1>1 DEF LedgerLength, SpendLength, HistoryLength, InBlock
<1>3. LedgerLength \in Nat /\ SpendLength \in Nat /\ HistoryLength \in Nat
  BY Lengths
<1>4. OutputsAre' /\ SpendsAre' /\ HistoryIs'
  BY <1>1, <1>2, <1>3, LedgerQuiet DEF LedgerInv
<1>5. Hand'
  BY <1>1 DEF Hand, InBlock
<1> QED BY <1>4, <1>5 DEF LedgerInv

-----------------------------------------------------------------------------
(***************************************************************************)
(* The rollback                                                            *)
(***************************************************************************)
\* During it nothing is in hand, and a table cut at the probe is the ledger of
\* the blocks up to it.
LEMMA CutAtProbe ==
    ASSUME TypeInv, CoverInv, BeforeHashesGo, NEW t, NEW h
    PROVE  /\ Stored(t, h, probe + 1) <=> Stored(t, h, syncHeight) /\ h <= probe
           /\ Stored(t, h, probe + 1) => h \in Heights
<1>1. probe \in Nat /\ syncHeight \in Nat /\ probe < syncHeight /\ probe < MaxHeight
      /\ MaxHeight \in Nat
  BY StoreAssumption DEF TypeInv, TypeOK, CoverInv, Heights
<1> QED BY <1>1 DEF Stored, Heights

\* deleteOutputsAbove forgets what the blocks above the common one paid.
LEMMA LedgerRollbackOutputs ==
    ASSUME TypeInv, CoverInv, LedgerInv, RollbackOutputs
    PROVE  LedgerInv'
<1>1. /\ pc = "rollbackOutputs" /\ pc' = "rollbackTxs" /\ BeforeHashesGo
      /\ outputs' = DeleteOutputsAbove(outputs, probe)
      /\ UNCHANGED <<txs, hashes, syncHeight, probe>>
  BY DEF RollbackOutputs, Goto, BeforeHashesGo
<1>2. /\ LedgerLength = syncHeight /\ SpendLength = syncHeight /\ HistoryLength = syncHeight
      /\ LedgerLength' = probe + 1 /\ SpendLength' = syncHeight
      /\ HistoryLength' = syncHeight
  BY <1>1 DEF LedgerLength, SpendLength, HistoryLength, InBlock
<1>3. \A t, h, n : (Scanned(t, h, n) <=> Stored(t, h, n)) /\ ~InHand(t, h)
  BY <1>1, OutsideBlock DEF InBlock
<1>4. \A t, h : /\ Scanned(t, h, LedgerLength)' <=> Stored(t, h, probe + 1)
                /\ Scanned(t, h, SpendLength)' <=> Stored(t, h, syncHeight)
                /\ Scanned(t, h, HistoryLength)' <=> Stored(t, h, syncHeight)
                /\ ~InHand(t, h)'
  BY <1>1, <1>2 DEF Scanned, Stored, Handled, InHand, InBlock
<1>5. \A o \in Outs, h \in Heights : Paid(o, h)' <=> Paid(o, h) /\ h <= probe
  BY <1>1, <1>2, <1>3, <1>4, CutAtProbe DEF Paid
<1>6. \A k \in Keys, t \in Txs, h \in Heights :
         Spent(k, t, h)' <=>
            /\ Spent(k, t, h)
            /\ \E o \in Outs, i \in Heights : KeyOf[o] = k /\ Paid(o, i) /\ i <= probe
  BY <1>2, <1>3, <1>4, <1>5 DEF Spent
<1>7. \A k \in Keys :
         /\ outputs'[k] # None <=> outputs[k] # None /\ outputs[k].blockHeight <= probe
         /\ outputs'[k] # None => outputs'[k] = outputs[k]
  <2> SUFFICES ASSUME NEW k \in Keys
               PROVE  /\ outputs'[k] # None <=> outputs[k] # None /\ outputs[k].blockHeight <= probe
                      /\ outputs'[k] # None => outputs'[k] = outputs[k]
    OBVIOUS
  <2>1. outputs'[k] = IF outputs[k] # None /\ outputs[k].blockHeight > probe
                      THEN None ELSE outputs[k]
    BY <1>1 DEF DeleteOutputsAbove, OutputsAbove
  <2>2. outputs[k] # None => outputs[k].blockHeight \in Int /\ probe \in Int
    BY RecordTypes, StoreAssumption DEF TypeInv, TypeOK, Heights
  <2> QED BY <2>1, <2>2
<1>8. OutputsAre'
  <2>1. ASSUME NEW k \in Keys, outputs'[k] # None
        PROVE  KeyOf[outputs'[k].out] = k /\ Paid(outputs[k].out, outputs[k].blockHeight)'
    <3>1. outputs[k] # None /\ outputs'[k] = outputs[k] /\ outputs[k].blockHeight <= probe
      BY <1>7, <2>1
    <3>2. KeyOf[outputs[k].out] = k /\ Paid(outputs[k].out, outputs[k].blockHeight)
      BY <3>1 DEF LedgerInv, OutputsAre
    <3>3. outputs[k].out \in Outs /\ outputs[k].blockHeight \in Heights
      BY <3>1, RecordTypes
    <3> QED BY <1>5, <3>1, <3>2, <3>3
  <2>2. ASSUME NEW o \in Outs, NEW h \in Heights, Paid(o, h)'
        PROVE  /\ outputs'[KeyOf[o]] # None
               /\ outputs'[KeyOf[o]].out = o /\ outputs'[KeyOf[o]].blockHeight = h
    <3>1. Paid(o, h) /\ h <= probe /\ KeyOf[o] \in Keys
      BY <1>5, <2>2, WalletAssumption
    <3> QED BY <1>7, <3>1 DEF LedgerInv, OutputsAre
  <2> QED BY <2>1, <2>2 DEF OutputsAre
<1>9. SpendsAre'
  <2>1. ASSUME NEW k \in Keys, outputs'[k] # None, outputs'[k].isSpent
        PROVE  /\ outputs'[k].spentTx # None /\ outputs'[k].spentHeight # None
               /\ Spent(k, outputs[k].spentTx, outputs[k].spentHeight)'
    <3>1. outputs[k] # None /\ outputs'[k] = outputs[k] /\ outputs[k].blockHeight <= probe
      BY <1>7, <2>1
    <3>2. /\ outputs[k].spentTx # None /\ outputs[k].spentHeight # None
          /\ Spent(k, outputs[k].spentTx, outputs[k].spentHeight)
          /\ KeyOf[outputs[k].out] = k /\ Paid(outputs[k].out, outputs[k].blockHeight)
      BY <2>1, <3>1 DEF LedgerInv, SpendsAre, OutputsAre
    <3>3. /\ outputs[k].out \in Outs /\ outputs[k].blockHeight \in Heights
          /\ outputs[k].spentTx \in Txs /\ outputs[k].spentHeight \in Heights
      BY <3>1, <3>2, RecordTypes
    <3> QED BY <1>6, <3>1, <3>2, <3>3
  <2>2. ASSUME NEW k \in Keys, NEW t \in Txs, NEW h \in Heights, Spent(k, t, h)'
        PROVE  /\ outputs'[k] # None /\ outputs'[k].isSpent
               /\ outputs'[k].spentTx = t /\ outputs'[k].spentHeight = h
    <3>1. PICK o \in Outs, i \in Heights : KeyOf[o] = k /\ Paid(o, i) /\ i <= probe
      BY <1>6, <2>2
    <3>2. outputs[k] # None /\ outputs[k].blockHeight = i
      BY <3>1 DEF LedgerInv, OutputsAre
    <3>3. outputs'[k] # None /\ outputs'[k] = outputs[k]
      BY <1>7, <3>1, <3>2
    <3> QED BY <1>6, <2>2, <3>3 DEF LedgerInv, SpendsAre
  <2> QED BY <2>1, <2>2 DEF SpendsAre
<1>10. HistoryIs'
  BY <1>1, <1>2, <1>3, <1>4 DEF HistoryIs, LedgerInv
<1>11. Hand'
  BY <1>1 DEF Hand, InBlock
<1> QED BY <1>8, <1>9, <1>10, <1>11 DEF LedgerInv

\* deleteTransactionsAbove forgets what they recorded.
LEMMA LedgerRollbackTransactions ==
    ASSUME TypeInv, CoverInv, LedgerInv, RollbackTransactions
    PROVE  LedgerInv'
<1>1. /\ pc = "rollbackTxs" /\ pc' = "rollbackSpends" /\ BeforeHashesGo
      /\ txs' = DeleteTransactionsAbove(txs, probe)
      /\ UNCHANGED <<outputs, hashes, syncHeight, probe>>
  BY DEF RollbackTransactions, Goto, BeforeHashesGo
<1>2. /\ LedgerLength = probe + 1 /\ SpendLength = syncHeight /\ HistoryLength = syncHeight
      /\ LedgerLength' = probe + 1 /\ SpendLength' = syncHeight
      /\ HistoryLength' = probe + 1
  BY <1>1 DEF LedgerLength, SpendLength, HistoryLength, InBlock
<1>3. \A t, h, n : (Scanned(t, h, n) <=> Stored(t, h, n)) /\ ~InHand(t, h)
  BY <1>1, OutsideBlock DEF InBlock
<1>4. \A t, h : /\ Scanned(t, h, LedgerLength)' <=> Stored(t, h, probe + 1)
                /\ Scanned(t, h, SpendLength)' <=> Stored(t, h, syncHeight)
                /\ Scanned(t, h, HistoryLength)' <=> Stored(t, h, probe + 1)
                /\ ~InHand(t, h)'
  BY <1>1, <1>2 DEF Scanned, Stored, Handled, InHand, InBlock
<1>5. \A o \in Outs, h \in Heights : Paid(o, h)' <=> Paid(o, h)
  BY <1>2, <1>3, <1>4 DEF Paid
<1>6. \A k \in Keys, t \in Txs, h \in Heights : Spent(k, t, h)' <=> Spent(k, t, h)
  BY <1>2, <1>3, <1>4, <1>5 DEF Spent
<1>7. \A t \in Txs :
         /\ txs'[t] # None <=> txs[t] # None /\ txs[t].blockHeight <= probe
         /\ txs'[t] # None => txs'[t] = txs[t]
  <2> SUFFICES ASSUME NEW t \in Txs
               PROVE  /\ txs'[t] # None <=> txs[t] # None /\ txs[t].blockHeight <= probe
                      /\ txs'[t] # None => txs'[t] = txs[t]
    OBVIOUS
  <2>1. txs'[t] = IF txs[t] # None /\ txs[t].blockHeight > probe THEN None ELSE txs[t]
    BY <1>1 DEF DeleteTransactionsAbove
  <2>2. txs[t] # None => txs[t].blockHeight \in Int /\ probe \in Int
    BY RecordTypes, StoreAssumption DEF TypeInv, TypeOK, Heights
  <2> QED BY <2>1, <2>2
<1>8. OutputsAre'
  BY <1>1, <1>5, RecordTypes DEF OutputsAre, LedgerInv
<1>9. SpendsAre'
  BY <1>1, <1>6, RecordTypes DEF SpendsAre, LedgerInv
<1>10. HistoryIs'
  <2>1. ASSUME NEW t \in Txs, txs'[t] # None
        PROVE  /\ Scanned(t, txs[t].blockHeight, HistoryLength)'
               /\ txs'[t].received = Creates[t] /\ txs'[t].spent = Spends[t]
    <3>1. txs[t] # None /\ txs[t].blockHeight <= probe /\ txs'[t] = txs[t]
      BY <1>7, <2>1
    <3>2. /\ Stored(t, txs[t].blockHeight, syncHeight)
          /\ txs[t].received = Creates[t] /\ txs[t].spent = Spends[t]
      BY <1>2, <1>3, <3>1 DEF LedgerInv, HistoryIs
    <3>3. Stored(t, txs[t].blockHeight, probe + 1)
      BY <1>1, <3>1, <3>2, CutAtProbe
    <3> QED BY <1>4, <3>1, <3>2, <3>3
  <2>2. ASSUME NEW t \in Txs, NEW h \in Heights, Scanned(t, h, HistoryLength)'
        PROVE  txs'[t] # None /\ txs'[t].blockHeight = h
    <3>1. Stored(t, h, syncHeight) /\ h <= probe
      BY <1>1, <1>4, <2>2, CutAtProbe
    <3> QED BY <1>2, <1>3, <1>7, <3>1 DEF LedgerInv, HistoryIs
  <2> QED BY <2>1, <2>2 DEF HistoryIs
<1>11. Hand'
  BY <1>1 DEF Hand, InBlock
<1> QED BY <1>8, <1>9, <1>10, <1>11 DEF LedgerInv

\* unspendOutputsAbove forgets the spends of those blocks.
LEMMA LedgerRollbackSpends ==
    ASSUME TypeInv, CoverInv, LedgerInv, RollbackSpends
    PROVE  LedgerInv'
<1>1. /\ pc = "rollbackSpends" /\ pc' = "rollbackHashes" /\ BeforeHashesGo
      /\ outputs' = UnspendOutputsAbove(outputs, probe)
      /\ UNCHANGED <<txs, hashes, syncHeight, probe>>
  BY DEF RollbackSpends, Goto, BeforeHashesGo
<1>2. /\ LedgerLength = probe + 1 /\ SpendLength = syncHeight /\ HistoryLength = probe + 1
      /\ LedgerLength' = probe + 1 /\ SpendLength' = probe + 1
      /\ HistoryLength' = probe + 1
  BY <1>1 DEF LedgerLength, SpendLength, HistoryLength, InBlock
<1>3. \A t, h, n : (Scanned(t, h, n) <=> Stored(t, h, n)) /\ ~InHand(t, h)
  BY <1>1, OutsideBlock DEF InBlock
<1>4. \A t, h : /\ Scanned(t, h, LedgerLength)' <=> Stored(t, h, probe + 1)
                /\ Scanned(t, h, SpendLength)' <=> Stored(t, h, probe + 1)
                /\ Scanned(t, h, HistoryLength)' <=> Stored(t, h, probe + 1)
                /\ ~InHand(t, h)'
  BY <1>1, <1>2 DEF Scanned, Stored, Handled, InHand, InBlock
<1>5. \A o \in Outs, h \in Heights : Paid(o, h)' <=> Paid(o, h)
  BY <1>2, <1>3, <1>4 DEF Paid
<1>6. \A k \in Keys, t \in Txs, h \in Heights :
         Spent(k, t, h)' <=> Spent(k, t, h) /\ h <= probe
  BY <1>1, <1>2, <1>3, <1>4, <1>5, CutAtProbe DEF Spent
<1>7. \A k \in Keys :
         /\ outputs'[k] # None <=> outputs[k] # None
         /\ outputs[k] # None =>
               /\ outputs'[k].out = outputs[k].out
               /\ outputs'[k].blockHeight = outputs[k].blockHeight
         /\ k \in SpentAbove(outputs, probe) => ~outputs'[k].isSpent
         /\ k \notin SpentAbove(outputs, probe) => outputs'[k] = outputs[k]
  <2> SUFFICES ASSUME NEW k \in Keys
               PROVE  /\ outputs'[k] # None <=> outputs[k] # None
                      /\ outputs[k] # None =>
                            /\ outputs'[k].out = outputs[k].out
                            /\ outputs'[k].blockHeight = outputs[k].blockHeight
                      /\ k \in SpentAbove(outputs, probe) => ~outputs'[k].isSpent
                      /\ k \notin SpentAbove(outputs, probe) => outputs'[k] = outputs[k]
    OBVIOUS
  <2>1. CASE k \notin SpentAbove(outputs, probe)
    BY <1>1, <2>1 DEF UnspendOutputsAbove
  <2>2. CASE k \in SpentAbove(outputs, probe)
    <3> DEFINE rec == [outputs[k] EXCEPT !.isSpent = FALSE, !.spentTx = None,
                                         !.spentHeight = None]
    <3>1. outputs[k] # None /\ outputs[k] \in OutputRecord
      BY <2>2, RecordTypes DEF SpentAbove
    <3>2. /\ rec.out = outputs[k].out /\ rec.blockHeight = outputs[k].blockHeight
          /\ rec.isSpent = FALSE /\ rec \in OutputRecord
      BY <3>1 DEF OutputRecord
    <3>3. outputs'[k] = rec
      BY <1>1, <2>2 DEF UnspendOutputsAbove
    <3> HIDE DEF rec
    <3>4. rec # None
      BY <3>2, NoneAssumption
    <3> QED BY <2>2, <3>1, <3>2, <3>3, <3>4
  <2> QED BY <2>1, <2>2
<1>8. OutputsAre'
  <2>1. ASSUME NEW k \in Keys, outputs'[k] # None
        PROVE  KeyOf[outputs'[k].out] = k /\ Paid(outputs[k].out, outputs[k].blockHeight)'
    <3>1. /\ outputs[k] # None /\ outputs'[k].out = outputs[k].out
          /\ outputs'[k].blockHeight = outputs[k].blockHeight
      BY <1>7, <2>1
    <3>2. KeyOf[outputs[k].out] = k /\ Paid(outputs[k].out, outputs[k].blockHeight)
      BY <3>1 DEF LedgerInv, OutputsAre
    <3>3. outputs[k].out \in Outs /\ outputs[k].blockHeight \in Heights
      BY <3>1, RecordTypes
    <3> QED BY <1>5, <3>1, <3>2, <3>3
  <2>2. ASSUME NEW o \in Outs, NEW h \in Heights, Paid(o, h)'
        PROVE  /\ outputs'[KeyOf[o]] # None
               /\ outputs'[KeyOf[o]].out = o /\ outputs'[KeyOf[o]].blockHeight = h
    <3>1. Paid(o, h) /\ KeyOf[o] \in Keys
      BY <1>5, <2>2, WalletAssumption
    <3> QED BY <1>7, <3>1 DEF LedgerInv, OutputsAre
  <2> QED BY <2>1, <2>2 DEF OutputsAre
<1>9. SpendsAre'
  <2>1. ASSUME NEW k \in Keys, outputs'[k] # None, outputs'[k].isSpent
        PROVE  /\ outputs'[k].spentTx # None /\ outputs'[k].spentHeight # None
               /\ Spent(k, outputs[k].spentTx, outputs[k].spentHeight)'
    <3>1. k \notin SpentAbove(outputs, probe) /\ outputs'[k] = outputs[k]
      BY <1>7, <2>1
    <3>2. /\ outputs[k].spentTx # None /\ outputs[k].spentHeight # None
          /\ Spent(k, outputs[k].spentTx, outputs[k].spentHeight)
      BY <2>1, <3>1 DEF LedgerInv, SpendsAre
    <3>3. outputs[k].spentTx \in Txs /\ outputs[k].spentHeight \in Heights
      BY <2>1, <3>1, <3>2, RecordTypes
    <3>4. outputs[k].spentHeight <= probe
      <4>1. outputs[k].spentHeight \in Int /\ probe \in Int
        BY <3>3, StoreAssumption DEF TypeInv, TypeOK, Heights
      <4> QED BY <2>1, <3>1, <3>2, <4>1 DEF SpentAbove
    <3> QED BY <1>6, <3>1, <3>2, <3>3, <3>4
  <2>2. ASSUME NEW k \in Keys, NEW t \in Txs, NEW h \in Heights, Spent(k, t, h)'
        PROVE  /\ outputs'[k] # None /\ outputs'[k].isSpent
               /\ outputs'[k].spentTx = t /\ outputs'[k].spentHeight = h
    <3>1. /\ outputs[k] # None /\ outputs[k].isSpent
          /\ outputs[k].spentTx = t /\ outputs[k].spentHeight = h /\ h <= probe
      BY <1>6, <2>2 DEF LedgerInv, SpendsAre
    <3>2. h \in Int /\ probe \in Int
      BY StoreAssumption DEF TypeInv, TypeOK, Heights
    <3>3. k \notin SpentAbove(outputs, probe)
      BY <3>1, <3>2 DEF SpentAbove
    <3> QED BY <1>7, <3>1, <3>3
  <2> QED BY <2>1, <2>2 DEF SpendsAre
<1>10. HistoryIs'
  BY <1>1, <1>2, <1>3, <1>4, RecordTypes DEF HistoryIs, LedgerInv
<1>11. Hand'
  BY <1>1 DEF Hand, InBlock
<1> QED BY <1>8, <1>9, <1>10, <1>11 DEF LedgerInv

\* The hashes go last: the tables are the ledger of the blocks that stay.
LEMMA LedgerRollbackHashes ==
    ASSUME TypeInv, CoverInv, LedgerInv, RollbackHashes
    PROVE  LedgerInv'
<1>1. /\ pc = "rollbackHashes" /\ pc' = "rollbackSync" /\ currentHeight' = probe + 1
      /\ UNCHANGED <<outputs, txs>>
      /\ \A h \in Heights : h <= probe => hashes'[h] = hashes[h]
  BY StoreAssumption
     DEF RollbackHashes, Goto, DeleteBlockHashesAbove, TypeInv, TypeOK, Heights
<1>2. ~InBlock /\ ~InBlock' /\ UNCHANGED <<LedgerLength, SpendLength, HistoryLength>>
      /\ LedgerLength = probe + 1 /\ SpendLength = probe + 1 /\ HistoryLength = probe + 1
  BY <1>1 DEF LedgerLength, SpendLength, HistoryLength, InBlock
<1>3. probe + 1 \in Nat /\ \A h \in 0 .. (probe + 1) - 1 : h \in Heights /\ h <= probe
  BY StoreAssumption DEF TypeInv, TypeOK, Heights
<1>4. OutputsAre' /\ SpendsAre' /\ HistoryIs'
  BY <1>1, <1>2, <1>3, LedgerQuiet DEF LedgerInv
<1>5. Hand'
  BY <1>1 DEF Hand, InBlock
<1> QED BY <1>4, <1>5 DEF LedgerInv

-----------------------------------------------------------------------------
(***************************************************************************)
(* The processing of a block                                               *)
(***************************************************************************)
\* Inside a block nothing but the transactions done and the one in hand is at
\* the current height.
LEMMA InsideBlock ==
    ASSUME TypeInv, InBlock
    PROVE  /\ LedgerLength = currentHeight /\ SpendLength = currentHeight
           /\ HistoryLength = currentHeight /\ currentHeight \in Heights
           /\ currentHeight \in Nat
           /\ \A t, h : Scanned(t, h, currentHeight) =>
                 h \in Nat /\ h <= currentHeight /\ (h = currentHeight => Handled(t))
           /\ \A t : Scanned(t, currentHeight, currentHeight) <=> Handled(t)
           /\ pc = "tx" => ~Handled(cur.tx)
<1>1. currentHeight \in Heights /\ currentHeight \in Nat
  BY CurrentHeightInBlock, StoreAssumption DEF Heights
<1> QED
  BY <1>1 DEF InBlock, LedgerLength, SpendLength, HistoryLength, Scanned, Stored, Handled

\* A step into, inside or out of a block that writes no table but the hashes.
LEMMA LedgerBlockQuiet ==
    ASSUME TypeInv, OutputsAre, SpendsAre, HistoryIs, UNCHANGED <<outputs, txs>>,
           SpendLength = LedgerLength, HistoryLength = LedgerLength,
           SpendLength' = LedgerLength', HistoryLength' = LedgerLength',
           pc = "tx" \/ pc' = "tx" => FALSE,
           \A t \in Txs, h \in Heights :
              Scanned(t, h, LedgerLength)' <=> Scanned(t, h, LedgerLength)
    PROVE  OutputsAre' /\ SpendsAre' /\ HistoryIs'
<1>1. \A t, h : ~InHand(t, h) /\ ~InHand(t, h)'
  BY DEF InHand
<1>2. \A t \in Txs, h \in Heights :
         /\ Scanned(t, h, SpendLength)' <=> Scanned(t, h, SpendLength)
         /\ Scanned(t, h, HistoryLength)' <=> Scanned(t, h, HistoryLength)
  BY DEF Scanned, Stored
<1> QED BY <1>1, <1>2, LedgerSame

\* getBlock answers with the best chain's block, and nothing of it is done yet.
LEMMA LedgerGetBlock ==
    ASSUME TypeInv, CoverInv, LedgerInv, GetBlock
    PROVE  LedgerInv'
<1>1. /\ pc = "block" /\ pc' = "embedded" /\ UNCHANGED <<chain, storeVars, currentHeight>>
      /\ block' = BlockAt(currentHeight) /\ currentHeight < Len(chain)
      /\ todo' = TxsIn[block'] \ Regular
  BY DEF GetBlock, MoreHeaders, HasBlock, Goto, callerVars, heightVars
<1>2. /\ LedgerLength = currentHeight /\ SpendLength = currentHeight
      /\ HistoryLength = currentHeight /\ LedgerLength' = currentHeight
      /\ SpendLength' = currentHeight /\ HistoryLength' = currentHeight
  BY <1>1 DEF LedgerLength, SpendLength, HistoryLength, InBlock
<1>3. \A t : ~Handled(t) /\ ~Handled(t)'
  BY <1>1 DEF Handled, InBlock
<1>4. \A t \in Txs, h \in Heights :
         Scanned(t, h, LedgerLength)' <=> Scanned(t, h, LedgerLength)
  BY <1>1, <1>2, <1>3 DEF Scanned, Stored, storeVars
<1>5. OutputsAre' /\ SpendsAre' /\ HistoryIs'
  BY <1>1, <1>2, <1>4, LedgerBlockQuiet DEF LedgerInv, storeVars
<1>6. Hand'
  BY <1>1 DEF Hand, InBlock, BlockAt
<1> QED BY <1>5, <1>6 DEF LedgerInv

\* The embedded transactions are done; the others are to do.
LEMMA LedgerGetTransactions ==
    ASSUME NothingSkipped, TypeInv, CoverInv, LedgerInv, GetTransactions
    PROVE  LedgerInv'
<1>1. /\ pc = "embedded" /\ pc' = "regular" /\ todo = {} /\ todo' = TxsIn[block] \cap Regular
      /\ UNCHANGED <<chain, storeVars, currentHeight, block>>
  BY DEF GetTransactions, NothingSkipped, Goto, callerVars, heightVars
<1>2. /\ LedgerLength = currentHeight /\ SpendLength = currentHeight
      /\ HistoryLength = currentHeight /\ LedgerLength' = currentHeight
      /\ SpendLength' = currentHeight /\ HistoryLength' = currentHeight
  BY <1>1 DEF LedgerLength, SpendLength, HistoryLength, InBlock
<1>3. \A t : Handled(t)' <=> Handled(t)
  BY <1>1 DEF Handled, InBlock
<1>4. \A t \in Txs, h \in Heights :
         Scanned(t, h, LedgerLength)' <=> Scanned(t, h, LedgerLength)
  BY <1>1, <1>2, <1>3 DEF Scanned, Stored, storeVars
<1>5. OutputsAre' /\ SpendsAre' /\ HistoryIs'
  BY <1>1, <1>2, <1>4, LedgerBlockQuiet DEF LedgerInv, storeVars
<1>6. Hand'
  BY <1>1 DEF LedgerInv, Hand, InBlock, BlockAt
<1> QED BY <1>5, <1>6 DEF LedgerInv

\* No transaction of the block is in the history already.
LEMMA NothingToSkip ==
    ASSUME OneLedger, TypeInv, CoverInv, FollowInv, LedgerInv,
           NEW t \in Txs, SkipTransaction(t)
    PROVE  FALSE
<1>1. InBlock /\ t \in todo /\ txs[t] # None
  BY DEF SkipTransaction, InBlock
<1>2. Hand /\ t \in TxsIn[block] /\ HistoryLength = currentHeight
  BY <1>1, InsideBlock DEF LedgerInv, Hand
<1>3. Scanned(t, txs[t].blockHeight, HistoryLength)
  BY <1>1 DEF LedgerInv, HistoryIs
<1>4. Mined(t, txs[t].blockHeight) /\ Mined(t, currentHeight)
  BY <1>1, <1>2, <1>3, ScannedIsMined DEF Mined
<1>5. txs[t].blockHeight = currentHeight
  BY <1>2, <1>4, MinedOnce
<1>6. Handled(t)
  BY <1>1, <1>2, <1>3, <1>5, InsideBlock
<1> QED BY <1>1, <1>6 DEF Handled

\* The next transaction of the block is taken in hand.
LEMMA LedgerTakeTransaction ==
    ASSUME OneLedger, TypeInv, CoverInv, LedgerInv, NEW t \in Txs, TakeTransaction(t)
    PROVE  LedgerInv'
<1>1. /\ pc \in {"embedded", "regular"} /\ pc' = "tx" /\ InBlock /\ InBlock'
      /\ t \in todo /\ todo' = todo \ {t}
      /\ cur' = [tx |-> t, outs |-> Creates[t], ins |-> InputsChecked(t),
                 found |-> None, spent |-> {}]
      /\ UNCHANGED <<chain, storeVars, currentHeight, block>>
  BY DEF TakeTransaction, Goto, InBlock, callerVars, heightVars
<1>2. /\ LedgerLength = currentHeight /\ SpendLength = currentHeight
      /\ HistoryLength = currentHeight /\ LedgerLength' = currentHeight
      /\ SpendLength' = currentHeight /\ HistoryLength' = currentHeight
  BY <1>1 DEF LedgerLength, SpendLength, HistoryLength, InBlock
<1>3. /\ t \in TxsIn[block] /\ todo \subseteq TxsIn[block]
      /\ pc = "embedded" => t \notin Regular /\ todo \cap Regular = {}
      /\ pc = "regular" => t \in Regular /\ todo \subseteq Regular
  BY <1>1 DEF LedgerInv, Hand
<1>4. \A u : Handled(u)' <=> Handled(u)
  BY <1>1, <1>3 DEF Handled, InBlock
<1>5. \A u \in Txs, h \in Heights :
         Scanned(u, h, currentHeight)' <=> Scanned(u, h, currentHeight)
  BY <1>1, <1>4 DEF Scanned, Stored, storeVars
<1>6. \A u, h : ~InHand(u, h) /\ (InHand(u, h)' => u = t)
  BY <1>1 DEF InHand
<1>7. /\ cur'.tx = t /\ cur'.outs = Creates[t] /\ cur'.spent = {} /\ cur'.found = None
      /\ cur'.ins = Spends[t]
  <2>1. InputsChecked(t) = Spends[t]
    BY WalletAssumption DEF InputsChecked, OneLedger, Keyless
  <2> QED BY <1>1, <2>1
<1>8. \A o \in Outs, h \in Heights : Paid(o, h)' <=> Paid(o, h)
  <2>1. \A o, u, h : InHand(u, h)' /\ o \in Creates[u] => o \in cur'.outs
    BY <1>6, <1>7
  <2> QED BY <1>1, <1>2, <1>5, <1>6, <2>1 DEF Paid
<1>9. \A k \in Keys, u \in Txs, h \in Heights : Spent(k, u, h)' <=> Spent(k, u, h)
  BY <1>1, <1>2, <1>5, <1>6, <1>7, <1>8 DEF Spent
<1>10. OutputsAre' /\ SpendsAre' /\ HistoryIs'
  <2>1. UNCHANGED <<outputs, txs>>
        /\ \A u \in Txs, h \in Heights :
              Scanned(u, h, HistoryLength)' <=> Scanned(u, h, HistoryLength)
    BY <1>1, <1>2, <1>5 DEF storeVars, Scanned, Stored
  <2> QED BY <1>8, <1>9, <2>1, TablesSame DEF LedgerInv
<1>11. Hand'
  <2>1. /\ block' = BlockAt(currentHeight)' /\ currentHeight' < Len(chain')
        /\ todo' \subseteq TxsIn[block']
    BY <1>1, <1>3 DEF LedgerInv, Hand, BlockAt
  <2>2. Spends[t] \subseteq Keys /\ None \notin Keys
    BY WalletAssumption, NoneAssumption
  <2>3. Spends[t] = {k \in Keys : k \in cur'.ins \/ k \in cur'.spent \/ k = cur'.found}
    BY <1>7, <2>2
  <2>4. /\ cur'.ins \cap cur'.spent = {} /\ cur'.found \notin cur'.ins \union cur'.spent
    BY <1>7, <2>2
  <2> QED BY <1>1, <1>3, <1>7, <2>1, <2>3, <2>4 DEF Hand
<1> QED BY <1>10, <1>11 DEF LedgerInv

\* The facts about the transaction in hand the next lemmas start from.
LEMMA InHandFacts ==
    ASSUME TypeInv, CoverInv, LedgerInv, pc = "tx"
    PROVE  /\ InBlock /\ cur \in Transaction /\ cur.tx \in Txs
           /\ Mined(cur.tx, currentHeight)
           /\ \A u, h : InHand(u, h) <=> u = cur.tx /\ h = currentHeight
           /\ outputs \in [Keys -> OutputRecord \union {None}]
<1>1. InBlock /\ cur \in Transaction
  BY DEF InBlock, TypeInv
<1> QED
  BY <1>1 DEF Transaction, Mined, LedgerInv, Hand, InHand, TypeInv, TypeOK

\* What a step inside the processing of a transaction leaves alone.
LEMMA InHandStays ==
    ASSUME TypeInv, pc = "tx", cur'.tx = cur.tx,
           UNCHANGED <<hashes, pc, currentHeight, block, todo>>
    PROVE  \A u, h :
              /\ Scanned(u, h, LedgerLength)' <=> Scanned(u, h, LedgerLength)
              /\ Scanned(u, h, SpendLength)' <=> Scanned(u, h, SpendLength)
              /\ Scanned(u, h, HistoryLength)' <=> Scanned(u, h, HistoryLength)
              /\ InHand(u, h)' <=> InHand(u, h)
BY DEF Scanned, Stored, Handled, InHand, InBlock, LedgerLength, SpendLength, HistoryLength

\* An owned output is stored: nothing was stored under its key, and nothing has
\* spent it before.
LEMMA LedgerPutOwnedOutput ==
    ASSUME OneLedger, TypeInv, CoverInv, FollowInv, LedgerInv,
           NEW o \in Outs, PutOwnedOutput(o)
    PROVE  LedgerInv'
<1> DEFINE t == cur.tx
           key == KeyOf[o]
<1>1. /\ pc = "tx" /\ o \in cur.outs /\ outputs' = [outputs EXCEPT ![key] = NewOutput(o, currentHeight)]
      /\ cur' = [cur EXCEPT !.outs = @ \ {o}]
      /\ UNCHANGED <<chain, txs, hashes, pc, currentHeight, block, todo, syncHeight>>
  BY DEF PutOwnedOutput, PutOutput, callerVars, heightVars
<1>2. /\ InBlock /\ cur \in Transaction /\ t \in Txs /\ Mined(t, currentHeight)
      /\ \A u, h : InHand(u, h) <=> u = t /\ h = currentHeight
      /\ outputs \in [Keys -> OutputRecord \union {None}]
  BY <1>1, InHandFacts
<1>3. /\ LedgerLength = currentHeight /\ SpendLength = currentHeight
      /\ HistoryLength = currentHeight /\ currentHeight \in Heights /\ currentHeight \in Nat
      /\ \A u, h : Scanned(u, h, currentHeight) => h \in Nat /\ h <= currentHeight
      /\ ~Scanned(t, currentHeight, currentHeight)
  BY <1>1, <1>2, InsideBlock
<1>4. /\ cur'.tx = t /\ cur'.outs = cur.outs \ {o} /\ cur'.ins = cur.ins
      /\ cur'.found = cur.found /\ cur'.spent = cur.spent
  BY <1>1, <1>2 DEF Transaction
<1>5. /\ o \in Creates[t] /\ cur.outs \subseteq Creates[t] /\ cur.spent = {} /\ cur.found = None
      /\ key \in Keys /\ Hand
  BY <1>1, WalletAssumption DEF LedgerInv, Hand
<1>6. \A u, h : /\ Scanned(u, h, LedgerLength)' <=> Scanned(u, h, LedgerLength)
                /\ Scanned(u, h, SpendLength)' <=> Scanned(u, h, SpendLength)
                /\ Scanned(u, h, HistoryLength)' <=> Scanned(u, h, HistoryLength)
                /\ InHand(u, h)' <=> InHand(u, h)
  BY <1>1, <1>4, InHandStays
<1>7. \A h \in Heights : ~Paid(o, h)
  <2> SUFFICES ASSUME NEW h \in Heights, Paid(o, h) PROVE FALSE
    OBVIOUS
  <2>1. PICK u \in Txs : o \in Creates[u] /\
             (Scanned(u, h, LedgerLength) \/ (InHand(u, h) /\ o \notin cur.outs))
    BY DEF Paid
  <2>2. u = t
    BY <1>2, <1>5, <2>1 DEF OneLedger
  <2>3. Scanned(t, h, LedgerLength)
    BY <1>1, <2>1, <2>2
  <2>4. h = currentHeight
    BY <1>2, <1>5, <2>3, ScannedIsMined, MinedOnce
  <2> QED BY <1>3, <2>3, <2>4
<1>8. \A p \in Outs, h \in Heights :
         Paid(p, h)' <=> Paid(p, h) \/ (p = o /\ h = currentHeight)
  <2>1. ASSUME NEW p \in Outs, NEW h \in Heights, p # o
        PROVE  Paid(p, h)' <=> Paid(p, h)
    BY <1>4, <1>6, <2>1 DEF Paid
  <2>2. ASSUME NEW h \in Heights, h = currentHeight PROVE Paid(o, h)'
    <3>1. InHand(t, h)' /\ o \notin cur'.outs
      BY <1>2, <1>4, <1>6, <2>2
    <3> QED BY <1>2, <1>4, <1>5, <3>1 DEF Paid
  <2>3. ASSUME NEW h \in Heights, Paid(o, h)' PROVE h = currentHeight
    <3>1. PICK u \in Txs : o \in Creates[u] /\
               (Scanned(u, h, LedgerLength)' \/ InHand(u, h)')
      BY <2>3 DEF Paid
    <3>2. Scanned(u, h, LedgerLength) => Paid(o, h)
      BY <3>1 DEF Paid
    <3> QED BY <1>2, <1>6, <1>7, <3>1, <3>2
  <2> QED BY <1>7, <2>1, <2>2, <2>3
<1>9. /\ outputs'[key] = NewOutput(o, currentHeight)
      /\ \A k \in Keys : k # key => outputs'[k] = outputs[k]
      /\ NewOutput(o, currentHeight) # None
      /\ NewOutput(o, currentHeight).out = o
      /\ NewOutput(o, currentHeight).blockHeight = currentHeight
      /\ ~NewOutput(o, currentHeight).isSpent
  <2>1. NewOutput(o, currentHeight) \in OutputRecord
    BY <1>3 DEF NewOutput, OutputRecord
  <2> QED BY <1>1, <1>2, <1>5, <2>1, NoneAssumption DEF NewOutput
<1>10. OutputsAre'
  <2>1. ASSUME NEW k \in Keys, outputs'[k] # None
        PROVE  KeyOf[outputs'[k].out] = k /\ Paid(outputs[k].out, outputs[k].blockHeight)'
    <3>1. CASE k = key
      <4>1. outputs'[k].out = o /\ outputs'[k].blockHeight = currentHeight
        BY <1>9, <3>1
      <4>2. Paid(o, currentHeight)'
        BY <1>1, <1>3, <1>8
      <4> QED BY <1>1, <3>1, <4>1, <4>2
    <3>2. CASE k # key
      <4>1. outputs'[k] = outputs[k] /\ outputs[k] # None
        BY <1>9, <2>1, <3>2
      <4>2. /\ KeyOf[outputs[k].out] = k /\ Paid(outputs[k].out, outputs[k].blockHeight)
            /\ outputs[k].out \in Outs /\ outputs[k].blockHeight \in Heights
        BY <4>1, RecordTypes DEF LedgerInv, OutputsAre
      <4> QED BY <1>8, <4>1, <4>2
    <3> QED BY <3>1, <3>2
  <2>2. ASSUME NEW p \in Outs, NEW h \in Heights, Paid(p, h)'
        PROVE  /\ outputs'[KeyOf[p]] # None
               /\ outputs'[KeyOf[p]].out = p /\ outputs'[KeyOf[p]].blockHeight = h
    <3>1. CASE p = o
      BY <1>7, <1>8, <1>9, <2>2, <3>1
    <3>2. CASE p # o
      <4>1. Paid(p, h) /\ KeyOf[p] # key /\ KeyOf[p] \in Keys
        BY <1>8, <2>2, <3>2, WalletAssumption DEF OneLedger
      <4> QED BY <1>9, <4>1 DEF LedgerInv, OutputsAre
    <3> QED BY <3>1, <3>2
  <2> QED BY <2>1, <2>2 DEF OutputsAre
<1>11. \A u \in Txs, h \in Heights : Scanned(u, h, SpendLength) => key \notin Spends[u]
  <2> SUFFICES ASSUME NEW u \in Txs, NEW h \in Heights, Scanned(u, h, SpendLength),
                      key \in Spends[u]
               PROVE  FALSE
    OBVIOUS
  <2>1. Mined(u, h) /\ h \in Nat /\ h <= currentHeight
    BY <1>3, <1>5, ScannedIsMined
  <2>2. PICK v \in Txs, p \in Outs, g \in Heights :
            /\ g < h /\ p \in Creates[v] /\ KeyOf[p] = key
            /\ Stored(v, g, SpendLength)
    BY <1>5, <2>1, MinedOnce
  <2>3. v = t
    BY <1>2, <1>5, <2>2 DEF OneLedger
  <2>4. g = currentHeight
    BY <1>2, <1>5, <2>2, <2>3, MinedOnce DEF Mined
  <2> QED BY <1>3, <2>1, <2>2, <2>4
<1>12. \A k \in Keys, u \in Txs, h \in Heights :
          Spent(k, u, h)' <=> Spent(k, u, h) /\ k # key
  <2> SUFFICES ASSUME NEW k \in Keys, NEW u \in Txs, NEW h \in Heights
               PROVE  Spent(k, u, h)' <=> Spent(k, u, h) /\ k # key
    OBVIOUS
  <2>1. Spent(k, u, h) => Scanned(u, h, SpendLength) /\ k \in Spends[u] /\ k # key
    BY <1>5, <1>11 DEF Spent
  <2>2. Spent(k, u, h)' => Scanned(u, h, SpendLength) /\ k \in Spends[u] /\ k # key
    BY <1>4, <1>5, <1>6, <1>11 DEF Spent
  <2>3. ASSUME k # key
        PROVE  (\E p \in Outs, i \in Heights : KeyOf[p] = k /\ Paid(p, i)')
               <=> (\E p \in Outs, i \in Heights : KeyOf[p] = k /\ Paid(p, i))
    BY <1>8, <2>3
  <2> QED BY <1>6, <2>1, <2>2, <2>3 DEF Spent
<1>13. SpendsAre'
  <2>1. ASSUME NEW k \in Keys, outputs'[k] # None, outputs'[k].isSpent
        PROVE  /\ outputs'[k].spentTx # None /\ outputs'[k].spentHeight # None
               /\ Spent(k, outputs[k].spentTx, outputs[k].spentHeight)'
    <3>1. k # key /\ outputs'[k] = outputs[k]
      BY <1>9, <2>1
    <3>2. /\ outputs[k].spentTx # None /\ outputs[k].spentHeight # None
          /\ Spent(k, outputs[k].spentTx, outputs[k].spentHeight)
      BY <2>1, <3>1 DEF LedgerInv, SpendsAre
    <3>3. outputs[k].spentTx \in Txs /\ outputs[k].spentHeight \in Heights
      BY <2>1, <3>1, <3>2, RecordTypes
    <3> QED BY <1>12, <3>1, <3>2, <3>3
  <2>2. ASSUME NEW k \in Keys, NEW u \in Txs, NEW h \in Heights, Spent(k, u, h)'
        PROVE  /\ outputs'[k] # None /\ outputs'[k].isSpent
               /\ outputs'[k].spentTx = u /\ outputs'[k].spentHeight = h
    BY <1>9, <1>12, <2>2 DEF LedgerInv, SpendsAre
  <2> QED BY <2>1, <2>2 DEF SpendsAre
<1>14. HistoryIs'
  BY <1>1, <1>6, RecordTypes DEF LedgerInv, HistoryIs
<1>15. Hand'
  BY <1>1, <1>2, <1>4, <1>5 DEF Hand, InBlock, BlockAt
<1> QED BY <1>10, <1>13, <1>14, <1>15 DEF LedgerInv

\* An input of the transaction in hand is known and unspent: its output was paid
\* by a stored block, and nothing else on the chain spends it.
LEMMA InputIsKnown ==
    ASSUME OneLedger, TypeInv, CoverInv, FollowInv, LedgerInv, pc = "tx",
           NEW k \in Keys, k \in cur.ins
    PROVE  outputs[k] # None /\ ~outputs[k].isSpent
<1>1. /\ InBlock /\ Hand /\ cur.tx \in Txs /\ Mined(cur.tx, currentHeight)
      /\ \A u, h : InHand(u, h) <=> u = cur.tx /\ h = currentHeight
      /\ k \in Spends[cur.tx] /\ k \notin cur.spent
  BY InHandFacts DEF LedgerInv, Hand
<1>2. /\ LedgerLength = currentHeight /\ SpendLength = currentHeight
      /\ ~Scanned(cur.tx, currentHeight, currentHeight)
  BY <1>1, InsideBlock
<1>3. PICK v \in Txs, p \in Outs, g \in Heights :
          p \in Creates[v] /\ KeyOf[p] = k /\ Stored(v, g, SpendLength)
  BY <1>1, MinedOnce
<1>4. Paid(p, g)
  BY <1>2, <1>3 DEF Paid, Scanned
<1>5. outputs[k] # None
  BY <1>3, <1>4 DEF LedgerInv, OutputsAre
<1>6. ASSUME outputs[k].isSpent PROVE FALSE
  <2>1. /\ Spent(k, outputs[k].spentTx, outputs[k].spentHeight)
        /\ outputs[k].spentTx \in Txs /\ outputs[k].spentHeight \in Heights
    BY <1>5, <1>6, RecordTypes DEF LedgerInv, SpendsAre
  <2>2. /\ k \in Spends[outputs[k].spentTx]
        /\ Scanned(outputs[k].spentTx, outputs[k].spentHeight, SpendLength)
    BY <1>1, <2>1 DEF Spent
  <2>3. Mined(outputs[k].spentTx, outputs[k].spentHeight)
    BY <1>1, <2>2, ScannedIsMined
  <2>4. outputs[k].spentTx = cur.tx
    BY <1>1, <2>2, <2>3, MinedOnce
  <2>5. outputs[k].spentHeight = currentHeight
    BY <1>1, <2>3, <2>4, MinedOnce
  <2> QED BY <1>2, <2>2, <2>4, <2>5
<1> QED BY <1>5, <1>6

\* getOutput finds it so.
LEMMA LedgerCheckInput ==
    ASSUME OneLedger, TypeInv, CoverInv, FollowInv, LedgerInv,
           NEW k \in Keys, CheckInput(k)
    PROVE  LedgerInv'
<1>1. /\ pc = "tx" /\ cur.outs = {} /\ cur.found = None /\ k \in cur.ins
      /\ UNCHANGED <<chain, storeVars, pc, currentHeight, block, todo>>
  BY DEF CheckInput, callerVars, heightVars
<1>2. outputs[k] # None /\ ~outputs[k].isSpent
  BY <1>1, InputIsKnown
<1>3. /\ InBlock /\ cur \in Transaction /\ Hand
  BY <1>1, InHandFacts DEF LedgerInv
<1>4. /\ cur'.tx = cur.tx /\ cur'.outs = cur.outs /\ cur'.ins = cur.ins \ {k}
      /\ cur'.found = k /\ cur'.spent = cur.spent
  BY <1>2, <1>3 DEF CheckInput, Transaction
<1>5. OutputsAre' /\ SpendsAre' /\ HistoryIs'
  <2>1. UNCHANGED <<outputs, txs, hashes>>
    BY <1>1 DEF storeVars
  <2>2. \A u, h : /\ Scanned(u, h, LedgerLength)' <=> Scanned(u, h, LedgerLength)
                  /\ Scanned(u, h, SpendLength)' <=> Scanned(u, h, SpendLength)
                  /\ Scanned(u, h, HistoryLength)' <=> Scanned(u, h, HistoryLength)
                  /\ InHand(u, h)' <=> InHand(u, h)
    BY <1>1, <1>4, <2>1, InHandStays
  <2> QED BY <1>4, <2>1, <2>2, LedgerSame DEF LedgerInv
<1>6. Hand'
  <2>1. cur.ins \cap cur.spent = {} /\ Spends[cur.tx] = {j \in Keys : j \in cur.ins \/ j \in cur.spent}
    BY <1>1, <1>3, NoneAssumption DEF Hand
  <2>2. /\ Spends[cur'.tx] = {j \in Keys : j \in cur'.ins \/ j \in cur'.spent \/ j = cur'.found}
        /\ cur'.ins \cap cur'.spent = {} /\ cur'.found \notin cur'.ins \union cur'.spent
    BY <1>1, <1>4, <2>1
  <2>3. cur'.outs = {} /\ outputs' = outputs
    BY <1>1, <1>4 DEF storeVars
  <2> QED BY <1>1, <1>2, <1>3, <1>4, <2>2, <2>3 DEF Hand, InBlock, BlockAt
<1> QED BY <1>5, <1>6 DEF LedgerInv

\* markOutputSpent records the spend of the transaction in hand.
LEMMA LedgerMarkInput ==
    ASSUME OneLedger, TypeInv, CoverInv, FollowInv, LedgerInv, MarkInput
    PROVE  LedgerInv'
<1>1. /\ pc = "tx" /\ cur.found # None
      /\ outputs' = MarkOutputSpent(outputs, cur.found, cur.tx, currentHeight)
      /\ cur' = [cur EXCEPT !.found = None, !.spent = @ \union {cur.found}]
      /\ UNCHANGED <<chain, txs, hashes, pc, currentHeight, block, todo, syncHeight>>
  BY DEF MarkInput, callerVars, heightVars
<1>2. /\ InBlock /\ cur \in Transaction /\ cur.tx \in Txs /\ Hand
      /\ \A u, h : InHand(u, h) <=> u = cur.tx /\ h = currentHeight
      /\ outputs \in [Keys -> OutputRecord \union {None}] /\ currentHeight \in Heights
  BY <1>1, InHandFacts, CurrentHeightInBlock DEF LedgerInv
<1>3. PICK k \in Keys, t \in Txs : k = cur.found /\ t = cur.tx
  BY <1>1, <1>2 DEF Transaction
<1>4. /\ cur'.tx = t /\ cur'.outs = cur.outs /\ cur'.ins = cur.ins /\ cur'.found = None
      /\ cur'.spent = cur.spent \union {k}
  BY <1>1, <1>2, <1>3 DEF Transaction
<1>5. /\ k \in Spends[t] /\ cur.outs = {} /\ outputs[k] # None /\ ~outputs[k].isSpent
      /\ k \notin cur.ins /\ k \notin cur.spent /\ cur.ins \cap cur.spent = {}
  BY <1>1, <1>2, <1>3 DEF Hand
<1>6. \A u, h : /\ Scanned(u, h, LedgerLength)' <=> Scanned(u, h, LedgerLength)
                /\ Scanned(u, h, SpendLength)' <=> Scanned(u, h, SpendLength)
                /\ Scanned(u, h, HistoryLength)' <=> Scanned(u, h, HistoryLength)
                /\ InHand(u, h)' <=> InHand(u, h)
  BY <1>1, <1>3, <1>4, InHandStays
<1>7. \A j \in Keys :
         /\ outputs'[j] # None <=> outputs[j] # None
         /\ outputs[j] # None => /\ outputs'[j].out = outputs[j].out
                                 /\ outputs'[j].blockHeight = outputs[j].blockHeight
         /\ j # k => outputs'[j] = outputs[j]
         /\ outputs'[k].isSpent /\ outputs'[k].spentTx = t
         /\ outputs'[k].spentHeight = currentHeight
  <2> DEFINE rec == [outputs[k] EXCEPT !.isSpent = TRUE, !.spentTx = t,
                                       !.spentHeight = currentHeight]
  <2>1. outputs[k] \in OutputRecord
    BY <1>5, RecordTypes
  <2>2. /\ rec.out = outputs[k].out /\ rec.blockHeight = outputs[k].blockHeight
        /\ rec.isSpent = TRUE /\ rec.spentTx = t /\ rec.spentHeight = currentHeight
        /\ rec \in OutputRecord
    BY <1>2, <2>1 DEF OutputRecord
  <2>3. outputs' = [outputs EXCEPT ![k] = rec]
    BY <1>1, <1>3, <1>5 DEF MarkOutputSpent
  <2> HIDE DEF rec
  <2>4. rec # None
    BY <2>2, NoneAssumption
  <2> QED BY <1>2, <1>5, <2>2, <2>3, <2>4
<1>8. \A o \in Outs, h \in Heights : Paid(o, h)' <=> Paid(o, h)
  BY <1>4, <1>6 DEF Paid
<1>9. OutputsAre'
  <2>1. ASSUME NEW j \in Keys, outputs'[j] # None
        PROVE  KeyOf[outputs'[j].out] = j /\ Paid(outputs[j].out, outputs[j].blockHeight)'
    <3>1. /\ outputs[j] # None /\ outputs'[j].out = outputs[j].out
          /\ outputs'[j].blockHeight = outputs[j].blockHeight
      BY <1>7, <2>1
    <3>2. KeyOf[outputs[j].out] = j /\ Paid(outputs[j].out, outputs[j].blockHeight)
      BY <3>1 DEF LedgerInv, OutputsAre
    <3>3. outputs[j].out \in Outs /\ outputs[j].blockHeight \in Heights
      BY <3>1, RecordTypes
    <3> QED BY <1>8, <3>1, <3>2, <3>3
  <2>2. ASSUME NEW o \in Outs, NEW h \in Heights, Paid(o, h)'
        PROVE  /\ outputs'[KeyOf[o]] # None
               /\ outputs'[KeyOf[o]].out = o /\ outputs'[KeyOf[o]].blockHeight = h
    <3>1. Paid(o, h) /\ KeyOf[o] \in Keys
      BY <1>8, <2>2, WalletAssumption
    <3> QED BY <1>7, <3>1 DEF LedgerInv, OutputsAre
  <2> QED BY <2>1, <2>2 DEF OutputsAre
<1>10. \A j \in Keys, u \in Txs, h \in Heights :
          Spent(j, u, h)' <=> Spent(j, u, h) \/ (j = k /\ u = t /\ h = currentHeight)
  <2>1. \E o \in Outs, i \in Heights : KeyOf[o] = k /\ Paid(o, i)
    BY <1>5, RecordTypes DEF LedgerInv, OutputsAre
  <2>2. ASSUME NEW j \in Keys, NEW u \in Txs, NEW h \in Heights
        PROVE  /\ (\E o \in Outs, i \in Heights : KeyOf[o] = j /\ Paid(o, i)')
                     <=> (\E o \in Outs, i \in Heights : KeyOf[o] = j /\ Paid(o, i))
               /\ Scanned(u, h, SpendLength)' <=> Scanned(u, h, SpendLength)
               /\ InHand(u, h)' <=> u = t /\ h = currentHeight
               /\ InHand(u, h) <=> u = t /\ h = currentHeight
               /\ j \in cur'.spent <=> j \in cur.spent \/ j = k
    BY <1>2, <1>3, <1>4, <1>6, <1>8
  <2> QED BY <1>5, <2>1, <2>2 DEF Spent
<1>11. SpendsAre'
  <2>1. ASSUME NEW j \in Keys, outputs'[j] # None, outputs'[j].isSpent
        PROVE  /\ outputs'[j].spentTx # None /\ outputs'[j].spentHeight # None
               /\ Spent(j, outputs[j].spentTx, outputs[j].spentHeight)'
    <3>1. CASE j = k
      <4>1. outputs'[j].spentTx = t /\ outputs'[j].spentHeight = currentHeight
        BY <1>7, <3>1
      <4>2. t # None /\ currentHeight # None
        BY <1>2, StoreAssumption DEF Heights
      <4>3. PICK h \in Heights : h = currentHeight
        BY <1>2
      <4>4. Spent(k, t, h)'
        BY <1>10, <4>3
      <4> QED BY <3>1, <4>1, <4>2, <4>3, <4>4
    <3>2. CASE j # k
      <4>1. outputs'[j] = outputs[j]
        BY <1>7, <3>2
      <4>2. /\ outputs[j].spentTx # None /\ outputs[j].spentHeight # None
            /\ Spent(j, outputs[j].spentTx, outputs[j].spentHeight)
        BY <2>1, <4>1 DEF LedgerInv, SpendsAre
      <4>3. outputs[j].spentTx \in Txs /\ outputs[j].spentHeight \in Heights
        BY <2>1, <4>1, <4>2, RecordTypes
      <4> QED BY <1>10, <4>1, <4>2, <4>3
    <3> QED BY <3>1, <3>2
  <2>2. ASSUME NEW j \in Keys, NEW u \in Txs, NEW h \in Heights, Spent(j, u, h)'
        PROVE  /\ outputs'[j] # None /\ outputs'[j].isSpent
               /\ outputs'[j].spentTx = u /\ outputs'[j].spentHeight = h
    <3>1. CASE j = k
      <4>1. ~Spent(k, u, h)
        BY <1>5 DEF LedgerInv, SpendsAre
      <4>2. u = t /\ h = currentHeight
        BY <1>10, <2>2, <3>1, <4>1
      <4> QED BY <1>5, <1>7, <3>1, <4>2
    <3>2. CASE j # k
      BY <1>7, <1>10, <2>2, <3>2 DEF LedgerInv, SpendsAre
    <3> QED BY <3>1, <3>2
  <2> QED BY <2>1, <2>2 DEF SpendsAre
<1>12. HistoryIs'
  BY <1>1, <1>6, RecordTypes DEF LedgerInv, HistoryIs
<1>13. Hand'
  <2>1. Spends[cur.tx] = {j \in Keys : j \in cur.ins \/ j \in cur.spent \/ j = k}
    BY <1>1, <1>2, <1>3 DEF Hand
  <2>2. /\ Spends[cur'.tx] = {j \in Keys : j \in cur'.ins \/ j \in cur'.spent \/ j = cur'.found}
        /\ cur'.ins \cap cur'.spent = {} /\ cur'.found \notin cur'.ins \union cur'.spent
    <3>1. None \notin Keys /\ cur.ins \subseteq Keys /\ cur.spent \subseteq Keys
      BY <1>2, NoneAssumption DEF Transaction
    <3> QED BY <1>3, <1>4, <1>5, <2>1, <3>1
  <2> QED BY <1>1, <1>2, <1>3, <1>4, <1>5, <2>2 DEF Hand, InBlock, BlockAt
<1> QED BY <1>9, <1>11, <1>12, <1>13 DEF LedgerInv

\* putTransaction: the transaction in hand is done, all its outputs stored and
\* all its inputs marked.
LEMMA LedgerRecordTransaction ==
    ASSUME OneLedger, TypeInv, CoverInv, FollowInv, LedgerInv, RecordTransaction
    PROVE  LedgerInv'
<1>1. /\ pc = "tx" /\ cur.outs = {} /\ cur.ins = {} /\ cur.found = None
      /\ UNCHANGED <<chain, outputs, hashes, currentHeight, block, todo, syncHeight>>
      /\ pc' = IF cur.tx \in Regular THEN "regular" ELSE "embedded"
      /\ txs' = IF Creates[cur.tx] = {} /\ cur.spent = {} THEN txs
                ELSE [txs EXCEPT ![cur.tx] =
                        [blockHeight |-> currentHeight,
                         received |-> Creates[cur.tx], spent |-> cur.spent]]
  BY DEF RecordTransaction, NextTransaction, PutTransaction, Goto, callerVars, heightVars
<1>2. /\ InBlock /\ cur \in Transaction /\ cur.tx \in Txs /\ Hand
      /\ Mined(cur.tx, currentHeight)
      /\ \A u, h : InHand(u, h) <=> u = cur.tx /\ h = currentHeight
  BY <1>1, InHandFacts DEF LedgerInv
<1>3. /\ LedgerLength = currentHeight /\ SpendLength = currentHeight
      /\ HistoryLength = currentHeight /\ currentHeight \in Heights
      /\ LedgerLength' = currentHeight /\ SpendLength' = currentHeight
      /\ HistoryLength' = currentHeight
  BY <1>1, <1>2, InsideBlock DEF LedgerLength, SpendLength, HistoryLength, InBlock
<1>4. PICK t \in Txs : t = cur.tx
  BY <1>2
<1>5. cur.spent = Spends[t] /\ Creates[t] \union Spends[t] # {}
  <2>1. Spends[t] \subseteq Keys /\ cur.spent \subseteq Keys /\ None \notin Keys
    BY <1>2, <1>4, WalletAssumption, NoneAssumption DEF Transaction
  <2>2. Spends[t] = {k \in Keys : k \in cur.spent}
    BY <1>1, <1>2, <1>4, <2>1 DEF Hand
  <2> QED BY <2>1, <2>2 DEF OneLedger
<1>6. txs' = [txs EXCEPT ![t] = [blockHeight |-> currentHeight,
                                 received |-> Creates[t], spent |-> Spends[t]]]
  BY <1>1, <1>4, <1>5
<1>7. \A u : Handled(u)' <=> Handled(u) \/ u = t
  BY <1>1, <1>2, <1>4 DEF Handled, InBlock, Hand
<1>8. \A u, h : Scanned(u, h, currentHeight)' <=>
                   Scanned(u, h, currentHeight) \/ (u = t /\ h = currentHeight)
  BY <1>1, <1>7 DEF Scanned, Stored
<1>9. \A u, h : ~InHand(u, h)'
  BY <1>1 DEF InHand
<1>10. \A o \in Outs, h \in Heights : Paid(o, h)' <=> Paid(o, h)
  BY <1>1, <1>2, <1>3, <1>4, <1>8, <1>9 DEF Paid
<1>11. \A k \in Keys, u \in Txs, h \in Heights : Spent(k, u, h)' <=> Spent(k, u, h)
  BY <1>1, <1>2, <1>3, <1>4, <1>5, <1>8, <1>9, <1>10 DEF Spent
<1>12. OutputsAre'
  BY <1>1, <1>10, RecordTypes DEF LedgerInv, OutputsAre
<1>13. SpendsAre'
  BY <1>1, <1>11, RecordTypes DEF LedgerInv, SpendsAre
<1>14. HistoryIs'
  <2>1. /\ txs'[t] = [blockHeight |-> currentHeight,
                      received |-> Creates[t], spent |-> Spends[t]]
        /\ \A u \in Txs : u # t => txs'[u] = txs[u]
        /\ txs'[t] # None
    <3>1. txs \in [Txs -> TxRecord \union {None}]
      BY DEF TypeInv, TypeOK
    <3>2. [blockHeight |-> currentHeight,
           received |-> Creates[t], spent |-> Spends[t]] \in TxRecord
      BY <1>3, WalletAssumption DEF TxRecord
    <3> QED BY <1>6, <3>1, <3>2, NoneAssumption
  <2>2. ASSUME NEW u \in Txs, txs'[u] # None
        PROVE  /\ Scanned(u, txs[u].blockHeight, HistoryLength)'
               /\ txs'[u].received = Creates[u] /\ txs'[u].spent = Spends[u]
    <3>1. CASE u = t
      <4>1. /\ txs'[u].blockHeight = currentHeight
            /\ txs'[u].received = Creates[u] /\ txs'[u].spent = Spends[u]
        BY <2>1, <3>1
      <4> QED BY <1>1, <1>3, <1>8, <3>1, <4>1
    <3>2. CASE u # t
      <4>1. txs'[u] = txs[u] /\ txs[u] # None
        BY <2>1, <2>2, <3>2
      <4>2. /\ Scanned(u, txs[u].blockHeight, currentHeight)
            /\ txs[u].received = Creates[u] /\ txs[u].spent = Spends[u]
        BY <1>3, <4>1 DEF LedgerInv, HistoryIs
      <4> QED BY <1>1, <1>3, <1>8, <4>1, <4>2
    <3> QED BY <3>1, <3>2
  <2>3. ASSUME NEW u \in Txs, NEW h \in Heights, Scanned(u, h, HistoryLength)'
        PROVE  txs'[u] # None /\ txs'[u].blockHeight = h
    <3>1. Scanned(u, h, currentHeight) \/ (u = t /\ h = currentHeight)
      BY <1>1, <1>3, <1>8, <2>3
    <3>2. CASE u = t
      <4>1. Mined(u, h) /\ Mined(u, currentHeight)
        BY <1>2, <1>3, <1>4, <3>1, <3>2, ScannedIsMined
      <4>2. h = currentHeight
        BY <1>2, <4>1, MinedOnce
      <4> QED BY <2>1, <3>2, <4>2
    <3>3. CASE u # t
      <4>1. Scanned(u, h, HistoryLength)
        BY <1>3, <3>1, <3>3
      <4> QED BY <2>1, <3>3, <4>1 DEF LedgerInv, HistoryIs
    <3> QED BY <3>2, <3>3
  <2> QED BY <2>2, <2>3 DEF HistoryIs
<1>15. Hand'
  BY <1>1, <1>2 DEF Hand, InBlock, BlockAt
<1> QED BY <1>12, <1>13, <1>14, <1>15 DEF LedgerInv

\* putBlockHash: the block joins the stored ones.
LEMMA LedgerPutHash ==
    ASSUME TypeInv, CoverInv, FollowInv, LedgerInv, PutHash
    PROVE  LedgerInv'
<1>1. /\ pc = "regular" /\ pc' = "block" /\ todo = {} /\ InBlock /\ ~InBlock'
      /\ hashes' = [hashes EXCEPT ![currentHeight] = Head(headers)]
      /\ currentHeight' = currentHeight + 1
      /\ UNCHANGED <<chain, outputs, txs, syncHeight>>
  BY DEF PutHash, PutBlockHash, Goto, InBlock, callerVars
<1>2. /\ LedgerLength = currentHeight /\ SpendLength = currentHeight
      /\ HistoryLength = currentHeight /\ currentHeight \in Heights /\ currentHeight \in Nat
      /\ LedgerLength' = currentHeight' /\ SpendLength' = currentHeight'
      /\ HistoryLength' = currentHeight'
  BY <1>1, InsideBlock DEF LedgerLength, SpendLength, HistoryLength, InBlock
<1>3. Head(headers) = block
  <2>1. headers \in Seq(Hashes) /\ headers # <<>>
    BY <1>1 DEF TypeInv, TypeOK
  <2>2. Len(headers) \in Nat \ {0} /\ Head(headers) = headers[1]
    BY <2>1, EmptySeq, HeadTailProperties
  <2>3. headers[1] = chain[currentHeight + 1]
    BY <1>1, <2>2 DEF FollowInv, HeadersAhead
  <2> QED BY <1>1, <2>2, <2>3 DEF LedgerInv, Hand, BlockAt
<1>4. /\ hashes'[currentHeight] = block
      /\ \A h \in 0 .. currentHeight - 1 : hashes'[h] = hashes[h]
  <2>1. hashes \in [Heights -> Hashes \union {None}]
    BY DEF TypeInv, TypeOK
  <2>2. \A h \in 0 .. currentHeight - 1 : h \in Heights /\ h # currentHeight
    BY <1>2, StoreAssumption DEF Heights
  <2> QED BY <1>1, <1>2, <1>3, <2>1, <2>2
<1>5. \A t : Handled(t) <=> t \in TxsIn[block]
  BY <1>1 DEF Handled, InBlock
<1>6. \A t : ~Handled(t)'
  BY <1>1 DEF Handled
<1>7. \A t \in Txs, h \in Heights :
         Scanned(t, h, LedgerLength)' <=> Scanned(t, h, LedgerLength)
  <2> SUFFICES ASSUME NEW t \in Txs, NEW h \in Heights
               PROVE  Scanned(t, h, LedgerLength)' <=> Scanned(t, h, LedgerLength)
    OBVIOUS
  <2>1. Scanned(t, h, LedgerLength)' <=> h \in 0 .. (currentHeight + 1) - 1 /\ t \in TxsIn[hashes'[h]]
    BY <1>1, <1>2, <1>6 DEF Scanned, Stored
  <2>2. Scanned(t, h, LedgerLength) <=>
           (h \in 0 .. currentHeight - 1 /\ t \in TxsIn[hashes[h]])
           \/ (h = currentHeight /\ t \in TxsIn[block])
    BY <1>2, <1>5 DEF Scanned, Stored
  <2>3. h \in 0 .. (currentHeight + 1) - 1 <=> h \in 0 .. currentHeight - 1 \/ h = currentHeight
    BY <1>2
  <2>4. h = currentHeight => h \notin 0 .. currentHeight - 1
    BY <1>2
  <2> QED BY <1>4, <2>1, <2>2, <2>3, <2>4
<1>8. OutputsAre' /\ SpendsAre' /\ HistoryIs'
  BY <1>1, <1>2, <1>7, LedgerBlockQuiet DEF LedgerInv
<1>9. Hand'
  BY <1>1 DEF Hand, InBlock
<1> QED BY <1>8, <1>9 DEF LedgerInv

-----------------------------------------------------------------------------
(***************************************************************************)
(* LedgerInv is inductive                                                  *)
(***************************************************************************)
\* With nothing skipped and a daemon that answers, no step of a batch fails.
LEMMA NothingFails ==
    ASSUME WholeRollbacks, SteadyDaemon, NothingSkipped, TypeInv, FollowInv,
           \/ GetInfoFails \/ GetBlockFails \/ StoreFails \/ RollbackFails
           \/ TransactionFails \/ \E n \in 1 .. MaxBatch : GetHeadersFails(n)
    PROVE  FALSE
<1>1. /\ "rpcError" \notin Events /\ "storeError" \notin Events /\ "txError" \notin Events
  BY DEF WholeRollbacks, SteadyDaemon, NothingSkipped
<1>2. CASE GetInfoFails \/ StoreFails \/ RollbackFails \/ TransactionFails
  BY <1>1, <1>2 DEF GetInfoFails, StoreFails, RollbackFails, TransactionFails, RpcMayFail
<1>3. CASE GetBlockFails
  <2>1. /\ pc = "block" /\ headers # <<>> /\ ~(currentHeight < Len(chain))
        /\ headers \in Seq(Hashes)
    BY <1>1, <1>3 DEF GetBlockFails, MoreHeaders, HasBlock, RpcMayFail, TypeInv, TypeOK
  <2>2. Len(headers) \in Nat \ {0} /\ currentHeight \in Nat /\ Len(chain) \in Nat
    BY <2>1, EmptySeq, LenProperties, ChainFacts, StoreAssumption DEF TypeInv, TypeOK
  <2>3. currentHeight + Len(headers) <= Len(chain)
    BY <2>1 DEF FollowInv, HeadersAhead
  <2> QED BY <2>1, <2>2, <2>3
<1>4. ASSUME NEW n \in 1 .. MaxBatch, GetHeadersFails(n) PROVE FALSE
  <2>1. pc = "loop" /\ currentHeight < targetHeight /\ BatchEnd(n) > Len(chain)
    BY <1>1, <1>4 DEF GetHeadersFails, RpcMayFail
  <2>2. targetHeight <= Len(chain)
    BY <2>1 DEF FollowInv, Checked
  <2>3. /\ currentHeight \in Nat /\ targetHeight \in Nat /\ n \in Nat /\ Len(chain) \in Nat
    BY StoreAssumption, WalletAssumption, ChainFacts, LenProperties DEF TypeInv, TypeOK
  <2> QED BY <2>1, <2>2, <2>3 DEF BatchEnd
<1> QED BY <1>2, <1>3, <1>4

\* Every step of the engine keeps the tables the ledger.
LEMMA LedgerEngine ==
    ASSUME WholeRollbacks, SteadyDaemon, NothingSkipped, OneLedger,
           TypeInv, CoverInv, FollowInv, LedgerInv, EngineStep
    PROVE  LedgerInv'
<1>1. CASE \/ GetInfo \/ Recheck \/ TipMatches \/ TipDiffers \/ AncestorFound
           \/ AncestorLower \/ SyncEnds \/ BatchDone
           \/ \E n \in 1 .. MaxBatch : GetHeaders(n)
  BY <1>1, LedgerBetween
<1>2. CASE SaveSyncHeight \/ RollbackSyncHeight
  BY <1>2, LedgerSaves
<1>3. CASE RollbackOutputs \/ RollbackTransactions \/ RollbackSpends \/ RollbackHashes
  BY <1>3, LedgerRollbackOutputs, LedgerRollbackTransactions, LedgerRollbackSpends,
     LedgerRollbackHashes
<1>4. CASE GetBlock \/ GetTransactions \/ PutHash
  BY <1>4, LedgerGetBlock, LedgerGetTransactions, LedgerPutHash
<1>5. CASE \E t \in Txs : SkipTransaction(t) \/ TakeTransaction(t)
  BY <1>5, NothingToSkip, LedgerTakeTransaction
<1>6. CASE \/ \E o \in Outs : PutOwnedOutput(o)
           \/ \E k \in Keys : CheckInput(k)
           \/ MarkInput \/ RecordTransaction
  BY <1>6, LedgerPutOwnedOutput, LedgerCheckInput, LedgerMarkInput, LedgerRecordTransaction
<1>7. CASE \/ GetInfoFails \/ GetBlockFails \/ StoreFails \/ RollbackFails
           \/ TransactionFails \/ \E n \in 1 .. MaxBatch : GetHeadersFails(n)
  BY <1>7, NothingFails
<1> QED BY <1>1, <1>2, <1>3, <1>4, <1>5, <1>6, <1>7 DEF EngineStep

\* So does the daemon: a block in hand stays on the chain that grows.
LEMMA LedgerChainMoves ==
    ASSUME SteadyDaemon, TypeInv, CoverInv, LedgerInv, ChainMoves
    PROVE  LedgerInv'
<1>1. PICK c \in Chains \ {chain} :
         /\ chain' = c
         /\ Extends(chain, c) \/ ~Syncing
  BY DEF ChainMoves, SteadyDaemon
<1>2. UNCHANGED <<storeVars, engineVars>>
  BY DEF ChainMoves
<1>3. \A t \in Txs, h \in Heights :
         /\ Scanned(t, h, LedgerLength)' <=> Scanned(t, h, LedgerLength)
         /\ Scanned(t, h, SpendLength)' <=> Scanned(t, h, SpendLength)
         /\ Scanned(t, h, HistoryLength)' <=> Scanned(t, h, HistoryLength)
         /\ InHand(t, h)' <=> InHand(t, h)
  BY <1>2 DEF storeVars, engineVars, heightVars, scanVars, Scanned, Stored, Handled,
     InHand, InBlock, LedgerLength, SpendLength, HistoryLength
<1>4. OutputsAre' /\ SpendsAre' /\ HistoryIs'
  BY <1>2, <1>3, LedgerSame DEF LedgerInv, storeVars, engineVars, scanVars
<1>5. InBlock => block = BlockAt(currentHeight)' /\ currentHeight < Len(chain')
  <2> SUFFICES ASSUME InBlock
               PROVE  block = BlockAt(currentHeight)' /\ currentHeight < Len(chain')
    OBVIOUS
  <2>1. Syncing /\ block = chain[currentHeight + 1] /\ currentHeight < Len(chain)
        /\ currentHeight \in Nat
    BY CurrentHeightInBlock, StoreAssumption
       DEF LedgerInv, Hand, BlockAt, TypeInv, InBlock, Heights
  <2>2. /\ Len(chain) \in Nat /\ Len(c) \in Nat /\ Len(chain) <= Len(c)
        /\ \A h \in 0 .. Len(chain) - 1 : c[h + 1] = chain[h + 1]
    BY <1>1, <2>1, ExtendsKeeps DEF TypeInv, TypeOK
  <2>3. UNCHANGED currentHeight
    BY <1>2 DEF engineVars, heightVars
  <2> QED BY <1>1, <2>1, <2>2, <2>3 DEF BlockAt
<1>6. Hand'
  BY <1>2, <1>5 DEF LedgerInv, Hand, InBlock, storeVars, engineVars, heightVars, scanVars
<1> QED BY <1>4, <1>6 DEF LedgerInv

\* stop() touches nothing of it.
LEMMA LedgerQuietly ==
    ASSUME TypeInv, LedgerInv, Stop \/ UNCHANGED vars
    PROVE  LedgerInv'
<1>1. UNCHANGED <<chain, storeVars, pc, heightVars, probe, scanVars>>
  BY DEF Stop, vars, callerVars, engineVars
<1>2. \A t \in Txs, h \in Heights :
       /\ Scanned(t, h, LedgerLength)' <=> Scanned(t, h, LedgerLength)
       /\ Scanned(t, h, SpendLength)' <=> Scanned(t, h, SpendLength)
       /\ Scanned(t, h, HistoryLength)' <=> Scanned(t, h, HistoryLength)
       /\ InHand(t, h)' <=> InHand(t, h)
  BY <1>1 DEF storeVars, heightVars, scanVars, Scanned, Stored, Handled,
     InHand, InBlock, LedgerLength, SpendLength, HistoryLength
<1>3. OutputsAre' /\ SpendsAre' /\ HistoryIs'
  BY <1>1, <1>2, LedgerSame DEF LedgerInv, storeVars, scanVars
<1>4. Hand'
  BY <1>1 DEF LedgerInv, Hand, InBlock, BlockAt, storeVars, heightVars, scanVars
<1> QED BY <1>3, <1>4 DEF LedgerInv

\* A sync that begins has no block in hand yet.
LEMMA LedgerBegin ==
    ASSUME TypeInv, CoverInv, LedgerInv, ~Syncing, NEW n, Begin(n), UNCHANGED storeVars
    PROVE  LedgerInv'
<1>1. pc = "idle" /\ pc' = "info"
  BY DEF Begin, Goto, TypeInv
<1>2. ~InBlock /\ ~InBlock' /\ UNCHANGED <<LedgerLength, SpendLength, HistoryLength>>
  BY <1>1 DEF LedgerLength, SpendLength, HistoryLength, InBlock, storeVars
<1>3. LedgerLength \in Nat /\ SpendLength \in Nat /\ HistoryLength \in Nat
  BY Lengths
<1>4. OutputsAre' /\ SpendsAre' /\ HistoryIs'
  BY <1>2, <1>3, LedgerQuiet DEF LedgerInv, storeVars
<1>5. Hand'
  BY <1>1 DEF Hand, InBlock
<1> QED BY <1>4, <1>5 DEF LedgerInv

\* And the callers.
LEMMA LedgerCallers ==
    ASSUME OrderlyStorage, TypeInv, CoverInv, LedgerInv, rescanCall = NoRescan,
           CallerStep \/ Crash \/ UNCHANGED vars
    PROVE  LedgerInv'
<1>1. ASSUME NEW n \in StartHeights \union {None}, Start(n) PROVE LedgerInv'
  <2>1. n = None
    BY DEF OrderlyStorage
  <2>2. ~Syncing /\ Begin(syncHeight) /\ UNCHANGED storeVars
    BY <1>1, <2>1, StartIsBegin
  <2> QED BY <2>2, LedgerBegin
<1> QED BY <1>1, LedgerQuietly, NobodyRescans DEF CallerStep

\* Empty tables are the ledger of no block, in a new wallet and in a cleared one.
LEMMA EmptyLedger ==
    pc = "idle" /\ syncHeight = 0 /\ outputs = NoOutputs /\ txs = NoTransactions
        => LedgerInv
<1> SUFFICES ASSUME pc = "idle", syncHeight = 0,
                    outputs = NoOutputs, txs = NoTransactions
             PROVE  LedgerInv
  OBVIOUS
<1>1. /\ ~InBlock
      /\ \A k \in Keys : outputs[k] = None
      /\ \A t \in Txs : txs[t] = None
  BY DEF InBlock, NoOutputs, NoTransactions
<1>2. LedgerLength = 0 /\ SpendLength = 0 /\ HistoryLength = 0
  BY <1>1 DEF LedgerLength, SpendLength, HistoryLength
<1>3. \A t, h : ~Scanned(t, h, 0) /\ ~InHand(t, h)
  BY <1>1, OutsideBlock DEF Stored
<1>4. \A o, h : ~Paid(o, h)
  BY <1>2, <1>3 DEF Paid
<1>5. \A k, t, h : ~Spent(k, t, h)
  BY <1>2, <1>3 DEF Spent
<1> QED
  BY <1>1, <1>2, <1>3, <1>4, <1>5 DEF LedgerInv, OutputsAre, SpendsAre, HistoryIs, Hand, InBlock

LEMMA InitLedgerInv == Init => LedgerInv
BY EmptyLedger DEF Init

-----------------------------------------------------------------------------
(***************************************************************************)
(* The ledger is the best chain's                                           *)
(***************************************************************************)
\* When the tip agrees, a transaction is in a stored block iff it is below the
\* saved height on the best chain, and at that height.
LEMMA StoredIsBelow ==
    ASSUME OneLedger, TypeInv, FollowInv, AgreesOnTip, NEW t
    PROVE  /\ \A h : Stored(t, h, syncHeight) => t \in TxsBelow(syncHeight)
                                             /\ HeightOf(t) = h
                                             /\ h < syncHeight /\ h \in Heights /\ t \in Txs
           /\ t \in TxsBelow(syncHeight) => Stored(t, HeightOf(t), syncHeight)
<1>1. /\ syncHeight \in Nat /\ syncHeight <= Len(chain) /\ Len(chain) \in Nat
      /\ chain \in Chains /\ Len(chain) <= MaxHeight /\ MaxHeight \in Nat
      /\ DOMAIN chain = 1 .. Len(chain)
  BY ChainFacts, LenProperties, StoreAssumption DEF AgreesOnTip, TypeInv, TypeOK
<1>2. \A h \in 0 .. syncHeight - 1 : hashes[h] = chain[h + 1]
  BY TipVouches DEF HashesExact, BlockAt
<1>3. ASSUME NEW h, Stored(t, h, syncHeight)
      PROVE  /\ t \in TxsBelow(syncHeight) /\ HeightOf(t) = h
             /\ h < syncHeight /\ h \in Heights /\ t \in Txs
  <2>1. /\ h \in 0 .. syncHeight - 1 /\ t \in TxsIn[chain[h + 1]]
        /\ h \in 0 .. Len(chain) - 1 /\ h < syncHeight /\ h \in Heights
    BY <1>1, <1>2, <1>3 DEF Stored, Heights
  <2>2. t \in TxsBelow(syncHeight)
    BY <2>1 DEF TxsBelow, Prefix, BlockAt
  <2>3. chain[h + 1] \in Hashes
    BY <1>1, <2>1, ChainFacts
  <2>4. ASSUME NEW g \in 0 .. Len(chain) - 1, t \in TxsIn[chain[g + 1]] PROVE g = h
    <3>1. g + 1 \in DOMAIN chain /\ h + 1 \in DOMAIN chain
      BY <1>1, <2>1
    <3>2. g + 1 = h + 1
      BY <1>1, <2>1, <2>4, <3>1 DEF OneLedger
    <3> QED BY <2>1, <3>2
  <2>5. HeightOf(t) = h
    BY <2>1, <2>4 DEF HeightOf, BlockAt
  <2> QED BY <2>1, <2>2, <2>3, <2>5, WalletAssumption
<1>4. ASSUME t \in TxsBelow(syncHeight) PROVE Stored(t, HeightOf(t), syncHeight)
  <2>1. PICK h \in 0 .. syncHeight - 1 : t \in TxsIn[chain[h + 1]]
    BY <1>4 DEF TxsBelow, Prefix, BlockAt
  <2>2. Stored(t, h, syncHeight)
    BY <1>2, <2>1 DEF Stored
  <2> QED BY <1>3, <2>2
<1> QED BY <1>3, <1>4

\* Then the tables say what the chain says.
LEMMA LedgerIsExact ==
    ASSUME OneLedger, TypeInv, FollowInv, LedgerInv
    PROVE  TablesExact
<1> SUFFICES ASSUME AgreesOnTip PROVE TablesExact
  BY DEF TablesExact, OutputsExact, SpendsExact, HistoryExact
<1>1. pc = "idle"
  BY DEF AgreesOnTip, TypeInv
<1>2. LedgerLength = syncHeight /\ SpendLength = syncHeight /\ HistoryLength = syncHeight
  BY <1>1 DEF LedgerLength, SpendLength, HistoryLength, InBlock
<1>3. \A t, h, n : (Scanned(t, h, n) <=> Stored(t, h, n)) /\ ~InHand(t, h)
  BY <1>1, OutsideBlock DEF InBlock
<1>4. \A o \in Outs, h \in Heights :
         Paid(o, h) <=> \E t \in TxsBelow(syncHeight) : o \in Creates[t] /\ h = HeightOf(t)
  BY <1>2, <1>3, StoredIsBelow DEF Paid
<1>5. OutputsExact
  <2> DEFINE kept == {k \in Keys : outputs[k] # None /\ outputs[k].blockHeight < syncHeight}
  <2>1. ASSUME NEW k \in kept
        PROVE  <<outputs[k].out, outputs[k].blockHeight>> \in PaidBelow(syncHeight)
    <3>1. /\ Paid(outputs[k].out, outputs[k].blockHeight)
          /\ outputs[k].out \in Outs /\ outputs[k].blockHeight \in Heights
      BY RecordTypes DEF LedgerInv, OutputsAre
    <3>2. PICK t \in TxsBelow(syncHeight) :
             outputs[k].out \in Creates[t] /\ outputs[k].blockHeight = HeightOf(t)
      BY <1>4, <3>1
    <3> QED BY <3>2 DEF PaidBelow
  <2>2. ASSUME NEW t \in TxsBelow(syncHeight), NEW o \in Creates[t]
        PROVE  \E k \in kept : <<o, HeightOf(t)>> = <<outputs[k].out, outputs[k].blockHeight>>
    <3>1. /\ Stored(t, HeightOf(t), syncHeight) /\ t \in Txs
          /\ HeightOf(t) \in Heights /\ HeightOf(t) < syncHeight
      BY StoredIsBelow
    <3>2. o \in Outs /\ KeyOf[o] \in Keys
      BY <3>1, WalletAssumption
    <3>3. Paid(o, HeightOf(t))
      BY <1>4, <3>1, <3>2
    <3>4. /\ outputs[KeyOf[o]] # None /\ outputs[KeyOf[o]].out = o
          /\ outputs[KeyOf[o]].blockHeight = HeightOf(t)
      BY <3>1, <3>2, <3>3 DEF LedgerInv, OutputsAre
    <3> QED BY <3>1, <3>2, <3>4
  <2>3. \A x : x \in PaidBelow(syncHeight) <=>
           \E t \in TxsBelow(syncHeight) : \E o \in Creates[t] : x = <<o, HeightOf(t)>>
    BY DEF PaidBelow
  <2>4. {<<outputs[k].out, outputs[k].blockHeight>> : k \in kept} = PaidBelow(syncHeight)
    <3> HIDE DEF kept
    <3> QED BY <2>1, <2>2, <2>3
  <2> QED BY <2>4 DEF OutputsExact
<1>6. SpendsExact
  <2> SUFFICES ASSUME NEW k \in Keys, outputs[k] # None
               PROVE  LET spent == outputs[k].isSpent /\ outputs[k].spentHeight < syncHeight IN
                      IF SpendersOf(k, syncHeight) = {} THEN ~spent
                      ELSE /\ spent
                           /\ outputs[k].spentTx \in SpendersOf(k, syncHeight)
                           /\ outputs[k].spentHeight = HeightOf(outputs[k].spentTx)
    BY DEF SpendsExact
  <2>1. ASSUME outputs[k].isSpent PROVE outputs[k].spentTx \in SpendersOf(k, syncHeight)
    <3>1. Spent(k, outputs[k].spentTx, outputs[k].spentHeight)
      BY <2>1 DEF LedgerInv, SpendsAre
    <3>2. /\ k \in Spends[outputs[k].spentTx]
          /\ Stored(outputs[k].spentTx, outputs[k].spentHeight, syncHeight)
      BY <1>2, <1>3, <3>1 DEF Spent
    <3> QED BY <3>2, StoredIsBelow DEF SpendersOf
  <2>2. ASSUME NEW t \in SpendersOf(k, syncHeight)
        PROVE  /\ outputs[k].isSpent /\ outputs[k].spentTx = t
               /\ outputs[k].spentHeight = HeightOf(t) /\ HeightOf(t) < syncHeight
    <3>1. k \in Spends[t] /\ t \in TxsBelow(syncHeight)
      BY DEF SpendersOf
    <3>2. /\ Stored(t, HeightOf(t), syncHeight) /\ t \in Txs
          /\ HeightOf(t) \in Heights /\ HeightOf(t) < syncHeight
      BY <3>1, StoredIsBelow
    <3>3. \E o \in Outs, i \in Heights : KeyOf[o] = k /\ Paid(o, i)
      BY RecordTypes DEF LedgerInv, OutputsAre
    <3>4. Spent(k, t, HeightOf(t))
      BY <1>2, <1>3, <3>1, <3>2, <3>3 DEF Spent
    <3> QED BY <3>2, <3>4 DEF LedgerInv, SpendsAre
  <2> QED BY <2>1, <2>2
<1>7. HistoryExact
  <2> SUFFICES ASSUME NEW t \in Txs
               PROVE  LET stored == txs[t] # None /\ txs[t].blockHeight < syncHeight IN
                      IF t \notin TxsBelow(syncHeight) THEN ~stored
                      ELSE stored /\ txs[t] = [blockHeight |-> HeightOf(t),
                                               received |-> Creates[t], spent |-> Spends[t]]
    BY DEF HistoryExact
  <2>1. txs[t] # None => t \in TxsBelow(syncHeight)
    BY <1>2, <1>3, StoredIsBelow DEF LedgerInv, HistoryIs
  <2>2. ASSUME t \in TxsBelow(syncHeight)
        PROVE  /\ txs[t] # None /\ txs[t].blockHeight = HeightOf(t)
               /\ HeightOf(t) < syncHeight
               /\ txs[t].received = Creates[t] /\ txs[t].spent = Spends[t]
    <3>1. /\ Stored(t, HeightOf(t), syncHeight)
          /\ HeightOf(t) \in Heights /\ HeightOf(t) < syncHeight
      BY <2>2, StoredIsBelow
    <3> QED BY <1>2, <1>3, <3>1 DEF LedgerInv, HistoryIs
  <2>3. txs[t] # None => txs[t] \in TxRecord
    BY RecordTypes
  <2> QED BY <2>1, <2>2, <2>3 DEF TxRecord
<1> QED BY <1>5, <1>6, <1>7 DEF TablesExact

\* Whenever no sync is running and the stored hash below the saved height is the
\* best chain's, the wallet's three tables say exactly what that chain says
\* below it: the outputs it pays the wallet, each at its block's height; which
\* of them are spent, by which transaction and where; and the history, with all
\* that every transaction pays and spends.  Through reorganisations between
\* syncs, stops at any await and chains that grow meanwhile (_processBlock,
\* _scanOutputs, _checkSpentOutputs, putTransaction, _handleWalletReorg and the
\* four storage calls of a rollback).
THEOREM TablesAreTheLedger ==
    ASSUME OrderlyStorage, SteadyDaemon, NothingSkipped, OneLedger
    PROVE  Spec => []TablesExact
<1> DEFINE Inv == /\ TypeInv /\ CoverInv /\ FollowInv /\ LedgerInv
                  /\ rescanCall = NoRescan
<1>1. Init => Inv
  BY InitTypeInv, InitCoverInv, InitFollowInv, InitLedgerInv DEF Init
<1>2. Inv /\ [Next]_vars => Inv'
  <2> SUFFICES ASSUME Inv, [Next]_vars PROVE Inv'
    OBVIOUS
  <2>1. LedgerInv'
    BY LedgerEngine, LedgerCallers, LedgerChainMoves DEF Next, OrderlyStorage
  <2> QED BY <2>1, FollowInvStep
<1>3. Inv => TablesExact
  BY LedgerIsExact
<1> QED BY <1>1, <1>2, <1>3, PTL DEF Spec

-----------------------------------------------------------------------------
(***************************************************************************)
(* What a later sync repairs                                                *)
(***************************************************************************)
\* The daemon's chain grows and is not replaced.  Otherwise anything may fail at any
\* await but the processing of one transaction: requests, storage calls, the process
\* itself.  Nobody rescans during a sync or from a height above 0.
GrowingChain ==
    /\ Events \cap {"reorgIdle", "reorgBusy", "txsError", "txError", "rescanBusy"} = {}
    /\ StartHeights = {} /\ RescanHeights \subseteq {0}

\* Transaction t is in the block of height h of the best chain.
OnChain(t, h) == h \in 0 .. Len(chain) - 1 /\ t \in TxsIn[BlockAt(h)]

\* Key image k is marked spent by transaction t.
SpentBy(k, t) == outputs[k] # None /\ outputs[k].isSpent /\ outputs[k].spentTx = t

\* What transaction t pays is stored, and what it spends is marked.
InTables(t) ==
    /\ \A o \in Creates[t] : outputs[KeyOf[o]] # None
    /\ \A k \in Spends[t] : SpentBy(k, t)

\* The scan need not look at t again.
Finished(t) == InTables(t) /\ (Creates[t] # {} => txs[t] # None)

\* The block of height h has been scanned.
BlockScanned(h) == hashes[h] = BlockAt(h) /\ \A t \in TxsIn[BlockAt(h)] : Finished(t)

\* What output record k says is on the best chain.
PaymentTrue(k) ==
    /\ KeyOf[outputs[k].out] = k
    /\ \E t \in Txs : outputs[k].out \in Creates[t] /\ OnChain(t, outputs[k].blockHeight)

\* ... and so is its spend; the transaction that paid it is recorded by then.
SpendTrue(k) ==
    /\ outputs[k].spentTx \in Txs /\ k \in Spends[outputs[k].spentTx]
    /\ OnChain(outputs[k].spentTx, outputs[k].spentHeight)
    /\ \A t \in Txs : outputs[k].out \in Creates[t] => txs[t] # None

\* The tables say nothing that is not on the best chain, and what is recorded is in
\* them.
TablesTrue ==
    /\ \A h \in Heights : hashes[h] # None => h < Len(chain) /\ hashes[h] = BlockAt(h)
    /\ \A k \in Keys : outputs[k] # None => PaymentTrue(k)
    /\ \A k \in Keys : outputs[k] # None /\ outputs[k].isSpent => SpendTrue(k)
    /\ \A t \in Txs : txs[t] # None => InTables(t)

\* Neither the saved height nor the running sync is ahead of what has been scanned,
\* and no rollback begins.
Passed ==
    /\ rescanCall.from = 0
    /\ syncHeight <= Len(chain) /\ \A h \in 0 .. syncHeight - 1 : BlockScanned(h)
    /\ Syncing => /\ currentHeight + Len(headers) <= Len(chain)
                  /\ \A h \in 0 .. currentHeight - 1 : BlockScanned(h)
    /\ \A i \in 1 .. Len(headers) : headers[i] = chain[currentHeight + i]
    /\ pc \notin {"ancestor", "rollbackOutputs", "rollbackTxs", "rollbackSpends",
                  "rollbackHashes", "rollbackSync"}

\* Of the block in hand, what is neither to do nor in processing is finished.
BlockInHand ==
    InBlock =>
        /\ block = BlockAt(currentHeight) /\ currentHeight < Len(chain)
        /\ todo \subseteq TxsIn[block]
        /\ \A t \in Txs : Handled(t) => Finished(t)
        /\ pc = "embedded" => todo \cap Regular = {}
        /\ pc = "regular" => todo \subseteq Regular
        /\ pc = "tx" => IF cur.tx \in Regular THEN todo \subseteq Regular
                                              ELSE todo \cap Regular = {}

\* Of the transaction in processing, what is not to do is in the tables.
TransactionInHand ==
    pc = "tx" =>
        /\ cur.tx \in TxsIn[block] /\ cur.tx \notin todo /\ txs[cur.tx] = None
        /\ cur.outs \subseteq Creates[cur.tx] /\ cur.ins \subseteq Spends[cur.tx]
        /\ \A o \in Creates[cur.tx] \ cur.outs : outputs[KeyOf[o]] # None
        /\ \A k \in Spends[cur.tx] : k \in cur.ins \/ k = cur.found \/ SpentBy(k, cur.tx)
        /\ cur.found # None => /\ cur.found \in Spends[cur.tx]
                               /\ outputs[cur.found] # None /\ ~outputs[cur.found].isSpent

\* Why a later sync makes good what an interrupted one has left: whatever is stored
\* is true, and what is missing is ahead of the saved height.
RepairInv == TablesTrue /\ Passed /\ BlockInHand /\ TransactionInHand

\* Steps that take no output, spend or record out of the tables.
TablesGrow ==
    /\ \A k \in Keys : outputs[k] # None => outputs'[k] # None
    /\ \A k \in Keys : outputs[k] # None /\ outputs[k].isSpent => outputs'[k] = outputs[k]
    /\ \A t \in Txs : txs[t] # None => txs'[t] # None

\* What is finished stays finished.
LEMMA FinishedStays ==
    ASSUME TablesGrow
    PROVE  /\ \A k \in Keys : \A t : SpentBy(k, t) => SpentBy(k, t)'
           /\ \A t \in Txs : InTables(t) => InTables(t)'
           /\ \A t \in Txs : Finished(t) => Finished(t)'
<1>1. \A k \in Keys : \A t : SpentBy(k, t) => SpentBy(k, t)'
  BY DEF TablesGrow, SpentBy
<1>2. \A t \in Txs : InTables(t) => InTables(t)'
  <2> SUFFICES ASSUME NEW t \in Txs, InTables(t) PROVE InTables(t)'
    OBVIOUS
  <2>1. Creates[t] \subseteq Outs /\ Spends[t] \subseteq Keys
        /\ \A o \in Outs : KeyOf[o] \in Keys
    BY WalletAssumption
  <2> QED BY <1>1, <2>1 DEF InTables, TablesGrow
<1>3. \A t \in Txs : Finished(t) => Finished(t)'
  BY <1>2 DEF Finished, TablesGrow
<1> QED BY <1>1, <1>2, <1>3

\* The blocks of the best chain and their transactions.
LEMMA BlocksOfChain ==
    ASSUME TypeInv
    PROVE  /\ chain \in Chains /\ Len(chain) \in Nat /\ Len(chain) <= MaxHeight
           /\ MaxHeight \in Nat /\ DOMAIN chain = 1 .. Len(chain)
           /\ syncHeight \in Nat /\ currentHeight \in Nat /\ Len(headers) \in Nat
           /\ \A h \in 0 .. Len(chain) - 1 :
                 BlockAt(h) \in Hashes /\ TxsIn[BlockAt(h)] \subseteq Txs /\ h \in Heights
<1>1. /\ chain \in Chains /\ Len(chain) \in Nat /\ Len(chain) <= MaxHeight /\ MaxHeight \in Nat
      /\ DOMAIN chain = 1 .. Len(chain)
      /\ syncHeight \in Nat /\ currentHeight \in Nat
  BY ChainFacts, LenProperties, StoreAssumption DEF TypeInv, TypeOK
<1>2. Len(headers) \in Nat
  BY LenProperties DEF TypeInv, TypeOK
<1>3. ASSUME NEW h \in 0 .. Len(chain) - 1
      PROVE  BlockAt(h) \in Hashes /\ TxsIn[BlockAt(h)] \subseteq Txs /\ h \in Heights
  <2>1. BlockAt(h) \in Hashes
    BY <1>1, ChainFacts DEF BlockAt
  <2> QED BY <1>1, <2>1, WalletAssumption DEF Heights
<1> QED BY <1>1, <1>2, <1>3

\* What has been scanned stays scanned.
LEMMA ScannedStays ==
    ASSUME TypeInv, TablesGrow, UNCHANGED <<chain, hashes>>,
           NEW h \in 0 .. Len(chain) - 1, BlockScanned(h)
    PROVE  BlockScanned(h)'
<1>1. TxsIn[BlockAt(h)] \subseteq Txs
  BY BlocksOfChain
<1> QED BY <1>1, FinishedStays DEF BlockScanned, BlockAt

\* The tables are not touched.
LEMMA TablesUntouched ==
    ASSUME TypeInv, TablesTrue, UNCHANGED <<chain, hashes, outputs, txs>>
    PROVE  /\ TablesTrue' /\ TablesGrow
           /\ \A h : BlockScanned(h) => BlockScanned(h)'
           /\ \A t : Finished(t) => Finished(t)'
           /\ \A k, t : SpentBy(k, t) => SpentBy(k, t)'
<1>1. /\ \A t : InTables(t) => InTables(t)'
      /\ \A k \in Keys : PaymentTrue(k) => PaymentTrue(k)'
      /\ \A k \in Keys : SpendTrue(k) => SpendTrue(k)'
  BY DEF InTables, SpentBy, PaymentTrue, SpendTrue, OnChain, BlockAt
<1>2. TablesTrue'
  BY <1>1 DEF TablesTrue, BlockAt
<1>3. TablesGrow
  BY DEF TablesGrow
<1>4. \A t : Finished(t) => Finished(t)'
  BY <1>1 DEF Finished
<1>5. \A h : BlockScanned(h) => BlockScanned(h)'
  BY <1>4 DEF BlockScanned, BlockAt
<1> QED BY <1>2, <1>3, <1>4, <1>5 DEF SpentBy

\* A step to a place outside a block that leaves the tables alone: the saved height
\* and the running sync stay where they are, go to where the other one is, or to 0.
LEMMA RepairOutside ==
    ASSUME TypeInv, RepairInv, UNCHANGED <<chain, hashes, outputs, txs>>, ~InBlock',
           rescanCall'.from = 0,
           pc' \notin {"ancestor", "rollbackOutputs", "rollbackTxs", "rollbackSpends",
                       "rollbackHashes", "rollbackSync"},
           syncHeight' = 0 \/ syncHeight' = syncHeight \/ (Syncing /\ syncHeight' = currentHeight),
           Syncing' => \/ currentHeight' = 0 \/ currentHeight' = syncHeight
                       \/ Syncing /\ currentHeight' = currentHeight,
           Syncing' => currentHeight' + Len(headers') <= Len(chain),
           \A i \in 1 .. Len(headers') : headers'[i] = chain[currentHeight' + i]
    PROVE  RepairInv'
<1>1. TablesTrue' /\ \A h : BlockScanned(h) => BlockScanned(h)'
  BY TablesUntouched DEF RepairInv
<1>2. /\ \A h \in 0 .. syncHeight - 1 : BlockScanned(h)
      /\ Syncing => \A h \in 0 .. currentHeight - 1 : BlockScanned(h)
  BY DEF RepairInv, Passed
<1>3. /\ Len(chain) \in Nat /\ syncHeight \in Nat /\ currentHeight \in Nat
      /\ Len(headers) \in Nat /\ syncHeight <= Len(chain)
      /\ Syncing => currentHeight + Len(headers) <= Len(chain)
  BY BlocksOfChain DEF RepairInv, Passed
<1>4. syncHeight' <= Len(chain) /\ \A h \in 0 .. syncHeight' - 1 : BlockScanned(h)'
  BY <1>1, <1>2, <1>3
<1>5. Syncing' => \A h \in 0 .. currentHeight' - 1 : BlockScanned(h)'
  BY <1>1, <1>2, <1>3
<1>6. Passed'
  BY <1>4, <1>5 DEF Passed
<1>7. BlockInHand' /\ TransactionInHand'
  BY DEF BlockInHand, TransactionInHand, InBlock
<1> QED BY <1>1, <1>6, <1>7 DEF RepairInv

\* A step of somebody else that leaves the engine and the tables alone.
LEMMA RepairElsewhere ==
    ASSUME TypeInv, RepairInv, rescanCall'.from = 0,
           UNCHANGED <<chain, hashes, outputs, txs, status, pc, heightVars, scanVars>>,
           syncHeight' = 0 \/ syncHeight' = syncHeight
    PROVE  RepairInv'
<1>1. TablesTrue' /\ (\A h : BlockScanned(h) => BlockScanned(h)')
      /\ (\A t : Finished(t) => Finished(t)') /\ (\A k, t : SpentBy(k, t) => SpentBy(k, t)')
  BY TablesUntouched DEF RepairInv
<1>2. Passed'
  <2>1. /\ \A h \in 0 .. syncHeight - 1 : BlockScanned(h)
        /\ syncHeight <= Len(chain) /\ Len(chain) \in Nat /\ syncHeight \in Nat
    BY BlocksOfChain DEF RepairInv, Passed
  <2>2. syncHeight' <= Len(chain) /\ \A h \in 0 .. syncHeight' - 1 : BlockScanned(h)'
    BY <1>1, <2>1
  <2> QED BY <1>1, <2>2 DEF RepairInv, Passed, heightVars, scanVars, Syncing
<1>3. BlockInHand'
  BY <1>1 DEF RepairInv, BlockInHand, Handled, InBlock, BlockAt, heightVars, scanVars
<1>4. TransactionInHand'
  BY <1>1 DEF RepairInv, TransactionInHand, scanVars
<1> QED BY <1>1, <1>2, <1>3, <1>4 DEF RepairInv

\* The engine waits, fails or dies, a sync begins or ends, a height is saved.
LEMMA RepairWaits ==
    ASSUME GrowingChain, TypeInv, RepairInv,
           \/ GetInfo \/ Recheck \/ TipMatches \/ SyncEnds \/ BatchDone \/ SaveSyncHeight
           \/ Fail \/ Crash \/ Stop \/ UNCHANGED vars \/ RescanSetHeight \/ RescanStart
           \/ \E n \in StartHeights \union {None} : Start(n)
    PROVE  RepairInv'
<1>1. /\ Len(<<>>) = 0 /\ rescanCall.from = 0 /\ NoRescan.from = 0
      /\ Len(chain) \in Nat /\ syncHeight \in Nat /\ currentHeight \in Nat
      /\ Len(headers) \in Nat /\ syncHeight <= Len(chain)
      /\ Syncing => currentHeight + Len(headers) <= Len(chain)
      /\ \A i \in 1 .. Len(headers) : headers[i] = chain[currentHeight + i]
      /\ pc \notin {"ancestor", "rollbackOutputs", "rollbackTxs", "rollbackSpends",
                    "rollbackHashes", "rollbackSync"}
      /\ Syncing <=> pc # "idle"
      /\ InBlock \/ pc = "block" \/ headers = <<>>
  BY BlocksOfChain, EmptySequence DEF RepairInv, Passed, NoRescan, TypeInv
<1>2. CASE GetInfo \/ Recheck \/ TipMatches \/ SyncEnds \/ Fail \/ Crash \/ BatchDone
  <2>1. /\ UNCHANGED <<chain, storeVars>> /\ rescanCall'.from = 0
        /\ Syncing' => Syncing /\ currentHeight' = currentHeight
        /\ pc' \in {"tip", "loop", "idle", "save"}
        /\ headers' = <<>>
    BY <1>1, <1>2 DEF GetInfo, Recheck, TipMatches, SyncEnds, Fail, Crash, BatchDone, Goto,
       callerVars, heightVars, scanVars, ScanAbandoned, InBlock, Syncing
  <2> QED BY <1>1, <2>1, RepairOutside DEF storeVars, InBlock
<1>3. CASE SaveSyncHeight
  <2>1. /\ UNCHANGED <<callerVars, outputs, txs, hashes, heightVars, scanVars, status>>
        /\ syncHeight' = currentHeight /\ pc = "save" /\ pc' \in {"recheck", "loop"}
    BY <1>3 DEF SaveSyncHeight, Goto
  <2> QED BY <1>1, <2>1, RepairOutside DEF callerVars, heightVars, scanVars, InBlock, Syncing
<1>4. CASE RescanStart
  <2>1. /\ UNCHANGED <<chain, storeVars>> /\ rescanCall'.from = 0
    BY <1>1, <1>4 DEF RescanStart
  <2>2. CASE Syncing
    <3>1. UNCHANGED engineVars
      BY <1>4, <2>2 DEF RescanStart
    <3> QED BY <2>1, <3>1, RepairElsewhere DEF storeVars, engineVars
  <2>3. CASE ~Syncing
    <3>1. /\ currentHeight' = 0 /\ pc' = "info" /\ headers' = headers /\ headers = <<>>
      BY <1>1, <1>4, <2>3 DEF RescanStart, Begin, Goto, scanVars, InBlock
    <3> QED BY <1>1, <2>1, <3>1, RepairOutside DEF storeVars, InBlock
  <2> QED BY <2>2, <2>3
<1>5. ASSUME NEW n \in StartHeights \union {None}, Start(n) PROVE RepairInv'
  <2>1. /\ UNCHANGED <<callerVars, storeVars>> /\ currentHeight' = syncHeight
        /\ pc' = "info" /\ headers' = headers /\ headers = <<>>
    BY <1>1, <1>5 DEF GrowingChain, Start, Begin, Goto, scanVars, InBlock
  <2> QED BY <1>1, <2>1, RepairOutside DEF callerVars, storeVars, InBlock
<1>6. CASE RescanSetHeight
  <2>1. /\ UNCHANGED <<chain, outputs, txs, hashes, engineVars>> /\ syncHeight' = 0
        /\ rescanCall'.from = 0
    BY <1>1, <1>6 DEF RescanSetHeight, RescanCall, TypeInv, TypeOK
  <2> QED BY <2>1, RepairElsewhere DEF engineVars
<1>7. CASE Stop \/ UNCHANGED vars
  <2>1. UNCHANGED <<callerVars, storeVars, status, pc, heightVars, scanVars>>
    BY <1>7 DEF Stop, vars, engineVars
  <2> QED BY <1>1, <2>1, RepairElsewhere DEF callerVars, storeVars
<1> QED BY <1>2, <1>3, <1>4, <1>5, <1>6, <1>7

\* The headers of a batch are the next blocks of the chain.
LEMMA RepairGetHeaders ==
    ASSUME TypeInv, RepairInv, NEW n \in 1 .. MaxBatch, GetHeaders(n)
    PROVE  RepairInv'
<1>1. /\ UNCHANGED <<callerVars, storeVars, status, currentHeight>> /\ pc = "loop" /\ pc' = "block"
      /\ headers' = SubSeq(chain, currentHeight + 1, BatchEnd(n))
      /\ currentHeight < targetHeight /\ BatchEnd(n) <= Len(chain)
  BY DEF GetHeaders, Goto, heightVars
<1>2. /\ chain \in Seq(Hashes) /\ Len(chain) \in Nat /\ currentHeight \in Nat
      /\ BatchEnd(n) \in Nat /\ currentHeight < BatchEnd(n) /\ BatchEnd(n) <= Len(chain)
  BY <1>1, ChainFacts, BlocksOfChain, WalletAssumption, StoreAssumption
     DEF BatchEnd, TypeInv, TypeOK
<1>3. /\ Len(headers') = BatchEnd(n) - currentHeight
      /\ \A i \in 1 .. BatchEnd(n) - currentHeight : headers'[i] = chain[currentHeight + i]
  <2> DEFINE e == BatchEnd(n)
  <2> HIDE DEF e
  <2>1. e \in Nat /\ headers' = SubSeq(chain, currentHeight + 1, e)
        /\ currentHeight + 1 <= Len(chain) + 1 /\ e <= Len(chain) /\ currentHeight < e
    BY <1>1, <1>2 DEF e
  <2>2. \A i \in currentHeight + 1 .. e : chain[i] \in Hashes
    BY <1>2, <2>1, ElementOfSeq
  <2>3. /\ Len(SubSeq(chain, currentHeight + 1, e)) = e - currentHeight
        /\ \A i \in 1 .. e - currentHeight :
              SubSeq(chain, currentHeight + 1, e)[i] = chain[currentHeight + i]
    BY <1>2, <2>1, <2>2, SubSeqProperties
  <2> QED BY <2>1, <2>3 DEF e
<1>4. /\ Syncing' => Syncing
      /\ currentHeight' + Len(headers') <= Len(chain)
      /\ rescanCall'.from = 0
  BY <1>1, <1>2, <1>3 DEF RepairInv, Passed, Syncing, callerVars
<1> QED BY <1>1, <1>3, <1>4, RepairOutside DEF callerVars, storeVars, InBlock

\* A step inside a batch that leaves the tables and the height alone.
LEMMA RepairInside ==
    ASSUME TypeInv, RepairInv, pc = "block" \/ InBlock, InBlock',
           UNCHANGED <<callerVars, storeVars, status, currentHeight, headers>>,
           BlockInHand', TransactionInHand'
    PROVE  RepairInv'
<1>1. TablesTrue' /\ \A h : BlockScanned(h) => BlockScanned(h)'
  BY TablesUntouched DEF RepairInv, callerVars, storeVars
<1>2. Passed'
  BY <1>1 DEF RepairInv, Passed, callerVars, storeVars, Syncing, InBlock
<1> QED BY <1>1, <1>2 DEF RepairInv

\* getBlock answers with the best chain's block, and nothing of it is done yet.
LEMMA RepairGetBlock ==
    ASSUME TypeInv, RepairInv, GetBlock
    PROVE  RepairInv'
<1>1. /\ pc = "block" /\ pc' = "embedded"
      /\ UNCHANGED <<callerVars, storeVars, status, currentHeight, headers>>
      /\ block' = BlockAt(currentHeight) /\ currentHeight < Len(chain)
      /\ todo' = TxsIn[block'] \ Regular
  BY DEF GetBlock, MoreHeaders, HasBlock, Goto, heightVars
<1>2. \A t : ~Handled(t)'
  BY <1>1 DEF Handled, InBlock
<1>3. BlockInHand' /\ TransactionInHand'
  BY <1>1, <1>2 DEF BlockInHand, TransactionInHand, BlockAt, callerVars
<1> QED BY <1>1, <1>3, RepairInside DEF InBlock

\* The embedded transactions are done; the others are to do.
LEMMA RepairGetTransactions ==
    ASSUME GrowingChain, TypeInv, RepairInv, GetTransactions
    PROVE  RepairInv'
<1>1. /\ pc = "embedded" /\ pc' = "regular" /\ todo = {} /\ todo' = TxsIn[block] \cap Regular
      /\ UNCHANGED <<callerVars, storeVars, status, currentHeight, block, headers>>
  BY DEF GetTransactions, GrowingChain, Goto, heightVars
<1>2. \A t : Handled(t)' <=> Handled(t)
  BY <1>1 DEF Handled, InBlock
<1>3. \A t : Finished(t) => Finished(t)'
  BY <1>1, TablesUntouched DEF RepairInv, callerVars, storeVars
<1>4. BlockInHand' /\ TransactionInHand'
  BY <1>1, <1>2, <1>3 DEF RepairInv, BlockInHand, TransactionInHand, BlockAt, InBlock, callerVars
<1> QED BY <1>1, <1>4, RepairInside DEF InBlock

\* A transaction that is recorded is in the tables already.
LEMMA RepairSkipTransaction ==
    ASSUME TypeInv, RepairInv, NEW t \in Txs, SkipTransaction(t)
    PROVE  RepairInv'
<1>1. /\ pc \in {"embedded", "regular"} /\ t \in todo /\ txs[t] # None /\ todo' = todo \ {t}
      /\ UNCHANGED <<callerVars, storeVars, status, pc, currentHeight, block, headers>>
  BY DEF SkipTransaction, heightVars
<1>2. Finished(t)
  BY <1>1 DEF RepairInv, TablesTrue, Finished
<1>3. \A u : Handled(u)' => Handled(u) \/ u = t
  BY <1>1 DEF Handled, InBlock
<1>4. \A u : Finished(u) => Finished(u)'
  BY <1>1, TablesUntouched DEF RepairInv, callerVars, storeVars
<1>5. BlockInHand' /\ TransactionInHand'
  BY <1>1, <1>2, <1>3, <1>4
     DEF RepairInv, BlockInHand, TransactionInHand, BlockAt, InBlock, callerVars
<1> QED BY <1>1, <1>5, RepairInside DEF InBlock

\* Of a transaction taken in hand everything is to do.
LEMMA RepairTakeTransaction ==
    ASSUME OneLedger, TypeInv, RepairInv, NEW t \in Txs, TakeTransaction(t)
    PROVE  RepairInv'
<1>1. /\ pc \in {"embedded", "regular"} /\ pc' = "tx" /\ InBlock /\ InBlock'
      /\ t \in todo /\ todo' = todo \ {t} /\ txs[t] = None
      /\ cur' = [tx |-> t, outs |-> Creates[t], ins |-> InputsChecked(t),
                 found |-> None, spent |-> {}]
      /\ UNCHANGED <<callerVars, storeVars, status, currentHeight, block, headers>>
  BY DEF TakeTransaction, Goto, InBlock, heightVars
<1>2. /\ cur'.tx = t /\ cur'.outs = Creates[t] /\ cur'.found = None /\ cur'.ins = Spends[t]
  <2>1. InputsChecked(t) = Spends[t]
    BY WalletAssumption DEF InputsChecked, OneLedger, Keyless
  <2> QED BY <1>1, <2>1
<1>3. /\ block = BlockAt(currentHeight) /\ currentHeight < Len(chain)
      /\ todo \subseteq TxsIn[block]
      /\ \A u \in Txs : Handled(u) => Finished(u)
      /\ pc = "embedded" => todo \cap Regular = {}
      /\ pc = "regular" => todo \subseteq Regular
  BY <1>1 DEF RepairInv, BlockInHand
<1>4. \A u : Handled(u)' => Handled(u)
  BY <1>1, <1>2, <1>3 DEF Handled, InBlock
<1>5. \A u : Finished(u) => Finished(u)'
  BY <1>1, TablesUntouched DEF RepairInv, callerVars, storeVars
<1>6. IF t \in Regular THEN todo' \subseteq Regular ELSE todo' \cap Regular = {}
  <2>1. t \in todo /\ todo' \subseteq todo /\ (pc = "embedded" \/ pc = "regular")
    BY <1>1
  <2>2. CASE pc = "embedded"
    <3>1. todo \cap Regular = {}
      BY <1>3, <2>2
    <3> QED BY <2>1, <3>1
  <2>3. CASE pc = "regular"
    <3>1. todo \subseteq Regular
      BY <1>3, <2>3
    <3> QED BY <2>1, <3>1
  <2> QED BY <2>1, <2>2, <2>3
<1>7. BlockInHand'
  BY <1>1, <1>2, <1>3, <1>4, <1>5, <1>6 DEF BlockInHand, BlockAt, callerVars
<1>8. TransactionInHand'
  BY <1>1, <1>2, <1>3 DEF TransactionInHand, callerVars, storeVars
<1> QED BY <1>1, <1>7, <1>8, RepairInside

\* The transaction in processing is in the block in hand, which is on the best chain.
LEMMA TransactionAtHand ==
    ASSUME TypeInv, RepairInv, pc = "tx"
    PROVE  /\ InBlock /\ cur.tx \in Txs /\ currentHeight \in Heights
           /\ OnChain(cur.tx, currentHeight)
           /\ cur.outs \subseteq Outs /\ cur.ins \subseteq Keys /\ cur.spent \subseteq Keys
           /\ cur.found \in Keys \union {None}
           /\ block = BlockAt(currentHeight) /\ currentHeight \in 0 .. Len(chain) - 1
           /\ \A h \in 0 .. currentHeight - 1 : BlockScanned(h)
<1>1. InBlock /\ pc # "idle" /\ Syncing
  BY DEF InBlock, TypeInv
<1>2. cur \in Transaction
  BY DEF TypeInv
<1>3. /\ block = BlockAt(currentHeight) /\ currentHeight < Len(chain)
      /\ cur.tx \in TxsIn[block]
  BY <1>1 DEF RepairInv, BlockInHand, TransactionInHand
<1>4. currentHeight \in 0 .. Len(chain) - 1 /\ currentHeight \in Heights
  BY <1>3, BlocksOfChain
<1>5. \A h \in 0 .. currentHeight - 1 : BlockScanned(h)
  BY <1>1 DEF RepairInv, Passed
<1> QED BY <1>1, <1>2, <1>3, <1>4, <1>5 DEF OnChain, Transaction

\* A step of a transaction in processing: the tables may grow, what they say stays
\* true.
LEMMA RepairTransaction ==
    ASSUME TypeInv, RepairInv, pc = "tx", InBlock', TablesGrow, TablesTrue',
           UNCHANGED <<callerVars, hashes, syncHeight, status, currentHeight, block,
                       headers, todo>>,
           BlockInHand', TransactionInHand'
    PROVE  RepairInv'
<1>1. /\ Len(chain) \in Nat /\ syncHeight \in Nat /\ syncHeight <= Len(chain)
      /\ \A h \in 0 .. syncHeight - 1 : BlockScanned(h)
  BY BlocksOfChain DEF RepairInv, Passed
<1>2. \A h \in 0 .. Len(chain) - 1 : BlockScanned(h) => BlockScanned(h)'
  BY ScannedStays DEF callerVars
<1>3. \A h \in 0 .. syncHeight - 1 : BlockScanned(h)'
  BY <1>1, <1>2
<1>4. \A h \in 0 .. currentHeight - 1 : BlockScanned(h)'
  <2>1. \A h \in 0 .. currentHeight - 1 : h \in 0 .. Len(chain) - 1 /\ BlockScanned(h)
    BY TransactionAtHand, BlocksOfChain
  <2> QED BY <1>2, <2>1
<1>5. Passed'
  BY <1>1, <1>3, <1>4 DEF RepairInv, Passed, callerVars, Syncing, InBlock
<1> QED BY <1>5 DEF RepairInv

\* While a transaction stays in processing, what was done of the block stays done.
LEMMA HandStays ==
    ASSUME TypeInv, RepairInv, pc = "tx", pc' = "tx", cur'.tx = cur.tx, TablesGrow,
           UNCHANGED <<callerVars, currentHeight, block, todo>>
    PROVE  BlockInHand'
<1>1. InBlock /\ InBlock'
  BY DEF InBlock
<1>2. \A u : Handled(u)' <=> Handled(u)
  BY <1>1 DEF Handled
<1>3. \A u \in Txs : Finished(u) => Finished(u)'
  BY FinishedStays
<1> QED BY <1>1, <1>2, <1>3 DEF RepairInv, BlockInHand, BlockAt, callerVars

\* The record an owned output is stored under is not one that is marked spent: the
\* transaction that pays it would be recorded by then, and skipped.
LEMMA RepairPutOwnedOutput ==
    ASSUME OneLedger, TypeInv, RepairInv, NEW o \in Outs, PutOwnedOutput(o)
    PROVE  RepairInv'
<1>1. /\ pc = "tx" /\ pc' = "tx" /\ o \in cur.outs
      /\ outputs' = [outputs EXCEPT ![KeyOf[o]] = NewOutput(o, currentHeight)]
      /\ cur' = [cur EXCEPT !.outs = @ \ {o}]
      /\ UNCHANGED <<callerVars, txs, hashes, syncHeight, status, currentHeight, block,
                     headers, todo>>
  BY DEF PutOwnedOutput, PutOutput, heightVars
<1> DEFINE k == KeyOf[o]
           rec == NewOutput(o, currentHeight)
<1>2. /\ k \in Keys /\ outputs \in [Keys -> OutputRecord \union {None}]
      /\ cur.tx \in Txs /\ o \in Creates[cur.tx] /\ txs[cur.tx] = None
  BY <1>1, WalletAssumption, TransactionAtHand
     DEF TypeInv, TypeOK, RepairInv, TransactionInHand
<1>3. rec # None /\ rec.out = o /\ rec.blockHeight = currentHeight /\ ~rec.isSpent
  <2>1. rec \in OutputRecord
    BY <1>1, TransactionAtHand DEF NewOutput, OutputRecord
  <2> QED BY <2>1, NoneAssumption DEF NewOutput
<1>4. ~(outputs[k] # None /\ outputs[k].isSpent)
  <2> SUFFICES ASSUME outputs[k] # None, outputs[k].isSpent PROVE FALSE
    OBVIOUS
  <2>1. /\ KeyOf[outputs[k].out] = k /\ outputs[k].out \in Outs
        /\ \A t \in Txs : outputs[k].out \in Creates[t] => txs[t] # None
    BY <1>2, RecordTypes DEF RepairInv, TablesTrue, PaymentTrue, SpendTrue
  <2>2. outputs[k].out = o
    BY <2>1 DEF OneLedger
  <2> QED BY <1>2, <2>1, <2>2
<1>5. outputs'[k] = rec /\ \A j \in Keys : j # k => outputs'[j] = outputs[j]
  BY <1>1, <1>2
<1> HIDE DEF k, rec
<1>6. TablesGrow
  BY <1>1, <1>3, <1>4, <1>5 DEF TablesGrow
<1>7. TablesTrue'
  <2>1. \A t : OnChain(t, currentHeight) => OnChain(t, currentHeight)'
    BY <1>1 DEF OnChain, BlockAt, callerVars
  <2>2. PaymentTrue(k)'
    BY <1>1, <1>2, <1>3, <1>5, <2>1, TransactionAtHand DEF PaymentTrue, OnChain, BlockAt, callerVars, k
  <2>3. \A j \in Keys : outputs'[j] # None => PaymentTrue(j)'
    <3> SUFFICES ASSUME NEW j \in Keys, outputs'[j] # None, j # k PROVE PaymentTrue(j)'
      BY <2>2
    <3>1. PaymentTrue(j) /\ outputs'[j] = outputs[j]
      BY <1>5 DEF RepairInv, TablesTrue
    <3> QED BY <1>1, <3>1 DEF PaymentTrue, OnChain, BlockAt, callerVars
  <2>4. ASSUME NEW j \in Keys, outputs'[j] # None, outputs'[j].isSpent PROVE SpendTrue(j)'
    <3>1. j # k /\ outputs'[j] = outputs[j] /\ SpendTrue(j)
      BY <1>3, <1>5, <2>4 DEF RepairInv, TablesTrue
    <3> QED BY <1>1, <3>1 DEF SpendTrue, OnChain, BlockAt, callerVars
  <2>5. \A t \in Txs : txs'[t] # None => InTables(t)'
    BY <1>1, <1>6, FinishedStays DEF RepairInv, TablesTrue
  <2>6. \A h \in Heights : hashes'[h] # None => h < Len(chain') /\ hashes'[h] = BlockAt(h)'
    BY <1>1 DEF RepairInv, TablesTrue, BlockAt, callerVars
  <2> QED BY <2>3, <2>4, <2>5, <2>6 DEF TablesTrue
<1>8. cur'.tx = cur.tx /\ cur'.outs = cur.outs \ {o} /\ cur'.ins = cur.ins /\ cur'.found = cur.found
  BY <1>1 DEF TypeInv, Transaction
<1>9. BlockInHand'
  BY <1>1, <1>6, <1>8, HandStays
<1>10. TransactionInHand'
  <2>1. \A p \in Creates[cur.tx] \ cur'.outs : outputs'[KeyOf[p]] # None
    <3>1. \A p \in Creates[cur.tx] : KeyOf[p] \in Keys
      BY <1>2, WalletAssumption
    <3> QED BY <1>1, <1>3, <1>5, <1>6, <1>8, <3>1 DEF RepairInv, TransactionInHand, TablesGrow, k
  <2>2. \A j \in Keys : \A t : SpentBy(j, t) => SpentBy(j, t)'
    BY <1>6, FinishedStays
  <2>3. \A j \in Spends[cur.tx] : j \in cur'.ins \/ j = cur'.found \/ SpentBy(j, cur.tx)'
    BY <1>1, <1>2, <1>8, <2>2, WalletAssumption DEF RepairInv, TransactionInHand, SpentBy
  <2>4. cur.outs # {}
    BY <1>1
  <2>5. cur'.found # None => /\ cur'.found \in Spends[cur.tx]
                             /\ outputs'[cur'.found] # None /\ ~outputs'[cur'.found].isSpent
    BY <1>1, <1>2, <1>3, <1>5, <1>8, WalletAssumption DEF RepairInv, TransactionInHand
  <2> QED BY <1>1, <1>8, <2>1, <2>3, <2>5 DEF RepairInv, TransactionInHand, SpentBy
<1> QED BY <1>1, <1>6, <1>7, <1>9, <1>10, RepairTransaction DEF InBlock

\* A transaction of an earlier block is in the tables, and if it pays, recorded.
LEMMA PayerIsRecorded ==
    ASSUME OneLedger, TypeInv, RepairInv, pc = "tx", NEW k \in Spends[cur.tx]
    PROVE  /\ k \in Keys /\ outputs[k] # None
           /\ \A t \in Txs : outputs[k].out \in Creates[t] => txs[t] # None
           /\ outputs[k].isSpent => SpentBy(k, cur.tx)
<1>1. /\ cur.tx \in Txs /\ currentHeight \in 0 .. Len(chain) - 1 /\ chain \in Chains
      /\ cur.tx \in TxsIn[chain[currentHeight + 1]] /\ DOMAIN chain = 1 .. Len(chain)
      /\ Len(chain) \in Nat /\ currentHeight + 1 \in DOMAIN chain
      /\ currentHeight \in Nat
  BY TransactionAtHand, BlocksOfChain DEF OnChain, BlockAt
<1>2. k \in Keys
  BY <1>1, WalletAssumption
<1>3. PICK j \in 1 .. currentHeight : \E u \in TxsIn[chain[j]] : \E o \in Creates[u] : KeyOf[o] = k
  <2>1. \E j \in 1 .. (currentHeight + 1) - 1 :
           \E u \in TxsIn[chain[j]] : \E o \in Creates[u] : KeyOf[o] = k
    BY <1>1 DEF OneLedger
  <2> QED BY <1>1, <2>1
<1>a. PICK u \in TxsIn[chain[j]] : \E o \in Creates[u] : KeyOf[o] = k
  BY <1>3
<1>4. PICK o \in Creates[u] : KeyOf[o] = k
  BY <1>a
<1>5. /\ j - 1 \in 0 .. currentHeight - 1 /\ j - 1 \in 0 .. Len(chain) - 1 /\ (j - 1) + 1 = j
      /\ u \in TxsIn[BlockAt(j - 1)]
  BY <1>1, <1>4 DEF BlockAt
<1>6. u \in Txs /\ o \in Outs
  <2>1. u \in Txs
    BY <1>5, BlocksOfChain
  <2> QED BY <1>4, <2>1, WalletAssumption
<1>7. Finished(u)
  BY <1>5, TransactionAtHand DEF BlockScanned
<1>8. outputs[k] # None /\ txs[u] # None
  BY <1>4, <1>7 DEF Finished, InTables
<1>9. outputs[k].out = o
  <2>1. KeyOf[outputs[k].out] = k /\ outputs[k].out \in Outs
    BY <1>2, <1>8, RecordTypes DEF RepairInv, TablesTrue, PaymentTrue
  <2> QED BY <1>4, <1>6, <2>1 DEF OneLedger
<1>10. \A t \in Txs : o \in Creates[t] => t = u
  BY <1>4, <1>6 DEF OneLedger
<1>11. ASSUME outputs[k].isSpent PROVE outputs[k].spentTx = cur.tx
  <2>1. SpendTrue(k)
    BY <1>2, <1>8, <1>11 DEF RepairInv, TablesTrue
  <2> DEFINE h == outputs[k].spentHeight
             v == outputs[k].spentTx
  <2>2. h \in 0 .. Len(chain) - 1 /\ v \in TxsIn[chain[h + 1]] /\ k \in Spends[v]
    BY <2>1 DEF SpendTrue, OnChain, BlockAt
  <2> HIDE DEF h, v
  <2>3. h + 1 \in DOMAIN chain /\ currentHeight + 1 \in DOMAIN chain
    BY <1>1, <2>2
  <2>4. Spends[v] \cap Spends[cur.tx] # {}
    BY <2>2
  <2>5. v = cur.tx
    BY <1>1, <2>2, <2>3, <2>4 DEF OneLedger
  <2> QED BY <2>5 DEF v
<1> QED BY <1>2, <1>8, <1>9, <1>10, <1>11 DEF SpentBy

\* An input looked up is unspent, or marked spent by this very transaction.
LEMMA RepairCheckInput ==
    ASSUME OneLedger, TypeInv, RepairInv, NEW k \in Keys, CheckInput(k)
    PROVE  RepairInv'
<1>1. /\ pc = "tx" /\ pc' = "tx" /\ k \in cur.ins /\ cur.found = None
      /\ cur' = [cur EXCEPT !.ins = @ \ {k},
                            !.found = IF outputs[k] # None /\ ~outputs[k].isSpent
                                      THEN k ELSE None]
      /\ UNCHANGED <<callerVars, storeVars, status, currentHeight, block, headers, todo>>
  BY DEF CheckInput, heightVars
<1>2. /\ cur'.tx = cur.tx /\ cur'.outs = cur.outs /\ cur'.ins = cur.ins \ {k}
      /\ cur'.found = IF outputs[k] # None /\ ~outputs[k].isSpent THEN k ELSE None
  BY <1>1 DEF TypeInv, Transaction
<1>3. k \in Spends[cur.tx]
  BY <1>1 DEF RepairInv, TransactionInHand
<1>4. k = cur'.found \/ SpentBy(k, cur.tx)
  BY <1>1, <1>2, <1>3, PayerIsRecorded
<1>5. TablesGrow /\ TablesTrue'
  BY <1>1, TablesUntouched DEF RepairInv, callerVars, storeVars
<1>6. BlockInHand'
  BY <1>1, <1>2, <1>5, HandStays
<1>7. TransactionInHand'
  <2>1. \A j \in Spends[cur.tx] : j \in cur'.ins \/ j = cur'.found \/ SpentBy(j, cur.tx)'
    <3> SUFFICES ASSUME NEW j \in Spends[cur.tx], j \notin cur'.ins, j # cur'.found
                 PROVE  SpentBy(j, cur.tx)'
      OBVIOUS
    <3>1. j # None
      BY <1>1, PayerIsRecorded, NoneAssumption
    <3>2. j \in cur.ins => j = k
      BY <1>2
    <3>3. SpentBy(j, cur.tx)
      BY <1>1, <1>4, <3>1, <3>2 DEF RepairInv, TransactionInHand
    <3> QED BY <1>1, <1>2, <3>3 DEF SpentBy, storeVars
  <2>2. cur'.found # None => /\ cur'.found \in Spends[cur.tx]
                             /\ outputs'[cur'.found] # None /\ ~outputs'[cur'.found].isSpent
    BY <1>1, <1>2, <1>3 DEF storeVars
  <2> QED BY <1>1, <1>2, <2>1, <2>2
          DEF RepairInv, TransactionInHand, SpentBy, callerVars, storeVars
<1> QED BY <1>1, <1>5, <1>6, <1>7, RepairTransaction DEF InBlock, storeVars

\* The input found is marked spent by the transaction of the best chain that spends it.
LEMMA RepairMarkInput ==
    ASSUME OneLedger, TypeInv, RepairInv, MarkInput
    PROVE  RepairInv'
<1> DEFINE k == cur.found
           rec == [outputs[k] EXCEPT !.isSpent = TRUE, !.spentTx = cur.tx,
                                     !.spentHeight = currentHeight]
<1>1. /\ pc = "tx" /\ pc' = "tx" /\ k # None
      /\ outputs' = MarkOutputSpent(outputs, k, cur.tx, currentHeight)
      /\ cur' = [cur EXCEPT !.found = None, !.spent = @ \union {cur.found}]
      /\ UNCHANGED <<callerVars, txs, hashes, syncHeight, status, currentHeight, block,
                     headers, todo>>
  BY DEF MarkInput, heightVars
<1>2. /\ k \in Spends[cur.tx] /\ outputs[k] # None /\ ~outputs[k].isSpent /\ k \in Keys
      /\ cur.tx \in Txs
      /\ \A t \in Txs : outputs[k].out \in Creates[t] => txs[t] # None
  BY <1>1, PayerIsRecorded, TransactionAtHand DEF RepairInv, TransactionInHand
<1>3. outputs[k] \in OutputRecord /\ outputs \in [Keys -> OutputRecord \union {None}]
  BY <1>2, RecordTypes DEF TypeInv, TypeOK
<1>4. /\ rec # None /\ rec.out = outputs[k].out /\ rec.blockHeight = outputs[k].blockHeight
      /\ rec.isSpent /\ rec.spentTx = cur.tx /\ rec.spentHeight = currentHeight
  <2>1. currentHeight \in Heights
    BY <1>1, TransactionAtHand
  <2>2. rec \in OutputRecord
    BY <1>2, <1>3, <2>1 DEF OutputRecord
  <2> QED BY <1>3, <2>2, NoneAssumption DEF OutputRecord
<1>5. outputs'[k] = rec /\ \A j \in Keys : j # k => outputs'[j] = outputs[j]
  BY <1>1, <1>2, <1>3 DEF MarkOutputSpent
<1>6. cur'.tx = cur.tx /\ cur'.outs = cur.outs /\ cur'.ins = cur.ins /\ cur'.found = None
  BY <1>1 DEF TypeInv, Transaction
<1>7. OnChain(cur.tx, currentHeight)
  BY <1>1, TransactionAtHand
<1> HIDE DEF k, rec
<1>8. TablesGrow
  BY <1>1, <1>2, <1>4, <1>5 DEF TablesGrow
<1>9. \A j \in Keys : \A t : SpentBy(j, t) => SpentBy(j, t)'
  BY <1>8, FinishedStays
<1>10. TablesTrue'
  <2>1. \A j \in Keys : outputs'[j] # None => PaymentTrue(j)'
    <3> SUFFICES ASSUME NEW j \in Keys, outputs'[j] # None PROVE PaymentTrue(j)'
      OBVIOUS
    <3>1. /\ outputs[j] # None /\ outputs'[j].out = outputs[j].out
          /\ outputs'[j].blockHeight = outputs[j].blockHeight
      BY <1>2, <1>4, <1>5
    <3>2. PaymentTrue(j)
      BY <3>1 DEF RepairInv, TablesTrue
    <3> QED BY <1>1, <3>1, <3>2 DEF PaymentTrue, OnChain, BlockAt, callerVars
  <2>2. ASSUME NEW j \in Keys, outputs'[j] # None, outputs'[j].isSpent PROVE SpendTrue(j)'
    <3>1. CASE j = k
      BY <1>1, <1>2, <1>4, <1>5, <1>7, <3>1 DEF SpendTrue, OnChain, BlockAt, callerVars
    <3>2. CASE j # k
      <4>1. outputs'[j] = outputs[j] /\ SpendTrue(j)
        BY <1>5, <2>2, <3>2 DEF RepairInv, TablesTrue
      <4> QED BY <1>1, <4>1 DEF SpendTrue, OnChain, BlockAt, callerVars
    <3> QED BY <3>1, <3>2
  <2>3. \A t \in Txs : txs'[t] # None => InTables(t)'
    BY <1>1, <1>8, FinishedStays DEF RepairInv, TablesTrue
  <2>4. \A h \in Heights : hashes'[h] # None => h < Len(chain') /\ hashes'[h] = BlockAt(h)'
    BY <1>1 DEF RepairInv, TablesTrue, BlockAt, callerVars
  <2> QED BY <2>1, <2>2, <2>3, <2>4 DEF TablesTrue
<1>11. BlockInHand'
  BY <1>1, <1>6, <1>8, HandStays
<1>12. TransactionInHand'
  <2>1. \A p \in Creates[cur.tx] \ cur.outs : outputs'[KeyOf[p]] # None
    <3>1. \A p \in Creates[cur.tx] : KeyOf[p] \in Keys
      BY <1>2, WalletAssumption
    <3> QED BY <1>1, <1>8, <3>1 DEF RepairInv, TransactionInHand, TablesGrow
  <2>2. \A j \in Spends[cur.tx] : j \in cur.ins \/ SpentBy(j, cur.tx)'
    <3> SUFFICES ASSUME NEW j \in Spends[cur.tx], j \notin cur.ins PROVE SpentBy(j, cur.tx)'
      OBVIOUS
    <3>1. j \in Keys /\ (j = k \/ SpentBy(j, cur.tx))
      BY <1>1, <1>2, WalletAssumption DEF RepairInv, TransactionInHand, k
    <3>2. CASE j = k
      BY <1>2, <1>4, <1>5, <1>6, <3>2 DEF SpentBy
    <3>3. CASE SpentBy(j, cur.tx)
      BY <1>6, <1>9, <3>1, <3>3 DEF SpentBy
    <3> QED BY <3>1, <3>2, <3>3
  <2> QED BY <1>1, <1>6, <2>1, <2>2 DEF RepairInv, TransactionInHand, SpentBy, callerVars
<1> QED BY <1>1, <1>8, <1>10, <1>11, <1>12, RepairTransaction DEF InBlock

\* With its outputs stored and its inputs marked, the transaction is recorded, unless
\* it concerns the wallet no more than by nothing at all.
LEMMA RepairRecordTransaction ==
    ASSUME OneLedger, TypeInv, RepairInv, RecordTransaction
    PROVE  RepairInv'
<1> DEFINE t == cur.tx
           rec == [blockHeight |-> currentHeight, received |-> Creates[t], spent |-> cur.spent]
<1>1. /\ pc = "tx" /\ cur.outs = {} /\ cur.ins = {} /\ cur.found = None
      /\ pc' = IF cur.tx \in Regular THEN "regular" ELSE "embedded"
      /\ txs' = IF Creates[t] = {} /\ cur.spent = {} THEN txs ELSE [txs EXCEPT ![t] = rec]
      /\ UNCHANGED <<callerVars, outputs, hashes, syncHeight, status, currentHeight, block,
                     headers, todo>>
  BY DEF RecordTransaction, NextTransaction, Goto, PutTransaction, heightVars
<1>2. /\ t \in Txs /\ Creates[t] \subseteq Outs /\ cur.spent \subseteq Keys
      /\ currentHeight \in Heights /\ txs \in [Txs -> TxRecord \union {None}]
      /\ Spends[t] \subseteq Keys
  BY <1>1, TransactionAtHand, WalletAssumption DEF TypeInv, TypeOK
<1>3. rec # None
  BY <1>2, NoneAssumption DEF TxRecord
<1>4. /\ Creates[t] # {} => txs'[t] # None
      /\ \A u \in Txs : u # t => txs'[u] = txs[u]
      /\ \A u \in Txs : txs[u] # None => txs'[u] # None
  BY <1>1, <1>2, <1>3
<1> HIDE DEF rec
<1>5. TablesGrow
  BY <1>1, <1>4 DEF TablesGrow
<1>6. InTables(t)
  <2>1. \A o \in Creates[t] : outputs[KeyOf[o]] # None
    BY <1>1 DEF RepairInv, TransactionInHand
  <2>2. ASSUME NEW k \in Spends[t] PROVE SpentBy(k, t)
    <3>1. k # None
      BY <1>2, NoneAssumption
    <3> QED BY <1>1, <3>1 DEF RepairInv, TransactionInHand
  <2> QED BY <2>1, <2>2 DEF InTables
<1>7. \A u \in Txs : InTables(u) => InTables(u)'
  BY <1>5, FinishedStays
<1>8. \A u \in Txs : Finished(u) => Finished(u)'
  BY <1>5, FinishedStays
<1>9. ASSUME NEW u \in Txs, u = t PROVE Finished(u)'
  <2>1. InTables(u)'
    BY <1>6, <1>7, <1>9
  <2> QED BY <1>4, <1>9, <2>1 DEF Finished
<1>10. TablesTrue'
  <2>1. \A j \in Keys : outputs'[j] # None => PaymentTrue(j)'
    BY <1>1 DEF RepairInv, TablesTrue, PaymentTrue, OnChain, BlockAt, callerVars
  <2>2. ASSUME NEW j \in Keys, outputs'[j] # None, outputs'[j].isSpent PROVE SpendTrue(j)'
    <3>1. SpendTrue(j)
      BY <1>1, <2>2 DEF RepairInv, TablesTrue
    <3> QED BY <1>1, <1>4, <3>1 DEF SpendTrue, OnChain, BlockAt, callerVars
  <2>3. ASSUME NEW u \in Txs, txs'[u] # None PROVE InTables(u)'
    <3>1. InTables(u)
      BY <1>4, <1>6, <2>3 DEF RepairInv, TablesTrue
    <3> QED BY <1>7, <3>1
  <2>4. \A h \in Heights : hashes'[h] # None => h < Len(chain') /\ hashes'[h] = BlockAt(h)'
    BY <1>1 DEF RepairInv, TablesTrue, BlockAt, callerVars
  <2> QED BY <2>1, <2>2, <2>3, <2>4 DEF TablesTrue
<1>11. BlockInHand'
  <2>1. InBlock /\ InBlock' /\ (pc' = "regular" \/ pc' = "embedded")
    BY <1>1 DEF InBlock
  <2>2. /\ block = BlockAt(currentHeight) /\ currentHeight < Len(chain)
        /\ todo \subseteq TxsIn[block]
        /\ \A u \in Txs : Handled(u) => Finished(u)
        /\ IF t \in Regular THEN todo \subseteq Regular ELSE todo \cap Regular = {}
    BY <1>1, <2>1 DEF RepairInv, BlockInHand
  <2>3. \A u : Handled(u)' => Handled(u) \/ u = t
    BY <1>1, <2>1, <2>2 DEF Handled
  <2>4. \A u \in Txs : Handled(u)' => Finished(u)'
    BY <1>8, <1>9, <2>2, <2>3
  <2> QED BY <1>1, <2>1, <2>2, <2>4 DEF BlockInHand, BlockAt, callerVars
<1>12. TransactionInHand'
  BY <1>1 DEF TransactionInHand
<1> QED BY <1>1, <1>5, <1>10, <1>11, <1>12, RepairTransaction DEF InBlock

\* The block is done: all its transactions are finished, and its hash is the chain's.
LEMMA RepairPutHash ==
    ASSUME TypeInv, RepairInv, PutHash
    PROVE  RepairInv'
<1>1. /\ pc = "regular" /\ pc' = "block" /\ todo = {} /\ InBlock /\ ~InBlock'
      /\ hashes' = [hashes EXCEPT ![currentHeight] = Head(headers)]
      /\ currentHeight' = currentHeight + 1 /\ headers' = Tail(headers)
      /\ UNCHANGED <<callerVars, outputs, txs, syncHeight, status>>
  BY DEF PutHash, PutBlockHash, Goto, InBlock
<1>2. /\ headers \in Seq(Hashes) /\ headers # <<>> /\ Syncing
      /\ hashes \in [Heights -> Hashes \union {None}]
  BY <1>1 DEF TypeInv, TypeOK
<1>3. /\ block = BlockAt(currentHeight) /\ currentHeight < Len(chain)
      /\ \A u \in Txs : Handled(u) => Finished(u)
  BY <1>1 DEF RepairInv, BlockInHand
<1>4. /\ currentHeight + Len(headers) <= Len(chain)
      /\ \A h \in 0 .. currentHeight - 1 : BlockScanned(h)
      /\ syncHeight <= Len(chain) /\ \A h \in 0 .. syncHeight - 1 : BlockScanned(h)
      /\ \A i \in 1 .. Len(headers) : headers[i] = chain[currentHeight + i]
  BY <1>2 DEF RepairInv, Passed
<1>5. /\ Len(chain) \in Nat /\ currentHeight \in Nat /\ syncHeight \in Nat
      /\ currentHeight \in 0 .. Len(chain) - 1 /\ currentHeight \in Heights
      /\ TxsIn[BlockAt(currentHeight)] \subseteq Txs
  BY <1>3, BlocksOfChain
<1>6. /\ Len(headers) \in Nat \ {0} /\ Head(headers) = headers[1]
      /\ Tail(headers) \in Seq(Hashes) /\ Len(Tail(headers)) = Len(headers) - 1
      /\ \A i \in 1 .. Len(Tail(headers)) : Tail(headers)[i] = headers[i + 1]
  BY <1>2, EmptySeq, HeadTailProperties
<1>7. Head(headers) = BlockAt(currentHeight)
  BY <1>4, <1>5, <1>6 DEF BlockAt
<1>8. /\ hashes'[currentHeight] = BlockAt(currentHeight)
      /\ \A h \in Heights : h # currentHeight => hashes'[h] = hashes[h]
  BY <1>1, <1>2, <1>5, <1>7
<1>9. TablesTrue'
  <2>1. \A t : InTables(t) => InTables(t)'
    BY <1>1 DEF InTables, SpentBy
  <2>2. \A j \in Keys : outputs'[j] # None => PaymentTrue(j)'
    BY <1>1 DEF RepairInv, TablesTrue, PaymentTrue, OnChain, BlockAt, callerVars
  <2>3. \A j \in Keys : outputs'[j] # None /\ outputs'[j].isSpent => SpendTrue(j)'
    BY <1>1 DEF RepairInv, TablesTrue, SpendTrue, OnChain, BlockAt, callerVars
  <2>4. \A h \in Heights : hashes'[h] # None => h < Len(chain') /\ hashes'[h] = BlockAt(h)'
    <3> SUFFICES ASSUME NEW h \in Heights, hashes'[h] # None
                 PROVE  h < Len(chain') /\ hashes'[h] = BlockAt(h)'
      OBVIOUS
    <3>1. h < Len(chain) /\ hashes'[h] = BlockAt(h)
      BY <1>3, <1>8 DEF RepairInv, TablesTrue
    <3> QED BY <1>1, <3>1 DEF BlockAt, callerVars
  <2> QED BY <1>1, <2>1, <2>2, <2>3, <2>4 DEF RepairInv, TablesTrue
<1>10. \A t : Finished(t) => Finished(t)'
  BY <1>1 DEF Finished, InTables, SpentBy
<1>11. \A h \in 0 .. Len(chain) - 1 : BlockScanned(h) => BlockScanned(h)'
  <2> SUFFICES ASSUME NEW h \in 0 .. Len(chain) - 1, BlockScanned(h) PROVE BlockScanned(h)'
    OBVIOUS
  <2>1. h \in Heights /\ hashes'[h] = BlockAt(h)
    BY <1>8, BlocksOfChain DEF BlockScanned
  <2> QED BY <1>1, <1>10, <2>1 DEF BlockScanned, BlockAt, callerVars
<1>12. ASSUME NEW h \in 0 .. Len(chain) - 1, h = currentHeight PROVE BlockScanned(h)'
  <2>1. \A t \in TxsIn[block] : Handled(t)
    BY <1>1 DEF Handled
  <2>2. \A t \in TxsIn[BlockAt(h)] : Finished(t)
    BY <1>3, <1>5, <1>12, <2>1
  <2> QED BY <1>1, <1>8, <1>10, <1>12, <2>2 DEF BlockScanned, BlockAt, callerVars
<1>13. \A h \in 0 .. currentHeight' - 1 : BlockScanned(h)'
  <2> SUFFICES ASSUME NEW h \in 0 .. currentHeight' - 1 PROVE BlockScanned(h)'
    OBVIOUS
  <2>1. h \in 0 .. Len(chain) - 1 /\ (h = currentHeight \/ h \in 0 .. currentHeight - 1)
    BY <1>1, <1>5
  <2> QED BY <1>4, <1>11, <1>12, <2>1
<1>14. syncHeight' <= Len(chain') /\ \A h \in 0 .. syncHeight' - 1 : BlockScanned(h)'
  <2>1. \A h \in 0 .. syncHeight - 1 : h \in 0 .. Len(chain) - 1
    BY <1>4, <1>5
  <2> QED BY <1>1, <1>4, <1>11, <2>1 DEF callerVars
<1>15. /\ currentHeight' + Len(headers') <= Len(chain')
       /\ \A i \in 1 .. Len(headers') : headers'[i] = chain'[currentHeight' + i]
  <2>1. currentHeight' + Len(headers') <= Len(chain')
    BY <1>1, <1>4, <1>5, <1>6 DEF callerVars
  <2>2. ASSUME NEW i \in 1 .. Len(headers') PROVE headers'[i] = chain'[currentHeight' + i]
    <3>1. i + 1 \in 1 .. Len(headers) /\ headers'[i] = headers[i + 1]
      BY <1>1, <1>6
    <3>2. currentHeight' + i = currentHeight + (i + 1)
      BY <1>1, <1>5, <1>6
    <3> QED BY <1>1, <1>4, <3>1, <3>2 DEF callerVars
  <2> QED BY <2>1, <2>2
<1>16. Passed'
  BY <1>1, <1>13, <1>14, <1>15 DEF RepairInv, Passed, callerVars
<1>17. BlockInHand' /\ TransactionInHand'
  BY <1>1 DEF BlockInHand, TransactionInHand, InBlock
<1> QED BY <1>9, <1>16, <1>17 DEF RepairInv

\* The chain grows: what was true of it stays true.
LEMMA RepairChainMoves ==
    ASSUME GrowingChain, TypeInv, RepairInv, ChainMoves
    PROVE  RepairInv'
<1>1. /\ chain' \in Chains /\ Extends(chain, chain')
      /\ UNCHANGED <<rescanCall, storeVars, engineVars>>
  BY DEF ChainMoves, GrowingChain
<1>2. /\ Len(chain) \in Nat /\ Len(chain') \in Nat /\ Len(chain) < Len(chain')
      /\ \A i \in 1 .. Len(chain) : chain'[i] = chain[i]
  <2>1. chain \in Chains /\ Len(chain) \in Nat /\ Len(chain') \in Nat
        /\ \A h \in 0 .. Len(chain) - 1 : chain'[h + 1] = chain[h + 1]
    BY <1>1, ExtendsKeeps, BlocksOfChain
  <2>2. Len(chain) < Len(chain')
    BY <1>1, <2>1 DEF Extends
  <2>3. ASSUME NEW i \in 1 .. Len(chain) PROVE chain'[i] = chain[i]
    <3>1. i - 1 \in 0 .. Len(chain) - 1 /\ (i - 1) + 1 = i
      BY <2>1
    <3> QED BY <2>1, <3>1
  <2> QED BY <2>1, <2>2, <2>3
<1>3. \A h \in 0 .. Len(chain) - 1 : h \in 0 .. Len(chain') - 1 /\ BlockAt(h)' = BlockAt(h)
  BY <1>2 DEF BlockAt
<1>4. \A t, h : OnChain(t, h) => OnChain(t, h)'
  BY <1>3 DEF OnChain
<1>5. \A h \in 0 .. Len(chain) - 1 : BlockScanned(h) => BlockScanned(h)'
  BY <1>1, <1>3 DEF BlockScanned, Finished, InTables, SpentBy, storeVars
<1>6. /\ syncHeight \in Nat /\ currentHeight \in Nat /\ Len(headers) \in Nat
  BY BlocksOfChain
<1>7. TablesTrue'
  <2>1. \A t : InTables(t) => InTables(t)'
    BY <1>1 DEF InTables, SpentBy, storeVars
  <2>2. \A j \in Keys : outputs'[j] # None => PaymentTrue(j)'
    BY <1>1, <1>4 DEF RepairInv, TablesTrue, PaymentTrue, storeVars
  <2>3. \A j \in Keys : outputs'[j] # None /\ outputs'[j].isSpent => SpendTrue(j)'
    BY <1>1, <1>4 DEF RepairInv, TablesTrue, SpendTrue, storeVars
  <2>4. \A h \in Heights : hashes'[h] # None => h < Len(chain') /\ hashes'[h] = BlockAt(h)'
    <3> SUFFICES ASSUME NEW h \in Heights, hashes'[h] # None
                 PROVE  h < Len(chain') /\ hashes'[h] = BlockAt(h)'
      OBVIOUS
    <3>1. h < Len(chain) /\ hashes'[h] = BlockAt(h)
      BY <1>1 DEF RepairInv, TablesTrue, storeVars
    <3>2. h \in 0 .. Len(chain) - 1
      BY <1>2, <3>1, StoreAssumption DEF Heights
    <3> QED BY <1>3, <3>1, <3>2
  <2> QED BY <1>1, <2>1, <2>2, <2>3, <2>4 DEF RepairInv, TablesTrue, storeVars
<1>8. Passed'
  <2>1. syncHeight' <= Len(chain') /\ \A h \in 0 .. syncHeight' - 1 : BlockScanned(h)'
    BY <1>1, <1>2, <1>5, <1>6 DEF RepairInv, Passed, storeVars
  <2>2. Syncing' => /\ currentHeight' + Len(headers') <= Len(chain')
                    /\ \A h \in 0 .. currentHeight' - 1 : BlockScanned(h)'
    <3> SUFFICES ASSUME Syncing PROVE /\ currentHeight' + Len(headers') <= Len(chain')
                                      /\ \A h \in 0 .. currentHeight' - 1 : BlockScanned(h)'
      BY <1>1 DEF engineVars, Syncing
    <3>1. /\ currentHeight + Len(headers) <= Len(chain)
          /\ \A h \in 0 .. currentHeight - 1 : BlockScanned(h)
      BY DEF RepairInv, Passed
    <3>2. currentHeight' = currentHeight /\ headers' = headers
      BY <1>1 DEF engineVars, heightVars, scanVars
    <3> QED BY <1>2, <1>5, <1>6, <3>1, <3>2
  <2>3. \A i \in 1 .. Len(headers') : headers'[i] = chain'[currentHeight' + i]
    <3>1. Syncing \/ headers = <<>>
      BY DEF TypeInv, InBlock
    <3>2. currentHeight + Len(headers) <= Len(chain) \/ headers = <<>>
      BY <3>1 DEF RepairInv, Passed
    <3>3. \A i \in 1 .. Len(headers) : currentHeight + i \in 1 .. Len(chain)
      BY <1>2, <1>6, <3>2, EmptySequence
    <3>4. currentHeight' = currentHeight /\ headers' = headers
      BY <1>1 DEF engineVars, heightVars, scanVars
    <3>5. \A i \in 1 .. Len(headers) : headers[i] = chain[currentHeight + i]
      BY DEF RepairInv, Passed
    <3> QED BY <1>2, <3>3, <3>4, <3>5
  <2> QED BY <1>1, <2>1, <2>2, <2>3 DEF RepairInv, Passed, engineVars
<1>9. BlockInHand'
  <2> SUFFICES ASSUME InBlock PROVE BlockInHand'
    BY <1>1 DEF BlockInHand, InBlock, engineVars
  <2>1. /\ block = BlockAt(currentHeight) /\ currentHeight < Len(chain)
        /\ currentHeight \in 0 .. Len(chain) - 1
    BY <1>2, <1>6 DEF RepairInv, BlockInHand
  <2>2. UNCHANGED <<pc, currentHeight, block, todo, cur, outputs, txs>>
    BY <1>1 DEF engineVars, heightVars, scanVars, storeVars
  <2>3. \A t : (Handled(t)' <=> Handled(t)) /\ (Finished(t) => Finished(t)')
    BY <2>2 DEF Handled, InBlock, Finished, InTables, SpentBy
  <2>4. block' = BlockAt(currentHeight)' /\ currentHeight' < Len(chain')
    BY <1>2, <2>1, <2>2 DEF BlockAt
  <2> QED BY <2>2, <2>3, <2>4 DEF RepairInv, BlockInHand, InBlock
<1>10. TransactionInHand'
  BY <1>1 DEF RepairInv, TransactionInHand, SpentBy, engineVars, scanVars, storeVars
<1> QED BY <1>7, <1>8, <1>9, <1>10 DEF RepairInv

\* rescan() empties the tables while no sync is running.
LEMMA RepairRescanClear ==
    ASSUME GrowingChain, TypeInv, RepairInv, NEW n \in RescanHeights, RescanClear(n)
    PROVE  RepairInv'
<1>1. /\ ~Syncing /\ n = 0 /\ rescanCall' = [at |-> "setSyncHeight", from |-> n]
      /\ outputs' = NoOutputs /\ txs' = NoTransactions /\ hashes' = NoHashes
      /\ syncHeight' = 0 /\ UNCHANGED <<chain, engineVars>>
  BY DEF RescanClear, GrowingChain
<1>2. /\ pc = "idle" /\ ~InBlock /\ headers = <<>> /\ pc' = "idle" /\ ~InBlock' /\ ~Syncing'
      /\ headers' = <<>>
  BY <1>1 DEF TypeInv, InBlock, engineVars, scanVars, Syncing
<1>3. /\ \A k \in Keys : outputs'[k] = None
      /\ \A t \in Txs : txs'[t] = None
      /\ \A h \in Heights : hashes'[h] = None
  BY <1>1 DEF NoOutputs, NoTransactions, NoHashes
<1>4. TablesTrue'
  BY <1>3 DEF TablesTrue
<1>5. Len(chain') \in Nat /\ rescanCall'.from = 0 /\ Len(<<>>) = 0
  BY <1>1, BlocksOfChain, EmptySequence
<1>6. Passed'
  BY <1>1, <1>2, <1>5 DEF Passed
<1>7. BlockInHand' /\ TransactionInHand'
  BY <1>2 DEF BlockInHand, TransactionInHand
<1> QED BY <1>4, <1>6, <1>7 DEF RepairInv

\* The tip is never stale, so no rollback begins.
LEMMA NoRollback ==
    ASSUME GrowingChain, TypeInv, RepairInv
    PROVE  /\ ~TipDiffers /\ ~AncestorFound /\ ~AncestorLower /\ ~RollbackOutputs
           /\ ~RollbackTransactions /\ ~RollbackSpends /\ ~RollbackHashes
           /\ ~RollbackSyncHeight /\ ~RollbackFails /\ ~TransactionFails
<1>1. /\ pc \notin {"ancestor", "rollbackOutputs", "rollbackTxs", "rollbackSpends",
                    "rollbackHashes", "rollbackSync"}
      /\ \A h \in Heights : hashes[h] # None => h < Len(chain) /\ hashes[h] = BlockAt(h)
  BY DEF RepairInv, Passed, TablesTrue
<1>2. ~TipIsStale
  <2>1. TipIsStale => TipHeight \in Heights
    BY BlocksOfChain, StoreAssumption
       DEF TipIsStale, TipHeight, HasBlock, TypeInv, TypeOK, Heights
  <2> QED BY <1>1, <2>1 DEF TipIsStale, Differs, HasBlock
<1>3. ~TransactionFails
  BY DEF TransactionFails, GrowingChain
<1> QED BY <1>1, <1>2, <1>3 DEF TipDiffers, AncestorFound, AncestorLower, RollbackOutputs,
        RollbackTransactions, RollbackSpends, RollbackHashes, RollbackSyncHeight, RollbackFails

\* Every step of the engine keeps RepairInv.
LEMMA RepairEngine ==
    ASSUME GrowingChain, OneLedger, TypeInv, RepairInv, EngineStep
    PROVE  RepairInv'
<1>1. CASE \/ GetInfo \/ TipMatches \/ SyncEnds \/ BatchDone \/ SaveSyncHeight \/ Recheck
  BY <1>1, RepairWaits
<1>2. CASE \/ GetInfoFails \/ GetBlockFails \/ StoreFails
           \/ \E n \in 1 .. MaxBatch : GetHeadersFails(n)
  <2>1. Fail
    BY <1>2 DEF GetInfoFails, GetBlockFails, StoreFails, GetHeadersFails
  <2> QED BY <2>1, RepairWaits
<1>3. CASE \E n \in 1 .. MaxBatch : GetHeaders(n)
  BY <1>3, RepairGetHeaders
<1>4. CASE GetBlock \/ GetTransactions \/ PutHash
  BY <1>4, RepairGetBlock, RepairGetTransactions, RepairPutHash
<1>5. CASE \E t \in Txs : SkipTransaction(t) \/ TakeTransaction(t)
  BY <1>5, RepairSkipTransaction, RepairTakeTransaction
<1>6. CASE (\E o \in Outs : PutOwnedOutput(o)) \/ (\E k \in Keys : CheckInput(k))
  BY <1>6, RepairPutOwnedOutput, RepairCheckInput
<1>7. CASE MarkInput \/ RecordTransaction
  BY <1>7, RepairMarkInput, RepairRecordTransaction
<1>8. CASE \/ TipDiffers \/ AncestorFound \/ AncestorLower \/ RollbackOutputs
           \/ RollbackTransactions \/ RollbackSpends \/ RollbackHashes
           \/ RollbackSyncHeight \/ RollbackFails \/ TransactionFails
  BY <1>8, NoRollback
<1> QED BY <1>1, <1>2, <1>3, <1>4, <1>5, <1>6, <1>7, <1>8 DEF EngineStep

\* ... and so does every step of a caller, the daemon's, a crash and a stutter.
LEMMA RepairStep ==
    ASSUME GrowingChain, OneLedger, TypeInv, RepairInv, [Next]_vars
    PROVE  RepairInv'
<1>1. CASE EngineStep
  BY <1>1, RepairEngine
<1>2. CASE \E n \in RescanHeights : RescanClear(n)
  BY <1>2, RepairRescanClear
<1>3. CASE \/ \E n \in StartHeights \union {None} : Start(n)
           \/ RescanSetHeight \/ RescanStart \/ Stop \/ Crash \/ UNCHANGED vars
  BY <1>3, RepairWaits
<1>4. CASE ChainMoves
  BY <1>4, RepairChainMoves
<1> QED BY <1>1, <1>2, <1>3, <1>4 DEF Next, CallerStep

\* A new wallet has nothing stored and nothing scanned.
LEMMA InitRepairInv == Init => RepairInv
<1> SUFFICES ASSUME Init PROVE RepairInv
  OBVIOUS
<1>1. /\ pc = "idle" /\ ~InBlock /\ ~Syncing /\ syncHeight = 0 /\ headers = <<>>
      /\ Len(<<>>) = 0 /\ rescanCall.from = 0
      /\ \A k \in Keys : outputs[k] = None
      /\ \A t \in Txs : txs[t] = None
      /\ \A h \in Heights : hashes[h] = None
  BY EmptySequence DEF Init, InBlock, Syncing, NoRescan, NoOutputs, NoTransactions, NoHashes
<1>2. Len(chain) \in Nat
  BY ChainFacts, LenProperties DEF Init
<1> QED BY <1>1, <1>2 DEF RepairInv, TablesTrue, Passed, BlockInHand, TransactionInHand

\* A transaction is on the best chain at one height.
LEMMA OnChainOnce ==
    ASSUME OneLedger, TypeInv, NEW t, NEW h, OnChain(t, h)
    PROVE  HeightOf(t) = h /\ h \in Nat
<1>1. /\ chain \in Chains /\ DOMAIN chain = 1 .. Len(chain) /\ Len(chain) \in Nat
      /\ h \in 0 .. Len(chain) - 1 /\ t \in TxsIn[chain[h + 1]]
  BY BlocksOfChain DEF OnChain, BlockAt
<1>2. ASSUME NEW g \in 0 .. Len(chain) - 1, t \in TxsIn[chain[g + 1]] PROVE g = h
  <2>1. g + 1 \in DOMAIN chain /\ h + 1 \in DOMAIN chain
    BY <1>1
  <2>2. g + 1 = h + 1
    BY <1>1, <1>2, <2>1 DEF OneLedger
  <2> QED BY <1>1, <2>2
<1> QED BY <1>1, <1>2 DEF HeightOf, BlockAt

\* When no sync is running, the outputs and the spends below the saved height are the
\* best chain's, and so is every stored hash.
LEMMA RepairIsExact ==
    ASSUME OneLedger, TypeInv, RepairInv
    PROVE  HashesExact /\ OutputsExact /\ SpendsExact
<1> SUFFICES ASSUME AgreesOnTip PROVE HashesExact /\ OutputsExact /\ SpendsExact
  BY DEF HashesExact, OutputsExact, SpendsExact
<1>1. /\ syncHeight \in Nat /\ syncHeight <= Len(chain) /\ Len(chain) \in Nat
      /\ \A h \in 0 .. syncHeight - 1 : BlockScanned(h)
  BY BlocksOfChain DEF RepairInv, Passed
<1>2. ASSUME NEW t
      PROVE  /\ t \in TxsBelow(syncHeight) =>
                   t \in Txs /\ Finished(t) /\ OnChain(t, HeightOf(t)) /\ HeightOf(t) < syncHeight
             /\ \A h : OnChain(t, h) /\ h < syncHeight => t \in TxsBelow(syncHeight)
  <2>1. ASSUME t \in TxsBelow(syncHeight)
        PROVE  t \in Txs /\ Finished(t) /\ OnChain(t, HeightOf(t)) /\ HeightOf(t) < syncHeight
    <3>1. PICK h \in 0 .. syncHeight - 1 : t \in TxsIn[BlockAt(h)]
      BY <2>1 DEF TxsBelow, Prefix
    <3>2. h \in 0 .. Len(chain) - 1 /\ h < syncHeight
      BY <1>1
    <3>3. OnChain(t, h)
      BY <3>1, <3>2 DEF OnChain
    <3>4. t \in Txs /\ Finished(t)
      BY <1>1, <3>1, <3>2, BlocksOfChain DEF BlockScanned
    <3> QED BY <3>2, <3>3, <3>4, OnChainOnce
  <2>2. ASSUME NEW h, OnChain(t, h), h < syncHeight PROVE t \in TxsBelow(syncHeight)
    <3>1. h \in 0 .. syncHeight - 1 /\ t \in TxsIn[BlockAt(h)]
      BY <1>1, <2>2 DEF OnChain
    <3> QED BY <3>1 DEF TxsBelow, Prefix
  <2> QED BY <2>1, <2>2
<1>3. HashesExact
  BY <1>1 DEF HashesExact, BlockScanned
<1>4. OutputsExact
  <2> DEFINE kept == {k \in Keys : outputs[k] # None /\ outputs[k].blockHeight < syncHeight}
  <2>1. ASSUME NEW k \in kept
        PROVE  <<outputs[k].out, outputs[k].blockHeight>> \in PaidBelow(syncHeight)
    <3>1. PICK t \in Txs : outputs[k].out \in Creates[t] /\ OnChain(t, outputs[k].blockHeight)
      BY DEF RepairInv, TablesTrue, PaymentTrue
    <3>2. outputs[k].blockHeight = HeightOf(t) /\ t \in TxsBelow(syncHeight)
      BY <1>2, <3>1, OnChainOnce
    <3> QED BY <3>1, <3>2 DEF PaidBelow
  <2>2. ASSUME NEW t \in TxsBelow(syncHeight), NEW o \in Creates[t]
        PROVE  \E k \in kept : <<o, HeightOf(t)>> = <<outputs[k].out, outputs[k].blockHeight>>
    <3>1. /\ t \in Txs /\ InTables(t) /\ HeightOf(t) < syncHeight
          /\ OnChain(t, HeightOf(t))
      BY <1>2 DEF Finished
    <3>2. o \in Outs /\ KeyOf[o] \in Keys
      BY <3>1, WalletAssumption
    <3> DEFINE k == KeyOf[o]
    <3>3. outputs[k] # None
      BY <3>1 DEF InTables
    <3>4. /\ KeyOf[outputs[k].out] = k /\ outputs[k].out \in Outs
      BY <3>2, <3>3, RecordTypes DEF RepairInv, TablesTrue, PaymentTrue
    <3>5. outputs[k].out = o
      BY <3>2, <3>4 DEF OneLedger
    <3>6. PICK u \in Txs : outputs[k].out \in Creates[u] /\ OnChain(u, outputs[k].blockHeight)
      BY <3>2, <3>3 DEF RepairInv, TablesTrue, PaymentTrue
    <3>7. u = t
      BY <3>1, <3>5, <3>6 DEF OneLedger
    <3>8. outputs[k].blockHeight = HeightOf(t)
      BY <3>6, <3>7, OnChainOnce
    <3> QED BY <3>1, <3>2, <3>3, <3>5, <3>8
  <2>3. \A x : x \in PaidBelow(syncHeight) <=>
           \E t \in TxsBelow(syncHeight) : \E o \in Creates[t] : x = <<o, HeightOf(t)>>
    BY DEF PaidBelow
  <2>4. {<<outputs[k].out, outputs[k].blockHeight>> : k \in kept} = PaidBelow(syncHeight)
    <3> HIDE DEF kept
    <3> QED BY <2>1, <2>2, <2>3
  <2> QED BY <2>4 DEF OutputsExact
<1>5. SpendsExact
  <2> SUFFICES ASSUME NEW k \in Keys, outputs[k] # None
               PROVE  LET spent == outputs[k].isSpent /\ outputs[k].spentHeight < syncHeight IN
                      IF SpendersOf(k, syncHeight) = {} THEN ~spent
                      ELSE /\ spent
                           /\ outputs[k].spentTx \in SpendersOf(k, syncHeight)
                           /\ outputs[k].spentHeight = HeightOf(outputs[k].spentTx)
    BY DEF SpendsExact
  <2>1. ASSUME outputs[k].isSpent
        PROVE  /\ k \in Spends[outputs[k].spentTx]
               /\ OnChain(outputs[k].spentTx, outputs[k].spentHeight)
               /\ outputs[k].spentHeight = HeightOf(outputs[k].spentTx)
    BY <2>1, OnChainOnce DEF RepairInv, TablesTrue, SpendTrue
  <2>2. ASSUME outputs[k].isSpent, outputs[k].spentHeight < syncHeight
        PROVE  outputs[k].spentTx \in SpendersOf(k, syncHeight)
    BY <1>2, <2>1, <2>2 DEF SpendersOf
  <2>3. ASSUME NEW t \in SpendersOf(k, syncHeight)
        PROVE  outputs[k].isSpent /\ outputs[k].spentTx = t /\ HeightOf(t) < syncHeight
    BY <1>2 DEF SpendersOf, Finished, InTables, SpentBy
  <2> QED BY <2>1, <2>2, <2>3
<1> QED BY <1>3, <1>4, <1>5

\* What a later sync repairs.  Whatever request, storage call or process failed at
\* any await before, and after stop() and rescan(), the outputs and spends of a wallet
\* whose stored tip is on the best chain are exact, and so are its hashes, as long as
\* the chain grows and no transaction is given up half way (the catch of start(),
\* setSyncHeight once per batch, getTransaction's skip of what is recorded and
\* putTransaction as the last write of a transaction).
THEOREM FaultsAreRepaired ==
    ASSUME GrowingChain, OneLedger
    PROVE  Spec => [](HashesExact /\ OutputsExact /\ SpendsExact)
<1> DEFINE Inv == TypeInv /\ RepairInv
<1>1. Init => Inv
  BY InitTypeInv, InitRepairInv
<1>2. Inv /\ [Next]_vars => Inv'
  BY NextTypeInv, RepairStep
<1>3. Inv => HashesExact /\ OutputsExact /\ SpendsExact
  BY RepairIsExact
<1> QED BY <1>1, <1>2, <1>3, PTL DEF Spec
=============================================================================
