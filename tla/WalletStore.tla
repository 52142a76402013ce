---------------------------- MODULE WalletStore ----------------------------
(***************************************************************************)
(* The wallet's storage layer (src/wallet-store.js, MemoryStorage and       *)
(* IndexedDBStorage) as operators on its tables.  A table is a total        *)
(* function from its keys to a record or None; the operators return the     *)
(* table after the call.                                                    *)
(*                                                                         *)
(*   outputs     Keys    -> output record | None      (_outputs)            *)
(*   txs         Txs     -> transaction record | None (_transactions)       *)
(*   hashes      Heights -> block hash | None         (_blockHashes)        *)
(*   spentKeys   a subset of Keys                     (_spentKeyImages, or  *)
(*               the entries of the keyImages store with isSpent)           *)
(*                                                                         *)
(* Amounts, masks, subaddress indices and timestamps are not recorded: no   *)
(* storage operation used by the sync engine reads them.                    *)
(***************************************************************************)
EXTENDS Naturals

CONSTANTS
    Outs,       \* the wallet's one-time outputs, wherever they are on a chain
    Keys,       \* the storage keys of outputs: their key images
    Txs,        \* hashes of the transactions that concern the wallet
    Hashes,     \* block hashes
    MaxHeight,  \* heights are 0 .. MaxHeight - 1 (bounds the tables)
    Backend,    \* which storage class is used, "memory" or "indexedDB"
    None        \* JavaScript's null / an absent Map entry

ASSUME BackendAssumption == Backend \in {"memory", "indexedDB"}

ASSUME StoreAssumption ==
    /\ MaxHeight \in Nat \ {0}
    /\ None \notin Txs \union Hashes \union Nat

Heights == 0 .. MaxHeight - 1

OutputRecord == [out : Outs, blockHeight : Heights, isSpent : BOOLEAN,
                 spentHeight : Heights \union {None},
                 spentTx : Txs \union {None}, isFrozen : BOOLEAN]

TxRecord == [blockHeight : Heights, received : SUBSET Outs, spent : SUBSET Keys]

\* null is no key image and no record.
ASSUME NoneAssumption == None \notin Keys \union OutputRecord \union TxRecord

\* A WalletOutput as _scanOutputs constructs it.
NewOutput(o, h) ==
    [out |-> o, blockHeight |-> h, isSpent |-> FALSE, spentHeight |-> None,
     spentTx |-> None, isFrozen |-> FALSE]

-----------------------------------------------------------------------------
\* putOutput: the record is stored under the key image, replacing what was
\* there.  MemoryStorage leaves the set of spent key images alone;
\* IndexedDBStorage writes the record's isSpent into the keyImages store.
PutOutput(outputs, k, rec) == [outputs EXCEPT ![k] = rec]

PutKeyState(spentKeys, k, isSpent) ==
    CASE Backend = "memory" -> spentKeys
      [] isSpent            -> spentKeys \union {k}
      [] OTHER              -> spentKeys \ {k}

\* markOutputSpent: nothing happens when the output is unknown.  IndexedDBStorage
\* reads the record, waits and writes it back, which is one step here.
MarkOutputSpent(outputs, k, t, h) ==
    IF outputs[k] = None THEN outputs
    ELSE [outputs EXCEPT ![k] = [@ EXCEPT !.isSpent = TRUE, !.spentTx = t,
                                          !.spentHeight = h]]

MarkKeySpent(spentKeys, outputs, k) ==
    IF outputs[k] = None THEN spentKeys ELSE spentKeys \union {k}

PutTransaction(txs, t, rec) == [txs EXCEPT ![t] = rec]

PutBlockHash(hashes, h, b) == [hashes EXCEPT ![h] = b]

\* Seeded fault: the block just above the common one is kept.
OutputsAbove_OffByOne(outputs, h) ==
    {k \in Keys : outputs[k] # None /\ outputs[k].blockHeight > h + 1}

\* The key images of the outputs a rollback to height h removes.
OutputsAbove(outputs, h) ==
    {k \in Keys : outputs[k] # None /\ outputs[k].blockHeight > h}

DeleteOutputsAbove(outputs, h) ==
    [k \in Keys |-> IF k \in OutputsAbove(outputs, h) THEN None ELSE outputs[k]]

DeleteTransactionsAbove(txs, h) ==
    [t \in Txs |-> IF txs[t] # None /\ txs[t].blockHeight > h THEN None ELSE txs[t]]

\* The key images of the outputs a rollback to height h marks unspent again.
SpentAbove(outputs, h) ==
    {k \in Keys : /\ outputs[k] # None
                  /\ outputs[k].isSpent
                  /\ outputs[k].spentHeight # None
                  /\ outputs[k].spentHeight > h}

UnspendOutputsAbove(outputs, h) ==
    [k \in Keys |->
        IF k \in SpentAbove(outputs, h)
        THEN [outputs[k] EXCEPT !.isSpent = FALSE, !.spentTx = None,
                                !.spentHeight = None]
        ELSE outputs[k]]

\* The spent key images after a rollback to height h.  IndexedDBStorage opens
\* its transaction on the outputs store alone: the keyImages entries stay.
UnspendKeysAbove(spentKeys, outputs, h) ==
    IF Backend = "memory" THEN spentKeys \ SpentAbove(outputs, h) ELSE spentKeys

\* Seeded fault: the common block's own hash goes too.
DeleteBlockHashesAbove_Inclusive(hashes, h) ==
    [i \in Heights |-> IF i >= h THEN None ELSE hashes[i]]

DeleteBlockHashesAbove(hashes, h) ==
    [i \in Heights |-> IF i > h THEN None ELSE hashes[i]]

\* clear(): every table is emptied.
NoOutputs == [k \in Keys |-> None]
NoTransactions == [t \in Txs |-> None]
NoHashes == [h \in Heights |-> None]
=============================================================================
