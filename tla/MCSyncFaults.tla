---------------------------- MODULE MCSyncFaults ----------------------------
(***************************************************************************)
(* Four regimes of faults over the instance of MCWalletSync, side by side.  *)
(* A regime is an instance of WalletSync that differs in the events it may   *)
(* meet; the two with many kinds of events have the chains of height 3, in    *)
(* the storms those that fork at the tip, and the chain of the first, which   *)
(* does not move, is one of the highest.                                     *)
(***************************************************************************)
EXTENDS MCWalletSync

VARIABLE regime

\* The chains of height 3 that reach their last block.
ForkedChains == TinyChains \ {<<g, a1>>}

\* What a later sync must repair.
Faults == INSTANCE WalletSync WITH
    Events <- {"rpcError", "storeError", "crash", "stop", "rescan"}, StartHeights <- {}

\* Whatever may happen together, an explicit start height included.
Storms == INSTANCE WalletSync WITH
    Events <- {"reorgBusy", "storeError", "crash", "rescanBusy"}, StartHeights <- {2}

\* What the in-memory tables must survive: batches that are interrupted, ...
Tables == INSTANCE WalletSync WITH
    Events <- {"reorgIdle", "reorgBusy", "rpcError", "txsError", "stop"},
    StartHeights <- {}, Backend <- "memory"

\* ... and transactions that are given up half way.
Losses == INSTANCE WalletSync WITH
    Events <- {"reorgIdle", "txsError", "txError"},
    StartHeights <- {}, Backend <- "memory"

FaultsInit ==
    /\ regime \in {"faults", "storms", "tables", "losses"}
    /\ Init
    /\ CASE regime = "faults" -> Len(chain) = MaxHeight
         [] regime = "storms" -> chain \in ForkedChains
         [] regime = "tables" -> chain \in TinyChains
         [] regime = "losses" -> TRUE

FaultsNext ==
    /\ \/ regime = "faults" /\ Faults!Next
       \/ regime = "storms" /\ Storms!Next /\ chain' \in ForkedChains
       \/ regime = "tables" /\ Tables!Next /\ chain' \in TinyChains
       \/ regime = "losses" /\ Losses!Next
    /\ UNCHANGED regime

FaultsSpec == FaultsInit /\ [][FaultsNext]_<<vars, regime>>

-----------------------------------------------------------------------------
\* After a failed RPC or storage call, a stop or a crash at any await, and after
\* rescan(), the outputs and the spends are exact again as soon as the stored tip is
\* on the best chain, and so are the hashes.
RepairsTables == regime = "faults" => HashesExact /\ OutputsExact /\ SpendsExact

\* The hashes cover the saved height and the two tables of spent key images
\* agree in a wallet whose storage does not fail: whatever the daemon does, when no
\* transaction is given up; and when some are, as long as no batch is interrupted
\* (a transaction given up half way is processed again by the next sync).
TablesAgree == regime \in {"tables", "losses"} => HashesCoverSync /\ SpentKeysAgree
=============================================================================
