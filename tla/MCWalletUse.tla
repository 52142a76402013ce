----------------------------- MODULE MCWalletUse -----------------------------
(***************************************************************************)
(* Two ways to use the wallet of MCPersistentWallet, side by side: calls     *)
(* that wait for each other, and background synchronisation with calls of   *)
(* startSyncing() and stopSyncing() at any time.                           *)
(***************************************************************************)
EXTENDS MCPersistentWallet

VARIABLE use

Called == INSTANCE PersistentWallet WITH
    Events <- {"reorgIdle", "rescan"}, Overlap <- FALSE,
    Calls <- {"sync", "getBalance", "freezeOutput", "thawOutput",
              "setTransactionNote"}

Background == INSTANCE PersistentWallet WITH
    Events <- {"reorgIdle", "reorgBusy"}, Overlap <- TRUE,
    Calls <- {"startSyncing", "stopSyncing"}

UseInit == WalletInit /\ use \in {"calls", "background"}

UseNext ==
    /\ \/ use = "calls" /\ Called!WalletNext
       \/ use = "background" /\ Background!WalletNext
    /\ UNCHANGED use

\* The fairness of WalletFairSpec for the background use.
UseSpec ==
    /\ UseInit /\ [][UseNext]_<<allVars, use>>
    /\ WF_allVars(use = "background" /\ Background!WalletEngineStep)
    /\ WF_allVars(use = "background" /\ Background!TimerFires)

\* Through calls that read, wait and write back, the spends stay exact, and when calls
\* do not overlap a cache that is not marked dirty is the balance of the stored outputs
\* (SpendsExact of WalletSync, BalanceFresh of PersistentWallet).
CallsHold == use = "calls" => BalanceFresh /\ SpendsExact

\* The background synchronisation catches up (BackgroundCatchesUp of
\* PersistentWallet).
UseCatchesUp == use = "background" => BackgroundCatchesUp
=============================================================================
