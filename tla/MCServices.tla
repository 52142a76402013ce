----------------------------- MODULE MCServices -----------------------------
(***************************************************************************)
(* The components that keep state of their own and do not share it, checked  *)
(* side by side: part says which of them moves.                            *)
(***************************************************************************)
EXTENDS StratumClient, StratumMiner, RpcClient, Failover, Multisig, MCAltChains,
        NativeMiner, Testnet, TxBuilder, ChainRules, Enotes, MCCodec, Spending

CONSTANTS Parts, mj1, mj2, seedA, seedB, u1, u2, u3, p1, p2, p3

VARIABLE part

\* StratumMiner, RpcClient and Failover.
MCSeedOf == [j \in {mj1, mj2} |-> IF j = mj1 THEN seedA ELSE seedB]
MCThreeUrls == <<u1, u2, u3>>
MCTwoUrls == <<u1, u2>>
MCUnknown == -1
MCPriority == [u \in Connections |-> 1]

\* TxBuilder: three outputs to spend, two decoys, random numbers.
MCPurse == [o \in {p1, p2, p3} |->
    CASE o = p1 -> [x |-> 5, y |-> 0, mask |-> 9, amount |-> 20]
      [] o = p2 -> [x |-> 11, y |-> 0, mask |-> 1, amount |-> 12]
      [] o = p3 -> [x |-> 7, y |-> 0, mask |-> 4, amount |-> 6]]
MCDecoys == <<[key |-> 6, commitment |-> 17], [key |-> 13, commitment |-> 28]>>
MCRandom == {<<8, 23, 2, 19, 30, 7, 11, 3>>, <<26, 4, 14, 21, 9, 29, 1, 16>>}

\* ChainRules: a block that is too early and one that is late, all the forks.
MCTimes == {-5, 160}
MCForks == <<1, 2, 3, 3, 3, 4, 4, 4, 4, 5>>

servicesVars ==
    <<part, stratumVars, minerVars, rpcVars, managerState, kexVars, vars, nativeVars,
      testnetVars, txVars, rulesVars, enotesVars, codecVars, spendVars>>

\* The parts that stand still.
Others(p) ==
    /\ p # "pool" => UNCHANGED stratumVars
    /\ p # "miner" => UNCHANGED minerVars
    /\ p # "rpc" => UNCHANGED rpcVars
    /\ p # "manager" => UNCHANGED managerState
    /\ p # "kex" => UNCHANGED kexVars
    /\ p # "chain" => UNCHANGED vars
    /\ p # "native" => UNCHANGED nativeVars
    /\ p # "testnet" => UNCHANGED testnetVars
    /\ p # "tx" => UNCHANGED txVars
    /\ p # "rules" => UNCHANGED rulesVars
    /\ p # "enotes" => UNCHANGED enotesVars
    /\ p # "codec" => UNCHANGED codecVars
    /\ p # "purse" => UNCHANGED spendVars

ServicesInit ==
    /\ part \in Parts
    /\ StratumInit /\ MinerInit /\ RpcInit /\ ManagerInit /\ KexInit /\ Init /\ NativeInit
    /\ TestnetInit /\ TxInit /\ RulesInit /\ EnotesInit /\ CodecInit /\ SpendInit
    /\ part # "miner" => mode = "light"
    /\ part # "native" => front = "ipc" /\ memory = "full"

ServicesNext ==
    /\ \/ part = "pool" /\ StratumNext
       \/ part = "miner" /\ MinerNext
       \/ part = "rpc" /\ RpcNext
       \/ part = "manager" /\ ManagerNext
       \/ part = "kex" /\ KexNext
       \/ part = "chain" /\ Next
       \/ part = "native" /\ NativeNext
       \/ part = "testnet" /\ TestnetNext
       \/ part = "tx" /\ TxNext
       \/ part = "rules" /\ RulesNext
       \/ part = "enotes" /\ EnotesNext
       \/ part = "codec" /\ CodecNext
       \/ part = "purse" /\ SpendNext
    /\ Others(part)
    /\ UNCHANGED part

ServicesSpec == ServicesInit /\ [][ServicesNext]_servicesVars
FairServicesSpec == ServicesSpec /\ StratumFairness /\ RpcFairness /\ NativeFairness

-----------------------------------------------------------------------------
\* The types of the part that moves (the others stay as they start); the types of
\* AltChains are TypeOK.
ServicesTypeOK ==
    /\ part = "pool" => StratumTypeOK
    /\ part = "miner" => MinerTypeOK
    /\ part = "rpc" => RpcTypeOK
    /\ part = "manager" => ManagerTypeOK
    /\ part = "kex" => KexTypeOK
    /\ part = "native" => NativeTypeOK
    /\ part = "testnet" => TestnetTypeOK
    /\ part = "tx" => TxTypeOK
    /\ part = "rules" => RulesTypeOK
    /\ part = "enotes" => EnotesTypeOK
    /\ part = "codec" => CodecTypeOK
    /\ part = "purse" => SpendTypeOK
=============================================================================
