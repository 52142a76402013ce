----------------------------- MODULE MCLibrary -----------------------------
(***************************************************************************)
(* The sync engine of MCWalletSync and, side by side with it, components of  *)
(* the library that keep state of their own: side says which of them moves.  *)
(***************************************************************************)
EXTENDS MCWalletSync, PlainWallet, Addresses, Oracle, Admission, Mining, Curve

CONSTANTS Sides, w1, w2, w3

VARIABLE side

\* PlainWallet: w1 is an output that the program gives the wallet itself, w2 is
\* paid by a transaction and w3 by a miner transaction.
PlainTx(pays, spends) == [pays |-> pays, spends |-> spends]
Coins(id) == [id |-> id, asset |-> "SAL"]
MCDaemonBlocks == <<
    [miner |-> PlainTx(<<>>, {}), tx |-> PlainTx(<<>>, {})],
    [miner |-> PlainTx(<<>>, {}), tx |-> PlainTx(<<>>, {w1})],
    [miner |-> PlainTx(<<>>, {}), tx |-> PlainTx(<<Coins(w2)>>, {})],
    [miner |-> PlainTx(<<Coins(w3)>>, {}), tx |-> PlainTx(<<>>, {w1})]>>
MCHanded == {[id |-> w1, asset |-> "VSD"]}

\* Addresses: bytes of eight values, five characters, and three lists of words
\* that share some of them.
MCSizes == <<0, 2, 3>>
MCPrefixes ==
    LET places == <<"legacy", "carrot">> types == <<"standard", "integrated", "subaddress">>
        nets == <<"mainnet", "testnet">>
    IN [p \in ToSet(nets) \X ToSet(places) \X ToSet(types) |->
          (37 * (CHOOSE i \in 1 .. 2 : nets[i] = p[1])) + (7 * (CHOOSE i \in 1 .. 2 : places[i] = p[2]))
            + (CHOOSE i \in 1 .. 3 : types[i] = p[3]) - 42]
MCIds == {<<0>>, <<7>>}
MCLanguages == <<<<1, 2, 3, 4, 5>>, <<4, 5, 6, 7, 8>>, <<11, 6, 12, 1, 13>>>>
MCSeeds == {<<0, 0, 0, 0>>, <<1, 0, 0, 6>>, <<7, 3, 2, 5>>, <<4, 7, 1, 1>>, <<7, 7, 7, 7>>}
MCTexts == UNION {[1 .. n -> 0 .. 4] : n \in 0 .. 4}
    \union {<<a, b, c, d, e, f>> : a \in {3}, b \in 0 .. 4, c \in 2 .. 4, d \in {0}, e \in 0 .. 1, f \in {4}}

\* Admission: forks at other heights in each network, transactions at the limits.
MCForkHeights ==
    [mainnet |-> (1 :> 1) @@ (2 :> 3) @@ (5 :> 4) @@ (10 :> 5),
     testnet |-> (1 :> 1) @@ (2 :> 1) @@ (5 :> 2) @@ (10 :> 3),
     stagenet |-> (1 :> 1) @@ (2 :> 2) @@ (5 :> 2) @@ (10 :> 4)]
MCLockPeriods == [mainnet |-> 3, testnet |-> 2, stagenet |-> 2]
Draft(weight, size, extra, outs, ring) ==
    [weight |-> weight, size |-> size, extra |-> extra, outputs |-> outs, ring |-> ring]
MCDrafts ==
    {Draft(w, w, 0, 1, 2) : w \in {1, 3, 5, 8}}
        \union {Draft(5, 9, 0, 1, 2), Draft(3, 3, 4, 1, 2), Draft(3, 3, 0, 3, 2), Draft(3, 3, 0, 0, 1)}
MCMinerTxs ==
    [inputs : {<<>>, <<1>>, <<2>>, <<2, 2>>}, version : {1, 2, 4}, type : {"miner", "transfer"},
     amounts : {<<5>>, <<13, 3>>, <<40, 1>>, <<9, 9, 9>>, <<12, 29>>}]
MCTimeSteps == {-2, 0, 1, 2}

\* Mining: versions and times of one byte and of two, up to three transactions.
MCTemplates ==
    [major : {1, 5}, minor : {0, 6}, time : {3, 20}, prev : {<<6>>}, nonce : {0}, extra : {<<0>>, <<0, 0>>},
     txs : {<<>>, <<1, 2>>, <<1, 2, 3>>}, seed : {7}]
MCExtraNonces == {<<0>>, <<5>>, <<5, 3>>}
MCTxLists == UNION {[1 .. n -> {1, 2}] : n \in 0 .. 5}

libraryVars == <<side, vars, plainVars, addressVars, oracleVars, admissionVars, miningVars, curveVars>>

\* The sides that stand still.
OtherSides(s) ==
    /\ s # "engine" => UNCHANGED vars
    /\ s # "plain" => UNCHANGED plainVars
    /\ s # "addresses" => UNCHANGED addressVars
    /\ s # "oracle" => UNCHANGED oracleVars
    /\ s # "admission" => UNCHANGED admissionVars
    /\ s # "mining" => UNCHANGED miningVars
    /\ s # "curve" => UNCHANGED curveVars

LibraryInit ==
    /\ side \in Sides
    /\ Init /\ (side # "engine" => chain = <<g, a1>>)
    /\ PlainInit /\ (side # "plain" => plain.kind = "full" /\ plain.uses = {"sync", "fromJSON"})
    /\ IF side = "addresses" THEN AddressInit ELSE desk = [kind |-> "text", text |-> <<>>]
    /\ IF side = "oracle" THEN OracleInit ELSE quote = Quote(EmptyPricingRecord)
    /\ IF side = "admission" THEN AdmissionInit ELSE gate = MinerCase(CHOOSE t \in MinerTxs : TRUE)
    /\ IF side = "mining" THEN MiningInit ELSE job = [kind |-> "list", txs |-> <<>>]
    /\ IF side = "curve" THEN CurveInit ELSE spot = [bytes |-> 1, position |-> 0]

LibraryNext ==
    /\ \/ side = "engine" /\ SmoothStep
       \/ side = "plain" /\ PlainNext
       \/ side = "addresses" /\ AddressNext
       \/ side = "oracle" /\ OracleNext
       \/ side = "admission" /\ AdmissionNext
       \/ side = "mining" /\ MiningNext
       \/ side = "curve" /\ CurveNext
       \/ side # "engine" /\ UNCHANGED libraryVars   \* at its bounds
    /\ OtherSides(side) /\ UNCHANGED side

LibrarySpec == LibraryInit /\ [][LibraryNext]_libraryVars

LibraryTypeOK == PlainTypeOK /\ AddressTypeOK /\ OracleTypeOK /\ AdmissionTypeOK /\ MiningTypeOK
                 /\ CurveTypeOK

\* What a component promises, of the states in which it moves.  Keys: what is read,
\* written and computed of them is the same on every way to it.
KeysHold == (side = "addresses" => AddressesHold) /\ (side = "curve" => CurveHolds)
\* Mining: what is searched is what is submitted.
TemplatesHold == side = "mining" => MiningHolds
=============================================================================
