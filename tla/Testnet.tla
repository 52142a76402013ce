------------------------------- MODULE Testnet -------------------------------
(***************************************************************************)
(* The self-contained testnet of src/testnet: the in-memory node (node.js),  *)
(* the miner that fills blocks from its mempool (miner.js) and transfer() of *)
(* index.js with the selection of outputs (transaction/utxo.js) and of decoys *)
(* (transaction.js).                                                       *)
(*                                                                         *)
(* An output is the transaction that makes it and its place among that       *)
(* transaction's outputs; it has one key image, so the output stands for it. *)
(* A wallet synchronises at the start of a transfer, each caller with a wallet *)
(* object of its own: it then has every output of its keys in the blocks, but *)
(* not what was spent of them, because the node serves the transactions of    *)
(* users as JSON, and the wallet looks for spent outputs in JSON only when it *)
(* is the protocol's.  Heights, ages and rings are small; the time is before  *)
(* the CARROT fork; proof of work, keys and signatures are left out.         *)
(***************************************************************************)
EXTENDS Integers, Sequences, FiniteSets, SequencesExt

CONSTANTS
    MinerWallet, Wallets,   \* the miner's keys are those of one of the wallets
    Callers,                \* whoever may have a call of transfer() under way
    Reward, Amounts, Fee,   \* of a block, of a transfer
    UnlockWindow,           \* CRYPTONOTE_MINED_MONEY_UNLOCK_WINDOW, 60 in the code
    SpendableAge,           \* CRYPTONOTE_DEFAULT_TX_SPENDABLE_AGE, 10 in the code
    RingSize, MaxInputs,    \* 16 and 16 in the code
    MaxBlocks, MaxTransfers, MaxMempool  \* bounds

ASSUME TestnetAssumption ==
    /\ MinerWallet \in Wallets /\ Amounts \subseteq Nat \ {0}
    /\ Reward \in Nat /\ Fee \in Nat /\ UnlockWindow \in Nat /\ SpendableAge \in Nat \ {0}
    /\ RingSize \in Nat \ {0} /\ MaxInputs \in Nat \ {0}
    /\ MaxBlocks \in Nat /\ MaxTransfers \in Nat /\ MaxMempool \in Nat

VARIABLES
    blocks,         \* for each height the user transactions, as in tx_hashes
    mempool,        \* this.mempool
    globalOutputs,  \* this.globalOutputs: the output and its height
    spentImages,    \* this.spentKeyImages
    transfers,      \* the transactions built: their inputs, rings and outputs
    calls           \* transfer() of each caller: "none", "preparing", "mining"

testnetVars == <<blocks, mempool, globalOutputs, spentImages, transfers, calls>>

NoTransferCall ==
    [at |-> "none", from |-> MinerWallet, ins |-> <<>>, to |-> MinerWallet, amount |-> 0]
Coinbase(h) == -1 - h    \* the miner transaction of height h; the n-th transfer is n

OutputsOf(tx) ==
    IF tx < 0 THEN <<[owner |-> MinerWallet, amount |-> Reward]>> ELSE transfers[tx].outs

NewOutputs(tx, h) ==
    [i \in 1..Len(OutputsOf(tx)) |-> [tx |-> tx, place |-> i - 1, height |-> h]]

-----------------------------------------------------------------------------
(* The node's answers. *)

\* getOutputDistribution at height h: how many outputs there are up to there.
OutputsUpTo(h) ==
    Cardinality({i \in DOMAIN globalOutputs : globalOutputs[i].height <= h})

\* getGlobalIndex; -1 if there is no such output.
GlobalIndex(o) ==
    LET At == {i \in DOMAIN globalOutputs :
                  globalOutputs[i].tx = o.tx /\ globalOutputs[i].place = o.place}
    IN IF At = {} THEN -1 ELSE (CHOOSE i \in At : \A j \in At : i <= j) - 1

\* getOuts at one index.
OutAt(index) == globalOutputs[index + 1]

-----------------------------------------------------------------------------
(* Selection. *)

Amount(o) == OutputsOf(o.tx)[o.place + 1].amount
Owner(o) == OutputsOf(o.tx)[o.place + 1].owner

\* What transfer() takes for spendable: isSpent is set by nothing that this node
\* serves, so what was spent is offered again.
Spendable(w) ==
    {o \in ToSet(globalOutputs) : Owner(o) = w /\ Len(blocks) - o.height >= UnlockWindow}

\* The transaction of the output has a public key where transfer() looks for it:
\* a miner's has, one of buildTransaction has it under prefix.
HasTxPubKey(o) == o.tx < 0

Total(s) == FoldSeq(LAMBDA o, sum : Amount(o) + sum, 0, s)

\* selectUTXOs, the largest first: the shortest prefix of a sorted list that
\* reaches the target within the greatest number of inputs.
Selections(w, target) ==
    {s \in UNION {[1..n -> Spendable(w)] : n \in 1..MaxInputs} :
        /\ IsInjective(s)
        /\ \A i \in DOMAIN s : \A o \in Spendable(w) :
              Amount(o) > Amount(s[i]) => o \in ToSet(SubSeq(s, 1, i))
        /\ Total(s) >= target
        /\ Total(Front(s)) < target}

\* GammaPicker: the outputs of the blocks up to numRctOutputs.
Pickable == 0..OutputsUpTo(Len(blocks) - SpendableAge) - 1

\* selectDecoys: RingSize indices in ascending order, the real one among them;
\* it throws when there are too few blocks or outputs.
Rings(real) ==
    IF Len(blocks) <= SpendableAge THEN {}
    ELSE {r \in SUBSET (Pickable \union {real}) : Cardinality(r) = RingSize /\ real \in r}

\* The members of a ring as the sequence that is written down.
Ascending(S) ==
    CHOOSE s \in [1..Cardinality(S) -> S] : \A i, j \in DOMAIN s : i < j => s[i] < s[j]

\* indicesToOffsets and offsetsToIndices.
Offsets(indices) ==
    [i \in DOMAIN indices |-> IF i = 1 THEN indices[1] ELSE indices[i] - indices[i - 1]]
Indices(offsets) ==
    LET current[i \in 1..Len(offsets)] ==
            IF i = 1 THEN offsets[1] ELSE current[i - 1] + offsets[i]
    IN [i \in 1..Len(offsets) |-> current[i]]

-----------------------------------------------------------------------------
(* The steps. *)

TestnetInit ==
    /\ blocks = <<>> /\ mempool = <<>> /\ globalOutputs = <<>> /\ spentImages = {}
    /\ transfers = <<>> /\ calls = [k \in Callers |-> NoTransferCall]

OutputImage(o) == [tx |-> o.tx, place |-> o.place]

\* The key images that the transactions of a block spend.
ImagesOf(txs) == UNION {{OutputImage(o) : o \in ToSet(transfers[n].ins)} : n \in ToSet(txs)}

\* mineBlock: the mempool is drained, and addBlock indexes the outputs of the
\* miner transaction, then those of each user transaction.
Mine ==
    LET h == Len(blocks) IN
    /\ h < MaxBlocks
    /\ blocks' = Append(blocks, mempool)
    /\ mempool' = <<>>
    /\ spentImages' = spentImages \union ImagesOf(mempool)
    /\ globalOutputs' = globalOutputs \o NewOutputs(Coinbase(h), h)
                          \o FlattenSeq([i \in DOMAIN mempool |-> NewOutputs(mempool[i], h)])
    /\ UNCHANGED transfers

MineBlock == Mine /\ UNCHANGED calls

\* transfer(): synchronise, select, derive the secret keys and wait for the ring
\* members.  Without enough to spend it throws, and when an output it selected
\* was paid by a transfer.
TransferSelects(k, w, to, amount) ==
    /\ calls[k].at = "none"
    /\ Len(transfers) + Cardinality({v \in Callers : calls[v].at = "preparing"}) < MaxTransfers
    /\ \E s \in Selections(w, amount + Fee) :
          /\ \A o \in ToSet(s) : HasTxPubKey(o)
          /\ calls' = [calls EXCEPT ![k] = [at |-> "preparing", from |-> w, ins |-> s,
                                           to |-> to, amount |-> amount]]
    /\ UNCHANGED <<blocks, mempool, globalOutputs, spentImages, transfers>>

\* Seeded fault: sendRawTransaction accepts every transaction.
Accepts_All(ins) == TRUE

\* sendRawTransaction looks for the key images in the blocks, not in the mempool.
Accepts(ins) == \A o \in ToSet(ins) : OutputImage(o) \notin spentImages

\* prepareInputs, buildTransaction and sendRawTransaction: the ring members are
\* there, the change goes back, and the transaction is sent.
TransferSends(k) ==
    LET c == calls[k]
        change == Total(c.ins) - c.amount - Fee
        outs == <<[owner |-> c.to, amount |-> c.amount]>>
                  \o (IF change > 0 THEN <<[owner |-> c.from, amount |-> change]>> ELSE <<>>)
        Chosen == [i \in DOMAIN c.ins |-> Rings(GlobalIndex(c.ins[i]))]
    IN
    /\ c.at = "preparing"
    /\ \/ /\ \A i \in DOMAIN c.ins : Chosen[i] # {}
          /\ Len(mempool) < MaxMempool
          /\ \E rings \in [DOMAIN c.ins -> UNION {Chosen[i] : i \in DOMAIN c.ins}] :
                /\ \A i \in DOMAIN c.ins : rings[i] \in Chosen[i]
                /\ transfers' = Append(transfers,
                      [ins |-> c.ins, outs |-> outs, at |-> Len(blocks),
                       offsets |-> [i \in DOMAIN c.ins |->
                                      Offsets(Ascending(rings[i]))]])
          /\ IF Accepts(c.ins)
             THEN /\ mempool' = Append(mempool, Len(transfers) + 1)
                  /\ calls' = [calls EXCEPT ![k] = [NoTransferCall EXCEPT !.at = "mining"]]
             ELSE UNCHANGED mempool /\ calls' = [calls EXCEPT ![k] = NoTransferCall]
       \/ /\ \E i \in DOMAIN c.ins : Chosen[i] = {}
          /\ calls' = [calls EXCEPT ![k] = NoTransferCall]
          /\ UNCHANGED <<transfers, mempool>>
    /\ UNCHANGED <<blocks, globalOutputs, spentImages>>

\* The option mine of transfer().
TransferMines(k) ==
    /\ calls[k].at = "mining"
    /\ calls' = [calls EXCEPT ![k] = NoTransferCall]
    /\ \/ Mine
       \/ UNCHANGED <<blocks, mempool, globalOutputs, spentImages, transfers>>

\* A transaction that was built is sent to the node again.
SendRawTransaction(n) ==
    /\ Len(mempool) < MaxMempool
    /\ Accepts(transfers[n].ins)
    /\ mempool' = Append(mempool, n)
    /\ UNCHANGED <<blocks, globalOutputs, spentImages, transfers, calls>>

TestnetNext ==
    \/ MineBlock
    \/ \E k \in Callers, w, to \in Wallets, amount \in Amounts : TransferSelects(k, w, to, amount)
    \/ \E k \in Callers : TransferSends(k) \/ TransferMines(k)
    \/ \E n \in DOMAIN transfers : SendRawTransaction(n)

-----------------------------------------------------------------------------
TestnetTypeOK ==
    /\ Len(blocks) <= MaxBlocks /\ Len(mempool) <= MaxMempool /\ Len(transfers) <= MaxTransfers
    /\ \A k \in Callers : calls[k].at \in {"none", "preparing", "mining"}

\* No output is spent in two blocks, although every transfer offers again what
\* others spent, whatever two calls select at once, whatever is sent again and
\* whenever a block is mined between selection and sending.
SpentInOneBlock ==
    \A h, k \in DOMAIN blocks :
        h # k => ImagesOf(blocks[h]) \intersect ImagesOf(blocks[k]) = {}

\* The ring of each input, read back from the offsets in the transaction, names
\* outputs of the chain: the one that is spent, and others that were old enough
\* when the transaction was built.
RingsResolve ==
    \A n \in DOMAIN transfers : \A i \in DOMAIN transfers[n].ins :
        LET ring == Indices(transfers[n].offsets[i])
            real == transfers[n].ins[i]
        IN /\ \E j \in DOMAIN ring : OutputImage(OutAt(ring[j])) = OutputImage(real)
           /\ \A j \in DOMAIN ring :
                 \/ OutputImage(OutAt(ring[j])) = OutputImage(real)
                 \/ OutAt(ring[j]).height <= transfers[n].at - SpendableAge

\* What wallet-sync.js says of itself, "Tracks spent outputs via key images": what
\* a wallet that has read every block offers is not spent in one of them.
SpentIsTracked ==
    \A w \in Wallets : \A o \in Spendable(w) : OutputImage(o) \notin spentImages

\* Both, of every state of the node.
TestnetHolds == SpentInOneBlock /\ RingsResolve
=============================================================================
