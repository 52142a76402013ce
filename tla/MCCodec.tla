------------------------------ MODULE MCCodec ------------------------------
(***************************************************************************)
(* The transactions, blocks and answers that are written and read back.      *)
(***************************************************************************)
EXTENDS TxCodec

CONSTANT ProofRounds   \* the numbers of rounds of the range proofs, none without a proof

\* Bytes that look like counts and flags among them.
Hash(a) == <<a, (7 * a) % (2 * Radix)>>
Bytes(n, a) == [i \in 1..n |-> (a + (5 * i)) % (2 * Radix)]
SAL == <<19>>
SAL1 == <<19, 1>>

\* Version, type and signature type of a transaction, and its output type.
TxKinds == {<<2, TX_TYPE.TRANSFER, 6, 2>>, <<2, TX_TYPE.STAKE, 6, 3>>, <<2, TX_TYPE.CONVERT, 7, 3>>,
            <<3, TX_TYPE.TRANSFER, 8, 3>>, <<3, TX_TYPE.BURN, 8, 3>>, <<4, TX_TYPE.AUDIT, 8, 3>>,
            <<4, TX_TYPE.TRANSFER, 9, 4>>, <<4, TX_TYPE.STAKE, 9, 4>>, <<4, TX_TYPE.RETURN, 9, 4>>}

SampleInput(i) == [amount |-> 0, asset |-> SAL, offsets |-> <<i, 40>>, image |-> Hash(i)]
SampleOutput(type, i) ==
    <<0, type, Hash(2 + i), SAL1>>
        \o (CASE type = 2 -> <<i>> [] type = 3 -> <<17, i>> [] OTHER -> <<Bytes(TagLen, i), Bytes(AnchorLen, 9)>>)

SampleReturn(version, type, outs) ==
    CASE type \in {TX_TYPE.MINER, TX_TYPE.PROTOCOL, TX_TYPE.UNSET} -> <<>>
      [] type = TX_TYPE.TRANSFER /\ version >= 3 -> <<[i \in 1..outs |-> Hash(0)], [i \in 1..outs |-> 0]>>
      [] type = TX_TYPE.STAKE /\ version >= 4 ->
            <<1, Hash(30), Hash(4), Bytes(TagLen, 1), Bytes(AnchorLen, 3)>>
      [] OTHER -> <<Hash(1), Hash(16)>>

SamplePrefix(version, type, vin, vout, extra, amount) ==
    LET short == type \in {TX_TYPE.MINER, TX_TYPE.PROTOCOL, TX_TYPE.UNSET} IN
    [version |-> version, unlock |-> amount, vin |-> vin, vout |-> vout, extra |-> extra,
     type |-> type, burnt |-> IF type \in {TX_TYPE.PROTOCOL, TX_TYPE.UNSET} THEN 0 ELSE amount,
     ret |-> SampleReturn(version, type, Len(vout)), source |-> IF short THEN <<>> ELSE SAL,
     dest |-> IF short THEN <<>> ELSE SAL1, slippage |-> IF short THEN 0 ELSE amount]

SampleProof(rounds) ==
    [i \in 1..6 |-> Hash(i + 8)] \o <<[i \in 1..rounds |-> Hash(20 + i)], [i \in 1..rounds |-> Hash(25 + i)]>>

SampleRct(kind, ins, outs, amount, rounds) ==
    LET proof(a) == Bytes(3 * HashLen, a) IN
    [type |-> kind[3], fee |-> amount, ecdh |-> [i \in 1..outs |-> Bytes(AmountLen, i)],
     outPk |-> [i \in 1..outs |-> Hash(11 + i)], pr |-> Hash(18),
     salvium |-> CASE kind[3] = 6 -> <<>>
                   [] kind[3] = 7 -> <<proof(2), proof(3)>>
                   [] kind[2] = TX_TYPE.AUDIT ->
                        <<1, proof(4), proof(5), proof(6),
                          <<<<Hash(3), amount, 1, 0>>,
                            <<Hash(5), 2, 0, TX_TYPE.STAKE, Hash(6), Bytes(AmountLen, 1)>>>>,
                          Hash(7), <<3, 20>>>>
                   [] OTHER -> <<0, proof(7), proof(8)>>,
     proofs |-> IF rounds = 0 THEN <<>> ELSE <<SampleProof(rounds)>>,
     sigs |-> [i \in 1..ins |-> [j \in 1..((IF kind[3] = 9 THEN 4 ELSE 2) + 2) |-> Hash(i + j)]],
     pseudo |-> [i \in 1..ins |-> Hash(21 + i)]]

SampleExtras == {<<[tag |-> "tx_pubkey", key |-> Hash(1)]>>,
                 <<[tag |-> "tx_pubkey", key |-> Hash(2)], [tag |-> "encrypted", key |-> Bytes(PidLen, 3)],
                   [tag |-> "additional", key |-> <<Hash(4), Hash(1)>>]>>}

MCCodecTxs ==
    {[prefix |-> SamplePrefix(k[1], k[2], [i \in 1..n |-> SampleInput(i)],
                              [i \in 1..n |-> SampleOutput(k[4], i)], x, a),
      rct |-> SampleRct(k, n, n, a, r)] :
        k \in TxKinds, n \in {1, 2}, x \in SampleExtras, a \in {20}, r \in {0} \union ProofRounds}

SampleBlockTx(version, type, height) ==
    [prefix |-> SamplePrefix(version, type, <<[height |-> height]>>,
                             <<SampleOutput(IF version > 2 THEN 4 ELSE 3, 1)>>,
                             <<[tag |-> "tx_pubkey", key |-> Hash(height)]>>, 5)]

MCCodecBlocks ==
    {[header |-> <<major, 1, 33, Hash(8), nonce>>,
      pricing |-> IF major < Oracle THEN <<>>
                  ELSE <<[version |-> 1, height |-> 17, sal |-> 3, vsd |-> 40,
                          assets |-> <<<<SAL, 1, 2>>, <<SAL1, 20, 0>>>>, time |-> 9,
                          signature |-> <<1, 31>>]>>,
      txs |-> <<SampleBlockTx(v, TX_TYPE.MINER, 17), SampleBlockTx(v, TX_TYPE.PROTOCOL, 17)>>,
      hashes |-> [i \in 1..n |-> Hash(i)]] :
        major \in {1, Oracle}, nonce \in {5, 600}, v \in {1, 2, 4}, n \in {0, 1, 3}}

Num(n) == [number |-> n]
Str(n) == [string |-> Bytes(n, n)]
ListOf(x, n) == [list |-> [i \in 1..n |-> x]]
SampleValues ==
    {[null |-> TRUE], [bool |-> TRUE], [list |-> <<>>]}
    \union {Num(n) : n \in {0, 700, ByteValues ^ WordLen}} \union {Str(n) : n \in {0, 7, 8}}
    \union {ListOf(x, n) : x \in {Num(33), Str(9), [object |-> <<<<Bytes(1, 3), Num(1)>>>>]}, n \in {1, 8}}
MCCodecAnswers ==
    {<<<<Bytes(2, 1), x>>, <<Bytes(1, 9), [object |-> <<<<Bytes(1, 2), y>>>>]>>>> :
        x \in SampleValues, y \in SampleValues}
=============================================================================
