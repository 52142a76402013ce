------------------------------- MODULE TxCodec -------------------------------
(***************************************************************************)
(* How transactions and blocks are written (transaction/serialization.js,    *)
(* block/serialization.js) and read (transaction/parsing.js), and the values  *)
(* of the binary RPC calls (Portable).                                      *)
(*                                                                         *)
(* A wire is a sequence of bytes.  A byte holds 2 * Radix values where the    *)
(* code's holds 256, and hashes, tags and anchors are shorter; nothing else   *)
(* is left out: counts, lengths and flags are bytes among the others, and a   *)
(* reader out of step reads what is there.  A reader returns the value and    *)
(* the place after it, place 0 when it throws.  A transaction is kept in the  *)
(* shape the parser gives it.                                              *)
(***************************************************************************)
EXTENDS Portable, FiniteSetsExt

CONSTANTS
    Radix,      \* values of the bits of a varint in one byte, 128 in the code
    MaxVarint,  \* bytes of the longest varint, 10 in the code
    HashLen, AmountLen, TagLen, AnchorLen, PidLen,  \* 32, 8, 3, 16 and 8 in the code
    MaxRounds,  \* entries of L, 64 in the code
    Oracle,     \* HF_VERSION_ENABLE_ORACLE, 255 in the code
    CodecTxs, CodecBlocks, CodecAnswers  \* what is written

ASSUME CodecAssumption ==
    /\ Radix \in Nat \ 0..8 /\ MaxVarint \in Nat \ {0}
    /\ {HashLen, AmountLen, TagLen, AnchorLen, PidLen, MaxRounds, Oracle} \subseteq Nat \ {0}
    /\ PidLen # HashLen /\ ByteValues = 2 * Radix /\ WordLen \in Nat \ {0}

VARIABLES written, wire, whole   \* what was written, the bytes that arrive, whether all do

codecVars == <<written, wire, whole>>

Nothing == [kind |-> "none"]

TX_TYPE == [UNSET |-> 0, MINER |-> 1, PROTOCOL |-> 2, TRANSFER |-> 3, CONVERT |-> 4,
            BURN |-> 5, STAKE |-> 6, RETURN |-> 7, AUDIT |-> 8]
RCT_TYPE == [Null |-> 0, CLSAG |-> 5, BulletproofPlus |-> 6, FullProofs |-> 7,
             SalviumZero |-> 8, SalviumOne |-> 9]
TXOUT_TYPE == [KEY |-> 2, TAGGED_KEY |-> 3, CARROT_V1 |-> 4]
TXIN_TYPE == [GEN |-> (2 * Radix) - 1, KEY |-> 2]

SizeOf == [hash |-> HashLen, amount |-> AmountLen, tag |-> TagLen, anchor |-> AnchorLen,
           nonce |-> 2, proof |-> 3 * HashLen, slice |-> HashLen]

-----------------------------------------------------------------------------
(* Writing. *)

EncodeVarint[n \in Nat] ==
    IF n < Radix THEN <<n>> ELSE <<Radix + (n % Radix)>> \o EncodeVarint[n \div Radix]

\* A field: a varint, a byte, bytes after their length, hashes after their number,
\* or bytes of a known length.
WriteField(kind, v) ==
    CASE kind = "varint" -> EncodeVarint[v]
      [] kind = "byte" -> <<v>>
      [] kind \in {"string", "text"} -> EncodeVarint[Len(v)] \o v
      [] kind = "hashes" -> EncodeVarint[Len(v)] \o FlattenSeq(v)
      [] kind = "nonce" -> <<v % (2 * Radix), (v \div (2 * Radix)) % (2 * Radix)>>
      [] OTHER -> v

WriteFields(kinds, vals) == FlattenSeq([i \in DOMAIN vals |-> WriteField(kinds[i], vals[i])])
WriteAll(kind, vals) == FlattenSeq([i \in DOMAIN vals |-> WriteField(kind, vals[i])])

SerializeGenInput(height) == <<TXIN_TYPE.GEN>> \o EncodeVarint[height]
SerializeTxInput(in) ==
    <<TXIN_TYPE.KEY>> \o EncodeVarint[in.amount] \o WriteField("string", in.asset)
        \o EncodeVarint[Len(in.offsets)] \o WriteAll("varint", in.offsets) \o in.image

\* The fields after the amount and the type of an output.
SerializeTxOutput(out) ==
    EncodeVarint[out[1]] \o <<out[2]>> \o
    WriteFields(CASE out[2] = TXOUT_TYPE.CARROT_V1 -> <<"hash", "string", "tag", "anchor">>
                  [] out[2] = TXOUT_TYPE.TAGGED_KEY -> <<"hash", "string", "varint", "byte">>
                  [] OTHER -> <<"hash", "string", "varint">>,
                SubSeq(out, 3, Len(out)))

\* The public key, the encrypted payment id and the additional public keys, as
\* far as there are any.
SerializeTxExtra(extra) ==
    FlattenSeq([i \in DOMAIN extra |->
        CASE extra[i].tag = "tx_pubkey" -> <<1>> \o extra[i].key
          [] extra[i].tag = "encrypted" -> <<2, PidLen + 1, 1>> \o extra[i].key
          [] OTHER -> <<4>> \o WriteField("hashes", extra[i].key)])

\* What a transaction of a type and version says of the return of its amount.
ReturnFields(type, version) ==
    IF type = TX_TYPE.TRANSFER /\ version >= 3 THEN <<"hashes", "string">>
    ELSE IF type = TX_TYPE.STAKE /\ version >= 4
         THEN <<"varint", "hash", "hash", "tag", "anchor">>
    ELSE <<"hash", "hash">>

SerializeTxPrefix(p) ==
    WriteFields(<<"varint", "varint", "varint">>, <<p.version, p.unlock, Len(p.vin)>>)
    \o FlattenSeq([i \in DOMAIN p.vin |->
          IF "height" \in DOMAIN p.vin[i] THEN SerializeGenInput(p.vin[i].height)
          ELSE SerializeTxInput(p.vin[i])])
    \o EncodeVarint[Len(p.vout)] \o FlattenSeq([i \in DOMAIN p.vout |-> SerializeTxOutput(p.vout[i])])
    \o WriteField("string", SerializeTxExtra(p.extra))
    \o EncodeVarint[p.type]
    \o (IF p.type \in {TX_TYPE.UNSET, TX_TYPE.PROTOCOL} THEN <<>>
        ELSE EncodeVarint[p.burnt]
             \o (IF p.type = TX_TYPE.MINER THEN <<>>
                 ELSE WriteFields(ReturnFields(p.type, p.version)
                                    \o <<"string", "string", "varint">>,
                                  p.ret \o <<p.source, p.dest, p.slippage>>)))

\* input_verification_data: the caller hands each entry over as its bytes.
EntryBytes(e) ==
    WriteFields(<<"slice", "varint", "varint", "varint", "slice", "amount">>, e)

SerializeSalviumData(s) ==
    WriteFields(<<"varint", "proof", "proof">>, SubSeq(s, 1, 3))
    \o (IF s[1] # 1 THEN <<>>
        ELSE s[4] \o EncodeVarint[Len(s[5])] \o FlattenSeq([i \in DOMAIN s[5] |-> EntryBytes(s[5][i])])
               \o WriteFields(<<"slice", "text">>, <<s[6], s[7]>>))

SerializeRctBase(r) ==
    <<r.type>> \o (IF r.type = RCT_TYPE.Null THEN <<>> ELSE EncodeVarint[r.fee])
    \o WriteAll("amount", r.ecdh) \o WriteAll("hash", r.outPk) \o r.pr
    \o (IF r.type \in {RCT_TYPE.SalviumZero, RCT_TYPE.SalviumOne} THEN SerializeSalviumData(r.salvium)
        ELSE IF r.type = RCT_TYPE.FullProofs THEN WriteFields(<<"proof", "proof">>, r.salvium)
        ELSE <<>>)

\* serializeProof of bulletproofs_plus.js.
SerializeProof(b) ==
    WriteAll("hash", SubSeq(b, 1, 6)) \o WriteField("hashes", b[7]) \o WriteField("hashes", b[8])

SerializeTransaction(tx) ==
    SerializeTxPrefix(tx.prefix) \o SerializeRctBase(tx.rct)
    \o EncodeVarint[Len(tx.rct.proofs)]
    \o FlattenSeq([i \in DOMAIN tx.rct.proofs |-> SerializeProof(tx.rct.proofs[i])])
    \o FlattenSeq([i \in DOMAIN tx.rct.sigs |-> WriteAll("hash", tx.rct.sigs[i])])
    \o WriteAll("hash", tx.rct.pseudo)

PricingFields == <<"varint", "varint", "varint", "varint">>
SerializePricingRecord(p) ==
    WriteFields(PricingFields, <<p.version, p.height, p.sal, p.vsd>>)
    \o EncodeVarint[Len(p.assets)]
    \o FlattenSeq([i \in DOMAIN p.assets |-> WriteFields(<<"string", "varint", "varint">>, p.assets[i])])
    \o WriteFields(<<"varint", "string">>, <<p.time, p.signature>>)

SerializeBlockHeader(b) ==
    WriteFields(<<"varint", "varint", "varint", "hash", "nonce">>, b.header)
    \o (IF b.header[1] >= Oracle /\ b.pricing # <<>> THEN SerializePricingRecord(b.pricing[1])
        ELSE <<>>)

\* serializeBlock, with the signature of each transaction when it has one.
SerializeBlock(b) ==
    SerializeBlockHeader(b)
    \o FlattenSeq([i \in 1..2 |-> SerializeTxPrefix(b.txs[i].prefix)
                     \o (IF "rct" \in DOMAIN b.txs[i] THEN SerializeRctBase(b.txs[i].rct) ELSE <<>>)])
    \o WriteField("hashes", b.hashes)

\* A block as the network sends it: of a signature of type Null there is the
\* type alone, and version 1 has none.
NetworkBlock(b) ==
    SerializeBlockHeader(b)
    \o FlattenSeq([i \in 1..2 |-> SerializeTxPrefix(b.txs[i].prefix)
                     \o (IF b.txs[i].prefix.version = 1 THEN <<>> ELSE <<RCT_TYPE.Null>>)])
    \o WriteField("hashes", b.hashes)

\* computeMerkleRoot, layer by layer; the odd one out is passed through.
NextLayer(l) ==
    [i \in 1..((Len(l) + 1) \div 2) |->
        IF 2 * i <= Len(l) THEN <<l[(2 * i) - 1], l[2 * i]>> ELSE l[(2 * i) - 1]]
ComputeMerkleRoot(hashes) ==
    IF hashes = <<>> THEN <<>>
    ELSE FoldLeft(LAMBDA l, i : IF Len(l) > 1 THEN NextLayer(l) ELSE l, hashes, hashes)[1]

GetBlockHash(b) ==
    <<SerializeBlockHeader(b), SerializeTxPrefix(b.txs[1].prefix),
      ComputeMerkleRoot(<< <<SerializeTxPrefix(b.txs[2].prefix)>> >> \o b.hashes)>>

-----------------------------------------------------------------------------
(* Reading. *)

\* Stops at the end of the data without a word.
DecodeVarint(d, at) ==
    LET ends == {i \in at..Len(d) : d[i] < Radix}
        last == IF ends = {} THEN Len(d) ELSE Min(ends)
    IN  IF at > Len(d) THEN [val |-> 0, at |-> at]
        ELSE IF last - at >= MaxVarint \/ (ends = {} /\ last - at + 1 = MaxVarint) THEN Unreadable
        ELSE [val |-> FoldRight(LAMBDA b, v : (b % Radix) + (Radix * v), SubSeq(d, at, last), 0),
              at |-> last + 1]

\* readBytes.
ReadBytes(d, at, n) ==
    IF at = 0 \/ at + n - 1 > Len(d) THEN Unreadable
    ELSE [val |-> SubSeq(d, at, at + n - 1), at |-> at + n]

\* data.slice: what is there.
Slice(d, at, n) ==
    [val |-> SubSeq(d, at, IF at + n - 1 > Len(d) THEN Len(d) ELSE at + n - 1), at |-> at + n]

\* A value that was read goes to the end of a list, or under a name.
AppendRead(r, x) == IF x.at = 0 THEN Unreadable ELSE [val |-> Append(r.val, x.val), at |-> x.at]
NameRead(r, name, x) ==
    IF x.at = 0 THEN Unreadable ELSE [val |-> (name :> x.val) @@ r.val, at |-> x.at]

ReadVarints(d, n) ==
    FoldLeft(LAMBDA r, i : IF r.at = 0 THEN r ELSE AppendRead(r, DecodeVarint(d, r.at)),
             [val |-> <<>>, at |-> n.at], [i \in 1..(IF n.at = 0 THEN 0 ELSE n.val) |-> i])

\* n hashes, one after another.
ReadHashes(d, at, n) ==
    LET all == ReadBytes(d, at, n * HashLen)
    IN IF all.at = 0 THEN Unreadable
       ELSE [all EXCEPT !.val = [i \in 1..n |-> SubSeq(all.val, ((i - 1) * HashLen) + 1, i * HashLen)]]

\* The points of a range proof with the number before them.
ReadRounds(d, n) == IF n.at = 0 \/ n.val > MaxRounds THEN Unreadable ELSE ReadHashes(d, n.at, n.val)

SignedNonce(n) ==
    IF n.at = 0 THEN Unreadable
    ELSE [n EXCEPT !.val = n.val[1] + (2 * Radix *
             (IF n.val[2] < Radix THEN n.val[2] ELSE n.val[2] - (2 * Radix)))]

ReadField(d, at, kind) ==
    IF at = 0 THEN Unreadable
    ELSE CASE kind = "varint" -> DecodeVarint(d, at)
           [] kind = "byte" -> [val |-> IF at > Len(d) THEN -1 ELSE d[at], at |-> at + 1]
           [] kind = "string" -> LET n == DecodeVarint(d, at) IN ReadBytes(d, n.at, n.val)
           [] kind = "text" -> LET n == DecodeVarint(d, at) IN Slice(d, n.at, n.val)
           [] kind = "hashes" -> LET n == DecodeVarint(d, at) IN ReadHashes(d, n.at, n.val)
           [] kind = "ring" -> ReadVarints(d, DecodeVarint(d, at))
           [] kind = "rounds" ->
                IF at > Len(d) THEN Unreadable ELSE ReadRounds(d, DecodeVarint(d, at))
           [] kind \in {"slice", "proof"} -> Slice(d, at, SizeOf[kind])
           [] kind = "nonce" -> SignedNonce(ReadBytes(d, at, 2))
           [] OTHER -> ReadBytes(d, at, SizeOf[kind])

\* After what has been read, more fields.
ReadMore(d, start, kinds) ==
    FoldLeft(LAMBDA r, k : IF r.at = 0 THEN r ELSE AppendRead(r, ReadField(d, r.at, k)), start, kinds)

ReadFields(d, at, kinds) == ReadMore(d, [val |-> <<>>, at |-> at], kinds)

\* Entries, each read by ReadOne, after the number of them.
ReadList(d, n, ReadOne(_, _)) ==
    FoldLeft(LAMBDA r, i : IF r.at = 0 THEN r ELSE AppendRead(r, ReadOne(d, r.at)),
             [val |-> <<>>, at |-> n.at], [i \in 1..(IF n.at = 0 THEN 0 ELSE n.val) |-> i])

KeyInput(r) ==
    IF r.at = 0 THEN Unreadable
    ELSE [val |-> [amount |-> r.val[1], asset |-> r.val[2], offsets |-> r.val[3], image |-> r.val[4]],
          at |-> r.at]

InputOf(d, type) ==
    CASE type.val = TXIN_TYPE.GEN -> NameRead([val |-> <<>>], "height", ReadField(d, type.at, "varint"))
      [] type.val = TXIN_TYPE.KEY ->
            KeyInput(ReadFields(d, type.at, <<"varint", "string", "ring", "hash">>))
      [] OTHER -> Unreadable

ReadInput(d, at) == InputOf(d, ReadField(d, at, "byte"))

OutputFields ==
    (TXOUT_TYPE.KEY :> <<"hash", "string", "varint">>)
    @@ (TXOUT_TYPE.TAGGED_KEY :> <<"hash", "string", "varint", "byte">>)
    @@ (TXOUT_TYPE.CARROT_V1 :> <<"hash", "string", "tag", "anchor">>)

OutputOf(d, head) ==
    IF head.at = 0 \/ head.val[2] \notin DOMAIN OutputFields THEN Unreadable
    ELSE ReadMore(d, head, OutputFields[head.val[2]])

ReadOutput(d, at) == OutputOf(d, ReadFields(d, at, <<"varint", "byte">>))

\* parseExtraNonce.
ReadNonce(nonce) ==
    CASE nonce # <<>> /\ nonce[1] = 0 /\ Len(nonce) = HashLen + 1 ->
            [tag |-> "unencrypted", key |-> Tail(nonce)]
      [] nonce # <<>> /\ nonce[1] = 1 /\ Len(nonce) = PidLen + 1 ->
            [tag |-> "encrypted", key |-> Tail(nonce)]
      [] OTHER -> [tag |-> "raw", key |-> nonce]

\* One entry of the extra field; an unknown tag ends it.  The number of
\* additional keys is one byte, where it is written as a varint.
ReadExtraEntry(x, at) ==
    LET Entry(tag, r) == [val |-> [tag |-> tag, key |-> r.val], at |-> r.at] IN
    CASE x[at] = 0 -> Entry("padding", [val |-> <<>>, at |-> Min({i \in (at + 1)..(Len(x) + 1) :
                                            i > Len(x) \/ x[i] # 0})])
      [] x[at] = 1 -> Entry("tx_pubkey", ReadBytes(x, at + 1, HashLen))
      [] x[at] = 2 ->
            LET r == IF at = Len(x) THEN Unreadable ELSE ReadBytes(x, at + 2, x[at + 1])
            IN IF r.at = 0 THEN Unreadable ELSE [val |-> ReadNonce(r.val), at |-> r.at]
      [] x[at] = 3 -> Entry("merge_mining", ReadField(x, at + 1, "text"))
      [] x[at] = 4 ->
            LET r == ReadFields(x, at + 2, [i \in 1..(IF at = Len(x) THEN 0 ELSE x[at + 1]) |-> "hash"])
            IN Entry("additional", r)
      [] OTHER -> Entry("unknown", [val |-> <<>>, at |-> Len(x) + 1])

ParseExtra(x) ==
    FoldLeft(LAMBDA r, i : IF r.at = 0 \/ r.at > Len(x) THEN r ELSE AppendRead(r, ReadExtraEntry(x, r.at)),
             [val |-> <<>>, at |-> 1], x)

\* The entries of the extra field, whose bytes have been read.
ExtraOf(bytes) ==
    IF bytes.at = 0 \/ ParseExtra(bytes.val).at = 0 THEN Unreadable
    ELSE [val |-> ParseExtra(bytes.val).val, at |-> bytes.at]

ReturnKinds(p) ==
    CASE p.type = TX_TYPE.TRANSFER /\ p.version >= 3 -> <<"hashes", "string">>
      [] p.type = TX_TYPE.STAKE /\ p.version >= 4 -> <<"varint", "hash", "hash", "tag", "anchor">>
      [] OTHER -> <<"hash", "hash">>

\* A field of the prefix, after those before it: which there are depends on the
\* type and the version.
ReadPrefixField(d, r, field) ==
    LET p == r.val
        Absent(x) == [val |-> x, at |-> r.at]
        Short == p.type \in {TX_TYPE.UNSET, TX_TYPE.PROTOCOL, TX_TYPE.MINER}
    IN CASE field \in {"version", "unlock", "type"} -> ReadField(d, r.at, "varint")
         [] field = "vin" -> ReadList(d, ReadField(d, r.at, "varint"), ReadInput)
         [] field = "vout" -> ReadList(d, ReadField(d, r.at, "varint"), ReadOutput)
         [] field = "extra" -> ExtraOf(ReadField(d, r.at, "string"))
         [] field = "burnt" -> IF p.type \in {TX_TYPE.UNSET, TX_TYPE.PROTOCOL} THEN Absent(0)
                               ELSE ReadField(d, r.at, "varint")
         [] field = "ret" -> IF Short THEN Absent(<<>>) ELSE ReadFields(d, r.at, ReturnKinds(p))
         [] field \in {"source", "dest"} -> IF Short THEN Absent(<<>>) ELSE ReadField(d, r.at, "string")
         [] field = "slippage" -> IF Short THEN Absent(0) ELSE ReadField(d, r.at, "varint")

ReadPrefix(d) ==
    FoldLeft(LAMBDA r, f : IF r.at = 0 THEN r ELSE NameRead(r, f, ReadPrefixField(d, r, f)),
             [val |-> <<>>, at |-> 1],
             <<"version", "unlock", "vin", "vout", "extra", "type", "burnt", "ret", "source", "dest",
               "slippage">>)

\* Seeded fault: the stake of an origin that is none is read too.
ReadEntry_EveryOrigin(d, at) ==
    ReadFields(d, at, <<"slice", "varint", "varint", "varint", "slice", "amount">>)

EntryOf(d, e) ==
    IF e.at = 0 \/ e.val[4] = TX_TYPE.UNSET THEN e ELSE ReadMore(d, e, <<"slice", "amount">>)

ReadEntry(d, at) == EntryOf(d, ReadFields(d, at, <<"slice", "varint", "varint", "varint">>))

\* What an audit proves of its inputs.
AuditInputs(d, r) ==
    IF r.at = 0 THEN Unreadable
    ELSE AppendRead(r, ReadList(d, ReadField(d, r.at, "varint"), ReadEntry))

SalviumDataOf(d, head) ==
    IF head.at = 0 \/ head.val[1] # 1 THEN head
    ELSE ReadMore(d, AuditInputs(d, ReadMore(d, head, <<"proof">>)), <<"slice", "text">>)

ParseSalviumData(d, at) == SalviumDataOf(d, ReadFields(d, at, <<"varint", "proof", "proof">>))

\* A range proof: R is read without the number before it.
ProofOf(d, r) ==
    IF r.at = 0 THEN Unreadable ELSE AppendRead(r, ReadHashes(d, r.at, Len(Last(r.val))))

ReadProof(d, at) == ProofOf(d, ReadFields(d, at, [i \in 1..6 |-> "hash"] \o <<"rounds">>))

ReadPrunableField(d, at, field, type, inputs, ring) ==
    LET Signature(e, a) ==
            ReadFields(e, a, [i \in 1..((IF type = RCT_TYPE.SalviumOne THEN 2 * ring ELSE ring) + 2) |->
                                "hash"])
    IN CASE field = "proofs" ->
              ReadList(d, IF at > Len(d) THEN Unreadable ELSE ReadField(d, at, "varint"), ReadProof)
         [] field = "sigs" -> ReadList(d, [val |-> inputs, at |-> at], Signature)
         [] field = "pseudo" -> ReadFields(d, at, [i \in 1..inputs |-> "hash"])

ParseRctSigPrunable(d, at, type, inputs, ring) ==
    FoldLeft(LAMBDA r, f : IF r.at = 0 THEN r
                           ELSE NameRead(r, f, ReadPrunableField(d, r.at, f, type, inputs, ring)),
             [val |-> <<>>, at |-> at], <<"proofs", "sigs", "pseudo">>)

ReadRctField(d, at, field, outputs) ==
    CASE field = "fee" -> ReadField(d, at, "varint")
      [] field = "ecdh" -> ReadFields(d, at, [i \in 1..outputs |-> "amount"])
      [] field = "outPk" -> ReadFields(d, at, [i \in 1..outputs |-> "hash"])
      [] field = "pr" -> ReadField(d, at, "hash")

ReadRctBase(d, type, outputs) ==
    FoldLeft(LAMBDA r, f : IF r.at = 0 THEN r ELSE NameRead(r, f, ReadRctField(d, r.at, f, outputs)),
             NameRead([val |-> <<>>], "type", type), <<"fee", "ecdh", "outPk", "pr">>)

ReadSalvium(d, base) ==
    CASE base.at = 0 -> Unreadable
      [] base.at # 0 /\ base.val.type \in {RCT_TYPE.SalviumZero, RCT_TYPE.SalviumOne} ->
            ParseSalviumData(d, base.at)
      [] base.at # 0 /\ base.val.type = RCT_TYPE.FullProofs ->
            ReadFields(d, base.at, <<"proof", "proof">>)
      [] OTHER -> [val |-> <<>>, at |-> base.at]

\* Errors in the later parts are noted in the result, and the rest is left out.
WithPrunable(rct, rest) ==
    IF rest.at = 0 THEN [val |-> [error |-> "prunable"] @@ rct.val, at |-> rct.at]
    ELSE [val |-> rct.val @@ rest.val, at |-> rest.at]

WithSalvium(d, base, salvium, inputs, ring) ==
    CASE base.at = 0 -> Unreadable
      [] base.at # 0 /\ salvium.at = 0 -> [val |-> [error |-> "salvium"] @@ base.val, at |-> base.at]
      [] base.at # 0 /\ salvium.at > Len(d) -> NameRead(base, "salvium", salvium)
      [] OTHER -> WithPrunable(NameRead(base, "salvium", salvium),
                      ParseRctSigPrunable(d, salvium.at, base.val.type, inputs, ring))

RctOf(d, base, inputs, ring) == WithSalvium(d, base, ReadSalvium(d, base), inputs, ring)

ParseRingCtSignature(d, type, inputs, outputs, ring) ==
    CASE type.at = 0 \/ type.val \notin {RCT_TYPE.Null, 6, 7, 8, 9} -> Unreadable
      [] type.at # 0 /\ type.val = RCT_TYPE.Null -> NameRead([val |-> <<>>], "type", type)
      [] OTHER -> RctOf(d, ReadRctBase(d, type, outputs), inputs, ring)

\* The ring size is that of the first input, for all of them.
RingSizeOf(vin) == IF vin # <<>> /\ "offsets" \in DOMAIN vin[1] THEN Len(vin[1].offsets) ELSE 16

TransactionOf(d, p) ==
    IF p.at = 0 THEN Unreadable
    ELSE IF p.val.prefix.version = 1 THEN p
    ELSE NameRead(p, "rct", ParseRingCtSignature(d, ReadField(d, p.at, "byte"), Len(p.val.prefix.vin),
                                Len(p.val.prefix.vout), RingSizeOf(p.val.prefix.vin)))

ParseTransaction(d) == TransactionOf(d, NameRead([val |-> <<>>], "prefix", ReadPrefix(d)))

ReadPricingField(d, at, field) ==
    LET Asset(e, a) == ReadFields(e, a, <<"string", "varint", "varint">>)
    IN CASE field = "assets" -> ReadList(d, ReadField(d, at, "varint"), Asset)
         [] field = "signature" -> ReadField(d, at, "string")
         [] OTHER -> ReadField(d, at, "varint")

ParsePricingRecord(d, at) ==
    FoldLeft(LAMBDA r, f : IF r.at = 0 THEN r ELSE NameRead(r, f, ReadPricingField(d, r.at, f)),
             [val |-> <<>>, at |-> at],
             <<"version", "height", "sal", "vsd", "assets", "time", "signature">>)

\* Each transaction is parsed from the rest of the block, which then goes on
\* after the bytes it read.
Within(at, t) == IF t.at = 0 THEN Unreadable ELSE [t EXCEPT !.at = at + t.at - 1]
ReadTransaction(d, at) == Within(at, ParseTransaction(SubSeq(d, at, Len(d))))

ReadBlockField(d, r, field) ==
    CASE field = "header" -> ReadFields(d, r.at, <<"varint", "varint", "varint", "hash", "nonce">>)
      [] field = "pricing" -> IF r.val.header[1] < Oracle THEN [val |-> <<>>, at |-> r.at]
                              ELSE AppendRead([val |-> <<>>], ParsePricingRecord(d, r.at))
      [] field = "txs" -> ReadList(d, [val |-> 2, at |-> r.at], ReadTransaction)
      [] field = "hashes" -> ReadField(d, r.at, "hashes")

ParseBlock(d) ==
    FoldLeft(LAMBDA r, f : IF r.at = 0 THEN r ELSE NameRead(r, f, ReadBlockField(d, r, f)),
             [val |-> <<>>, at |-> 1], <<"header", "pricing", "txs", "hashes">>)

-----------------------------------------------------------------------------
(* Something is written, and arrives whole or cut short. *)

CodecInit == written = Nothing /\ wire = <<>> /\ whole = TRUE

WriteTransaction ==
    /\ written = Nothing
    /\ \E tx \in CodecTxs : written' = [kind |-> "tx", tx |-> tx] /\ wire' = SerializeTransaction(tx)
    /\ UNCHANGED whole

WriteBlock ==
    /\ written = Nothing
    /\ \E b \in CodecBlocks :
          \/ written' = [kind |-> "own", block |-> b] /\ wire' = SerializeBlock(b)
          \/ written' = [kind |-> "block", block |-> b] /\ wire' = NetworkBlock(b)
    /\ UNCHANGED whole

WriteAnswer ==
    /\ written = Nothing
    /\ \E x \in CodecAnswers :
          written' = [kind |-> "answer", answer |-> x] /\ wire' = PortableSerialize(x)
    /\ UNCHANGED whole

CutShort ==
    /\ whole
    /\ written.kind = "tx"
    /\ \E n \in 0..(Len(wire) - 1) : wire' = SubSeq(wire, 1, n)
    /\ whole' = FALSE
    /\ UNCHANGED written

CodecNext == WriteTransaction \/ WriteBlock \/ WriteAnswer \/ CutShort
CodecSpec == CodecInit /\ [][CodecNext]_codecVars

-----------------------------------------------------------------------------
CodecTypeOK == whole \in BOOLEAN /\ \A i \in DOMAIN wire : wire[i] \in 0..((2 * Radix) - 1)

BaseOf(rct) == [type |-> rct.type, fee |-> rct.fee, ecdh |-> rct.ecdh, outPk |-> rct.outPk, pr |-> rct.pr]
Complete(rct) == rct.type = RCT_TYPE.Null \/ ("pseudo" \in DOMAIN rct /\ "error" \notin DOMAIN rct)

\* What the parser makes of the bytes of a transaction, all of them or the first
\* few, is the transaction that was written, or it throws, or it shows that
\* something is missing.  Version 1 ends with its prefix, where a cut is not seen.
IsTransaction(r, tx) ==
    /\ whole => r.at # 0 /\ Complete(r.val.rct)
    /\ r.at # 0 =>
          /\ r.val.prefix = tx.prefix
          /\ r.val.rct.type # RCT_TYPE.Null => BaseOf(r.val.rct) = BaseOf(tx.rct)
          /\ Complete(r.val.rct) /\ r.val.rct.type # RCT_TYPE.Null => r.val.rct = tx.rct

TxComesBack ==
    written.kind = "tx" /\ written.tx.prefix.version > 1 =>
        IsTransaction(ParseTransaction(wire), written.tx)

\* A block of the network comes back with its header, its pricing record, both
\* transactions and all hashes; of its own the code reads back those of version 1,
\* whose transactions end with their prefix.  The nonce comes back as a signed
\* number.  Two blocks never have one hash.
IsBlock(r, b) ==
    /\ r.at = Len(wire) + 1
    /\ SubSeq(r.val.header, 1, 4) = SubSeq(b.header, 1, 4)
    /\ (r.val.header[5] - b.header[5]) % (4 * Radix * Radix) = 0
    /\ r.val.pricing = b.pricing /\ r.val.hashes = b.hashes
    /\ \A i \in 1..2 : r.val.txs[i].prefix = b.txs[i].prefix

BlockComesBack ==
    /\ written.kind \in {"block", "own"} /\ whole
       /\ (written.kind = "own" => \A i \in 1..2 : written.block.txs[i].prefix.version = 1) =>
        IsBlock(ParseBlock(wire), written.block)
    /\ written.kind = "block" =>
        \A b \in CodecBlocks : GetBlockHash(b) = GetBlockHash(written.block) => b = written.block

\* What a binary RPC call sends is read back as it was, nested as it may be.
AnswerComesBack ==
    written.kind = "answer" =>
        PortableDeserialize(wire) = [val |-> Returned([object |-> written.answer]).object,
                                     at |-> Len(wire) + 1]

\* Every writer and reader of the wire formats agree: transactions, blocks, answers.
CodecHolds == TxComesBack /\ BlockComesBack /\ AnswerComesBack
=============================================================================
