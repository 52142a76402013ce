------------------------------- MODULE Mining -------------------------------
(***************************************************************************)
(* A block template of the daemon on its way to a block: the blob that is      *)
(* hashed, a nonce written into it, and the same nonce written into what is    *)
(* submitted.  Hashes of transactions are trees over their identities.         *)
(***************************************************************************)
EXTENDS Bytes

CONSTANTS
    PrevBytes, NonceBytes, HashBytes, LowDifficulty,    \* LowDifficulty: 2^64
    MaxExtraNonce,          \* MAX_EXTRA_NONCE_SIZE, 255 in the code
    Templates, ExtraNonces, Starts, RangeSize,
    TxLists, Difficulties

ASSUME MiningAssumption == PrevBytes > 0 /\ NonceBytes > 0 /\ HashBytes > 0 /\ RangeSize > 0
                           /\ MaxExtraNonce \in Nat

VARIABLES
    job     \* a template that is worked on, a list of transactions, or a hash

miningVars == <<job>>

-----------------------------------------------------------------------------
(* Trees of hashes. *)

CnFastHash(a, b) == <<a, b>>
Leaf(tx) == <<tx>>
NoHash == <<>>

Pairs(s) == [i \in 1 .. Len(s) \div 2 |-> CnFastHash(s[(2 * i) - 1], s[2 * i])]

\* The last ones in pairs, so that a power of two remains, and then level by level.
TreeHash(hashes) ==
    LET count == Len(hashes)
        levels == CHOOSE k \in 0 .. 10 : 2 ^ k <= count /\ count < 2 ^ (k + 1)
        alone == (2 * 2 ^ levels) - count
        ints == SubSeq(hashes, 1, alone) \o Pairs(SubSeq(hashes, alone + 1, count))
    IN IF count = 0 THEN NoHash
       ELSE FoldLeft(LAMBDA s, k : Pairs(s), ints, [k \in 1 .. levels |-> k])[1]

-----------------------------------------------------------------------------
(* Blobs. *)

Low(n, size) == Reverse(ToDigits(n, ByteBase, size))    \* little-endian
MinerHash(extra) == Leaf(extra)

\* A block: its header, what is reserved in the transaction of the miner, the hashes
\* of the other transactions.
SerializeBlockHeader(b) ==
    EncodeVarint(b.major) \o EncodeVarint(b.minor) \o EncodeVarint(b.time)
        \o b.prev \o Low(b.nonce, NonceBytes)
TemplateBlob(b) == SerializeBlockHeader(b) \o b.extra \o b.txs
ReservedOffset(b) == Len(SerializeBlockHeader(b))

ConstructBlockHashingBlob(b) ==
    LET hashes == <<MinerHash(b.extra)>> \o [i \in DOMAIN b.txs |-> Leaf(<<b.txs[i]>>)]
    IN SerializeBlockHeader(b) \o <<TreeHash(hashes)>> \o EncodeVarint(Len(hashes))

\* Offsets count from 0.
SetBytes(blob, offset, bytes) ==
    SubSeq(blob, 1, offset) \o bytes \o SubSeq(blob, offset + Len(bytes) + 1, Len(blob))
SetNonce(blob, nonce, offset) == SetBytes(blob, offset, Low(nonce, NonceBytes))
GetNonce(blob, offset) ==
    FromDigits(Reverse(SubSeq(blob, offset + 1, offset + NonceBytes)), ByteBase)
SetExtraNonce(blob, extra, offset) == SetBytes(blob, offset, extra)

SkipVarint(blob, offset) ==
    CHOOSE i \in offset + 1 .. Len(blob) :
        /\ blob[i] < Half
        /\ \A j \in offset + 1 .. i - 1 : blob[j] >= Half

\* Seeded fault: the versions are taken for one byte each.
FindNonceOffset_ByteVersions(blob) == SkipVarint(blob, 2) + PrevBytes

FindNonceOffset(blob) ==
    SkipVarint(blob, SkipVarint(blob, SkipVarint(blob, 0))) + PrevBytes

\* What a node reads in a blob that is submitted.
ReadBlock(blob, template) ==
    LET major == DecodeVarint(blob).data
        minor == DecodeVarint(major[2]).data
        time == DecodeVarint(minor[2]).data
        rest == time[2]
        extras == Len(template.extra)
        at == PrevBytes + NonceBytes
    IN [major |-> major[1], minor |-> minor[1], time |-> time[1],
        prev |-> SubSeq(rest, 1, PrevBytes), nonce |-> GetNonce(rest, PrevBytes),
        extra |-> SubSeq(rest, at + 1, at + extras),
        txs |-> SubSeq(rest, at + extras + 1, Len(rest))]

-----------------------------------------------------------------------------
(* Difficulty. *)

HashSpace == ByteBase ^ HashBytes

\* parseDifficulty: the wide number if there is one, or the upper part and the lower.
ParseDifficulty(low, wide, top) ==
    IF wide # 0 THEN wide ELSE IF top # 0 THEN (top * LowDifficulty) + low ELSE low

\* Little-endian; the rules of the chain read a hash from its other end.
CheckHash(hash, difficulty) ==
    difficulty # 0 /\ FromDigits(Reverse(hash), ByteBase) * difficulty <= HashSpace - 1
CheckHashOfRules(hash, difficulty) == FromDigits(hash, ByteBase) * difficulty <= HashSpace - 1

DifficultyToTarget(difficulty) == IF difficulty = 0 THEN 0 ELSE HashSpace \div difficulty
HashToDifficulty(hash) ==
    LET n == FromDigits(Reverse(hash), ByteBase) IN IF n = 0 THEN 0 ELSE HashSpace \div n

\* Some function of the header and the seed.
RandomXHash(blob, seed, offset) ==
    ToDigits(FoldLeft(LAMBDA n, d : ((n * 5) + d + 3) % HashSpace, seed,
                      SubSeq(blob, 1, offset + NonceBytes)), ByteBase, HashBytes)

TryNonce(blob, seed, nonce, offset, difficulty) ==
    CheckHash(RandomXHash(SetNonce(blob, nonce, offset), seed, offset), difficulty)

\* Nonces wrap around.
NonceAt(start, i) == (start + i) % (ByteBase ^ NonceBytes)
MineRange(blob, seed, start, count, offset, difficulty) ==
    LET hits == {i \in 0 .. count - 1 :
                    TryNonce(blob, seed, NonceAt(start, i), offset, difficulty)}
    IN IF hits = {} THEN {} ELSE {NonceAt(start, CHOOSE i \in hits : \A j \in hits : i <= j)}

-----------------------------------------------------------------------------
(* A miner that uses these. *)

\* The difficulty comes as one number or as two parts.
ParseBlockTemplate ==
    /\ job.kind = "template"
    /\ \E d \in Difficulties, wide \in BOOLEAN :
         job' = [job EXCEPT !.kind = "parsed", !.asked = d,
            !.blob = TemplateBlob(job.template),
            !.hashing = ConstructBlockHashingBlob(job.template),
            !.difficulty = ParseDifficulty(d % LowDifficulty, IF wide THEN d ELSE 0, d \div LowDifficulty)]

\* Another extra nonce is another transaction: the blob to hash is made again.  What
\* is longer than an extra nonce may be is refused.
PutExtraNonce == \E extra \in ExtraNonces :
    /\ job.kind \in {"parsed", "searched"} /\ Len(extra) = Len(job.template.extra)
    /\ Len(extra) <= MaxExtraNonce
    /\ \E blob \in {SetExtraNonce(job.blob, extra, ReservedOffset(job.template))} :
         job' = [job EXCEPT !.kind = "parsed", !.blob = blob,
                            !.hashing = ConstructBlockHashingBlob(ReadBlock(blob, job.template))]

SearchRange == \E start \in Starts :
    /\ job.kind = "parsed"
    /\ \E found \in {MineRange(job.hashing, job.template.seed, start, RangeSize,
                               FindNonceOffset(job.hashing), job.difficulty)} :
         job' = [job EXCEPT !.kind = "searched", !.found = found]

SubmitBlock ==
    /\ job.kind = "searched"
    /\ \E nonce \in job.found :
         job' = [job EXCEPT !.kind = "submitted",
                            !.blob = SetNonce(job.blob, nonce, FindNonceOffset(job.blob))]

NewJob(template) == [kind |-> "template", template |-> template, blob |-> <<>>, hashing |-> <<>>,
                     difficulty |-> 0, asked |-> 0, found |-> {}]
MiningInit == job \in
    {NewJob(t) : t \in Templates}
    \union {[kind |-> "list", txs |-> l] : l \in TxLists}
    \union {[kind |-> "hash", hash |-> h] : h \in [1 .. HashBytes -> 0 .. ByteBase - 1]}

MiningNext == ParseBlockTemplate \/ PutExtraNonce \/ SearchRange \/ SubmitBlock

-----------------------------------------------------------------------------
MiningTypeOK == job.kind \in {"template", "parsed", "searched", "submitted", "list", "hash"}

\* What is submitted differs from the template in its nonces only, and what a node
\* hashes of it is what was hashed here, with a hash that the difficulty admits.
SubmittedIsMined == job.kind = "submitted" =>
    LET b == ReadBlock(job.blob, job.template)
        hashed == ConstructBlockHashingBlob(b)
    IN /\ [b EXCEPT !.nonce = 0, !.extra = <<>>] =
            [major |-> job.template.major, minor |-> job.template.minor, time |-> job.template.time,
             prev |-> job.template.prev, nonce |-> 0, extra |-> <<>>, txs |-> job.template.txs]
       /\ {b.nonce} = job.found
       /\ hashed = SetNonce(job.hashing, b.nonce, ReservedOffset(job.template) - NonceBytes)
       /\ CheckHash(RandomXHash(hashed, job.template.seed, ReservedOffset(b) - NonceBytes), job.asked)

\* The root and the count tell lists of transactions apart.
RootsTellLists == job.kind = "list" =>
    \A l \in TxLists : Len(l) = Len(job.txs) /\ l # job.txs =>
        TreeHash([i \in DOMAIN l |-> Leaf(l[i])])
            # TreeHash([i \in DOMAIN job.txs |-> Leaf(job.txs[i])])

\* A hash is checked as its difficulty and its target say, but where the space is a
\* multiple of it; the rules of the chain agree when it is turned round.
ChecksAgree == job.kind = "hash" =>
    LET n == FromDigits(Reverse(job.hash), ByteBase) IN
    \A d \in 1 .. HashSpace :
        /\ CheckHash(job.hash, d) = CheckHashOfRules(Reverse(job.hash), d)
        /\ n > 0 /\ HashSpace % n # 0 =>
             (CheckHash(job.hash, d) <=> d <= HashToDifficulty(job.hash))
        /\ HashSpace % d # 0 => (CheckHash(job.hash, d) <=> n <= DifficultyToTarget(d))

MiningHolds == SubmittedIsMined /\ RootsTellLists /\ ChecksAgree
=============================================================================
