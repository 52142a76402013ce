------------------------------ MODULE TxBuilder ------------------------------
(***************************************************************************)
(* From a wish to a signed transaction: transfer, sweep, stake, burn and      *)
(* convert of wallet/transfer.js with the selection of transaction/utxo.js,   *)
(* and prepareInputs, buildTransaction, computePseudoOutputs, clsagSign and   *)
(* tclsagSign of transaction.js, with the two verifiers beside them.          *)
(*                                                                         *)
(* The group is cyclic of the small prime order Order, and a point is its     *)
(* discrete logarithm to the base G: point addition is addition, H and T are  *)
(* LogH and LogT, and the hashes are fixed functions.  Keys are those of the outputs in Purse; deriving them, range  *)
(* proofs, encryption, and the bytes that are sent are left out.             *)
(***************************************************************************)
EXTENDS Integers, Sequences, FiniteSets, SequencesExt

CONSTANTS
    Order, LogH, LogT,   \* the group
    Masks,               \* masks of outputs and pseudo outputs
    RandomSeqs,          \* what scRandom may return in the course of a signature
    Purse,               \* the spendable outputs: keys x and y, mask and amount
    DecoySeq,            \* the other ring members, by index: key and commitment
    Wishes,              \* the amounts asked for
    WeightBase, WeightPerInput, WeightPerOutput,  \* what a fee is made of
    MostInputs,          \* maxInputs, 16 in the code; 60 for a sweep
    RctTypes             \* 8 signs with CLSAG, 9 with TCLSAG and CARROT outputs

ASSUME TxAssumption ==
    /\ Order \in Nat \ {0, 1} /\ LogH \in Nat /\ LogT \in Nat
    /\ Masks \subseteq 0..Order - 1 /\ Wishes \subseteq Nat \ {0}
    /\ WeightBase \in Nat /\ WeightPerInput \in Nat /\ WeightPerOutput \in Nat
    /\ MostInputs \in Nat \ {0} /\ RctTypes \subseteq {8, 9}

VARIABLES
    stage,  \* how far the call is
    tx      \* what it has put together

txVars == <<stage, tx>>

NoTx == [kind |-> "none", rctType |-> 9, pays |-> 0, burnt |-> 0, fee |-> 0,
         ins |-> <<>>, rings |-> <<>>, outs |-> <<>>, pseudoMasks |-> <<>>, sigs |-> <<>>]

-----------------------------------------------------------------------------
(* The group and the hashes. *)

Scalar(a) == a % Order
SumOf(s) == FoldLeft(LAMBDA sum, a : sum + a, 0, s)
Commit(amount, mask) == Scalar(mask + amount * LogH)
HashToPoint(p) == Scalar(p * p * p + 2 * p + 3)
HashToScalar(domain, data) ==
    FoldLeft(LAMBDA h, a : Scalar(7 * h + a + 1), domain, data)
InvEight == CHOOSE k \in 1..Order - 1 : Scalar(8 * k) = 1

\* The domains of the hashes.
AGG0 == 1
AGG1 == 2
ROUND == 3
PREFIX == 4

PublicKey(o) == Scalar(Purse[o].x + Purse[o].y * LogT)
KeyImage(o) == Scalar(Purse[o].x * HashToPoint(PublicKey(o)))

-----------------------------------------------------------------------------
(* Ring signatures.  Position k of a ring is member k + 1 of a sequence.  A     *)
(* CLSAG is a TCLSAG without the T component: b, y and every sy are 0.         *)

KeysIn(ring) == [j \in DOMAIN ring |-> ring[j].key]
CommitmentsIn(ring) == [j \in DOMAIN ring |-> ring[j].commitment]
Differences(ring, pseudo) == [j \in DOMAIN ring |-> Scalar(ring[j].commitment - pseudo)]

\* L and R of one ring member.
LPoint(m, pseudo, c, mu, sx, sy) ==
    Scalar(sx + sy * LogT + c * (mu.p * m.key + mu.c * (m.commitment - pseudo)))
RPoint(m, c, mu, sx, image, D) ==
    Scalar(sx * HashToPoint(m.key) + c * (mu.p * image + mu.c * D))

Weights(data) == [p |-> HashToScalar(AGG0, data), c |-> HashToScalar(AGG1, data)]
Challenge(data, pseudo, message, Lp, Rp) ==
    HashToScalar(ROUND, data \o <<pseudo, message, Lp, Rp>>)

\* Seeded fault: c1 is the first challenge, wherever the ring starts.
StepsToZero_FromTheStart(real, n) == 1

\* c1 is the challenge at index 0, which the loop reaches after this many steps.
StepsToZero(real, n) == n - real

\* tclsagSign: k.x, k.y and k.z are the secrets, rnd the random scalars.
TclsagSign(message, ring, k, pseudo, real, rnd) ==
    LET n == Len(ring)
        At(j) == ((real + j) % n) + 1
        Hp == HashToPoint(ring[real + 1].key)
        image == Scalar(k.x * Hp)
        D == Scalar(k.z * Hp)
        D8 == Scalar(InvEight * D)
        data == KeysIn(ring) \o CommitmentsIn(ring)
        mu == Weights(data \o <<image, D8, pseudo>>)
        c[j \in 1..n] ==
            IF j = 1 THEN Challenge(data, pseudo, message, Scalar(rnd.a + rnd.b * LogT), Scalar(rnd.a * Hp))
            ELSE LET i == At(j - 1) IN
                 Challenge(data, pseudo, message,
                           LPoint(ring[i], pseudo, c[j - 1], mu, rnd.sx[i], rnd.sy[i]),
                           RPoint(ring[i], c[j - 1], mu, rnd.sx[i], image, D))
    IN [sx |-> [rnd.sx EXCEPT ![real + 1] = Scalar(rnd.a - c[n] * (mu.p * k.x + mu.c * k.z))],
        sy |-> [rnd.sy EXCEPT ![real + 1] = Scalar(rnd.b - c[n] * mu.p * k.y)],
        c1 |-> c[StepsToZero(real, n)],
        I |-> image,
        D |-> D8]

\* The challenges of a verifier, once around from c1.
GoesRound(sig, ring, pseudo, message, data, mu, D) ==
    LET c[j \in 0..Len(ring)] ==
            IF j = 0 THEN sig.c1
            ELSE Challenge(data, pseudo, message,
                           LPoint(ring[j], pseudo, c[j - 1], mu, sig.sx[j], sig.sy[j]),
                           RPoint(ring[j], c[j - 1], mu, sig.sx[j], sig.I, D))
    IN c[Len(ring)] = sig.c1

TclsagVerify(message, sig, ring, pseudo) ==
    LET data == KeysIn(ring) \o CommitmentsIn(ring)
    IN GoesRound(sig, ring, pseudo, message, data,
                 Weights(data \o <<sig.I, sig.D, pseudo>>), Scalar(8 * sig.D))

\* clsagVerify hashes the differences where clsagSign hashes the commitments, in
\* another order, and takes D as it is in the signature.
ClsagVerify(message, sig, ring, pseudo) ==
    LET diffs == Differences(ring, pseudo)
    IN GoesRound(sig, ring, pseudo, message, KeysIn(ring) \o diffs,
                 Weights(KeysIn(ring) \o <<sig.I, sig.D>> \o diffs), sig.D)

-----------------------------------------------------------------------------
(* What to spend and what it costs. *)

\* estimateTransactionFee: by weight, which grows with inputs and outputs.
EstimatedFee(inputs, outputs) ==
    WeightBase + WeightPerInput * inputs + WeightPerOutput * outputs

\* The outputs of the purse, the largest first; their amounts differ.
Largest == SetToSortSeq(DOMAIN Purse, LAMBDA o, p : Purse[o].amount > Purse[p].amount)

AmountsOf(ins) == SumOf([i \in DOMAIN ins |-> Purse[ins[i]].amount])

\* What n inputs must come to, by the rough fee per input.
Required(target, feePerInput, n) == target + feePerInput * n

\* selectUTXOs: the numbers of inputs that are enough; the least one is taken.
Enough(target, feePerInput) ==
    {n \in 1..Cardinality(DOMAIN Purse) :
        /\ n <= MostInputs
        /\ AmountsOf(SubSeq(Largest, 1, n)) >= Required(target, feePerInput, n)}

Least(ns) == CHOOSE n \in ns : \A m \in ns : n <= m

Thrown == stage' = "thrown" /\ UNCHANGED tx

\* transfer, with and without subtractFeeFromAmount, stake and burn: the guess
\* is for two inputs, the fee for the inputs that were selected.
Select(kind, amount, type) ==
    LET paid == IF kind \in {"transfer", "lessFee"} THEN 1 ELSE 0
        guess == EstimatedFee(2, paid + 1)
        target == IF kind = "lessFee" THEN amount ELSE amount + guess
        ns == Enough(target, guess \div 2)
        ins == SubSeq(Largest, 1, Least(ns))
        change == IF kind = "burn" \/ AmountsOf(ins) > Required(target, guess \div 2, Len(ins))
                  THEN 1 ELSE 0
        fee == EstimatedFee(Len(ins), paid + change)
        pays == IF kind = "lessFee" THEN amount - fee ELSE amount
    IN /\ stage = "idle"
       /\ IF ns = {} \/ pays <= 0 THEN Thrown
          ELSE /\ stage' = "selected"
               /\ tx' = [NoTx EXCEPT !.kind = kind, !.rctType = type, !.ins = ins, !.fee = fee,
                                     !.pays = IF paid = 1 THEN pays ELSE 0,
                                     !.burnt = IF paid = 1 THEN 0 ELSE pays]

\* sweep: all of them, up to a limit, to one address and without change.
Sweep(type) ==
    LET n == Least({MostInputs, Len(Largest)})
        ins == SubSeq(Largest, 1, n)
        fee == EstimatedFee(n, 1)
    IN /\ stage = "idle"
       /\ IF AmountsOf(ins) <= fee THEN Thrown
          ELSE /\ stage' = "selected"
               /\ tx' = [NoTx EXCEPT !.kind = "sweep", !.rctType = type, !.ins = ins, !.fee = fee,
                                     !.pays = AmountsOf(ins) - fee]

\* convert gives buildConvertTransaction the asset types with the options, where
\* it does not look for them: it throws whatever the arguments are.  So does
\* buildAuditTransaction, which has no output to prove the range of.
ConvertOrAudit == stage = "idle" /\ Thrown

\* An answer of the daemon is missing: getInfo, getOutputIndexes, getOuts.
CallFails == stage \in {"idle", "selected"} /\ Thrown

\* prepareInputs: the real output among the ring members, by index.
PrepareInputs ==
    /\ stage = "selected"
    /\ \E reals \in [DOMAIN tx.ins -> 0..Len(DecoySeq)] :
          tx' = [tx EXCEPT !.rings = [i \in DOMAIN tx.ins |->
                    [real |-> reals[i],
                     members |-> InsertAt(DecoySeq, reals[i] + 1,
                        [key |-> PublicKey(tx.ins[i]),
                         commitment |-> Commit(Purse[tx.ins[i]].amount, Purse[tx.ins[i]].mask)])]]]
    /\ stage' = "prepared"

-----------------------------------------------------------------------------
(* buildTransaction. *)

ChangeOf(t) == AmountsOf(t.ins) - t.pays - t.fee - t.burnt

\* The amounts of the outputs: what is paid, and the change if there is any.  A
\* sweep has no change address, and no change.
OutAmounts(t) ==
    (IF t.kind \in {"transfer", "lessFee", "sweep"} THEN <<t.pays>> ELSE <<>>)
      \o (IF ChangeOf(t) > 0 /\ t.kind # "sweep" THEN <<ChangeOf(t)>> ELSE <<>>)

\* The inputs by descending key image, with their rings.
ByKeyImage(t) ==
    SetToSortSeq(DOMAIN t.ins, LAMBDA i, j : KeyImage(t.ins[i]) > KeyImage(t.ins[j]))

\* CARROT outputs are sorted by one-time address: any order.
Orders(n, type) ==
    IF type = 9 THEN {p \in [1..n -> 1..n] : \A i, j \in 1..n : i # j => p[i] # p[j]}
    ELSE {[i \in 1..n |-> i]}

\* The outputs with their masks, and both sides in their order.  Without any
\* output there is no key for the ephemeral one, and nothing to prove.
BuildOutputs ==
    LET amounts == OutAmounts(tx) IN
    /\ stage = "prepared"
    /\ IF ChangeOf(tx) < 0 \/ amounts = <<>> THEN Thrown
       ELSE /\ stage' = "built"
            /\ \E masks \in [DOMAIN amounts -> Masks], p \in Orders(Len(amounts), tx.rctType) :
                 tx' = [tx EXCEPT
                    !.outs = [j \in DOMAIN amounts |-> [amount |-> amounts[p[j]], mask |-> masks[p[j]]]],
                    !.ins = [i \in DOMAIN @ |-> tx.ins[ByKeyImage(tx)[i]]],
                    !.rings = [i \in DOMAIN @ |-> tx.rings[ByKeyImage(tx)[i]]]]

MasksOf(outs) == [j \in DOMAIN outs |-> outs[j].mask]

\* computePseudoOutputs: any masks but the last, which makes the sums equal.
ComputePseudoOutputs ==
    /\ stage = "built"
    /\ \E random \in [1..Len(tx.ins) - 1 -> Masks] :
          tx' = [tx EXCEPT !.pseudoMasks =
                   random \o <<Scalar(SumOf(MasksOf(tx.outs)) - SumOf(random))>>]
    /\ stage' = "signing"

PseudoOut(t, i) == Commit(Purse[t.ins[i]].amount, t.pseudoMasks[i])
OutPk(t, j) == Commit(t.outs[j].amount, t.outs[j].mask)

\* computePR.
PR(t) == Scalar(SumOf(t.pseudoMasks) - SumOf(MasksOf(t.outs)))

\* getPreMlsagHash: of the prefix and of the RingCT base.
Message(t) ==
    HashToScalar(PREFIX, [i \in DOMAIN t.ins |-> KeyImage(t.ins[i])]
                           \o [j \in DOMAIN t.outs |-> OutPk(t, j)] \o <<t.fee, t.burnt, PR(t)>>)

\* The secrets of one input.  prepareInputs hands on no secretKeyY, so y is 0.
Secrets(t, i) ==
    [x |-> Purse[t.ins[i]].x, y |-> 0, z |-> Scalar(Purse[t.ins[i]].mask - t.pseudoMasks[i])]

\* The random scalars of a signature, as they are drawn; a CLSAG has only those of G.
Draw(r, n, type) ==
    LET Twin(k) == IF type = 9 THEN r[k] ELSE 0
    IN [a |-> r[1], b |-> Twin(2), sx |-> [j \in 1..n |-> r[2 * j + 1]],
        sy |-> [j \in 1..n |-> Twin(2 * j + 2)]]

\* The next input is signed; after the last one the transaction is complete.
SignInput ==
    LET i == Len(tx.sigs) + 1 IN
    /\ stage = "signing"
    /\ \E r \in RandomSeqs :
          tx' = [tx EXCEPT !.sigs = Append(@,
                   TclsagSign(Message(tx), tx.rings[i].members, Secrets(tx, i),
                              PseudoOut(tx, i), tx.rings[i].real,
                              Draw(r, Len(tx.rings[i].members), tx.rctType)))]
    /\ stage' = IF i = Len(tx.ins) THEN "signed" ELSE "signing"

-----------------------------------------------------------------------------
TxInit == stage = "idle" /\ tx = NoTx

TxNext ==
    \/ \E kind \in {"transfer", "lessFee", "stake", "burn"}, amount \in Wishes, type \in RctTypes :
          Select(kind, amount, type)
    \/ \E type \in RctTypes : Sweep(type)
    \/ ConvertOrAudit \/ CallFails
    \/ PrepareInputs \/ BuildOutputs \/ ComputePseudoOutputs \/ SignInput

-----------------------------------------------------------------------------
TxTypeOK ==
    /\ stage \in {"idle", "selected", "prepared", "built", "signing", "signed", "thrown"}
    /\ tx.fee \in Nat /\ tx.rctType \in RctTypes \union {9}
    /\ ToSet(tx.ins) \subseteq DOMAIN Purse /\ Len(tx.sigs) <= Len(tx.ins)

Verifies(t, i) ==
    IF t.rctType = 9
    THEN TclsagVerify(Message(t), t.sigs[i], t.rings[i].members, PseudoOut(t, i))
    ELSE ClsagVerify(Message(t), t.sigs[i], t.rings[i].members, PseudoOut(t, i))

\* A transaction that is complete keeps the sum: its pseudo outputs commit to
\* what its outputs, its fee and its burnt amount come to, and every TCLSAG of an
\* output without a T component closes for the ring, the key image and the
\* pseudo output of its own input, wherever that is in the ring and in the sort.
TransactionsHold ==
    stage = "signed" =>
        /\ Scalar(SumOf([i \in DOMAIN tx.ins |-> PseudoOut(tx, i)]))
             = Scalar(SumOf([j \in DOMAIN tx.outs |-> OutPk(tx, j)])
                        + PR(tx) + (tx.fee + tx.burnt) * LogH)
        /\ \A i \in DOMAIN tx.ins :
             /\ tx.sigs[i].I = KeyImage(tx.ins[i])
             /\ tx.rctType = 9 /\ Purse[tx.ins[i]].y = 0 => Verifies(tx, i)

\* A signature made here is accepted by the verifier made for it.
OwnSignaturesVerify == stage = "signed" => \A i \in DOMAIN tx.ins : Verifies(tx, i)
=============================================================================
