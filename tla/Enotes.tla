------------------------------- MODULE Enotes -------------------------------
(***************************************************************************)
(* What a sender puts in an output and what a wallet recognises in it:       *)
(* createOutput and the two branches of buildTransaction (transaction.js),   *)
(* carrot-output.js, miner-tx.js, and on the other side scanning.js,         *)
(* carrot-scanning.js and _scanOutputs of wallet-sync.js.                    *)
(*                                                                         *)
(* Points, scalars and hashes are free terms: a Diffie-Hellman point is its  *)
(* base with the set of scalars it was multiplied by, a hash is the record   *)
(* of what is hashed, and two terms are equal only when they are built       *)
(* alike. A view tag is short, so that a foreign one may also match.         *)
(* Key images are named by the output they belong to; their byte order,      *)
(* which the builder sorts by, is any order.                                 *)
(***************************************************************************)
EXTENDS SequencesExt, Integers

CONSTANTS
    Holders,        \* wallets
    SubIndices,     \* their subaddresses; 0 is the main address
    Coin,           \* what a block pays
    MostDests,      \* destinations of a transfer
    MaxMined,       \* bound on the blocks that pay a wallet
    MaxPaid,        \* bound on the transfers
    NoHolder

ASSUME EnotesAssumption ==
    /\ 0 \notin SubIndices /\ NoHolder \notin Holders
    /\ Coin \in Nat \ {0} /\ {MostDests, MaxMined, MaxPaid} \subseteq Nat

VARIABLES
    era,        \* "cn" until the CARROT fork, then "carrot"
    ledger,     \* the transactions of the chain
    tables,     \* the outputs each wallet knows
    scanned     \* how far each wallet has scanned

enotesVars == <<era, ledger, tables, scanned>>

-----------------------------------------------------------------------------
(* Terms. *)

Places == [owner : Holders, sub : {0} \cup SubIndices]
Generator == [owner |-> NoHolder, sub |-> 0]
Main(w) == [owner |-> w, sub |-> 0]

Point(base, by) == [base |-> base, by |-> by]
Multiplied(point, scalar) == [point EXCEPT !.by = @ \cup {scalar}]

\* k_v G for a main address, k_v K_s of the subaddress for the others.
ViewKey(to) == Point(IF to.sub = 0 THEN Generator ELSE to, {to.owner})

NoContext == <<"none", 0, 0>>
NoSecret == [point |-> Point(Generator, {}), pub |-> Point(Generator, {}),
             context |-> NoContext, index |-> 0]
MaskOf(secret, amount, spend, kind) ==
    [secret |-> secret, amount |-> amount, spend |-> spend, kind |-> kind]
UnitMask == MaskOf(NoSecret, 0, Generator, "unit")
Commitment(amount, mask) == [amount |-> amount, mask |-> mask]
NoCommitment == Commitment(0, UnitMask)

\* The secret both sides share about output i of a transaction: legacy outputs
\* hash the derivation with their index, CARROT outputs the ephemeral key and
\* the input context, and no index.
LegacySecret(point, i) == [NoSecret EXCEPT !.point = point, !.index = i]
CarrotSecret(point, pub, context) ==
    [NoSecret EXCEPT !.point = point, !.pub = pub, !.context = context]

OnetimeKey(spend, secret, commitment) ==
    [spend |-> spend, secret |-> secret, commitment |-> commitment]

-----------------------------------------------------------------------------
(* Sending. *)

\* createOutput: the derivation is taken from the view key whatever the kind of
\* address, and keys and masks do not depend on the amount.
LegacyEnote(nonce, i, p) ==
    LET secret == LegacySecret(Multiplied(ViewKey(p.to), nonce), i)
    IN  [index |-> i, key |-> OnetimeKey(p.to, secret, NoCommitment), paid |-> p,
         commitment |-> Commitment(p.amount, IF p.kind = "coinbase" THEN UnitMask
                                             ELSE MaskOf(secret, 0, Generator, "payment"))]

\* createCarrotOutput, and the CARROT branch of buildTransaction.
CarrotEnote(nonce, pub, context, i, p) ==
    LET secret == CarrotSecret(Multiplied(ViewKey(p.to), nonce), pub, context)
        commitment == Commitment(p.amount, IF p.kind = "coinbase" THEN UnitMask
                                           ELSE MaskOf(secret, p.amount, p.to, p.kind))
    IN  [index |-> i, key |-> OnetimeKey(p.to, secret, commitment), paid |-> p,
         commitment |-> commitment]

\* The ephemeral key of a CARROT transaction, from its first destination.
EphemeralKey(nonce, lead) ==
    Point(IF lead.sub = 0 THEN Generator ELSE lead, {nonce})

\* The outputs that pay ps, in this order.
EnotesOf(nonce, pub, context, ps) ==
    {IF era = "cn" THEN LegacyEnote(nonce, i, ps[i])
     ELSE CarrotEnote(nonce, pub, context, i, ps[i]) : i \in DOMAIN ps}

\* createMinerTransaction: one output to the miner's main address.
Mined(w) ==
    LET n == Len(ledger) + 1
        context == <<"height", n, 0>>
        pub == EphemeralKey(n, Main(w))
        ps == <<[to |-> Main(w), amount |-> Coin, kind |-> "coinbase"]>>
    IN  /\ Cardinality({k \in DOMAIN ledger : ledger[k].images = {}}) < MaxMined
        /\ ledger' = Append(ledger,
             [era |-> era, pub |-> pub, images |-> {}, used |-> context, stored |-> context,
              lead |-> Main(w), outs |-> EnotesOf(n, pub, context, ps)])
        /\ UNCHANGED <<era, tables, scanned>>

\* The name of an output's key image: equal keys have equal images.
Image(n, o) == <<n, Min({p.index : p \in {q \in ledger[n].outs : q.key = o.key}})>>
EnoteAt(image) == CHOOSE o \in ledger[image[1]].outs : o.index = image[2]
SpentImages == UNION {ledger[n].images : n \in DOMAIN ledger}

Opens(r) == EnoteAt(r.image).commitment = Commitment(r.amount, r.mask)

\* What transfer() may select: unspent, and with a commitment when it is a
\* CARROT output. deriveOutputSecretKey throws on a CARROT subaddress, and the
\* network refuses what is spent or is signed with a mask that does not open.
Usable(w) == {r \in tables[w] :
    /\ ~r.spent /\ (r.carrot => r.committed /\ r.sub = 0)
    /\ r.image \notin SpentImages /\ Opens(r)}

\* The amounts of the records of S together, and of those in the list s.
AmountOf(S) ==
    LET sum[T \in SUBSET S] ==
          IF T = {} THEN 0 ELSE LET r == CHOOSE r \in T : TRUE IN r.amount + sum[T \ {r}]
    IN  sum[S]
AmountIn(s) ==
    LET sum[k \in 0 .. Len(s)] == IF k = 0 THEN 0 ELSE sum[k - 1] + s[k].amount
    IN  sum[Len(s)]

\* The destinations and, when something is left, the change.
Payments(w, dests, total) ==
    LET spent == AmountIn(dests)
        wanted == [i \in DOMAIN dests |->
                     [to |-> dests[i].to, amount |-> dests[i].amount, kind |-> "payment"]]
    IN  IF spent = total THEN wanted
        ELSE Append(wanted, [to |-> Main(w), amount |-> total - spent, kind |-> "change"])

\* buildTransaction. The context is made from the key image of the input that
\* was selected first; the inputs are sorted after that, and top comes first.
Pay(w, rs, dests, first, top) ==
    LET n == Len(ledger) + 1
        total == AmountOf(rs)
        ps == Payments(w, dests, total)
        context == <<"ring", first.image[1], first.image[2]>>
        pub == IF era = "cn" THEN Point(Generator, {n}) ELSE EphemeralKey(n, ps[1].to)
    IN  /\ Cardinality({k \in DOMAIN ledger : ledger[k].images # {}}) < MaxPaid
        /\ AmountIn(dests) <= total
        /\ ledger' = Append(ledger,
             [era |-> era, pub |-> pub, images |-> {r.image : r \in rs}, used |-> context,
              stored |-> <<"ring", top.image[1], top.image[2]>>,
              lead |-> ps[1].to, outs |-> EnotesOf(n, pub, context, ps)])
        /\ UNCHANGED <<era, tables, scanned>>

-----------------------------------------------------------------------------
(* Scanning. *)

\* The secret wallet w computes for output o of tx.
\* Seeded fault: a CARROT wallet takes its own context, not the transaction's.
SecretFor_NoContext(w, tx, o) ==
    IF tx.era = "cn" THEN LegacySecret(Multiplied(tx.pub, w), o.index)
    ELSE CarrotSecret(Multiplied(tx.pub, w), tx.pub, NoContext)

SecretFor(w, tx, o) ==
    IF tx.era = "cn" THEN LegacySecret(Multiplied(tx.pub, w), o.index)
    ELSE CarrotSecret(Multiplied(tx.pub, w), tx.pub, tx.stored)

\* scanCarrotOutput and _scanCNOutput: the tag first, then the spend key that
\* is left when the extension is taken off is looked up among one's own. The
\* tags of the outputs in alike match although they are somebody else's.
Recognised(w, tx, o, alike) ==
    /\ o.key.secret = SecretFor(w, tx, o) \/ o \in alike
    /\ o.key.secret = SecretFor(w, tx, o) /\ o.key.spend.owner = w

\* The record that is stored. The mask of a CARROT output is derived for a
\* payment, a legacy coinbase output is spent with mask one, and a coinbase
\* output has no commitment in its record.
RecordOf(w, n, o) ==
    LET tx == ledger[n]
        secret == SecretFor(w, tx, o)
    IN  [image |-> Image(n, o), sub |-> o.key.spend.sub, amount |-> o.paid.amount,
         carrot |-> tx.era = "carrot", committed |-> tx.images # {}, spent |-> FALSE,
         mask |-> CASE tx.era = "carrot" -> MaskOf(secret, o.paid.amount, o.key.spend, "payment")
                    [] tx.era = "cn" /\ tx.images = {} -> UnitMask
                    [] OTHER -> MaskOf(secret, 0, Generator, "payment")]

\* _scanOutputs and the marking of spent outputs, for the next transaction.
ScanNext(w, alike) ==
    LET n == scanned[w] + 1
        tx == ledger[n]
        found == {RecordOf(w, n, o) : o \in {q \in tx.outs : Recognised(w, tx, q, alike)}}
    IN  /\ tables' = [tables EXCEPT ![w] =
             found \cup {[r EXCEPT !.spent = @ \/ r.image \in tx.images] : r \in @}]
        /\ scanned' = [scanned EXCEPT ![w] = n]
        /\ UNCHANGED <<era, ledger>>

\* The CARROT fork.
Fork == era = "cn" /\ era' = "carrot" /\ UNCHANGED <<ledger, tables, scanned>>

EnotesInit ==
    /\ era = "cn" /\ ledger = <<>>
    /\ tables = [w \in Holders |-> {}] /\ scanned = [w \in Holders |-> 0]

EnotesNext ==
    \/ Fork
    \/ \E w \in Holders :
         \/ Mined(w)
         \/ /\ scanned[w] < Len(ledger)
            /\ \E alike \in SUBSET ledger[scanned[w] + 1].outs : ScanNext(w, alike)
         \/ \E rs \in SUBSET Usable(w) : \E first, top \in rs :
              \E k \in 1..MostDests :
                \E dests \in [1..k -> [to : Places, amount : 1..Coin]] :
                  Pay(w, rs, dests, first, top)

EnotesSpec == EnotesInit /\ [][EnotesNext]_enotesVars

-----------------------------------------------------------------------------
(* Properties. *)

EnotesTypeOK ==
    /\ era \in {"cn", "carrot"}
    /\ \A n \in DOMAIN ledger : ledger[n].lead \in Places
    /\ scanned \in [Holders -> 0..Len(ledger)]
    /\ \A w \in Holders : \A r \in tables[w] : r.sub \in {0} \cup SubIndices

\* What a wallet knows is its own, under the right address and with the right
\* amount, whoever else's outputs carry a view tag that looks like one of its.
FoundIsOwn ==
    \A w \in Holders : \A r \in tables[w] :
        LET o == EnoteAt(r.image)
        IN  o.paid.to = [owner |-> w, sub |-> r.sub] /\ o.paid.amount = r.amount

\* The outputs both sides agree about: to a main address, or to the subaddress
\* the ephemeral key was made for, in a transaction whose first selected input
\* still stands first, and not the twin of another output.
Agreed(tx, o) ==
    /\ tx.used = tx.stored
    /\ IF tx.era = "cn" THEN o.paid.to.sub = 0
       ELSE o.paid.to = tx.lead \/ (o.paid.to.sub = 0 /\ tx.lead.sub = 0)
    /\ \A p \in tx.outs : p.key = o.key => p = o

\* Such an output is in its owner's table once scanned, and its mask opens the
\* commitment, unless it is CARROT change or a CARROT coinbase.
AgreedIsFound ==
    \A w \in Holders : \A n \in 1..scanned[w] : \A o \in ledger[n].outs :
        o.paid.to.owner = w /\ Agreed(ledger[n], o) =>
            \E r \in tables[w] :
                /\ r.image = Image(n, o)
                /\ ledger[n].era = "cn" \/ o.paid.kind = "payment" => Opens(r)

\* What each wallet takes for its own and unspent.
Holdings ==
    UNION {{[by |-> w, record |-> r, amount |-> r.amount] : r \in {q \in tables[w] : ~q.spent}} :
               w \in Holders}

\* When every wallet has scanned everything, their unspent outputs are worth no
\* more than what was mined.
NothingFromNothing ==
    (\A w \in Holders : scanned[w] = Len(ledger)) =>
        AmountOf(Holdings)
        <= Coin * Cardinality({n \in DOMAIN ledger : ledger[n].images = {}})

\* Sender and receiver agree about the outputs, see the three parts.
EnotesHold == FoundIsOwn /\ AgreedIsFound /\ NothingFromNothing

\* Every output is in the table of the wallet it was made for once that wallet
\* has scanned it.
OutputsAreFound ==
    \A w \in Holders : \A n \in 1..scanned[w] : \A o \in ledger[n].outs :
        o.paid.to.owner = w => \E r \in tables[w] : r.image = Image(n, o)
=============================================================================
