------------------------------ MODULE Spending ------------------------------
(***************************************************************************)
(* Which outputs a transaction spends, what it pays for that and what comes  *)
(* back as change: UTXO selection, fees, the functions of wallet/transfer.js  *)
(* and the ones of the Wallet class, over the coins of one wallet.  Amounts   *)
(* are in units of the base fee per byte; rings have 16 members.             *)
(***************************************************************************)
EXTENDS Integers, FiniteSets, Sequences, SequencesExt

CONSTANTS
    PurseAmounts,   \* what others pay the wallet
    SpendAmounts,       \* what the wallet pays, stakes, burns, converts
    Slips,          \* slippage limits; 0 stands for none given
    Priorities,     \* priorities of Multiplier
    DustLimit,      \* selectUTXOs ignores outputs below
    MostSelected,   \* maxInputs of selectUTXOs
    MostSwept,      \* MAX_SWEEP_INPUTS
    Confirmations,  \* DEFAULT_UNLOCK_BLOCKS, minConfirmations, unlockBlocks
    MostCoins, MostSent, LastHeight  \* bounds: payments to the wallet, transactions, blocks

ASSUME SpendingAssumption ==
    /\ PurseAmounts \union SpendAmounts \subseteq Nat \ {0}
    /\ Priorities \subseteq {"low", "default", "high", "highest"}
    /\ DustLimit \in Nat /\ Confirmations \in Nat
    /\ MostSelected \in Nat \ {0} /\ MostSwept \in Nat \ {0}

VARIABLES
    purse,      \* the unspent outputs of the wallet
    spendHeight,        \* height of the daemon, and of the wallet
    account,     \* what came in and went out, of each asset
    built,     \* the last call: what it was, and the transaction or why there is none
    asked      \* its priority, and what the selection left over (changeAmount)

spendVars == <<purse, spendHeight, account, built, asked>>

SpendAssets == {"SAL", "VSD"}
Worth(s) ==
    LET upTo[i \in 0 .. Len(s)] == IF i = 0 THEN 0 ELSE upTo[i - 1] + s[i].amount
    IN upTo[Len(s)]

-----------------------------------------------------------------------------
(* Fees. *)

Multiplier == [low |-> 1, default |-> 5, high |-> 25, highest |-> 1000]

\* The least l with 2^l >= outputs.
LogPadded(outs) == CHOOSE l \in 0 .. outs : 2^l >= outs /\ (l > 0 => 2^(l - 1) < outs)

\* estimateTxSize for Bulletproofs+ and CLSAG: prefix, inputs with their ring
\* signatures, outputs, range proof.
EstimateTxSize(ins, outs) ==
    LET ring == 16
        input == 1 + 6 + 4 + 2 * ring + 32
        signature == 32 * ring + 64 + 32
        output == 2 + 4 + 6 + 32 + 1
        proof == 32 * (2 * (6 + LogPadded(outs)) + 6) + 3
    IN 1 + 6 + (input + signature) * ins + (output + 8 + 32) * outs + 1 + proof + 4 + 32

\* estimateTxWeight: what a proof for many outputs saves is added again.
EstimateTxWeight(ins, outs) ==
    LET log == Max({2, LogPadded(outs)})
        base == (32 * (6 + 7 * 2)) \div 2
        size == 32 * (6 + 2 * (6 + log))
    IN EstimateTxSize(ins, outs)
         + IF outs > 2 THEN ((base * 2^log - size) * 4) \div 5 ELSE 0

EstimateTransactionFee(ins, outs, priority) ==
    EstimateTxWeight(ins, outs) * Multiplier[priority]

-----------------------------------------------------------------------------
(* Selection. *)

Old(c) == spendHeight - c.at >= Confirmations
Ripe(asset) == {c \in purse : c.asset = asset /\ Old(c)}

Precedes(strategy, c, d) ==
    CASE strategy = "largest" -> c.amount >= d.amount
      [] strategy = "smallest" -> c.amount <= d.amount
      [] strategy = "fifo" -> c.at <= d.at
      [] OTHER -> TRUE

\* The orders a strategy can bring the coins into.
CoinOrders(S, strategy) ==
    {s \in SetToSeqs(S) : \A i, j \in DOMAIN s : i < j => Precedes(strategy, s[i], s[j])}

\* Seeded fault: the fee of the inputs is not counted.
SelectUTXOs_TargetOnly(s, target, per) ==
    LET long == {k \in 1 .. Min({Len(s), MostSelected}) : Worth(SubSeq(s, 1, k)) >= target}
    IN IF long = {} THEN <<>> ELSE SubSeq(s, 1, Min(long))

\* selectUTXOs over coins in an order: the shortest beginning that covers the
\* target and per for each coin, <<>> if there is none.
SelectUTXOs(s, target, per) ==
    LET long == {k \in 1 .. Min({Len(s), MostSelected}) :
                    Worth(SubSeq(s, 1, k)) >= target + per * k}
    IN IF long = {} THEN <<>> ELSE SubSeq(s, 1, Min(long))

Selected(asset, target, per, strategy) ==
    {SelectUTXOs(s, target, per) :
        s \in CoinOrders({c \in Ripe(asset) : c.amount >= DustLimit}, strategy)}

-----------------------------------------------------------------------------
(* Building. *)

NotAsked == [priority |-> "low", left |-> 0]
NoAttempt == [op |-> "none", failed |-> "none"]
NotBuilt(op, why) == [op |-> op, failed |-> why]

\* buildTransaction: the change is what inputs leave over, and is only paid out
\* if there is an address for it.  Change of a burn keeps its asset.
BuildTransaction(op, ins, paid, burnt, fee, keepsChange, to) ==
    LET from == ins[1].asset
        change == Worth(ins) - Worth(paid) - burnt - fee
        back == [amount |-> change, asset |-> IF op = "burn" THEN from ELSE to]
        outs == paid \o IF change > 0 /\ keepsChange THEN <<back>> ELSE <<>>
    IN CASE change < 0 -> NotBuilt(op, "insufficient")
         [] change >= 0 /\ outs = <<>> -> NotBuilt(op, "no outputs")
         [] OTHER -> [op |-> op, failed |-> "no", ins |-> ins, outs |-> outs, paid |-> paid,
                      burnt |-> burnt, fee |-> fee, asset |-> from]

BuildStakeTransaction(ins, amount, fee) == BuildTransaction("stake", ins, <<>>, amount, fee, TRUE, "SAL")
BuildBurnTransaction(ins, amount, fee) == BuildTransaction("burn", ins, <<>>, amount, fee, TRUE, "BURN")
BuildConvertTransaction(ins, amount, fee, to) ==
    BuildTransaction("convert", ins, <<>>, amount, fee, TRUE, to)

\* Everything is locked, so that no output is left to build.
BuildAuditTransaction(ins, fee) ==
    BuildTransaction("audit", ins, <<>>, Worth(ins) - fee, fee, FALSE, "SAL1")

Paid(amounts) == [i \in DOMAIN amounts |-> [amount |-> amounts[i], asset |-> "SAL"]]
Plus(left) == IF left > 0 THEN 1 ELSE 0

\* Selects coins for the target and builds a transaction from them and what the
\* selection leaves over.
Call(op, asset, target, per, strategy, priority, Build(_, _)) ==
    /\ \E s \in Selected(asset, target, per, strategy) :
          LET left == Worth(s) - target - per * Len(s) IN
          /\ built' = IF s = <<>> THEN NotBuilt(op, "selection") ELSE Build(s, left)
          /\ asked' = [priority |-> priority, left |-> left]
    /\ UNCHANGED <<purse, spendHeight, account>>

-----------------------------------------------------------------------------
(* wallet/transfer.js: the first guess is for two inputs. *)

TransferCall(amounts, subtract, priority) ==
    LET n == Len(amounts)
        total == Worth(Paid(amounts))
        guess == EstimateTransactionFee(2, n + 1, priority)
        Build(s, left) ==
            LET fee == EstimateTransactionFee(Len(s), n + Plus(left), priority)
                first == IF subtract THEN amounts[1] - fee ELSE amounts[1]
            IN IF first <= 0 THEN NotBuilt("transfer", "too small")
               ELSE BuildTransaction("transfer", s, Paid([amounts EXCEPT ![1] = first]),
                                     0, fee, TRUE, "SAL")
    IN Call("transfer", "SAL", IF subtract THEN total ELSE total + guess, guess \div 2,
            "largest", priority, Build)

\* All there is, or the largest of it, to one address.
SweepCall(priority) ==
    /\ Ripe("SAL") # {}
    /\ \E s \in CoinOrders(Ripe("SAL"), "largest") :
          LET all == SubSeq(s, 1, Min({Len(s), MostSwept}))
              fee == EstimateTransactionFee(Len(all), 1, priority)
              amount == Worth(all) - fee
          IN built' = IF amount <= 0 THEN NotBuilt("sweep", "too small")
                      ELSE BuildTransaction("sweep", all, Paid(<<amount>>), 0, fee, FALSE, "SAL")
    /\ asked' = [priority |-> priority, left |-> 0]
    /\ UNCHANGED <<purse, spendHeight, account>>

\* stake() and burn(): nothing but change comes out.
StakeCall(amount, priority) ==
    LET guess == EstimateTransactionFee(2, 1, priority)
        Build(s, left) ==
            BuildStakeTransaction(s, amount, EstimateTransactionFee(Len(s), Plus(left), priority))
    IN Call("stake", "SAL", amount + guess, guess \div 2, "largest", priority, Build)

BurnCall(amount, priority) ==
    LET guess == EstimateTransactionFee(2, 1, priority)
        Build(s, left) ==
            BuildBurnTransaction(s, amount, EstimateTransactionFee(Len(s), 1, priority))
    IN Call("burn", "SAL", amount + guess, guess \div 2, "largest", priority, Build)

\* convert() gives its builder the assets under other names than it takes them by.
ConvertCall(amount, priority) ==
    LET guess == EstimateTransactionFee(2, 2, priority)
        Build(s, left) == NotBuilt("convert", "source asset required")
    IN Call("convert", "SAL", amount + guess, guess \div 2, "largest", priority, Build)

-----------------------------------------------------------------------------
(* The Wallet class: the target leaves the fee out, each input pays for one. *)

CreateTransaction(amounts, strategy, priority) ==
    LET n == Len(amounts)
        Build(s, left) ==
            BuildTransaction("create", s, Paid(amounts), 0,
                             EstimateTransactionFee(Len(s), n + Plus(left), priority), TRUE, "SAL")
    IN Call("create", "SAL", Worth(Paid(amounts)), EstimateTransactionFee(1, n + 1, priority),
            strategy, priority, Build)

\* What createStakeTransaction, createBurnTransaction and createConvertTransaction
\* have in common.
CreateBurning(op, from, amount, priority, Built(_, _)) ==
    LET Build(s, left) == Built(s, EstimateTransactionFee(Len(s), 1, priority))
    IN Call(op, from, amount, EstimateTransactionFee(1, 1, priority), "largest", priority, Build)

CreateStakeTransaction(amount, priority) ==
    CreateBurning("stake", "SAL", amount, priority,
                  LAMBDA s, fee : BuildStakeTransaction(s, amount, fee))

CreateBurnTransaction(amount, priority) ==
    CreateBurning("burn", "SAL", amount, priority,
                  LAMBDA s, fee : BuildBurnTransaction(s, amount, fee))

CreateConvertTransaction(amount, slip, from, priority) ==
    IF slip # 0 /\ slip < amount \div 32
    THEN /\ built' = NotBuilt("convert", "slippage below the minimum")
         /\ UNCHANGED <<purse, spendHeight, account, asked>>
    ELSE CreateBurning("convert", from, amount, priority,
             LAMBDA s, fee : BuildConvertTransaction(s, amount, fee,
                                                     CHOOSE a \in SpendAssets : a # from))

CreateAuditTransaction(priority) ==
    /\ Ripe("SAL") # {}
    /\ \E s \in CoinOrders(Ripe("SAL"), "any") :
          LET fee == EstimateTransactionFee(Len(s), 0, priority) IN
          built' = IF Worth(s) <= fee THEN NotBuilt("audit", "too small")
                   ELSE BuildAuditTransaction(s, fee)
    /\ UNCHANGED <<purse, spendHeight, account, asked>>

\* sweepAll leaves room for one fee in the amount, selectUTXOs asks for more.
SweepAll(priority) ==
    LET s == SetToSeq(Ripe("SAL"))
        fee == EstimateTransactionFee(Len(s), 1, priority)
    IN /\ s # <<>>
       /\ IF Worth(s) <= fee
          THEN /\ built' = NotBuilt("create", "too small")
               /\ UNCHANGED <<purse, spendHeight, account, asked>>
          ELSE CreateTransaction(<<Worth(s) - fee>>, "largest", priority)

\* sweepDust names the destination in a field that buildTransaction does not read.
SweepDust(threshold, priority) ==
    LET s == SetToSeq({c \in Ripe("SAL") : c.amount < threshold})
        fee == EstimateTransactionFee(Len(s), 1, priority)
    IN /\ s # <<>>
       /\ built' = NotBuilt("dust", IF Worth(s) <= fee THEN "too small" ELSE "no keys")
       /\ UNCHANGED <<purse, spendHeight, account, asked>>

-----------------------------------------------------------------------------
(* The daemon takes the transaction or not; blocks and payments of others. *)

NewCoin(n, out) == [id |-> n, amount |-> out.amount, asset |-> out.asset, at |-> spendHeight]

\* The change is a coin again; the rest is paid, burnt or a fee.
Sent ==
    /\ built.failed = "no"
    /\ LET change == SubSeq(built.outs, Len(built.paid) + 1, Len(built.outs))
           turned == SelectSeq(change, LAMBDA o : o.asset # built.asset)
       IN /\ purse' = (purse \ ToSet(built.ins))
                        \union {NewCoin(account.n + 1, change[i]) : i \in DOMAIN change}
          /\ account' = [account EXCEPT !.n = @ + Len(change), !.sent = @ + 1,
                                      !.paid = @ + Worth(built.paid),
                                      !.burnt = @ + built.burnt + built.fee,
                                      !.turned = @ + Worth(turned)]
    /\ built' = NoAttempt /\ asked' = NotAsked
    /\ UNCHANGED spendHeight

Dropped ==
    /\ built.failed # "none"
    /\ built' = NoAttempt /\ asked' = NotAsked
    /\ UNCHANGED <<purse, spendHeight, account>>

ReceiveCoin(amount) ==
    /\ account.n < MostCoins /\ account.sent = 0
    /\ purse' = purse \union {NewCoin(account.n + 1, [amount |-> amount, asset |-> "SAL"])}
    /\ account' = [account EXCEPT !.n = @ + 1, !.got = @ + amount]
    /\ UNCHANGED <<spendHeight, built, asked>>

NextHeight ==
    /\ spendHeight < LastHeight
    /\ spendHeight' = spendHeight + 1
    /\ UNCHANGED <<purse, account, built, asked>>

SpendInit ==
    /\ purse = {} /\ spendHeight = 1 /\ built = NoAttempt /\ asked = NotAsked
    /\ account = [n |-> 0, sent |-> 0, got |-> 0, paid |-> 0, burnt |-> 0, turned |-> 0]

SpendNext ==
    \/ \E a \in PurseAmounts : ReceiveCoin(a)
    \/ NextHeight \/ Sent \/ Dropped
    \/ /\ built = NoAttempt /\ account.sent < MostSent
       /\ \E p \in Priorities, a \in SpendAmounts :
             \/ \E more \in {<<>>, <<a>>}, sub \in BOOLEAN : TransferCall(<<a>> \o more, sub, p)
             \/ StakeCall(a, p) \/ BurnCall(a, p) \/ ConvertCall(a, p)
             \/ \E st \in {"largest", "smallest", "fifo", "random"} : CreateTransaction(<<a>>, st, p)
             \/ CreateStakeTransaction(a, p) \/ CreateBurnTransaction(a, p)
             \/ \E slip \in Slips, from \in SpendAssets : CreateConvertTransaction(a, slip, from, p)
    \/ /\ built = NoAttempt /\ account.sent < MostSent
       /\ \E p \in Priorities :
             \/ SweepCall(p) \/ CreateAuditTransaction(p) \/ SweepAll(p)
             \/ SweepDust(Min(SpendAmounts), p)

-----------------------------------------------------------------------------
SpendTypeOK ==
    /\ \A c \in purse : c.amount \in Nat /\ c.asset \in SpendAssets /\ c.at <= spendHeight
    /\ \A c, d \in purse : c.id = d.id => c = d

\* A transaction balances: what its inputs are worth is paid, burnt, comes back
\* or is the fee, and nothing is spent that is too young.
Balances ==
    built.failed = "no" =>
        /\ Worth(built.ins) = Worth(built.outs) + built.burnt + built.fee
        /\ ToSet(built.ins) \subseteq Ripe(built.asset)
        /\ IsInjective(built.ins)

\* The fee is the one of the inputs and outputs it has in the end, unless the
\* selection left exactly nothing over and the guess did.
PaysItsWay ==
    built.failed = "no" /\ (asked.left > 0 \/ built.op = "sweep") =>
        built.fee >= EstimateTransactionFee(Len(built.ins), Len(built.outs), asked.priority)

\* Once enough has been selected, a call does not run short of it.
EnoughIsEnough == built.failed # "insufficient"

\* What came in is in the purse or has gone out.  The change of a conversion is
\* in the purse too, as coins of the other asset.
KeepsValue ==
    account.got = Worth(SetToSeq(purse)) + account.paid + account.burnt

\* Selection, fees, change and the way back into the purse, for every call.
SpendsHold == Balances /\ PaysItsWay /\ EnoughIsEnough /\ KeepsValue
=============================================================================
