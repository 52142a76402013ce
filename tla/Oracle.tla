------------------------------- MODULE Oracle -------------------------------
(***************************************************************************)
(* Pricing records and conversions.  The oracle signs a record of prices; a   *)
(* client fetches it, keeps it as JSON, checks it against a block and converts *)
(* an amount of one asset into another and back.                              *)
(***************************************************************************)
EXTENDS Integers, Sequences

CONSTANTS
    OracleCoin, RateRounding,       \* COIN, CONVERSION_RATE_ROUNDING
    SlippageShift,                  \* 5: one part in 32
    ExactLimit,                     \* numbers that a double holds exactly: 2^53
    FreshLimit,                     \* PRICING_RECORD_VALID_TIME_DIFF_FROM_BLOCK
    OracleFork, OracleForks,        \* HF_VERSION_SLIPPAGE_YIELD, versions asked about
    Prices, Supplies, RecordTimes,  \* what a record may say
    BlockTimes, Traded, SlippageLimits

ASSUME OracleAssumption ==
    /\ {OracleCoin, RateRounding, 2 ^ SlippageShift} \subseteq Nat \ {0}
    /\ OracleCoin % RateRounding = 0
    /\ ExactLimit \in Nat
    /\ Prices \union Supplies \union Traded \subseteq Nat

VARIABLES
    quote   \* a record on its way, or a conversion made with it

oracleVars == <<quote>>

-----------------------------------------------------------------------------
(* Records. *)

PricedAssets == {"SAL", "SAL1", "VSD"}
AllAssets == PricedAssets \union {"BURN"}
NoSignature == <<>>

\* An asset that the record does not list has the price 0.
PricingRecord(prices, supply, time, signature) ==
    [prices |-> prices, supply |-> supply, time |-> time, signature |-> signature]
EmptyPricingRecord == PricingRecord([a \in PricedAssets |-> 0], 0, 0, NoSignature)
IsPricingRecordEmpty(pr) == pr = EmptyPricingRecord

\* A double keeps half of the numbers above the limit.
AsNumber(n) == IF n <= ExactLimit THEN n ELSE n - (n % 2)
AsNumbers(pr) ==
    [pr EXCEPT !.prices = [a \in PricedAssets |-> AsNumber(pr.prices[a])],
               !.supply = AsNumber(pr.supply)]

\* What the signature covers, the numbers of the record as numbers.
SignatureMessage(pr) ==
    LET said == AsNumbers(pr) IN <<said.prices, said.supply, said.time>>

\* The oracle signs the numbers themselves.
SignedBy(key, pr) == [pr EXCEPT !.signature = <<key, <<pr.prices, pr.supply, pr.time>>>>]
VerifySignature(pr, key) == pr.signature = <<key, SignatureMessage(pr)>>

\* JSON holds the numbers of an answer as numbers, those of a record that the
\* program keeps as text, digit by digit.
DigitsOf(n) ==
    LET text[m \in 0 .. n] ==
            IF m < 10 THEN <<m>> ELSE Append(text[m \div 10], m % 10)
    IN text[n]
FromText(text) ==
    LET value[i \in 0 .. Len(text)] == IF i = 0 THEN 0 ELSE (10 * value[i - 1]) + text[i]
    IN value[Len(text)]
PricingRecordToJson(pr) ==
    [pr EXCEPT !.prices = [a \in PricedAssets |-> DigitsOf(pr.prices[a])],
               !.supply = DigitsOf(pr.supply)]
ParseKept(json) ==
    [json EXCEPT !.prices = [a \in PricedAssets |-> FromText(json.prices[a])],
                 !.supply = FromText(json.supply)]

\* validatePricingRecord.
ValidPricingRecord(pr, key, fork, block, last) ==
    \/ IsPricingRecordEmpty(pr)
    \/ /\ fork >= OracleFork
       /\ VerifySignature(pr, key)
       /\ pr.time <= block + FreshLimit
       /\ last > 0 => pr.time > last

-----------------------------------------------------------------------------
(* Conversions. *)

Failed == [success |-> FALSE, minted |-> 0, slippage |-> 0, refund |-> FALSE]

\* Only what SAL and VSD become is looked at: SAL1 becomes either of them when the
\* record lists its price.
Pair(from, to) == (from = "SAL" => to = "VSD") /\ (from = "VSD" => to = "SAL")
AssetPrice(pr, asset) == IF asset \in PricedAssets THEN pr.prices[asset] ELSE 0

\* getConversionRate has an answer, which may be rounded to 0.
HasRate(pr, from, to) ==
    /\ to # "BURN"
    /\ from # to => /\ Pair(from, to)
                    /\ AssetPrice(pr, from) # 0 /\ AssetPrice(pr, to) # 0

\* The rate; 0 as well when there is none.
ConversionRate(pr, from, to) ==
    LET rate == (AssetPrice(pr, from) * OracleCoin) \div AssetPrice(pr, to)
    IN IF ~HasRate(pr, from, to) THEN 0
       ELSE IF from = to THEN OracleCoin
       ELSE rate - (rate % RateRounding)

ConvertedAmount(rate, amount) == (amount * rate) \div OracleCoin

Slippage(amount) == amount \div 2 ^ SlippageShift

\* Seeded fault: the whole amount is converted.
CalculateConversion_FreeSlippage(pr, from, to, amount, limit) ==
    LET rate == ConversionRate(pr, from, to)
        slippage == Slippage(amount)
    IN IF from = to \/ ~HasRate(pr, from, to) THEN Failed
       ELSE IF slippage > limit
       THEN [success |-> TRUE, minted |-> 0, slippage |-> slippage, refund |-> TRUE]
       ELSE IF rate = 0 \/ amount = 0 THEN Failed
       ELSE [success |-> TRUE, minted |-> ConvertedAmount(rate, amount),
             slippage |-> slippage, refund |-> FALSE]

\* calculateConversion: above the limit the amount is to be given back, whatever
\* the rate is; below it neither the rate nor what is left to convert may be 0.
CalculateConversion(pr, from, to, amount, limit) ==
    LET rate == ConversionRate(pr, from, to)
        slippage == Slippage(amount)
    IN IF from = to \/ ~HasRate(pr, from, to) THEN Failed
       ELSE IF slippage > limit
       THEN [success |-> TRUE, minted |-> 0, slippage |-> slippage, refund |-> TRUE]
       ELSE IF rate = 0 \/ amount = slippage THEN Failed
       ELSE [success |-> TRUE, minted |-> ConvertedAmount(rate, amount - slippage),
             slippage |-> slippage, refund |-> FALSE]

-----------------------------------------------------------------------------
(* A record from the oracle to a conversion and back. *)

\* The answer to fetchPricingRecord may be the record of another oracle, or one
\* whose prices are not those that were signed.
Answers(pr) ==
    {SignedBy("oracle", pr), SignedBy("other", pr), EmptyPricingRecord}
    \union {[SignedBy("oracle", pr) EXCEPT !.prices["VSD"] = p] : p \in Prices}

FetchPricingRecord ==
    /\ quote.step = "published"
    /\ \/ \E answer \in Answers(quote.record) :
            quote' = [quote EXCEPT !.step = "fetched", !.held = AsNumbers(answer)]
       \/ quote' = [quote EXCEPT !.step = "refused"]   \* an error status or a timeout

KeepRecord ==
    /\ quote.step = "fetched"
    /\ quote' = [quote EXCEPT !.held = ParseKept(PricingRecordToJson(quote.held))]

ValidateRecord == \E fork \in OracleForks, block \in BlockTimes, last \in BlockTimes :
    /\ quote.step = "fetched"
    /\ quote' = [quote EXCEPT
            !.block = block, !.last = last, !.fork = fork,
            !.step = IF ValidPricingRecord(quote.held, "oracle", fork, block, last)
                     THEN "accepted" ELSE "refused"]

\* One direction in each step, the other one with what the first has given.
ConvertAsset == \E from \in AllAssets, to \in AllAssets :
  \E amount \in Traded, limit \in SlippageLimits :
    /\ quote.step = "accepted"
    /\ \E result \in {CalculateConversion(quote.held, from, to, amount, limit)} :
          /\ result.success
          /\ quote' = [quote EXCEPT !.step = "converted", !.limit = limit,
                                    !.trade = <<from, to, amount>>, !.given = result]

ConvertBack ==
    /\ quote.step = "converted" /\ ~quote.given.refund
    /\ \E result \in {CalculateConversion(quote.held, quote.trade[2], quote.trade[1],
                                          quote.given.minted, quote.limit)} :
          /\ result.success /\ ~result.refund
          /\ quote' = [quote EXCEPT !.step = "back", !.back = result]

Quote(pr) == [step |-> "published", record |-> pr, held |-> EmptyPricingRecord, block |-> 0,
              last |-> 0, fork |-> 0, trade |-> <<>>, limit |-> 0, given |-> Failed, back |-> Failed]

OracleInit == quote \in
    {Quote(PricingRecord(prices, supply, time, NoSignature)) :
        prices \in {p \in [PricedAssets -> Prices] : p["SAL1"] \in {0, p["SAL"]}}, supply \in Supplies, time \in RecordTimes}

OracleNext ==
    FetchPricingRecord \/ KeepRecord \/ ValidateRecord \/ ConvertAsset \/ ConvertBack

OracleSpec == OracleInit /\ [][OracleNext]_oracleVars

-----------------------------------------------------------------------------
OracleTypeOK == quote.step \in
    {"published", "fetched", "refused", "accepted", "converted", "back"}

\* A record that passes, unless it is empty, says what the oracle has signed, digit
\* by digit, and is neither from before the last block nor from long after this one.
AcceptedAsSigned ==
    quote.step \in {"accepted", "converted", "back"} /\ quote.held # EmptyPricingRecord =>
        /\ quote.fork >= OracleFork
        /\ quote.held = SignedBy("oracle", quote.record)
        /\ quote.held.time <= quote.block + FreshLimit
        /\ quote.last > 0 => quote.held.time > quote.last

\* Who converts and converts back has lost the slippage of both ways, a rate that
\* is rounded down gives nobody anything.
RoundTripCosts ==
    quote.step = "back" =>
        /\ quote.back.minted + quote.given.slippage <= quote.trade[3]
        /\ quote.back.slippage + ConvertedAmount(
                ConversionRate(quote.held, quote.trade[1], quote.trade[2]), quote.back.minted)
             <= quote.given.minted

\* An amount in two parts saves the rounding of the slippage, one unit, and no more.
PartsGainOneUnit ==
    quote.step = "converted" /\ ~quote.given.refund =>
        \A part \in Traded : part < quote.trade[3] =>
            LET rate == ConversionRate(quote.held, quote.trade[1], quote.trade[2])
                parts == <<part, quote.trade[3] - part>>
                sum == ConvertedAmount(rate, parts[1] - Slippage(parts[1]))
                         + ConvertedAmount(rate, parts[2] - Slippage(parts[2]))
            IN sum <= ConvertedAmount(rate, quote.trade[3] - quote.given.slippage + 1)

OracleHolds == AcceptedAsSigned /\ RoundTripCosts /\ PartsGainOneUnit
=============================================================================
