----------------------------- MODULE Admission -----------------------------
(***************************************************************************)
(* What a program that uses the consensus rules lets in: a transaction with    *)
(* its fee, the transaction of a miner, and block after block with its time,   *)
(* which opens outputs that were locked.  Numbers are small.                   *)
(***************************************************************************)
EXTENDS Integers, Sequences, FiniteSets

CONSTANTS
    FEE_PER_BYTE, FEE_PER_KB, Kilo,         \* Kilo: bytes to a KB
    BaseFeePerKb, RewardReference,          \* DYNAMIC_FEE_PER_KB_BASE_FEE, .._BLOCK_REWARD
    ReferenceWeight, ScalingRounding,       \* of the fees of 2021
    Quantum, Tolerance,                     \* quantised to; one part in 50 may be missing
    RewardZoneV1, RewardZoneV5, CoinbaseReserved,
    MaxTxSize, MaxTxExtra, MaxOutputs, RingSize,
    SpendableAge, MinedWindow, LockDelta, LockThreshold, TargetTime,
    FutureLimit, CheckWindow,               \* BLOCKCHAIN_TIMESTAMP_CHECK_WINDOW
    MaxMoney, MoneySupply, EmissionShift, FinalSubsidy, PremineAmount, CarrotFork,
    NetworkNames, HardForkHeights, StakeLockPeriods,    \* of the configurations
    Drafts, Rewards, MedianWeights, Forks,  \* transactions and when they are made
    MinerTxs, MinerFees, TimeSteps, Locks,  \* miner transactions, times, unlock times
    MostBlocks

\* The last subsidy comes long after the first block, and heights stay below what
\* stands for a time; the two test networks lock stakes for the same time.
ASSUME AdmissionAssumption ==
    /\ {FEE_PER_BYTE, FEE_PER_KB, Kilo, ReferenceWeight, ScalingRounding, Quantum,
        RewardZoneV1, RewardZoneV5, FinalSubsidy} \subseteq Nat \ {0}
    /\ {BaseFeePerKb, RewardReference, SpendableAge, MinedWindow, LockDelta, TargetTime,
        MaxMoney, MoneySupply, PremineAmount, MostBlocks} \subseteq Nat
    /\ {Tolerance, CheckWindow, 2 ^ EmissionShift} \subseteq Nat \ {0, 1}
    /\ SpendableAge + LockDelta <= MinedWindow
    /\ LockThreshold \in Nat /\ MostBlocks + MinedWindow < LockThreshold
    /\ PremineAmount + FinalSubsidy < MoneySupply
    /\ NetworkNames \subseteq {"mainnet", "testnet", "stagenet", "fakechain"}
    /\ \A name \in {"mainnet", "testnet", "stagenet"} :
         /\ DOMAIN HardForkHeights[name] \subseteq Nat \ {0}
         /\ IsFiniteSet(DOMAIN HardForkHeights[name])
         /\ \A v \in DOMAIN HardForkHeights[name] : HardForkHeights[name][v] \in Nat
    /\ StakeLockPeriods["stagenet"] = StakeLockPeriods["testnet"]
    /\ Forks \subseteq Nat \ {0}
    /\ Rewards \union MedianWeights \union MinerFees \union Locks \subseteq Nat
    /\ TimeSteps \subseteq Int
    /\ \A draft \in Drafts : draft.weight \in Nat
    /\ \A t \in MinerTxs : t.amounts \in Seq(Nat)

VARIABLES
    gate    \* a transaction, the transaction of a miner, or a chain that grows

admissionVars == <<gate>>

-----------------------------------------------------------------------------
(* Networks and their forks. *)

\* getNetworkConfig: the fake chain is the main one.
NetworkConfig(name) == IF name = "fakechain" THEN "mainnet" ELSE name

HfVersion(height, name) ==
    LET active == {v \in DOMAIN HardForkHeights[NetworkConfig(name)] :
                      HardForkHeights[NetworkConfig(name)][v] <= height}
    IN IF active = {} THEN 1 ELSE CHOOSE v \in active : \A w \in active : w <= v
IsHfActive(version, height, name) == HfVersion(height, name) >= version

StakeLockPeriod(name) ==
    IF name \in {"testnet", "stagenet"} THEN StakeLockPeriods["testnet"]
    ELSE StakeLockPeriods["mainnet"]

-----------------------------------------------------------------------------
(* Fees. *)

Least(a, b) == IF a < b THEN a ELSE b
Most(a, b) == IF a < b THEN b ELSE a
RoundUp(n, step) == ((n + step - 1) \div step) * step

GrantedZone(fork) == IF fork < 2 THEN RewardZoneV1 ELSE RewardZoneV5

\* Per byte from the first fork on.
MinimumFee(weight, fork) ==
    IF fork >= 1 THEN weight * FEE_PER_BYTE
    ELSE ((weight + Kilo - 1) \div Kilo) * FEE_PER_KB

\* With the zone of the fifth fork, which is what stands for it before.
DynamicBaseFee(reward, median) ==
    LET m == Most(median, RewardZoneV5)
        perByte == (reward * ReferenceWeight) \div (m * m)
    IN perByte - (perByte \div 20)

DynamicFee(reward, weight) ==
    LET fee == (BaseFeePerKb * weight) \div Kilo
    IN IF reward > 0 THEN Most(fee, (fee * RewardReference) \div reward) ELSE fee

\* The fees for a low, a normal, a medium and a high priority.
ScaledFees(reward, short, long) ==
    LET least == Least(short, long)
        mfw == IF least > 0 THEN least ELSE RewardZoneV5
        mnw == IF short > 0 THEN short ELSE RewardZoneV5
        medium == (16 * reward * ReferenceWeight) \div (RewardZoneV5 * mfw)
        part == (32 * ReferenceWeight * mnw) \div RewardZoneV5
        high == IF part > 0 THEN (4 * medium * mfw) \div part ELSE 4 * medium
    IN [f \in 1 .. 4 |-> RoundUp(
            CASE f = 1 -> (reward * ReferenceWeight) \div (mfw * mfw)
              [] f = 2 -> (4 * reward * ReferenceWeight) \div (mfw * mfw)
              [] f = 3 -> medium
              [] f = 4 -> Most(high, 4 * medium), ScalingRounding)]

QuantizeFee(fee) == RoundUp(fee, Quantum)

\* Per byte the fee grows as the reward falls, the median makes no difference.
RequiredFee(weight, reward, fork) ==
    QuantizeFee(weight *
        (IF fork >= 2 /\ reward > 0
         THEN Most(FEE_PER_BYTE, ((BaseFeePerKb \div Kilo) * RewardReference) \div reward)
         ELSE FEE_PER_BYTE))

ValidFee(fee, weight, reward, fork) ==
    LET needed == RequiredFee(weight, reward, fork) IN fee >= needed - (needed \div Tolerance)

\* From the second fork on half of the zone.
TransactionWeightLimit(fork) ==
    (IF fork >= 2 THEN GrantedZone(fork) \div 2 ELSE GrantedZone(fork)) - CoinbaseReserved
ValidTxWeight(weight, fork) == weight <= TransactionWeightLimit(fork)

ValidShape(draft) ==
    /\ draft.size <= MaxTxSize /\ draft.extra <= MaxTxExtra
    /\ draft.outputs \in 1 .. MaxOutputs /\ draft.ring = RingSize

\* A fee is asked for, blocks come that lower the reward or bring a fork, and what
\* was made is checked.
AskFee ==
    /\ gate.kind = "tx" /\ gate.fee = 0
    /\ \E fee \in {RequiredFee(gate.draft.weight, gate.reward, gate.fork),
                   ScaledFees(gate.reward, gate.median, gate.median)[1] * gate.draft.weight,
                   MinimumFee(gate.draft.weight, gate.fork),
                   DynamicFee(gate.reward, gate.draft.weight)} :
          gate' = [gate EXCEPT !.fee = fee]

BlocksPass == \E reward \in Rewards, fork \in Forks :
    /\ gate.kind = "tx" /\ reward <= gate.reward /\ fork >= gate.fork
    /\ gate' = [gate EXCEPT !.reward = reward, !.fork = fork]

CheckTx ==
    /\ gate.kind = "tx" /\ gate.fee > 0
    /\ gate' = [gate EXCEPT !.passed =
            /\ ValidShape(gate.draft) /\ ValidTxWeight(gate.draft.weight, gate.fork)
            /\ ValidFee(gate.fee, gate.draft.weight, gate.reward, gate.fork)]

-----------------------------------------------------------------------------
(* The transaction of a miner. *)

\* The sum of the first n amounts.
TotalOf(amounts, n) ==
    LET s[k \in 0 .. n] == IF k = 0 THEN 0 ELSE s[k - 1] + amounts[k]
    IN  s[n]

\* validateOutputsOverflow, output by output.
NoOverflow(amounts) == \A i \in DOMAIN amounts : TotalOf(amounts, i) <= MaxMoney

PrevalidMinerTx(t, height, fork) ==
    /\ Len(t.inputs) = 1 /\ t.inputs[1] = height
    /\ t.version > 1
    /\ fork >= CarrotFork => t.version = 4 /\ t.type = "miner"
    /\ NoOverflow(t.amounts)

\* The subsidy is not cut: the weight of the block stands for the median.
BlockSubsidy(coins) == Most((MoneySupply - coins) \div (2 ^ EmissionShift), FinalSubsidy)
ValidMinerReward(t, fee, coins) ==
    TotalOf(t.amounts, Len(t.amounts)) <= BlockSubsidy(coins) + fee

CheckMinerTx == \E fee \in MinerFees, fork \in Forks :
    /\ gate.kind = "miner"
    /\ gate' = [gate EXCEPT !.kind = "checked", !.fee = fee, !.passed =
            /\ PrevalidMinerTx(gate.tx, gate.height, fork)
            /\ ValidMinerReward(gate.tx, fee, gate.coins)]

\* getApproximateEmission: the last subsidy may be more than what remains.
WithSubsidy(coins) == IF coins >= MoneySupply THEN coins ELSE coins + BlockSubsidy(coins)
Emission(height) ==
    LET coins[h \in 0 .. height] == IF h = 0 THEN PremineAmount ELSE WithSubsidy(coins[h - 1])
    IN  coins[height]

-----------------------------------------------------------------------------
(* Blocks, their times, and outputs that unlock. *)

\* The k-th time of s in increasing order.
InOrderOfTime(s, k) ==
    CHOOSE v \in {s[i] : i \in DOMAIN s} :
        /\ Cardinality({i \in DOMAIN s : s[i] < v}) < k
        /\ Cardinality({i \in DOMAIN s : s[i] <= v}) >= k
MedianTimestamp(s) ==
    LET n == Len(s)
        mid == n \div 2
    IN IF n = 0 THEN 0
       ELSE IF n % 2 = 0 THEN (InOrderOfTime(s, mid) + InOrderOfTime(s, mid + 1)) \div 2
       ELSE InOrderOfTime(s, mid + 1)

Recent(times) == SubSeq(times, Len(times) - Least(Len(times), CheckWindow) + 1, Len(times))

\* Seeded fault: the times are taken from the wrong end.
ValidBlockTimestamp_OldestTimes(time, times, now) ==
    /\ time <= now + FutureLimit
    /\ Len(times) >= CheckWindow => time > MedianTimestamp(SubSeq(times, 1, CheckWindow))

ValidBlockTimestamp(time, times, now) ==
    /\ time <= now + FutureLimit
    /\ Len(times) >= CheckWindow => time > MedianTimestamp(Recent(times))

ValidLinkage(block, last) == block.prev = last.id /\ block.height = last.height + 1

\* Heights below the threshold, times above it.
IsOutputUnlocked(unlock, height, now) ==
    \/ unlock = 0
    \/ IF unlock < LockThreshold THEN height + LockDelta >= unlock
       ELSE now + (TargetTime * LockDelta) >= unlock
IsCoinbaseMature(made, height) == height >= made + MinedWindow
MeetsMinimumAge(made, height) == height >= made + SpendableAge

TopHeight == gate.blocks[Len(gate.blocks)].height
OpenOutputs(height, now) == {u \in Locks : IsOutputUnlocked(u, height, now)}

\* A block that may follow any other: the rules say which.
AppendBlock ==
    /\ gate.kind = "chain" /\ Len(gate.times) < MostBlocks
    /\ \E d \in TimeSteps, before \in 1 .. Len(gate.blocks), height \in 1 .. MostBlocks :
         LET block == [id |-> Len(gate.blocks) + 1, prev |-> before, height |-> height]
             time == gate.now + d
         IN /\ time >= 0 /\ ValidLinkage(block, gate.blocks[Len(gate.blocks)])
            /\ ValidBlockTimestamp(time, gate.times, gate.now)
            /\ gate' = [gate EXCEPT !.blocks = Append(@, block), !.times = Append(@, time),
                                    !.opened = @ \union OpenOutputs(TopHeight, gate.now)]

ClockTicks ==
    /\ gate.kind = "chain" /\ gate.now < MostBlocks
    /\ gate' = [gate EXCEPT !.now = @ + 1, !.opened = @ \union OpenOutputs(TopHeight, gate.now)]

GenesisBlock == [id |-> 1, prev |-> 0, height |-> 0]
NewChain == [kind |-> "chain", blocks |-> <<GenesisBlock>>, times |-> <<0>>, now |-> 0,
             opened |-> {}]

MinerCase(t) == [kind |-> "miner", tx |-> t, height |-> 2, coins |-> Emission(1), fee |-> 0,
                 passed |-> FALSE]

AdmissionInit == gate \in
    {NewChain}
    \union {[kind |-> "tx", draft |-> d, fork |-> f, reward |-> r, median |-> m, fee |-> 0,
             passed |-> FALSE] : d \in Drafts, f \in Forks, r \in Rewards, m \in MedianWeights}
    \union {MinerCase(t) : t \in MinerTxs}

AdmissionNext ==
    AskFee \/ BlocksPass \/ CheckTx \/ CheckMinerTx \/ AppendBlock \/ ClockTicks

AdmissionSpec == AdmissionInit /\ [][AdmissionNext]_admissionVars

-----------------------------------------------------------------------------
AdmissionTypeOK == gate.kind \in {"tx", "miner", "checked", "chain"}

\* The lower middle of the last times never falls, whatever times in the past and
\* in the future blocks claim: behind it the chain does not go back.
TimeGoesOn == gate.kind = "chain" =>
    \A n \in CheckWindow .. Len(gate.times) - 1 :
        LET middle(k) ==
                InOrderOfTime(Recent(SubSeq(gate.times, 1, k)), (CheckWindow + 1) \div 2)
        IN middle(n) <= middle(n + 1)

\* What was unlocked stays so as the chain and the clock go on, a coinbase that is
\* mature is unlocked, and one that is unlocked is old enough.
UnlockedForGood == gate.kind = "chain" =>
    /\ gate.opened \subseteq OpenOutputs(TopHeight, gate.now)
    /\ \A made \in 0 .. TopHeight :
         LET open == IsOutputUnlocked(made + MinedWindow, TopHeight, gate.now)
         IN /\ IsCoinbaseMature(made, TopHeight) => open
            /\ open => MeetsMinimumAge(made, TopHeight)

\* Forks stay active, and every network locks a stake as its configuration says.
ForksStay == gate = NewChain => \A name \in NetworkNames :
    /\ \A v \in Forks, h \in 0 .. MostBlocks :
          IsHfActive(v, h, name) => IsHfActive(v, h + 1, name)
    /\ StakeLockPeriod(name) = StakeLockPeriods[NetworkConfig(name)]

\* A miner is paid no more than the subsidy and the fees, and never more coins than
\* a number holds.
MinersGetTheirDue == gate.kind = "checked" /\ gate.passed =>
    /\ TotalOf(gate.tx.amounts, Len(gate.tx.amounts)) <=
            Least(MaxMoney, Emission(2) - Emission(1) + gate.fee)
    /\ Emission(4 * MostBlocks) < MoneySupply + FinalSubsidy

\* The fee that is asked for is accepted, a transaction in the pool has paid for all
\* of its bytes but for the tolerance, and more bytes never cost less.
FeesPay == gate.kind = "tx" =>
    LET asked == RequiredFee(gate.draft.weight, gate.reward, gate.fork) IN
    /\ ValidFee(asked, gate.draft.weight, gate.reward, gate.fork)
    /\ QuantizeFee(asked) = asked
    /\ ValidFee(gate.fee, gate.draft.weight, gate.reward, gate.fork) =>
         gate.fee * Tolerance >= MinimumFee(gate.draft.weight, gate.fork) * (Tolerance - 1)
    /\ asked <= RequiredFee(gate.draft.weight + 1, gate.reward, gate.fork)
    /\ DynamicFee(gate.reward, gate.draft.weight) <= DynamicFee(gate.reward, gate.draft.weight + 1)

\* A higher priority never costs less, while medians are at least the granted zone.
TiersInOrder == gate.kind = "tx" /\ gate.median >= RewardZoneV5 =>
    \A long \in {m \in MedianWeights : m >= RewardZoneV5} :
        LET fees == ScaledFees(gate.reward, gate.median, long)
        IN /\ \A f \in 1 .. 3 : fees[f] <= fees[f + 1]
           /\ DynamicBaseFee(gate.reward, gate.median) <= fees[1]

AdmissionHolds ==
    TimeGoesOn /\ UnlockedForGood /\ ForksStay /\ MinersGetTheirDue /\ FeesPay /\ TiersInOrder
=============================================================================
