----------------------------- MODULE ChainRules -----------------------------
(***************************************************************************)
(* The rolling windows of ChainState and the rules that read them           *)
(* (src/consensus.js): difficulty, block weight, block reward, forks; and    *)
(* the rules for a transaction (src/validation.js).                         *)
(*                                                                         *)
(* Money, weights and times are small integers; every window length and      *)
(* every literal of the code that a small chain could not reach is a         *)
(* constant.  The LWMA rule computes with floating point numbers, which are  *)
(* exact quotients here.  added is no variable of the code: it is what      *)
(* addBlock was called with, for the blocks that are still there.            *)
(***************************************************************************)
EXTENDS Integers, Sequences, FiniteSets, FiniteSetsExt

CONSTANTS
    Target,             \* DIFFICULTY_TARGET_V2
    LwmaWindow,         \* DIFFICULTY_WINDOW_V2
    LwmaMinimum,        \* timestamps the LWMA rule needs, 6 in the code
    LegacyWindow,       \* DIFFICULTY_WINDOW
    LegacyCut,          \* DIFFICULTY_CUT
    LongWindow,         \* CRYPTONOTE_LONG_TERM_BLOCK_WEIGHT_WINDOW_SIZE
    ShortWindow,        \* CRYPTONOTE_REWARD_BLOCKS_WINDOW
    ZoneV1, ZoneV5,     \* CRYPTONOTE_BLOCK_GRANTED_FULL_REWARD_ZONE_V1, _V5
    Surge,              \* CRYPTONOTE_SHORT_TERM_BLOCK_WEIGHT_SURGE_FACTOR
    Supply, Shift,      \* MONEY_SUPPLY, the emission speed factor
    MinSubsidy, Premine,    \* the minimum subsidy, PREMINE_AMOUNT
    ForkHeights,        \* HARD_FORK_HEIGHTS: version -> height
    SolveTimes,         \* seconds between a block and its parent
    Difficulties,       \* difficulties of the blocks
    Multiple,           \* a common multiple of them
    BlockWeights,       \* weights of the blocks
    Emissions,          \* coins generated so far
    Stakes, Slippages,  \* amounts staked, slippage of a block
    MaxHeight           \* bound: blocks of the chain

ASSUME RulesAssumption ==
    /\ Target \in Nat \ {0} /\ LwmaWindow \in Nat \ {0}
    /\ LwmaMinimum \in 2 .. LwmaWindow + 1
    /\ LegacyWindow \in Nat /\ LegacyCut \in Nat /\ LegacyWindow - 2 * LegacyCut > 1
    /\ LongWindow \in Nat \ {0} /\ ShortWindow \in Nat \ {0}
    /\ ZoneV1 \in Nat \ {0} /\ ZoneV5 \in Nat /\ ZoneV1 <= ZoneV5 /\ Surge \in Nat \ {0}
    /\ Supply \in Int /\ Shift \in Nat /\ 2 ^ Shift \in Nat \ {0} /\ MinSubsidy \in Nat
    /\ Difficulties \subseteq Nat \ {0} /\ IsFiniteSet(Difficulties)
    /\ Multiple \in Nat \ {0} /\ \A d \in Difficulties : Multiple % d = 0
    /\ ForkHeights \in Seq(Nat)
    /\ SolveTimes \subseteq Int /\ BlockWeights \subseteq Nat /\ Emissions \subseteq Nat
    /\ Stakes \subseteq Nat \ {0} /\ Slippages \subseteq Nat /\ MaxHeight \in Nat

VARIABLES
    times,          \* timestamps
    cumulative,     \* cumulativeDifficulties
    weights,        \* blockWeights
    longTerm,       \* longTermBlockWeights
    added          \* the blocks that are still there

rulesVars == <<times, cumulative, weights, longTerm, added>>

ChainBlock == [time : Int, difficulty : Difficulties, weight : BlockWeights]

RulesTypeOK ==
    /\ times \in Seq(Int) /\ cumulative \in Seq(Nat)
    /\ weights \in Seq(BlockWeights) /\ longTerm \in Seq(Nat)
    /\ added \in Seq(ChainBlock)

RulesInit ==
    times = <<>> /\ cumulative = <<>> /\ weights = <<>> /\ longTerm = <<>> /\ added = <<>>

-----------------------------------------------------------------------------
Larger(a, b) == IF a < b THEN b ELSE a
Smaller(a, b) == IF a < b THEN a ELSE b

\* slice(-n): the last n elements.
LastOf(s, n) == SubSeq(s, Larger(1, Len(s) - n + 1), Len(s))

\* The k-th number of s in increasing order.
InOrder(s, k) ==
    CHOOSE v \in {s[i] : i \in DOMAIN s} :
        /\ Cardinality({i \in DOMAIN s : s[i] < v}) < k
        /\ Cardinality({i \in DOMAIN s : s[i] <= v}) >= k

\* getMedianBlockWeight; getMedianTimestamp is the same.
MedianOf(s) ==
    LET n == Len(s)
    IN  IF n = 0 THEN 0
        ELSE IF n % 2 = 0 THEN (InOrder(s, n \div 2) + InOrder(s, n \div 2 + 1)) \div 2
        ELSE InOrder(s, n \div 2 + 1)

-----------------------------------------------------------------------------
(***************************************************************************)
(* Hard forks                                                              *)
(***************************************************************************)
\* getHfVersionForHeight.
ForkAt(height) ==
    Max({1} \union {v \in DOMAIN ForkHeights : height >= ForkHeights[v]})

MinBlockWeight(fork) == IF fork < 2 THEN ZoneV1 ELSE ZoneV5

-----------------------------------------------------------------------------
(***************************************************************************)
(* Dynamic block weight                                                    *)
(***************************************************************************)
\* getNextLongTermBlockWeight: within 10/17 and 17/10 of the median.
NextLongTermWeight(weight, median) ==
    LET m == Larger(ZoneV5, median)
    IN  Smaller(Larger(weight, (m * 10) \div 17), m + (m * 7) \div 10)

LongTermMedian(long) ==
    Larger(ZoneV5, IF long = <<>> THEN ZoneV5 ELSE MedianOf(LastOf(long, LongWindow)))

\* getEffectiveMedianBlockWeight.
EffectiveMedian(long, short, fork) ==
    LET l == LongTermMedian(long)
        m == Smaller(Larger(l, MedianOf(LastOf(short, ShortWindow))), Surge * l)
    IN  Larger(m, MinBlockWeight(fork))

\* getBlockWeightLimit, of the chain as it is.
BlockLimit(fork) == 2 * EffectiveMedian(longTerm, weights, fork)

\* validateBlockWeight.
ValidateBlockWeight(weight, median, fork) ==
    weight <= 2 * Larger(median, MinBlockWeight(fork))

-----------------------------------------------------------------------------
(***************************************************************************)
(* getBlockReward                                                          *)
(***************************************************************************)
BaseReward(coins) == Larger((Supply - coins) \div (2 ^ Shift), MinSubsidy)

BlockReward(median, weight, coins, fork) ==
    LET m == Larger(median, MinBlockWeight(fork))
    IN  IF coins = 0 THEN [success |-> TRUE, reward |-> Premine]
        ELSE IF weight <= m THEN [success |-> TRUE, reward |-> BaseReward(coins)]
        ELSE IF weight > 2 * m THEN [success |-> FALSE, reward |-> 0]
        ELSE [success |-> TRUE,
              reward |-> ((BaseReward(coins) * ((2 * m - weight) * weight)) \div m) \div m]

\* calculateYieldPayout, for one block of the lock period.
YieldPayout(staked, slippage, tally) == (slippage * staked) \div tally

-----------------------------------------------------------------------------
(***************************************************************************)
(* Difficulty                                                              *)
(***************************************************************************)
\* nextDifficulty, for the chain before the second fork.  Of a full window it
\* drops the newest block, the window being given oldest first.
LegacyDifficulty ==
    LET n == Smaller(Len(times), LegacyWindow)
        ts == SubSeq(LastOf(times, LegacyWindow + 1), 1, n)
        cs == SubSeq(LastOf(cumulative, LegacyWindow + 1), 1, n)
        inner == LegacyWindow - 2 * LegacyCut
        begin == IF n <= inner THEN 0 ELSE (n - inner + 1) \div 2
        end == IF n <= inner THEN n ELSE begin + inner
        span == Larger(1, InOrder(ts, end) - InOrder(ts, begin + 1))
    IN  IF n <= 1 THEN 1
        ELSE ((cs[end] - cs[begin + 1]) * Target + span - 1) \div span

\* The time between two blocks, within seven targets either way.
SolveTime(later, earlier) ==
    Smaller(7 * Target, Larger(later - earlier, -7 * Target))

\* The sum of the first n numbers of f.
SumTo(f, n) ==
    LET s[k \in 0 .. n] == IF k = 0 THEN 0 ELSE s[k - 1] + f[k]
    IN  s[n]

\* nextDifficultyV2.
LwmaDifficulty ==
    LET ts == LastOf(times, LwmaWindow + 1)
        cs == LastOf(cumulative, LwmaWindow + 1)
        n == Len(ts) - 1
        k == (n * (n + 1)) \div 2
        solved == SumTo([i \in 1 .. n |-> SolveTime(ts[i + 1], ts[i]) * i], n)
        inverse == SumTo([i \in 1 .. n |-> Multiple \div (cs[i + 1] - cs[i])], n)
    IN  IF Len(ts) < LwmaMinimum THEN 1
        ELSE IF 20 * solved < Target * k
             THEN (n * 998 * Multiple * 20) \div (1000 * inverse)
        ELSE (n * 998 * Multiple * Target * k) \div (1000 * inverse * solved)

\* getNextDifficulty.
NextDifficulty(fork) == IF fork < 2 THEN LegacyDifficulty ELSE LwmaDifficulty

-----------------------------------------------------------------------------
(***************************************************************************)
(* ChainState                                                              *)
(***************************************************************************)
ChainHeight == Len(times)
ChainWork == IF ChainHeight = 0 THEN 0 ELSE cumulative[ChainHeight]

\* The weight addBlock records for a block on top of long.
RecordedWeight(weight, long) ==
    IF Len(long) < LongWindow THEN weight
    ELSE NextLongTermWeight(weight, MedianOf(LastOf(long, LongWindow)))

AddBlock(gap, difficulty, weight) ==
    LET time == (IF times = <<>> THEN 0 ELSE times[ChainHeight]) + gap
    IN  /\ ChainHeight < MaxHeight
        /\ times' = Append(times, time)
        /\ cumulative' = Append(cumulative, ChainWork + difficulty)
        /\ weights' = Append(weights, weight)
        /\ longTerm' = Append(longTerm, RecordedWeight(weight, longTerm))
        /\ added' = Append(added, [time |-> time, difficulty |-> difficulty,
                                     weight |-> weight])

\* Seeded fault: the long-term weights keep those of the popped blocks.
RollbackToHeight_KeepsLongTerm(height) ==
    /\ height < ChainHeight
    /\ times' = SubSeq(times, 1, height)
    /\ cumulative' = SubSeq(cumulative, 1, height)
    /\ weights' = SubSeq(weights, 1, height)
    /\ added' = SubSeq(added, 1, height)
    /\ UNCHANGED longTerm

\* rollbackToHeight: popBlock until the height is reached.
RollbackToHeight(height) ==
    /\ height < ChainHeight
    /\ times' = SubSeq(times, 1, height)
    /\ cumulative' = SubSeq(cumulative, 1, height)
    /\ weights' = SubSeq(weights, 1, height)
    /\ longTerm' = SubSeq(longTerm, 1, height)
    /\ added' = SubSeq(added, 1, height)

RulesNext ==
    \/ \E gap \in SolveTimes, d \in Difficulties, w \in BlockWeights : AddBlock(gap, d, w)
    \/ \E h \in 0 .. MaxHeight - 1 : RollbackToHeight(h)

RulesSpec == RulesInit /\ [][RulesNext]_rulesVars

-----------------------------------------------------------------------------
(***************************************************************************)
(* Transactions                                                            *)
(***************************************************************************)
Miner == 1
Protocol == 2
Transfer == 3
Convert == 4
Burn == 5
Stake == 6
Audit == 8

Assets == {"SAL", "SAL1", "BURN"}
AuditForks == {6, 8}

\* getTxVersion, getRctType, getActiveAssetType.
TxVersion(type, fork) ==
    IF fork >= 10 THEN 4 ELSE IF fork >= 2 /\ type = Transfer THEN 3 ELSE 2
RctTypeAt(fork) ==
    IF fork >= 10 THEN 9 ELSE IF fork >= 6 THEN 8 ELSE IF fork >= 3 THEN 7 ELSE 6
ActiveAsset(fork) == IF fork >= 6 THEN "SAL1" ELSE "SAL"

\* validateTxTypeAndVersion.
ValidTypeAndVersion(t, fork) ==
    /\ t.type \in Miner .. Audit
    /\ fork < 2 => t.version = 2
    /\ fork >= 10 /\ t.type \notin {Miner, Protocol, Transfer} => t.version = 4
    /\ t.type = Convert => fork >= 255
    /\ t.type = Audit => fork \in AuditForks

\* validateAssetTypes.  (The rule for the asset of an audit refuses nothing
\* but BURN and, in the first audit, SAL1; the rule from the first pause on
\* refuses nothing that got so far.)
ValidAssets(t, fork) ==
    /\ {t.source, t.dest} \subseteq Assets
    /\ IF t.type = Burn THEN t.dest = "BURN" /\ t.source \in {"SAL", "SAL1"}
       ELSE /\ t.source # "BURN"
            /\ t.type = Audit /\ fork = 6 => t.source = "SAL"
            /\ t.type \notin {Convert, Audit} => t.source = t.dest

\* validateOutputTypes and validateOutputPubkeySorting; targets are the types
\* of the outputs, 2 is to_carrot_v1.
ValidOutputs(t, fork) ==
    IF t.type = Audit THEN t.targets = <<>>
    ELSE /\ t.type = Stake => Len(t.targets) = 1
         /\ \A i, j \in DOMAIN t.targets : t.targets[i] = t.targets[j]
         /\ fork >= 10 =>
                /\ t.type \notin {Miner, Protocol} =>
                       \A i \in DOMAIN t.targets : t.targets[i] = 2
                /\ Len(t.targets) > 1 => t.sortedOutputs

\* validateRctType, with the numbers of RCT_TYPE_NAMES: SalviumZero is 7 and
\* SalviumOne is 8 there, FullProofs is 9.
ValidRct(t, fork) ==
    IF t.type \in {Miner, Protocol} THEN t.rct = 0
    ELSE IF fork >= 10 THEN t.rct = 8
    ELSE IF fork >= 6 THEN t.rct = 7
    ELSE IF fork >= 4 THEN t.rct = 9
    ELSE t.rct \in {5, 6}

\* validateInputs.
ValidInputs(t) ==
    IF t.type \in {Miner, Protocol} THEN t.inputs = "gen"
    ELSE t.inputs = "increasing images"

\* validateTransactionFull.
ValidTransaction(t, fork) ==
    /\ ValidTypeAndVersion(t, fork) /\ ValidAssets(t, fork) /\ ValidOutputs(t, fork)
    /\ ValidRct(t, fork) /\ ValidInputs(t)

-----------------------------------------------------------------------------
(***************************************************************************)
(* Properties                                                              *)
(***************************************************************************)
\* What ChainState holds is what a node holds that added the remaining blocks
\* and never popped any (addBlock, popBlock, rollbackToHeight).
WindowsFollowBlocks ==
    /\ \A s \in {times, cumulative, weights, longTerm} : Len(s) = Len(added)
    /\ \A i \in DOMAIN added :
           /\ times[i] = added[i].time
           /\ weights[i] = added[i].weight
           /\ cumulative[i] = added[i].difficulty + (IF i = 1 THEN 0 ELSE cumulative[i - 1])
           /\ longTerm[i] = RecordedWeight(added[i].weight, SubSeq(longTerm, 1, i - 1))

\* No timestamps bring the difficulty to zero, or above twenty times the
\* largest one, when every block has a difficulty of at least eight
\* (nextDifficulty, nextDifficultyV2).
DifficultyStaysPositive ==
    (\A d \in Difficulties : d >= 8) =>
        /\ LegacyDifficulty > 0
        /\ LwmaDifficulty > 0
        /\ LwmaDifficulty <= 20 * Max(Difficulties \union {1})

\* The limit, the check of a block's weight and the reward agree on the weights
\* a block may have, and a penalty never makes a reward larger or negative
\* (getBlockWeightLimit, validateBlockWeight, getBlockReward).
LimitIsPaid ==
    LET fork == ForkAt(ChainHeight)
        m == EffectiveMedian(longTerm, weights, fork)
    IN  \A w \in BlockWeights, c \in Emissions \ {0} :
            LET r == BlockReward(m, w, c, fork)
            IN  /\ r.success <=> ValidateBlockWeight(w, m, fork)
                /\ r.success <=> w <= BlockLimit(fork)
                /\ r.reward \in 0 .. BaseReward(c)

\* What two stakers are paid for a block is no more than its slippage
\* (calculateYieldPayout, the tally being what they staked).
YieldIsCovered ==
    \A a, b \in Stakes, s \in Slippages :
        YieldPayout(a, s, a + b) + YieldPayout(b, s, a + b) <= s

\* A transaction with the version and the asset the builder takes for a height
\* passes the checks of both there, and its signature type does before the
\* third fork (getTxVersion, getActiveAssetType, getRctType and validation.js).
BuiltIsValid ==
    LET fork == ForkAt(ChainHeight)
    IN  \A type \in {Transfer, Stake, Burn} :
            LET t == [type |-> type, version |-> TxVersion(type, fork),
                      source |-> ActiveAsset(fork), rct |-> RctTypeAt(fork),
                      dest |-> IF type = Burn THEN "BURN" ELSE ActiveAsset(fork)]
            IN  /\ ValidTypeAndVersion(t, fork) /\ ValidAssets(t, fork)
                /\ fork < 3 => ValidRct(t, fork)

TxShapes ==
    [type : 0 .. 9, version : {2, 4}, source : Assets, dest : Assets,
     rct : {0, 6, 7, 8, 9}, targets : {<<>>, <<2>>, <<1, 1>>}, sortedOutputs : BOOLEAN,
     inputs : {"gen", "increasing images"}]

\* A valid transaction takes money from one asset to another only by burning it
\* or in an audit, as long as conversions are not enabled; burnt money is never
\* spent (validateTransactionFull).
AssetsAreKept ==
    \A t \in TxShapes, fork \in 1 .. 10 :
        ValidTransaction(t, fork) =>
            /\ t.source # "BURN"
            /\ t.source # t.dest =>
                   \/ t.type = Burn /\ t.dest = "BURN"
                   \/ t.type = Audit /\ fork \in AuditForks /\ t.targets = <<>>

\* The rules of the chain: windows, difficulty, weights and rewards, yield, and
\* the rules for transactions.
RulesHold ==
    /\ WindowsFollowBlocks /\ DifficultyStaysPositive /\ LimitIsPaid
    /\ YieldIsCovered /\ BuiltIsValid /\ AssetsAreKept
=============================================================================
