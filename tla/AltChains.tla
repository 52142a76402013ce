------------------------------ MODULE AltChains ------------------------------
(***************************************************************************)
(* Alternative chains and chain switching (src/blockchain.js, class          *)
(* AlternativeChainManager, over ChainState of src/consensus.js).           *)
(*                                                                         *)
(* Each call is synchronous, so one action is one whole call.  Timestamps   *)
(* and weights are not recorded: what a block's timestamp does to it on a    *)
(* chain that fills the median window is a constant (BadTime), and           *)
(* Work is the difficulty of a block, the one it states and the one the LWMA *)
(* rule computes for it.  Heights are indices of ChainState: the block at    *)
(* height h is main[h + 1].                                                  *)
(***************************************************************************)
EXTENDS Integers, Sequences, FiniteSets

CONSTANTS
    Blocks,         \* block hashes
    Genesis,        \* the block the chain starts with
    Parent,         \* block -> its prevHash
    Work,           \* block -> its difficulty
    BadTime,        \* blocks at or below the median timestamp of their chain
    RejectMain,     \* blocks validateBlock refuses as main chain blocks
    RejectAlt,      \* ... and as alternative blocks
    MaxAge,         \* heights an alternative block may lag behind
    MinSamples,     \* difficulties the LWMA rule needs (6 in the code)
    None            \* JavaScript's null, an absent Map entry

ASSUME BlocksAssumption ==
    /\ IsFiniteSet(Blocks)
    /\ Genesis \in Blocks /\ None \notin Blocks
    /\ Parent \in [Blocks \ {Genesis} -> Blocks]
    /\ Work \in [Blocks -> Nat \ {0}]
    /\ BadTime \subseteq Blocks \ {Genesis}
    /\ RejectMain \subseteq Blocks /\ RejectAlt \subseteq Blocks
    /\ MaxAge \in Nat /\ MinSamples \in Nat \ {0}

VARIABLES
    main,       \* chainState: the hash and cumulative difficulty per height
    alt,        \* altBlocks: hash -> BlockExtendedInfo
    invalid     \* invalidBlocks

vars == <<main, alt, invalid>>

MainEntry == [hash : Blocks, cum : Int]
AltEntry == [prev : Blocks \union {None}, height : Nat, cum : Int]

\* The types of the chain state and of both maps; no switch pops the genesis
\* block.
TypeOK ==
    /\ main \in Seq(MainEntry) /\ Len(main) > 0 /\ main[1].hash = Genesis
    /\ alt \in [Blocks -> AltEntry \union {None}]
    /\ invalid \subseteq Blocks

Init ==
    /\ main = <<[hash |-> Genesis, cum |-> Work[Genesis]]>>
    /\ alt = [b \in Blocks |-> None]
    /\ invalid = {}

-----------------------------------------------------------------------------
(***************************************************************************)
(* ChainState                                                              *)
(***************************************************************************)
Height == Len(main)
Tip == main[Height].hash
CumulativeDifficulty(chain) == chain[Len(chain)].cum

OnMain(b) == \E i \in 1 .. Height : main[i].hash = b
\* findBlockByHash: the height of a block, -1 when it is not on the chain.
FindBlock(b) ==
    IF OnMain(b) THEN (CHOOSE i \in 1 .. Height : main[i].hash = b) - 1 ELSE -1

InAlt(b) == b \in Blocks /\ alt[b] # None
Known(b) == OnMain(b) \/ InAlt(b)

\* rollbackToHeight: what is left, and what was popped, newest first.
Kept(height) == SubSeq(main, 1, height)
Popped(height) == [i \in 1 .. Height - height |-> main[Height + 1 - i]]

-----------------------------------------------------------------------------
(***************************************************************************)
(* _buildAltChain                                                          *)
(***************************************************************************)
\* Seeded fault: a step goes to the hash of the block itself.
Back_OwnHash(b) == [n \in 0 .. Cardinality(Blocks) |-> b]

\* The hash reached from b by n steps back through the alternative blocks.
Back(b) ==
    LET back[n \in 0 .. Cardinality(Blocks)] ==
            IF n = 0 THEN b
            ELSE IF InAlt(back[n - 1]) THEN alt[back[n - 1]].prev ELSE back[n - 1]
    IN  back

\* The alternative blocks from the split to b, oldest first.
AltLength(b) ==
    Cardinality({n \in 0 .. Cardinality(Blocks) :
                    \A m \in 0 .. n : InAlt(Back(b)[m])})

AltChain(b) == [i \in 1 .. AltLength(b) |-> Back(b)[AltLength(b) - i]]

\* The height of the split; a disconnected chain is reported to split at 0,
\* with no timestamps and no difficulties.
Root(b) == FindBlock(Back(b)[AltLength(b)])
Connected(b) == Root(b) >= 0
SplitHeight(b) == IF Connected(b) THEN Root(b) ELSE 0

\* The cumulative difficulty before a new block on top of b.
CumulativeBefore(b) ==
    IF ~Connected(b) THEN 0
    ELSE IF InAlt(b) THEN alt[b].cum
    ELSE main[SplitHeight(b) + 1].cum

\* The LWMA rule answers 1 until the chain has enough difficulties; a
\* disconnected chain has none.
AltWork(b) ==
    LET p == Parent[b]
        samples == IF Connected(p) THEN SplitHeight(p) + 1 + AltLength(p) ELSE 0
    IN  IF samples < MinSamples THEN 1 ELSE Work[b]

\* The BlockExtendedInfo of a new alternative block.
AltInfo(b) ==
    [prev |-> Parent[b],
     height |-> SplitHeight(Parent[b]) + AltLength(Parent[b]) + 1,
     cum |-> CumulativeBefore(Parent[b]) + AltWork(b)]

-----------------------------------------------------------------------------
(***************************************************************************)
(* handleBlock                                                             *)
(***************************************************************************)
\* A block that is neither known nor known to be invalid.
New(b) == b # Genesis /\ ~Known(b) /\ b \notin invalid

MarkInvalid(b) == invalid' = invalid \union {b} /\ UNCHANGED <<main, alt>>

\* The child of an invalid block is invalid.
RejectChild(b) ==
    /\ New(b) /\ Parent[b] \in invalid
    /\ MarkInvalid(b)

\* The parent is the tip; it is not an alternative block as well.
OnTip(b) == New(b) /\ Parent[b] \notin invalid /\ Parent[b] = Tip

\* _addToMainChain refuses the block by validateBlock.  It tests the object
\* validateBlockTimestamp returns, which is always true: no timestamp is
\* refused here.
RejectOnTip(b) ==
    /\ OnTip(b)
    /\ b \in RejectMain
    /\ MarkInvalid(b)

\* _pruneAltBlocks.
Pruned(table, height) ==
    [b \in Blocks |->
        IF table[b] # None /\ height - table[b].height > MaxAge THEN None
        ELSE table[b]]

\* The block extends the main chain.
Extend(b) ==
    /\ OnTip(b)
    /\ b \notin RejectMain
    /\ main' = Append(main, [hash |-> b,
                             cum |-> CumulativeDifficulty(main) + Work[b]])
    /\ alt' = Pruned(alt, Height + 1)
    /\ UNCHANGED invalid

\* The parent is another block of the main chain or an alternative block.
\* (When it is unknown, and when the block is ahead of the clock, nothing
\* changes.)
OffTip(b) ==
    New(b) /\ Parent[b] \notin invalid /\ Parent[b] # Tip /\ Known(Parent[b])

\* A disconnected chain has no timestamps to compare with.
Refused(b) == b \in RejectAlt \/ (b \in BadTime /\ Connected(Parent[b]))

RejectAlternative(b) == OffTip(b) /\ Refused(b) /\ MarkInvalid(b)

Acceptable(b) == OffTip(b) /\ ~Refused(b)

Stored(b) == [alt EXCEPT ![b] = AltInfo(b)]

Heavier(b) == AltInfo(b).cum > CumulativeDifficulty(main)

\* The block is stored and its chain has no more work than the main chain.
AddAlternative(b) ==
    /\ Acceptable(b) /\ ~Heavier(b)
    /\ alt' = Stored(b)
    /\ UNCHANGED <<main, invalid>>

-----------------------------------------------------------------------------
(***************************************************************************)
(* _switchToAlternativeChain                                               *)
(***************************************************************************)
\* The alternative chain that ends in b, and the height it is rolled back to.
FullChain(b) == Append(AltChain(Parent[b]), b)

\* Seeded fault: the block of the split is popped as well.
RollbackHeight_AtSplit(b) == SplitHeight(Parent[b])

RollbackHeight(b) == SplitHeight(Parent[b]) + 1

\* The chain's blocks on top of the split.  The difficulty of each one is the
\* difference of two cumulative ones, so its cumulative difficulty is the
\* stored one.
Applied(b) ==
    [i \in 1 .. Len(FullChain(b)) |->
        [hash |-> FullChain(b)[i], cum |-> Stored(b)[FullChain(b)[i]].cum]]

Switchable(b) == \A i \in 1 .. Len(FullChain(b)) : FullChain(b)[i] \notin RejectMain

NewMain(b) == Kept(RollbackHeight(b)) \o Applied(b)

\* A disconnected block of height h as it is stored: its parent is looked up in
\* the chain after the switch, its cumulative difficulty is the default.
DisconnectedInfo(chain, h) ==
    [prev |-> IF h > 0 /\ h <= Len(chain) THEN chain[h].hash ELSE None,
     height |-> h, cum |-> 0]

\* Seeded fault: the applied blocks stay in the map.
AltAfterSwitch_Kept(b) ==
    [x \in Blocks |->
        IF FindBlock(x) >= RollbackHeight(b)
        THEN DisconnectedInfo(NewMain(b), FindBlock(x))
        ELSE Stored(b)[x]]

\* altBlocks after a switch: the popped blocks are in, the applied ones out.
AltAfterSwitch(b) ==
    [x \in Blocks |->
        IF \E i \in 1 .. Len(FullChain(b)) : FullChain(b)[i] = x THEN None
        ELSE IF FindBlock(x) >= RollbackHeight(b)
        THEN DisconnectedInfo(NewMain(b), FindBlock(x))
        ELSE Stored(b)[x]]

Switch(b) ==
    /\ Acceptable(b) /\ Heavier(b) /\ Switchable(b)
    /\ main' = NewMain(b)
    /\ alt' = AltAfterSwitch(b)
    /\ UNCHANGED invalid

\* Seeded fault: the popped blocks are put back newest first.
Restored_NewestFirst(b) == Kept(RollbackHeight(b)) \o Popped(RollbackHeight(b))

\* Seeded fault: the loop ends before the newest one.
Restored_OffByOne(b) ==
    LET popped == Popped(RollbackHeight(b)) IN
    Kept(RollbackHeight(b))
        \o [i \in 1 .. Len(popped) - 1 |-> popped[Len(popped) + 1 - i]]

\* _rollbackChainSwitching: the popped blocks are put back, oldest first.
Restored(b) ==
    LET popped == Popped(RollbackHeight(b)) IN
    Kept(RollbackHeight(b))
        \o [i \in 1 .. Len(popped) |-> popped[Len(popped) + 1 - i]]

\* validateBlock refuses one of the chain's blocks; all of them stay
\* alternative blocks, and none is marked invalid.
SwitchFails(b) ==
    /\ Acceptable(b) /\ Heavier(b) /\ ~Switchable(b)
    /\ main' = Restored(b)
    /\ alt' = Stored(b)
    /\ UNCHANGED invalid

-----------------------------------------------------------------------------
FlushAltBlocks ==
    alt' = [b \in Blocks |-> None] /\ UNCHANGED <<main, invalid>>

FlushInvalidBlocks == invalid' = {} /\ UNCHANGED <<main, alt>>

HandleBlock(b) ==
    \/ RejectChild(b)
    \/ RejectOnTip(b) \/ Extend(b)
    \/ RejectAlternative(b) \/ AddAlternative(b) \/ Switch(b) \/ SwitchFails(b)

Next == (\E b \in Blocks : HandleBlock(b)) \/ FlushAltBlocks \/ FlushInvalidBlocks

Spec == Init /\ [][Next]_vars

-----------------------------------------------------------------------------
\* The climb from a block to the genesis block: the ancestor n steps up, and the
\* work from the block up to it.
Climb(b) ==
    LET up[n \in 0 .. Cardinality(Blocks)] ==
            IF n = 0 THEN [block |-> b, work |-> Work[b]]
            ELSE LET c == up[n - 1]
                     p == Parent[c.block]
                 IN  IF c.block = Genesis THEN c
                     ELSE [block |-> p, work |-> c.work + Work[p]]
    IN  up

\* A block and its ancestors, and the work of its chain.
ChainOf(b) ==
    LET climb == Climb(b) IN {climb[n].block : n \in 0 .. Cardinality(Blocks)}

TotalWork(b) == Climb(b)[Cardinality(Blocks)].work

\* The work recorded for a known block.
RecordedWork(b) == IF OnMain(b) THEN main[FindBlock(b) + 1].cum ELSE alt[b].cum

\* A chain known as a whole, each block recorded with its own work on top of
\* its parent's: unlike one that a switch disconnected, and unlike its children
\* and those of a pruned block.
Intact(b) ==
    /\ Known(b)
    /\ \A x \in ChainOf(b) :
          /\ Known(x)
          /\ x # Genesis =>
                Known(Parent[x]) /\ RecordedWork(x) = RecordedWork(Parent[x]) + Work[x]

\* The chain is switched when an alternative chain has more cumulative
\* difficulty: no block known with its whole chain, and acceptable on the main
\* chain, has more work behind it than the main chain records.
Heaviest ==
    \A b \in Blocks :
        (\A x \in ChainOf(b) : Known(x) /\ x \notin RejectMain)
            => TotalWork(b) <= CumulativeDifficulty(main)

\* The same of chains without a block that was once disconnected, after any
\* switches, failed switches, prunings and flushes.
HeaviestIntact ==
    \A b \in Blocks :
        (Intact(b) /\ ChainOf(b) \intersect RejectMain = {})
            => TotalWork(b) <= CumulativeDifficulty(main)

\* A block that adds work to the main chain stands on its own parent, whatever
\* was popped, applied and put back (ChainState keeps no parent links; a block
\* that returns after it was disconnected adds none).
Linked ==
    \A i \in 2 .. Height :
        main[i].cum > main[i - 1].cum => Parent[main[i].hash] = main[i - 1].hash

\* Both: what switches move is neither lost nor misplaced.
BlocksAreKept == Linked /\ HeaviestIntact

\* No block is both on the main chain and an alternative block.
Disjoint == \A b \in Blocks : ~(OnMain(b) /\ InAlt(b))

\* The loop of _buildAltChain ends from every alternative block: the parents
\* that switches store close no cycle.  (After the blocks AltLength counts the walk is at a
\* block that is no alternative one.)
WalkIsFinite ==
    \A b \in Blocks : InAlt(b) =>
        /\ AltLength(b) <= Cardinality(Blocks)
        /\ ~InAlt(Back(b)[AltLength(b)])

\* The recorded cumulative difficulty of the main chain never goes down, not
\* even when a switch fails half way.
NeverLighter == [][CumulativeDifficulty(main') >= CumulativeDifficulty(main)]_vars
=============================================================================
