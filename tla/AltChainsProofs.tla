--------------------------- MODULE AltChainsProofs ---------------------------
(***************************************************************************)
(* The main chain keeps its shape and never loses recorded work, for every   *)
(* block tree, every difficulty and every set of refused blocks.            *)
(*                                                                         *)
(* The walk back through alternative blocks is a recursive function; what   *)
(* it computes is shown by looking at a least counterexample.               *)
(***************************************************************************)
EXTENDS AltChains, FiniteSetTheorems, SequenceTheorems, WellFoundedInduction, TLAPS

\* A set of naturals has a least element.
LEMMA LeastNatural ==
    ASSUME NEW T, T \subseteq Nat, T # {}
    PROVE  \E n \in T : \A m \in T : n <= m
  <1>1. PICK n \in T : \A m \in T : ~(<<m, n>> \in OpToRel(<, Nat))
    BY NatLessThanWellFounded, WFMin
  <1>2. \A m \in T : ~(m < n)
    BY <1>1 DEF OpToRel
  <1> QED
    BY <1>2

-----------------------------------------------------------------------------
(***************************************************************************)
(* The walk back                                                           *)
(***************************************************************************)
\* The loop of _buildAltChain: one step of the walk is one step back.
LEMMA BackStep ==
    ASSUME BlocksAssumption, NEW b
    PROVE  \A n \in 0 .. Cardinality(Blocks) :
              Back(b)[n] =
                IF n = 0 THEN b
                ELSE IF InAlt(Back(b)[n - 1]) THEN alt[Back(b)[n - 1]].prev
                     ELSE Back(b)[n - 1]
  <1> DEFINE Step(g, n) ==
        IF n = 0 THEN b
        ELSE IF InAlt(g[n - 1]) THEN alt[g[n - 1]].prev ELSE g[n - 1]
  <1> DEFINE Missing ==
        {k \in Nat : ~\E g : g = [n \in 0 .. k |-> Step(g, n)]}
  <1>1. Cardinality(Blocks) \in Nat
    BY FS_CardinalityType DEF BlocksAssumption
  <1>2. Missing = {}
    <2> SUFFICES ASSUME Missing # {} PROVE FALSE
      OBVIOUS
    <2>1. PICK k \in Missing : \A m \in Missing : k <= m
      BY LeastNatural
    <2>2. CASE k = 0
      <3> DEFINE g == [n \in 0 .. 0 |-> b]
      <3>1. g = [n \in 0 .. 0 |-> Step(g, n)]
        OBVIOUS
      <3> QED
        BY <2>1, <2>2, <3>1
    <2>3. CASE k # 0
      <3>0. k \in Nat
        OBVIOUS
      <3>1. k - 1 \in Nat /\ k - 1 \notin Missing
        <4> HIDE DEF Missing
        <4> QED
          BY <2>1, <2>3, <3>0
      <3>2. PICK f : f = [n \in 0 .. k - 1 |-> Step(f, n)]
        BY <3>1
      <3> DEFINE g == [n \in 0 .. k |-> IF n = k THEN Step(f, k) ELSE f[n]]
      <3>3. \A n \in 0 .. k : g[n] = Step(g, n)
        <4> SUFFICES ASSUME NEW n \in 0 .. k PROVE g[n] = Step(g, n)
          OBVIOUS
        <4>1. n # 0 => g[n - 1] = f[n - 1]
          BY <2>1
        <4>2. CASE n = k
          BY <4>1, <4>2, <2>3
        <4>3. CASE n # k
          <5>1. n \in 0 .. k - 1
            BY <4>3, <2>1
          <5>2. g[n] = f[n]
            BY <4>3
          <5>3. f[n] = Step(f, n)
            BY <3>2, <5>1
          <5> QED
            BY <4>1, <5>2, <5>3
        <4> QED
          BY <4>2, <4>3
      <3>4. g = [n \in 0 .. k |-> Step(g, n)]
        <4> HIDE DEF Step
        <4> QED
          BY <3>3
      <3> QED
        BY <2>1, <3>4
    <2> QED
      BY <2>2, <2>3
  <1>3. PICK g : g = [n \in 0 .. Cardinality(Blocks) |-> Step(g, n)]
    BY <1>1, <1>2
  <1>4. Back(b) = [n \in 0 .. Cardinality(Blocks) |-> Step(Back(b), n)]
    BY <1>3 DEF Back
  <1> QED
    BY <1>4
\* The walk stays within the blocks, or ends in null.
LEMMA BackTyped ==
    ASSUME BlocksAssumption, TypeOK, NEW b \in Blocks
    PROVE  \A n \in 0 .. Cardinality(Blocks) : Back(b)[n] \in Blocks \union {None}
  <1> DEFINE Wrong == {n \in 0 .. Cardinality(Blocks) :
                          Back(b)[n] \notin Blocks \union {None}}
  <1>1. Cardinality(Blocks) \in Nat
    BY FS_CardinalityType DEF BlocksAssumption
  <1>2. SUFFICES ASSUME Wrong # {} PROVE FALSE
    OBVIOUS
  <1>3. PICK n \in Wrong : \A m \in Wrong : n <= m
    <2>1. Wrong \subseteq Nat
      BY <1>1
    <2> HIDE DEF Wrong
    <2> QED
      BY <1>2, <2>1, LeastNatural
  <1>4. n \in 0 .. Cardinality(Blocks) /\ Back(b)[n] \notin Blocks \union {None}
    OBVIOUS
  <1>5. CASE n = 0
    BY <1>4, <1>5, BackStep
  <1>6. CASE n # 0
    <2>1. n - 1 \in 0 .. Cardinality(Blocks)
      BY <1>1, <1>4, <1>6
    <2>2. n - 1 \notin Wrong
      <3> HIDE DEF Wrong
      <3> QED
        BY <1>3, <1>4
    <2>3. Back(b)[n - 1] \in Blocks \union {None}
      BY <2>1, <2>2
    <2>4. Back(b)[n] = IF InAlt(Back(b)[n - 1]) THEN alt[Back(b)[n - 1]].prev
                       ELSE Back(b)[n - 1]
      BY <1>4, <1>6, BackStep
    <2>5. ASSUME InAlt(Back(b)[n - 1])
          PROVE  alt[Back(b)[n - 1]].prev \in Blocks \union {None}
      BY <2>5 DEF InAlt, TypeOK, AltEntry
    <2> QED
      BY <1>4, <2>3, <2>4, <2>5
  <1> QED
    BY <1>5, <1>6

\* AltLength counts the alternative blocks at the start of the walk.
LEMMA AltLengthProperty ==
    ASSUME BlocksAssumption, NEW b
    PROVE  /\ AltLength(b) \in 0 .. Cardinality(Blocks) + 1
           /\ \A m \in 0 .. AltLength(b) - 1 :
                 m \in 0 .. Cardinality(Blocks) /\ InAlt(Back(b)[m])
           /\ AltLength(b) <= Cardinality(Blocks) => ~InAlt(Back(b)[AltLength(b)])
  <1> DEFINE D == 0 .. Cardinality(Blocks)
             Walk == {n \in D : \A m \in 0 .. n : InAlt(Back(b)[m])}
             Ends == D \ Walk
  <1>1. Cardinality(Blocks) \in Nat
    BY FS_CardinalityType DEF BlocksAssumption
  <1>2. AltLength(b) = Cardinality(Walk)
    BY DEF AltLength
  <1>3. CASE Ends = {}
    <2>1. Walk = D
      BY <1>3
    <2>0. AltLength(b) = Cardinality(0 .. Cardinality(Blocks))
      BY <1>2, <2>1
    <2>2. AltLength(b) = Cardinality(Blocks) + 1
      BY <1>1, <2>0, FS_Interval
    <2>3. \A m \in D : InAlt(Back(b)[m])
      BY <1>1, <2>1
    <2> QED
      BY <1>1, <2>2, <2>3
  <1>4. CASE Ends # {}
    <2>1. PICK k \in Ends : \A m \in Ends : k <= m
      <3>1. Ends \subseteq Nat
        BY <1>1
      <3> HIDE DEF Ends
      <3> QED
        BY <1>4, <3>1, LeastNatural
    <2>2. k \in D
      OBVIOUS
    <2>3. ASSUME NEW n \in 0 .. k - 1 PROVE n \in Walk
      <3>1. n \in D /\ ~(k <= n)
        BY <1>1, <2>2
      <3>2. n \notin Ends
        BY <2>1, <3>1
      <3> QED
        BY <3>1, <3>2
    <2>4. ASSUME NEW n \in Walk PROVE n \in 0 .. k - 1
      <3>1. n \in D /\ \A m \in 0 .. n : InAlt(Back(b)[m])
        OBVIOUS
      <3>2. ASSUME k <= n PROVE k \in Walk
        <4>1. \A m \in 0 .. k : m \in 0 .. n
          BY <1>1, <2>2, <3>1, <3>2
        <4> QED
          BY <2>2, <3>1, <4>1
      <3>3. ~(k <= n)
        BY <3>2
      <3> QED
        BY <1>1, <2>2, <3>1, <3>3
    <2>5. Walk = 0 .. k - 1
      BY <2>3, <2>4
    <2>0. AltLength(b) = Cardinality(0 .. k - 1)
      BY <1>2, <2>5
    <2>6. AltLength(b) = k
      BY <1>1, <2>2, <2>0, FS_Interval
    <2>7. \A m \in 0 .. k - 1 : m \in D /\ InAlt(Back(b)[m])
      <3> TAKE m \in 0 .. k - 1
      <3>1. m \in Walk
        BY <2>3
      <3> QED
        BY <1>1, <3>1
    <2>8. ~InAlt(Back(b)[k])
      <3>1. PICK m \in 0 .. k : ~InAlt(Back(b)[m])
        BY <2>2
      <3> QED
        BY <1>1, <2>2, <2>7, <3>1
    <2> QED
      BY <1>1, <2>2, <2>6, <2>7, <2>8
  <1> QED
    BY <1>3, <1>4

\* A split is below the top of the main chain: a rollback keeps the genesis
\* block and does not ask for more blocks than there are.
LEMMA RollbackInRange ==
    ASSUME BlocksAssumption, TypeOK, NEW b \in Blocks
    PROVE  /\ SplitHeight(b) \in 0 .. Height - 1
           /\ Connected(b) \/ SplitHeight(b) = 0
  <1> DEFINE x == Back(b)[AltLength(b)]
  <1>1. Height \in Nat \ {0}
    BY DEF TypeOK, Height
  <1>2. CASE OnMain(x)
    <2>1. \E i \in 1 .. Height : main[i].hash = x
      BY <1>2 DEF OnMain
    <2>2. (CHOOSE i \in 1 .. Height : main[i].hash = x) \in 1 .. Height
      BY <2>1
    <2> QED
      BY <1>1, <1>2, <2>2 DEF Root, FindBlock, SplitHeight, Connected
  <1>3. CASE ~OnMain(x)
    BY <1>1, <1>3 DEF Root, FindBlock, SplitHeight, Connected
  <1> QED
    BY <1>2, <1>3

-----------------------------------------------------------------------------
(***************************************************************************)
(* What a new alternative block is stored with, and what a switch applies   *)
(***************************************************************************)
\* The chain from the split consists of alternative blocks.
LEMMA AltChainTyped ==
    ASSUME BlocksAssumption, TypeOK, NEW b \in Blocks
    PROVE  /\ AltChain(b) \in Seq({x \in Blocks : alt[x] # None})
           /\ Len(AltChain(b)) = AltLength(b)
  <1>1. Cardinality(Blocks) \in Nat
    BY FS_CardinalityType DEF BlocksAssumption
  <1>2. AltLength(b) \in Nat
    BY <1>1, AltLengthProperty
  <1>3. ASSUME NEW i \in 1 .. AltLength(b)
        PROVE  Back(b)[AltLength(b) - i] \in {x \in Blocks : alt[x] # None}
    <2>1. AltLength(b) - i \in 0 .. AltLength(b) - 1
      BY <1>2
    <2> QED
      BY <2>1, AltLengthProperty DEF InAlt
  <1>4. AltChain(b) \in [1 .. AltLength(b) -> {x \in Blocks : alt[x] # None}]
    BY <1>3 DEF AltChain
  <1> QED
    BY <1>2, <1>4

\* The new block is the last of its chain.
LEMMA FullChainTyped ==
    ASSUME BlocksAssumption, TypeOK, NEW b \in Blocks, b # Genesis
    PROVE  /\ FullChain(b) \in Seq(Blocks)
           /\ Len(FullChain(b)) = AltLength(Parent[b]) + 1
           /\ Len(FullChain(b)) \in Nat \ {0}
           /\ FullChain(b)[Len(FullChain(b))] = b
           /\ \A i \in 1 .. Len(FullChain(b)) :
                 FullChain(b)[i] = b \/ alt[FullChain(b)[i]] # None
  <1> DEFINE c == AltChain(Parent[b])
  <1>1. Parent[b] \in Blocks
    BY DEF BlocksAssumption
  <1>2. c \in Seq({x \in Blocks : alt[x] # None}) /\ Len(c) = AltLength(Parent[b])
    BY <1>1, AltChainTyped
  <1>3. c \in Seq(Blocks)
    BY <1>2, SeqMonotonic
  <1>4. \A i \in 1 .. Len(c) : alt[c[i]] # None
    BY <1>2, ElementOfSeq
  <1>5. Len(c) \in Nat
    BY <1>3
  <1> HIDE DEF c
  <1>6. /\ Append(c, b) \in Seq(Blocks)
        /\ Len(Append(c, b)) = Len(c) + 1
        /\ \A i \in 1 .. Len(c) : Append(c, b)[i] = c[i]
        /\ Append(c, b)[Len(c) + 1] = b
    BY <1>3, AppendProperties
  <1>7. FullChain(b) = Append(c, b)
    BY DEF FullChain, c
  <1> QED
    BY <1>2, <1>4, <1>5, <1>6, <1>7

(* What _handleAlternativeBlock computes for a block: a stored parent, a    *)
(* height and a cumulative difficulty.                                     *)
LEMMA AltInfoTyped ==
    ASSUME BlocksAssumption, TypeOK, NEW b \in Blocks, b # Genesis
    PROVE  AltInfo(b) \in [prev : Blocks, height : Nat, cum : Int]
  <1> DEFINE p == Parent[b]
  <1>1. p \in Blocks
    BY DEF BlocksAssumption
  <1>2. SplitHeight(p) \in 0 .. Height - 1 /\ Height \in Nat
    BY <1>1, RollbackInRange DEF TypeOK, Height
  <1>3. AltLength(p) \in Nat
    BY <1>1, AltLengthProperty, FS_CardinalityType DEF BlocksAssumption
  <1>4. CumulativeBefore(p) \in Int
    <2>1. InAlt(p) => alt[p].cum \in Int
      BY DEF InAlt, TypeOK, AltEntry
    <2>2. main[SplitHeight(p) + 1].cum \in Int
      <3>1. SplitHeight(p) + 1 \in 1 .. Len(main)
        BY <1>2 DEF Height
      <3>2. main[SplitHeight(p) + 1] \in MainEntry
        BY <3>1, ElementOfSeq DEF TypeOK
      <3> QED
        BY <3>2 DEF MainEntry
    <2> QED
      BY <2>1, <2>2 DEF CumulativeBefore
  <1>5. AltWork(b) \in Int
    BY DEF AltWork, BlocksAssumption
  <1> QED
    BY <1>1, <1>2, <1>3, <1>4, <1>5 DEF AltInfo

(* Storing an alternative block keeps the map an array of typed entries.   *)
LEMMA StoredTyped ==
    ASSUME BlocksAssumption, TypeOK, NEW b \in Blocks, b # Genesis
    PROVE  /\ Stored(b) \in [Blocks -> AltEntry \union {None}]
           /\ Stored(b)[b] = AltInfo(b)
           /\ \A x \in Blocks : x # b => Stored(b)[x] = alt[x]
           /\ \A i \in 1 .. Len(FullChain(b)) : Stored(b)[FullChain(b)[i]].cum \in Int
  <1>1. AltInfo(b) \in AltEntry
    BY AltInfoTyped DEF AltEntry
  <1>2. /\ Stored(b) \in [Blocks -> AltEntry \union {None}]
        /\ Stored(b)[b] = AltInfo(b)
        /\ \A x \in Blocks : x # b => Stored(b)[x] = alt[x]
    BY <1>1 DEF TypeOK, Stored
  <1>3. ASSUME NEW i \in 1 .. Len(FullChain(b))
        PROVE  Stored(b)[FullChain(b)[i]].cum \in Int
    <2>1. FullChain(b)[i] \in Blocks
      BY FullChainTyped, ElementOfSeq
    <2>2. FullChain(b)[i] = b \/ alt[FullChain(b)[i]] # None
      BY FullChainTyped
    <2>3. CASE FullChain(b)[i] = b
      BY <1>1, <1>2, <2>3 DEF AltEntry
    <2>4. CASE FullChain(b)[i] # b
      BY <1>2, <2>1, <2>2, <2>4 DEF TypeOK, AltEntry
    <2> QED
      BY <2>3, <2>4
  <1> QED
    BY <1>2, <1>3

\* The chain after a switch: the blocks up to the split, then those of the
\* alternative chain; its cumulative difficulty is the new block's.
LEMMA NewMainTyped ==
    ASSUME BlocksAssumption, TypeOK, NEW b \in Blocks, b # Genesis
    PROVE  /\ NewMain(b) \in Seq(MainEntry) /\ Len(NewMain(b)) > 0
           /\ NewMain(b)[1].hash = Genesis
           /\ CumulativeDifficulty(NewMain(b)) = AltInfo(b).cum
           /\ RollbackHeight(b) \in 1 .. Len(main)
           /\ Len(NewMain(b)) = RollbackHeight(b) + Len(FullChain(b))
           /\ \A i \in 1 .. RollbackHeight(b) : NewMain(b)[i] = main[i]
           /\ \A i \in 1 .. Len(FullChain(b)) :
                 /\ NewMain(b)[RollbackHeight(b) + i].hash = FullChain(b)[i]
                 /\ NewMain(b)[RollbackHeight(b) + i].cum = Stored(b)[FullChain(b)[i]].cum
  <1> DEFINE h == RollbackHeight(b)
             full == FullChain(b)
             n == Len(full)
  <1>1. h \in 1 .. Len(main) /\ Len(main) \in Nat
    <2>1. Parent[b] \in Blocks
      BY DEF BlocksAssumption
    <2>2. SplitHeight(Parent[b]) \in 0 .. Height - 1
      BY <2>1, RollbackInRange
    <2>3. Len(main) \in Nat
      BY DEF TypeOK
    <2> QED
      BY <2>2, <2>3 DEF RollbackHeight, Height
  <1>2. /\ Kept(h) \in Seq(MainEntry)
        /\ Len(Kept(h)) = h
        /\ \A i \in 1 .. h : Kept(h)[i] = main[i]
    <2>1. \A i \in 1 .. h : main[i] \in MainEntry
      BY <1>1, ElementOfSeq DEF TypeOK
    <2> HIDE DEF h
    <2> QED
      BY <1>1, <2>1, SubSeqProperties DEF Kept
  <1>3. n \in Nat \ {0} /\ full[n] = b /\ \A i \in 1 .. n : full[i] \in Blocks
    BY FullChainTyped, ElementOfSeq
  <1>4. Applied(b) \in [1 .. n -> MainEntry]
    <2>1. ASSUME NEW i \in 1 .. n
          PROVE  [hash |-> full[i], cum |-> Stored(b)[full[i]].cum] \in MainEntry
      BY <1>3, StoredTyped DEF MainEntry
    <2> QED
      BY <2>1 DEF Applied
  <1>5. Applied(b) \in Seq(MainEntry) /\ Len(Applied(b)) = n
    BY <1>3, <1>4
  <1>6. Applied(b)[n].cum = AltInfo(b).cum
    <2>1. Applied(b)[n] = [hash |-> full[n], cum |-> Stored(b)[full[n]].cum]
      BY <1>3 DEF Applied
    <2> QED
      BY <1>3, <2>1, StoredTyped
  <1>7. /\ NewMain(b) \in Seq(MainEntry)
        /\ Len(NewMain(b)) = h + n
        /\ \A i \in 1 .. h : NewMain(b)[i] = main[i]
        /\ \A i \in 1 .. n : NewMain(b)[h + i] = Applied(b)[i]
    <2> DEFINE kept == Kept(h)
               applied == Applied(b)
    <2>1. NewMain(b) = kept \o applied
      BY DEF NewMain
    <2> HIDE DEF h, n, kept, applied
    <2>2. /\ kept \o applied \in Seq(MainEntry)
          /\ Len(kept \o applied) = Len(kept) + Len(applied)
          /\ \A i \in 1 .. Len(kept) + Len(applied) :
                (kept \o applied)[i] =
                    IF i <= Len(kept) THEN kept[i] ELSE applied[i - Len(kept)]
      <3>1. kept \in Seq(MainEntry) /\ applied \in Seq(MainEntry)
        BY <1>2, <1>5 DEF kept, applied
      <3> QED
        BY <3>1, ConcatProperties
    <2>3. Len(kept) = h /\ Len(applied) = n /\ \A i \in 1 .. h : kept[i] = main[i]
      BY <1>1, <1>2, <1>5 DEF kept, applied
    <2>4. ASSUME NEW i \in 1 .. h PROVE (kept \o applied)[i] = main[i]
      <3>1. i \in 1 .. h + n /\ i <= h
        BY <1>1, <1>3
      <3> QED
        BY <2>2, <2>3, <3>1
    <2>5. ASSUME NEW i \in 1 .. n PROVE (kept \o applied)[h + i] = applied[i]
      <3>1. h + i \in 1 .. h + n /\ ~(h + i <= h) /\ h + i - h = i
        BY <1>1, <1>3
      <3> QED
        BY <2>2, <2>3, <3>1
    <2>6. applied = Applied(b)
      BY DEF applied
    <2> QED
      BY <2>1, <2>2, <2>3, <2>4, <2>5, <2>6
  <1>8. \A i \in 1 .. n :
           Applied(b)[i].hash = full[i] /\ Applied(b)[i].cum = Stored(b)[full[i]].cum
    BY DEF Applied
  <1>9. 1 \in 1 .. h /\ n \in 1 .. n
    BY <1>1, <1>3
  <1>10. Len(NewMain(b)) > 0 /\ NewMain(b)[1].hash = Genesis
    BY <1>1, <1>3, <1>7, <1>9 DEF TypeOK
  <1>11. CumulativeDifficulty(NewMain(b)) = AltInfo(b).cum
    BY <1>6, <1>7, <1>9 DEF CumulativeDifficulty
  <1>12. \A i \in 1 .. n : /\ NewMain(b)[h + i].hash = full[i]
                            /\ NewMain(b)[h + i].cum = Stored(b)[full[i]].cum
    BY <1>7, <1>8
  <1> QED
    BY <1>1, <1>7, <1>10, <1>11, <1>12

\* A failed switch puts the main chain back as it was.
THEOREM FailedSwitchUndone ==
    ASSUME BlocksAssumption, TypeOK, NEW b \in Blocks, b # Genesis
    PROVE  Restored(b) = main
  <1> DEFINE h == RollbackHeight(b)
             popped == Popped(h)
             back == [i \in 1 .. Len(popped) |-> popped[Len(popped) + 1 - i]]
  <1>1. h \in 1 .. Len(main) /\ Len(main) \in Nat /\ main \in Seq(MainEntry)
    <2>1. Parent[b] \in Blocks
      BY DEF BlocksAssumption
    <2>2. SplitHeight(Parent[b]) \in 0 .. Height - 1
      BY <2>1, RollbackInRange
    <2>3. Len(main) \in Nat /\ main \in Seq(MainEntry)
      BY DEF TypeOK
    <2> QED
      BY <2>2, <2>3 DEF RollbackHeight, Height
  <1>2. \A i \in 1 .. Len(main) : main[i] \in MainEntry
    BY <1>1, ElementOfSeq
  <1>3. /\ Kept(h) \in Seq(MainEntry)
        /\ Len(Kept(h)) = h
        /\ \A i \in 1 .. h : Kept(h)[i] = main[i]
    <2> HIDE DEF h
    <2> QED
      BY <1>1, <1>2, SubSeqProperties DEF Kept
  <1>4. /\ Len(popped) = Len(main) - h
        /\ \A i \in 1 .. Len(main) - h : popped[i] = main[Len(main) + 1 - i]
    <2> HIDE DEF h
    <2> QED
      BY <1>1 DEF Popped, Height
  <1>5. /\ back \in [1 .. Len(main) - h -> MainEntry]
        /\ \A i \in 1 .. Len(main) - h : back[i] = main[h + i]
    <2> HIDE DEF h, popped
    <2>1. ASSUME NEW i \in 1 .. Len(main) - h
          PROVE  popped[Len(popped) + 1 - i] = main[h + i]
      <3>1. Len(main) - h + 1 - i \in 1 .. Len(main) - h
        BY <1>1
      <3>2. popped[Len(main) - h + 1 - i] = main[Len(main) + 1 - (Len(main) - h + 1 - i)]
        BY <1>4, <3>1
      <3>3. Len(main) + 1 - (Len(main) - h + 1 - i) = h + i
        BY <1>1
      <3> QED
        BY <1>4, <3>2, <3>3
    <2>2. \A i \in 1 .. Len(main) - h : h + i \in 1 .. Len(main)
      BY <1>1
    <2> QED
      BY <1>2, <1>4, <2>1, <2>2
  <1>6. back \in Seq(MainEntry) /\ Len(back) = Len(main) - h
    <2> HIDE DEF h, back
    <2>1. Len(main) - h \in Nat
      BY <1>1
    <2> QED
      BY <1>5, <2>1
  <1>7. /\ Kept(h) \o back \in Seq(MainEntry)
        /\ Len(Kept(h) \o back) = Len(main)
        /\ \A i \in 1 .. Len(main) : (Kept(h) \o back)[i] = main[i]
    <2> HIDE DEF h, back
    <2>1. /\ Kept(h) \o back \in Seq(MainEntry)
          /\ Len(Kept(h) \o back) = Len(main)
          /\ \A i \in 1 .. Len(main) :
                (Kept(h) \o back)[i] = IF i <= h THEN Kept(h)[i] ELSE back[i - h]
      <3>1. Kept(h) \in Seq(MainEntry) /\ Len(Kept(h)) = h
        BY <1>3
      <3>2. /\ Kept(h) \o back \in Seq(MainEntry)
            /\ Len(Kept(h) \o back) = Len(Kept(h)) + Len(back)
            /\ \A i \in 1 .. Len(Kept(h)) + Len(back) :
                  (Kept(h) \o back)[i] = IF i <= Len(Kept(h)) THEN Kept(h)[i]
                                         ELSE back[i - Len(Kept(h))]
        <4>1. ASSUME NEW s \in Seq(MainEntry), NEW t \in Seq(MainEntry)
              PROVE  /\ s \o t \in Seq(MainEntry)
                     /\ Len(s \o t) = Len(s) + Len(t)
                     /\ \A i \in 1 .. Len(s) + Len(t) :
                           (s \o t)[i] = IF i <= Len(s) THEN s[i] ELSE t[i - Len(s)]
          BY ConcatProperties
        <4> QED
          BY <1>6, <3>1, <4>1
      <3>3. Len(Kept(h)) + Len(back) = Len(main)
        BY <1>1, <1>6, <3>1
      <3> QED
        BY <3>1, <3>2, <3>3
    <2>2. ASSUME NEW i \in 1 .. Len(main) PROVE (Kept(h) \o back)[i] = main[i]
      <3>1. CASE i <= h
        BY <1>1, <1>3, <2>1, <3>1
      <3>2. CASE ~(i <= h)
        <4>1. i - h \in 1 .. Len(main) - h /\ h + (i - h) = i
          BY <1>1, <3>2
        <4>2. back[i - h] = main[h + (i - h)]
          BY <1>5, <4>1
        <4> QED
          BY <2>1, <3>2, <4>1, <4>2
      <3> QED
        BY <3>1, <3>2
    <2> QED
      BY <2>1, <2>2
  <1>8. Restored(b) = Kept(h) \o back
    BY DEF Restored
  <1> QED
    <2> HIDE DEF h, back
    <2> QED
      BY <1>1, <1>7, <1>8, SeqEqual

-----------------------------------------------------------------------------
(***************************************************************************)
(* Types, and the work of the main chain                                   *)
(***************************************************************************)
LEMMA FindBlockTyped ==
    ASSUME TypeOK, NEW x
    PROVE  FindBlock(x) \in -1 .. Height - 1
  <1>1. Height \in Nat \ {0}
    BY DEF TypeOK, Height
  <1>2. CASE OnMain(x)
    <2>1. (CHOOSE i \in 1 .. Height : main[i].hash = x) \in 1 .. Height
      BY <1>2 DEF OnMain
    <2> QED
      BY <1>1, <1>2, <2>1 DEF FindBlock
  <1> QED
    BY <1>1, <1>2 DEF FindBlock

\* The map after a switch.
LEMMA AltAfterSwitchTyped ==
    ASSUME BlocksAssumption, TypeOK, NEW b \in Blocks, b # Genesis
    PROVE  AltAfterSwitch(b) \in [Blocks -> AltEntry \union {None}]
  <1>1. ASSUME NEW x \in Blocks, FindBlock(x) >= RollbackHeight(b)
        PROVE  DisconnectedInfo(NewMain(b), FindBlock(x)) \in AltEntry
    <2> DEFINE h == FindBlock(x)
               c == NewMain(b)
    <2>1. Parent[b] \in Blocks
      BY DEF BlocksAssumption
    <2>2. RollbackHeight(b) >= 1 /\ RollbackHeight(b) \in Nat
      <3>1. Height \in Nat
        BY DEF TypeOK, Height
      <3>2. SplitHeight(Parent[b]) \in 0 .. Height - 1
        BY <2>1, RollbackInRange
      <3> QED
        BY <3>1, <3>2 DEF RollbackHeight
    <2>3. h \in Int
      BY FindBlockTyped DEF TypeOK, Height
    <2>4. h \in Nat \ {0}
      BY <1>1, <2>2, <2>3
    <2>5. c \in Seq(MainEntry)
      BY NewMainTyped
    <2> HIDE DEF h, c
    <2>6. h <= Len(c) => c[h].hash \in Blocks
      <3> SUFFICES ASSUME h <= Len(c) PROVE c[h].hash \in Blocks
        OBVIOUS
      <3>1. h \in 1 .. Len(c)
        BY <2>4, <2>5
      <3>2. c[h] \in MainEntry
        BY <2>5, <3>1, ElementOfSeq
      <3> QED
        BY <3>2 DEF MainEntry
    <2>7. DisconnectedInfo(c, h) \in AltEntry
      BY <2>4, <2>6 DEF DisconnectedInfo, AltEntry
    <2> QED
      BY <2>7 DEF h, c
  <1>2. \A x \in Blocks : Stored(b)[x] \in AltEntry \union {None}
    BY StoredTyped
  <1> QED
    BY <1>1, <1>2 DEF AltAfterSwitch

(* The manager starts, with the genesis block alone, in a typed state.     *)
LEMMA TypeOKInit == ASSUME BlocksAssumption PROVE Init => TypeOK
  <1> SUFFICES ASSUME Init PROVE TypeOK
    OBVIOUS
  <1>1. [hash |-> Genesis, cum |-> Work[Genesis]] \in MainEntry
    BY DEF BlocksAssumption, MainEntry
  <1> QED
    BY <1>1 DEF Init, TypeOK

\* One call keeps the types, and the recorded work of the main chain does not
\* go down.
LEMMA TypeOKStep ==
    ASSUME BlocksAssumption, TypeOK, [Next]_vars
    PROVE  TypeOK' /\ CumulativeDifficulty(main') >= CumulativeDifficulty(main)
  <1> DEFINE Good == TypeOK' /\ CumulativeDifficulty(main') >= CumulativeDifficulty(main)
  <1>1. /\ main \in Seq(MainEntry) /\ Len(main) \in Nat \ {0}
        /\ main[1].hash = Genesis
        /\ alt \in [Blocks -> AltEntry \union {None}]
        /\ invalid \subseteq Blocks
    BY DEF TypeOK
  <1>2. CumulativeDifficulty(main) \in Int
    <2>1. main[Len(main)] \in MainEntry
      BY <1>1, ElementOfSeq
    <2> QED
      BY <2>1 DEF CumulativeDifficulty, MainEntry
  <1>3. ASSUME UNCHANGED main,
               alt' \in [Blocks -> AltEntry \union {None}], invalid' \subseteq Blocks
        PROVE  Good
    BY <1>1, <1>2, <1>3 DEF TypeOK, CumulativeDifficulty
  <1>4. ASSUME NEW b \in Blocks, MarkInvalid(b) PROVE Good
    BY <1>1, <1>3, <1>4 DEF MarkInvalid
  <1>5. ASSUME NEW b \in Blocks, Extend(b) PROVE Good
    <2> DEFINE e == [hash |-> b, cum |-> CumulativeDifficulty(main) + Work[b]]
    <2>1. e \in MainEntry
      BY <1>2 DEF MainEntry, BlocksAssumption
    <2>2. main' = Append(main, e)
      BY <1>5 DEF Extend
    <2> HIDE DEF e
    <2>3. /\ main' \in Seq(MainEntry) /\ Len(main') = Len(main) + 1
          /\ \A i \in 1 .. Len(main) : main'[i] = main[i]
          /\ main'[Len(main) + 1] = e
      BY <1>1, <2>1, <2>2, AppendProperties
    <2>4. Len(main') > 0 /\ main'[1].hash = Genesis
      <3>1. 1 \in 1 .. Len(main)
        BY <1>1
      <3>2. main'[1] = main[1]
        BY <2>3, <3>1
      <3> QED
        BY <1>1, <2>3, <3>2
    <2>5. CumulativeDifficulty(main') = CumulativeDifficulty(main) + Work[b]
      BY <2>3 DEF CumulativeDifficulty, e
    <2>6. Work[b] \in Nat
      BY DEF BlocksAssumption
    <2>7. alt' \in [Blocks -> AltEntry \union {None}] /\ invalid' = invalid
      BY <1>1, <1>5 DEF Extend, Pruned
    <2> QED
      BY <1>1, <1>2, <2>3, <2>4, <2>5, <2>6, <2>7 DEF TypeOK
  <1>6. ASSUME NEW b \in Blocks, AddAlternative(b) PROVE Good
    <2>1. b # Genesis
      BY <1>6 DEF AddAlternative, Acceptable, OffTip, New
    <2>2. Stored(b) \in [Blocks -> AltEntry \union {None}]
      BY <2>1, StoredTyped
    <2> QED
      BY <1>1, <1>3, <1>6, <2>2 DEF AddAlternative
  <1>7. ASSUME NEW b \in Blocks, Switch(b) PROVE Good
    <2>1. b # Genesis
      BY <1>7 DEF Switch, Acceptable, OffTip, New
    <2>2. main' = NewMain(b) /\ alt' = AltAfterSwitch(b) /\ invalid' = invalid
      BY <1>7 DEF Switch
    <2>3. TypeOK'
      BY <1>1, <2>1, <2>2, NewMainTyped, AltAfterSwitchTyped DEF TypeOK
    <2>4. CumulativeDifficulty(main') = AltInfo(b).cum
      BY <2>1, <2>2, NewMainTyped
    <2>5. AltInfo(b).cum > CumulativeDifficulty(main)
      BY <1>7 DEF Switch, Heavier
    <2>6. AltInfo(b).cum \in Int
      BY <2>1, AltInfoTyped
    <2> QED
      BY <1>2, <2>3, <2>4, <2>5, <2>6
  <1>8. ASSUME NEW b \in Blocks, SwitchFails(b) PROVE Good
    <2>1. b # Genesis
      BY <1>8 DEF SwitchFails, Acceptable, OffTip, New
    <2>2. main' = main
      BY <1>8, <2>1, FailedSwitchUndone DEF SwitchFails
    <2>3. Stored(b) \in [Blocks -> AltEntry \union {None}]
      BY <2>1, StoredTyped
    <2> QED
      BY <1>1, <1>3, <1>8, <2>2, <2>3 DEF SwitchFails
  <1>9. CASE FlushAltBlocks
    BY <1>1, <1>3, <1>9 DEF FlushAltBlocks
  <1>10. CASE FlushInvalidBlocks
    BY <1>1, <1>3, <1>10 DEF FlushInvalidBlocks
  <1>11. CASE UNCHANGED vars
    BY <1>1, <1>3, <1>11 DEF vars
  <1> QED
    BY <1>4, <1>5, <1>6, <1>7, <1>8, <1>9, <1>10, <1>11
    DEF Next, HandleBlock, RejectChild, RejectOnTip, RejectAlternative

\* The chain state and both maps keep their types, and no switch pops the
\* genesis block, for every block tree.
THEOREM AltTypeCorrect == ASSUME BlocksAssumption PROVE Spec => []TypeOK
  <1>1. Init => TypeOK
    BY TypeOKInit
  <1>2. TypeOK /\ [Next]_vars => TypeOK'
    BY TypeOKStep
  <1> QED
    BY <1>1, <1>2, PTL DEF Spec

\* Neither a switch nor a failed one leaves the main chain with less recorded
\* work than it had.
THEOREM NeverLosesWork == ASSUME BlocksAssumption PROVE Spec => NeverLighter
  <1>1. TypeOK /\ [Next]_vars
            => [CumulativeDifficulty(main') >= CumulativeDifficulty(main)]_vars
    BY TypeOKStep
  <1> QED
    BY <1>1, AltTypeCorrect, PTL DEF Spec, NeverLighter

-----------------------------------------------------------------------------
(***************************************************************************)
(* Where blocks stand.  A block is hashed over its prevHash, so the block    *)
(* tree has no cycle: Depth is the distance of a block from the genesis      *)
(* block.                                                                  *)
(***************************************************************************)
DepthOfBlocks(Depth) ==
    /\ Depth \in [Blocks -> Nat]
    /\ Depth[Genesis] = 0
    /\ \A b \in Blocks \ {Genesis} : Depth[b] = Depth[Parent[b]] + 1

\* The blocks of the main chain stand at their own depth, and the block an
\* alternative block is stored on top of, its parent or one that a switch put
\* there, is one less deep.
MainDepths(Depth) == \A i \in 1 .. Len(main) : Depth[main[i].hash] = i - 1

AltDepths(Depth) ==
    \A x \in Blocks :
        alt[x] # None /\ alt[x].prev # None => Depth[alt[x].prev] + 1 = Depth[x]

\* The inductive invariant: with the two above, the main chain records some
\* work, so that no disconnected chain outweighs it.
WellPlaced(Depth) ==
    /\ TypeOK
    /\ CumulativeDifficulty(main) >= 1
    /\ MainDepths(Depth)
    /\ AltDepths(Depth)
    /\ Disjoint

\* After n steps back the walk is at a block n less deep.
LEMMA WalkDepth ==
    ASSUME BlocksAssumption, TypeOK, NEW Depth, DepthOfBlocks(Depth),
           AltDepths(Depth), NEW b \in Blocks, NEW m \in 0 .. Cardinality(Blocks),
           m <= AltLength(b), Back(b)[m] \in Blocks
    PROVE  Depth[Back(b)[m]] + m = Depth[b]
  <1> DEFINE Wrong == {n \in 0 .. Cardinality(Blocks) :
                          /\ n <= AltLength(b) /\ Back(b)[n] \in Blocks
                          /\ Depth[Back(b)[n]] + n # Depth[b]}
  <1>1. Cardinality(Blocks) \in Nat /\ AltLength(b) \in Nat
    BY FS_CardinalityType, AltLengthProperty DEF BlocksAssumption
  <1>2. SUFFICES ASSUME Wrong # {} PROVE FALSE
    OBVIOUS
  <1>3. PICK n \in Wrong : \A k \in Wrong : n <= k
    <2>1. Wrong \subseteq Nat
      BY <1>1
    <2> HIDE DEF Wrong
    <2> QED
      BY <1>2, <2>1, LeastNatural
  <1>4. /\ n \in 0 .. Cardinality(Blocks) /\ n <= AltLength(b)
        /\ Back(b)[n] \in Blocks /\ Depth[Back(b)[n]] + n # Depth[b]
    OBVIOUS
  <1>5. CASE n = 0
    <2>1. Back(b)[n] = b
      BY <1>4, <1>5, BackStep
    <2>2. Depth[b] \in Nat
      BY DEF DepthOfBlocks
    <2> QED
      BY <1>4, <1>5, <2>1, <2>2
  <1>6. CASE n # 0
    <2> DEFINE x == Back(b)[n - 1]
    <2>1. n - 1 \in 0 .. Cardinality(Blocks) /\ n - 1 \in 0 .. AltLength(b) - 1
      BY <1>1, <1>4, <1>6
    <2>2. InAlt(x)
      BY <2>1, AltLengthProperty
    <2>3. x \in Blocks /\ alt[x] # None
      BY <2>2 DEF InAlt
    <2>4. n - 1 \notin Wrong
      <3> HIDE DEF Wrong
      <3> QED
        BY <1>1, <1>3, <1>4
    <2>5. Depth[x] + (n - 1) = Depth[b]
      BY <1>1, <2>1, <2>3, <2>4
    <2>6. Back(b)[n] = alt[x].prev
      BY <1>4, <1>6, <2>2, BackStep
    <2>7. alt[x].prev # None
      BY <1>4, <2>6 DEF BlocksAssumption
    <2>8. Depth[alt[x].prev] + 1 = Depth[x]
      BY <2>3, <2>7 DEF AltDepths
    <2>9. Depth[alt[x].prev] \in Nat /\ Depth[x] \in Nat /\ Depth[b] \in Nat
      BY <1>4, <2>3, <2>6 DEF DepthOfBlocks
    <2> QED
      BY <1>1, <1>4, <2>5, <2>6, <2>8, <2>9
  <1> QED
    BY <1>5, <1>6

\* The loop of _buildAltChain ends, whatever switches have stored: the walk
\* leaves the alternative blocks before it could have seen all blocks twice.
LEMMA WalkEnds ==
    ASSUME BlocksAssumption, TypeOK, NEW Depth, DepthOfBlocks(Depth),
           AltDepths(Depth), NEW b \in Blocks
    PROVE  AltLength(b) \in 0 .. Cardinality(Blocks)
  <1>1. Cardinality(Blocks) \in Nat /\ AltLength(b) \in 0 .. Cardinality(Blocks) + 1
    BY FS_CardinalityType, AltLengthProperty DEF BlocksAssumption
  <1>2. SUFFICES ASSUME AltLength(b) = Cardinality(Blocks) + 1 PROVE FALSE
    BY <1>1
  <1> DEFINE D == 0 .. Cardinality(Blocks)
             f == [m \in D |-> Back(b)[m]]
  <1>3. \A m \in D : Back(b)[m] \in Blocks
    <2> TAKE m \in D
    <2>1. m \in 0 .. AltLength(b) - 1
      BY <1>1, <1>2
    <2> QED
      BY <2>1, AltLengthProperty DEF InAlt
  <1>4. f \in [D -> Blocks]
    BY <1>3
  <1>5. IsFiniteSet(D) /\ Cardinality(D) = Cardinality(Blocks) + 1
    BY <1>1, FS_Interval
  <1>6. IsFiniteSet(Blocks) /\ Cardinality(Blocks) < Cardinality(D)
    BY <1>1, <1>5 DEF BlocksAssumption
  <1>7. PICK m \in D, n \in D : m # n /\ f[m] = f[n]
    <2> HIDE DEF D, f
    <2> QED
      BY <1>4, <1>5, <1>6, FS_PigeonHole
  <1>8. Back(b)[m] = Back(b)[n]
    BY <1>7
  <1>9. m <= AltLength(b) /\ n <= AltLength(b)
    BY <1>1, <1>2
  <1>10. /\ Depth[Back(b)[m]] + m = Depth[b]
         /\ Depth[Back(b)[n]] + n = Depth[b]
    BY <1>3, <1>9, WalkDepth
  <1>11. Depth[Back(b)[m]] \in Nat /\ Depth[b] \in Nat
    BY <1>3 DEF DepthOfBlocks
  <1> QED
    BY <1>1, <1>7, <1>8, <1>10, <1>11

\* The height of a main chain block is its depth.
LEMMA FindBlockDepth ==
    ASSUME BlocksAssumption, TypeOK, NEW Depth, MainDepths(Depth),
           NEW x, FindBlock(x) >= 0
    PROVE  /\ x \in Blocks /\ Depth[x] = FindBlock(x)
           /\ FindBlock(x) + 1 \in 1 .. Len(main)
           /\ main[FindBlock(x) + 1].hash = x
  <1>1. OnMain(x)
    BY DEF FindBlock
  <1> DEFINE i == CHOOSE i \in 1 .. Height : main[i].hash = x
  <1>2. i \in 1 .. Height /\ main[i].hash = x
    BY <1>1 DEF OnMain
  <1>3. FindBlock(x) = i - 1
    BY <1>1 DEF FindBlock
  <1> HIDE DEF i
  <1>4. Len(main) \in Nat /\ Height = Len(main)
    BY DEF TypeOK, Height
  <1>5. main[i] \in MainEntry
    BY <1>2, <1>4, ElementOfSeq DEF TypeOK
  <1>6. Depth[main[i].hash] = i - 1
    BY <1>2, <1>4 DEF MainDepths
  <1>7. FindBlock(x) + 1 = i
    BY <1>2, <1>3, <1>4
  <1> QED
    BY <1>2, <1>3, <1>4, <1>5, <1>6, <1>7 DEF MainEntry

\* A block of the main chain is found at its depth.
LEMMA OnMainDepth ==
    ASSUME BlocksAssumption, TypeOK, NEW Depth, MainDepths(Depth),
           NEW i \in 1 .. Len(main)
    PROVE  FindBlock(main[i].hash) = i - 1
  <1>1. Len(main) \in Nat /\ Height = Len(main)
    BY DEF TypeOK, Height
  <1>2. OnMain(main[i].hash)
    BY <1>1 DEF OnMain
  <1>3. FindBlock(main[i].hash) >= 0
    <2>1. (CHOOSE k \in 1 .. Height : main[k].hash = main[i].hash) \in 1 .. Height
      BY <1>2 DEF OnMain
    <2> QED
      BY <1>1, <1>2, <2>1 DEF FindBlock
  <1>4. Depth[main[i].hash] = FindBlock(main[i].hash)
    BY <1>3, FindBlockDepth
  <1>5. Depth[main[i].hash] = i - 1
    BY DEF MainDepths
  <1> QED
    BY <1>4, <1>5

\* The blocks a switch applies stand at their depth above the split.
LEMMA FullChainDepth ==
    ASSUME BlocksAssumption, TypeOK, NEW Depth, DepthOfBlocks(Depth),
           MainDepths(Depth), AltDepths(Depth), NEW b \in Blocks, b # Genesis,
           Connected(Parent[b])
    PROVE  \A i \in 1 .. Len(FullChain(b)) :
              Depth[FullChain(b)[i]] = RollbackHeight(b) + i - 1
  <1> DEFINE p == Parent[b]
             n == AltLength(p)
             root == Back(p)[n]
  <1>1. p \in Blocks
    BY DEF BlocksAssumption
  <1>2. n \in 0 .. Cardinality(Blocks) /\ Cardinality(Blocks) \in Nat
    BY <1>1, WalkEnds, FS_CardinalityType DEF BlocksAssumption
  <1>3. /\ root \in Blocks /\ Depth[root] = SplitHeight(p)
        /\ SplitHeight(p) \in Nat
    <2>1. FindBlock(root) >= 0 /\ SplitHeight(p) = FindBlock(root)
      BY DEF Connected, SplitHeight, Root
    <2>2. root \in Blocks /\ Depth[root] = FindBlock(root)
      BY <2>1, FindBlockDepth
    <2>3. SplitHeight(p) \in 0 .. Height - 1 /\ Height \in Nat
      BY <1>1, RollbackInRange DEF TypeOK, Height
    <2> QED
      BY <2>1, <2>2, <2>3
  <1>4. Depth[root] + n = Depth[p]
    BY <1>1, <1>2, <1>3, WalkDepth
  <1>5. Len(FullChain(b)) = n + 1 /\ FullChain(b)[n + 1] = b
    BY FullChainTyped
  <1>6. ASSUME NEW i \in 1 .. n
        PROVE  Depth[FullChain(b)[i]] = SplitHeight(p) + i
    <2>1. AltChain(p) \in Seq({x \in Blocks : alt[x] # None}) /\ Len(AltChain(p)) = n
      BY <1>1, AltChainTyped
    <2>2. FullChain(b)[i] = AltChain(p)[i]
      <3> DEFINE c == AltChain(p)
      <3>1. c \in Seq(Blocks) /\ Len(c) = n
        BY <2>1, SeqMonotonic
      <3> HIDE DEF c, n
      <3>2. Append(c, b)[i] = c[i]
        BY <1>6, <3>1, AppendProperties
      <3> QED
        BY <3>2 DEF FullChain, c
    <2>3. AltChain(p)[i] = Back(p)[n - i]
      BY <1>6 DEF AltChain
    <2>4. /\ n - i \in 0 .. n - 1 /\ n - i \in 0 .. Cardinality(Blocks)
          /\ n - i <= AltLength(p)
      BY <1>2
    <2>5. Back(p)[n - i] \in Blocks
      BY <2>4, AltLengthProperty DEF InAlt
    <2>6. Depth[Back(p)[n - i]] + (n - i) = Depth[p]
      BY <1>1, <2>4, <2>5, WalkDepth
    <2>7. Depth[Back(p)[n - i]] \in Nat
      BY <2>5 DEF DepthOfBlocks
    <2> HIDE DEF n, root, p
    <2> QED
      BY <1>2, <1>3, <1>4, <2>2, <2>3, <2>6, <2>7
  <1>7. Depth[b] = SplitHeight(p) + n + 1
    <2>1. Depth[b] = Depth[p] + 1
      BY DEF DepthOfBlocks
    <2> HIDE DEF n, root, p
    <2> QED
      BY <1>2, <1>3, <1>4, <2>1
  <1>8. ASSUME NEW i \in 1 .. Len(FullChain(b))
        PROVE  Depth[FullChain(b)[i]] = SplitHeight(p) + i
    <2> HIDE DEF n, root, p
    <2>1. i \in 1 .. n \/ i = n + 1
      BY <1>2, <1>5
    <2>2. CASE i \in 1 .. n
      BY <1>6, <2>2
    <2>3. CASE i = n + 1
      <3>1. Depth[FullChain(b)[i]] = Depth[b]
        BY <1>5, <2>3
      <3>2. Depth[b] = SplitHeight(p) + i
        BY <1>2, <1>3, <1>7, <2>3
      <3> QED
        BY <3>1, <3>2
    <2> QED
      BY <2>1, <2>2, <2>3
  <1>9. RollbackHeight(b) = SplitHeight(p) + 1
    BY DEF RollbackHeight
  <1> QED
    <2> HIDE DEF p, n, root
    <2> TAKE i \in 1 .. Len(FullChain(b))
    <2>1. i \in Int
      BY <1>2, <1>5
    <2>2. Depth[FullChain(b)[i]] = SplitHeight(p) + i
      BY <1>8
    <2>3. SplitHeight(p) + i = SplitHeight(p) + 1 + i - 1
      BY <1>3, <2>1
    <2> QED
      BY <1>9, <2>2, <2>3

\* Only a chain that is connected to the main chain can outweigh it.
LEMMA HeavierIsConnected ==
    ASSUME BlocksAssumption, TypeOK, CumulativeDifficulty(main) >= 1,
           NEW b \in Blocks, b # Genesis, Heavier(b)
    PROVE  Connected(Parent[b])
  <1>1. SUFFICES ASSUME ~Connected(Parent[b]) PROVE FALSE
    OBVIOUS
  <1>2. AltWork(b) = 1
    BY <1>1 DEF AltWork, BlocksAssumption
  <1>3. AltInfo(b).cum = 0 + 1
    <2>1. CumulativeBefore(Parent[b]) = 0
      BY <1>1 DEF CumulativeBefore
    <2> QED
      BY <1>2, <2>1 DEF AltInfo
  <1>4. CumulativeDifficulty(main) \in Int
    <2>1. Len(main) \in 1 .. Len(main)
      BY DEF TypeOK
    <2>2. main[Len(main)] \in MainEntry
      BY <2>1, ElementOfSeq DEF TypeOK
    <2> QED
      BY <2>2 DEF CumulativeDifficulty, MainEntry
  <1> QED
    BY <1>3, <1>4 DEF Heavier

(* A switch leaves every block at its depth and in one place: the blocks   *)
(* it pops move into the map, the blocks it applies move out of it.        *)
LEMMA SwitchPlacement ==
    ASSUME BlocksAssumption, NEW Depth, DepthOfBlocks(Depth), WellPlaced(Depth),
           NEW b \in Blocks, Switch(b)
    PROVE  MainDepths(Depth)' /\ AltDepths(Depth)' /\ Disjoint'
  <1> DEFINE h == RollbackHeight(b)
             full == FullChain(b)
             new == NewMain(b)
             InFull(x) == \E i \in 1 .. Len(full) : full[i] = x
  <1>1. /\ TypeOK /\ CumulativeDifficulty(main) >= 1 /\ MainDepths(Depth)
        /\ AltDepths(Depth) /\ Disjoint
    BY DEF WellPlaced
  <1>2. b # Genesis /\ Heavier(b) /\ ~OnMain(b) /\ ~InAlt(b)
    BY DEF Switch, Acceptable, OffTip, New, Known
  <1>3. main' = new /\ alt' = AltAfterSwitch(b)
    BY DEF Switch
  <1>4. Connected(Parent[b])
    BY <1>1, <1>2, HeavierIsConnected
  <1>5. \A i \in 1 .. Len(full) : Depth[full[i]] = h + i - 1
    BY <1>1, <1>2, <1>4, FullChainDepth
  <1>6. /\ new \in Seq(MainEntry)
        /\ h \in 1 .. Len(main) /\ Len(main) \in Nat
        /\ Len(new) = h + Len(full) /\ Len(full) \in Nat \ {0}
        /\ \A i \in 1 .. h : new[i] = main[i]
        /\ \A i \in 1 .. Len(full) : new[h + i].hash = full[i]
    <2>1. Len(main) \in Nat
      BY <1>1 DEF TypeOK
    <2>2. Len(full) \in Nat \ {0}
      BY <1>1, <1>2, FullChainTyped
    <2> QED
      BY <1>1, <1>2, <2>1, <2>2, NewMainTyped
  <1>7. \A i \in 1 .. Len(new) : i \in 1 .. h \/ (i - h \in 1 .. Len(full) /\ h + (i - h) = i)
    <2> HIDE DEF h, full, new
    <2> QED
      BY <1>6
  <1>8. \A i \in 1 .. Len(new) : Depth[new[i].hash] = i - 1
    <2> HIDE DEF h, full, new
    <2> TAKE i \in 1 .. Len(new)
    <2>1. CASE i \in 1 .. h
      <3>1. i \in 1 .. Len(main)
        BY <1>6, <2>1
      <3>2. Depth[main[i].hash] = i - 1
        BY <1>1, <3>1 DEF MainDepths
      <3> QED
        BY <1>6, <2>1, <3>2
    <2>2. CASE i - h \in 1 .. Len(full) /\ h + (i - h) = i
      <3>1. new[h + (i - h)].hash = full[i - h]
        BY <1>6, <2>2
      <3>2. Depth[full[i - h]] = h + (i - h) - 1
        <4> DEFINE k == i - h
        <4>1. k \in 1 .. Len(full)
          BY <2>2
        <4> HIDE DEF k
        <4>2. Depth[full[k]] = h + k - 1
          BY <4>1, <1>5 DEF h, full
        <4> QED
          BY <4>2 DEF k
      <3>3. new[i].hash = full[i - h]
        BY <2>2, <3>1
      <3>4. h + (i - h) - 1 = i - 1
        BY <1>6, <2>2
      <3> QED
        BY <3>2, <3>3, <3>4
    <2> QED
      BY <1>7, <2>1, <2>2
  <1>9. MainDepths(Depth)'
    BY <1>3, <1>8 DEF MainDepths
  <1>10. ASSUME NEW x \in Blocks
         PROVE  \/ alt'[x] = None
                \/ ~InFull(x) /\ FindBlock(x) >= h /\ alt'[x] = DisconnectedInfo(new, FindBlock(x))
                \/ ~InFull(x) /\ ~(FindBlock(x) >= h) /\ alt'[x] = Stored(b)[x]
    <2>1. alt'[x] = IF InFull(x) THEN None
                    ELSE IF FindBlock(x) >= h THEN DisconnectedInfo(new, FindBlock(x))
                    ELSE Stored(b)[x]
      BY <1>3 DEF AltAfterSwitch
    <2> QED
      BY <2>1
  <1>11. AltDepths(Depth)'
    <2> SUFFICES ASSUME NEW x \in Blocks, alt'[x] # None, alt'[x].prev # None
                 PROVE  Depth[alt'[x].prev] + 1 = Depth[x]
      BY DEF AltDepths
    <2>1. CASE /\ FindBlock(x) >= h
               /\ alt'[x] = DisconnectedInfo(new, FindBlock(x))
      <3> DEFINE k == FindBlock(x)
      <3>1. k \in Int /\ k >= 1 /\ k >= 0
        <4>1. k \in -1 .. Height - 1 /\ Height \in Nat
          BY <1>1, FindBlockTyped DEF TypeOK, Height
        <4>2. k >= h
          BY <2>1
        <4> HIDE DEF k, h
        <4> QED
          BY <1>6, <4>1, <4>2
      <3>2. Depth[x] = k
        BY <1>1, <3>1, FindBlockDepth
      <3>3. alt'[x].prev = IF k > 0 /\ k <= Len(new) THEN new[k].hash ELSE None
        BY <2>1 DEF DisconnectedInfo
      <3> HIDE DEF k, new, h, full
      <3>4. k \in 1 .. Len(new)
        BY <1>6, <3>1, <3>3
      <3>5. Depth[new[k].hash] = k - 1
        BY <1>8, <3>4
      <3> QED
        BY <3>1, <3>2, <3>3, <3>4, <3>5
    <2>2. CASE ~InFull(x) /\ alt'[x] = Stored(b)[x]
      <3>1. x # b
        <4>1. Len(full) \in 1 .. Len(full) /\ full[Len(full)] = b
          BY <1>1, <1>2, <1>6, FullChainTyped
        <4> QED
          BY <2>2, <4>1
      <3>2. alt'[x] = alt[x]
        BY <1>1, <1>2, <2>2, <3>1, StoredTyped
      <3> QED
        BY <1>1, <3>2 DEF AltDepths
    <2> QED
      BY <1>10, <2>1, <2>2
  <1>12. Disjoint'
    <2> SUFFICES ASSUME NEW x \in Blocks, OnMain(x)', InAlt(x)' PROVE FALSE
      BY DEF Disjoint
    <2>1. PICK i \in 1 .. Len(new) : new[i].hash = x
      BY <1>3 DEF OnMain, Height
    <2>2. alt'[x] # None
      BY DEF InAlt
    <2>3. CASE i \in 1 .. h
      <3>1. i \in 1 .. Len(main) /\ main[i].hash = x
        <4> HIDE DEF h, full, new
        <4> QED
          BY <1>6, <2>1, <2>3
      <3>2. FindBlock(x) = i - 1
        BY <1>1, <3>1, OnMainDepth
      <3>3. ~(FindBlock(x) >= h)
        <4> HIDE DEF h, full, new
        <4> QED
          BY <1>6, <2>3, <3>2
      <3>4. OnMain(x)
        BY <3>1 DEF OnMain, Height
      <3>5. x # b /\ ~InAlt(x)
        BY <1>1, <1>2, <3>4 DEF Disjoint
      <3>6. alt[x] = None
        BY <3>5 DEF InAlt
      <3> QED
        BY <1>1, <1>2, <1>10, <2>2, <3>3, <3>5, <3>6, StoredTyped
    <2>4. CASE i - h \in 1 .. Len(full) /\ h + (i - h) = i
      <3>1. InFull(x)
        <4>1. new[h + (i - h)].hash = full[i - h]
          BY <1>6, <2>4
        <4> QED
          BY <2>1, <2>4, <4>1
      <3> QED
        BY <1>10, <2>2, <3>1
    <2> QED
      BY <1>7, <2>3, <2>4
  <1> QED
    BY <1>9, <1>11, <1>12

(* The genesis block alone is placed well.                                 *)
LEMMA PlacementInit ==
    ASSUME BlocksAssumption, NEW Depth, DepthOfBlocks(Depth)
    PROVE  Init => WellPlaced(Depth)
  <1> SUFFICES ASSUME Init PROVE WellPlaced(Depth)
    OBVIOUS
  <1>1. TypeOK
    BY TypeOKInit
  <1>2. /\ main = <<[hash |-> Genesis, cum |-> Work[Genesis]]>>
        /\ \A x \in Blocks : alt[x] = None
    BY DEF Init
  <1>3. Len(main) = 1 /\ main[1] = [hash |-> Genesis, cum |-> Work[Genesis]]
    BY <1>2
  <1>4. CumulativeDifficulty(main) >= 1
    BY <1>3 DEF CumulativeDifficulty, BlocksAssumption
  <1>5. MainDepths(Depth)
    BY <1>3 DEF MainDepths, DepthOfBlocks
  <1>6. AltDepths(Depth) /\ Disjoint
    BY <1>2 DEF AltDepths, Disjoint, InAlt
  <1> QED
    BY <1>1, <1>4, <1>5, <1>6 DEF WellPlaced

(* Every operation of the manager keeps the blocks placed well.            *)
LEMMA PlacementStep ==
    ASSUME BlocksAssumption, NEW Depth, DepthOfBlocks(Depth), WellPlaced(Depth),
           [Next]_vars
    PROVE  WellPlaced(Depth)'
  <1> DEFINE Placed == MainDepths(Depth)' /\ AltDepths(Depth)' /\ Disjoint'
  <1>1. /\ TypeOK /\ CumulativeDifficulty(main) >= 1 /\ MainDepths(Depth)
        /\ AltDepths(Depth) /\ Disjoint
    BY DEF WellPlaced
  <1>2. TypeOK' /\ CumulativeDifficulty(main') >= CumulativeDifficulty(main)
    BY <1>1, TypeOKStep
  <1>3. CumulativeDifficulty(main') >= 1
    <2>1. ASSUME NEW c \in Seq(MainEntry), Len(c) > 0
          PROVE  CumulativeDifficulty(c) \in Int
      <3>1. Len(c) \in 1 .. Len(c)
        BY <2>1
      <3>2. c[Len(c)] \in MainEntry
        BY <3>1, ElementOfSeq
      <3> QED
        BY <3>2 DEF CumulativeDifficulty, MainEntry
    <2>2. CumulativeDifficulty(main) \in Int /\ CumulativeDifficulty(main') \in Int
      BY <1>1, <1>2, <2>1 DEF TypeOK
    <2> QED
      BY <1>1, <1>2, <2>2
  <1>4. ASSUME UNCHANGED main, \A x \in Blocks : alt'[x] = alt[x] \/ alt'[x] = None
        PROVE  Placed
    BY <1>1, <1>4 DEF MainDepths, AltDepths, Disjoint, OnMain, InAlt, Height
  <1>5. ASSUME NEW b \in Blocks, MarkInvalid(b) PROVE Placed
    BY <1>4, <1>5 DEF MarkInvalid
  <1>6. ASSUME NEW b \in Blocks, Extend(b) PROVE Placed
    <2> DEFINE e == [hash |-> b, cum |-> CumulativeDifficulty(main) + Work[b]]
    <2>1. /\ b # Genesis /\ ~OnMain(b) /\ ~InAlt(b)
          /\ Parent[b] = main[Len(main)].hash
      BY <1>6 DEF Extend, OnTip, New, Known, Tip, Height
    <2>2. main' = Append(main, e) /\ alt' = Pruned(alt, Height + 1)
      BY <1>6 DEF Extend
    <2>3. main \in Seq(MainEntry) /\ Len(main) \in Nat \ {0}
      BY <1>1 DEF TypeOK
    <2>4. /\ Len(main') = Len(main) + 1
          /\ \A i \in 1 .. Len(main) : main'[i] = main[i]
          /\ main'[Len(main) + 1].hash = b
      BY <2>2, <2>3
    <2>5. Depth[b] = Len(main)
      <3>1. Depth[main[Len(main)].hash] = Len(main) - 1
        BY <1>1, <2>3 DEF MainDepths
      <3>2. Depth[b] = Depth[Parent[b]] + 1
        BY <2>1 DEF DepthOfBlocks
      <3> QED
        BY <2>1, <2>3, <3>1, <3>2
    <2>6. MainDepths(Depth)'
      <3> SUFFICES ASSUME NEW i \in 1 .. Len(main')
                   PROVE  Depth[main'[i].hash] = i - 1
        BY DEF MainDepths
      <3>1. i \in 1 .. Len(main) \/ i = Len(main) + 1
        BY <2>3, <2>4
      <3> QED
        BY <1>1, <2>3, <2>4, <2>5, <3>1 DEF MainDepths
    <2>7. \A x \in Blocks : alt'[x] = alt[x] \/ alt'[x] = None
      BY <2>2 DEF Pruned
    <2>8. AltDepths(Depth)'
      BY <1>1, <2>7 DEF AltDepths
    <2>9. Disjoint'
      <3> SUFFICES ASSUME NEW x \in Blocks, OnMain(x)', InAlt(x)' PROVE FALSE
        BY DEF Disjoint
      <3>1. PICK i \in 1 .. Len(main') : main'[i].hash = x
        BY DEF OnMain, Height
      <3>2. i \in 1 .. Len(main) \/ i = Len(main) + 1
        BY <2>3, <2>4
      <3>3. OnMain(x) \/ x = b
        BY <2>4, <3>1, <3>2 DEF OnMain, Height
      <3>4. InAlt(x)
        BY <2>7 DEF InAlt
      <3> QED
        BY <1>1, <2>1, <3>3, <3>4 DEF Disjoint
    <2> QED
      BY <2>6, <2>8, <2>9
  <1>7. ASSUME NEW b \in Blocks, Acceptable(b), UNCHANGED main, alt' = Stored(b)
        PROVE  Placed
    <2>1. b # Genesis /\ ~OnMain(b)
      BY <1>7 DEF Acceptable, OffTip, New, Known
    <2>2. /\ alt'[b] = AltInfo(b)
          /\ \A x \in Blocks : x # b => alt'[x] = alt[x]
      BY <1>1, <1>7, <2>1, StoredTyped
    <2>3. alt'[b].prev = Parent[b]
      BY <2>2 DEF AltInfo
    <2>4. Depth[Parent[b]] + 1 = Depth[b]
      BY <2>1 DEF DepthOfBlocks
    <2>5. AltDepths(Depth)'
      BY <1>1, <2>2, <2>3, <2>4 DEF AltDepths
    <2>6. MainDepths(Depth)'
      BY <1>1, <1>7 DEF MainDepths
    <2>7. Disjoint'
      BY <1>1, <1>7, <2>1, <2>2 DEF Disjoint, OnMain, InAlt, Height
    <2> QED
      BY <2>5, <2>6, <2>7
  <1>8. ASSUME NEW b \in Blocks, AddAlternative(b) PROVE Placed
    BY <1>7, <1>8 DEF AddAlternative
  <1>9. ASSUME NEW b \in Blocks, Switch(b) PROVE Placed
    BY <1>9, SwitchPlacement
  <1>10. ASSUME NEW b \in Blocks, SwitchFails(b) PROVE Placed
    <2>1. b # Genesis
      BY <1>10 DEF SwitchFails, Acceptable, OffTip, New
    <2>2. main' = main
      BY <1>1, <1>10, <2>1, FailedSwitchUndone DEF SwitchFails
    <2> QED
      BY <1>7, <1>10, <2>2 DEF SwitchFails
  <1>11. ASSUME FlushAltBlocks PROVE Placed
    BY <1>4, <1>11 DEF FlushAltBlocks
  <1>12. ASSUME FlushInvalidBlocks PROVE Placed
    BY <1>4, <1>12 DEF FlushInvalidBlocks
  <1>13. ASSUME UNCHANGED vars PROVE Placed
    BY <1>4, <1>13 DEF vars
  <1>14. Placed
    BY <1>5, <1>6, <1>8, <1>9, <1>10, <1>11, <1>12, <1>13
    DEF Next, HandleBlock, RejectChild, RejectOnTip, RejectAlternative
  <1> QED
    BY <1>2, <1>3, <1>14 DEF WellPlaced

\* No block is both on the main chain and an alternative block, and every block
\* of the main chain is at its depth, for every acyclic block tree.
THEOREM NeverInBothPlaces ==
    ASSUME BlocksAssumption, NEW CONSTANT Depth, DepthOfBlocks(Depth)
    PROVE  Spec => []Disjoint
  <1>1. Init => WellPlaced(Depth)
    BY PlacementInit
  <1>2. WellPlaced(Depth) /\ [Next]_vars => WellPlaced(Depth)'
    BY PlacementStep
  <1>3. WellPlaced(Depth) => Disjoint
    BY DEF WellPlaced
  <1> QED
    BY <1>1, <1>2, <1>3, PTL DEF Spec

\* The loop of _buildAltChain ends in every reachable state, for every acyclic
\* block tree.
THEOREM EveryWalkEnds ==
    ASSUME BlocksAssumption, NEW CONSTANT Depth, DepthOfBlocks(Depth)
    PROVE  Spec => []WalkIsFinite
  <1>1. Init => WellPlaced(Depth)
    BY PlacementInit
  <1>2. WellPlaced(Depth) /\ [Next]_vars => WellPlaced(Depth)'
    BY PlacementStep
  <1>3. WellPlaced(Depth) => WalkIsFinite
    <2> SUFFICES ASSUME WellPlaced(Depth), NEW b \in Blocks
                 PROVE  /\ AltLength(b) <= Cardinality(Blocks)
                        /\ ~InAlt(Back(b)[AltLength(b)])
      BY DEF WalkIsFinite
    <2>1. AltLength(b) \in 0 .. Cardinality(Blocks)
      BY WalkEnds DEF WellPlaced
    <2>2. AltLength(b) <= Cardinality(Blocks)
      BY <2>1
    <2> QED
      BY <2>2, AltLengthProperty
  <1> QED
    BY <1>1, <1>2, <1>3, PTL DEF Spec

-----------------------------------------------------------------------------
(***************************************************************************)
(* A block that adds work stands on its own parent                          *)
(***************************************************************************)
\* Recorded work is never negative, and an alternative block that records some
\* is stored on top of its parent: only a block that a switch disconnected is
\* not, and it records none.
OwnWork ==
    /\ \A i \in 1 .. Len(main) : main[i].cum >= 0
    /\ \A x \in Blocks : alt[x] # None =>
          alt[x].cum >= 0 /\ (alt[x].cum = 0 \/ alt[x].prev = Parent[x])

\* The inductive invariant of the links.
LinkInv == OwnWork /\ Linked

\* A new alternative block adds work to what it is stored on.
LEMMA OwnWorkAltInfo ==
    ASSUME BlocksAssumption, TypeOK, OwnWork, NEW b \in Blocks, b # Genesis
    PROVE  AltInfo(b).cum >= 0 /\ AltInfo(b).prev = Parent[b]
  <1> DEFINE p == Parent[b]
  <1>1. p \in Blocks /\ Work[b] \in Nat
    BY DEF BlocksAssumption
  <1>2. CumulativeBefore(p) \in Nat
    <2>1. SplitHeight(p) + 1 \in 1 .. Len(main)
      BY <1>1, RollbackInRange DEF Height, TypeOK
    <2>2. main[SplitHeight(p) + 1] \in MainEntry
      BY <2>1, ElementOfSeq DEF TypeOK
    <2>3. main[SplitHeight(p) + 1].cum \in Nat
      <3>1. main[SplitHeight(p) + 1].cum \in Int
        BY <2>2 DEF MainEntry
      <3>2. main[SplitHeight(p) + 1].cum >= 0
        BY <2>1 DEF OwnWork
      <3> QED BY <3>1, <3>2
    <2>4. InAlt(p) => alt[p].cum \in Nat
      <3>1. InAlt(p) => alt[p].cum \in Int
        BY <1>1 DEF InAlt, TypeOK, AltEntry
      <3>2. InAlt(p) => alt[p].cum >= 0
        BY <1>1 DEF InAlt, OwnWork
      <3> QED BY <3>1, <3>2
    <2> QED BY <2>3, <2>4 DEF CumulativeBefore
  <1>3. AltWork(b) \in Nat
    BY <1>1 DEF AltWork
  <1> HIDE DEF p
  <1>4. AltInfo(b).cum = CumulativeBefore(p) + AltWork(b) /\ AltInfo(b).prev = p
    BY DEF AltInfo, p
  <1> QED
    BY <1>2, <1>3, <1>4 DEF p

\* An alternative block is added, and the main chain is as it was.
LEMMA LinkStored ==
    ASSUME BlocksAssumption, TypeOK, LinkInv, NEW b \in Blocks, b # Genesis,
           UNCHANGED main, alt' = Stored(b)
    PROVE  LinkInv'
  <1>1. AltInfo(b).cum >= 0 /\ AltInfo(b).prev = Parent[b]
    BY OwnWorkAltInfo DEF LinkInv
  <1>2. /\ alt'[b] = AltInfo(b)
        /\ \A x \in Blocks : x # b => alt'[x] = alt[x]
    BY StoredTyped
  <1>3. OwnWork'
    BY <1>1, <1>2 DEF LinkInv, OwnWork
  <1> QED
    BY <1>3 DEF LinkInv, Linked, Height

\* The hash a switch applies block i of its chain on top of: that of the step
\* back from it.
LEMMA FullChainLinks ==
    ASSUME BlocksAssumption, NEW Depth, DepthOfBlocks(Depth), WellPlaced(Depth),
           NEW b \in Blocks, b # Genesis, ~InAlt(b), Connected(Parent[b])
    PROVE  \A i \in 1 .. Len(FullChain(b)) :
              Stored(b)[FullChain(b)[i]].prev = NewMain(b)[RollbackHeight(b) + i - 1].hash
  <1> DEFINE p == Parent[b]
             n == AltLength(p)
             full == FullChain(b)
             h == RollbackHeight(b)
             new == NewMain(b)
             back == Back(p)
  <1>1. p \in Blocks /\ TypeOK /\ MainDepths(Depth) /\ AltDepths(Depth)
    BY DEF BlocksAssumption, WellPlaced
  <1>2. /\ n \in 0 .. Cardinality(Blocks) /\ n \in Nat /\ Cardinality(Blocks) \in Nat
        /\ h \in Nat \ {0}
    <2>1. n \in 0 .. Cardinality(Blocks) /\ Cardinality(Blocks) \in Nat
      BY <1>1, WalkEnds, FS_CardinalityType DEF BlocksAssumption
    <2>2. h \in 1 .. Len(main) /\ Len(main) \in Nat
      BY <1>1, NewMainTyped DEF TypeOK
    <2> HIDE DEF n, h
    <2> QED BY <2>1, <2>2
  <1>3. Len(full) = n + 1 /\ full[n + 1] = b
    BY <1>1, FullChainTyped
  <1>4. ASSUME NEW i \in 1 .. n
        PROVE  full[i] = back[n - i]
    <2>1. AltChain(p) \in Seq({x \in Blocks : alt[x] # None}) /\ Len(AltChain(p)) = n
      BY <1>1, AltChainTyped
    <2>2. full[i] = AltChain(p)[i]
      <3> DEFINE c == AltChain(p)
      <3>1. c \in Seq(Blocks) /\ Len(c) = n
        BY <2>1, SeqMonotonic
      <3>2. full = Append(c, b)
        BY DEF FullChain
      <3> HIDE DEF c, n, full, back
      <3>3. Append(c, b)[i] = c[i]
        BY <1>4, <3>1, AppendProperties
      <3> QED BY <3>2, <3>3 DEF c
    <2>3. AltChain(p)[i] = back[n - i]
      BY <1>4 DEF AltChain
    <2> QED BY <2>2, <2>3
  <1>5. new[h].hash = back[n] /\ \A i \in 1 .. Len(full) : new[h + i].hash = full[i]
    <2>1. new[h] = main[h]
      <3>1. \A i \in 1 .. h : new[i] = main[i]
        BY <1>1, NewMainTyped
      <3> HIDE DEF h, new
      <3> QED BY <1>2, <3>1
    <2>2. FindBlock(back[n]) >= 0 /\ h = FindBlock(back[n]) + 1
      BY DEF Connected, SplitHeight, Root, RollbackHeight
    <2>3. main[FindBlock(back[n]) + 1].hash = back[n]
      BY <1>1, <2>2, FindBlockDepth
    <2>4. \A i \in 1 .. Len(full) : new[h + i].hash = full[i]
      BY <1>1, NewMainTyped
    <2> QED BY <2>1, <2>2, <2>3, <2>4
  <1>6. ASSUME NEW i \in 1 .. n + 1
        PROVE  new[h + i - 1].hash = back[n - i + 1]
    <2>1. CASE i = 1
      <3> HIDE DEF n, h, new, back, full
      <3>1. h + i - 1 = h /\ n - i + 1 = n
        BY <1>2, <2>1
      <3> QED BY <1>5, <3>1
    <2>2. CASE i # 1
      <3> DEFINE j == i - 1
      <3>1. j \in 1 .. n /\ h + i - 1 = h + j /\ n - i + 1 = n - j
        BY <1>2, <2>2
      <3>2. j \in 1 .. Len(full)
        BY <1>2, <1>3, <3>1
      <3> HIDE DEF j, n, h, new, back, full
      <3>3. new[h + j].hash = full[j] /\ full[j] = back[n - j]
        BY <1>4, <1>5, <3>1, <3>2
      <3> QED BY <3>1, <3>3
    <2> QED BY <2>1, <2>2
  <1>7. /\ Stored(b)[b] = AltInfo(b) /\ AltInfo(b).prev = p
        /\ \A x \in Blocks : x # b => Stored(b)[x] = alt[x]
    BY <1>1, StoredTyped DEF AltInfo
  <1>8. ASSUME NEW i \in 1 .. n + 1
        PROVE  Stored(b)[full[i]].prev = back[n - i + 1]
    <2>1. CASE i = n + 1
      <3>1. n - i + 1 = 0
        BY <1>2, <2>1
      <3>2. 0 \in 0 .. Cardinality(Blocks)
        BY <1>2
      <3>3. back[0] = p
        BY <3>2, BackStep
      <3> HIDE DEF n, full, back, p
      <3> QED BY <1>3, <1>7, <2>1, <3>1, <3>3
    <2>2. CASE i # n + 1
      <3> DEFINE m == n - i
      <3>1. /\ i \in 1 .. n /\ m \in 0 .. n - 1 /\ m + 1 = n - i + 1
            /\ m + 1 \in 0 .. Cardinality(Blocks) /\ m + 1 # 0 /\ m + 1 - 1 = m
        BY <1>2, <2>2
      <3>2. InAlt(back[m])
        BY <1>1, <3>1, AltLengthProperty
      <3>3. back[m + 1] = alt[back[m]].prev
        <4> HIDE DEF m
        <4>1. back[m + 1] = IF m + 1 = 0 THEN p
                            ELSE IF InAlt(back[m + 1 - 1]) THEN alt[back[m + 1 - 1]].prev
                                 ELSE back[m + 1 - 1]
          BY <3>1, BackStep
        <4> QED BY <3>1, <3>2, <4>1
      <3>4. full[i] = back[m]
        BY <1>4, <3>1
      <3>5. back[m] \in Blocks /\ back[m] # b
        BY <3>2 DEF InAlt
      <3> HIDE DEF m, n, full, back
      <3> QED BY <1>7, <3>1, <3>3, <3>4, <3>5
    <2> QED BY <2>1, <2>2
  <1> HIDE DEF n, full, h, new, back, p
  <1>9. \A i \in 1 .. Len(full) : Stored(b)[full[i]].prev = new[h + i - 1].hash
    BY <1>3, <1>6, <1>8
  <1> QED
    BY <1>9 DEF full, new, h

\* A switch applies each block with the work stored for it, and disconnects
\* what it pops.
LEMMA LinkSwitch ==
    ASSUME BlocksAssumption, NEW Depth, DepthOfBlocks(Depth), WellPlaced(Depth),
           LinkInv, NEW b \in Blocks, Switch(b)
    PROVE  LinkInv'
  <1> DEFINE h == RollbackHeight(b)
             full == FullChain(b)
             new == NewMain(b)
             stored == Stored(b)
  <1>1. TypeOK /\ CumulativeDifficulty(main) >= 1 /\ OwnWork /\ Linked
    BY DEF WellPlaced, LinkInv
  <1>2. b # Genesis /\ Heavier(b) /\ ~InAlt(b) /\ main' = new /\ alt' = AltAfterSwitch(b)
    BY DEF Switch, Acceptable, OffTip, New, Known
  <1>3. Connected(Parent[b])
    BY <1>1, <1>2, HeavierIsConnected
  <1>4. \A i \in 1 .. Len(full) : stored[full[i]].prev = new[h + i - 1].hash
    BY <1>2, <1>3, FullChainLinks
  <1>5. /\ new \in Seq(MainEntry)
        /\ h \in 1 .. Len(main) /\ Len(main) \in Nat
        /\ Len(new) = h + Len(full) /\ Len(full) \in Nat \ {0}
        /\ \A i \in 1 .. h : new[i] = main[i]
        /\ \A i \in 1 .. Len(full) :
              new[h + i].hash = full[i] /\ new[h + i].cum = stored[full[i]].cum
    <2>1. Len(main) \in Nat
      BY <1>1 DEF TypeOK
    <2>2. Len(full) \in Nat \ {0}
      BY <1>1, <1>2, FullChainTyped
    <2> QED
      BY <1>1, <1>2, <2>1, <2>2, NewMainTyped
  <1>6. \A x \in Blocks : x = b \/ stored[x] # None =>
           stored[x].cum >= 0 /\ (stored[x].cum = 0 \/ stored[x].prev = Parent[x])
    <2>1. AltInfo(b).cum >= 0 /\ AltInfo(b).prev = Parent[b]
      BY <1>1, <1>2, OwnWorkAltInfo
    <2>2. /\ stored[b] = AltInfo(b)
          /\ \A x \in Blocks : x # b => stored[x] = alt[x]
      BY <1>1, <1>2, StoredTyped
    <2> HIDE DEF stored
    <2> QED BY <1>1, <2>1, <2>2 DEF OwnWork
  <1>7. \A i \in 1 .. Len(full) :
           full[i] \in Blocks /\ (full[i] = b \/ stored[full[i]] # None)
    <2>1. full \in Seq(Blocks) /\ \A i \in 1 .. Len(full) : full[i] = b \/ alt[full[i]] # None
      BY <1>1, <1>2, FullChainTyped
    <2>2. \A i \in 1 .. Len(full) : full[i] \in Blocks
      BY <2>1, ElementOfSeq
    <2>3. \A x \in Blocks : x # b => stored[x] = alt[x]
      BY <1>1, <1>2, StoredTyped
    <2> HIDE DEF stored, full
    <2> QED BY <2>1, <2>2, <2>3
  <1>8. ASSUME NEW i \in 1 .. Len(new)
        PROVE  i \in 1 .. h \/ (i - h \in 1 .. Len(full) /\ h + (i - h) = i)
    <2> HIDE DEF h, full, new
    <2> QED BY <1>5
  <1>9. \A i \in 1 .. Len(new) : new[i].cum \in Int /\ new[i].cum >= 0
    <2> SUFFICES ASSUME NEW i \in 1 .. Len(new)
                 PROVE  new[i].cum \in Int /\ new[i].cum >= 0
      OBVIOUS
    <2>1. new[i].cum \in Int
      <3>1. new[i] \in MainEntry
        BY <1>5, ElementOfSeq
      <3> QED BY <3>1 DEF MainEntry
    <2>2. CASE i \in 1 .. h
      <3> HIDE DEF h, full, new
      <3>1. i \in 1 .. Len(main) /\ new[i] = main[i]
        BY <1>5, <2>2
      <3> QED BY <1>1, <2>1, <3>1 DEF OwnWork
    <2>3. CASE i - h \in 1 .. Len(full) /\ h + (i - h) = i
      <3> DEFINE j == i - h
      <3>1. j \in 1 .. Len(full) /\ h + j = i
        BY <2>3
      <3> HIDE DEF j, h, full, new, stored
      <3>2. new[h + j].cum = stored[full[j]].cum
        BY <1>5, <3>1
      <3>3. stored[full[j]].cum >= 0
        BY <1>6, <1>7, <3>1
      <3> QED BY <2>1, <3>1, <3>2, <3>3
    <2> QED BY <1>8, <2>2, <2>3
  <1>10. ASSUME NEW i \in 2 .. Len(new), new[i].cum > new[i - 1].cum
         PROVE  Parent[new[i].hash] = new[i - 1].hash
    <2>1. i \in 1 .. Len(new) /\ i - 1 \in 1 .. Len(new) /\ i \in Int
      <3> HIDE DEF h, full, new
      <3> QED BY <1>5
    <2>2. CASE i \in 1 .. h
      <3> HIDE DEF h, full, new
      <3>1. i \in 2 .. Len(main) /\ new[i] = main[i] /\ new[i - 1] = main[i - 1]
        BY <1>5, <2>2
      <3> QED BY <1>1, <1>10, <3>1 DEF Linked, Height
    <2>3. CASE i - h \in 1 .. Len(full) /\ h + (i - h) = i
      <3> DEFINE j == i - h
      <3>1. j \in 1 .. Len(full) /\ h + j = i
        BY <2>3
      <3> HIDE DEF j, h, full, new, stored
      <3>2. new[i].cum = stored[full[j]].cum /\ new[i].hash = full[j]
        BY <1>5, <3>1
      <3>3. stored[full[j]].cum # 0
        BY <1>9, <1>10, <2>1, <3>2
      <3>4. stored[full[j]].prev = Parent[full[j]]
        BY <1>6, <1>7, <3>1, <3>3
      <3>5. stored[full[j]].prev = new[h + j - 1].hash
        BY <1>4, <3>1
      <3>6. h + j - 1 = i - 1
        BY <1>5, <3>1
      <3> QED BY <3>2, <3>4, <3>5, <3>6
    <2> QED BY <1>8, <2>1, <2>2, <2>3
  <1>11. Linked'
    BY <1>2, <1>10 DEF Linked, Height
  <1>12. ASSUME NEW x \in Blocks, alt'[x] # None
         PROVE  alt'[x].cum >= 0 /\ (alt'[x].cum = 0 \/ alt'[x].prev = Parent[x])
    <2>1. alt'[x] \in {None, DisconnectedInfo(new, FindBlock(x)), stored[x]}
      BY <1>2 DEF AltAfterSwitch
    <2>2. DisconnectedInfo(new, FindBlock(x)).cum = 0
      BY DEF DisconnectedInfo
    <2> HIDE DEF stored, new
    <2> QED BY <1>6, <1>12, <2>1, <2>2
  <1> QED
    BY <1>2, <1>9, <1>11, <1>12 DEF LinkInv, OwnWork

\* The genesis block alone has no link.
LEMMA LinkInit == ASSUME BlocksAssumption PROVE Init => LinkInv
  <1> SUFFICES ASSUME Init PROVE LinkInv
    OBVIOUS
  <1>1. /\ main = <<[hash |-> Genesis, cum |-> Work[Genesis]]>>
        /\ \A x \in Blocks : alt[x] = None
    BY DEF Init
  <1>2. Len(main) = 1 /\ main[1].cum = Work[Genesis]
    BY <1>1
  <1>3. Work[Genesis] >= 0
    BY DEF BlocksAssumption
  <1>4. \A i \in 1 .. Len(main) : main[i].cum >= 0
    BY <1>2, <1>3
  <1>5. Linked
    BY <1>2 DEF Linked, Height
  <1> QED
    BY <1>1, <1>4, <1>5 DEF LinkInv, OwnWork

\* The block that extends the main chain is the child of its tip.
LEMMA LinkExtend ==
    ASSUME BlocksAssumption, TypeOK, LinkInv, NEW b \in Blocks, Extend(b)
    PROVE  LinkInv'
  <1> DEFINE e == [hash |-> b, cum |-> CumulativeDifficulty(main) + Work[b]]
             n == Len(main)
  <1>1. /\ main' = Append(main, e) /\ Parent[b] = main[n].hash
        /\ \A x \in Blocks : alt'[x] = alt[x] \/ alt'[x] = None
    BY DEF Extend, OnTip, Tip, Height, Pruned
  <1>2. /\ n \in Nat \ {0} /\ Len(main') = n + 1 /\ main'[n + 1] = e
        /\ \A i \in 1 .. n : main'[i] = main[i]
    BY <1>1 DEF TypeOK
  <1>3. e.cum >= 0 /\ e.hash = b
    <2>1. n \in 1 .. n
      BY <1>2
    <2>2. main[n] \in MainEntry
      BY <1>2, <2>1, ElementOfSeq DEF TypeOK
    <2>3. main[n].cum \in Int /\ main[n].cum >= 0 /\ Work[b] \in Nat
      BY <2>1, <2>2 DEF MainEntry, LinkInv, OwnWork, BlocksAssumption
    <2> HIDE DEF n
    <2>4. main[n].cum + Work[b] >= 0
      BY <2>3
    <2> QED BY <2>4 DEF CumulativeDifficulty, n
  <1> HIDE DEF e, n
  <1>4. \A i \in 1 .. n + 1 : i \in 1 .. n \/ i = n + 1
    BY <1>2
  <1>5. \A i \in 1 .. Len(main') : main'[i].cum >= 0
    BY <1>2, <1>3, <1>4 DEF LinkInv, OwnWork, n
  <1>6. ASSUME NEW i \in 2 .. Len(main'), main'[i].cum > main'[i - 1].cum
        PROVE  Parent[main'[i].hash] = main'[i - 1].hash
    <2>1. CASE i = n + 1
      <3>1. i - 1 = n /\ n \in 1 .. n
        BY <1>2, <2>1
      <3> QED BY <1>1, <1>2, <1>3, <2>1, <3>1
    <2>2. CASE i # n + 1
      <3>1. i \in 2 .. n /\ i \in 1 .. n /\ i - 1 \in 1 .. n
        BY <1>2, <2>2
      <3>2. main'[i] = main[i] /\ main'[i - 1] = main[i - 1]
        BY <1>2, <3>1
      <3> QED BY <1>6, <3>1, <3>2 DEF LinkInv, Linked, Height, n
    <2> QED BY <2>1, <2>2
  <1>7. Linked'
    BY <1>6 DEF Linked, Height
  <1> QED
    BY <1>1, <1>5, <1>7 DEF LinkInv, OwnWork

\* Every operation keeps the links.
LEMMA LinkStep ==
    ASSUME BlocksAssumption, NEW Depth, DepthOfBlocks(Depth), WellPlaced(Depth),
           LinkInv, [Next]_vars
    PROVE  LinkInv'
  <1>1. TypeOK
    BY DEF WellPlaced
  <1>2. ASSUME UNCHANGED main, \A x \in Blocks : alt'[x] = alt[x] \/ alt'[x] = None
        PROVE  LinkInv'
    BY <1>2 DEF LinkInv, OwnWork, Linked, Height
  <1>3. ASSUME NEW b \in Blocks, MarkInvalid(b) PROVE LinkInv'
    BY <1>2, <1>3 DEF MarkInvalid
  <1>4. ASSUME NEW b \in Blocks, Extend(b) PROVE LinkInv'
    BY <1>1, <1>4, LinkExtend
  <1>5. ASSUME NEW b \in Blocks, Switch(b) PROVE LinkInv'
    BY <1>5, LinkSwitch
  <1>6. ASSUME NEW b \in Blocks, AddAlternative(b) \/ SwitchFails(b) PROVE LinkInv'
    <2>1. b # Genesis /\ alt' = Stored(b)
      BY <1>6 DEF AddAlternative, SwitchFails, Acceptable, OffTip, New
    <2>2. main' = main
      BY <1>1, <1>6, <2>1, FailedSwitchUndone DEF AddAlternative, SwitchFails
    <2> QED BY <1>1, <2>1, <2>2, LinkStored
  <1>7. CASE FlushAltBlocks \/ FlushInvalidBlocks \/ UNCHANGED vars
    BY <1>2, <1>7 DEF FlushAltBlocks, FlushInvalidBlocks, vars
  <1> QED
    BY <1>3, <1>4, <1>5, <1>6, <1>7
    DEF Next, HandleBlock, RejectChild, RejectOnTip, RejectAlternative

\* A block that adds work to the main chain stands on its own parent, after any
\* extensions, switches, failed switches, prunings and flushes, for every acyclic
\* block tree: what a switch pops and applies is put in its own place
\* (_switchToAlternativeChain, _rollbackChainSwitching).
THEOREM EveryBlockOnItsParent ==
    ASSUME BlocksAssumption, NEW CONSTANT Depth, DepthOfBlocks(Depth)
    PROVE  Spec => []Linked
  <1>1. Init => WellPlaced(Depth) /\ LinkInv
    BY PlacementInit, LinkInit
  <1>2. WellPlaced(Depth) /\ LinkInv /\ [Next]_vars => (WellPlaced(Depth) /\ LinkInv)'
    BY PlacementStep, LinkStep
  <1>3. LinkInv => Linked
    BY DEF LinkInv
  <1> QED
    BY <1>1, <1>2, <1>3, PTL DEF Spec

-----------------------------------------------------------------------------
(***************************************************************************)
(* The climb to the genesis block                                           *)
(***************************************************************************)
\* The climb obeys its recursive definition.
LEMMA ClimbStep ==
    ASSUME BlocksAssumption, NEW b
    PROVE  \A n \in 0 .. Cardinality(Blocks) :
              Climb(b)[n] =
                IF n = 0 THEN [block |-> b, work |-> Work[b]]
                ELSE IF Climb(b)[n - 1].block = Genesis THEN Climb(b)[n - 1]
                ELSE LET p == Parent[Climb(b)[n - 1].block]
                     IN  [block |-> p, work |-> Climb(b)[n - 1].work + Work[p]]
  <1> DEFINE Step(g, n) ==
        IF n = 0 THEN [block |-> b, work |-> Work[b]]
        ELSE IF g[n - 1].block = Genesis THEN g[n - 1]
        ELSE LET p == Parent[g[n - 1].block]
             IN  [block |-> p, work |-> g[n - 1].work + Work[p]]
  <1> DEFINE Missing ==
        {k \in Nat : ~\E g : g = [n \in 0 .. k |-> Step(g, n)]}
  <1>1. Cardinality(Blocks) \in Nat
    BY FS_CardinalityType DEF BlocksAssumption
  <1>2. Missing = {}
    <2> SUFFICES ASSUME Missing # {} PROVE FALSE
      OBVIOUS
    <2>1. PICK k \in Missing : \A m \in Missing : k <= m
      BY LeastNatural
    <2>2. CASE k = 0
      <3> DEFINE g == [n \in 0 .. 0 |-> [block |-> b, work |-> Work[b]]]
      <3>1. g = [n \in 0 .. 0 |-> Step(g, n)]
        OBVIOUS
      <3> QED
        BY <2>1, <2>2, <3>1
    <2>3. CASE k # 0
      <3>0. k \in Nat
        OBVIOUS
      <3>1. k - 1 \in Nat /\ k - 1 \notin Missing
        <4> HIDE DEF Missing
        <4> QED
          BY <2>1, <2>3, <3>0
      <3>2. PICK f : f = [n \in 0 .. k - 1 |-> Step(f, n)]
        BY <3>1
      <3> DEFINE g == [n \in 0 .. k |-> IF n = k THEN Step(f, k) ELSE f[n]]
      <3>3. \A n \in 0 .. k : g[n] = Step(g, n)
        <4> SUFFICES ASSUME NEW n \in 0 .. k PROVE g[n] = Step(g, n)
          OBVIOUS
        <4>1. n # 0 => g[n - 1] = f[n - 1]
          BY <2>1
        <4>2. CASE n = k
          BY <4>1, <4>2, <2>3
        <4>3. CASE n # k
          <5>1. n \in 0 .. k - 1
            BY <4>3, <2>1
          <5>2. g[n] = f[n]
            BY <4>3
          <5>3. f[n] = Step(f, n)
            BY <3>2, <5>1
          <5> QED
            BY <4>1, <5>2, <5>3
        <4> QED
          BY <4>2, <4>3
      <3>4. g = [n \in 0 .. k |-> Step(g, n)]
        <4> HIDE DEF Step
        <4> QED
          BY <3>3
      <3> QED
        BY <2>1, <3>4
    <2> QED
      BY <2>2, <2>3
  <1>3. PICK g : g = [n \in 0 .. Cardinality(Blocks) |-> Step(g, n)]
    BY <1>1, <1>2
  <1>4. Climb(b) = [n \in 0 .. Cardinality(Blocks) |-> Step(Climb(b), n)]
    BY <1>3 DEF Climb
  <1> QED
    BY <1>4

\* The same, of the next step.
LEMMA ClimbUp ==
    ASSUME BlocksAssumption, NEW b, NEW m \in 0 .. Cardinality(Blocks) - 1
    PROVE  Climb(b)[m + 1] =
              IF Climb(b)[m].block = Genesis THEN Climb(b)[m]
              ELSE [block |-> Parent[Climb(b)[m].block],
                    work |-> Climb(b)[m].work + Work[Parent[Climb(b)[m].block]]]
  <1> DEFINE k == m + 1
  <1>1. k \in 0 .. Cardinality(Blocks) /\ k # 0 /\ k - 1 = m
    BY FS_CardinalityType DEF BlocksAssumption
  <1> HIDE DEF k
  <1>2. Climb(b)[k] = IF Climb(b)[k - 1].block = Genesis THEN Climb(b)[k - 1]
                      ELSE LET p == Parent[Climb(b)[k - 1].block]
                           IN  [block |-> p, work |-> Climb(b)[k - 1].work + Work[p]]
    BY <1>1, ClimbStep
  <1> QED
    BY <1>1, <1>2 DEF k

\* The climb stays within the blocks.
LEMMA ClimbTyped ==
    ASSUME BlocksAssumption, NEW b \in Blocks
    PROVE  \A n \in 0 .. Cardinality(Blocks) :
              Climb(b)[n].block \in Blocks /\ Climb(b)[n].work \in Nat
  <1> DEFINE Typed(n) == Climb(b)[n].block \in Blocks /\ Climb(b)[n].work \in Nat
             Wrong == {n \in 0 .. Cardinality(Blocks) : ~Typed(n)}
  <1>1. Cardinality(Blocks) \in Nat
    BY FS_CardinalityType DEF BlocksAssumption
  <1>2. SUFFICES ASSUME Wrong # {} PROVE FALSE
    OBVIOUS
  <1>3. PICK n \in Wrong : \A m \in Wrong : n <= m
    <2>1. Wrong \subseteq Nat
      BY <1>1
    <2> HIDE DEF Wrong
    <2> QED
      BY <1>2, <2>1, LeastNatural
  <1>4. n \in 0 .. Cardinality(Blocks) /\ ~Typed(n)
    OBVIOUS
  <1>5. CASE n = 0
    <2>1. Climb(b)[n] = [block |-> b, work |-> Work[b]]
      BY <1>4, <1>5, ClimbStep
    <2> QED
      BY <1>4, <2>1 DEF BlocksAssumption
  <1>6. CASE n # 0
    <2> DEFINE c == Climb(b)[n - 1]
               p == Parent[c.block]
    <2>1. n - 1 \in 0 .. Cardinality(Blocks) /\ n - 1 < n
      BY <1>1, <1>4, <1>6
    <2>2. n - 1 \notin Wrong
      <3> HIDE DEF Wrong
      <3> QED
        BY <1>1, <1>3, <1>4, <2>1
    <2>3. c.block \in Blocks /\ c.work \in Nat
      BY <2>1, <2>2
    <2>4. Climb(b)[n] = IF c.block = Genesis THEN c
                        ELSE [block |-> p, work |-> c.work + Work[p]]
      BY <1>4, <1>6, ClimbStep
    <2>5. c.block # Genesis => p \in Blocks /\ Work[p] \in Nat
      BY <2>3 DEF BlocksAssumption
    <2> HIDE DEF c, p
    <2> QED
      BY <1>4, <2>3, <2>4, <2>5
  <1> QED
    BY <1>5, <1>6

\* The climb from a block is that from its parent, a step later.
LEMMA ClimbShift ==
    ASSUME BlocksAssumption, NEW b \in Blocks, b # Genesis,
           NEW m \in 0 .. Cardinality(Blocks) - 1
    PROVE  /\ Climb(b)[m + 1].block = Climb(Parent[b])[m].block
           /\ Climb(b)[m + 1].work = Work[b] + Climb(Parent[b])[m].work
  <1> DEFINE q == Parent[b]
             Shifted(n) == /\ Climb(b)[n + 1].block = Climb(q)[n].block
                           /\ Climb(b)[n + 1].work = Work[b] + Climb(q)[n].work
             Wrong == {n \in 0 .. Cardinality(Blocks) - 1 : ~Shifted(n)}
  <1>1. Cardinality(Blocks) \in Nat /\ q \in Blocks /\ Work[b] \in Nat /\ Work[q] \in Nat
    BY FS_CardinalityType DEF BlocksAssumption
  <1>2. SUFFICES ASSUME Wrong # {} PROVE FALSE
    OBVIOUS
  <1>3. PICK n \in Wrong : \A k \in Wrong : n <= k
    <2>1. Wrong \subseteq Nat
      BY <1>1
    <2> HIDE DEF Wrong
    <2> QED
      BY <1>2, <2>1, LeastNatural
  <1>4. n \in 0 .. Cardinality(Blocks) - 1 /\ ~Shifted(n)
    OBVIOUS
  <1>5. CASE n = 0
    <2>1. 0 \in 0 .. Cardinality(Blocks) /\ 1 \in 0 .. Cardinality(Blocks)
      BY <1>1, <1>4
    <2>2. /\ Climb(b)[0] = [block |-> b, work |-> Work[b]]
          /\ Climb(q)[0] = [block |-> q, work |-> Work[q]]
      BY <2>1, ClimbStep
    <2>3. Climb(b)[0 + 1] = [block |-> q, work |-> Work[b] + Work[q]]
      BY <1>4, <1>5, <2>2, ClimbUp
    <2> HIDE DEF q
    <2> QED
      BY <1>4, <1>5, <2>2, <2>3
  <1>6. CASE n # 0
    <2> DEFINE c == Climb(b)[n]
               d == Climb(q)[n - 1]
               p == Parent[d.block]
    <2>1. /\ n - 1 \in 0 .. Cardinality(Blocks) - 1 /\ n - 1 < n /\ n - 1 + 1 = n
          /\ n - 1 \in 0 .. Cardinality(Blocks) /\ n \in 0 .. Cardinality(Blocks)
          /\ n + 1 \in 0 .. Cardinality(Blocks) /\ n + 1 # 0 /\ n + 1 - 1 = n
      BY <1>1, <1>4, <1>6
    <2>2. n - 1 \notin Wrong
      <3> HIDE DEF Wrong
      <3> QED
        BY <1>1, <1>3, <1>4, <2>1
    <2>3. c.block = d.block /\ c.work = Work[b] + d.work
      <3>1. Shifted(n - 1)
        BY <2>1, <2>2
      <3> QED
        BY <2>1, <3>1
    <2>4. d.block \in Blocks /\ d.work \in Nat
      BY <1>1, <2>1, ClimbTyped
    <2>5. Climb(q)[n] = IF d.block = Genesis THEN d
                        ELSE [block |-> p, work |-> d.work + Work[p]]
      BY <1>6, <2>1, ClimbStep
    <2>6. Climb(b)[n + 1] = IF c.block = Genesis THEN c
                            ELSE [block |-> Parent[c.block],
                                  work |-> c.work + Work[Parent[c.block]]]
      BY <1>4, ClimbUp
    <2>7. d.block # Genesis => Work[p] \in Nat
      BY <2>4 DEF BlocksAssumption
    <2>8. CASE d.block = Genesis
      <3>1. Climb(q)[n] = d /\ Climb(b)[n + 1] = c
        BY <2>3, <2>5, <2>6, <2>8
      <3> HIDE DEF c, d, p, q
      <3> QED
        BY <1>4, <2>3, <3>1
    <2>9. CASE d.block # Genesis
      <3>1. /\ Climb(q)[n] = [block |-> p, work |-> d.work + Work[p]]
            /\ Climb(b)[n + 1] = [block |-> p, work |-> c.work + Work[p]]
        BY <2>3, <2>5, <2>6, <2>9
      <3>2. c.work + Work[p] = Work[b] + (d.work + Work[p])
        <4> HIDE DEF c, d, p, q
        <4> QED
          BY <1>1, <2>3, <2>4, <2>7, <2>9
      <3> HIDE DEF c, d, p, q
      <3> QED
        BY <1>4, <3>1, <3>2
    <2> QED
      BY <2>8, <2>9
  <1> QED
    BY <1>5, <1>6

\* Step n of the climb is n levels up, down to the genesis block.
LEMMA ClimbDepth ==
    ASSUME BlocksAssumption, NEW Depth, DepthOfBlocks(Depth), NEW b \in Blocks
    PROVE  \A n \in 0 .. Cardinality(Blocks) :
              n <= Depth[b] => Depth[Climb(b)[n].block] + n = Depth[b]
  <1> DEFINE Wrong == {n \in 0 .. Cardinality(Blocks) :
                          n <= Depth[b] /\ Depth[Climb(b)[n].block] + n # Depth[b]}
  <1>1. Cardinality(Blocks) \in Nat /\ Depth[b] \in Nat
    BY FS_CardinalityType DEF BlocksAssumption, DepthOfBlocks
  <1>2. SUFFICES ASSUME Wrong # {} PROVE FALSE
    OBVIOUS
  <1>3. PICK n \in Wrong : \A m \in Wrong : n <= m
    <2>1. Wrong \subseteq Nat
      BY <1>1
    <2> HIDE DEF Wrong
    <2> QED
      BY <1>2, <2>1, LeastNatural
  <1>4. /\ n \in 0 .. Cardinality(Blocks) /\ n <= Depth[b]
        /\ Depth[Climb(b)[n].block] + n # Depth[b]
    OBVIOUS
  <1>5. CASE n = 0
    <2>1. Climb(b)[n] = [block |-> b, work |-> Work[b]]
      BY <1>4, <1>5, ClimbStep
    <2> QED
      BY <1>1, <1>4, <1>5, <2>1
  <1>6. CASE n # 0
    <2> DEFINE x == Climb(b)[n - 1].block
               y == Climb(b)[n].block
    <2>1. n - 1 \in 0 .. Cardinality(Blocks) /\ n - 1 <= Depth[b] /\ n - 1 < n
      BY <1>1, <1>4, <1>6
    <2>2. n - 1 \notin Wrong
      <3> HIDE DEF Wrong
      <3> QED
        BY <1>1, <1>3, <1>4, <2>1
    <2>3. Depth[x] + (n - 1) = Depth[b]
      BY <2>1, <2>2
    <2>4. x \in Blocks /\ y \in Blocks
      BY <1>4, <2>1, ClimbTyped
    <2>5. Depth[x] \in Nat /\ Depth[y] \in Nat
      BY <2>4 DEF DepthOfBlocks
    <2>6. x # Genesis
      <3>1. Depth[x] # 0
        <4> HIDE DEF x
        <4> QED
          BY <1>1, <1>4, <2>3, <2>5
      <3> QED
        BY <3>1 DEF DepthOfBlocks
    <2>7. y = Parent[x]
      <3>1. Climb(b)[n] = [block |-> Parent[x], work |-> Climb(b)[n - 1].work + Work[Parent[x]]]
        BY <1>4, <1>6, <2>6, ClimbStep
      <3> QED
        BY <3>1
    <2>8. Depth[x] = Depth[y] + 1
      BY <2>4, <2>6, <2>7 DEF DepthOfBlocks
    <2>9. Depth[y] + n # Depth[b]
      BY <1>4
    <2> HIDE DEF x, y
    <2> QED
      BY <1>1, <1>4, <2>3, <2>5, <2>8, <2>9
  <1> QED
    BY <1>5, <1>6

\* No block is as deep as there are blocks: its ancestors are all different.
LEMMA DepthBound ==
    ASSUME BlocksAssumption, NEW Depth, DepthOfBlocks(Depth), NEW b \in Blocks
    PROVE  Depth[b] < Cardinality(Blocks)
  <1>1. Cardinality(Blocks) \in Nat /\ Depth[b] \in Nat
    BY FS_CardinalityType DEF BlocksAssumption, DepthOfBlocks
  <1>2. SUFFICES ASSUME Cardinality(Blocks) <= Depth[b] PROVE FALSE
    BY <1>1
  <1> DEFINE D == 0 .. Cardinality(Blocks)
             f == [m \in D |-> Climb(b)[m].block]
  <1>3. f \in [D -> Blocks]
    BY ClimbTyped
  <1>4. IsFiniteSet(D) /\ Cardinality(D) = Cardinality(Blocks) + 1
    BY <1>1, FS_Interval
  <1>5. IsFiniteSet(Blocks) /\ Cardinality(Blocks) < Cardinality(D)
    BY <1>1, <1>4 DEF BlocksAssumption
  <1>6. PICK m \in D, n \in D : m # n /\ f[m] = f[n]
    <2> HIDE DEF D, f
    <2> QED
      BY <1>3, <1>4, <1>5, FS_PigeonHole
  <1>7. Climb(b)[m].block = Climb(b)[n].block
    BY <1>6
  <1>8. m <= Depth[b] /\ n <= Depth[b]
    BY <1>1, <1>2
  <1>9. /\ Depth[Climb(b)[m].block] + m = Depth[b]
        /\ Depth[Climb(b)[n].block] + n = Depth[b]
    BY <1>8, ClimbDepth
  <1>10. Depth[Climb(b)[m].block] \in Nat
    <2>1. Climb(b)[m].block \in Blocks
      BY ClimbTyped
    <2> QED
      BY <2>1 DEF DepthOfBlocks
  <1> QED
    BY <1>1, <1>6, <1>7, <1>9, <1>10

\* The climb ends at the genesis block.
LEMMA ClimbEnds ==
    ASSUME BlocksAssumption, NEW Depth, DepthOfBlocks(Depth), NEW b \in Blocks
    PROVE  \A n \in 0 .. Cardinality(Blocks) :
              n >= Depth[b] => Climb(b)[n].block = Genesis
  <1> DEFINE Wrong == {n \in 0 .. Cardinality(Blocks) :
                          n >= Depth[b] /\ Climb(b)[n].block # Genesis}
  <1>1. Cardinality(Blocks) \in Nat /\ Depth[b] \in Nat
    BY FS_CardinalityType DEF BlocksAssumption, DepthOfBlocks
  <1>2. SUFFICES ASSUME Wrong # {} PROVE FALSE
    OBVIOUS
  <1>3. PICK n \in Wrong : \A m \in Wrong : n <= m
    <2>1. Wrong \subseteq Nat
      BY <1>1
    <2> HIDE DEF Wrong
    <2> QED
      BY <1>2, <2>1, LeastNatural
  <1>4. n \in 0 .. Cardinality(Blocks) /\ n >= Depth[b] /\ Climb(b)[n].block # Genesis
    OBVIOUS
  <1>5. CASE n = Depth[b]
    <2> DEFINE y == Climb(b)[n].block
    <2>1. Depth[y] + n = Depth[b]
      BY <1>1, <1>4, <1>5, ClimbDepth
    <2>2. y \in Blocks
      BY <1>4, ClimbTyped
    <2>3. Depth[y] = Depth[Parent[y]] + 1 /\ Depth[Parent[y]] \in Nat
      BY <1>4, <2>2 DEF DepthOfBlocks, BlocksAssumption
    <2> HIDE DEF y
    <2> QED
      BY <1>1, <1>5, <2>1, <2>3
  <1>6. CASE n # Depth[b]
    <2>1. n - 1 \in 0 .. Cardinality(Blocks) /\ n - 1 >= Depth[b] /\ n # 0 /\ n - 1 < n
      BY <1>1, <1>4, <1>6
    <2>2. n - 1 \notin Wrong
      <3> HIDE DEF Wrong
      <3> QED
        BY <1>1, <1>3, <1>4, <2>1
    <2>3. Climb(b)[n - 1].block = Genesis
      BY <2>1, <2>2
    <2>4. Climb(b)[n] = Climb(b)[n - 1]
      BY <1>4, <2>1, <2>3, ClimbStep
    <2> QED
      BY <1>4, <2>3, <2>4
  <1> QED
    BY <1>5, <1>6

\* The chain of a block is the block and the chain of its parent.
LEMMA ChainUnfolds ==
    ASSUME BlocksAssumption, NEW Depth, DepthOfBlocks(Depth)
    PROVE  /\ ChainOf(Genesis) = {Genesis} /\ TotalWork(Genesis) = Work[Genesis]
           /\ \A b \in Blocks \ {Genesis} :
                 /\ ChainOf(b) = {b} \union ChainOf(Parent[b])
                 /\ TotalWork(b) = Work[b] + TotalWork(Parent[b])
           /\ \A b \in Blocks : b \in ChainOf(b) /\ ChainOf(b) \subseteq Blocks
  <1> DEFINE N == Cardinality(Blocks)
  <1>1. N \in Nat /\ Genesis \in Blocks /\ Depth[Genesis] = 0
    BY FS_CardinalityType DEF BlocksAssumption, DepthOfBlocks
  <1>2. N - 1 \in 0 .. N /\ N \in 0 .. N /\ 0 \in 0 .. N /\ N - 1 \in 0 .. N - 1 /\ N - 1 + 1 = N
    <2>1. Depth[Genesis] < N
      BY <1>1, DepthBound
    <2> HIDE DEF N
    <2> QED
      BY <1>1, <2>1
  <1>3. ASSUME NEW b PROVE Climb(b)[0].block = b /\ Climb(b)[0].work = Work[b]
    <2>1. Climb(b)[0] = [block |-> b, work |-> Work[b]]
      BY <1>2, ClimbStep
    <2> QED
      BY <2>1
  <1>4. ASSUME NEW b \in Blocks
        PROVE  b \in ChainOf(b) /\ ChainOf(b) \subseteq Blocks
    <2>1. b = Climb(b)[0].block
      BY <1>3
    <2>2. \A n \in 0 .. N : Climb(b)[n].block \in Blocks
      BY ClimbTyped
    <2> QED
      BY <1>2, <2>1, <2>2 DEF ChainOf
  <1>5. \A n \in 0 .. N : Climb(Genesis)[n].block = Genesis
    BY <1>1, ClimbEnds
  <1>6. ChainOf(Genesis) = {Genesis}
    BY <1>2, <1>5 DEF ChainOf
  <1>7. \A n \in 0 .. N : Climb(Genesis)[n].work = Work[Genesis]
    <2> DEFINE Wrong == {n \in 0 .. N : Climb(Genesis)[n].work # Work[Genesis]}
    <2> SUFFICES ASSUME Wrong # {} PROVE FALSE
      OBVIOUS
    <2>1. PICK n \in Wrong : \A m \in Wrong : n <= m
      <3>1. Wrong \subseteq Nat
        BY <1>1
      <3> HIDE DEF Wrong
      <3> QED
        BY <3>1, LeastNatural
    <2>2. n \in 0 .. N /\ Climb(Genesis)[n].work # Work[Genesis]
      OBVIOUS
    <2>3. n # 0
      <3>1. Climb(Genesis)[0].work = Work[Genesis]
        BY <1>3
      <3> QED
        BY <2>2, <3>1
    <2>4. n - 1 \in 0 .. N /\ n - 1 < n
      BY <1>1, <2>2, <2>3
    <2>5. n - 1 \notin Wrong
      <3> HIDE DEF Wrong
      <3> QED
        BY <1>1, <2>1, <2>2, <2>4
    <2>6. Climb(Genesis)[n] = Climb(Genesis)[n - 1]
      BY <1>5, <2>2, <2>3, <2>4, ClimbStep
    <2> QED
      BY <2>2, <2>4, <2>5, <2>6
  <1>8. ASSUME NEW b \in Blocks \ {Genesis}
        PROVE  /\ ChainOf(b) = {b} \union ChainOf(Parent[b])
               /\ TotalWork(b) = Work[b] + TotalWork(Parent[b])
    <2> DEFINE p == Parent[b]
    <2>1. p \in Blocks
      BY DEF BlocksAssumption
    <2>2. \A m \in 0 .. N - 1 : /\ Climb(b)[m + 1].block = Climb(p)[m].block
                                /\ Climb(b)[m + 1].work = Work[b] + Climb(p)[m].work
      BY ClimbShift
    <2>3. Climb(p)[N] = Climb(p)[N - 1]
      <3>1. Depth[p] \in Nat /\ Depth[p] < N
        BY <2>1, DepthBound DEF DepthOfBlocks
      <3>2. N - 1 >= Depth[p]
        <4> HIDE DEF N, p
        <4> QED
          BY <1>1, <3>1
      <3>3. Climb(p)[N - 1].block = Genesis
        BY <1>2, <2>1, <3>2, ClimbEnds
      <3>4. Climb(p)[N - 1 + 1] = Climb(p)[N - 1]
        BY <1>2, <3>3, ClimbUp
      <3> HIDE DEF N
      <3> QED
        BY <1>2, <3>4
    <2>4. TotalWork(b) = Work[b] + TotalWork(p)
      <3>1. Climb(b)[N - 1 + 1].work = Work[b] + Climb(p)[N - 1].work
        BY <1>2, <2>2
      <3>2. TotalWork(b) = Climb(b)[N].work /\ TotalWork(p) = Climb(p)[N].work
        BY DEF TotalWork
      <3> HIDE DEF N, p
      <3> QED
        BY <1>2, <2>3, <3>1, <3>2
    <2>5. ASSUME NEW n \in 0 .. N PROVE Climb(b)[n].block \in {b} \union ChainOf(p)
      <3>1. CASE n = 0
        <4>1. Climb(b)[0].block = b
          BY <1>3
        <4> QED
          BY <3>1, <4>1
      <3>2. CASE n # 0
        <4> DEFINE m == n - 1
        <4>1. m \in 0 .. N - 1 /\ m \in 0 .. N /\ m + 1 = n
          BY <1>1, <3>2
        <4> HIDE DEF m
        <4>2. Climb(b)[m + 1].block = Climb(p)[m].block
          BY <2>2, <4>1
        <4> QED
          BY <4>1, <4>2 DEF ChainOf
      <3> QED
        BY <3>1, <3>2
    <2>6. ASSUME NEW n \in 0 .. N PROVE Climb(p)[n].block \in ChainOf(b)
      <3>1. CASE n \in 0 .. N - 1
        <4>1. n + 1 \in 0 .. N /\ Climb(b)[n + 1].block = Climb(p)[n].block
          BY <1>1, <2>2, <3>1
        <4> QED
          BY <4>1 DEF ChainOf
      <3>2. CASE n = N
        <4>1. Climb(b)[N - 1 + 1].block = Climb(p)[N - 1].block
          BY <1>2, <2>2
        <4>2. Climb(b)[N].block = Climb(p)[N].block
          <5> HIDE DEF N, p
          <5> QED
            BY <1>2, <2>3, <4>1
        <4> QED
          BY <1>2, <3>2, <4>2 DEF ChainOf
      <3> QED
        BY <1>1, <3>1, <3>2
    <2>7. ChainOf(b) \subseteq {b} \union ChainOf(p)
      BY <2>5 DEF ChainOf
    <2>8. ChainOf(p) \subseteq ChainOf(b) /\ b \in ChainOf(b)
      <3>1. ChainOf(p) \subseteq ChainOf(b)
        <4> HIDE DEF p
        <4> QED
          BY <2>6 DEF ChainOf
      <3> QED
        BY <1>4, <3>1
    <2> QED
      BY <2>4, <2>7, <2>8
  <1>9. TotalWork(Genesis) = Work[Genesis]
    BY <1>2, <1>7 DEF TotalWork
  <1> QED
    BY <1>4, <1>6, <1>8, <1>9

-----------------------------------------------------------------------------
(***************************************************************************)
(* No acceptable chain outweighs the main chain                             *)
(***************************************************************************)
\* validateBlock refuses no block of b's chain.
Clean(b) == \A x \in ChainOf(b) \ {Genesis} : x \notin RejectMain

\* The inductive invariant.  Every block of the main chain has a clean chain and
\* records no more work than the tip; so does every clean alternative block.
\* What a switch disconnected was on the main chain, on top of a block of it.
TopInv ==
    /\ main[1].cum = Work[Genesis]
    /\ \A i \in 1 .. Len(main) :
          Clean(main[i].hash) /\ main[i].cum <= CumulativeDifficulty(main)
    /\ \A x \in Blocks : alt[x] # None =>
          /\ Clean(x) => alt[x].cum <= CumulativeDifficulty(main)
          /\ alt[x].prev # Parent[x] =>
                Clean(x) /\ (alt[x].prev # None => Clean(alt[x].prev))

\* A chain is clean when the parent's is and the block is not refused.
LEMMA CleanUnfolds ==
    ASSUME BlocksAssumption, NEW Depth, DepthOfBlocks(Depth)
    PROVE  /\ Clean(Genesis)
           /\ \A b \in Blocks \ {Genesis} :
                 Clean(b) <=> Clean(Parent[b]) /\ b \notin RejectMain
  <1>1. Clean(Genesis)
    BY ChainUnfolds DEF Clean
  <1>2. ASSUME NEW b \in Blocks \ {Genesis}
        PROVE  Clean(b) <=> Clean(Parent[b]) /\ b \notin RejectMain
    <2>1. ChainOf(b) = {b} \union ChainOf(Parent[b])
      BY ChainUnfolds
    <2> QED
      BY <2>1 DEF Clean
  <1> QED
    BY <1>1, <1>2

\* The genesis block is never an alternative block.
LEMMA GenesisStays ==
    ASSUME TypeOK, Disjoint, Genesis \in Blocks
    PROVE  alt[Genesis] = None
  <1>1. 1 \in 1 .. Height /\ main[1].hash = Genesis
    BY DEF TypeOK, Height
  <1>2. OnMain(Genesis)
    BY <1>1 DEF OnMain
  <1> QED
    BY <1>2 DEF Disjoint, InAlt

\* A clean block's chain of alternative blocks is clean, down to the split.
LEMMA CleanDown ==
    ASSUME BlocksAssumption, NEW Depth, DepthOfBlocks(Depth), WellPlaced(Depth),
           TopInv, NEW b \in Blocks, b # Genesis, ~InAlt(b), Connected(Parent[b]),
           Clean(b)
    PROVE  \A i \in 1 .. Len(FullChain(b)) :
              Clean(FullChain(b)[i]) /\ FullChain(b)[i] \notin RejectMain
  <1> DEFINE full == FullChain(b)
             n == Len(full)
             h == RollbackHeight(b)
             Wrong == {k \in 0 .. n - 1 : ~Clean(full[n - k])}
  <1>1. TypeOK /\ Disjoint /\ Genesis \in Blocks
    BY DEF WellPlaced, BlocksAssumption
  <1>2. /\ n \in Nat \ {0} /\ full[n] = b /\ full \in Seq(Blocks)
        /\ \A i \in 1 .. n : full[i] = b \/ alt[full[i]] # None
    BY <1>1, FullChainTyped
  <1>3. \A i \in 1 .. n : full[i] \in Blocks
    BY <1>2, ElementOfSeq
  <1>4. \A i \in 1 .. n : full[i] # Genesis
    BY <1>1, <1>2, GenesisStays
  <1>5. Wrong = {}
    <2> SUFFICES ASSUME Wrong # {} PROVE FALSE
      OBVIOUS
    <2>1. PICK k \in Wrong : \A m \in Wrong : k <= m
      <3>1. Wrong \subseteq Nat
        BY <1>2
      <3> HIDE DEF Wrong
      <3> QED
        BY <3>1, LeastNatural
    <2>2. k \in 0 .. n - 1 /\ ~Clean(full[n - k])
      OBVIOUS
    <2>3. k # 0
      <3>1. n - 0 = n
        BY <1>2
      <3> HIDE DEF n, full
      <3> QED
        BY <1>2, <2>2, <3>1
    <2> DEFINE i == n - k
               x == full[i + 1]
    <2>4. /\ k - 1 \in 0 .. n - 1 /\ k - 1 < k /\ n - (k - 1) = i + 1
          /\ i \in 1 .. n /\ i + 1 \in 1 .. n /\ i \in Nat
      <3> HIDE DEF n
      <3> QED
        BY <1>2, <2>2, <2>3
    <2>5. k - 1 \notin Wrong
      <3> HIDE DEF Wrong, n
      <3> QED
        BY <1>2, <2>1, <2>2, <2>4
    <2>6. Clean(x)
      <3>1. Clean(full[n - (k - 1)])
        BY <2>4, <2>5
      <3> HIDE DEF n, full, i
      <3> QED
        BY <2>4, <3>1
    <2>7. Stored(b)[x].prev = full[i]
      <3>1. h \in Nat
        <4>1. h \in 1 .. Len(main) /\ Len(main) \in Nat
          BY <1>1, NewMainTyped DEF TypeOK
        <4> HIDE DEF h
        <4> QED
          BY <4>1
      <3>2. Stored(b)[full[i + 1]].prev = NewMain(b)[h + (i + 1) - 1].hash
        <4> DEFINE j == i + 1
        <4>1. j \in 1 .. Len(full)
          BY <2>4
        <4> HIDE DEF j
        <4>2. Stored(b)[full[j]].prev = NewMain(b)[h + j - 1].hash
          BY <4>1, FullChainLinks
        <4> QED
          BY <4>2 DEF j
      <3>3. NewMain(b)[h + i].hash = full[i]
        BY <1>1, <2>4, NewMainTyped
      <3>4. h + (i + 1) - 1 = h + i
        <4> HIDE DEF h, i
        <4> QED
          BY <2>4, <3>1
      <3> QED
        BY <3>2, <3>3, <3>4
    <2>8. x \in Blocks \ {Genesis} /\ full[i] \in Blocks
      BY <1>3, <1>4, <2>4
    <2>9. CASE Stored(b)[x].prev = Parent[x]
      <3>1. Clean(Parent[x])
        BY <2>6, <2>8, CleanUnfolds
      <3> QED
        BY <2>2, <2>7, <2>9, <3>1
    <2>10. CASE Stored(b)[x].prev # Parent[x]
      <3>1. x # b
        <4>1. Stored(b)[b] = AltInfo(b)
          BY <1>1, StoredTyped
        <4>2. Stored(b)[b].prev = Parent[b]
          BY <4>1 DEF AltInfo
        <4> QED
          BY <2>10, <4>2
      <3>2. Stored(b)[x] = alt[x]
        BY <1>1, <2>8, <3>1, StoredTyped
      <3>3. alt[x] # None
        BY <1>2, <2>4, <3>1
      <3>4. alt[x].prev = full[i] /\ alt[x].prev # Parent[x]
        BY <2>7, <2>10, <3>2
      <3>5. full[i] # None
        BY <2>8 DEF BlocksAssumption
      <3>6. Clean(full[i])
        BY <2>8, <3>3, <3>4, <3>5 DEF TopInv
      <3> QED
        BY <2>2, <3>6
    <2> QED
      BY <2>9, <2>10
  <1>6. ASSUME NEW i \in 1 .. n PROVE Clean(full[i])
    <2> DEFINE k == n - i
    <2>1. k \in 0 .. n - 1 /\ n - k = i
      <3> HIDE DEF n
      <3> QED
        BY <1>2
    <2>2. Clean(full[n - k])
      <3> HIDE DEF k
      <3> QED
        BY <1>5, <2>1
    <2> HIDE DEF n, full, k
    <2> QED
      BY <2>1, <2>2
  <1> QED
    BY <1>3, <1>4, <1>6, CleanUnfolds

\* What a switch puts on the main chain is clean.
LEMMA CleanUp ==
    ASSUME BlocksAssumption, NEW Depth, DepthOfBlocks(Depth), WellPlaced(Depth),
           TopInv, NEW b \in Blocks, b # Genesis, ~InAlt(b), Connected(Parent[b]),
           Switchable(b)
    PROVE  \A j \in 1 .. Len(NewMain(b)) : Clean(NewMain(b)[j].hash)
  <1> DEFINE full == FullChain(b)
             h == RollbackHeight(b)
             new == NewMain(b)
             Wrong == {j \in 1 .. Len(new) : ~Clean(new[j].hash)}
  <1>1. TypeOK /\ Disjoint /\ Genesis \in Blocks
    BY DEF WellPlaced, BlocksAssumption
  <1>2. /\ h \in 1 .. Len(main) /\ Len(main) \in Nat
        /\ Len(new) = h + Len(full) /\ Len(full) \in Nat
        /\ \A i \in 1 .. h : new[i] = main[i]
        /\ \A i \in 1 .. Len(full) : new[h + i].hash = full[i]
    <2>1. Len(main) \in Nat
      BY <1>1 DEF TypeOK
    <2>2. Len(full) \in Nat
      BY <1>1, FullChainTyped
    <2> QED
      BY <1>1, <2>1, <2>2, NewMainTyped
  <1>3. \A i \in 1 .. Len(full) : full[i] \in Blocks \ {Genesis}
    <2>1. full \in Seq(Blocks) /\ \A i \in 1 .. Len(full) : full[i] = b \/ alt[full[i]] # None
      BY <1>1, FullChainTyped
    <2>2. \A i \in 1 .. Len(full) : full[i] \in Blocks
      BY <2>1, ElementOfSeq
    <2> HIDE DEF full
    <2> QED
      BY <1>1, <2>1, <2>2, GenesisStays
  <1>4. SUFFICES ASSUME Wrong # {} PROVE FALSE
    OBVIOUS
  <1>5. PICK j \in Wrong : \A m \in Wrong : j <= m
    <2>1. Wrong \subseteq Nat
      BY <1>2
    <2> HIDE DEF Wrong
    <2> QED
      BY <1>4, <2>1, LeastNatural
  <1>6. j \in 1 .. Len(new) /\ ~Clean(new[j].hash)
    OBVIOUS
  <1>7. ~(j \in 1 .. h)
    <2> SUFFICES ASSUME j \in 1 .. h PROVE FALSE
      OBVIOUS
    <2> HIDE DEF h, new, Wrong
    <2>1. j \in 1 .. Len(main) /\ new[j] = main[j]
      BY <1>2
    <2> QED
      BY <1>6, <2>1 DEF TopInv
  <1> DEFINE i == j - h
             x == full[i]
  <1>8. /\ i \in 1 .. Len(full) /\ h + i = j /\ h + i - 1 = j - 1
        /\ j - 1 \in 1 .. Len(new) /\ j - 1 < j
    <2> DEFINE F == Len(full)
               N == Len(new)
    <2>1. /\ h \in Nat \ {0} /\ F \in Nat /\ N = h + F
          /\ j \in 1 .. N /\ ~(j \in 1 .. h)
      <3> HIDE DEF h, new, full, Wrong
      <3> QED
        BY <1>2, <1>6, <1>7
    <2> HIDE DEF F, N, h, Wrong
    <2>2. /\ j - h \in 1 .. F /\ h + (j - h) = j /\ h + (j - h) - 1 = j - 1
          /\ j - 1 \in 1 .. N /\ j - 1 < j
      BY <2>1
    <2> QED
      BY <2>2 DEF F, N
  <1>9. Clean(new[j - 1].hash)
    <2>1. j - 1 \notin Wrong
      <3> HIDE DEF Wrong, new, i
      <3>1. j - 1 \in Int /\ j \in Int
        BY <1>6, <1>8
      <3> QED
        BY <1>5, <1>8, <3>1
    <2> QED
      BY <1>8, <2>1
  <1>10. new[j].hash = x /\ x \in Blocks \ {Genesis} /\ x \notin RejectMain
    <2>1. new[h + i].hash = x /\ x \in Blocks \ {Genesis}
      BY <1>2, <1>3, <1>8
    <2>2. x \notin RejectMain
      BY <1>8 DEF Switchable
    <2> HIDE DEF i, h, new, x
    <2> QED
      BY <1>8, <2>1, <2>2
  <1>11. Stored(b)[x].prev = new[j - 1].hash
    <2>1. Stored(b)[x].prev = new[h + i - 1].hash
      <3> HIDE DEF i
      <3> QED
        BY <1>8, FullChainLinks
    <2> HIDE DEF i, h, new, x
    <2> QED
      BY <1>8, <2>1
  <1>12. CASE Stored(b)[x].prev = Parent[x]
    <2>1. Clean(Parent[x])
      BY <1>9, <1>11, <1>12
    <2> HIDE DEF x
    <2>2. Clean(x)
      BY <1>10, <2>1, CleanUnfolds
    <2> QED
      BY <1>6, <1>10, <2>2
  <1>13. CASE Stored(b)[x].prev # Parent[x]
    <2>1. x # b
      <3>1. Stored(b)[b] = AltInfo(b)
        BY <1>1, StoredTyped
      <3>2. Stored(b)[b].prev = Parent[b]
        BY <3>1 DEF AltInfo
      <3> QED
        BY <1>13, <3>2
    <2>2. Stored(b)[x] = alt[x]
      BY <1>1, <1>10, <2>1, StoredTyped
    <2>3. alt[x] # None
      BY <1>1, <1>8, <2>1, FullChainTyped
    <2>4. Clean(x)
      BY <1>10, <1>13, <2>2, <2>3 DEF TopInv
    <2> QED
      BY <1>6, <1>10, <2>4
  <1> QED
    BY <1>12, <1>13

\* The tip of a main chain records an integer.
LEMMA TopIsInt ==
    ASSUME NEW c \in Seq(MainEntry), Len(c) > 0
    PROVE  CumulativeDifficulty(c) \in Int /\ Len(c) \in 1 .. Len(c)
  <1>1. Len(c) \in 1 .. Len(c)
    OBVIOUS
  <1>2. c[Len(c)] \in MainEntry
    BY <1>1, ElementOfSeq
  <1> QED
    BY <1>1, <1>2 DEF CumulativeDifficulty, MainEntry

\* A switch leaves no clean chain behind that records more than the new tip.
LEMMA TopSwitch ==
    ASSUME BlocksAssumption, NEW Depth, DepthOfBlocks(Depth), WellPlaced(Depth),
           TopInv, NEW b \in Blocks, Switch(b)
    PROVE  TopInv'
  <1> DEFINE full == FullChain(b)
             h == RollbackHeight(b)
             new == NewMain(b)
             stored == Stored(b)
             old == CumulativeDifficulty(main)
             top == CumulativeDifficulty(new)
  <1>1. TypeOK /\ CumulativeDifficulty(main) >= 1 /\ MainDepths(Depth)
    BY DEF WellPlaced
  <1>2. /\ b # Genesis /\ Heavier(b) /\ ~InAlt(b) /\ Switchable(b)
        /\ main' = new /\ alt' = AltAfterSwitch(b)
    BY DEF Switch, Acceptable, OffTip, New, Known
  <1>3. Connected(Parent[b])
    BY <1>1, <1>2, HeavierIsConnected
  <1>4. /\ new \in Seq(MainEntry)
        /\ h \in 1 .. Len(main) /\ Len(main) \in Nat
        /\ Len(new) = h + Len(full) /\ Len(full) \in Nat \ {0}
        /\ \A i \in 1 .. h : new[i] = main[i]
        /\ \A i \in 1 .. Len(full) :
              new[h + i].hash = full[i] /\ new[h + i].cum = stored[full[i]].cum
        /\ top = AltInfo(b).cum
        /\ \A i \in 1 .. Len(full) : full[i] = b \/ alt[full[i]] # None
    <2>1. Len(main) \in Nat
      BY <1>1 DEF TypeOK
    <2>2. /\ Len(full) \in Nat \ {0}
          /\ \A i \in 1 .. Len(full) : full[i] = b \/ alt[full[i]] # None
      BY <1>1, <1>2, FullChainTyped
    <2> QED
      BY <1>1, <1>2, <2>1, <2>2, NewMainTyped
  <1>5. old \in Int /\ top \in Int /\ old < top /\ top > 0
    <2>1. old \in Int
      BY <1>1, TopIsInt DEF TypeOK
    <2>2. top \in Int
      <3>1. Len(new) > 0
        BY <1>1, <1>2, NewMainTyped
      <3> HIDE DEF new
      <3> QED
        BY <1>4, <3>1, TopIsInt
    <2>3. top > old
      BY <1>2, <1>4 DEF Heavier
    <2>4. old >= 1
      BY <1>1
    <2> HIDE DEF old, top
    <2> QED
      BY <2>1, <2>2, <2>3, <2>4
  <1>6. \A j \in 1 .. Len(new) : Clean(new[j].hash)
    BY <1>2, <1>3, CleanUp
  <1>7. /\ stored[b] = AltInfo(b)
        /\ \A x \in Blocks : x # b => stored[x] = alt[x]
    BY <1>1, <1>2, StoredTyped
  <1>8. ASSUME NEW x \in Blocks, x # b, alt[x] # None, Clean(x)
        PROVE  alt[x].cum <= top
    <2>1. alt[x].cum <= old
      BY <1>8 DEF TopInv
    <2>2. alt[x].cum \in Int
      BY <1>1, <1>8 DEF TypeOK, AltEntry
    <2> HIDE DEF old, top
    <2> QED
      BY <1>5, <2>1, <2>2
  <1>9. ASSUME NEW j \in 1 .. Len(new) PROVE new[j].cum <= top
    <2>1. j \in 1 .. h \/ (j - h \in 1 .. Len(full) /\ h + (j - h) = j)
      <3> HIDE DEF h, full, new
      <3> QED
        BY <1>4
    <2>2. CASE j \in 1 .. h
      <3>1. j \in 1 .. Len(main) /\ new[j] = main[j]
        <4> HIDE DEF h, full, new
        <4> QED
          BY <1>4, <2>2
      <3>2. main[j].cum <= old
        BY <3>1 DEF TopInv
      <3>3. main[j].cum \in Int
        <4>1. main[j] \in MainEntry
          BY <1>1, <3>1, ElementOfSeq DEF TypeOK
        <4> QED
          BY <4>1 DEF MainEntry
      <3> HIDE DEF old, top, new
      <3> QED
        BY <1>5, <3>1, <3>2, <3>3
    <2>3. CASE j - h \in 1 .. Len(full) /\ h + (j - h) = j
      <3> DEFINE i == j - h
                 x == full[i]
      <3>1. i \in 1 .. Len(full) /\ h + i = j
        BY <2>3
      <3> HIDE DEF i
      <3>2. new[h + i].cum = stored[x].cum /\ new[h + i].hash = x
        BY <1>4, <3>1
      <3>3. new[j].cum = stored[x].cum /\ Clean(x)
        <4>1. Clean(new[j].hash)
          BY <1>6
        <4> HIDE DEF h, new, stored, x
        <4> QED
          BY <3>1, <3>2, <4>1
      <3>4. x \in Blocks /\ (x = b \/ alt[x] # None)
        <4>1. full \in Seq(Blocks)
          BY <1>1, <1>2, FullChainTyped
        <4>2. x \in Blocks
          BY <3>1, <4>1, ElementOfSeq
        <4> QED
          BY <1>4, <3>1, <4>2
      <3> HIDE DEF x, h, new, full, stored, top, old
      <3>5. CASE x = b
        BY <1>4, <1>5, <1>7, <3>3, <3>5
      <3>6. CASE x # b
        BY <1>7, <1>8, <3>3, <3>4, <3>6
      <3> QED
        BY <3>5, <3>6
    <2> QED
      BY <2>1, <2>2, <2>3
  <1>10. new[1].cum = Work[Genesis]
    <2>1. 1 \in 1 .. h
      <3> HIDE DEF h
      <3> QED
        BY <1>4
    <2> QED
      BY <1>4, <2>1 DEF TopInv
  <1>11. ASSUME NEW x \in Blocks, alt'[x] # None
         PROVE  /\ Clean(x) => alt'[x].cum <= top
                /\ alt'[x].prev # Parent[x] =>
                      Clean(x) /\ (alt'[x].prev # None => Clean(alt'[x].prev))
    <2>1. CASE FindBlock(x) >= h /\ alt'[x] = DisconnectedInfo(new, FindBlock(x))
      <3> DEFINE k == FindBlock(x)
      <3>1. k \in -1 .. Height - 1 /\ Height \in Nat /\ k >= h
        BY <1>1, <2>1, FindBlockTyped DEF TypeOK, Height
      <3>2. k \in Nat \ {0} /\ k >= 0
        <4> HIDE DEF k, h
        <4> QED
          BY <1>4, <3>1
      <3>3. Clean(x)
        <4>1. k + 1 \in 1 .. Len(main) /\ main[k + 1].hash = x
          BY <1>1, <3>2, FindBlockDepth
        <4> HIDE DEF k
        <4> QED
          BY <4>1 DEF TopInv
      <3>4. alt'[x].cum = 0
        BY <2>1 DEF DisconnectedInfo
      <3>5. alt'[x].prev = IF k > 0 /\ k <= Len(new) THEN new[k].hash ELSE None
        BY <2>1 DEF DisconnectedInfo
      <3>6. alt'[x].prev # None => Clean(alt'[x].prev)
        <4> HIDE DEF k, new
        <4>1. alt'[x].prev # None => k \in 1 .. Len(new) /\ alt'[x].prev = new[k].hash
          BY <1>4, <3>2, <3>5
        <4> QED
          BY <1>6, <4>1
      <3> HIDE DEF top
      <3> QED
        BY <1>5, <3>3, <3>4, <3>6
    <2>2. CASE x # b /\ alt'[x] = stored[x]
      <3>1. alt'[x] = alt[x]
        BY <1>7, <2>2
      <3> QED
        BY <1>8, <1>11, <2>2, <3>1 DEF TopInv
    <2>3. \/ FindBlock(x) >= h /\ alt'[x] = DisconnectedInfo(new, FindBlock(x))
          \/ x # b /\ alt'[x] = stored[x]
      <3>1. /\ ~\E i \in 1 .. Len(full) : full[i] = x
            /\ \/ FindBlock(x) >= h /\ alt'[x] = DisconnectedInfo(new, FindBlock(x))
               \/ alt'[x] = stored[x]
        BY <1>2, <1>11 DEF AltAfterSwitch
      <3>2. Len(full) \in 1 .. Len(full) /\ full[Len(full)] = b
        BY <1>1, <1>2, <1>4, FullChainTyped
      <3> QED
        BY <3>1, <3>2
    <2> QED
      BY <2>1, <2>2, <2>3
  <1> HIDE DEF new, top
  <1>12. CumulativeDifficulty(main') = top
    BY <1>2 DEF top
  <1> QED
    BY <1>2, <1>6, <1>9, <1>10, <1>11, <1>12 DEF TopInv

\* A stored block that is heavier and clean could have been switched to.
LEMMA TopStored ==
    ASSUME BlocksAssumption, NEW Depth, DepthOfBlocks(Depth), WellPlaced(Depth),
           TopInv, NEW b \in Blocks, AddAlternative(b) \/ SwitchFails(b)
    PROVE  TopInv'
  <1>1. TypeOK /\ CumulativeDifficulty(main) >= 1
    BY DEF WellPlaced
  <1>2. b # Genesis /\ ~InAlt(b) /\ alt' = Stored(b)
    BY DEF AddAlternative, SwitchFails, Acceptable, OffTip, New, Known
  <1>3. main' = main
    BY <1>1, <1>2, FailedSwitchUndone DEF AddAlternative, SwitchFails
  <1>4. /\ alt'[b] = AltInfo(b)
        /\ \A x \in Blocks : x # b => alt'[x] = alt[x]
    BY <1>1, <1>2, StoredTyped
  <1>5. AltInfo(b).prev = Parent[b]
    BY DEF AltInfo
  <1>6. Clean(b) => AltInfo(b).cum <= CumulativeDifficulty(main)
    <2>1. CASE Heavier(b)
      <3>1. ~Switchable(b)
        BY <2>1 DEF AddAlternative, SwitchFails
      <3>2. Connected(Parent[b])
        BY <1>1, <1>2, <2>1, HeavierIsConnected
      <3>3. Clean(b) => \A i \in 1 .. Len(FullChain(b)) : FullChain(b)[i] \notin RejectMain
        BY <1>2, <3>2, CleanDown
      <3> QED
        BY <3>1, <3>3 DEF Switchable
    <2>2. CASE ~Heavier(b)
      <3>1. AltInfo(b).cum \in Int
        BY <1>1, <1>2, AltInfoTyped
      <3>2. CumulativeDifficulty(main) \in Int
        BY <1>1, TopIsInt DEF TypeOK
      <3>3. ~(AltInfo(b).cum > CumulativeDifficulty(main))
        BY <2>2 DEF Heavier
      <3> QED
        BY <3>1, <3>2, <3>3
    <2> QED
      BY <2>1, <2>2
  <1> QED
    BY <1>3, <1>4, <1>5, <1>6 DEF TopInv

\* The block that extends the main chain is as clean as the tip.
LEMMA TopExtend ==
    ASSUME BlocksAssumption, NEW Depth, DepthOfBlocks(Depth), WellPlaced(Depth),
           TopInv, NEW b \in Blocks, Extend(b)
    PROVE  TopInv'
  <1> DEFINE e == [hash |-> b, cum |-> CumulativeDifficulty(main) + Work[b]]
             n == Len(main)
             old == CumulativeDifficulty(main)
  <1>1. /\ main' = Append(main, e) /\ b # Genesis /\ b \notin RejectMain
        /\ Parent[b] = main[n].hash
        /\ \A x \in Blocks : alt'[x] = alt[x] \/ alt'[x] = None
    BY DEF Extend, OnTip, New, Tip, Height, Pruned
  <1>2. TypeOK /\ main \in Seq(MainEntry)
    BY DEF WellPlaced, TypeOK
  <1>3. /\ n \in Nat \ {0} /\ n \in 1 .. n /\ Len(main') = n + 1 /\ main'[n + 1] = e
        /\ \A i \in 1 .. n : main'[i] = main[i]
    BY <1>1, <1>2 DEF TypeOK
  <1>4. old \in Int /\ Work[b] \in Nat /\ old <= old + Work[b]
    <2>1. old \in Int
      BY <1>2, TopIsInt DEF TypeOK
    <2>2. Work[b] \in Nat
      BY DEF BlocksAssumption
    <2> HIDE DEF old
    <2> QED
      BY <2>1, <2>2
  <1>5. CumulativeDifficulty(main') = old + Work[b] /\ e.cum = old + Work[b] /\ e.hash = b
    <2>1. main'[Len(main')] = e
      BY <1>3
    <2> QED
      BY <2>1 DEF CumulativeDifficulty
  <1>6. Clean(b)
    <2>1. Clean(main[n].hash)
      BY <1>3 DEF TopInv
    <2> QED
      BY <1>1, <2>1, CleanUnfolds
  <1>7. \A i \in 1 .. n + 1 : i \in 1 .. n \/ i = n + 1
    <2> HIDE DEF n
    <2> QED
      BY <1>3
  <1>8. ASSUME NEW i \in 1 .. Len(main')
        PROVE  Clean(main'[i].hash) /\ main'[i].cum <= old + Work[b]
    <2>1. CASE i = n + 1
      <3> HIDE DEF e, n, old
      <3> QED
        BY <1>3, <1>4, <1>5, <1>6, <2>1
    <2>2. CASE i \in 1 .. n
      <3>1. main'[i] = main[i] /\ Clean(main[i].hash) /\ main[i].cum <= old
        BY <1>3, <2>2 DEF TopInv
      <3>2. main[i].cum \in Int
        <4>1. main[i] \in MainEntry
          BY <1>2, <2>2, ElementOfSeq
        <4> QED
          BY <4>1 DEF MainEntry
      <3> HIDE DEF old, n
      <3> QED
        BY <1>4, <3>1, <3>2
    <2> QED
      BY <1>3, <1>7, <2>1, <2>2
  <1>9. ASSUME NEW x \in Blocks, alt'[x] # None
        PROVE  /\ alt'[x] = alt[x] /\ alt[x] # None
               /\ Clean(x) => alt[x].cum <= old + Work[b]
    <2>1. alt'[x] = alt[x] /\ alt[x] # None
      BY <1>1, <1>9
    <2>2. Clean(x) => alt[x].cum <= old
      BY <2>1 DEF TopInv
    <2>3. alt[x].cum \in Int
      BY <1>2, <2>1 DEF TypeOK, AltEntry
    <2> HIDE DEF old
    <2> QED
      BY <1>4, <2>1, <2>2, <2>3
  <1>10. main'[1].cum = Work[Genesis]
    <2>1. 1 \in 1 .. n
      BY <1>3
    <2> QED
      BY <1>3, <2>1 DEF TopInv
  <1> HIDE DEF e, n, old
  <1> QED
    BY <1>5, <1>8, <1>9, <1>10 DEF TopInv

\* The genesis block alone is the tip.
LEMMA TopInit ==
    ASSUME BlocksAssumption, NEW Depth, DepthOfBlocks(Depth)
    PROVE  Init => TopInv
  <1> SUFFICES ASSUME Init PROVE TopInv
    OBVIOUS
  <1>1. /\ main = <<[hash |-> Genesis, cum |-> Work[Genesis]]>>
        /\ \A x \in Blocks : alt[x] = None
    BY DEF Init
  <1>2. Len(main) = 1 /\ main[1].cum = Work[Genesis] /\ main[1].hash = Genesis
    BY <1>1
  <1>3. CumulativeDifficulty(main) = Work[Genesis] /\ Work[Genesis] \in Nat
    BY <1>2 DEF CumulativeDifficulty, BlocksAssumption
  <1>4. Clean(Genesis)
    BY CleanUnfolds
  <1>5. \A i \in 1 .. Len(main) :
           Clean(main[i].hash) /\ main[i].cum <= CumulativeDifficulty(main)
    BY <1>2, <1>3, <1>4
  <1> QED
    BY <1>1, <1>2, <1>5 DEF TopInv

\* Every operation keeps it.
LEMMA TopStep ==
    ASSUME BlocksAssumption, NEW Depth, DepthOfBlocks(Depth), WellPlaced(Depth),
           TopInv, [Next]_vars
    PROVE  TopInv'
  <1>1. ASSUME UNCHANGED main, \A x \in Blocks : alt'[x] = alt[x] \/ alt'[x] = None
        PROVE  TopInv'
    BY <1>1 DEF TopInv
  <1>2. ASSUME NEW b \in Blocks, MarkInvalid(b) PROVE TopInv'
    BY <1>1, <1>2 DEF MarkInvalid
  <1>3. ASSUME NEW b \in Blocks, Extend(b) PROVE TopInv'
    BY <1>3, TopExtend
  <1>4. ASSUME NEW b \in Blocks, Switch(b) PROVE TopInv'
    BY <1>4, TopSwitch
  <1>5. ASSUME NEW b \in Blocks, AddAlternative(b) \/ SwitchFails(b) PROVE TopInv'
    BY <1>5, TopStored
  <1>6. CASE FlushAltBlocks \/ FlushInvalidBlocks \/ UNCHANGED vars
    BY <1>1, <1>6 DEF FlushAltBlocks, FlushInvalidBlocks, vars
  <1> QED
    BY <1>2, <1>3, <1>4, <1>5, <1>6
    DEF Next, HandleBlock, RejectChild, RejectOnTip, RejectAlternative

\* A chain known as a whole, with its own work, records the sum of it.
LEMMA IntactRecordsTotal ==
    ASSUME BlocksAssumption, NEW Depth, DepthOfBlocks(Depth), WellPlaced(Depth),
           TopInv, NEW b \in Blocks, Intact(b)
    PROVE  RecordedWork(b) = TotalWork(b)
  <1> DEFINE Bad(x) == Intact(x) /\ RecordedWork(x) # TotalWork(x)
             Wrong == {Depth[x] : x \in {y \in Blocks : Bad(y)}}
  <1>1. TypeOK /\ MainDepths(Depth) /\ Genesis \in Blocks /\ Cardinality(Blocks) \in Nat
    BY FS_CardinalityType DEF WellPlaced, BlocksAssumption
  <1>2. SUFFICES ASSUME Bad(b) PROVE FALSE
    OBVIOUS
  <1>3. PICK n \in Wrong : \A m \in Wrong : n <= m
    <2>1. Wrong \subseteq Nat
      BY DEF DepthOfBlocks
    <2>2. Depth[b] \in Wrong
      <3> HIDE DEF Bad
      <3> QED
        BY <1>2
    <2> HIDE DEF Wrong
    <2> QED
      BY <2>1, <2>2, LeastNatural
  <1>4. PICK x \in Blocks : Bad(x) /\ n = Depth[x]
    OBVIOUS
  <1>5. CASE x = Genesis
    <2>1. 1 \in 1 .. Len(main) /\ main[1].hash = Genesis
      BY <1>1 DEF TypeOK
    <2>2. OnMain(Genesis)
      BY <2>1 DEF OnMain, Height
    <2>3. FindBlock(Genesis) = 0
      <3>1. FindBlock(main[1].hash) = 1 - 1
        BY <1>1, <2>1, OnMainDepth
      <3> QED
        BY <2>1, <3>1
    <2>4. RecordedWork(Genesis) = main[1].cum
      BY <2>2, <2>3 DEF RecordedWork
    <2> QED
      BY <1>4, <1>5, <2>4, ChainUnfolds DEF TopInv
  <1>6. CASE x # Genesis
    <2> DEFINE p == Parent[x]
    <2>1. p \in Blocks /\ Depth[x] = Depth[p] + 1 /\ Depth[p] \in Nat
      BY <1>6 DEF BlocksAssumption, DepthOfBlocks
    <2>2. ChainOf(x) = {x} \union ChainOf(p) /\ TotalWork(x) = Work[x] + TotalWork(p)
      BY <1>6, ChainUnfolds
    <2>3. Known(p) /\ RecordedWork(x) = RecordedWork(p) + Work[x]
      BY <1>4, <1>6, <2>2 DEF Intact
    <2>4. Intact(p)
      BY <1>4, <2>2, <2>3 DEF Intact
    <2>5. RecordedWork(p) = TotalWork(p)
      <3>1. Depth[p] \notin Wrong
        <4> HIDE DEF Wrong, p
        <4> QED
          BY <1>3, <1>4, <2>1
      <3> QED
        BY <2>1, <2>4, <3>1
    <2>6. TotalWork(p) \in Nat /\ Work[x] \in Nat
      <3>1. Cardinality(Blocks) \in 0 .. Cardinality(Blocks)
        BY <1>1
      <3>2. TotalWork(p) \in Nat
        BY <2>1, <3>1, ClimbTyped DEF TotalWork
      <3> QED
        BY <3>2 DEF BlocksAssumption
    <2>7. RecordedWork(x) = TotalWork(x)
      <3> HIDE DEF p
      <3> QED
        BY <2>2, <2>3, <2>5, <2>6
    <2> QED
      BY <1>4, <2>7
  <1> QED
    BY <1>5, <1>6

\* No chain that is known as a whole, with its own work, and that validateBlock
\* does not refuse, has more work behind it than the main chain records: such a
\* chain was switched to when it came to outweigh the main chain, and no failed
\* switch, pruning or flush hides one (handleBlock, _switchToAlternativeChain).
THEOREM MainChainIsHeaviest ==
    ASSUME BlocksAssumption, NEW CONSTANT Depth, DepthOfBlocks(Depth)
    PROVE  Spec => []HeaviestIntact
  <1>1. Init => WellPlaced(Depth) /\ TopInv
    BY PlacementInit, TopInit
  <1>2. WellPlaced(Depth) /\ TopInv /\ [Next]_vars => (WellPlaced(Depth) /\ TopInv)'
    BY PlacementStep, TopStep
  <1>3. WellPlaced(Depth) /\ TopInv => HeaviestIntact
    <2> SUFFICES ASSUME WellPlaced(Depth), TopInv, NEW b \in Blocks, Intact(b),
                        ChainOf(b) \intersect RejectMain = {}
                 PROVE  TotalWork(b) <= CumulativeDifficulty(main)
      BY DEF HeaviestIntact
    <2>1. TypeOK /\ MainDepths(Depth)
      BY DEF WellPlaced
    <2>2. RecordedWork(b) = TotalWork(b)
      BY IntactRecordsTotal
    <2>3. Clean(b)
      BY DEF Clean
    <2>4. CASE OnMain(b)
      <3>1. FindBlock(b) >= 0
        <4>1. (CHOOSE i \in 1 .. Height : main[i].hash = b) \in 1 .. Height
          BY <2>4 DEF OnMain
        <4>2. FindBlock(b) = (CHOOSE i \in 1 .. Height : main[i].hash = b) - 1
          BY <2>4 DEF FindBlock
        <4>3. Height \in Nat
          BY <2>1 DEF TypeOK, Height
        <4> QED
          BY <4>1, <4>2, <4>3
      <3>2. FindBlock(b) + 1 \in 1 .. Len(main)
        BY <2>1, <3>1, FindBlockDepth
      <3> QED
        BY <2>2, <2>4, <3>2 DEF TopInv, RecordedWork
    <2>5. CASE ~OnMain(b)
      <3>1. alt[b] # None
        BY <2>5 DEF Intact, Known, InAlt
      <3> QED
        BY <2>2, <2>3, <2>5, <3>1 DEF TopInv, RecordedWork
    <2> QED
      BY <2>4, <2>5
  <1> QED
    BY <1>1, <1>2, <1>3, PTL DEF Spec

\* What switches move is neither lost nor misplaced, for every acyclic block
\* tree, every difficulty and every set of refused blocks.
THEOREM SwitchesKeepBlocks ==
    ASSUME BlocksAssumption, NEW CONSTANT Depth, DepthOfBlocks(Depth)
    PROVE  Spec => []BlocksAreKept
  <1>1. BlocksAreKept <=> Linked /\ HeaviestIntact
    BY DEF BlocksAreKept
  <1> QED
    BY <1>1, EveryBlockOnItsParent, MainChainIsHeaviest, PTL
=============================================================================
