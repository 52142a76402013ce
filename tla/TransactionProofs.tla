-------------------------- MODULE TransactionProofs --------------------------
(***************************************************************************)
(* Making a transaction.  The key exchange of Multisig, for any number of     *)
(* signers: what is agreed on depends on the messages of the first round only. *)
(* Spending, for any coins, amounts and priorities: a transaction balances,     *)
(* pays its fee, never runs short of what was selected for it, and what came in *)
(* is in the purse or has gone out.  ChainRules, for any chain, windows and     *)
(* amounts: the rules a block and a transaction are measured by.  Oracle, for any *)
(* prices, amounts and roundings: what is converted, and what a record says.    *)
(* Admission, for any rules, times and fees: what is let in stays so.  Enotes, for *)
(* any wallets, subaddresses and amounts: what is sent is found by its receiver.   *)
(***************************************************************************)
EXTENDS Multisig, Spending, ChainRules, Oracle, Admission, Enotes,
        FiniteSetTheorems, SequenceTheorems, WellFoundedInduction, TLAPS

-----------------------------------------------------------------------------
(***************************************************************************)
(* The key exchange                                                         *)
(***************************************************************************)
\* The signers and the public spend keys they really have.
RightKeys(i) == [j \in Signers \ {i} |-> j]

\* What a signer that began with the right messages keeps through the later
\* rounds, and has at the end.
SignerInv(i) ==
    /\ KexComplete(i) <=> kexRound[i] > KexRoundsRequired
    /\ kexRound[i] > 1 => known[i] \in [Signers \ {i} -> AllKeys]
    /\ i \in beganRight => kexRound[i] > 1 /\ known[i] = RightKeys(i)
    /\ KexComplete(i) /\ i \in beganRight =>
          /\ spendKey[i] = Signers
          /\ \A j \in Signers \ {i} : {i, j} \in shares[i]

KexInv ==
    /\ KexTypeOK
    /\ known = [i \in Signers |-> known[i]]
    /\ \A i \in Signers : SignerInv(i)

\* There are at least two rounds: the signers are known before the last one.
LEMMA TwoRounds ==
    ASSUME SignersAssumption
    PROVE  KexRoundsRequired \in Nat /\ KexRoundsRequired >= 2
  BY FS_CardinalityType DEF SignersAssumption, KexRoundsRequired

\* The accounts before initializeKex().
LEMMA KexInitInv == ASSUME SignersAssumption, KexInit PROVE KexInv
  <1>1. KexRoundsRequired \in Nat /\ KexRoundsRequired >= 2
    BY TwoRounds
  <1>2. KexTypeOK
    BY <1>1 DEF KexInit, KexTypeOK
  <1>3. ASSUME NEW i \in Signers PROVE SignerInv(i)
    BY <1>1 DEF KexInit, SignerInv, KexComplete
  <1>4. known = [i \in Signers |-> known[i]]
    BY DEF KexInit
  <1> QED
    BY <1>2, <1>3, <1>4 DEF KexInv

\* initializeKex() touches an account that has begun nothing.
LEMMA InitializeKexInv ==
    ASSUME SignersAssumption, KexInv, NEW i \in Signers, InitializeKex(i)
    PROVE  KexInv'
  <1>1. KexRoundsRequired \in Nat /\ KexRoundsRequired >= 2
    BY TwoRounds
  <1>2. KexTypeOK'
    <2>1. kexRound' \in [Signers -> 0 .. KexRoundsRequired + 1]
      BY <1>1 DEF KexInv, KexTypeOK, InitializeKex
    <2>2. sent' \in [Signers -> SUBSET (1 .. KexRoundsRequired)]
      BY <1>1 DEF KexInv, KexTypeOK, InitializeKex
    <2> QED
      BY <2>1, <2>2 DEF KexInv, KexTypeOK, InitializeKex, AllKeys, KexRoundsRequired
  <1>3. ASSUME NEW k \in Signers PROVE SignerInv(k)'
    <2>1. kexRound'[k] = IF k = i THEN 1 ELSE kexRound[k]
      BY DEF KexInv, KexTypeOK, InitializeKex
    <2>2. kexRound[i] = 0
      BY DEF InitializeKex
    <2>3. SignerInv(k) /\ SignerInv(i)
      BY DEF KexInv
    <2>4. UNCHANGED <<known, shares, spendKey, beganRight>>
      BY DEF InitializeKex
    <2>5. CASE k = i
      <3>1. kexRound'[i] = 1 /\ ~(1 > KexRoundsRequired) /\ ~(0 > KexRoundsRequired)
        BY <1>1, <2>1, <2>5
      <3>2. ~KexComplete(i) /\ i \notin beganRight
        BY <2>2, <2>3, <3>1 DEF SignerInv
      <3>3. ~KexComplete(i)' /\ i \notin beganRight'
        BY <2>4, <3>2 DEF KexComplete
      <3> QED
        BY <2>5, <3>1, <3>3 DEF SignerInv, KexRoundsRequired
    <2>6. CASE k # i
      <3>1. kexRound'[k] = kexRound[k]
        BY <2>1, <2>6
      <3> QED
        BY <2>3, <2>4, <3>1
        DEF SignerInv, KexComplete, KexRoundsRequired, AllKeys, RightKeys
    <2> QED
      BY <2>5, <2>6
  <1> QED
    BY <1>2, <1>3 DEF KexInv, InitializeKex

\* The signers an account has after a round are keys, and those it began with
\* when it began with the right ones.
LEMMA SignersFromTyped ==
    ASSUME SignersAssumption, KexInv, NEW i \in Signers,
           NEW picked \in [Signers \ {i} -> 1 .. KexRoundsRequired],
           kexRound[i] > 0
    PROVE  /\ SignersFrom(i, picked) \in [Signers \ {i} -> AllKeys]
           /\ i \in beganRight => SignersFrom(i, picked) = RightKeys(i)
           /\ kexRound[i] = 1 /\ (\A j \in Signers \ {i} : picked[j] = 1)
                 => SignersFrom(i, picked) = RightKeys(i)
  <1>1. SignerInv(i) /\ kexRound[i] \in Nat
    BY TwoRounds DEF KexInv, KexTypeOK
  <1>2. CASE kexRound[i] = 1
    <2>1. SignersFrom(i, picked) = [j \in Signers \ {i} |-> KeyIn(j, picked[j])]
      BY <1>2 DEF SignersFrom
    <2>2. \A j \in Signers \ {i} : KeyIn(j, picked[j]) \in AllKeys
      BY DEF KeyIn, AllKeys
    <2>3. i \notin beganRight
      BY <1>1, <1>2 DEF SignerInv
    <2>4. ASSUME \A j \in Signers \ {i} : picked[j] = 1
          PROVE  [j \in Signers \ {i} |-> KeyIn(j, picked[j])] = RightKeys(i)
      BY <2>4 DEF KeyIn, RightKeys
    <2> QED
      BY <2>1, <2>2, <2>3, <2>4
  <1>3. CASE kexRound[i] # 1
    <2>1. SignersFrom(i, picked) = known[i] /\ kexRound[i] > 1
      BY <1>1, <1>3 DEF SignersFrom
    <2> QED
      BY <1>1, <1>3, <2>1 DEF SignerInv
  <1> QED
    BY <1>2, <1>3

\* updateKex(), with any messages that were sent.
LEMMA UpdateKexInv ==
    ASSUME SignersAssumption, KexInv, NEW i \in Signers,
           NEW picked \in [Signers \ {i} -> 1 .. KexRoundsRequired],
           UpdateKex(i, picked)
    PROVE  KexInv'
  <1> DEFINE theirs == SignersFrom(i, picked)
  <1>1. KexRoundsRequired \in Nat /\ KexRoundsRequired >= 2
    BY TwoRounds
  <1>2. SignerInv(i) /\ kexRound[i] \in Nat /\ kexRound[i] > 0
    BY <1>1 DEF KexInv, KexTypeOK, UpdateKex
  <1>3. /\ theirs \in [Signers \ {i} -> AllKeys]
        /\ i \in beganRight => theirs = RightKeys(i)
        /\ kexRound[i] = 1 /\ (\A j \in Signers \ {i} : picked[j] = 1)
              => theirs = RightKeys(i)
    BY <1>2, SignersFromTyped
  <1>4. /\ known' = [known EXCEPT ![i] = theirs]
        /\ shares' = [shares EXCEPT ![i] = {{i, theirs[j]} : j \in Signers \ {i}}]
        /\ kexRound' = [kexRound EXCEPT ![i] = @ + 1]
    BY DEF UpdateKex
  <1>5. kexRound[i] <= KexRoundsRequired
    BY <1>1, <1>2 DEF UpdateKex, SignerInv
  <1>6. beganRight' \subseteq beganRight \union {i} /\ beganRight \subseteq beganRight'
    BY DEF UpdateKex
  <1>7. i \in beganRight' => theirs = RightKeys(i)
    BY <1>3 DEF UpdateKex
  <1> HIDE DEF theirs
  <1>8. SpendKey(i, theirs) \subseteq AllKeys /\ SpendKey(i, theirs) # {}
    BY <1>3 DEF SpendKey, AllKeys
  <1>9. \/ /\ kexRound[i] + 1 > KexRoundsRequired
           /\ spendKey' = [spendKey EXCEPT ![i] = SpendKey(i, theirs)]
           /\ viewKey' = [viewKey EXCEPT ![i] = {i}]
           /\ UNCHANGED sent
        \/ /\ ~(kexRound[i] + 1 > KexRoundsRequired)
           /\ sent' = [sent EXCEPT ![i] = @ \union {kexRound[i] + 1}]
           /\ UNCHANGED <<spendKey, viewKey>>
    BY DEF UpdateKex, theirs
  <1>10. KexTypeOK'
    <2>1. kexRound' \in [Signers -> 0 .. KexRoundsRequired + 1]
      BY <1>1, <1>2, <1>4, <1>5 DEF KexInv, KexTypeOK
    <2>2. sent' \in [Signers -> SUBSET (1 .. KexRoundsRequired)]
      <3>1. sent \in [Signers -> SUBSET (1 .. KexRoundsRequired)]
        BY DEF KexInv, KexTypeOK
      <3>2. CASE UNCHANGED sent
        BY <3>1, <3>2
      <3>3. CASE /\ ~(kexRound[i] + 1 > KexRoundsRequired)
                 /\ sent' = [sent EXCEPT ![i] = @ \union {kexRound[i] + 1}]
        <4>1. kexRound[i] + 1 \in 1 .. KexRoundsRequired
          BY <1>1, <1>2, <3>3
        <4> QED
          BY <3>1, <3>3, <4>1
      <3> QED
        BY <1>9, <3>2, <3>3
    <2>3. shares' \in [Signers -> SUBSET SUBSET AllKeys]
      <3>1. {{i, theirs[j]} : j \in Signers \ {i}} \subseteq SUBSET AllKeys
        BY <1>3 DEF AllKeys
      <3> QED
        BY <1>4, <3>1 DEF KexInv, KexTypeOK
    <2>4. spendKey' \in [Signers -> SUBSET AllKeys]
      <3>1. spendKey \in [Signers -> SUBSET AllKeys]
        BY DEF KexInv, KexTypeOK
      <3> QED
        BY <1>8, <1>9, <3>1
    <2>5. viewKey' \in [Signers -> SUBSET Signers]
      BY <1>9 DEF KexInv, KexTypeOK
    <2>6. beganRight' \subseteq Signers
      BY <1>6 DEF KexInv, KexTypeOK
    <2>7. ASSUME NEW k \in Signers
          PROVE  known'[k] = <<>> \/ known'[k] \in [Signers \ {k} -> AllKeys]
      <3>1. CASE k = i /\ i \in DOMAIN known
        BY <1>3, <1>4, <3>1
      <3>2. CASE ~(k = i /\ i \in DOMAIN known)
        <4>1. known'[k] = known[k]
          BY <1>4, <3>2
        <4> QED
          BY <4>1 DEF KexInv, KexTypeOK
      <3> QED
        BY <3>1, <3>2
    <2> QED
      BY <2>1, <2>2, <2>3, <2>4, <2>5, <2>6, <2>7
      DEF KexTypeOK, AllKeys, KexRoundsRequired
  <1>11. ASSUME NEW k \in Signers, k # i PROVE SignerInv(k)'
    <2>1. /\ kexRound'[k] = kexRound[k] /\ shares'[k] = shares[k]
          /\ spendKey'[k] = spendKey[k]
      BY <1>4, <1>9, <1>11 DEF KexInv, KexTypeOK
    <2>2. known'[k] = known[k] /\ (k \in beganRight' => k \in beganRight)
      BY <1>4, <1>6, <1>11
    <2>3. SignerInv(k)
      BY DEF KexInv
    <2> QED
      BY <2>1, <2>2, <2>3 DEF SignerInv, KexComplete, KexRoundsRequired, AllKeys, RightKeys
  <1>12. SignerInv(i)'
    <2>1. kexRound'[i] = kexRound[i] + 1
      BY <1>4 DEF KexInv, KexTypeOK
    <2>2. kexRound[i] > 1 \/ i \notin beganRight \/ ~(kexRound[i] + 1 > KexRoundsRequired)
      BY <1>1, <1>2
    <2>3. known'[i] = theirs
      <3>1. i \in DOMAIN known
        BY DEF KexInv
      <3> QED
        BY <1>4, <3>1
    <2>4. shares'[i] = {{i, theirs[j]} : j \in Signers \ {i}}
      BY <1>4 DEF KexInv, KexTypeOK
    <2>5. KexComplete(i)' <=> kexRound[i] + 1 > KexRoundsRequired
      <3>1. spendKey[i] = {}
        BY DEF UpdateKex, KexComplete
      <3> QED
        BY <1>8, <1>9, <3>1 DEF KexInv, KexTypeOK, KexComplete
    <2>6. ASSUME KexComplete(i)', i \in beganRight'
          PROVE  spendKey'[i] = Signers /\ \A j \in Signers \ {i} : {i, j} \in shares'[i]
      <3>1. theirs = RightKeys(i)
        BY <1>7, <2>6
      <3>2. spendKey'[i] = SpendKey(i, theirs)
        BY <1>9, <2>5, <2>6 DEF KexInv, KexTypeOK
      <3>3. SpendKey(i, RightKeys(i)) = Signers
        BY DEF SpendKey, RightKeys
      <3>4. \A j \in Signers \ {i} : theirs[j] = j
        BY <3>1 DEF RightKeys
      <3> QED
        BY <2>4, <3>1, <3>2, <3>3, <3>4
    <2>7. i \in beganRight' => kexRound'[i] > 1 /\ known'[i] = RightKeys(i)
      BY <1>2, <1>7, <2>1, <2>3
    <2>8. KexComplete(i)' <=> kexRound'[i] > KexRoundsRequired
      BY <2>1, <2>5
    <2>9. known'[i] \in [Signers \ {i} -> AllKeys]
      BY <1>3, <2>3
    <2> QED
      BY <2>6, <2>7, <2>8, <2>9 DEF SignerInv, KexRoundsRequired, AllKeys, RightKeys
  <1>13. known' = [k \in Signers |-> known'[k]]
    BY <1>4 DEF KexInv
  <1> QED
    BY <1>10, <1>11, <1>12, <1>13 DEF KexInv

-----------------------------------------------------------------------------
\* Every step of every signer.
LEMMA KexStep ==
    ASSUME SignersAssumption, KexInv, [KexNext]_kexVars
    PROVE  KexInv'
  <1>1. CASE UNCHANGED kexVars
    BY <1>1 DEF kexVars, KexInv, KexTypeOK, SignerInv, KexComplete, KexRoundsRequired,
                AllKeys, RightKeys
  <1>2. ASSUME NEW i \in Signers, InitializeKex(i) PROVE KexInv'
    BY <1>2, InitializeKexInv
  <1>3. ASSUME NEW i \in Signers, NEW picked \in [Signers \ {i} -> 1 .. KexRoundsRequired],
               UpdateKex(i, picked)
        PROVE  KexInv'
    BY <1>3, UpdateKexInv
  <1> QED
    BY <1>1, <1>2, <1>3 DEF KexNext

\* What an account has stays within its types: it never goes past the last
\* round, and is complete exactly when it has done it.
THEOREM KexTypeCorrect == KexSpec => []KexTypeOK
  <1>1. KexInit => KexInv
    BY SignersAssumption, KexInitInv
  <1>2. KexInv /\ [KexNext]_kexVars => KexInv'
    BY SignersAssumption, KexStep
  <1>3. KexInv => KexTypeOK
    BY DEF KexInv
  <1> QED
    BY <1>1, <1>2, <1>3, PTL DEF KexSpec

\* However many signers there are and whatever messages come in the later
\* rounds: those that began with the right ones end with the same key, the sum
\* of all, and share a key with each other (updateKex(), _finalizeKex()).
THEOREM SignersAgree == KexSpec => []KexAgrees
  <1>1. KexInit => KexInv
    BY SignersAssumption, KexInitInv
  <1>2. KexInv /\ [KexNext]_kexVars => KexInv'
    BY SignersAssumption, KexStep
  <1>3. KexInv => KexAgrees
    <2> SUFFICES ASSUME KexInv, NEW i \in Signers, NEW j \in Signers,
                        KexComplete(i), KexComplete(j), {i, j} \subseteq beganRight
                 PROVE  /\ spendKey[i] = Signers /\ spendKey[i] = spendKey[j]
                        /\ i # j => {i, j} \in shares[i] \intersect shares[j]
      BY DEF KexAgrees
    <2>1. SignerInv(i) /\ SignerInv(j)
      BY DEF KexInv
    <2>2. {i, j} = {j, i}
      OBVIOUS
    <2> QED
      BY <2>1, <2>2 DEF SignerInv
  <1> QED
    BY <1>1, <1>2, <1>3, PTL DEF KexSpec

-----------------------------------------------------------------------------
(***************************************************************************)
(* Spending: lists of coins and what they are worth                          *)
(***************************************************************************)

\* A set that holds 0 and the successor of each of its naturals holds them all.
LEMMA InductiveSet ==
    ASSUME NEW T, 0 \in T, \A n \in Nat : n \in T => n + 1 \in T
    PROVE  Nat \subseteq T
  <1> DEFINE Missing == Nat \ T
  <1> SUFFICES ASSUME Missing # {} PROVE FALSE
    OBVIOUS
  <1>1. PICK n \in Missing : \A m \in Missing : ~(<<m, n>> \in OpToRel(<, Nat))
    BY NatLessThanWellFounded, WFMin
  <1>2. \A m \in Missing : ~(m < n)
    BY <1>1 DEF OpToRel
  <1>3. n # 0 /\ n \in Nat
    OBVIOUS
  <1>4. n - 1 \in Nat /\ n - 1 < n /\ (n - 1) + 1 = n
    BY <1>3
  <1>5. n - 1 \in T
    BY <1>2, <1>4
  <1> QED
    BY <1>4, <1>5

\* A list of n records with amounts.
Amounts(s) == Len(s) \in Nat /\ DOMAIN s = 1 .. Len(s) /\ \A i \in 1 .. Len(s) : s[i].amount \in Int

\* f is the running sum of the amounts of s.
Sums(f, s) ==
    /\ f \in [0 .. Len(s) -> Int]
    /\ f[0] = 0
    /\ \A i \in 1 .. Len(s) : f[i] = f[i - 1] + s[i].amount

\* A list has a running sum.
LEMMA SumExists ==
    ASSUME NEW s, Amounts(s)
    PROVE  \E f : Sums(f, s)
  <1> DEFINE n == Len(s)
             Follows(f, m) == f[0] = 0 /\ \A i \in 1 .. m : f[i] = f[i - 1] + s[i].amount
             T == {m \in Nat : m <= n => \E f \in [0 .. m -> Int] : Follows(f, m)}
  <1>1. n \in Nat /\ \A i \in 1 .. n : s[i].amount \in Int
    BY DEF Amounts
  <1>2. 0 \in T
    <2>1. [i \in 0 .. 0 |-> 0] \in [0 .. 0 -> Int] /\ Follows([i \in 0 .. 0 |-> 0], 0)
      OBVIOUS
    <2> QED
      BY <2>1
  <1>3. ASSUME NEW m \in Nat, m \in T PROVE m + 1 \in T
    <2> HIDE DEF Follows
    <2> SUFFICES ASSUME m + 1 <= n PROVE \E f \in [0 .. m + 1 -> Int] : Follows(f, m + 1)
      OBVIOUS
    <2>1. PICK f \in [0 .. m -> Int] : Follows(f, m)
      BY <1>1, <1>3
    <2> USE DEF Follows
    <2> DEFINE last == f[m] + s[m + 1].amount
               e == [i \in 0 .. m + 1 |-> IF i = m + 1 THEN last ELSE f[i]]
    <2>2. m \in 0 .. m /\ m + 1 \in 1 .. n
      BY <1>1
    <2>3. last \in Int
      BY <1>1, <2>2
    <2> HIDE DEF last
    <2>4. \A i \in 0 .. m + 1 : i # m + 1 => i \in 0 .. m /\ f[i] \in Int
      OBVIOUS
    <2>5. e \in [0 .. m + 1 -> Int]
      BY <2>3, <2>4
    <2>6. e[m + 1] = last /\ \A i \in 0 .. m : e[i] = f[i]
      OBVIOUS
    <2> HIDE DEF e
    <2>7. ASSUME NEW i \in 1 .. m + 1 PROVE e[i] = e[i - 1] + s[i].amount
      <3>1. CASE i = m + 1
        <4>1. i - 1 = m
          BY <3>1
        <4> QED
          BY <2>2, <2>6, <3>1, <4>1 DEF last
      <3>2. CASE i \in 1 .. m
        <4>1. i \in 0 .. m /\ i - 1 \in 0 .. m
          BY <3>2
        <4> QED
          BY <2>1, <2>6, <3>2, <4>1
      <3> QED
        BY <3>1, <3>2
    <2>8. e[0] = 0
      BY <2>1, <2>6
    <2> QED
      BY <2>5, <2>7, <2>8
  <1> HIDE DEF T
  <1>4. n \in T
    BY <1>1, <1>2, <1>3, InductiveSet
  <1> QED
    BY <1>1, <1>4 DEF T, Sums

\* What a list is worth is the last of its running sum.
LEMMA WorthIsSum ==
    ASSUME NEW s, Amounts(s), NEW f, Sums(f, s)
    PROVE  Worth(s) = f[Len(s)] /\ Worth(s) \in Int
  <1> DEFINE n == Len(s)
             Flat(g) == g = [i \in 0 .. n |-> IF i = 0 THEN 0 ELSE g[i - 1] + s[i].amount]
             c == CHOOSE g : Flat(g)
  <1>1. n \in Nat
    BY DEF Amounts
  <1>2. f \in [0 .. n -> Int] /\ f[0] = 0 /\ \A i \in 1 .. n : f[i] = f[i - 1] + s[i].amount
    BY DEF Sums
  <1>3. Flat(c)
    <2>1. \A i \in 0 .. n : i # 0 => i \in 1 .. n
      BY <1>1
    <2>2. \A i \in 0 .. n : f[i] = IF i = 0 THEN 0 ELSE f[i - 1] + s[i].amount
      BY <1>2, <2>1
    <2>3. f = [i \in 0 .. n |-> f[i]]
      BY <1>2
    <2>4. Flat(f)
      BY <2>2, <2>3
    <2> QED
      BY <2>4
  <1>4. Worth(s) = c[n]
    BY DEF Worth
  <1> HIDE DEF c, n
  <1>5. \A i \in 0 .. n : c[i] = f[i]
    <2> DEFINE T == {m \in Nat : m <= n => c[m] = f[m]}
    <2>1. 0 \in T
      BY <1>1, <1>2, <1>3
    <2>2. ASSUME NEW m \in Nat, m \in T PROVE m + 1 \in T
      <3> SUFFICES ASSUME m + 1 <= n PROVE c[m + 1] = f[m + 1]
        OBVIOUS
      <3> DEFINE p == m + 1
      <3>1. p \in 1 .. n /\ p \in 0 .. n /\ p # 0 /\ p - 1 = m /\ m <= n
        BY <1>1
      <3>2. c[m] = f[m]
        BY <2>2, <3>1
      <3> HIDE DEF p
      <3>3. c[p] = c[p - 1] + s[p].amount /\ f[p] = f[p - 1] + s[p].amount
        BY <1>2, <1>3, <3>1
      <3>4. c[p] = f[p]
        BY <3>1, <3>2, <3>3
      <3> QED
        BY <3>4 DEF p
    <2> HIDE DEF T
    <2>3. Nat \subseteq T
      BY <2>1, <2>2, InductiveSet
    <2> QED
      BY <1>1, <2>3 DEF T
  <1>6. n \in 0 .. n
    BY <1>1
  <1> QED
    BY <1>2, <1>4, <1>5, <1>6 DEF n

\* Nothing is worth nothing.
LEMMA WorthOfNone == Worth(<<>>) = 0
  <1>1. Amounts(<<>>)
    BY DEF Amounts
  <1>2. PICK f : Sums(f, <<>>)
    BY <1>1, SumExists
  <1>3. Worth(<<>>) = f[Len(<<>>)]
    BY <1>1, <1>2, WorthIsSum
  <1> QED
    BY <1>2, <1>3 DEF Sums

\* One record is worth its amount.
LEMMA WorthOfOne ==
    ASSUME NEW c, c.amount \in Int
    PROVE  Amounts(<<c>>) /\ Worth(<<c>>) = c.amount
  <1>1. Amounts(<<c>>)
    BY DEF Amounts
  <1>2. PICK f : Sums(f, <<c>>)
    BY <1>1, SumExists
  <1>3. Worth(<<c>>) = f[Len(<<c>>)]
    BY <1>1, <1>2, WorthIsSum
  <1>4. f[1] = f[0] + c.amount /\ f[0] = 0
    BY <1>2 DEF Sums
  <1> QED
    BY <1>1, <1>3, <1>4

\* Two lists one after the other are worth what both are.
LEMMA WorthOfBoth ==
    ASSUME NEW s, NEW t, Amounts(s), Amounts(t), NEW S, s \in Seq(S), t \in Seq(S)
    PROVE  /\ Amounts(s \o t)
           /\ Worth(s \o t) = Worth(s) + Worth(t)
           /\ Worth(s) \in Int /\ Worth(t) \in Int
  <1> DEFINE n == Len(s)
             m == Len(t)
             b == s \o t
  <1>1. n \in Nat /\ m \in Nat /\ \A i \in 1 .. n : s[i].amount \in Int
    BY DEF Amounts
  <1>2. /\ Len(b) = n + m /\ DOMAIN b = 1 .. n + m
        /\ \A i \in 1 .. n + m : b[i] = IF i <= n THEN s[i] ELSE t[i - n]
    BY ConcatProperties
  <1>3. \A i \in 1 .. m : t[i].amount \in Int
    BY DEF Amounts
  <1>4. PICK f : Sums(f, s)
    BY SumExists
  <1>5. PICK g : Sums(g, t)
    BY SumExists
  <1>6. Worth(s) = f[n] /\ Worth(t) = g[m] /\ Worth(s) \in Int /\ Worth(t) \in Int
    BY <1>4, <1>5, WorthIsSum
  <1>7. /\ f \in [0 .. n -> Int] /\ f[0] = 0 /\ \A i \in 1 .. n : f[i] = f[i - 1] + s[i].amount
        /\ g \in [0 .. m -> Int] /\ g[0] = 0 /\ \A i \in 1 .. m : g[i] = g[i - 1] + t[i].amount
    BY <1>4, <1>5 DEF Sums
  <1> HIDE DEF n, m, b
  <1>8. \A i \in 1 .. n + m : i <= n \/ i - n \in 1 .. m
    BY <1>1
  <1>9. Amounts(b)
    <2>1. ASSUME NEW i \in 1 .. n + m PROVE b[i].amount \in Int
      <3>1. CASE i <= n
        <4>1. i \in 1 .. n /\ b[i] = s[i]
          BY <1>1, <1>2, <3>1
        <4> QED
          BY <1>1, <4>1
      <3>2. CASE ~(i <= n)
        <4>1. i - n \in 1 .. m /\ b[i] = t[i - n]
          BY <1>1, <1>2, <3>2
        <4> QED
          BY <1>3, <4>1
      <3> QED
        BY <3>1, <3>2
    <2> QED
      BY <1>1, <1>2, <2>1 DEF Amounts
  <1> DEFINE h == [i \in 0 .. n + m |-> IF i <= n THEN f[i] ELSE f[n] + g[i - n]]
  <1>10. h \in [0 .. n + m -> Int]
    <2>1. \A i \in 0 .. n + m : i <= n => i \in 0 .. n /\ f[i] \in Int
      BY <1>1, <1>7
    <2>2. \A i \in 0 .. n + m : ~(i <= n) => i - n \in 0 .. m /\ f[n] \in Int /\ g[i - n] \in Int
      BY <1>1, <1>7
    <2> QED
      BY <2>1, <2>2
  <1>11. /\ \A i \in 0 .. n : h[i] = f[i]
         /\ \A i \in 0 .. n + m : i > n => h[i] = f[n] + g[i - n]
    BY <1>1
  <1> HIDE DEF h
  <1>12. \A i \in 0 .. n + m : i >= n => h[i] = f[n] + g[i - n]
    <2>1. h[n] = f[n] /\ f[n] \in Int /\ n - n = 0
      BY <1>1, <1>7, <1>11
    <2>2. h[n] = f[n] + g[n - n]
      BY <1>7, <2>1
    <2> QED
      BY <1>1, <1>11, <2>2
  <1>13. ASSUME NEW i \in 1 .. n + m PROVE h[i] = h[i - 1] + b[i].amount
    <2>1. CASE i <= n
      <3>1. i \in 1 .. n /\ i \in 0 .. n /\ i - 1 \in 0 .. n
        BY <1>1, <2>1
      <3>2. b[i] = s[i]
        BY <1>2, <2>1
      <3> QED
        BY <1>7, <1>11, <3>1, <3>2
    <2>2. CASE ~(i <= n)
      <3> DEFINE j == i - n
                 p == i - 1
      <3>1. /\ j \in 1 .. m /\ i \in 0 .. n + m /\ i >= n /\ p \in 0 .. n + m /\ p >= n
            /\ p - n = j - 1 /\ n \in 0 .. n /\ j - 1 \in 0 .. m
        BY <1>1, <2>2
      <3>2. b[i] = t[j]
        BY <1>2, <2>2
      <3>3. h[i] = f[n] + g[j] /\ h[p] = f[n] + g[p - n]
        BY <1>12, <3>1
      <3> HIDE DEF j, p
      <3>4. g[j] = g[j - 1] + t[j].amount /\ f[n] \in Int /\ g[j - 1] \in Int /\ t[j].amount \in Int
        BY <1>3, <1>7, <3>1
      <3>5. h[p] = f[n] + g[j - 1]
        BY <3>1, <3>3
      <3>6. h[i] = h[p] + t[j].amount
        BY <3>3, <3>4, <3>5
      <3> QED
        BY <3>2, <3>6 DEF p
    <2> QED
      BY <2>1, <2>2
  <1>14. h[0] = 0
    BY <1>1, <1>7, <1>11
  <1>15. Sums(h, b)
    BY <1>2, <1>10, <1>13, <1>14 DEF Sums
  <1>16. Worth(b) = h[n + m]
    BY <1>2, <1>9, <1>15, WorthIsSum
  <1>17. h[n + m] = f[n] + g[m]
    <2>1. n + m \in 0 .. n + m /\ n + m >= n /\ (n + m) - n = m
      BY <1>1
    <2> QED
      BY <1>12, <2>1
  <1> QED
    BY <1>6, <1>9, <1>16, <1>17 DEF b

\* s lists every element of S once.
Lists(s, S) ==
    /\ Len(s) \in Nat /\ s \in [1 .. Len(s) -> S]
    /\ \A i, j \in 1 .. Len(s) : s[i] = s[j] => i = j
    /\ \A x \in S : \E i \in 1 .. Len(s) : s[i] = x

\* Records with amounts.
HaveAmounts(S) == \A x \in S : x.amount \in Int

\* A list of records with amounts has amounts.
LEMMA ListHasAmounts ==
    ASSUME NEW S, HaveAmounts(S), NEW n \in Nat, NEW s \in [1 .. n -> S]
    PROVE  Amounts(s) /\ s \in Seq(S) /\ Len(s) = n
  BY DEF HaveAmounts, Amounts

\* A list without what its place j holds: the others move up.
Spared(t, m, j) == [i \in 1 .. m |-> IF i < j THEN t[i] ELSE t[i + 1]]

\* It is worth so much less.
LEMMA SparedIsWorthLess ==
    ASSUME NEW S, HaveAmounts(S), NEW m \in Nat, NEW t \in [1 .. m + 1 -> S], NEW j \in 1 .. m + 1
    PROVE  /\ Spared(t, m, j) \in [1 .. m -> S]
           /\ Worth(t) = Worth(Spared(t, m, j)) + t[j].amount
  <1> DEFINE n == m + 1 - j
             k == j - 1
             a == [i \in 1 .. k |-> t[i]]
             b == [i \in 1 .. n |-> t[i + j]]
             x == t[j]
             u == Spared(t, m, j)
  <1>1. n \in Nat /\ k \in Nat /\ k + n = m /\ k + 1 = j /\ j \in Nat
    OBVIOUS
  <1>2. /\ \A i \in 1 .. k : i \in 1 .. m + 1
        /\ \A i \in 1 .. n : i + j \in 1 .. m + 1
        /\ \A i \in 1 .. m + 1 : t[i] \in S
        /\ x \in S
    OBVIOUS
  <1>3. a \in [1 .. k -> S] /\ b \in [1 .. n -> S]
    BY <1>2
  <1>4. u \in [1 .. m -> S]
    <2>1. \A i \in 1 .. m : i \in 1 .. m + 1 /\ i + 1 \in 1 .. m + 1
      OBVIOUS
    <2> QED
      BY <1>2, <2>1 DEF Spared
  <1>5. /\ Amounts(a) /\ a \in Seq(S) /\ Len(a) = k
        /\ Amounts(b) /\ b \in Seq(S) /\ Len(b) = n
    <2> HIDE DEF a, b, n, k
    <2> QED
      BY <1>1, <1>3, ListHasAmounts
  <1>6. \A i \in 1 .. k : a[i] = t[i]
    OBVIOUS
  <1>7. \A i \in 1 .. n : b[i] = t[i + j]
    OBVIOUS
  <1> HIDE DEF a, b, n, k
  <1>8. a \o b = u
    <2>1. /\ a \o b \in Seq(S) /\ Len(a \o b) = k + n
          /\ \A i \in 1 .. k + n : (a \o b)[i] = IF i <= k THEN a[i] ELSE b[i - k]
      BY <1>5, ConcatProperties
    <2> DEFINE c == a \o b
    <2>3. c \in Seq(S) /\ Len(c) = m /\ \A i \in 1 .. m : c[i] = IF i <= k THEN a[i] ELSE b[i - k]
      BY <1>1, <2>1
    <2> HIDE DEF c
    <2>2. c = [i \in 1 .. m |-> c[i]]
      BY <2>3
    <2>4. \A i \in 1 .. m : c[i] = IF i < j THEN t[i] ELSE t[i + 1]
      <3> SUFFICES ASSUME NEW i \in 1 .. m PROVE c[i] = IF i < j THEN t[i] ELSE t[i + 1]
        OBVIOUS
      <3>1. CASE i < j
        <4>1. i \in 1 .. k /\ i <= k
          BY <1>1, <3>1
        <4> QED
          BY <1>6, <2>3, <3>1, <4>1
      <3>2. CASE ~(i < j)
        <4>1. i - k \in 1 .. n /\ (i - k) + j = i + 1 /\ ~(i <= k)
          BY <1>1, <3>2
        <4> QED
          BY <1>7, <2>3, <3>2, <4>1
      <3> QED
        BY <3>1, <3>2
    <2>5. c = [i \in 1 .. m |-> IF i < j THEN t[i] ELSE t[i + 1]]
      BY <2>2, <2>4
    <2> QED
      BY <2>5 DEF c, Spared
  <1>9. (a \o <<x>>) \o b = t
    <2> DEFINE d == a \o <<x>>
               e == d \o b
    <2>1. <<x>> \in Seq(S) /\ Len(<<x>>) = 1 /\ <<x>>[1] = x
      BY <1>2
    <2>2. /\ d \in Seq(S) /\ Len(d) = k + 1
          /\ \A i \in 1 .. k + 1 : d[i] = IF i <= k THEN a[i] ELSE <<x>>[i - k]
      BY <1>5, <2>1, ConcatProperties
    <2> HIDE DEF d
    <2>3. /\ e \in Seq(S) /\ Len(e) = (k + 1) + n
          /\ \A i \in 1 .. (k + 1) + n : e[i] = IF i <= k + 1 THEN d[i] ELSE b[i - (k + 1)]
      BY <1>1, <1>5, <2>2, ConcatProperties
    <2> HIDE DEF e
    <2>4. (k + 1) + n = m + 1
      BY <1>1
    <2>5. ASSUME NEW i \in 1 .. m + 1 PROVE e[i] = t[i]
      <3>1. CASE i <= k
        <4>1. i \in 1 .. k /\ i \in 1 .. k + 1 /\ i <= k + 1 /\ i \in 1 .. (k + 1) + n
          BY <1>1, <2>4, <3>1
        <4> QED
          BY <1>6, <2>2, <2>3, <3>1, <4>1
      <3>2. CASE i = k + 1
        <4>1. i \in 1 .. k + 1 /\ ~(i <= k) /\ i - k = 1 /\ i \in 1 .. (k + 1) + n /\ i <= k + 1 /\ i = j
          BY <1>1, <2>4, <3>2
        <4>2. e[i] = d[i] /\ d[i] = <<x>>[i - k]
          BY <2>2, <2>3, <4>1
        <4> QED
          BY <2>1, <4>1, <4>2
      <3>3. CASE i > k + 1
        <4>1. /\ i - (k + 1) \in 1 .. n /\ (i - (k + 1)) + j = i
              /\ ~(i <= k + 1) /\ i \in 1 .. (k + 1) + n
          BY <1>1, <2>4, <3>3
        <4>2. e[i] = b[i - (k + 1)]
          BY <2>3, <4>1
        <4> QED
          BY <1>7, <4>1, <4>2
      <3> QED
        BY <1>1, <3>1, <3>2, <3>3
    <2>6. e = [i \in 1 .. m + 1 |-> e[i]]
      BY <2>3, <2>4
    <2>7. e = t
      BY <2>5, <2>6
    <2> QED
      BY <2>7 DEF e, d
  <1> HIDE DEF u, x
  <1>10. Worth(a \o b) = Worth(a) + Worth(b) /\ Worth(a) \in Int /\ Worth(b) \in Int
    BY <1>5, WorthOfBoth
  <1>11. /\ Amounts(<<x>>) /\ Worth(<<x>>) = x.amount /\ x.amount \in Int
         /\ <<x>> \in Seq(S)
    BY <1>2, WorthOfOne DEF HaveAmounts
  <1>12. /\ Amounts(a \o <<x>>) /\ a \o <<x>> \in Seq(S)
         /\ Worth(a \o <<x>>) = Worth(a) + x.amount
    BY <1>5, <1>11, WorthOfBoth, ConcatProperties
  <1>13. Worth((a \o <<x>>) \o b) = Worth(a \o <<x>>) + Worth(b)
    BY <1>5, <1>12, WorthOfBoth
  <1>14. Worth(t) = Worth(u) + x.amount
    <2>1. Worth(t) = (Worth(a) + x.amount) + Worth(b)
      BY <1>9, <1>12, <1>13
    <2>2. Worth(u) = Worth(a) + Worth(b)
      BY <1>8, <1>10
    <2> DEFINE va == Worth(a)
               vb == Worth(b)
               vx == x.amount
    <2>3. va \in Int /\ vb \in Int /\ vx \in Int
      BY <1>10, <1>11
    <2>4. Worth(t) = (va + vx) + vb /\ Worth(u) = va + vb
      BY <2>1, <2>2
    <2> HIDE DEF va, vb, vx
    <2>5. (va + vx) + vb = (va + vb) + vx
      BY <2>3
    <2> QED
      BY <2>4, <2>5 DEF vx
  <1> QED
    BY <1>4, <1>14 DEF u, x

\* Two lists of the same records are worth the same, in whatever order they are.
LEMMA OrderIsWorthNothing ==
    ASSUME NEW S, HaveAmounts(S), NEW s, NEW t, Lists(s, S), Lists(t, S), Len(s) = Len(t)
    PROVE  Worth(s) = Worth(t)
  <1> DEFINE Holds(f, m, x) == \E i \in 1 .. m : f[i] = x
             Once(f, m) == \A i, j \in 1 .. m : f[i] = f[j] => i = j
             Both(f, g, m) == \A x \in S : Holds(f, m, x) <=> Holds(g, m, x)
             T == {m \in Nat : \A f, g \in [1 .. m -> S] :
                      Once(f, m) /\ Once(g, m) /\ Both(f, g, m) => Worth(f) = Worth(g)}
  <1>1. 0 \in T
    <2>1. \A f, g \in [1 .. 0 -> S] : f = g
      OBVIOUS
    <2> QED
      BY <2>1
  <1>2. ASSUME NEW m \in Nat, m \in T PROVE m + 1 \in T
    <2> DEFINE n == m + 1
    <2>1. ASSUME NEW f \in [1 .. n -> S], NEW g \in [1 .. n -> S], Once(f, n), Once(g, n), Both(f, g, n)
          PROVE  Worth(f) = Worth(g)
      <3>1. n \in 1 .. n /\ f[n] \in S
        OBVIOUS
      <3>2. PICK j \in 1 .. n : g[j] = f[n]
        BY <2>1, <3>1
      <3> DEFINE x == f[n]
                 p == Spared(f, m, n)
                 q == Spared(g, m, j)
      <3>3. p \in [1 .. m -> S] /\ Worth(f) = Worth(p) + x.amount
        BY <3>1, SparedIsWorthLess
      <3>4. q \in [1 .. m -> S] /\ Worth(g) = Worth(q) + x.amount
        BY <3>2, SparedIsWorthLess
      <3>5. \A i \in 1 .. m : p[i] = f[i]
        BY DEF Spared
      <3>6. \A i \in 1 .. m : q[i] = IF i < j THEN g[i] ELSE g[i + 1]
        BY DEF Spared
      <3>7. \A i \in 1 .. m : i \in 1 .. n /\ i + 1 \in 1 .. n /\ i # n
        OBVIOUS
      <3>8. \A i \in 1 .. n : i # n => i \in 1 .. m
        OBVIOUS
      <3> HIDE DEF p, q, x, n
      <3>9. Once(p, m)
        BY <2>1, <3>5, <3>7
      <3>10. Once(q, m)
        <4> SUFFICES ASSUME NEW i \in 1 .. m, NEW k \in 1 .. m, q[i] = q[k] PROVE i = k
          OBVIOUS
        <4>1. CASE i < j /\ k < j
          BY <2>1, <3>6, <3>7, <4>1
        <4>2. CASE i < j /\ ~(k < j)
          <5>1. g[i] = g[k + 1]
            BY <3>6, <4>2
          <5>2. i = k + 1
            BY <2>1, <3>7, <5>1
          <5> QED
            BY <3>2, <4>2, <5>2
        <4>3. CASE ~(i < j) /\ k < j
          <5>1. g[k] = g[i + 1]
            BY <3>6, <4>3
          <5>2. k = i + 1
            BY <2>1, <3>7, <5>1
          <5> QED
            BY <3>2, <4>3, <5>2
        <4>4. CASE ~(i < j) /\ ~(k < j)
          <5>1. g[i + 1] = g[k + 1]
            BY <3>6, <4>4
          <5>2. i + 1 = k + 1
            BY <2>1, <3>7, <5>1
          <5> QED
            BY <5>2
        <4> QED
          BY <4>1, <4>2, <4>3, <4>4
      <3>11. \A y \in S : Holds(p, m, y) <=> Holds(f, n, y) /\ y # x
        <4> SUFFICES ASSUME NEW y \in S PROVE Holds(p, m, y) <=> Holds(f, n, y) /\ y # x
          OBVIOUS
        <4>1. ASSUME NEW i \in 1 .. m, p[i] = y PROVE Holds(f, n, y) /\ y # x
          BY <2>1, <3>1, <3>5, <3>7, <4>1 DEF x
        <4>2. ASSUME NEW i \in 1 .. n, f[i] = y, y # x PROVE Holds(p, m, y)
          BY <3>5, <3>8, <4>2 DEF x
        <4> QED
          BY <4>1, <4>2
      <3>12. ASSUME NEW y \in S PROVE Holds(q, m, y) <=> Holds(g, n, y) /\ y # x
        <4>1. ASSUME NEW i \in 1 .. m, q[i] = y PROVE Holds(g, n, y) /\ y # x
          <5>1. CASE i < j
            <6>1. g[i] = y /\ i \in 1 .. n /\ i # j
              BY <3>6, <3>7, <4>1, <5>1
            <6> QED
              BY <2>1, <3>2, <6>1 DEF x
          <5>2. CASE ~(i < j)
            <6>1. g[i + 1] = y /\ i + 1 \in 1 .. n /\ i + 1 # j
              BY <3>6, <3>7, <4>1, <5>2
            <6> QED
              BY <2>1, <3>2, <6>1 DEF x
          <5> QED
            BY <5>1, <5>2
        <4>2. ASSUME NEW i \in 1 .. n, g[i] = y, y # x PROVE Holds(q, m, y)
          <5>1. i # j
            BY <3>2, <4>2 DEF x
          <5>2. CASE i < j
            <6>1. i \in 1 .. m
              BY <5>2 DEF n
            <6> QED
              BY <3>6, <4>2, <5>2, <6>1
          <5>3. CASE i > j
            <6>1. i - 1 \in 1 .. m /\ ~(i - 1 < j) /\ (i - 1) + 1 = i
              BY <5>3 DEF n
            <6>2. q[i - 1] = y
              BY <3>6, <4>2, <6>1
            <6> QED
              BY <6>1, <6>2
          <5> QED
            BY <5>1, <5>2, <5>3 DEF n
        <4> QED
          BY <4>1, <4>2
      <3>13. Both(p, q, m)
        <4> HIDE DEF Holds
        <4> QED
          BY <2>1, <3>11, <3>12
      <3>14. Worth(p) = Worth(q)
        <4> HIDE DEF Both, Once
        <4> QED
          BY <1>2, <3>3, <3>4, <3>9, <3>10, <3>13
      <3> QED
        BY <3>3, <3>4, <3>14
    <2> HIDE DEF Both, Once, n
    <2>2. n \in Nat
      BY DEF n
    <2>3. n \in T
      BY <2>1, <2>2
    <2> QED
      BY <2>3 DEF n
  <1> HIDE DEF T
  <1>3. Nat \subseteq T
    BY <1>1, <1>2, InductiveSet
  <1> DEFINE n == Len(s)
  <1>4. /\ n \in Nat /\ s \in [1 .. n -> S] /\ t \in [1 .. n -> S]
        /\ Once(s, n) /\ Once(t, n) /\ Both(s, t, n)
    BY DEF Lists
  <1> HIDE DEF Once, Both, n
  <1> QED
    BY <1>3, <1>4 DEF T

\* A list of every element once is as long as there are elements.
LEMMA ListLength ==
    ASSUME NEW S, NEW s, Lists(s, S)
    PROVE  IsFiniteSet(S) /\ Len(s) = Cardinality(S)
  <1>1. s \in Bijection(1 .. Len(s), S) /\ Len(s) \in Nat
    BY DEF Lists, Bijection, Injection, Surjection, IsInjective
  <1> QED
    BY <1>1, FS_CountingElements, FS_NatBijection DEF ExistsBijection

\* A finite set is listed by SetToSeq, and so by every order of SetToSeqs.
LEMMA SetIsListed ==
    ASSUME NEW S, IsFiniteSet(S)
    PROVE  Lists(SetToSeq(S), S) /\ \A s \in SetToSeqs(S) : Lists(s, S)
  <1> DEFINE n == Cardinality(S)
  <1>1. n \in Nat /\ ExistsBijection(1 .. n, S)
    BY FS_CardinalityType
  <1>2. PICK f : f \in [1 .. n -> S] /\ IsInjective(f)
    BY <1>1 DEF ExistsBijection, Bijection, Injection, Surjection, IsInjective
  <1>3. SetToSeq(S) \in [1 .. n -> S] /\ IsInjective(SetToSeq(S))
    BY <1>2 DEF SetToSeq
  <1>4. \A s \in SetToSeqs(S) : s \in [1 .. n -> S] /\ IsInjective(s)
    BY DEF SetToSeqs, IsInjective
  <1> HIDE DEF n
  <1>5. ASSUME NEW s \in [1 .. n -> S], IsInjective(s) PROVE Lists(s, S)
    <2> DEFINE held == {s[i] : i \in 1 .. n}
    <2>1. Len(s) = n /\ DOMAIN s = 1 .. n
      BY <1>1
    <2>2. \A i, j \in 1 .. n : s[i] = s[j] => i = j
      BY <1>5, <2>1 DEF IsInjective
    <2>3. s \in Bijection(1 .. n, held)
      BY <2>2 DEF Bijection, Injection, Surjection, IsInjective
    <2>4. held \in SUBSET S
      OBVIOUS
    <2>5. Cardinality(held) = n
      BY <1>1, <2>3, FS_CountingElements DEF ExistsBijection
    <2>6. held = S
      BY <2>4, <2>5, FS_Subset DEF n
    <2>7. \A x \in S : \E i \in 1 .. n : s[i] = x
      BY <2>6
    <2> QED
      BY <1>1, <2>1, <2>2, <2>7 DEF Lists
  <1> QED
    BY <1>3, <1>4, <1>5

\* What a set of records is worth.
Value(S) == Worth(SetToSeq(S))

\* It is what any list of it is worth.
LEMMA ValueOfList ==
    ASSUME NEW S, HaveAmounts(S), NEW s, Lists(s, S)
    PROVE  IsFiniteSet(S) /\ Value(S) = Worth(s) /\ Value(S) \in Int
  <1>1. IsFiniteSet(S) /\ Len(s) = Cardinality(S)
    BY ListLength
  <1>2. Lists(SetToSeq(S), S)
    BY <1>1, SetIsListed
  <1>3. Len(SetToSeq(S)) = Len(s)
    BY <1>1, <1>2, ListLength
  <1>4. Value(S) = Worth(s)
    BY <1>2, <1>3, OrderIsWorthNothing DEF Value
  <1>5. Amounts(s)
    BY ListHasAmounts DEF Lists
  <1>6. Worth(s) \in Int
    BY <1>5, SumExists, WorthIsSum
  <1> QED
    BY <1>1, <1>4, <1>6

\* Two sets with nothing in common are worth together what both are.
LEMMA ValueOfBoth ==
    ASSUME NEW S, NEW T, IsFiniteSet(S), IsFiniteSet(T), S \intersect T = {},
           HaveAmounts(S), HaveAmounts(T)
    PROVE  /\ Value(S \union T) = Value(S) + Value(T)
           /\ Value(S) \in Int /\ Value(T) \in Int
  <1> DEFINE s == SetToSeq(S)
             t == SetToSeq(T)
             n == Len(s)
             m == Len(t)
             b == s \o t
             U == S \union T
  <1>1. Lists(s, S) /\ Lists(t, T)
    BY SetIsListed
  <1> HIDE DEF s, t
  <1>2. /\ n \in Nat /\ s \in [1 .. n -> S] /\ m \in Nat /\ t \in [1 .. m -> T]
        /\ \A i, j \in 1 .. n : s[i] = s[j] => i = j
        /\ \A i, j \in 1 .. m : t[i] = t[j] => i = j
        /\ \A x \in S : \E i \in 1 .. n : s[i] = x
        /\ \A x \in T : \E i \in 1 .. m : t[i] = x
    BY <1>1 DEF Lists
  <1>3. Amounts(s) /\ Amounts(t) /\ s \in Seq(S) /\ t \in Seq(T)
    <2> HIDE DEF n, m
    <2> QED
      BY <1>2, ListHasAmounts
  <1>4. s \in Seq(U) /\ t \in Seq(U)
    BY <1>3
  <1>5. Worth(b) = Worth(s) + Worth(t) /\ Worth(s) \in Int /\ Worth(t) \in Int
    BY <1>3, <1>4, WorthOfBoth
  <1>6. /\ b \in Seq(U) /\ Len(b) = n + m
        /\ \A i \in 1 .. n + m : b[i] = IF i <= n THEN s[i] ELSE t[i - n]
    BY <1>4, ConcatProperties
  <1> HIDE DEF b, n, m
  <1>7. Lists(b, U)
    <2>1. \A i \in 1 .. n + m : \/ i \in 1 .. n /\ b[i] = s[i] /\ b[i] \in S
                                \/ i > n /\ i - n \in 1 .. m /\ b[i] = t[i - n] /\ b[i] \in T
      BY <1>2, <1>6
    <2>2. b \in [1 .. n + m -> U] /\ n + m \in Nat
      BY <1>2, <1>6
    <2>3. ASSUME NEW i \in 1 .. n + m, NEW j \in 1 .. n + m, b[i] = b[j] PROVE i = j
      <3>1. CASE i \in 1 .. n /\ j \in 1 .. n
        <4>1. b[i] = s[i] /\ b[j] = s[j]
          BY <1>2, <2>1, <3>1
        <4> QED
          BY <1>2, <2>3, <3>1, <4>1
      <3>2. CASE i > n /\ j > n
        <4>1. i - n \in 1 .. m /\ j - n \in 1 .. m /\ t[i - n] = t[j - n]
          BY <1>2, <2>1, <2>3, <3>2
        <4>2. i - n = j - n
          BY <1>2, <4>1
        <4> QED
          BY <1>2, <4>2
      <3> QED
        BY <1>2, <2>1, <2>3, <3>1, <3>2
    <2>4. ASSUME NEW x \in U PROVE \E i \in 1 .. n + m : b[i] = x
      <3>1. CASE x \in S
        <4>1. PICK i \in 1 .. n : s[i] = x
          BY <1>2, <3>1
        <4>2. i \in 1 .. n + m /\ i <= n
          BY <1>2
        <4> QED
          BY <1>6, <4>1, <4>2
      <3>2. CASE x \in T
        <4>1. PICK i \in 1 .. m : t[i] = x
          BY <1>2, <3>2
        <4>2. i + n \in 1 .. n + m /\ ~(i + n <= n) /\ (i + n) - n = i
          BY <1>2
        <4>3. b[i + n] = t[i]
          BY <1>6, <4>2
        <4> QED
          BY <4>1, <4>2, <4>3
      <3> QED
        BY <3>1, <3>2
    <2> QED
      BY <1>6, <2>2, <2>3, <2>4 DEF Lists
  <1>8. HaveAmounts(U)
    BY DEF HaveAmounts
  <1> HIDE DEF U
  <1>9. Value(U) = Worth(b)
    BY <1>7, <1>8, ValueOfList
  <1>10. Value(S) = Worth(s) /\ Value(T) = Worth(t)
    BY DEF Value, s, t
  <1> QED
    BY <1>5, <1>9, <1>10 DEF U

-----------------------------------------------------------------------------
(* Fees. *)

\* The weight of a transaction without inputs, for up to three outputs.
BareWeight(m) == CASE m = 0 -> 623 [] m = 1 -> 708 [] m = 2 -> 857 [] m = 3 -> 1466

\* The logarithm of so few outputs.
LEMMA LogsOfFew ==
    LogPadded(0) = 0 /\ LogPadded(1) = 0 /\ LogPadded(2) = 1 /\ LogPadded(3) = 2
  <1>1. 2^0 = 1 /\ 2^1 = 2 /\ 2^2 = 4 /\ 2^3 = 8
    OBVIOUS
  <1> DEFINE Fits(l, m) == 2^l >= m /\ (l > 0 => 2^(l - 1) < m)
  <1>2. Fits(0, 0) /\ \A l \in 0 .. 0 : Fits(l, 0) => l = 0
    BY <1>1
  <1>3. Fits(0, 1) /\ \A l \in 0 .. 1 : Fits(l, 1) => l = 0
    <2>1. \A l \in 0 .. 1 : l = 0 \/ l = 1
      OBVIOUS
    <2> QED
      BY <1>1, <2>1
  <1>4. Fits(1, 2) /\ \A l \in 0 .. 2 : Fits(l, 2) => l = 1
    <2>1. \A l \in 0 .. 2 : l = 0 \/ l = 1 \/ l = 2
      OBVIOUS
    <2>2. 2 - 1 = 1 /\ 1 - 1 = 0
      OBVIOUS
    <2> QED
      BY <1>1, <2>1, <2>2
  <1>5. Fits(2, 3) /\ \A l \in 0 .. 3 : Fits(l, 3) => l = 2
    <2>1. \A l \in 0 .. 3 : l = 0 \/ l = 1 \/ l = 2 \/ l = 3
      OBVIOUS
    <2>2. 3 - 1 = 2 /\ 2 - 1 = 1 /\ 1 - 1 = 0
      OBVIOUS
    <2> QED
      BY <1>1, <2>1, <2>2
  <1>6. \A m : LogPadded(m) = CHOOSE l \in 0 .. m : Fits(l, m)
    BY DEF LogPadded
  <1> HIDE DEF Fits
  <1>7. LogPadded(0) = 0
    <2>1. 0 \in 0 .. 0
      OBVIOUS
    <2> QED
      BY <1>2, <1>6, <2>1
  <1>8. LogPadded(1) = 0
    <2>1. 0 \in 0 .. 1
      OBVIOUS
    <2> QED
      BY <1>3, <1>6, <2>1
  <1>9. LogPadded(2) = 1
    <2>1. 1 \in 0 .. 2
      OBVIOUS
    <2> QED
      BY <1>4, <1>6, <2>1
  <1>10. LogPadded(3) = 2
    <2>1. 2 \in 0 .. 3
      OBVIOUS
    <2> QED
      BY <1>5, <1>6, <2>1
  <1> QED
    BY <1>7, <1>8, <1>9, <1>10

\* Each input weighs the same.
LEMMA WeightIsLinear ==
    ASSUME NEW k \in Nat, NEW m \in 0 .. 3
    PROVE  EstimateTxWeight(k, m) = BareWeight(m) + 683 * k
  <1>1. m = 0 \/ m = 1 \/ m = 2 \/ m = 3
    OBVIOUS
  <1>2. Max({2, 2}) = 2
    BY DEF Max
  <1>3. 2^2 = 4
    OBVIOUS
  <1>4. CASE m = 0
    <2>1. EstimateTxSize(k, m) = 623 + 683 * k
      BY <1>4, LogsOfFew DEF EstimateTxSize
    <2> QED
      BY <1>4, <2>1 DEF EstimateTxWeight, BareWeight
  <1>5. CASE m = 1
    <2>1. EstimateTxSize(k, m) = 708 + 683 * k
      BY <1>5, LogsOfFew DEF EstimateTxSize
    <2> QED
      BY <1>5, <2>1 DEF EstimateTxWeight, BareWeight
  <1>6. CASE m = 2
    <2>1. EstimateTxSize(k, m) = 857 + 683 * k
      BY <1>6, LogsOfFew DEF EstimateTxSize
    <2> QED
      BY <1>6, <2>1 DEF EstimateTxWeight, BareWeight
  <1>7. CASE m = 3
    <2>1. EstimateTxSize(k, m) = 1006 + 683 * k
      BY <1>7, LogsOfFew DEF EstimateTxSize
    <2>2. ((32 * (6 + 7 * 2)) \div 2) = 320 /\ 32 * (6 + 2 * (6 + 2)) = 704
      OBVIOUS
    <2>3. ((320 * 4 - 704) * 4) \div 5 = 460
      OBVIOUS
    <2>4. Max({2, LogPadded(m)}) = 2
      BY <1>2, <1>7, LogsOfFew
    <2> DEFINE log == Max({2, LogPadded(m)})
               base == (32 * (6 + 7 * 2)) \div 2
               size == 32 * (6 + 2 * (6 + log))
    <2>5. EstimateTxWeight(k, m) = EstimateTxSize(k, m) + ((base * 2^log - size) * 4) \div 5
      BY <1>7 DEF EstimateTxWeight
    <2>6. base = 320 /\ log = 2 /\ size = 704 /\ 2^log = 4
      BY <1>3, <2>2, <2>4
    <2> HIDE DEF base, log, size
    <2>7. EstimateTxWeight(k, m) = EstimateTxSize(k, m) + 460
      BY <2>3, <2>5, <2>6
    <2> QED
      BY <1>7, <2>1, <2>7 DEF BareWeight
  <1> QED
    BY <1>1, <1>4, <1>5, <1>6, <1>7

\* The fee of a transaction with up to three outputs.
LEMMA FeeIs ==
    ASSUME SpendingAssumption, NEW k \in Nat, NEW m \in 0 .. 3, NEW p \in Priorities
    PROVE  /\ Multiplier[p] \in {1, 5, 25, 1000}
           /\ EstimateTransactionFee(k, m, p) = (BareWeight(m) + 683 * k) * Multiplier[p]
           /\ EstimateTransactionFee(k, m, p) \in Nat
  <1>1. Multiplier[p] \in {1, 5, 25, 1000}
    BY SpendingAssumption DEF SpendingAssumption, Multiplier
  <1>2. EstimateTransactionFee(k, m, p) = (BareWeight(m) + 683 * k) * Multiplier[p]
    BY WeightIsLinear DEF EstimateTransactionFee
  <1>3. BareWeight(m) \in Nat
    BY DEF BareWeight
  <1> QED
    BY <1>1, <1>2, <1>3

\* It is a number.
LEMMA FeeIsNat ==
    ASSUME SpendingAssumption, NEW k \in Nat, NEW m \in 0 .. 3, NEW p \in Priorities
    PROVE  EstimateTransactionFee(k, m, p) \in Nat
  BY FeeIs

\* More outputs do not make it cheaper.
LEMMA FeeGrows ==
    ASSUME SpendingAssumption, NEW k \in Nat, NEW m \in 0 .. 3, NEW n \in 0 .. m, NEW p \in Priorities
    PROVE  EstimateTransactionFee(k, n, p) <= EstimateTransactionFee(k, m, p)
  <1>1. BareWeight(n) <= BareWeight(m) /\ BareWeight(n) \in Nat /\ BareWeight(m) \in Nat
    BY DEF BareWeight
  <1>2. n \in 0 .. 3
    OBVIOUS
  <1>3. /\ Multiplier[p] \in {1, 5, 25, 1000}
        /\ EstimateTransactionFee(k, m, p) = (BareWeight(m) + 683 * k) * Multiplier[p]
        /\ EstimateTransactionFee(k, n, p) = (BareWeight(n) + 683 * k) * Multiplier[p]
    BY <1>2, FeeIs
  <1> QED
    BY <1>1, <1>3

\* The guess for two inputs, and half of it for each that is selected, pays for them.
LEMMA GuessPays ==
    ASSUME SpendingAssumption, NEW k \in Nat, NEW m \in 0 .. 3, NEW n \in 0 .. m, NEW p \in Priorities
    PROVE  LET guess == EstimateTransactionFee(2, m, p) IN
           /\ guess \in Nat /\ guess \div 2 \in Nat
           /\ guess + (guess \div 2) * k >= EstimateTransactionFee(k, n, p)
  <1> DEFINE b == BareWeight(m)
             f == EstimateTransactionFee(k, m, p)
             guess == EstimateTransactionFee(2, m, p)
             x == Multiplier[p]
  <1>1. b \in Nat
    BY DEF BareWeight
  <1>2. /\ x \in {1, 5, 25, 1000} /\ f = (b + 683 * k) * x
        /\ guess = (b + 683 * 2) * x /\ guess \in Nat /\ f \in Nat
    BY FeeIs
  <1>3. EstimateTransactionFee(k, n, p) <= f
    BY FeeGrows
  <1>4. EstimateTransactionFee(k, n, p) \in Nat
    <2>1. n \in 0 .. 3
      OBVIOUS
    <2> QED
      BY <2>1, FeeIs
  <1> HIDE DEF b, f, guess, x
  <1>5. guess \div 2 \in Nat /\ guess \div 2 >= 683 * x
    BY <1>1, <1>2
  <1>6. (guess \div 2) * k >= (683 * x) * k
    <2> DEFINE h == guess \div 2
               y == 683 * x
    <2>1. h \in Nat /\ y \in Nat /\ h >= y
      BY <1>2, <1>5
    <2> HIDE DEF h, y
    <2>2. h * k >= y * k
      BY <2>1
    <2> QED
      BY <2>2 DEF h, y
  <1>7. f = b * x + (683 * x) * k
    BY <1>1, <1>2
  <1>8. guess >= b * x
    BY <1>1, <1>2
  <1>9. guess + (guess \div 2) * k >= f
    <2> DEFINE h == (guess \div 2) * k
               y == (683 * x) * k
               z == b * x
    <2>1. h \in Int /\ y \in Int /\ z \in Int /\ h >= y /\ f = z + y /\ guess >= z
      BY <1>1, <1>2, <1>5, <1>6, <1>7, <1>8
    <2> HIDE DEF h, y, z
    <2>2. guess + h >= f
      BY <1>2, <2>1
    <2> QED
      BY <2>2 DEF h
  <1>10. (guess \div 2) * k \in Int
    BY <1>5
  <1> DEFINE h == (guess \div 2) * k
             e == EstimateTransactionFee(k, n, p)
  <1>11. h \in Int /\ guess + h >= f /\ e \in Nat /\ e <= f
    BY <1>3, <1>4, <1>9, <1>10
  <1> HIDE DEF h, e
  <1>12. guess + h >= e
    BY <1>2, <1>11
  <1> QED
    BY <1>2, <1>5, <1>12 DEF h, e, guess

\* One fee for each input pays for all of them.
LEMMA EachPays ==
    ASSUME SpendingAssumption, NEW k \in Nat \ {0}, NEW m \in 0 .. 3, NEW n \in 0 .. m,
           NEW p \in Priorities
    PROVE  LET per == EstimateTransactionFee(1, m, p) IN
           per \in Nat /\ per * k >= EstimateTransactionFee(k, n, p)
  <1> DEFINE b == BareWeight(m)
             f == EstimateTransactionFee(k, m, p)
             per == EstimateTransactionFee(1, m, p)
             x == Multiplier[p]
  <1>1. b \in Nat
    BY DEF BareWeight
  <1>2. /\ x \in {1, 5, 25, 1000} /\ f = (b + 683 * k) * x
        /\ per = (b + 683 * 1) * x /\ per \in Nat /\ f \in Nat
    BY FeeIs
  <1>3. EstimateTransactionFee(k, n, p) <= f
    BY FeeGrows
  <1>4. EstimateTransactionFee(k, n, p) \in Nat
    <2>1. n \in 0 .. 3
      OBVIOUS
    <2> QED
      BY <2>1, FeeIs
  <1> HIDE DEF b, f, per, x
  <1>5. b * k >= b
    BY <1>1
  <1>6. (b + 683) * k >= b + 683 * k
    BY <1>1, <1>5
  <1>7. per * k = ((b + 683) * k) * x
    BY <1>1, <1>2
  <1>8. ((b + 683) * k) * x >= (b + 683 * k) * x
    BY <1>1, <1>2, <1>6
  <1> DEFINE h == per * k
             e == EstimateTransactionFee(k, n, p)
  <1>9. h \in Int /\ h >= f /\ e \in Nat /\ e <= f
    BY <1>2, <1>3, <1>4, <1>7, <1>8
  <1> HIDE DEF h, e
  <1>10. h >= e
    BY <1>2, <1>9
  <1> QED
    BY <1>2, <1>10 DEF h, e, per

\* A set of numbers that is not empty has a least one.
LEMMA LeastIs ==
    ASSUME NEW T, T \subseteq Nat, T # {}
    PROVE  \E n \in T : \A m \in T : n <= m
  <1>1. PICK n \in T : \A m \in T : ~(<<m, n>> \in OpToRel(<, Nat))
    BY NatLessThanWellFounded, WFMin
  <1>2. \A m \in T : ~(m < n)
    BY <1>1 DEF OpToRel
  <1> QED
    BY <1>2

-----------------------------------------------------------------------------
(* Selection and building. *)

Coins == [id : Nat, amount : Nat, asset : SpendAssets, at : Nat]
Outs == [amount : Int, asset : SpendAssets]

\* The purse holds coins that are numbered and not from the future.
PurseKept ==
    /\ IsFiniteSet(purse) /\ purse \subseteq Coins
    /\ spendHeight \in Nat
    /\ \A c \in purse : c.at <= spendHeight /\ c.id <= account.n
    /\ account.n \in Nat /\ account.got \in Int /\ account.paid \in Int /\ account.burnt \in Int
    /\ DOMAIN account = {"n", "sent", "got", "paid", "burnt", "turned"}

\* s is a list of ripe coins of one asset, each once.
Picks(s, asset) ==
    /\ Len(s) \in Nat \ {0} /\ s \in [1 .. Len(s) -> Ripe(asset)]
    /\ \A i, j \in 1 .. Len(s) : s[i] = s[j] => i = j

\* Change is a coin of an asset of the wallet.
ChangeOf(t, c) ==
    c \in Outs /\ c.amount \in Nat /\ t.outs = t.paid \o <<c>>

\* A transaction that was built spends ripe coins, balances, and has at most one
\* output more than it pays.
TxKept(t) ==
    /\ t.asset \in SpendAssets /\ Picks(t.ins, t.asset)
    /\ t.paid \in Seq(Outs) /\ t.burnt \in Int /\ t.fee \in Int
    /\ Worth(t.ins) = Worth(t.outs) + t.burnt + t.fee
    /\ t.outs = t.paid \/ \E c : ChangeOf(t, c)

\* What a call that asked a has left as b.
AttemptKept(b, a) ==
    /\ b.failed # "insufficient"
    /\ b.failed = "no" =>
          /\ TxKept(b)
          /\ a.left > 0 \/ b.op = "sweep" =>
                b.fee >= EstimateTransactionFee(Len(b.ins), Len(b.outs), a.priority)

\* The inductive invariant.
SpendsKept == PurseKept /\ AttemptKept(built, asked) /\ KeepsValue

\* The ripe coins are coins of the purse.
LEMMA RipeCoins ==
    ASSUME PurseKept, NEW asset
    PROVE  /\ IsFiniteSet(Ripe(asset)) /\ Ripe(asset) \subseteq purse
           /\ Ripe(asset) \subseteq Coins /\ \A c \in Ripe(asset) : c.asset = asset
           /\ HaveAmounts(Ripe(asset))
  <1>1. /\ Ripe(asset) \in SUBSET purse /\ IsFiniteSet(purse) /\ purse \subseteq Coins
        /\ \A c \in Ripe(asset) : c.asset = asset
    BY DEF Ripe, PurseKept
  <1>2. IsFiniteSet(Ripe(asset))
    BY <1>1, FS_Subset
  <1> QED
    BY <1>1, <1>2 DEF HaveAmounts, Coins

\* The beginning of a list that has each ripe coin once.
LEMMA BeginningPicks ==
    ASSUME PurseKept, NEW asset, NEW S, S \subseteq Ripe(asset), NEW s, Lists(s, S),
           NEW k \in 1 .. Len(s)
    PROVE  Picks(SubSeq(s, 1, k), asset) /\ Len(SubSeq(s, 1, k)) = k
  <1> DEFINE n == Len(s)
             b == SubSeq(s, 1, k)
  <1>1. /\ n \in Nat /\ s \in [1 .. n -> S] /\ \A i, j \in 1 .. n : s[i] = s[j] => i = j
        /\ k \in Nat \ {0} /\ k <= n
    BY DEF Lists
  <1>2. s \in Seq(S) /\ Len(s) = n
    BY <1>1
  <1>3. b \in Seq(S) /\ Len(b) = k /\ \A i \in 1 .. k : b[i] = s[i]
    BY <1>1, <1>2, SubSeqProperties
  <1>4. \A i \in 1 .. k : i \in 1 .. n /\ s[i] \in S
    BY <1>1
  <1> HIDE DEF n, b
  <1>5. b \in [1 .. k -> Ripe(asset)]
    BY <1>3, <1>4
  <1>6. \A i, j \in 1 .. k : b[i] = b[j] => i = j
    BY <1>1, <1>3, <1>4
  <1> QED
    BY <1>1, <1>3, <1>5, <1>6 DEF Picks, b

\* What is selected is ripe, and covers the target and the share of each coin.
LEMMA SelectionCovers ==
    ASSUME SpendingAssumption, PurseKept, NEW asset, NEW target, NEW per,
           NEW strategy, NEW s \in Selected(asset, target, per, strategy), s # <<>>
    PROVE  Picks(s, asset) /\ Worth(s) \in Int /\ Worth(s) >= target + per * Len(s)
  <1> DEFINE S == {c \in Ripe(asset) : c.amount >= DustLimit}
  <1>1. PICK l \in CoinOrders(S, strategy) : s = SelectUTXOs(l, target, per)
    BY DEF Selected
  <1>2. S \in SUBSET Ripe(asset) /\ IsFiniteSet(Ripe(asset)) /\ HaveAmounts(Ripe(asset))
    BY RipeCoins
  <1> HIDE DEF S
  <1>3. Lists(l, S)
    <2>1. IsFiniteSet(S)
      BY <1>2, FS_Subset
    <2>2. l \in SetToSeqs(S)
      BY <1>1 DEF CoinOrders
    <2> QED
      BY <2>1, <2>2, SetIsListed
  <1> DEFINE top == Min({Len(l), MostSelected})
             long == {k \in 1 .. top : Worth(SubSeq(l, 1, k)) >= target + per * k}
             k == Min(long)
  <1>4. Len(l) \in Nat /\ MostSelected \in Nat
    BY <1>3 DEF Lists, SpendingAssumption
  <1>5. top \in Nat /\ top <= Len(l)
    <2> DEFINE n == Len(l)
               both == {n, MostSelected}
    <2>1. n \in Nat /\ \A x \in both : x \in Nat
      BY <1>4
    <2>2. \E x \in both : \A y \in both : x <= y
      BY <1>4
    <2> HIDE DEF both
    <2>3. Min(both) \in both /\ \A y \in both : Min(both) <= y
      BY <2>2 DEF Min
    <2> QED
      BY <2>1, <2>3 DEF both
  <1>6. s = SubSeq(l, 1, k) /\ long # {}
    BY <1>1 DEF SelectUTXOs
  <1>7. k \in long
    <2>1. long \subseteq Nat
      BY <1>5
    <2> HIDE DEF long
    <2>2. \E n \in long : \A m \in long : n <= m
      BY <1>6, <2>1, LeastIs
    <2> QED
      BY <2>2 DEF Min
  <1> HIDE DEF k
  <1>8. k \in 1 .. Len(l) /\ Worth(SubSeq(l, 1, k)) >= target + per * k
    BY <1>5, <1>7
  <1>9. Picks(s, asset) /\ Len(s) = k
    BY <1>2, <1>3, <1>6, <1>8, BeginningPicks
  <1>10. Worth(s) \in Int
    <2>1. Amounts(s)
      BY <1>2, <1>9, ListHasAmounts DEF Picks
    <2> QED
      BY <2>1, SumExists, WorthIsSum
  <1> QED
    BY <1>6, <1>8, <1>9, <1>10

\* A call that selects coins of a known asset and builds with enough to pay.
LEMMA BuildingKeeps ==
    ASSUME SpendingAssumption, PurseKept, NEW asset \in SpendAssets, NEW s, Picks(s, asset),
           NEW op, NEW paid \in Seq(Outs), Amounts(paid), Len(paid) \in 0 .. 2,
           NEW burnt \in Int, NEW m \in 0 .. 3, NEW p \in Priorities,
           NEW keeps \in BOOLEAN, NEW to, NEW left \in Int,
           keeps => op = "burn" \/ to \in SpendAssets,
           Worth(s) - Worth(paid) - burnt - EstimateTransactionFee(Len(s), m, p) >= 0,
           keeps \/ Worth(s) - Worth(paid) - burnt - EstimateTransactionFee(Len(s), m, p) = 0,
           left > 0 => Len(paid) + 1 <= m,
           op = "sweep" => Len(paid) <= m /\ ~keeps
    PROVE  AttemptKept(BuildTransaction(op, s, paid, burnt,
                                        EstimateTransactionFee(Len(s), m, p), keeps, to),
                       [priority |-> p, left |-> left])
  <1> DEFINE fee == EstimateTransactionFee(Len(s), m, p)
             change == Worth(s) - Worth(paid) - burnt - fee
             from == s[1].asset
             back == [amount |-> change, asset |-> IF op = "burn" THEN from ELSE to]
             more == IF change > 0 /\ keeps THEN <<back>> ELSE <<>>
             outs == paid \o more
             tx == [op |-> op, failed |-> "no", ins |-> s, outs |-> outs, paid |-> paid,
                    burnt |-> burnt, fee |-> fee, asset |-> from]
             b == BuildTransaction(op, s, paid, burnt, fee, keeps, to)
             ask == [priority |-> p, left |-> left]
  <1>1. /\ HaveAmounts(Ripe(asset)) /\ \A c \in Ripe(asset) : c.asset = asset
        /\ Len(s) \in Nat \ {0} /\ s \in [1 .. Len(s) -> Ripe(asset)]
    BY RipeCoins DEF Picks
  <1>2. Worth(s) \in Int /\ Worth(paid) \in Int
    <2>1. Amounts(s)
      BY <1>1, ListHasAmounts
    <2> QED
      BY <2>1, SumExists, WorthIsSum
  <1>3. fee \in Nat
    BY <1>1, FeeIsNat
  <1>4. from = asset
    BY <1>1
  <1>5. change \in Nat
    BY <1>2, <1>3
  <1>6. b = IF outs = <<>> THEN NotBuilt(op, "no outputs") ELSE tx
    <2>1. ~(change < 0) /\ change >= 0
      BY <1>5
    <2> HIDE DEF fee
    <2>2. b = CASE change < 0 -> NotBuilt(op, "insufficient")
                [] change >= 0 /\ outs = <<>> -> NotBuilt(op, "no outputs")
                [] OTHER -> tx
      BY DEF BuildTransaction
    <2> HIDE DEF b, change, outs, tx
    <2> QED
      BY <2>1, <2>2
  <1> HIDE DEF fee, from, change, b
  <1> DEFINE kind == IF op = "burn" THEN from ELSE to
  <1>7. back.amount = change /\ (keeps => back \in Outs)
    <2>1. keeps => kind \in SpendAssets
      <3>1. from \in SpendAssets
        BY <1>4
      <3> QED
        BY <3>1
    <2>2. back = [amount |-> change, asset |-> kind]
      OBVIOUS
    <2> HIDE DEF kind, back
    <2> QED
      BY <1>5, <2>1, <2>2 DEF Outs
  <1>8. \/ change > 0 /\ keeps /\ outs = paid \o <<back>>
        \/ change = 0 /\ outs = paid
    <2>1. keeps \/ change = 0
      BY DEF change, fee
    <2>2. CASE change > 0 /\ keeps
      BY <2>2
    <2>3. CASE ~(change > 0 /\ keeps)
      <3>1. change = 0 /\ outs = paid \o <<>>
        BY <1>5, <2>1, <2>3
      <3> QED
        BY <3>1
    <2> QED
      BY <2>2, <2>3
  <1> HIDE DEF back, outs
  <1>9. /\ Len(outs) \in 0 .. Len(paid) + 1 /\ (~keeps => Len(outs) = Len(paid))
        /\ Worth(outs) = Worth(paid) + change
    <2>1. CASE change > 0 /\ keeps /\ outs = paid \o <<back>>
      <3>1. Amounts(<<back>>) /\ Worth(<<back>>) = change /\ <<back>> \in Seq(Outs)
        <4>1. back \in Outs /\ back.amount = change /\ change \in Int
          BY <1>5, <1>7, <2>1
        <4> HIDE DEF kind, more, tx, ask
        <4> QED
          BY <4>1, WorthOfOne
      <3>2. Worth(outs) = Worth(paid) + change
        BY <2>1, <3>1, WorthOfBoth
      <3>3. Len(outs) = Len(paid) + 1
        BY <2>1, <3>1, ConcatProperties
      <3> QED
        BY <2>1, <3>2, <3>3
    <2>2. CASE change = 0 /\ outs = paid
      BY <1>2, <2>2
    <2> QED
      BY <1>8, <2>1, <2>2
  <1>10. Worth(s) = Worth(outs) + burnt + fee
    <2> DEFINE w == Worth(s)
               v == Worth(paid)
               u == Worth(outs)
    <2>1. change = w - v - burnt - fee /\ w \in Int /\ v \in Int /\ u = v + change
      BY <1>2, <1>9 DEF change
    <2> HIDE DEF w, v, u
    <2>2. w = u + burnt + fee
      BY <1>3, <1>5, <2>1
    <2> QED
      BY <2>2 DEF w, u
  <1>11. TxKept(tx)
    <2>1. /\ tx.asset = asset /\ tx.ins = s /\ tx.paid = paid /\ tx.burnt = burnt /\ tx.fee = fee
          /\ tx.outs = outs
      BY <1>4
    <2> HIDE DEF tx
    <2>2. tx.outs = tx.paid \/ \E c : ChangeOf(tx, c)
      BY <1>5, <1>7, <1>8, <2>1 DEF ChangeOf
    <2> QED
      BY <1>3, <1>10, <2>1, <2>2 DEF TxKept
  <1>12. left > 0 \/ op = "sweep" => fee >= EstimateTransactionFee(Len(s), Len(outs), p)
    <2> SUFFICES ASSUME left > 0 \/ op = "sweep" PROVE fee >= EstimateTransactionFee(Len(s), Len(outs), p)
      OBVIOUS
    <2>1. Len(outs) \in 0 .. m
      BY <1>9
    <2>2. EstimateTransactionFee(Len(s), Len(outs), p) <= fee
      BY <1>1, <2>1, FeeGrows DEF fee
    <2> DEFINE n == Len(outs)
               k == Len(s)
    <2>3. k \in Nat
      BY <1>1
    <2>5. n \in 0 .. m
      BY <2>1
    <2> HIDE DEF n, k
    <2>6. n \in 0 .. 3
      BY <2>5
    <2>7. EstimateTransactionFee(k, n, p) \in Nat
      BY <2>3, <2>6, FeeIsNat
    <2> USE DEF n, k
    <2> QED
      BY <1>3, <2>2, <2>7
  <1>13. AttemptKept(b, ask)
    <2>1. CASE b = NotBuilt(op, "no outputs")
      <3>1. b.failed = "no outputs"
        BY <2>1 DEF NotBuilt
      <3> HIDE DEF ask
      <3> QED
        BY <3>1 DEF AttemptKept
    <2>2. CASE b = tx
      <3>1. /\ b.failed = "no" /\ b.op = op /\ b.fee = fee /\ b.ins = s /\ b.outs = outs
            /\ ask.left = left /\ ask.priority = p
        BY <2>2
      <3> HIDE DEF b, tx, ask
      <3> QED
        BY <1>11, <1>12, <2>2, <3>1 DEF AttemptKept
    <2> QED
      BY <1>6, <2>1, <2>2
  <1> QED
    BY <1>13 DEF b, fee

\* What a call pays and burns, and the fee for m outputs, can be had for the target and the
\* share of each coin; and m counts the change, if there will be any.
Affordable(target, per, s, op, paid, burnt, m, p, to) ==
    /\ target \in Int /\ per \in Nat
    /\ op # "sweep" /\ (op = "burn" \/ to \in SpendAssets)
    /\ paid \in Seq(Outs) /\ Amounts(paid) /\ Len(paid) \in 0 .. 2
    /\ burnt \in Int /\ m \in 0 .. 3 /\ p \in Priorities
    /\ Worth(s) - target - per * Len(s) > 0 => Len(paid) + 1 <= m
    /\ target + per * Len(s) >= Worth(paid) + burnt + EstimateTransactionFee(Len(s), m, p)

\* Coins that are selected for a target cover what is paid, burnt and the fee, if the
\* target and the share of each coin do.
LEMMA SelectedKeeps ==
    ASSUME SpendingAssumption, PurseKept, NEW asset \in SpendAssets, NEW target, NEW per,
           NEW strategy, NEW s \in Selected(asset, target, per, strategy), s # <<>>,
           NEW op, NEW paid, NEW burnt, NEW m, NEW p, NEW to,
           Affordable(target, per, s, op, paid, burnt, m, p, to)
    PROVE  AttemptKept(BuildTransaction(op, s, paid, burnt,
                                        EstimateTransactionFee(Len(s), m, p), TRUE, to),
                       [priority |-> p, left |-> Worth(s) - target - per * Len(s)])
  <1> USE DEF Affordable
  <1> DEFINE left == Worth(s) - target - per * Len(s)
             k == Len(s)
             fee == EstimateTransactionFee(k, m, p)
             h == per * k
             w == Worth(s)
             v == Worth(paid)
  <1>1. Picks(s, asset) /\ w \in Int /\ w >= target + h
    BY SelectionCovers
  <1>2. k \in Nat /\ k \in Nat \ {0}
    BY <1>1 DEF Picks
  <1>3. fee \in Nat
    <2> HIDE DEF k
    <2> QED
      BY <1>2, FeeIsNat
  <1>4. v \in Int
    BY SumExists, WorthIsSum
  <1>5. h \in Int
    BY <1>2
  <1>6. w - v - burnt - fee >= 0 /\ left \in Int
    <2>1. left = w - target - h /\ target + h >= v + burnt + fee
      OBVIOUS
    <2> HIDE DEF w, h, v, fee
    <2> QED
      BY <1>1, <1>3, <1>4, <1>5, <2>1
  <1>7. /\ Worth(s) - Worth(paid) - burnt - EstimateTransactionFee(Len(s), m, p) >= 0
        /\ TRUE \in BOOLEAN /\ (TRUE => op = "burn" \/ to \in SpendAssets)
        /\ (op = "sweep" => Len(paid) <= m /\ ~TRUE)
    BY <1>6
  <1>8. left > 0 => Len(paid) + 1 <= m
    OBVIOUS
  <1> HIDE DEF k, fee, h, w, v, left
  <1>9. AttemptKept(BuildTransaction(op, s, paid, burnt,
                                     EstimateTransactionFee(Len(s), m, p), TRUE, to),
                    [priority |-> p, left |-> left])
    BY <1>1, <1>6, <1>7, <1>8, BuildingKeeps
  <1> QED
    BY <1>9 DEF left

-----------------------------------------------------------------------------
(* The calls. *)

\* The payment of one amount.
LEMMA PaymentIs ==
    ASSUME NEW a \in Int
    PROVE  /\ Paid(<<a>>) \in Seq(Outs) /\ Amounts(Paid(<<a>>)) /\ Len(Paid(<<a>>)) = 1
           /\ Worth(Paid(<<a>>)) = a
  <1> DEFINE x == [amount |-> a, asset |-> "SAL"]
  <1>1. x.amount = a /\ x \in Outs
    <2>1. "SAL" \in SpendAssets
      BY DEF SpendAssets
    <2> QED
      BY <2>1 DEF Outs
  <1>2. Paid(<<a>>) = <<x>>
    BY DEF Paid
  <1> HIDE DEF x
  <1>3. <<x>> \in Seq(Outs) /\ Len(<<x>>) = 1 /\ Amounts(<<x>>) /\ Worth(<<x>>) = a
    BY <1>1, WorthOfOne
  <1> QED
    BY <1>2, <1>3

\* Two lists of one make a list of two.
LEMMA PairIs ==
    ASSUME NEW x, NEW y
    PROVE  <<x>> \o <<y>> = <<x, y>> /\ Len(<<x>> \o <<y>>) = 2
  <1> DEFINE z == <<x>> \o <<y>>
  <1>1. <<x>> \in Seq({x, y}) /\ <<y>> \in Seq({x, y}) /\ Len(<<x>>) = 1 /\ Len(<<y>>) = 1
    OBVIOUS
  <1>2. z \in Seq({x, y}) /\ Len(z) = 2 /\ z[1] = x /\ z[2] = y
    BY <1>1, ConcatProperties
  <1> HIDE DEF z
  <1>3. z = [i \in 1 .. 2 |-> z[i]] /\ <<x, y>> = [i \in 1 .. 2 |-> <<x, y>>[i]]
    BY <1>2
  <1>4. \A i \in 1 .. 2 : z[i] = <<x, y>>[i]
    BY <1>2
  <1>5. z = <<x, y>>
    BY <1>3, <1>4
  <1> QED
    BY <1>2, <1>5 DEF z

\* The payments of two amounts.
LEMMA PaymentsAre ==
    ASSUME NEW a \in Int, NEW b \in Int
    PROVE  /\ Paid(<<a, b>>) \in Seq(Outs) /\ Amounts(Paid(<<a, b>>)) /\ Len(Paid(<<a, b>>)) = 2
           /\ Worth(Paid(<<a, b>>)) = a + b
  <1> DEFINE x == [amount |-> a, asset |-> "SAL"]
             y == [amount |-> b, asset |-> "SAL"]
             z == <<x>> \o <<y>>
  <1>1. Paid(<<a, b>>) = <<x, y>>
    BY DEF Paid
  <1>2. <<x>> = Paid(<<a>>) /\ <<y>> = Paid(<<b>>)
    BY DEF Paid
  <1> HIDE DEF x, y
  <1>3. /\ <<x>> \in Seq(Outs) /\ <<y>> \in Seq(Outs) /\ Len(<<x>>) = 1 /\ Len(<<y>>) = 1
        /\ Amounts(<<x>>) /\ Worth(<<x>>) = a /\ Amounts(<<y>>) /\ Worth(<<y>>) = b
    BY <1>2, PaymentIs
  <1>5. Amounts(z) /\ Worth(z) = a + b
    BY <1>3, WorthOfBoth
  <1>6. z \in Seq(Outs) /\ Len(z) = 2
    BY <1>3, ConcatProperties
  <1>7. z = <<x, y>>
    BY PairIs
  <1> HIDE DEF z
  <1> QED
    BY <1>1, <1>5, <1>6, <1>7

\* No payments.
LEMMA NoPayments ==
    <<>> \in Seq(Outs) /\ Amounts(<<>>) /\ Len(<<>>) = 0 /\ Worth(<<>>) = 0
  BY WorthOfNone DEF Amounts

\* What was not built keeps everything.
LEMMA NothingBuilt ==
    ASSUME NEW op, NEW why, why \notin {"no", "insufficient"}, NEW a
    PROVE  AttemptKept(NotBuilt(op, why), a)
  <1>1. NotBuilt(op, why).failed = why
    BY DEF NotBuilt
  <1> QED
    BY <1>1 DEF AttemptKept

\* A first guess of the fee on top of what is paid and burnt, and half of it for each coin,
\* is enough.
LEMMA GuessAffords ==
    ASSUME SpendingAssumption, NEW p \in Priorities, NEW top \in 0 .. 3, NEW m \in 0 .. top,
           NEW s, Len(s) \in Nat \ {0},
           NEW paid \in Seq(Outs), Amounts(paid), Len(paid) \in 0 .. 2,
           NEW burnt \in Int, NEW op, op # "sweep", NEW to, op = "burn" \/ to \in SpendAssets,
           NEW target, target = Worth(paid) + burnt + EstimateTransactionFee(2, top, p),
           NEW per, per = EstimateTransactionFee(2, top, p) \div 2,
           Worth(s) - target - per * Len(s) > 0 => Len(paid) + 1 <= m
    PROVE  Affordable(target, per, s, op, paid, burnt, m, p, to)
  <1> DEFINE guess == EstimateTransactionFee(2, top, p)
             k == Len(s)
             fee == EstimateTransactionFee(k, m, p)
             v == Worth(paid)
             h == per * k
  <1>1. guess \in Nat /\ per \in Nat /\ guess + per * k >= fee
    <2>1. k \in Nat
      OBVIOUS
    <2> HIDE DEF k
    <2> QED
      BY <2>1, GuessPays
  <1>2. m \in 0 .. 3
    OBVIOUS
  <1>3. fee \in Nat
    <2>1. k \in Nat
      OBVIOUS
    <2> HIDE DEF k
    <2> QED
      BY <1>2, <2>1, FeeIsNat
  <1>4. v \in Int
    BY SumExists, WorthIsSum
  <1>5. h \in Int
    BY <1>1
  <1>6. target \in Int /\ target + h >= v + burnt + fee
    <2>1. target = v + burnt + guess /\ guess + h >= fee /\ guess \in Nat
      BY <1>1
    <2> HIDE DEF guess, fee, v, h
    <2>2. target \in Int
      BY <1>4, <2>1
    <2>3. target + h >= v + burnt + fee
      BY <1>3, <1>4, <1>5, <2>1
    <2> QED
      BY <2>2, <2>3
  <1> HIDE DEF guess
  <1> QED
    BY <1>1, <1>2, <1>6 DEF Affordable

\* So is the fee of one coin for each of them.
LEMMA EachAffords ==
    ASSUME SpendingAssumption, NEW p \in Priorities, NEW top \in 0 .. 3, NEW m \in 0 .. top,
           NEW s, Len(s) \in Nat \ {0},
           NEW paid \in Seq(Outs), Amounts(paid), Len(paid) \in 0 .. 2,
           NEW burnt \in Int, NEW op, op # "sweep", NEW to, op = "burn" \/ to \in SpendAssets,
           NEW target, target = Worth(paid) + burnt,
           NEW per, per = EstimateTransactionFee(1, top, p),
           Worth(s) - target - per * Len(s) > 0 => Len(paid) + 1 <= m
    PROVE  Affordable(target, per, s, op, paid, burnt, m, p, to)
  <1> DEFINE k == Len(s)
             fee == EstimateTransactionFee(k, m, p)
             v == Worth(paid)
             h == per * k
  <1>1. per \in Nat /\ per * k >= fee
    <2>1. k \in Nat \ {0}
      OBVIOUS
    <2> HIDE DEF k
    <2> QED
      BY <2>1, EachPays
  <1>2. m \in 0 .. 3
    OBVIOUS
  <1>3. fee \in Nat
    <2>1. k \in Nat
      OBVIOUS
    <2> HIDE DEF k
    <2> QED
      BY <1>2, <2>1, FeeIsNat
  <1>4. v \in Int
    BY SumExists, WorthIsSum
  <1>5. h \in Int
    BY <1>1
  <1>6. target \in Int /\ target + h >= v + burnt + fee
    <2>1. target = v + burnt /\ h >= fee
      BY <1>1
    <2> HIDE DEF fee, v, h
    <2> QED
      BY <1>1, <1>3, <1>4, <1>5, <2>1
  <1> QED
    BY <1>1, <1>2, <1>6 DEF Affordable

\* And so is the fee itself, when it comes out of what is paid.
LEMMA LessAffords ==
    ASSUME SpendingAssumption, NEW p \in Priorities, NEW m \in 0 .. 3,
           NEW s, Len(s) \in Nat \ {0},
           NEW paid \in Seq(Outs), Amounts(paid), Len(paid) \in 0 .. 2,
           NEW burnt \in Int, NEW op, op # "sweep", NEW to, op = "burn" \/ to \in SpendAssets,
           NEW target, target = Worth(paid) + burnt + EstimateTransactionFee(Len(s), m, p),
           NEW per \in Nat,
           Worth(s) - target - per * Len(s) > 0 => Len(paid) + 1 <= m
    PROVE  Affordable(target, per, s, op, paid, burnt, m, p, to)
  <1> DEFINE k == Len(s)
             fee == EstimateTransactionFee(k, m, p)
             v == Worth(paid)
             h == per * k
  <1>1. fee \in Nat
    <2>1. k \in Nat
      OBVIOUS
    <2> HIDE DEF k
    <2> QED
      BY <2>1, FeeIsNat
  <1>2. v \in Int
    BY SumExists, WorthIsSum
  <1>3. h \in Nat
    <2>1. k \in Nat
      OBVIOUS
    <2> HIDE DEF k
    <2> QED
      BY <2>1
  <1>4. target \in Int /\ target + h >= v + burnt + fee
    <2>1. target = v + burnt + fee
      OBVIOUS
    <2> HIDE DEF fee, v, h
    <2> QED
      BY <1>1, <1>2, <1>3, <2>1
  <1> QED
    BY <1>4 DEF Affordable

\* What is selected is a list.
LEMMA SelectedIsList ==
    ASSUME SpendingAssumption, PurseKept, NEW asset, NEW target, NEW per, NEW strategy,
           NEW s \in Selected(asset, target, per, strategy), s # <<>>
    PROVE  Len(s) \in Nat \ {0}
  BY SelectionCovers DEF Picks

\* stake() of wallet/transfer.js.
LEMMA StakeKeeps ==
    ASSUME SpendingAssumption, PurseKept, NEW a \in Nat, NEW p \in Priorities, StakeCall(a, p)
    PROVE  AttemptKept(built', asked')
  <1> DEFINE guess == EstimateTransactionFee(2, 1, p)
             target == a + guess
             per == guess \div 2
             none == <<>>
  <1>1. PICK s \in Selected("SAL", target, per, "largest") :
           /\ built' = IF s = <<>> THEN NotBuilt("stake", "selection")
                       ELSE BuildStakeTransaction(s, a,
                              EstimateTransactionFee(Len(s), Plus(Worth(s) - target - per * Len(s)), p))
           /\ asked' = [priority |-> p, left |-> Worth(s) - target - per * Len(s)]
    BY DEF StakeCall, Call
  <1>2. CASE s = <<>>
    BY <1>1, <1>2, NothingBuilt
  <1>3. CASE s # <<>>
    <2> DEFINE left == Worth(s) - target - per * Len(s)
               m == Plus(left)
    <2>1. none \in Seq(Outs) /\ Amounts(none) /\ Len(none) = 0 /\ Worth(none) = 0
      BY NoPayments
    <2>2. m \in 0 .. 1 /\ (left > 0 => m = 1)
      BY DEF Plus
    <2>3. built' = BuildTransaction("stake", s, none, a, EstimateTransactionFee(Len(s), m, p), TRUE, "SAL")
      BY <1>1, <1>3 DEF BuildStakeTransaction
    <2>4. asked' = [priority |-> p, left |-> left]
      BY <1>1
    <2>5. "SAL" \in SpendAssets /\ "stake" # "sweep" /\ a \in Int /\ 1 \in 0 .. 3
      BY DEF SpendAssets
    <2>6. target = Worth(none) + a + guess
      <3>1. guess \in Nat
        BY <2>5, FeeIsNat
      <3> HIDE DEF guess, none
      <3> QED
        BY <2>1, <3>1
    <2> HIDE DEF m, none, target
    <2>7. Len(s) \in Nat \ {0}
      <3> HIDE DEF per
      <3> QED
        BY <1>3, SelectedIsList
    <2>8. Affordable(target, per, s, "stake", none, a, m, p, "SAL")
      <3>1. Len(none) \in 0 .. 2 /\ (left > 0 => Len(none) + 1 <= m)
        BY <2>1, <2>2
      <3> QED
        BY <2>1, <2>2, <2>5, <2>6, <2>7, <3>1, GuessAffords
    <2> HIDE DEF per
    <2> QED
      BY <1>3, <2>3, <2>4, <2>5, <2>8, SelectedKeeps
  <1> QED
    BY <1>2, <1>3

\* burn() of wallet/transfer.js.
LEMMA BurnKeeps ==
    ASSUME SpendingAssumption, PurseKept, NEW a \in Nat, NEW p \in Priorities, BurnCall(a, p)
    PROVE  AttemptKept(built', asked')
  <1> DEFINE guess == EstimateTransactionFee(2, 1, p)
             target == a + guess
             per == guess \div 2
             none == <<>>
  <1>1. PICK s \in Selected("SAL", target, per, "largest") :
           /\ built' = IF s = <<>> THEN NotBuilt("burn", "selection")
                       ELSE BuildBurnTransaction(s, a, EstimateTransactionFee(Len(s), 1, p))
           /\ asked' = [priority |-> p, left |-> Worth(s) - target - per * Len(s)]
    BY DEF BurnCall, Call
  <1>2. CASE s = <<>>
    BY <1>1, <1>2, NothingBuilt
  <1>3. CASE s # <<>>
    <2> DEFINE left == Worth(s) - target - per * Len(s)
    <2>1. none \in Seq(Outs) /\ Amounts(none) /\ Len(none) = 0 /\ Worth(none) = 0
      BY NoPayments
    <2>2. built' = BuildTransaction("burn", s, none, a, EstimateTransactionFee(Len(s), 1, p), TRUE, "BURN")
      BY <1>1, <1>3 DEF BuildBurnTransaction
    <2>3. asked' = [priority |-> p, left |-> left]
      BY <1>1
    <2>4. "SAL" \in SpendAssets /\ "burn" # "sweep" /\ a \in Int /\ 1 \in 0 .. 3 /\ 1 \in 0 .. 1
      BY DEF SpendAssets
    <2>5. target = Worth(none) + a + guess
      <3>1. guess \in Nat
        BY <2>4, FeeIsNat
      <3> HIDE DEF guess, none
      <3> QED
        BY <2>1, <3>1
    <2> HIDE DEF none, target
    <2>6. Len(s) \in Nat \ {0}
      <3> HIDE DEF per
      <3> QED
        BY <1>3, SelectedIsList
    <2>7. Affordable(target, per, s, "burn", none, a, 1, p, "BURN")
      <3>1. Len(none) \in 0 .. 2 /\ (left > 0 => Len(none) + 1 <= 1)
        BY <2>1
      <3> QED
        BY <2>1, <2>4, <2>5, <2>6, <3>1, GuessAffords
    <2> HIDE DEF per
    <2> QED
      BY <1>3, <2>2, <2>3, <2>4, <2>7, SelectedKeeps
  <1> QED
    BY <1>2, <1>3

\* convert() of wallet/transfer.js builds nothing.
LEMMA ConvertKeeps ==
    ASSUME NEW a, NEW p, ConvertCall(a, p)
    PROVE  AttemptKept(built', asked')
  <1>1. \/ built' = NotBuilt("convert", "selection")
        \/ built' = NotBuilt("convert", "source asset required")
    BY DEF ConvertCall, Call
  <1> QED
    BY <1>1, NothingBuilt

\* A transfer of the amounts of a list of one or two to as many addresses.
LEMMA TransferKeeps ==
    ASSUME SpendingAssumption, PurseKept, NEW a \in Nat, NEW more \in {<<>>, <<a>>},
           NEW subtract \in BOOLEAN, NEW p \in Priorities, TransferCall(<<a>> \o more, subtract, p)
    PROVE  AttemptKept(built', asked')
  <1> DEFINE amounts == <<a>> \o more
             n == Len(amounts)
             total == Worth(Paid(amounts))
             guess == EstimateTransactionFee(2, n + 1, p)
             target == IF subtract THEN total ELSE total + guess
             per == guess \div 2
             Left(s) == Worth(s) - target - per * Len(s)
             Fee(s) == EstimateTransactionFee(Len(s), n + Plus(Left(s)), p)
             First(s) == IF subtract THEN amounts[1] - Fee(s) ELSE amounts[1]
  <1>1. PICK s \in Selected("SAL", target, per, "largest") :
           /\ built' = IF s = <<>> THEN NotBuilt("transfer", "selection")
                       ELSE IF First(s) <= 0 THEN NotBuilt("transfer", "too small")
                       ELSE BuildTransaction("transfer", s, Paid([amounts EXCEPT ![1] = First(s)]),
                                             0, Fee(s), TRUE, "SAL")
           /\ asked' = [priority |-> p, left |-> Left(s)]
    BY DEF TransferCall, Call
  <1> HIDE DEF First
  <1>2. CASE s = <<>>
    BY <1>1, <1>2, NothingBuilt
  <1>3. CASE First(s) <= 0
    BY <1>1, <1>2, <1>3, NothingBuilt
  <1>4. CASE s # <<>> /\ ~(First(s) <= 0)
    <2> DEFINE first == First(s)
               left == Left(s)
               m == n + Plus(left)
               fee == Fee(s)
               paid == Paid([amounts EXCEPT ![1] = first])
    <2>1. built' = BuildTransaction("transfer", s, paid, 0, fee, TRUE, "SAL")
      BY <1>1, <1>4
    <2>2. asked' = [priority |-> p, left |-> left]
      BY <1>1
    <2>3. n \in 1 .. 2 /\ amounts[1] = a /\ total \in Int
      <3>1. CASE more = <<>>
        <4>1. amounts = <<a>>
          BY <3>1
        <4> HIDE DEF amounts
        <4>2. Worth(Paid(<<a>>)) = a
          BY PaymentIs
        <4> QED
          BY <4>1, <4>2
      <3>2. CASE more = <<a>>
        <4>1. amounts = <<a, a>>
          BY <3>2, PairIs
        <4> HIDE DEF amounts
        <4>2. Worth(Paid(<<a, a>>)) = a + a
          BY PaymentsAre
        <4> QED
          BY <4>1, <4>2
      <3> QED
        BY <3>1, <3>2
    <2>4. m \in 0 .. n + 1 /\ n + 1 \in 0 .. 3 /\ (left > 0 => n + 1 <= m)
      BY <2>3 DEF Plus
    <2>5. per \in Nat
      <3> HIDE DEF n
      <3>1. guess \in Nat
        BY <2>4, FeeIsNat
      <3> QED
        BY <3>1
    <2>6. Len(s) \in Nat \ {0}
      <3> HIDE DEF per, target
      <3> QED
        BY <1>4, SelectedIsList
    <2>7. fee \in Nat /\ m \in 0 .. 3 /\ fee = EstimateTransactionFee(Len(s), m, p)
      <3>1. m \in 0 .. 3 /\ Len(s) \in Nat
        BY <2>4, <2>6
      <3>2. fee = EstimateTransactionFee(Len(s), m, p)
        OBVIOUS
      <3> HIDE DEF m, fee
      <3> QED
        BY <3>1, <3>2, FeeIsNat
    <2> HIDE DEF m, left
    <2>8. first \in Int /\ first = (IF subtract THEN a - fee ELSE a)
      <3>1. first = (IF subtract THEN a - fee ELSE a)
        BY <2>3 DEF First
      <3> QED
        BY <2>7, <3>1
    <2> HIDE DEF fee, first
    <2>9. /\ paid \in Seq(Outs) /\ Amounts(paid) /\ Len(paid) = n
          /\ Worth(paid) = total - a + first
      <3>1. CASE more = <<>>
        <4>1. amounts = <<a>>
          BY <3>1
        <4>2. [amounts EXCEPT ![1] = first] = <<first>>
          BY <3>1
        <4>3. Worth(Paid(<<a>>)) = a
          BY PaymentIs
        <4>4. /\ Paid(<<first>>) \in Seq(Outs) /\ Amounts(Paid(<<first>>)) /\ Len(Paid(<<first>>)) = 1
              /\ Worth(Paid(<<first>>)) = first
          BY <2>8, PaymentIs
        <4>5. n = 1
          <5> HIDE DEF amounts
          <5> QED
            BY <4>1
        <4> HIDE DEF amounts
        <4>6. paid = Paid(<<first>>) /\ total = a
          BY <4>1, <4>2, <4>3
        <4> HIDE DEF paid, total
        <4> QED
          BY <2>8, <4>4, <4>5, <4>6
      <3>2. CASE more = <<a>>
        <4>1. amounts = <<a, a>>
          BY <3>2, PairIs
        <4>2. [amounts EXCEPT ![1] = first] = <<first, a>>
          BY <4>1
        <4>3. Worth(Paid(<<a, a>>)) = a + a
          BY PaymentsAre
        <4>4. /\ Paid(<<first, a>>) \in Seq(Outs) /\ Amounts(Paid(<<first, a>>))
              /\ Len(Paid(<<first, a>>)) = 2 /\ Worth(Paid(<<first, a>>)) = first + a
          BY <2>8, PaymentsAre
        <4>5. n = 2
          <5> HIDE DEF amounts
          <5> QED
            BY <4>1
        <4> HIDE DEF amounts
        <4>6. paid = Paid(<<first, a>>) /\ total = a + a
          BY <4>1, <4>2, <4>3
        <4> HIDE DEF paid, total
        <4> QED
          BY <2>8, <4>4, <4>5, <4>6
      <3> QED
        BY <3>1, <3>2
    <2>10. "SAL" \in SpendAssets /\ "transfer" # "sweep" /\ 0 \in Int
      BY DEF SpendAssets
    <2>11. left = Worth(s) - target - per * Len(s)
      BY DEF left
    <2> HIDE DEF Left, Fee, paid, total, amounts
    <2>12. Len(paid) \in 0 .. 2 /\ (left > 0 => Len(paid) + 1 <= m)
      BY <2>3, <2>4, <2>9
    <2>13. Affordable(target, per, s, "transfer", paid, 0, m, p, "SAL")
      <3>1. CASE subtract
        <4>1. target = Worth(paid) + 0 + EstimateTransactionFee(Len(s), m, p)
          BY <2>3, <2>7, <2>8, <2>9, <3>1
        <4> HIDE DEF target, per, n
        <4> QED
          BY <2>5, <2>6, <2>7, <2>9, <2>10, <2>11, <2>12, <4>1, LessAffords
      <3>2. CASE ~subtract
        <4>1. guess \in Nat
          <5> HIDE DEF n
          <5> QED
            BY <2>4, FeeIsNat
        <4>2. target = Worth(paid) + 0 + guess
          <5> HIDE DEF guess
          <5> QED
            BY <2>3, <2>8, <2>9, <3>2, <4>1
        <4>3. per = guess \div 2
          OBVIOUS
        <4> HIDE DEF target, per, n
        <4> QED
          BY <2>4, <2>6, <2>9, <2>10, <2>11, <2>12, <4>2, <4>3, GuessAffords
      <3> QED
        BY <3>1, <3>2
    <2> HIDE DEF target, per
    <2> QED
      BY <1>4, <2>1, <2>2, <2>7, <2>10, <2>11, <2>13, SelectedKeeps
  <1> QED
    BY <1>2, <1>3, <1>4

\* A list of ripe coins, each once, has amounts.
LEMMA PicksHaveAmounts ==
    ASSUME PurseKept, NEW asset, NEW s, Picks(s, asset)
    PROVE  Amounts(s) /\ Worth(s) \in Int
  <1>1. HaveAmounts(Ripe(asset)) /\ Len(s) \in Nat /\ s \in [1 .. Len(s) -> Ripe(asset)]
    BY RipeCoins DEF Picks
  <1>2. Amounts(s)
    BY <1>1, ListHasAmounts
  <1> QED
    BY <1>2, SumExists, WorthIsSum

\* All the ripe coins in an order.
LEMMA OrdersAreLists ==
    ASSUME PurseKept, NEW asset, NEW strategy, NEW s \in CoinOrders(Ripe(asset), strategy)
    PROVE  Lists(s, Ripe(asset))
  <1>1. s \in SetToSeqs(Ripe(asset)) /\ IsFiniteSet(Ripe(asset))
    BY RipeCoins DEF CoinOrders
  <1> QED
    BY <1>1, SetIsListed

\* sweep() of wallet/transfer.js.
LEMMA SweepKeeps ==
    ASSUME SpendingAssumption, PurseKept, NEW p \in Priorities, SweepCall(p)
    PROVE  AttemptKept(built', asked')
  <1> DEFINE Count(s) == Min({Len(s), MostSwept})
             All(s) == SubSeq(s, 1, Count(s))
             Fee(s) == EstimateTransactionFee(Len(All(s)), 1, p)
             Amount(s) == Worth(All(s)) - Fee(s)
  <1>1. PICK s \in CoinOrders(Ripe("SAL"), "largest") :
           /\ Ripe("SAL") # {}
           /\ built' = IF Amount(s) <= 0 THEN NotBuilt("sweep", "too small")
                       ELSE BuildTransaction("sweep", All(s), Paid(<<Amount(s)>>), 0, Fee(s), FALSE, "SAL")
           /\ asked' = [priority |-> p, left |-> 0]
    BY DEF SweepCall
  <1>2. CASE Amount(s) <= 0
    <2> HIDE DEF Amount
    <2> QED
      BY <1>1, <1>2, NothingBuilt
  <1>3. CASE ~(Amount(s) <= 0)
    <2> DEFINE n == Count(s)
               all == All(s)
               fee == Fee(s)
               amount == Amount(s)
               paid == Paid(<<amount>>)
    <2>1. /\ n = Min({Len(s), MostSwept}) /\ all = SubSeq(s, 1, n)
          /\ fee = EstimateTransactionFee(Len(all), 1, p) /\ amount = Worth(all) - fee
          /\ built' = BuildTransaction("sweep", all, paid, 0, fee, FALSE, "SAL")
      BY <1>1, <1>3
    <2> HIDE DEF n, all, fee, amount, Amount, Fee, All, Count
    <2>2. Lists(s, Ripe("SAL")) /\ Len(s) \in Nat \ {0}
      <3>1. Lists(s, Ripe("SAL")) /\ Ripe("SAL") # {}
        BY <1>1, OrdersAreLists
      <3> QED
        BY <3>1 DEF Lists
    <2>3. n \in 1 .. Len(s)
      <3> DEFINE k == Len(s)
                 both == {k, MostSwept}
      <3>1. k \in Nat \ {0} /\ MostSwept \in Nat \ {0} /\ n = Min(both)
        BY <2>1, <2>2 DEF SpendingAssumption
      <3> HIDE DEF k
      <3>2. \E x \in both : \A y \in both : x <= y
        BY <3>1
      <3>3. n \in both /\ \A y \in both : n <= y
        <4> HIDE DEF both
        <4> QED
          BY <3>1, <3>2 DEF Min
      <3>4. n \in 1 .. k
        BY <3>1, <3>3
      <3> QED
        BY <3>4 DEF k
    <2>4. Picks(all, "SAL") /\ Len(all) = n
      BY <2>1, <2>2, <2>3, BeginningPicks
    <2>5. Worth(all) \in Int /\ Len(all) \in Nat
      BY <2>3, <2>4, PicksHaveAmounts
    <2>6. fee \in Nat
      <3>1. 1 \in 0 .. 3
        OBVIOUS
      <3> QED
        BY <2>1, <2>5, <3>1, FeeIsNat
    <2>7. amount \in Int /\ Worth(all) - amount - 0 - fee = 0
      <3> DEFINE w == Worth(all)
      <3>1. w \in Int /\ amount = w - fee
        BY <2>1, <2>5
      <3> HIDE DEF w, paid
      <3>2. amount \in Int /\ w - amount - 0 - fee = 0
        BY <2>6, <3>1
      <3> QED
        BY <3>2 DEF w
    <2>10. paid \in Seq(Outs) /\ Amounts(paid) /\ Len(paid) = 1 /\ Worth(paid) = amount
      BY <2>7, PaymentIs
    <2> HIDE DEF paid
    <2>11. Worth(all) - Worth(paid) - 0 - EstimateTransactionFee(Len(all), 1, p) = 0
      <3> QED
        BY <2>1, <2>7, <2>10
    <2>12. /\ Worth(all) - Worth(paid) - 0 - EstimateTransactionFee(Len(all), 1, p) >= 0
           /\ Len(paid) \in 0 .. 2 /\ Len(paid) <= 1 /\ 1 \in 0 .. 3 /\ 0 \in Int /\ ~(0 > 0)
      BY <2>10, <2>11
    <2>13. "SAL" \in SpendAssets
      BY DEF SpendAssets
    <2>14. AttemptKept(BuildTransaction("sweep", all, paid, 0, EstimateTransactionFee(Len(all), 1, p),
                                        FALSE, "SAL"),
                       [priority |-> p, left |-> 0])
      BY <2>4, <2>10, <2>11, <2>12, <2>13, BuildingKeeps
    <2> QED
      BY <1>1, <2>1, <2>14
  <1> QED
    BY <1>2, <1>3

\* createTransaction() of the Wallet class.
LEMMA CreateKeeps ==
    ASSUME SpendingAssumption, PurseKept, NEW a \in Int, NEW strategy, NEW p \in Priorities,
           CreateTransaction(<<a>>, strategy, p)
    PROVE  AttemptKept(built', asked')
  <1> DEFINE n == Len(<<a>>)
             paid == Paid(<<a>>)
             target == Worth(paid)
             per == EstimateTransactionFee(1, n + 1, p)
  <1>1. PICK s \in Selected("SAL", target, per, strategy) :
           /\ built' = IF s = <<>> THEN NotBuilt("create", "selection")
                       ELSE BuildTransaction("create", s, paid, 0,
                              EstimateTransactionFee(Len(s), n + Plus(Worth(s) - target - per * Len(s)), p),
                              TRUE, "SAL")
           /\ asked' = [priority |-> p, left |-> Worth(s) - target - per * Len(s)]
    BY DEF CreateTransaction, Call
  <1>2. CASE s = <<>>
    BY <1>1, <1>2, NothingBuilt
  <1>3. CASE s # <<>>
    <2> DEFINE left == Worth(s) - target - per * Len(s)
               m == n + Plus(left)
    <2>1. paid \in Seq(Outs) /\ Amounts(paid) /\ Len(paid) = 1 /\ Worth(paid) = a /\ n = 1
      BY PaymentIs
    <2>2. m \in 0 .. 2 /\ 2 \in 0 .. 3 /\ (left > 0 => Len(paid) + 1 <= m)
      <3>1. m = n + Plus(left) /\ Plus(left) \in 0 .. 1 /\ (left > 0 => Plus(left) = 1)
        BY DEF Plus
      <3> HIDE DEF m, n, left, paid
      <3> QED
        BY <2>1, <3>1
    <2>3. built' = BuildTransaction("create", s, paid, 0, EstimateTransactionFee(Len(s), m, p), TRUE, "SAL")
      BY <1>1, <1>3
    <2>4. asked' = [priority |-> p, left |-> left]
      BY <1>1
    <2>5. "SAL" \in SpendAssets /\ "create" # "sweep" /\ 0 \in Int
      BY DEF SpendAssets
    <2>6. target = Worth(paid) + 0 /\ per = EstimateTransactionFee(1, 2, p)
      BY <2>1
    <2> HIDE DEF m, paid, target, per, n
    <2>7. Len(s) \in Nat \ {0}
      BY <1>3, SelectedIsList
    <2>8. Affordable(target, per, s, "create", paid, 0, m, p, "SAL")
      <3>1. Len(paid) \in 0 .. 2
        BY <2>1
      <3> QED
        BY <2>1, <2>2, <2>5, <2>6, <2>7, <3>1, EachAffords
    <2> QED
      BY <1>3, <2>3, <2>4, <2>5, <2>8, SelectedKeeps
  <1> QED
    BY <1>2, <1>3

\* What the calls that burn have in common: one fee for each coin, nothing paid.
LEMMA BurningKeeps ==
    ASSUME SpendingAssumption, PurseKept, NEW asset \in SpendAssets, NEW a \in Nat,
           NEW p \in Priorities, NEW op, op # "sweep", NEW to, op = "burn" \/ to \in SpendAssets,
           NEW per, per = EstimateTransactionFee(1, 1, p),
           NEW s \in Selected(asset, a, per, "largest"), s # <<>>
    PROVE  AttemptKept(BuildTransaction(op, s, <<>>, a, EstimateTransactionFee(Len(s), 1, p), TRUE, to),
                       [priority |-> p, left |-> Worth(s) - a - per * Len(s)])
  <1> DEFINE none == <<>>
             left == Worth(s) - a - per * Len(s)
  <1>1. none \in Seq(Outs) /\ Amounts(none) /\ Len(none) = 0 /\ Worth(none) = 0
    BY NoPayments
  <1>2. a \in Int /\ 1 \in 0 .. 3 /\ 1 \in 0 .. 1
    OBVIOUS
  <1> HIDE DEF none
  <1>3. a = Worth(none) + a /\ Len(none) \in 0 .. 2 /\ (left > 0 => Len(none) + 1 <= 1)
    BY <1>1
  <1>4. Len(s) \in Nat \ {0}
    BY <1>2, SelectedIsList
  <1>5. Affordable(a, per, s, op, none, a, 1, p, to)
    BY <1>1, <1>2, <1>3, <1>4, EachAffords
  <1>6. AttemptKept(BuildTransaction(op, s, none, a, EstimateTransactionFee(Len(s), 1, p), TRUE, to),
                    [priority |-> p, left |-> left])
    BY <1>2, <1>5, SelectedKeeps
  <1> QED
    BY <1>2, <1>6 DEF none

\* createStakeTransaction() of the Wallet class.
LEMMA CreateStakeKeeps ==
    ASSUME SpendingAssumption, PurseKept, NEW a \in Nat, NEW p \in Priorities,
           CreateStakeTransaction(a, p)
    PROVE  AttemptKept(built', asked')
  <1> DEFINE per == EstimateTransactionFee(1, 1, p)
  <1>1. PICK s \in Selected("SAL", a, per, "largest") :
           /\ built' = IF s = <<>> THEN NotBuilt("stake", "selection")
                       ELSE BuildStakeTransaction(s, a, EstimateTransactionFee(Len(s), 1, p))
           /\ asked' = [priority |-> p, left |-> Worth(s) - a - per * Len(s)]
    BY DEF CreateStakeTransaction, CreateBurning, Call
  <1>2. "SAL" \in SpendAssets /\ "stake" # "sweep"
    BY DEF SpendAssets
  <1>3. CASE s = <<>>
    BY <1>1, <1>3, NothingBuilt
  <1>4. CASE s # <<>>
    <2>1. built' = BuildTransaction("stake", s, <<>>, a, EstimateTransactionFee(Len(s), 1, p), TRUE, "SAL")
      BY <1>1, <1>4 DEF BuildStakeTransaction
    <2>2. per = EstimateTransactionFee(1, 1, p)
      OBVIOUS
    <2> HIDE DEF per
    <2>3. AttemptKept(BuildTransaction("stake", s, <<>>, a, EstimateTransactionFee(Len(s), 1, p), TRUE, "SAL"),
                      [priority |-> p, left |-> Worth(s) - a - per * Len(s)])
      BY <1>2, <1>4, <2>2, BurningKeeps
    <2> QED
      BY <1>1, <2>1, <2>3
  <1> QED
    BY <1>3, <1>4

\* createBurnTransaction() of the Wallet class.
LEMMA CreateBurnKeeps ==
    ASSUME SpendingAssumption, PurseKept, NEW a \in Nat, NEW p \in Priorities,
           CreateBurnTransaction(a, p)
    PROVE  AttemptKept(built', asked')
  <1> DEFINE per == EstimateTransactionFee(1, 1, p)
  <1>1. PICK s \in Selected("SAL", a, per, "largest") :
           /\ built' = IF s = <<>> THEN NotBuilt("burn", "selection")
                       ELSE BuildBurnTransaction(s, a, EstimateTransactionFee(Len(s), 1, p))
           /\ asked' = [priority |-> p, left |-> Worth(s) - a - per * Len(s)]
    BY DEF CreateBurnTransaction, CreateBurning, Call
  <1>2. "SAL" \in SpendAssets /\ "burn" # "sweep"
    BY DEF SpendAssets
  <1>3. CASE s = <<>>
    BY <1>1, <1>3, NothingBuilt
  <1>4. CASE s # <<>>
    <2>1. built' = BuildTransaction("burn", s, <<>>, a, EstimateTransactionFee(Len(s), 1, p), TRUE, "BURN")
      BY <1>1, <1>4 DEF BuildBurnTransaction
    <2>2. per = EstimateTransactionFee(1, 1, p)
      OBVIOUS
    <2> HIDE DEF per
    <2>3. AttemptKept(BuildTransaction("burn", s, <<>>, a, EstimateTransactionFee(Len(s), 1, p), TRUE, "BURN"),
                      [priority |-> p, left |-> Worth(s) - a - per * Len(s)])
      BY <1>2, <1>4, <2>2, BurningKeeps
    <2> QED
      BY <1>1, <2>1, <2>3
  <1> QED
    BY <1>3, <1>4

\* createConvertTransaction() of the Wallet class.
LEMMA CreateConvertKeeps ==
    ASSUME SpendingAssumption, PurseKept, NEW a \in Nat, NEW slip, NEW from \in SpendAssets,
           NEW p \in Priorities, CreateConvertTransaction(a, slip, from, p)
    PROVE  AttemptKept(built', asked')
  <1> DEFINE per == EstimateTransactionFee(1, 1, p)
             to == CHOOSE b \in SpendAssets : b # from
  <1>1. CASE slip # 0 /\ slip < a \div 32
    <2>1. built' = NotBuilt("convert", "slippage below the minimum")
      BY <1>1 DEF CreateConvertTransaction
    <2> QED
      BY <2>1, NothingBuilt
  <1>2. CASE ~(slip # 0 /\ slip < a \div 32)
    <2>1. PICK s \in Selected(from, a, per, "largest") :
             /\ built' = IF s = <<>> THEN NotBuilt("convert", "selection")
                         ELSE BuildConvertTransaction(s, a, EstimateTransactionFee(Len(s), 1, p), to)
             /\ asked' = [priority |-> p, left |-> Worth(s) - a - per * Len(s)]
      BY <1>2 DEF CreateConvertTransaction, CreateBurning, Call
    <2>2. to \in SpendAssets /\ "convert" # "sweep"
      <3>1. \E b \in SpendAssets : b # from
        BY DEF SpendAssets
      <3> QED
        BY <3>1
    <2> HIDE DEF to
    <2>3. CASE s = <<>>
      BY <2>1, <2>3, NothingBuilt
    <2>4. CASE s # <<>>
      <3>1. built' = BuildTransaction("convert", s, <<>>, a, EstimateTransactionFee(Len(s), 1, p), TRUE, to)
        BY <2>1, <2>4 DEF BuildConvertTransaction
      <3>2. per = EstimateTransactionFee(1, 1, p)
        OBVIOUS
      <3> HIDE DEF per
      <3>3. AttemptKept(BuildTransaction("convert", s, <<>>, a, EstimateTransactionFee(Len(s), 1, p), TRUE, to),
                        [priority |-> p, left |-> Worth(s) - a - per * Len(s)])
        BY <2>2, <2>4, <3>2, BurningKeeps
      <3> QED
        BY <2>1, <3>1, <3>3
    <2> QED
      BY <2>3, <2>4
  <1> QED
    BY <1>1, <1>2

\* createAuditTransaction() leaves no output to build.
LEMMA CreateAuditKeeps ==
    ASSUME SpendingAssumption, PurseKept, NEW p \in Priorities, CreateAuditTransaction(p)
    PROVE  AttemptKept(built', asked')
  <1> DEFINE Fee(s) == EstimateTransactionFee(Len(s), 0, p)
  <1>1. PICK s \in CoinOrders(Ripe("SAL"), "any") :
           built' = IF Worth(s) <= Fee(s) THEN NotBuilt("audit", "too small")
                    ELSE BuildAuditTransaction(s, Fee(s))
    BY DEF CreateAuditTransaction
  <1> DEFINE fee == Fee(s)
  <1>2. Lists(s, Ripe("SAL")) /\ HaveAmounts(Ripe("SAL"))
    BY OrdersAreLists, RipeCoins
  <1>3. Worth(s) \in Int /\ Len(s) \in Nat
    <2>1. Amounts(s)
      BY <1>2, ListHasAmounts DEF Lists
    <2> QED
      BY <1>2, <2>1, SumExists, WorthIsSum DEF Lists
  <1>4. fee \in Nat
    <2>1. 0 \in 0 .. 3
      OBVIOUS
    <2> QED
      BY <1>3, <2>1, FeeIsNat
  <1> HIDE DEF Fee
  <1>5. BuildAuditTransaction(s, fee) = NotBuilt("audit", "no outputs")
    <2> DEFINE w == Worth(s)
               v == Worth(<<>>)
               change == w - v - (w - fee) - fee
               back == [amount |-> change, asset |-> "SAL1"]
               outs == <<>> \o IF change > 0 /\ FALSE THEN <<back>> ELSE <<>>
               tx == [op |-> "audit", failed |-> "no", ins |-> s, outs |-> outs, paid |-> <<>>,
                      burnt |-> w - fee, fee |-> fee, asset |-> s[1].asset]
    <2>1. BuildAuditTransaction(s, fee) =
             CASE change < 0 -> NotBuilt("audit", "insufficient")
               [] change >= 0 /\ outs = <<>> -> NotBuilt("audit", "no outputs")
               [] OTHER -> tx
      BY DEF BuildAuditTransaction, BuildTransaction
    <2>2. change = 0
      <3>1. w \in Int /\ v = 0
        BY <1>3, WorthOfNone
      <3> HIDE DEF w, v
      <3> QED
        BY <1>4, <3>1
    <2>3. outs = <<>>
      <3> HIDE DEF change
      <3>1. outs = <<>> \o <<>>
        OBVIOUS
      <3> QED
        BY <3>1
    <2>4. ~(change < 0) /\ change >= 0
      BY <2>2
    <2> HIDE DEF change, outs, tx
    <2> QED
      BY <2>1, <2>3, <2>4
  <1> QED
    BY <1>1, <1>5, NothingBuilt

\* sweepAll() of the Wallet class.
LEMMA SweepAllKeeps ==
    ASSUME SpendingAssumption, PurseKept, NEW p \in Priorities, SweepAll(p)
    PROVE  AttemptKept(built', asked')
  <1> DEFINE s == SetToSeq(Ripe("SAL"))
             fee == EstimateTransactionFee(Len(s), 1, p)
  <1>1. Lists(s, Ripe("SAL")) /\ HaveAmounts(Ripe("SAL"))
    BY RipeCoins, SetIsListed
  <1>2. \/ built' = NotBuilt("create", "too small")
        \/ CreateTransaction(<<Worth(s) - fee>>, "largest", p)
    BY DEF SweepAll
  <1> HIDE DEF s
  <1>3. Worth(s) \in Int /\ Len(s) \in Nat
    <2>1. Amounts(s)
      BY <1>1, ListHasAmounts DEF Lists
    <2> QED
      BY <1>1, <2>1, SumExists, WorthIsSum DEF Lists
  <1>4. fee \in Nat
    <2>1. 1 \in 0 .. 3
      OBVIOUS
    <2> QED
      BY <1>3, <2>1, FeeIsNat
  <1>5. Worth(s) - fee \in Int
    BY <1>3, <1>4
  <1> DEFINE a == Worth(s) - fee
  <1>6. a \in Int /\ (built' = NotBuilt("create", "too small") \/ CreateTransaction(<<a>>, "largest", p))
    BY <1>2, <1>5
  <1> HIDE DEF a
  <1> QED
    BY <1>6, NothingBuilt, CreateKeeps

\* sweepDust() builds nothing.
LEMMA SweepDustKeeps ==
    ASSUME NEW t, NEW p, SweepDust(t, p)
    PROVE  AttemptKept(built', asked')
  <1>1. built' = NotBuilt("dust", "too small") \/ built' = NotBuilt("dust", "no keys")
    BY DEF SweepDust
  <1> QED
    BY <1>1, NothingBuilt

-----------------------------------------------------------------------------
(* The steps. *)

\* While ripe coins stay ripe, what was built stays good.
LEMMA AttemptStays ==
    ASSUME \A x : Ripe(x) \subseteq Ripe(x)', AttemptKept(built', asked')
    PROVE  AttemptKept(built, asked)'
  <1>1. \A s, x : Picks(s, x) => /\ Len(s) \in Nat \ {0} /\ s \in [1 .. Len(s) -> Ripe(x)']
                                 /\ \A i, j \in 1 .. Len(s) : s[i] = s[j] => i = j
    BY DEF Picks
  <1>2. Picks(built'.ins, built'.asset) => Picks(built.ins, built.asset)'
    BY <1>1 DEF Picks
  <1>3. TxKept(built') => TxKept(built)'
    BY <1>2 DEF TxKept, ChangeOf
  <1> QED
    BY <1>3 DEF AttemptKept

\* A call changes neither the purse nor the account.
LEMMA CallStep ==
    ASSUME SpendsKept, UNCHANGED <<purse, spendHeight, account>>, AttemptKept(built', asked')
    PROVE  SpendsKept'
  <1>1. \A x : Ripe(x)' = Ripe(x)
    BY DEF Ripe, Old
  <1>2. AttemptKept(built, asked)'
    BY <1>1, AttemptStays
  <1>3. PurseKept' /\ KeepsValue'
    BY DEF SpendsKept, PurseKept, KeepsValue
  <1> QED
    BY <1>2, <1>3 DEF SpendsKept

\* A new coin has a number that no coin has.
LEMMA NewCoinIsNew ==
    ASSUME PurseKept, NEW o, o.amount \in Nat, o.asset \in SpendAssets
    PROVE  LET c == NewCoin(account.n + 1, o) IN
           /\ c \in Coins /\ c \notin purse /\ c.amount = o.amount
           /\ c.at = spendHeight /\ c.id = account.n + 1
  <1> DEFINE c == NewCoin(account.n + 1, o)
  <1>1. /\ c = [id |-> account.n + 1, amount |-> o.amount, asset |-> o.asset, at |-> spendHeight]
        /\ account.n \in Nat /\ spendHeight \in Nat
    BY DEF NewCoin, PurseKept
  <1>2. c.id = account.n + 1 /\ c.amount = o.amount /\ c.at = spendHeight /\ c \in Coins
    BY <1>1 DEF Coins
  <1> HIDE DEF c
  <1>3. \A d \in purse : d.id <= account.n /\ d.id \in Nat
    BY DEF PurseKept, Coins
  <1>4. c \notin purse
    BY <1>1, <1>2, <1>3
  <1> QED
    BY <1>2, <1>4 DEF c

\* The purse has a value.
LEMMA PurseHasAmounts ==
    ASSUME PurseKept, NEW S \in SUBSET purse
    PROVE  IsFiniteSet(S) /\ HaveAmounts(S)
  <1>1. IsFiniteSet(S)
    BY FS_Subset DEF PurseKept
  <1> QED
    BY <1>1 DEF PurseKept, HaveAmounts, Coins

\* A coin more is worth its amount more.
LEMMA CoinMore ==
    ASSUME NEW S, IsFiniteSet(S), HaveAmounts(S), NEW c, c \notin S, c.amount \in Nat
    PROVE  /\ Value(S \union {c}) = Value(S) + c.amount
           /\ Value(S) \in Int /\ IsFiniteSet(S \union {c})
  <1> DEFINE T == {c}
  <1>1. IsFiniteSet(T) /\ HaveAmounts(T) /\ S \intersect T = {}
    BY FS_Singleton DEF HaveAmounts
  <1>2. Lists(<<c>>, T)
    BY DEF Lists
  <1>3. Worth(<<c>>) = c.amount
    BY WorthOfOne
  <1> HIDE DEF T
  <1>4. Value(T) = c.amount
    BY <1>1, <1>2, <1>3, ValueOfList
  <1>5. Value(S \union T) = Value(S) + Value(T) /\ Value(S) \in Int
    BY <1>1, ValueOfBoth
  <1>6. IsFiniteSet(S \union T)
    BY <1>1, FS_Union
  <1> QED
    BY <1>4, <1>5, <1>6 DEF T

\* A payment of others.
LEMMA ReceiveStep ==
    ASSUME SpendingAssumption, SpendsKept, NEW a \in PurseAmounts, ReceiveCoin(a)
    PROVE  SpendsKept'
  <1> DEFINE o == [amount |-> a, asset |-> "SAL"]
             c == NewCoin(account.n + 1, o)
  <1>1. /\ purse' = purse \union {c} /\ account' = [account EXCEPT !.n = @ + 1, !.got = @ + a]
        /\ UNCHANGED <<spendHeight, built, asked>>
    BY DEF ReceiveCoin
  <1>2. o.amount = a /\ a \in Nat /\ o.asset \in SpendAssets
    BY DEF SpendingAssumption, SpendAssets
  <1>3. PurseKept /\ AttemptKept(built, asked) /\ KeepsValue
    BY DEF SpendsKept
  <1> HIDE DEF o
  <1>4. /\ c \in Coins /\ c \notin purse /\ c.amount = a
        /\ c.at = spendHeight /\ c.id = account.n + 1
    BY <1>2, <1>3, NewCoinIsNew
  <1> HIDE DEF c
  <1>5. IsFiniteSet(purse) /\ HaveAmounts(purse)
    BY <1>3, PurseHasAmounts
  <1>6. Value(purse') = Value(purse) + a /\ Value(purse) \in Int /\ IsFiniteSet(purse')
    BY <1>1, <1>2, <1>4, <1>5, CoinMore
  <1>7. /\ account'.n = account.n + 1 /\ account'.got = account.got + a
        /\ account'.paid = account.paid /\ account'.burnt = account.burnt
        /\ DOMAIN account' = {"n", "sent", "got", "paid", "burnt", "turned"}
    BY <1>1, <1>3 DEF PurseKept
  <1>8. PurseKept'
    <2>1. purse' \subseteq Coins /\ spendHeight' \in Nat
      BY <1>1, <1>3, <1>4 DEF PurseKept
    <2>2. \A d \in purse' : d.at <= spendHeight' /\ d.id <= account'.n
      <3> SUFFICES ASSUME NEW d \in purse' PROVE d.at <= spendHeight /\ d.id <= account.n + 1
        BY <1>1, <1>7
      <3>1. account.n \in Nat /\ spendHeight \in Nat
        BY <1>3 DEF PurseKept
      <3>2. CASE d = c
        BY <1>4, <3>1, <3>2
      <3>3. CASE d \in purse
        <4>1. d.at <= spendHeight /\ d.id <= account.n /\ d.id \in Nat
          BY <1>3, <3>3 DEF PurseKept, Coins
        <4> QED
          BY <3>1, <4>1
      <3> QED
        BY <1>1, <3>2, <3>3
    <2>3. /\ account'.n \in Nat /\ account'.got \in Int /\ account'.paid \in Int
          /\ account'.burnt \in Int
      BY <1>2, <1>3, <1>7 DEF PurseKept
    <2> QED
      BY <1>6, <1>7, <2>1, <2>2, <2>3 DEF PurseKept
  <1>9. KeepsValue'
    <2>1. account.got = Value(purse) + account.paid + account.burnt
      BY <1>3 DEF KeepsValue, Value
    <2>2. account.got \in Int /\ account.paid \in Int /\ account.burnt \in Int
      BY <1>3 DEF PurseKept
    <2> DEFINE v == Value(purse)
               w == Value(purse')
    <2>3. v \in Int /\ w = v + a /\ account.got = v + account.paid + account.burnt
      BY <1>6, <2>1
    <2> HIDE DEF v, w
    <2>4. account'.got = w + account'.paid + account'.burnt
      BY <1>2, <1>7, <2>2, <2>3
    <2> QED
      BY <2>4 DEF KeepsValue, Value, w
  <1>10. AttemptKept(built, asked)'
    <2>1. \A x : Ripe(x) \subseteq Ripe(x)'
      BY <1>1 DEF Ripe, Old
    <2>2. AttemptKept(built', asked')
      BY <1>1, <1>3
    <2> QED
      BY <2>1, <2>2, AttemptStays
  <1> QED
    BY <1>8, <1>9, <1>10 DEF SpendsKept

\* Coins ripen.
LEMMA HeightStep ==
    ASSUME SpendingAssumption, SpendsKept, NextHeight
    PROVE  SpendsKept'
  <1>1. spendHeight' = spendHeight + 1 /\ UNCHANGED <<purse, account, built, asked>>
    BY DEF NextHeight
  <1>2. PurseKept /\ AttemptKept(built, asked) /\ KeepsValue
    BY DEF SpendsKept
  <1>3. spendHeight \in Nat /\ \A c \in purse : c.at \in Nat /\ c.at <= spendHeight
    BY <1>2 DEF PurseKept, Coins
  <1>4. PurseKept'
    <2>1. spendHeight' \in Nat /\ \A c \in purse : c.at <= spendHeight'
      BY <1>1, <1>3
    <2> QED
      BY <1>1, <1>2, <2>1 DEF PurseKept
  <1>5. KeepsValue'
    BY <1>1, <1>2 DEF KeepsValue
  <1>6. ASSUME NEW x PROVE Ripe(x) \subseteq Ripe(x)'
    <2> SUFFICES ASSUME NEW c \in purse, c.asset = x, spendHeight - c.at >= Confirmations
                 PROVE  spendHeight' - c.at >= Confirmations
      BY <1>1 DEF Ripe, Old
    <2>1. c.at \in Nat /\ Confirmations \in Nat
      BY <1>3 DEF SpendingAssumption
    <2> QED
      BY <1>1, <1>3, <2>1
  <1>7. AttemptKept(built', asked')
    BY <1>1, <1>2
  <1>8. AttemptKept(built, asked)'
    BY <1>6, <1>7, AttemptStays
  <1> QED
    BY <1>4, <1>5, <1>8 DEF SpendsKept

\* No transaction is a good one.
LEMMA NoneKept ==
    ASSUME built' = NoAttempt
    PROVE  AttemptKept(built, asked)'
  <1>1. NoAttempt.failed = "none"
    BY DEF NoAttempt
  <1> QED
    BY <1>1 DEF AttemptKept

\* What was built is given up.
LEMMA DroppedStep ==
    ASSUME SpendsKept, Dropped
    PROVE  SpendsKept'
  <1>1. built' = NoAttempt /\ UNCHANGED <<purse, spendHeight, account>>
    BY DEF Dropped
  <1>2. AttemptKept(built, asked)'
    BY <1>1, NoneKept
  <1>3. PurseKept' /\ KeepsValue'
    BY <1>1 DEF SpendsKept, PurseKept, KeepsValue
  <1> QED
    BY <1>2, <1>3 DEF SpendsKept

\* What comes after the payments is the change.
LEMMA ChangeIs ==
    ASSUME NEW S, NEW s \in Seq(S), NEW c \in S
    PROVE  /\ SubSeq(s, Len(s) + 1, Len(s)) = <<>>
           /\ SubSeq(s \o <<c>>, Len(s) + 1, Len(s \o <<c>>)) = <<c>>
  <1> DEFINE n == Len(s)
             b == s \o <<c>>
  <1>1. n \in Nat
    OBVIOUS
  <1>2. <<c>> \in Seq(S) /\ Len(<<c>>) = 1 /\ <<c>>[1] = c
    OBVIOUS
  <1>3. b \in Seq(S) /\ Len(b) = n + 1 /\ b[n + 1] = c
    <2>1. /\ b \in Seq(S) /\ Len(b) = n + 1
          /\ \A i \in 1 .. n + 1 : b[i] = IF i <= n THEN s[i] ELSE <<c>>[i - n]
      BY <1>2, ConcatProperties
    <2> HIDE DEF b, n
    <2>2. n + 1 \in 1 .. n + 1 /\ ~(n + 1 <= n) /\ (n + 1) - n = 1
      BY <1>1
    <2>3. b[n + 1] = <<c>>[(n + 1) - n]
      BY <2>1, <2>2
    <2> QED
      BY <1>2, <2>1, <2>2, <2>3
  <1> HIDE DEF b, n
  <1>4. SubSeq(s, n + 1, n) = <<>>
    <2>1. n \in Nat /\ n + 1 > n /\ s \in Seq(S) /\ n + 1 \in Int
      BY <1>1
    <2> QED
      BY <2>1, SubSeqProperties
  <1>5. SubSeq(b, n + 1, n + 1) = <<c>>
    <2> DEFINE e == SubSeq(b, n + 1, n + 1)
               l == n + 1
    <2>1. l \in 1 .. l + 1 /\ l <= Len(b) /\ l \in l .. Len(b) /\ (l - l) + 1 = 1 /\ l \in Nat
      BY <1>1, <1>3
    <2>2. e = SubSeq(b, l, l)
      OBVIOUS
    <2>3. b[l] = c
      BY <1>3
    <2> HIDE DEF e, l
    <2>4. e \in Seq(S) /\ Len(e) = 1 /\ e[1] = b[l]
      <3>1. /\ e \in Seq(S) /\ Len(e) = (l - l) + 1
            /\ \A i \in 1 .. (l - l) + 1 : e[i] = b[(l + i) - 1]
        BY <1>3, <2>1, <2>2, SubSeqProperties
      <3>2. 1 \in 1 .. (l - l) + 1 /\ (l + 1) - 1 = l
        BY <2>1
      <3>3. e[1] = b[(l + 1) - 1]
        BY <3>1, <3>2
      <3> QED
        BY <2>1, <3>1, <3>2, <3>3
    <2>5. e = [i \in 1 .. 1 |-> e[i]] /\ <<c>> = [i \in 1 .. 1 |-> <<c>>[i]]
      BY <2>4
    <2>6. \A i \in 1 .. 1 : e[i] = <<c>>[i]
      BY <2>3, <2>4
    <2>7. e = <<c>>
      BY <2>5, <2>6
    <2> QED
      BY <2>7 DEF e
  <1> QED
    BY <1>3, <1>4, <1>5 DEF b, n

\* What is spent leaves the purse with its value.
LEMMA SpentIsWorth ==
    ASSUME PurseKept, NEW s, NEW asset, Picks(s, asset)
    PROVE  /\ ToSet(s) \subseteq purse /\ Value(purse \ ToSet(s)) = Value(purse) - Worth(s)
           /\ Value(purse) \in Int /\ Worth(s) \in Int
  <1> DEFINE I == ToSet(s)
             rest == purse \ I
             n == Len(s)
  <1>1. /\ n \in Nat \ {0} /\ s \in [1 .. n -> Ripe(asset)]
        /\ \A i, j \in 1 .. n : s[i] = s[j] => i = j
    BY DEF Picks
  <1>2. Ripe(asset) \subseteq purse
    BY RipeCoins
  <1> HIDE DEF n
  <1>3. I = {s[i] : i \in 1 .. n}
    BY <1>1 DEF ToSet
  <1>4. I \subseteq purse /\ I \in SUBSET purse /\ rest \in SUBSET purse
    BY <1>1, <1>2, <1>3
  <1>5. Lists(s, I)
    <2>1. s \in [1 .. n -> I] /\ \A x \in I : \E i \in 1 .. n : s[i] = x
      BY <1>1, <1>3
    <2> HIDE DEF I
    <2> QED
      BY <1>1, <2>1 DEF Lists, n
  <1>6. rest \union I = purse /\ rest \intersect I = {}
    BY <1>4
  <1> HIDE DEF I, rest
  <1>7. /\ IsFiniteSet(rest) /\ HaveAmounts(rest) /\ IsFiniteSet(I) /\ HaveAmounts(I)
    BY <1>4, PurseHasAmounts
  <1>8. Value(I) = Worth(s) /\ Value(I) \in Int
    BY <1>5, <1>7, ValueOfList
  <1>9. /\ Value(purse) = Value(rest) + Value(I) /\ Value(rest) \in Int
    BY <1>6, <1>7, ValueOfBoth
  <1>10. Value(rest) = Value(purse) - Worth(s) /\ Value(purse) \in Int /\ Worth(s) \in Int
    BY <1>8, <1>9
  <1> QED
    BY <1>4, <1>10 DEF rest, I

\* A transaction is sent.
LEMMA SentStep ==
    ASSUME SpendsKept, Sent
    PROVE  SpendsKept'
  <1> DEFINE outs == built.outs
             paid == built.paid
             I == ToSet(built.ins)
             change == SubSeq(outs, Len(paid) + 1, Len(outs))
             turned == SelectSeq(change, LAMBDA o : o.asset # built.asset)
             back == {NewCoin(account.n + 1, change[i]) : i \in DOMAIN change}
             more == Len(change)
  <1>1. /\ built.failed = "no" /\ built' = NoAttempt /\ spendHeight' = spendHeight
        /\ purse' = (purse \ I) \union back
        /\ account' = [account EXCEPT !.n = @ + more, !.sent = @ + 1, !.paid = @ + Worth(paid),
                                      !.burnt = @ + built.burnt + built.fee,
                                      !.turned = @ + Worth(turned)]
    BY DEF Sent
  <1>2. PurseKept /\ TxKept(built) /\ account.got = Value(purse) + account.paid + account.burnt
    BY <1>1 DEF SpendsKept, AttemptKept, KeepsValue, Value
  <1>3. /\ account'.n = account.n + more /\ account'.got = account.got
        /\ account'.paid = account.paid + Worth(paid)
        /\ account'.burnt = account.burnt + built.burnt + built.fee
        /\ DOMAIN account' = {"n", "sent", "got", "paid", "burnt", "turned"}
    <2> HIDE DEF more, paid, turned
    <2> QED
      BY <1>1, <1>2 DEF PurseKept
  <1> HIDE DEF outs, paid, turned
  <1>4. /\ paid \in Seq(Outs) /\ built.burnt \in Int /\ built.fee \in Int
        /\ Worth(built.ins) = Worth(outs) + built.burnt + built.fee
        /\ Picks(built.ins, built.asset)
        /\ outs = paid \/ \E c : c \in Outs /\ c.amount \in Nat /\ outs = paid \o <<c>>
    BY <1>2 DEF TxKept, ChangeOf, outs, paid
  <1>5. /\ I \subseteq purse /\ Value(purse \ I) = Value(purse) - Worth(built.ins)
        /\ Value(purse) \in Int /\ Worth(built.ins) \in Int
    BY <1>2, <1>4, SpentIsWorth
  <1> HIDE DEF I
  <1>6. Amounts(paid) /\ Worth(paid) \in Int
    <2>1. Amounts(paid)
      <3> DEFINE n == Len(paid)
      <3>1. n \in Nat /\ paid \in [1 .. n -> Outs]
        BY <1>4
      <3>2. HaveAmounts(Outs)
        BY DEF HaveAmounts, Outs
      <3> HIDE DEF n
      <3> QED
        BY <3>1, <3>2, ListHasAmounts
    <2> QED
      BY <2>1, SumExists, WorthIsSum
  <1> DEFINE rest == purse \ I
  <1>7. IsFiniteSet(rest) /\ HaveAmounts(rest) /\ rest \subseteq purse
    <2>1. rest \in SUBSET purse
      OBVIOUS
    <2> HIDE DEF rest
    <2> QED
      BY <1>2, <2>1, PurseHasAmounts
  <1>8. PICK v \in Nat :
           /\ Worth(outs) = Worth(paid) + v /\ Value(purse') = Value(rest) + v
           /\ IsFiniteSet(purse') /\ purse' \subseteq Coins /\ more \in Nat
           /\ \A d \in purse' : d \in rest \/ (d.at = spendHeight /\ d.id <= account.n + more)
    <2>1. CASE outs = paid
      <3>1. change = <<>>
        BY <1>4, <2>1, ChangeIs
      <3>2. purse' = rest
        <4> HIDE DEF change
        <4>1. back = {}
          BY <3>1
        <4> QED
          BY <1>1, <4>1
      <3>3. more = 0
        <4> HIDE DEF change
        <4> QED
          BY <3>1
      <3>4. Worth(outs) = Worth(paid) + 0 /\ Value(purse') = Value(rest) + 0
        <4>1. Value(rest) \in Int
          BY <1>5
        <4> HIDE DEF rest
        <4> QED
          BY <1>6, <2>1, <3>2, <4>1
      <3> HIDE DEF more, rest
      <3> QED
        BY <1>2, <1>7, <3>2, <3>3, <3>4 DEF PurseKept
    <2>2. ASSUME NEW c \in Outs, c.amount \in Nat, outs = paid \o <<c>>
          PROVE  /\ Worth(outs) = Worth(paid) + c.amount /\ Value(purse') = Value(rest) + c.amount
                 /\ IsFiniteSet(purse') /\ purse' \subseteq Coins /\ more \in Nat
                 /\ \A d \in purse' : d \in rest \/ (d.at = spendHeight /\ d.id <= account.n + more)
      <3> DEFINE d == NewCoin(account.n + 1, c)
      <3>1. change = <<c>>
        BY <1>4, <2>2, ChangeIs
      <3>2. back = {d} /\ more = 1
        <4> HIDE DEF change
        <4> QED
          BY <3>1
      <3>3. /\ d \in Coins /\ d \notin purse /\ d.amount = c.amount
            /\ d.at = spendHeight /\ d.id = account.n + 1
        <4>1. c.asset \in SpendAssets
          BY DEF Outs
        <4> QED
          BY <1>2, <2>2, <4>1, NewCoinIsNew
      <3> HIDE DEF d, back, more
      <3>4. purse' = rest \union {d} /\ d \notin rest
        BY <1>1, <3>2, <3>3
      <3> HIDE DEF rest
      <3>5. Value(purse') = Value(rest) + c.amount /\ IsFiniteSet(purse')
        BY <1>7, <2>2, <3>3, <3>4, CoinMore
      <3>6. Worth(outs) = Worth(paid) + c.amount
        <4>1. <<c>> \in Seq(Outs) /\ Amounts(<<c>>) /\ Worth(<<c>>) = c.amount
          BY <2>2, WorthOfOne
        <4> QED
          BY <1>4, <1>6, <2>2, <4>1, WorthOfBoth
      <3>7. purse' \subseteq Coins
        BY <1>2, <1>7, <3>3, <3>4 DEF PurseKept
      <3>8. \A e \in purse' : e \in rest \/ (e.at = spendHeight /\ e.id <= account.n + more)
        <4>1. d.id <= account.n + more
          BY <1>2, <3>2, <3>3 DEF PurseKept
        <4> QED
          BY <3>3, <3>4, <4>1
      <3> QED
        BY <3>2, <3>5, <3>6, <3>7, <3>8
    <2> HIDE DEF rest, more
    <2> QED
      BY <1>4, <2>1, <2>2
  <1> HIDE DEF more
  <1>9. PurseKept'
    <2>1. account'.n \in Nat /\ account.n <= account'.n /\ account.n \in Nat
      BY <1>2, <1>3, <1>8 DEF PurseKept
    <2>2. ASSUME NEW d \in purse' PROVE d.at <= spendHeight /\ d.id <= account'.n
      <3>1. CASE d \in rest
        <4>1. d.at <= spendHeight /\ d.id <= account.n /\ d.id \in Nat
          BY <1>2, <3>1 DEF PurseKept, Coins
        <4> QED
          BY <2>1, <4>1
      <3>2. CASE d.at = spendHeight /\ d.id <= account.n + more
        <4>1. spendHeight \in Nat
          BY <1>2 DEF PurseKept
        <4> QED
          BY <1>3, <3>2, <4>1
      <3> QED
        BY <1>8, <3>1, <3>2
    <2>3. account'.got \in Int /\ account'.paid \in Int /\ account'.burnt \in Int
      BY <1>2, <1>3, <1>4, <1>6 DEF PurseKept
    <2>4. spendHeight' \in Nat
      BY <1>1, <1>2 DEF PurseKept
    <2> HIDE DEF rest
    <2> QED
      BY <1>1, <1>3, <1>8, <2>1, <2>2, <2>3, <2>4 DEF PurseKept
  <1>10. KeepsValue'
    <2> DEFINE a == Value(purse)
               b == Value(purse')
               w == Worth(built.ins)
               x == Worth(paid)
    <2>1. /\ a \in Int /\ w \in Int /\ x \in Int /\ b = (a - w) + v
          /\ w = (x + v) + built.burnt + built.fee
      BY <1>4, <1>5, <1>6, <1>8
    <2>2. /\ account.got \in Int /\ account.paid \in Int /\ account.burnt \in Int
          /\ account.got = a + account.paid + account.burnt
      BY <1>2 DEF PurseKept
    <2>3. account'.paid = account.paid + x
      BY <1>3
    <2> HIDE DEF a, b, w, x
    <2>4. account.got = b + (account.paid + x) + (account.burnt + built.burnt + built.fee)
      <3> DEFINE q == built.burnt
                 f == built.fee
                 y == account.paid
                 z == account.burnt
      <3>1. /\ q \in Int /\ f \in Int /\ y \in Int /\ z \in Int
            /\ w = (x + v) + q + f /\ account.got = a + y + z
        BY <1>4, <2>1, <2>2
      <3> HIDE DEF q, f, y, z
      <3>2. account.got = b + (y + x) + (z + q + f)
        BY <2>1, <3>1
      <3> QED
        BY <3>2 DEF q, f, y, z
    <2>5. account'.got = b + account'.paid + account'.burnt
      BY <1>3, <2>3, <2>4
    <2> QED
      BY <2>5 DEF KeepsValue, Value, b
  <1>11. AttemptKept(built, asked)'
    BY <1>1, NoneKept
  <1> QED
    BY <1>9, <1>10, <1>11 DEF SpendsKept

\* The calls of the functions of wallet/transfer.js and of the Wallet class.
LEMMA CallsStep ==
    ASSUME SpendingAssumption, SpendsKept, NEW p \in Priorities,
           \/ \E a \in SpendAmounts :
                 \/ \E more \in {<<>>, <<a>>}, sub \in BOOLEAN : TransferCall(<<a>> \o more, sub, p)
                 \/ StakeCall(a, p) \/ BurnCall(a, p) \/ ConvertCall(a, p)
                 \/ \E st \in {"largest", "smallest", "fifo", "random"} : CreateTransaction(<<a>>, st, p)
                 \/ CreateStakeTransaction(a, p) \/ CreateBurnTransaction(a, p)
                 \/ \E slip \in Slips, from \in SpendAssets : CreateConvertTransaction(a, slip, from, p)
           \/ SweepCall(p) \/ CreateAuditTransaction(p) \/ SweepAll(p)
           \/ \E t : SweepDust(t, p)
    PROVE  SpendsKept'
  <1>1. PurseKept /\ \A a \in SpendAmounts : a \in Nat /\ a \in Int
    BY DEF SpendsKept, SpendingAssumption
  <1>2. ASSUME NEW a \in SpendAmounts, NEW more \in {<<>>, <<a>>}, NEW sub \in BOOLEAN,
               TransferCall(<<a>> \o more, sub, p)
        PROVE  AttemptKept(built', asked') /\ UNCHANGED <<purse, spendHeight, account>>
    <2>1. AttemptKept(built', asked')
      BY <1>1, <1>2, TransferKeeps
    <2>2. UNCHANGED <<purse, spendHeight, account>>
      BY <1>2 DEF TransferCall, Call
    <2> QED
      BY <2>1, <2>2
  <1>3. ASSUME NEW a \in SpendAmounts, StakeCall(a, p) \/ BurnCall(a, p) \/ ConvertCall(a, p)
        PROVE  AttemptKept(built', asked') /\ UNCHANGED <<purse, spendHeight, account>>
    <2>1. AttemptKept(built', asked')
      BY <1>1, <1>3, StakeKeeps, BurnKeeps, ConvertKeeps
    <2>2. UNCHANGED <<purse, spendHeight, account>>
      BY <1>3 DEF StakeCall, BurnCall, ConvertCall, Call
    <2> QED
      BY <2>1, <2>2
  <1>4. ASSUME NEW a \in SpendAmounts, NEW st, CreateTransaction(<<a>>, st, p)
        PROVE  AttemptKept(built', asked') /\ UNCHANGED <<purse, spendHeight, account>>
    <2>1. AttemptKept(built', asked')
      BY <1>1, <1>4, CreateKeeps
    <2>2. UNCHANGED <<purse, spendHeight, account>>
      BY <1>4 DEF CreateTransaction, Call
    <2> QED
      BY <2>1, <2>2
  <1>5. ASSUME NEW a \in SpendAmounts, CreateStakeTransaction(a, p) \/ CreateBurnTransaction(a, p)
        PROVE  AttemptKept(built', asked') /\ UNCHANGED <<purse, spendHeight, account>>
    <2>1. AttemptKept(built', asked')
      BY <1>1, <1>5, CreateStakeKeeps, CreateBurnKeeps
    <2>2. UNCHANGED <<purse, spendHeight, account>>
      BY <1>5 DEF CreateStakeTransaction, CreateBurnTransaction, CreateBurning, Call
    <2> QED
      BY <2>1, <2>2
  <1>6. ASSUME NEW a \in SpendAmounts, NEW slip \in Slips, NEW from \in SpendAssets,
               CreateConvertTransaction(a, slip, from, p)
        PROVE  AttemptKept(built', asked') /\ UNCHANGED <<purse, spendHeight, account>>
    <2>1. AttemptKept(built', asked')
      BY <1>1, <1>6, CreateConvertKeeps
    <2>2. UNCHANGED <<purse, spendHeight, account>>
      BY <1>6 DEF CreateConvertTransaction, CreateBurning, Call
    <2> QED
      BY <2>1, <2>2
  <1>7. ASSUME SweepCall(p) \/ CreateAuditTransaction(p) \/ SweepAll(p) \/ \E t : SweepDust(t, p)
        PROVE  AttemptKept(built', asked') /\ UNCHANGED <<purse, spendHeight, account>>
    <2>1. AttemptKept(built', asked')
      BY <1>1, <1>7, SweepKeeps, CreateAuditKeeps, SweepAllKeeps, SweepDustKeeps
    <2>2. UNCHANGED <<purse, spendHeight, account>>
      BY <1>7 DEF SweepCall, CreateAuditTransaction, SweepAll, SweepDust, CreateTransaction, Call
    <2> QED
      BY <2>1, <2>2
  <1>8. AttemptKept(built', asked') /\ UNCHANGED <<purse, spendHeight, account>>
    BY <1>2, <1>3, <1>4, <1>5, <1>6, <1>7
  <1> QED
    BY <1>8, CallStep

\* At the start the purse is empty.
LEMMA SpendStarts ==
    ASSUME SpendInit
    PROVE  SpendsKept
  <1>1. /\ purse = {} /\ spendHeight = 1 /\ built.failed = "none"
        /\ account = [n |-> 0, sent |-> 0, got |-> 0, paid |-> 0, burnt |-> 0, turned |-> 0]
    BY DEF SpendInit, NoAttempt
  <1>2. /\ account.n = 0 /\ account.got = 0 /\ account.paid = 0 /\ account.burnt = 0
        /\ DOMAIN account = {"n", "sent", "got", "paid", "burnt", "turned"}
    BY <1>1
  <1>3. IsFiniteSet(purse)
    BY <1>1, FS_EmptySet
  <1>4. Value(purse) = 0
    <2>1. Lists(<<>>, purse) /\ HaveAmounts(purse)
      BY <1>1 DEF Lists, HaveAmounts
    <2> QED
      BY <2>1, ValueOfList, WorthOfNone
  <1>5. PurseKept
    BY <1>1, <1>2, <1>3 DEF PurseKept
  <1>6. KeepsValue
    BY <1>2, <1>4 DEF KeepsValue, Value
  <1>7. AttemptKept(built, asked)
    BY <1>1 DEF AttemptKept
  <1> QED
    BY <1>5, <1>6, <1>7 DEF SpendsKept

\* What is kept is what is promised.
LEMMA SpendsKeptSuffices ==
    ASSUME SpendsKept
    PROVE  SpendsHold
  <1>1. AttemptKept(built, asked) /\ KeepsValue
    BY DEF SpendsKept
  <1>2. built.failed = "no" => ToSet(built.ins) \subseteq Ripe(built.asset) /\ IsInjective(built.ins)
    <2> SUFFICES ASSUME built.failed = "no"
                 PROVE  ToSet(built.ins) \subseteq Ripe(built.asset) /\ IsInjective(built.ins)
      OBVIOUS
    <2>1. Picks(built.ins, built.asset)
      BY <1>1 DEF AttemptKept, TxKept
    <2> QED
      BY <2>1 DEF Picks, ToSet, IsInjective
  <1>3. Balances
    BY <1>1, <1>2 DEF Balances, AttemptKept, TxKept
  <1>4. PaysItsWay /\ EnoughIsEnough
    BY <1>1 DEF PaysItsWay, EnoughIsEnough, AttemptKept
  <1> QED
    BY <1>1, <1>3, <1>4 DEF SpendsHold

\* Whatever is transferred, swept, staked, burnt or converted, of whatever coins in whatever
\* order: a transaction spends ripe coins, each once, and balances; its fee is the one of the
\* inputs and outputs it has; what has been selected is enough; and what came in is in the
\* purse, paid or burnt (selectUTXOs(), buildTransaction(), wallet/transfer.js).
THEOREM SpendingKeepsValue == SpendInit /\ [][SpendNext]_spendVars => []SpendsHold
  <1>1. SpendInit => SpendsKept
    BY SpendStarts
  <1>2. SpendsKept /\ [SpendNext]_spendVars => SpendsKept'
    <2> SUFFICES ASSUME SpendsKept, [SpendNext]_spendVars PROVE SpendsKept'
      OBVIOUS
    <2>1. CASE \E a \in PurseAmounts : ReceiveCoin(a)
      BY <2>1, SpendingAssumption, ReceiveStep
    <2>2. CASE NextHeight
      BY <2>2, SpendingAssumption, HeightStep
    <2>3. CASE Sent
      BY <2>3, SentStep
    <2>4. CASE Dropped
      BY <2>4, DroppedStep
    <2>5. ASSUME NEW p \in Priorities, NEW a \in SpendAmounts,
                 \/ \E more \in {<<>>, <<a>>}, sub \in BOOLEAN : TransferCall(<<a>> \o more, sub, p)
                 \/ StakeCall(a, p) \/ BurnCall(a, p) \/ ConvertCall(a, p)
                 \/ \E st \in {"largest", "smallest", "fifo", "random"} : CreateTransaction(<<a>>, st, p)
                 \/ CreateStakeTransaction(a, p) \/ CreateBurnTransaction(a, p)
                 \/ \E slip \in Slips, from \in SpendAssets : CreateConvertTransaction(a, slip, from, p)
          PROVE  SpendsKept'
      BY <2>5, SpendingAssumption, CallsStep
    <2>6. ASSUME NEW p \in Priorities,
                 \/ SweepCall(p) \/ CreateAuditTransaction(p) \/ SweepAll(p)
                 \/ SweepDust(Min(SpendAmounts), p)
          PROVE  SpendsKept'
      BY <2>6, SpendingAssumption, CallsStep
    <2>7. CASE UNCHANGED spendVars
      <3>1. UNCHANGED <<purse, spendHeight, account>> /\ UNCHANGED <<built, asked>>
        BY <2>7 DEF spendVars
      <3>2. AttemptKept(built', asked')
        BY <3>1 DEF SpendsKept
      <3> QED
        BY <3>1, <3>2, CallStep
    <2> QED
      BY <2>1, <2>2, <2>3, <2>4, <2>5, <2>6, <2>7 DEF SpendNext
  <1>3. SpendsKept => SpendsHold
    BY SpendsKeptSuffices
  <1> QED
    BY <1>1, <1>2, <1>3, PTL

-----------------------------------------------------------------------------
(***************************************************************************)
(* The rules of the chain: numbers in order                                 *)
(***************************************************************************)
\* A finite set of integers that is not empty has a largest and a smallest member.
LEMMA SetHasEnds ==
    ASSUME NEW S, S \subseteq Int, IsFiniteSet(S), S # {}
    PROVE  /\ \E x \in S : \A y \in S : y <= x
           /\ \E x \in S : \A y \in S : x <= y
  <1> DEFINE Ends(U) == /\ \E x \in U : \A y \in U : y <= x
                        /\ \E x \in U : \A y \in U : x <= y
             Sized(n) == \A U \in SUBSET Int :
                 IsFiniteSet(U) /\ Cardinality(U) = n /\ U # {} => Ends(U)
             T == {n \in Nat : Sized(n)}
  <1>1. 0 \in T
    BY FS_EmptySet
  <1>2. ASSUME NEW n \in Nat, n \in T PROVE n + 1 \in T
    <2>1. ASSUME NEW U \in SUBSET Int, IsFiniteSet(U), Cardinality(U) = n + 1, U # {}
          PROVE  Ends(U)
      <3>1. PICK z \in U : TRUE
        BY <2>1
      <3> DEFINE R == U \ {z}
      <3>2. IsFiniteSet(R) /\ Cardinality(R) = n /\ R \in SUBSET Int /\ z \in Int
        <4>1. IsFiniteSet(R) /\ Cardinality(R) = Cardinality(U) - 1
          BY <2>1, <3>1, FS_RemoveElement
        <4>2. R \in SUBSET Int /\ z \in Int
          BY <3>1
        <4>3. Cardinality(U) - 1 = n
          BY <2>1
        <4> HIDE DEF R
        <4> QED
          BY <4>1, <4>2, <4>3
      <3>3. CASE R = {}
        <4>1. U = {z}
          BY <3>1, <3>3
        <4>2. z <= z
          BY <3>2
        <4> QED
          BY <4>1, <4>2
      <3>4. CASE R # {}
        <4>1. Ends(R)
          BY <1>2, <3>2, <3>4
        <4>2. PICK a \in R : \A y \in R : y <= a
          BY <4>1
        <4>3. PICK b \in R : \A y \in R : b <= y
          BY <4>1
        <4>4. a \in Int /\ b \in Int /\ \A y \in U : y = z \/ y \in R
          BY <3>2
        <4>5. \E x \in U : \A y \in U : y <= x
          <5>1. CASE z <= a
            BY <4>2, <4>4, <5>1
          <5>2. CASE ~(z <= a)
            <6>1. \A y \in U : y <= z
              BY <3>2, <4>2, <4>4, <5>2
            <6> QED
              BY <3>1, <6>1
          <5> QED
            BY <5>1, <5>2
        <4>6. \E x \in U : \A y \in U : x <= y
          <5>1. CASE b <= z
            BY <4>3, <4>4, <5>1
          <5>2. CASE ~(b <= z)
            <6>1. \A y \in U : z <= y
              BY <3>2, <4>3, <4>4, <5>2
            <6> QED
              BY <3>1, <6>1
          <5> QED
            BY <5>1, <5>2
        <4> QED
          BY <4>5, <4>6
      <3> QED
        BY <3>3, <3>4
    <2>2. Sized(n + 1)
      BY <2>1
    <2> QED
      BY <2>2
  <1>3. Nat \subseteq T
    <2> HIDE DEF T
    <2> QED
      BY <1>1, <1>2, InductiveSet
  <1>4. Cardinality(S) \in Nat
    BY FS_CardinalityType
  <1>5. Sized(Cardinality(S))
    BY <1>3, <1>4
  <1>6. S \in SUBSET Int
    OBVIOUS
  <1>7. Ends(S)
    BY <1>5, <1>6
  <1> QED
    BY <1>7

\* So Max is its largest member.
LEMMA MaxIs ==
    ASSUME NEW S, S \subseteq Int, IsFiniteSet(S), S # {}
    PROVE  Max(S) \in S /\ \A y \in S : y <= Max(S)
  <1>1. PICK x \in S : \A y \in S : y <= x
    BY SetHasEnds
  <1>2. \A y \in S : x >= y
    BY <1>1
  <1>3. Max(S) \in S /\ \A y \in S : Max(S) >= y
    BY <1>2 DEF Max
  <1> QED
    BY <1>3

\* The values of a list are finitely many.
LEMMA ValuesAreFinite ==
    ASSUME NEW s \in Seq(Int)
    PROVE  LET V == {s[i] : i \in DOMAIN s} IN IsFiniteSet(V) /\ V \subseteq Int
  <1> DEFINE V == {s[i] : i \in DOMAIN s}
             n == Len(s)
  <1>1. n \in Nat /\ DOMAIN s = 1 .. n /\ s \in [1 .. n -> V] /\ V \subseteq Int
    OBVIOUS
  <1>2. s \in Surjection(1 .. n, V)
    BY <1>1 DEF Surjection
  <1>3. IsFiniteSet(1 .. n)
    <2>1. n \in Int /\ 1 \in Int
      BY <1>1
    <2> HIDE DEF n
    <2> QED
      BY <2>1, FS_Interval
  <1>4. IsFiniteSet(V)
    BY <1>2, <1>3, FS_Surjection
  <1> QED
    BY <1>1, <1>4

\* A list has a k-th number in increasing order, for every k up to its length: it is
\* one of its numbers, fewer than k are below it, and k are no larger.
LEMMA InOrderIs ==
    ASSUME NEW s \in Seq(Int), NEW k \in 1 .. Len(s)
    PROVE  /\ InOrder(s, k) \in {s[i] : i \in DOMAIN s}
           /\ InOrder(s, k) \in Int
           /\ Cardinality({i \in DOMAIN s : s[i] < InOrder(s, k)}) < k
           /\ Cardinality({i \in DOMAIN s : s[i] <= InOrder(s, k)}) >= k
  <1> DEFINE V == {s[i] : i \in DOMAIN s}
             n == Len(s)
             UpTo(v) == {i \in DOMAIN s : s[i] <= v}
             Below(v) == {i \in DOMAIN s : s[i] < v}
             Enough == {v \in V : Cardinality(UpTo(v)) >= k}
  <1>1. IsFiniteSet(V) /\ V \subseteq Int
    BY ValuesAreFinite
  <1>2. n \in Nat /\ k \in Nat /\ 1 <= k /\ k <= n /\ DOMAIN s = 1 .. n /\ s[1] \in V
    OBVIOUS
  <1>3. IsFiniteSet(DOMAIN s) /\ Cardinality(DOMAIN s) = n
    <2>1. 1 \in Int /\ n \in Int /\ n - 1 + 1 = n /\ ~(1 > n)
      BY <1>2
    <2> HIDE DEF n
    <2>2. IsFiniteSet(1 .. n) /\ Cardinality(1 .. n) = n
      BY <2>1, FS_Interval
    <2> QED
      BY <1>2, <2>2
  <1>4. PICK top \in V : \A y \in V : y <= top
    BY <1>1, <1>2, SetHasEnds
  <1>5. UpTo(top) = DOMAIN s
    BY <1>4
  <1>6. top \in Enough
    BY <1>2, <1>3, <1>4, <1>5
  <1>7. Enough \in SUBSET V
    OBVIOUS
  <1>8. IsFiniteSet(Enough)
    <2> HIDE DEF Enough, V
    <2> QED
      BY <1>1, <1>7, FS_Subset
  <1>9. PICK v \in Enough : \A y \in Enough : v <= y
    <2>1. Enough \subseteq Int /\ Enough # {}
      BY <1>1, <1>6
    <2> HIDE DEF Enough
    <2> QED
      BY <1>8, <2>1, SetHasEnds
  <1>10. v \in V /\ v \in Int /\ Cardinality(UpTo(v)) >= k
    BY <1>1, <1>9
  <1>11. Cardinality(Below(v)) < k
    <2>1. CASE Below(v) = {}
      <3>1. Cardinality(Below(v)) = 0
        <4> HIDE DEF Below
        <4> QED
          BY <2>1, FS_EmptySet
      <3> QED
        BY <1>2, <3>1
    <2>2. CASE Below(v) # {}
      <3> DEFINE W == {y \in V : y < v}
      <3>1. W # {} /\ W \in SUBSET V
        BY <2>2
      <3>2. IsFiniteSet(W) /\ W \subseteq Int
        <4> HIDE DEF W, V
        <4> QED
          BY <1>1, <3>1, FS_Subset
      <3>3. PICK u \in W : \A y \in W : y <= u
        <4> HIDE DEF W
        <4> QED
          BY <3>1, <3>2, SetHasEnds
      <3>4. u \in V /\ u \in Int /\ u < v
        BY <1>1, <3>3
      <3>5. ASSUME NEW i \in DOMAIN s PROVE s[i] < v <=> s[i] <= u
        <4>1. s[i] \in V /\ s[i] \in Int
          BY <1>1
        <4>2. s[i] < v => s[i] <= u
          BY <3>3, <4>1
        <4>3. s[i] <= u => s[i] < v
          BY <1>10, <3>4, <4>1
        <4> QED
          BY <4>2, <4>3
      <3>6. Below(v) = UpTo(u)
        BY <3>5
      <3>7. u \notin Enough
        <4> HIDE DEF Enough, V
        <4>1. u \in Enough => v <= u
          BY <1>9
        <4> QED
          BY <1>10, <3>4, <4>1
      <3>8. ~(Cardinality(UpTo(u)) >= k)
        BY <3>4, <3>7
      <3>9. Cardinality(UpTo(u)) \in Nat
        <4>1. UpTo(u) \in SUBSET (DOMAIN s)
          OBVIOUS
        <4> HIDE DEF UpTo
        <4> QED
          BY <1>3, <4>1, FS_Subset, FS_CardinalityType
      <3> QED
        <4>1. Cardinality(Below(v)) = Cardinality(UpTo(u))
          <5> HIDE DEF Below, UpTo
          <5> QED
            BY <3>6
        <4> HIDE DEF Below, UpTo
        <4> QED
          BY <1>2, <3>8, <3>9, <4>1
    <2> QED
      BY <2>1, <2>2
  <1> DEFINE Kth(u) == Cardinality(Below(u)) < k /\ Cardinality(UpTo(u)) >= k
  <1>12. InOrder(s, k) = CHOOSE u \in V : Kth(u)
    BY DEF InOrder
  <1>13. v \in V /\ Kth(v)
    BY <1>10, <1>11
  <1> HIDE DEF V, Kth
  <1>14. InOrder(s, k) \in V /\ Kth(InOrder(s, k))
    BY <1>12, <1>13
  <1> QED
    BY <1>1, <1>14 DEF V, Kth

\* The last numbers of a list: how many, and which.
LEMMA LastOfIs ==
    ASSUME NEW S, NEW s \in Seq(S), NEW n \in Nat \ {0}
    PROVE  /\ LastOf(s, n) \in Seq(S)
           /\ Len(LastOf(s, n)) = Smaller(Len(s), n)
           /\ Len(LastOf(s, n)) \in Nat
           /\ \A i \in 1 .. Smaller(Len(s), n) :
                  LastOf(s, n)[i] = s[Larger(1, Len(s) - n + 1) + i - 1]
  <1> DEFINE k == Len(s)
             m == Larger(1, k - n + 1)
  <1>1. k \in Nat /\ \A i \in 1 .. k : s[i] \in S
    OBVIOUS
  <1>2. m \in Int /\ m >= 1 /\ (k - n + 1 <= 1 => m = 1) /\ (k - n + 1 > 1 => m = k - n + 1)
    BY <1>1 DEF Larger
  <1>3. Smaller(k, n) = IF m <= k THEN k - m + 1 ELSE 0
    BY <1>1, <1>2 DEF Smaller
  <1>4. LastOf(s, n) = SubSeq(s, m, k)
    BY DEF LastOf
  <1>5. \A i \in m .. k : s[i] \in S
    BY <1>1, <1>2
  <1> HIDE DEF k, m
  <1>6. /\ SubSeq(s, m, k) \in Seq(S)
        /\ Len(SubSeq(s, m, k)) = IF m <= k THEN k - m + 1 ELSE 0
        /\ \A i \in 1 .. k - m + 1 : SubSeq(s, m, k)[i] = s[m + i - 1]
    BY <1>1, <1>2, <1>5, SubSeqProperties
  <1>7. \A i \in 1 .. Smaller(k, n) : i \in 1 .. k - m + 1
    BY <1>1, <1>2, <1>3
  <1>8. \A i \in 1 .. Smaller(k, n) : LastOf(s, n)[i] = s[m + i - 1]
    BY <1>4, <1>6, <1>7
  <1>9. Smaller(k, n) \in Nat
    BY <1>1 DEF Smaller
  <1>10. LastOf(s, n) \in Seq(S) /\ Len(LastOf(s, n)) = Smaller(k, n)
    BY <1>3, <1>4, <1>6
  <1> QED
    BY <1>8, <1>9, <1>10 DEF k, m

\* The median of weights is one.
LEMMA MedianIsNat ==
    ASSUME NEW s \in Seq(Nat)
    PROVE  MedianOf(s) \in Nat
  <1> DEFINE n == Len(s)
  <1>1. n \in Nat /\ s \in Seq(Int) /\ \A i \in DOMAIN s : s[i] \in Nat
    OBVIOUS
  <1>2. ASSUME NEW k \in 1 .. n PROVE InOrder(s, k) \in Nat
    <2>1. InOrder(s, k) \in {s[i] : i \in DOMAIN s}
      BY <1>1, InOrderIs
    <2> QED
      BY <1>1, <2>1
  <1>3. n # 0 => n \div 2 + 1 \in 1 .. n /\ (n % 2 = 0 => n \div 2 \in 1 .. n)
    BY <1>1
  <1> HIDE DEF n
  <1>4. CASE n = 0
    BY <1>4 DEF MedianOf, n
  <1>5. CASE n # 0 /\ n % 2 = 0
    <2>1. InOrder(s, n \div 2) \in Nat /\ InOrder(s, n \div 2 + 1) \in Nat
      BY <1>2, <1>3, <1>5
    <2>2. MedianOf(s) = (InOrder(s, n \div 2) + InOrder(s, n \div 2 + 1)) \div 2
      BY <1>5 DEF MedianOf, n
    <2> QED
      BY <2>1, <2>2
  <1>6. CASE n # 0 /\ n % 2 # 0
    BY <1>2, <1>3, <1>6 DEF MedianOf, n
  <1> QED
    BY <1>4, <1>5, <1>6

\* So is the weight that is recorded for a block.
LEMMA RecordedIsNat ==
    ASSUME RulesAssumption, NEW w \in Nat, NEW long \in Seq(Nat)
    PROVE  RecordedWeight(w, long) \in Nat
  <1> DEFINE median == MedianOf(LastOf(long, LongWindow))
             m == Larger(ZoneV5, median)
  <1>1. median \in Nat
    BY LastOfIs, MedianIsNat DEF RulesAssumption
  <1>2. m \in Nat
    BY <1>1 DEF RulesAssumption, Larger
  <1>3. (m * 10) \div 17 \in Nat /\ m + (m * 7) \div 10 \in Nat
    BY <1>2
  <1> HIDE DEF m
  <1>4. Smaller(Larger(w, (m * 10) \div 17), m + (m * 7) \div 10) \in Nat
    BY <1>3 DEF Smaller, Larger
  <1>5. NextLongTermWeight(w, median) \in Nat
    BY <1>4 DEF NextLongTermWeight, m
  <1> QED
    BY <1>5 DEF RecordedWeight

-----------------------------------------------------------------------------
(***************************************************************************)
(* The rules of the chain: the windows                                      *)
(***************************************************************************)
\* What the windows ts, cs, ws and ls are of the blocks bs.
Windows(ts, cs, ws, ls, bs) ==
    /\ ts \in Seq(Int) /\ cs \in Seq(Nat) /\ ws \in Seq(BlockWeights) /\ ls \in Seq(Nat)
    /\ bs \in Seq(ChainBlock)
    /\ Len(ts) = Len(bs) /\ Len(cs) = Len(bs) /\ Len(ws) = Len(bs) /\ Len(ls) = Len(bs)
    /\ \A i \in DOMAIN bs :
           /\ ts[i] = bs[i].time
           /\ ws[i] = bs[i].weight
           /\ cs[i] = bs[i].difficulty + (IF i = 1 THEN 0 ELSE cs[i - 1])
           /\ ls[i] = RecordedWeight(bs[i].weight, SubSeq(ls, 1, i - 1))

\* The inductive invariant.
RulesKept == Windows(times, cumulative, weights, longTerm, added)

\* Lists that begin alike have the same beginnings.
LEMMA SameBeginning ==
    ASSUME NEW S, NEW s \in Seq(S), NEW t \in Seq(S), NEW k \in Nat, k <= Len(s), k <= Len(t),
           \A i \in 1 .. k : s[i] = t[i]
    PROVE  SubSeq(s, 1, k) = SubSeq(t, 1, k)
  <1> DEFINE a == SubSeq(s, 1, k)
             b == SubSeq(t, 1, k)
  <1>1. (\A i \in 1 .. k : s[i] \in S) /\ (\A i \in 1 .. k : t[i] \in S) /\ 1 \in Int /\ k \in Int
    OBVIOUS
  <1>2. (IF 1 <= k THEN k - 1 + 1 ELSE 0) = k /\ k - 1 + 1 = k /\ \A i \in 1 .. k : 1 + i - 1 = i
    OBVIOUS
  <1>3. a \in Seq(S) /\ Len(a) = k /\ \A i \in 1 .. k : a[i] = s[i]
    BY <1>1, <1>2, SubSeqProperties
  <1>4. b \in Seq(S) /\ Len(b) = k /\ \A i \in 1 .. k : b[i] = t[i]
    BY <1>1, <1>2, SubSeqProperties
  <1> HIDE DEF a, b
  <1>5. a = b
    BY <1>3, <1>4, SeqEqual
  <1> QED
    BY <1>5 DEF a, b

\* The first numbers of a list.
LEMMA BeginningIs ==
    ASSUME NEW S, NEW s \in Seq(S), NEW k \in Nat, k <= Len(s)
    PROVE  /\ SubSeq(s, 1, k) \in Seq(S) /\ Len(SubSeq(s, 1, k)) = k
           /\ \A i \in 1 .. k : SubSeq(s, 1, k)[i] = s[i]
  <1>1. (\A i \in 1 .. k : s[i] \in S) /\ 1 \in Int /\ k \in Int
    OBVIOUS
  <1>2. (IF 1 <= k THEN k - 1 + 1 ELSE 0) = k /\ k - 1 + 1 = k /\ \A i \in 1 .. k : 1 + i - 1 = i
    OBVIOUS
  <1> QED
    BY <1>1, <1>2, SubSeqProperties

\* A block that is added.
LEMMA AddBlockKeeps ==
    ASSUME RulesAssumption, RulesKept,
           NEW gap \in SolveTimes, NEW d \in Difficulties, NEW w \in BlockWeights,
           AddBlock(gap, d, w)
    PROVE  RulesKept'
  <1> DEFINE n == Len(added)
             time == (IF times = <<>> THEN 0 ELSE times[ChainHeight]) + gap
             x == [time |-> time, difficulty |-> d, weight |-> w]
             r == RecordedWeight(w, longTerm)
             c == ChainWork + d
  <1>1. /\ n \in Nat /\ Len(times) = n /\ Len(cumulative) = n /\ Len(weights) = n
        /\ Len(longTerm) = n /\ DOMAIN added = 1 .. n
    BY DEF RulesKept, Windows
  <1>2. gap \in Int /\ d \in Nat /\ w \in Nat
    BY DEF RulesAssumption
  <1>3. time \in Int
    <2>1. times = <<>> \/ times[n] \in Int
      BY <1>1 DEF RulesKept, Windows
    <2>2. (IF times = <<>> THEN 0 ELSE times[n]) \in Int
      BY <2>1
    <2> QED
      BY <1>1, <1>2, <2>2 DEF ChainHeight
  <1>4. x \in ChainBlock /\ x.time = time /\ x.difficulty = d /\ x.weight = w
    BY <1>3 DEF ChainBlock
  <1>5. r \in Nat
    BY <1>2, RecordedIsNat DEF RulesKept, Windows
  <1>6. c \in Nat /\ c = d + (IF n + 1 = 1 THEN 0 ELSE cumulative[n])
    <2>1. n = 0 \/ cumulative[n] \in Nat
      BY <1>1 DEF RulesKept, Windows
    <2>2. ChainWork = IF n = 0 THEN 0 ELSE cumulative[n]
      BY <1>1 DEF ChainWork, ChainHeight
    <2> QED
      BY <1>1, <1>2, <2>1, <2>2
  <1>7. /\ times' = Append(times, time) /\ cumulative' = Append(cumulative, c)
        /\ weights' = Append(weights, w) /\ longTerm' = Append(longTerm, r)
        /\ added' = Append(added, x)
    BY DEF AddBlock
  <1> HIDE DEF n, time, x, r, c
  <1>8. /\ times' \in Seq(Int) /\ Len(times') = n + 1 /\ times'[n + 1] = time
        /\ \A i \in 1 .. n : times'[i] = times[i]
    <2> DEFINE a == Append(times, time)
    <2>1. times \in Seq(Int) /\ Len(times) = n /\ time \in Int
      BY <1>1, <1>3 DEF RulesKept, Windows, n
    <2>2. /\ a \in Seq(Int) /\ Len(a) = n + 1 /\ a[n + 1] = time
          /\ \A i \in 1 .. n : a[i] = times[i]
      BY <2>1, AppendProperties
    <2>3. times' = a
      BY <1>7
    <2> HIDE DEF a
    <2> QED
      BY <2>2, <2>3
  <1>9. /\ cumulative' \in Seq(Nat) /\ Len(cumulative') = n + 1 /\ cumulative'[n + 1] = c
        /\ \A i \in 1 .. n : cumulative'[i] = cumulative[i]
    <2> DEFINE a == Append(cumulative, c)
    <2>1. cumulative \in Seq(Nat) /\ Len(cumulative) = n /\ c \in Nat
      BY <1>1, <1>6 DEF RulesKept, Windows, n
    <2>2. /\ a \in Seq(Nat) /\ Len(a) = n + 1 /\ a[n + 1] = c
          /\ \A i \in 1 .. n : a[i] = cumulative[i]
      BY <2>1, AppendProperties
    <2>3. cumulative' = a
      BY <1>7
    <2> HIDE DEF a
    <2> QED
      BY <2>2, <2>3
  <1>10. /\ weights' \in Seq(BlockWeights) /\ Len(weights') = n + 1 /\ weights'[n + 1] = w
         /\ \A i \in 1 .. n : weights'[i] = weights[i]
    <2> DEFINE a == Append(weights, w)
    <2>1. weights \in Seq(BlockWeights) /\ Len(weights) = n /\ w \in BlockWeights
      BY <1>1 DEF RulesKept, Windows, n
    <2>2. /\ a \in Seq(BlockWeights) /\ Len(a) = n + 1 /\ a[n + 1] = w
          /\ \A i \in 1 .. n : a[i] = weights[i]
      BY <2>1, AppendProperties
    <2>3. weights' = a
      BY <1>7
    <2> HIDE DEF a
    <2> QED
      BY <2>2, <2>3
  <1>11. /\ longTerm' \in Seq(Nat) /\ Len(longTerm') = n + 1 /\ longTerm'[n + 1] = r
         /\ \A i \in 1 .. n : longTerm'[i] = longTerm[i]
    <2> DEFINE a == Append(longTerm, r)
    <2>1. longTerm \in Seq(Nat) /\ Len(longTerm) = n /\ r \in Nat
      BY <1>1, <1>5 DEF RulesKept, Windows, n
    <2>2. /\ a \in Seq(Nat) /\ Len(a) = n + 1 /\ a[n + 1] = r
          /\ \A i \in 1 .. n : a[i] = longTerm[i]
      BY <2>1, AppendProperties
    <2>3. longTerm' = a
      BY <1>7
    <2> HIDE DEF a
    <2> QED
      BY <2>2, <2>3
  <1>12. /\ added' \in Seq(ChainBlock) /\ Len(added') = n + 1 /\ added'[n + 1] = x
         /\ \A i \in 1 .. n : added'[i] = added[i]
    <2> DEFINE a == Append(added, x)
    <2>1. added \in Seq(ChainBlock) /\ Len(added) = n /\ x \in ChainBlock
      BY <1>1, <1>4 DEF RulesKept, Windows, n
    <2>2. /\ a \in Seq(ChainBlock) /\ Len(a) = n + 1 /\ a[n + 1] = x
          /\ \A i \in 1 .. n : a[i] = added[i]
      BY <2>1, AppendProperties
    <2>3. added' = a
      BY <1>7
    <2> HIDE DEF a
    <2> QED
      BY <2>2, <2>3
  <1>13. ASSUME NEW i \in 1 .. n + 1
         PROVE  SubSeq(longTerm', 1, i - 1) = SubSeq(longTerm, 1, i - 1)
    <2>1. /\ i - 1 \in Nat /\ i - 1 <= Len(longTerm) /\ i - 1 <= Len(longTerm')
          /\ \A j \in 1 .. i - 1 : longTerm'[j] = longTerm[j]
      BY <1>1, <1>11
    <2>2. longTerm \in Seq(Nat)
      BY DEF RulesKept, Windows
    <2> QED
      BY <1>11, <2>1, <2>2, SameBeginning
  <1>14. ASSUME NEW i \in 1 .. n + 1
         PROVE  /\ times'[i] = added'[i].time
                /\ weights'[i] = added'[i].weight
                /\ cumulative'[i] = added'[i].difficulty
                                       + (IF i = 1 THEN 0 ELSE cumulative'[i - 1])
                /\ longTerm'[i] = RecordedWeight(added'[i].weight, SubSeq(longTerm', 1, i - 1))
    <2>1. CASE i \in 1 .. n
      <3>1. /\ times[i] = added[i].time /\ weights[i] = added[i].weight
            /\ cumulative[i] = added[i].difficulty + (IF i = 1 THEN 0 ELSE cumulative[i - 1])
            /\ longTerm[i] = RecordedWeight(added[i].weight, SubSeq(longTerm, 1, i - 1))
        BY <1>1, <2>1 DEF RulesKept, Windows
      <3>2. i # 1 => i - 1 \in 1 .. n
        BY <1>1, <2>1
      <3>3. i # 1 => cumulative'[i - 1] = cumulative[i - 1]
        BY <1>9, <3>2
      <3>4. SubSeq(longTerm', 1, i - 1) = SubSeq(longTerm, 1, i - 1)
        BY <1>13
      <3>5. /\ times'[i] = times[i] /\ weights'[i] = weights[i] /\ longTerm'[i] = longTerm[i]
            /\ cumulative'[i] = cumulative[i] /\ added'[i] = added[i]
        BY <1>8, <1>9, <1>10, <1>11, <1>12, <2>1
      <3> QED
        BY <3>1, <3>3, <3>4, <3>5
    <2>2. CASE i = n + 1
      <3>1. SubSeq(longTerm', 1, i - 1) = longTerm
        <4>1. SubSeq(longTerm', 1, i - 1) = SubSeq(longTerm, 1, i - 1)
          BY <1>13
        <4>2. i - 1 = Len(longTerm)
          BY <1>1, <2>2
        <4>3. SubSeq(longTerm, 1, Len(longTerm)) = longTerm
          BY SubSeqFull DEF RulesKept, Windows
        <4> QED
          BY <4>1, <4>2, <4>3
      <3>2. i # 1 => cumulative'[i - 1] = cumulative[n]
        <4>1. i # 1 => i - 1 = n /\ n \in 1 .. n
          BY <1>1, <2>2
        <4> QED
          BY <1>9, <4>1
      <3>3. times'[i] = added'[i].time /\ weights'[i] = added'[i].weight
        BY <1>4, <1>8, <1>10, <1>12, <2>2
      <3>4. cumulative'[i] = added'[i].difficulty + (IF i = 1 THEN 0 ELSE cumulative'[i - 1])
        <4>1. cumulative'[i] = c /\ added'[i].difficulty = d
          BY <1>4, <1>9, <1>12, <2>2
        <4>2. (IF i = 1 THEN 0 ELSE cumulative'[i - 1]) = IF n + 1 = 1 THEN 0 ELSE cumulative[n]
          BY <2>2, <3>2
        <4> QED
          BY <1>6, <4>1, <4>2
      <3>5. longTerm'[i] = r /\ added'[i].weight = w
        BY <1>4, <1>11, <1>12, <2>2
      <3> QED
        BY <3>1, <3>3, <3>4, <3>5 DEF r
    <2> QED
      BY <1>1, <2>1, <2>2
  <1>15. DOMAIN added' = 1 .. n + 1
    BY <1>12
  <1> QED
    BY <1>8, <1>9, <1>10, <1>11, <1>12, <1>14, <1>15 DEF RulesKept, Windows

\* Blocks that are popped.
LEMMA RollbackKeeps ==
    ASSUME RulesKept, NEW h \in Nat, RollbackToHeight(h)
    PROVE  RulesKept'
  <1> DEFINE n == Len(added)
  <1>1. /\ n \in Nat /\ Len(times) = n /\ Len(cumulative) = n /\ Len(weights) = n
        /\ Len(longTerm) = n /\ DOMAIN added = 1 .. n
    BY DEF RulesKept, Windows
  <1>2. h < n
    BY <1>1 DEF RollbackToHeight, ChainHeight
  <1>3. /\ times' = SubSeq(times, 1, h) /\ cumulative' = SubSeq(cumulative, 1, h)
        /\ weights' = SubSeq(weights, 1, h) /\ longTerm' = SubSeq(longTerm, 1, h)
        /\ added' = SubSeq(added, 1, h)
    BY DEF RollbackToHeight
  <1>4. h <= n
    BY <1>1, <1>2
  <1> HIDE DEF n
  <1>5. times' \in Seq(Int) /\ Len(times') = h /\ \A i \in 1 .. h : times'[i] = times[i]
    BY <1>1, <1>3, <1>4, BeginningIs DEF RulesKept, Windows
  <1>6. /\ cumulative' \in Seq(Nat) /\ Len(cumulative') = h
        /\ \A i \in 1 .. h : cumulative'[i] = cumulative[i]
    BY <1>1, <1>3, <1>4, BeginningIs DEF RulesKept, Windows
  <1>7. /\ weights' \in Seq(BlockWeights) /\ Len(weights') = h
        /\ \A i \in 1 .. h : weights'[i] = weights[i]
    BY <1>1, <1>3, <1>4, BeginningIs DEF RulesKept, Windows
  <1>8. /\ longTerm' \in Seq(Nat) /\ Len(longTerm') = h
        /\ \A i \in 1 .. h : longTerm'[i] = longTerm[i]
    BY <1>1, <1>3, <1>4, BeginningIs DEF RulesKept, Windows
  <1>9. /\ added' \in Seq(ChainBlock) /\ Len(added') = h
        /\ \A i \in 1 .. h : added'[i] = added[i]
    BY <1>1, <1>3, <1>4, BeginningIs DEF RulesKept, Windows, n
  <1>10. ASSUME NEW i \in 1 .. h
         PROVE  /\ times'[i] = added'[i].time
                /\ weights'[i] = added'[i].weight
                /\ cumulative'[i] = added'[i].difficulty
                                       + (IF i = 1 THEN 0 ELSE cumulative'[i - 1])
                /\ longTerm'[i] = RecordedWeight(added'[i].weight, SubSeq(longTerm', 1, i - 1))
    <2>1. i \in 1 .. n
      BY <1>1, <1>4
    <2>2. /\ times[i] = added[i].time /\ weights[i] = added[i].weight
          /\ cumulative[i] = added[i].difficulty + (IF i = 1 THEN 0 ELSE cumulative[i - 1])
          /\ longTerm[i] = RecordedWeight(added[i].weight, SubSeq(longTerm, 1, i - 1))
      BY <1>1, <2>1 DEF RulesKept, Windows
    <2>3. i # 1 => cumulative'[i - 1] = cumulative[i - 1]
      BY <1>6
    <2>4. SubSeq(longTerm', 1, i - 1) = SubSeq(longTerm, 1, i - 1)
      <3>1. /\ i - 1 \in Nat /\ i - 1 <= Len(longTerm) /\ i - 1 <= Len(longTerm')
            /\ \A j \in 1 .. i - 1 : longTerm'[j] = longTerm[j]
        BY <1>1, <1>4, <1>8
      <3>2. longTerm \in Seq(Nat)
        BY DEF RulesKept, Windows
      <3> QED
        BY <1>8, <3>1, <3>2, SameBeginning
    <2> QED
      BY <1>5, <1>6, <1>7, <1>8, <1>9, <2>2, <2>3, <2>4
  <1>11. DOMAIN added' = 1 .. h
    BY <1>9
  <1> QED
    BY <1>5, <1>6, <1>7, <1>8, <1>9, <1>10, <1>11 DEF RulesKept, Windows

-----------------------------------------------------------------------------
(***************************************************************************)
(* The rules of the chain: the difficulty                                   *)
(***************************************************************************)
\* A quotient, between the products next to the dividend.
LEMMA QuotientIs ==
    ASSUME NEW x \in Int, NEW y \in Nat \ {0}
    PROVE  x \div y \in Int /\ y * (x \div y) <= x /\ x < y * (x \div y) + y
  OBVIOUS

\* What a quotient is at least.
LEMMA QuotientAtLeast ==
    ASSUME NEW x \in Int, NEW y \in Nat \ {0}, NEW q \in Int, y * q <= x
    PROVE  q <= x \div y
  <1> DEFINE p == x \div y
  <1>1. p \in Int /\ x < y * p + y
    BY QuotientIs
  <1> HIDE DEF p
  <1>2. SUFFICES ASSUME p + 1 <= q PROVE FALSE
    BY <1>1 DEF p
  <1>3. y * (p + 1) <= y * q
    BY <1>1, <1>2
  <1>4. y * (p + 1) = y * p + y
    BY <1>1
  <1> QED
    BY <1>1, <1>3, <1>4

\* What it is at most.
LEMMA QuotientAtMost ==
    ASSUME NEW x \in Int, NEW y \in Nat \ {0}, NEW q \in Int, x <= y * q
    PROVE  x \div y <= q
  <1> DEFINE p == x \div y
  <1>1. p \in Int /\ y * p <= x
    BY QuotientIs
  <1> HIDE DEF p
  <1>2. SUFFICES ASSUME q + 1 <= p PROVE FALSE
    BY <1>1 DEF p
  <1>3. y * (q + 1) <= y * p
    BY <1>1, <1>2
  <1>4. y * (q + 1) = y * q + y
    BY <1>1
  <1> QED
    BY <1>1, <1>3, <1>4

\* The sum is the last of the running sums.
LEMMA SumIs ==
    ASSUME NEW n \in Nat, NEW f, \A i \in 1 .. n : f[i] \in Int
    PROVE  \E s \in [0 .. n -> Int] :
               s[0] = 0 /\ (\A i \in 1 .. n : s[i] = s[i - 1] + f[i]) /\ SumTo(f, n) = s[n]
  <1> DEFINE Runs(s, m) == s[0] = 0 /\ \A i \in 1 .. m : s[i] = s[i - 1] + f[i]
             T == {m \in Nat : m <= n => \E s \in [0 .. m -> Int] : Runs(s, m)}
             Flat(s) == s = [k \in 0 .. n |-> IF k = 0 THEN 0 ELSE s[k - 1] + f[k]]
             c == CHOOSE s : Flat(s)
  <1>1. 0 \in T
    <2> DEFINE s == [i \in 0 .. 0 |-> 0]
    <2>1. s \in [0 .. 0 -> Int] /\ Runs(s, 0)
      OBVIOUS
    <2> QED
      BY <2>1
  <1>2. ASSUME NEW m \in Nat, m \in T PROVE m + 1 \in T
    <2>1. SUFFICES ASSUME m + 1 <= n PROVE \E s \in [0 .. m + 1 -> Int] : Runs(s, m + 1)
      OBVIOUS
    <2>2. PICK s \in [0 .. m -> Int] : Runs(s, m)
      BY <1>2, <2>1
    <2> DEFINE t == [i \in 0 .. m + 1 |-> IF i = m + 1 THEN s[m] + f[m + 1] ELSE s[i]]
    <2>3. s[m] \in Int /\ f[m + 1] \in Int
      BY <2>1, <2>2
    <2>4. t \in [0 .. m + 1 -> Int]
      BY <2>2, <2>3
    <2>5. t[0] = 0
      BY <2>2
    <2>6. ASSUME NEW i \in 1 .. m + 1 PROVE t[i] = t[i - 1] + f[i]
      <3>1. CASE i = m + 1
        BY <2>3, <3>1
      <3>2. CASE i # m + 1
        <4>1. i \in 1 .. m /\ i - 1 \in 0 .. m /\ i - 1 # m + 1
          BY <3>2
        <4> QED
          BY <2>2, <4>1
      <3> QED
        BY <3>1, <3>2
    <2> HIDE DEF t
    <2> QED
      BY <2>4, <2>5, <2>6
  <1>3. Nat \subseteq T
    <2> HIDE DEF T
    <2> QED
      BY <1>1, <1>2, InductiveSet
  <1>4. PICK s \in [0 .. n -> Int] : Runs(s, n)
    BY <1>3
  <1>5. Flat(s)
    <2> DEFINE r == [k \in 0 .. n |-> IF k = 0 THEN 0 ELSE s[k - 1] + f[k]]
    <2>1. ASSUME NEW k \in 0 .. n PROVE s[k] = r[k]
      BY <1>4
    <2> QED
      BY <2>1
  <1>6. Flat(c)
    BY <1>5
  <1>7. ASSUME NEW k \in 0 .. n PROVE c[k] = IF k = 0 THEN 0 ELSE c[k - 1] + f[k]
    <2> HIDE DEF c
    <2> QED
      BY <1>6
  <1>8. SumTo(f, n) = c[n]
    BY DEF SumTo
  <1> DEFINE U == {m \in Nat : m <= n => c[m] = s[m]}
  <1> HIDE DEF c
  <1>9. 0 \in U
    BY <1>4, <1>7
  <1>10. ASSUME NEW m \in Nat, m \in U PROVE m + 1 \in U
    <2>1. SUFFICES ASSUME m + 1 <= n PROVE c[m + 1] = s[m + 1]
      OBVIOUS
    <2>2. c[m] = s[m] /\ m + 1 \in 0 .. n /\ m + 1 \in 1 .. n /\ m + 1 # 0 /\ m + 1 - 1 = m
      BY <1>10, <2>1
    <2>3. c[m + 1] = c[m] + f[m + 1]
      BY <1>7, <2>2
    <2> QED
      BY <1>4, <2>2, <2>3
  <1>11. n \in U
    <2> HIDE DEF U
    <2> QED
      BY <1>9, <1>10, InductiveSet
  <1>12. SumTo(f, n) = s[n]
    BY <1>8, <1>11
  <1> HIDE DEF T, U
  <1> QED
    BY <1>4, <1>12

\* A running sum that grows no faster than another stays below it.
LEMMA GrowsSlower ==
    ASSUME NEW n \in Nat, NEW s \in [0 .. n -> Int], NEW t \in [0 .. n -> Int], s[0] <= t[0],
           \A i \in 1 .. n : s[i] - s[i - 1] <= t[i] - t[i - 1]
    PROVE  s[n] <= t[n]
  <1> DEFINE T == {m \in Nat : m <= n => s[m] <= t[m]}
  <1>1. 0 \in T
    OBVIOUS
  <1>2. ASSUME NEW m \in Nat, m \in T PROVE m + 1 \in T
    <2>1. SUFFICES ASSUME m + 1 <= n PROVE s[m + 1] <= t[m + 1]
      OBVIOUS
    <2>2. s[m] <= t[m] /\ m \in 0 .. n /\ m + 1 \in 1 .. n /\ m + 1 - 1 = m
      BY <1>2, <2>1
    <2>3. s[m + 1] - s[m] <= t[m + 1] - t[m]
      BY <2>2
    <2>4. s[m] \in Int /\ t[m] \in Int /\ s[m + 1] \in Int /\ t[m + 1] \in Int
      BY <2>2
    <2> QED
      BY <2>2, <2>3, <2>4
  <1>3. n \in T
    <2> HIDE DEF T
    <2> QED
      BY <1>1, <1>2, InductiveSet
  <1> QED
    BY <1>3

\* Each of n numbers is at most b when it is taken c times, and at least b when it is
\* taken d times.
Between(f, n, b, c, d) == \A i \in 1 .. n : b <= d * f[i] /\ c * f[i] <= b

\* Then so is their sum, of n times b.
LEMMA SumIsBetween ==
    ASSUME NEW n \in Nat, NEW f, \A i \in 1 .. n : f[i] \in Int,
           NEW c \in Int, NEW d \in Int, NEW b \in Int, Between(f, n, b, c, d)
    PROVE  /\ SumTo(f, n) \in Int
           /\ b * n <= d * SumTo(f, n) /\ c * SumTo(f, n) <= b * n
  <1>1. PICK s \in [0 .. n -> Int] :
            s[0] = 0 /\ (\A i \in 1 .. n : s[i] = s[i - 1] + f[i]) /\ SumTo(f, n) = s[n]
    BY SumIs
  <1> DEFINE up == [i \in 0 .. n |-> d * s[i]]
             down == [i \in 0 .. n |-> c * s[i]]
             mid == [i \in 0 .. n |-> b * i]
  <1>2. up \in [0 .. n -> Int] /\ down \in [0 .. n -> Int] /\ mid \in [0 .. n -> Int]
    OBVIOUS
  <1>3. up[0] = 0 /\ down[0] = 0 /\ mid[0] = 0
    BY <1>1
  <1>4. ASSUME NEW i \in 1 .. n
        PROVE  /\ mid[i] - mid[i - 1] <= up[i] - up[i - 1]
               /\ down[i] - down[i - 1] <= mid[i] - mid[i - 1]
    <2> DEFINE x == s[i - 1]
               y == f[i]
    <2>1. x \in Int /\ y \in Int /\ s[i] = x + y /\ i - 1 \in 0 .. n /\ i \in 0 .. n
      BY <1>1
    <2>2. b <= d * y /\ c * y <= b
      BY DEF Between
    <2>3. mid[i] = b * i /\ mid[i - 1] = b * (i - 1)
      BY <2>1
    <2>4. up[i] = d * (x + y) /\ up[i - 1] = d * x /\ down[i] = c * (x + y) /\ down[i - 1] = c * x
      BY <2>1
    <2> HIDE DEF x, y, up, down, mid
    <2>5. b * i - b * (i - 1) = b
      OBVIOUS
    <2>6. d * (x + y) - d * x = d * y /\ c * (x + y) - c * x = c * y
      BY <2>1
    <2> QED
      BY <2>2, <2>3, <2>4, <2>5, <2>6
  <1>5. n \in 0 .. n /\ 0 <= 0
    OBVIOUS
  <1>6. up[n] = d * s[n] /\ down[n] = c * s[n] /\ mid[n] = b * n /\ s[n] \in Int
    BY <1>5
  <1> HIDE DEF up, down, mid
  <1>7. mid[n] <= up[n]
    BY <1>2, <1>3, <1>4, <1>5, GrowsSlower
  <1>8. down[n] <= mid[n]
    BY <1>2, <1>3, <1>4, <1>5, GrowsSlower
  <1> QED
    BY <1>1, <1>6, <1>7, <1>8

\* A product of neighbours is even.
LEMMA HalfOfNeighbours ==
    ASSUME NEW n \in Nat
    PROVE  (n * (n + 1)) \div 2 \in Nat /\ 2 * ((n * (n + 1)) \div 2) = n * (n + 1)
  <1>1. PICK a \in Nat : n = 2 * a \/ n = 2 * a + 1
    <2>1. n \div 2 \in Nat /\ (n = 2 * (n \div 2) \/ n = 2 * (n \div 2) + 1)
      OBVIOUS
    <2> QED
      BY <2>1
  <1> DEFINE p == IF n = 2 * a THEN a * (n + 1) ELSE n * (a + 1)
  <1>2. p \in Nat
    BY <1>1
  <1>3. n * (n + 1) = 2 * p
    <2>1. CASE n = 2 * a
      <3>1. p = a * (n + 1)
        BY <2>1
      <3>2. n * (n + 1) = (2 * a) * (n + 1)
        BY <2>1
      <3>3. (2 * a) * (n + 1) = 2 * (a * (n + 1))
        OBVIOUS
      <3> QED
        BY <3>1, <3>2, <3>3
    <2>2. CASE n # 2 * a
      <3>1. p = n * (a + 1) /\ n + 1 = 2 * (a + 1)
        BY <1>1, <2>2
      <3>2. n * (2 * (a + 1)) = 2 * (n * (a + 1))
        OBVIOUS
      <3> QED
        BY <3>1, <3>2
    <2> QED
      BY <2>1, <2>2
  <1> HIDE DEF p
  <1>4. (2 * p) \div 2 = p
    BY <1>2
  <1> QED
    BY <1>2, <1>3, <1>4

\* Numbers that grow from each to the next grow from any to a later one.
LEMMA GrowsThroughout ==
    ASSUME NEW n \in Nat, NEW c \in [1 .. n -> Int], \A i \in 1 .. n - 1 : c[i] < c[i + 1],
           NEW i \in 1 .. n, NEW j \in 1 .. n, i < j
    PROVE  c[i] < c[j]
  <1> DEFINE T == {m \in Nat : i + m + 1 <= n => c[i] < c[i + m + 1]}
  <1>1. 0 \in T
    OBVIOUS
  <1>2. ASSUME NEW m \in Nat, m \in T PROVE m + 1 \in T
    <2>1. SUFFICES ASSUME i + (m + 1) + 1 <= n PROVE c[i] < c[i + (m + 1) + 1]
      OBVIOUS
    <2> DEFINE k == i + m + 1
    <2>2. k \in 1 .. n - 1 /\ k \in 1 .. n /\ k + 1 \in 1 .. n /\ i + (m + 1) + 1 = k + 1 /\ k <= n
      BY <2>1
    <2>3. c[i] < c[k]
      BY <1>2, <2>2
    <2> HIDE DEF k
    <2>4. c[k] < c[k + 1]
      BY <2>2
    <2>5. c[i] \in Int /\ c[k] \in Int /\ c[k + 1] \in Int
      BY <2>2
    <2>6. c[i] < c[k + 1]
      BY <2>3, <2>4, <2>5
    <2> QED
      BY <2>2, <2>6
  <1>3. Nat \subseteq T
    <2> HIDE DEF T
    <2> QED
      BY <1>1, <1>2, InductiveSet
  <1>4. j - i - 1 \in Nat /\ i + (j - i - 1) + 1 = j
    OBVIOUS
  <1>5. j - i - 1 \in T
    BY <1>3, <1>4
  <1> QED
    BY <1>4, <1>5

\* Each block adds its difficulty, so the work grows.
LEMMA WorkGrows ==
    ASSUME RulesAssumption, RulesKept
    PROVE  /\ Len(times) \in Nat /\ Len(cumulative) = Len(times)
           /\ times \in Seq(Int) /\ cumulative \in Seq(Int)
           /\ cumulative \in [1 .. Len(times) -> Int]
           /\ \A i \in 1 .. Len(times) - 1 :
                  cumulative[i + 1] - cumulative[i] \in Difficulties
           /\ \A i \in 1 .. Len(times) - 1 : cumulative[i] < cumulative[i + 1]
  <1> DEFINE n == Len(times)
  <1>1. /\ n \in Nat /\ Len(cumulative) = n /\ DOMAIN added = 1 .. n /\ Len(added) = n
        /\ times \in Seq(Int) /\ cumulative \in Seq(Nat) /\ added \in Seq(ChainBlock)
    BY DEF RulesKept, Windows
  <1>2. cumulative \in Seq(Int) /\ cumulative \in [1 .. n -> Int]
    BY <1>1
  <1> HIDE DEF n
  <1>3. ASSUME NEW i \in 1 .. n - 1
        PROVE  /\ cumulative[i + 1] - cumulative[i] \in Difficulties
               /\ cumulative[i] < cumulative[i + 1]
    <2>1. i + 1 \in 1 .. n /\ i + 1 # 1 /\ i + 1 - 1 = i /\ i \in 1 .. n
      BY <1>1
    <2>2. cumulative[i + 1] = added[i + 1].difficulty + cumulative[i]
      <3>1. \A j \in 1 .. n :
                cumulative[j] = added[j].difficulty + (IF j = 1 THEN 0 ELSE cumulative[j - 1])
        BY <1>1 DEF RulesKept, Windows
      <3>2. cumulative[i + 1] = added[i + 1].difficulty
                                   + (IF i + 1 = 1 THEN 0 ELSE cumulative[i + 1 - 1])
        BY <2>1, <3>1
      <3> QED
        BY <2>1, <3>2
    <2>3. added[i + 1].difficulty \in Difficulties
      <3>1. added[i + 1] \in ChainBlock
        BY <1>1, <2>1
      <3> QED
        BY <3>1 DEF ChainBlock
    <2>4. added[i + 1].difficulty \in Nat /\ added[i + 1].difficulty > 0
      <3>1. Difficulties \subseteq Nat \ {0}
        BY DEF RulesAssumption
      <3>2. added[i + 1].difficulty \in Nat \ {0}
        BY <2>3, <3>1
      <3> QED
        BY <3>2
    <2>5. cumulative[i] \in Int
      BY <1>2, <2>1
    <2> QED
      BY <2>2, <2>3, <2>4, <2>5
  <1> QED
    BY <1>1, <1>2, <1>3 DEF n

\* The difficulty before the second fork is positive.
LEMMA LegacyIsPositive ==
    ASSUME RulesAssumption, RulesKept
    PROVE  LegacyDifficulty > 0
  <1> DEFINE L == Len(times)
             W == LegacyWindow + 1
             n == Smaller(L, LegacyWindow)
             lt == LastOf(times, W)
             lc == LastOf(cumulative, W)
             ts == SubSeq(lt, 1, n)
             cs == SubSeq(lc, 1, n)
             inner == LegacyWindow - 2 * LegacyCut
             begin == IF n <= inner THEN 0 ELSE (n - inner + 1) \div 2
             end == IF n <= inner THEN n ELSE begin + inner
             span == Larger(1, InOrder(ts, end) - InOrder(ts, begin + 1))
  <1>1. /\ L \in Nat /\ Len(cumulative) = L /\ times \in Seq(Int) /\ cumulative \in Seq(Int)
        /\ cumulative \in [1 .. L -> Int]
        /\ \A i \in 1 .. L - 1 : cumulative[i] < cumulative[i + 1]
    BY WorkGrows
  <1>2. /\ LegacyWindow \in Nat /\ LegacyCut \in Nat /\ inner \in Int /\ inner > 1
        /\ W \in Nat \ {0} /\ Target \in Nat /\ Target >= 1 /\ W = LegacyWindow + 1
    BY DEF RulesAssumption
  <1>3. LegacyDifficulty = IF n <= 1 THEN 1
                           ELSE ((cs[end] - cs[begin + 1]) * Target + span - 1) \div span
    BY DEF LegacyDifficulty
  <1>4. CASE n <= 1
    BY <1>3, <1>4
  <1>5. CASE ~(n <= 1)
    <2> HIDE DEF L, W, inner
    <2>1. n \in Nat /\ n >= 2 /\ n <= L /\ n <= Smaller(L, W) /\ Smaller(L, W) <= L
      BY <1>1, <1>2, <1>5 DEF Smaller
    <2>2. lt \in Seq(Int) /\ Len(lt) = Smaller(L, W)
      BY <1>1, <1>2, LastOfIs DEF L
    <2> DEFINE m == Larger(1, L - W + 1)
    <2>3. /\ lc \in Seq(Int) /\ Len(lc) = Smaller(L, W)
          /\ \A i \in 1 .. Smaller(L, W) : lc[i] = cumulative[m + i - 1]
      <3>1. m = Larger(1, Len(cumulative) - W + 1) /\ Smaller(L, W) = Smaller(Len(cumulative), W)
        BY <1>1
      <3> HIDE DEF m
      <3>2. cumulative \in Seq(Int) /\ W \in Nat \ {0}
        BY <1>1, <1>2
      <3>3. /\ lc \in Seq(Int) /\ Len(lc) = Smaller(Len(cumulative), W)
            /\ \A i \in 1 .. Smaller(Len(cumulative), W) :
                   lc[i] = cumulative[Larger(1, Len(cumulative) - W + 1) + i - 1]
        BY <3>2, LastOfIs
      <3> QED
        BY <3>1, <3>3
    <2>4. m \in Nat /\ m >= 1 /\ m + Smaller(L, W) - 1 <= L
      BY <1>1, <1>2 DEF Larger, Smaller
    <2> HIDE DEF n, lt, lc, m
    <2>5. ts \in Seq(Int) /\ Len(ts) = n
      BY <2>1, <2>2, BeginningIs
    <2>6. cs \in Seq(Int) /\ Len(cs) = n /\ \A i \in 1 .. n : cs[i] = lc[i]
      BY <2>1, <2>3, BeginningIs
    <2>7. begin \in Nat /\ end \in Nat /\ begin + 1 < end /\ end <= n
      <3>1. CASE n <= inner
        BY <2>1, <3>1
      <3>2. CASE ~(n <= inner)
        <4> DEFINE r == n - inner
        <4>1. r \in Nat /\ r >= 1 /\ n = inner + r
          BY <1>2, <2>1, <3>2
        <4> HIDE DEF r
        <4>2. (r + 1) \div 2 \in Nat /\ (r + 1) \div 2 <= r
          BY <4>1
        <4>3. begin = (r + 1) \div 2 /\ end = (r + 1) \div 2 + inner
          BY <3>2 DEF r
        <4> HIDE DEF begin, end
        <4> QED
          BY <1>2, <4>1, <4>2, <4>3
      <3> QED
        BY <3>1, <3>2
    <2> HIDE DEF begin, end, ts, cs
    <2>8. span \in Nat \ {0}
      <3>1. begin + 1 \in 1 .. Len(ts) /\ end \in 1 .. Len(ts)
        BY <2>1, <2>5, <2>7
      <3>2. InOrder(ts, end) \in Int /\ InOrder(ts, begin + 1) \in Int
        BY <2>5, <3>1, InOrderIs
      <3> QED
        BY <3>2 DEF Larger
    <2>9. cs[end] \in Int /\ cs[begin + 1] \in Int /\ cs[end] - cs[begin + 1] >= 1
      <3>1. begin + 1 \in 1 .. n /\ end \in 1 .. n
        BY <2>1, <2>7
      <3>2. begin + 1 \in 1 .. Smaller(L, W) /\ end \in 1 .. Smaller(L, W)
        BY <1>1, <1>2, <2>1, <3>1 DEF Smaller
      <3>3. cs[end] = cumulative[m + end - 1] /\ cs[begin + 1] = cumulative[m + (begin + 1) - 1]
        BY <2>3, <2>6, <3>1, <3>2
      <3>4. /\ m + end - 1 \in 1 .. L /\ m + (begin + 1) - 1 \in 1 .. L
            /\ m + (begin + 1) - 1 < m + end - 1
        <4>1. Smaller(L, W) \in Nat
          BY <1>1, <1>2 DEF Smaller
        <4> QED
          BY <1>1, <2>4, <2>7, <3>2, <4>1
      <3>5. cumulative[m + (begin + 1) - 1] < cumulative[m + end - 1]
        BY <1>1, <3>4, GrowsThroughout
      <3>6. cumulative[m + (begin + 1) - 1] \in Int /\ cumulative[m + end - 1] \in Int
        BY <1>1, <3>4
      <3> QED
        BY <3>3, <3>5, <3>6
    <2> DEFINE x == cs[end] - cs[begin + 1]
               y == x * Target
               z == y + span - 1
    <2>10. x \in Int /\ x >= 1
      BY <2>9
    <2>11. LegacyDifficulty = z \div span
      BY <1>3, <1>5
    <2> HIDE DEF x, span
    <2>12. y \in Int /\ y >= 1
      BY <1>2, <2>10
    <2> HIDE DEF y
    <2>13. z \in Int /\ span * 1 <= z
      BY <2>8, <2>12
    <2> HIDE DEF z
    <2>14. 1 <= z \div span /\ z \div span \in Int
      BY <2>8, <2>13, QuotientAtLeast, QuotientIs
    <2> QED
      BY <2>11, <2>14
  <1> QED
    BY <1>4, <1>5

\* The sums of the LWMA rule, over the last n blocks: what the inverses of the
\* difficulties add up to lies between n multiples over the largest and over eight, and
\* no more time counts than seven targets for each block.
LEMMA LwmaSums ==
    ASSUME RulesAssumption, NEW n \in Nat \ {0}, NEW ts, NEW cs, NEW top \in Nat \ {0},
           \A i \in 1 .. n + 1 : ts[i] \in Int /\ cs[i] \in Int,
           \A i \in 1 .. n : cs[i + 1] - cs[i] \in Difficulties,
           \A d \in Difficulties : d >= 8 /\ d <= top
    PROVE  LET solved == SumTo([i \in 1 .. n |-> SolveTime(ts[i + 1], ts[i]) * i], n)
               inverse == SumTo([i \in 1 .. n |-> Multiple \div (cs[i + 1] - cs[i])], n)
           IN  /\ solved \in Int /\ 2 * solved <= 7 * Target * (n * (n + 1))
               /\ inverse \in Int /\ Multiple * n <= top * inverse /\ 8 * inverse <= Multiple * n
  <1> DEFINE times7 == [i \in 1 .. n |-> SolveTime(ts[i + 1], ts[i]) * i]
             inverses == [i \in 1 .. n |-> Multiple \div (cs[i + 1] - cs[i])]
  <1>1. Multiple \in Nat \ {0} /\ Target \in Nat \ {0} /\ Difficulties \subseteq Nat \ {0}
    BY DEF RulesAssumption
  <1>2. ASSUME NEW i \in 1 .. n
        PROVE  /\ inverses[i] \in Int /\ Multiple <= top * inverses[i]
               /\ 8 * inverses[i] <= Multiple
    <2> DEFINE d == cs[i + 1] - cs[i]
               q == Multiple \div d
    <2>1. d \in Difficulties /\ d \in Nat \ {0} /\ d >= 8 /\ d <= top
      BY <1>1
    <2>2. Multiple % d = 0
      BY <2>1 DEF RulesAssumption
    <2>3. inverses[i] = q
      OBVIOUS
    <2> HIDE DEF d
    <2>4. q \in Int /\ d * q = Multiple
      <3>1. Multiple = d * (Multiple \div d) + (Multiple % d)
        BY <1>1, <2>1
      <3> QED
        BY <1>1, <2>1, <2>2, <3>1
    <2> HIDE DEF q
    <2>5. q >= 0
      <3>1. SUFFICES ASSUME q < 0 PROVE FALSE
        BY <2>4
      <3>2. d * q < 0
        BY <2>1, <2>4, <3>1
      <3> QED
        BY <1>1, <2>4, <3>2
    <2>6. 8 * q <= d * q /\ d * q <= top * q
      BY <2>1, <2>4, <2>5
    <2> HIDE DEF inverses
    <2> QED
      BY <2>3, <2>4, <2>6
  <1>3. /\ SumTo(inverses, n) \in Int /\ Multiple * n <= top * SumTo(inverses, n)
        /\ 8 * SumTo(inverses, n) <= Multiple * n
    <2> HIDE DEF inverses
    <2>1. \A i \in 1 .. n : inverses[i] \in Int
      BY <1>2
    <2>2. Between(inverses, n, Multiple, 8, top)
      BY <1>2 DEF Between
    <2>3. n \in Nat /\ 8 \in Int /\ top \in Int /\ Multiple \in Int
      BY <1>1
    <2> QED
      BY <2>1, <2>2, <2>3, SumIsBetween
  <1>4. ASSUME NEW i \in 1 .. n PROVE times7[i] \in Int /\ times7[i] <= 7 * Target * i
    <2> DEFINE x == SolveTime(ts[i + 1], ts[i])
    <2>1. ts[i + 1] \in Int /\ ts[i] \in Int /\ times7[i] = x * i
      OBVIOUS
    <2>2. x \in Int /\ x <= 7 * Target
      <3>1. 7 * Target \in Int /\ -7 * Target \in Int
        BY <1>1
      <3> HIDE DEF times7
      <3> QED
        BY <2>1, <3>1 DEF SolveTime, Smaller, Larger
    <2> HIDE DEF x, times7
    <2>3. x * i <= (7 * Target) * i
      BY <1>1, <2>2
    <2> QED
      BY <1>1, <2>1, <2>2, <2>3
  <1>5. PICK s \in [0 .. n -> Int] :
            s[0] = 0 /\ (\A i \in 1 .. n : s[i] = s[i - 1] + times7[i]) /\ SumTo(times7, n) = s[n]
    <2>1. \A i \in 1 .. n : times7[i] \in Int
      BY <1>4
    <2> HIDE DEF times7
    <2> QED
      BY <2>1, SumIs
  <1>6. 2 * s[n] <= 7 * Target * (n * (n + 1))
    <2> DEFINE a == [i \in 0 .. n |-> 2 * s[i]]
               b == [i \in 0 .. n |-> 7 * Target * (i * (i + 1))]
    <2>1. a \in [0 .. n -> Int] /\ b \in [0 .. n -> Int]
      BY <1>1
    <2>2. a[0] <= b[0]
      BY <1>1, <1>5
    <2>3. ASSUME NEW i \in 1 .. n PROVE a[i] - a[i - 1] <= b[i] - b[i - 1]
      <3> DEFINE y == times7[i]
                 z == s[i - 1]
      <3>1. y \in Int /\ y <= 7 * Target * i /\ z \in Int /\ s[i] = z + y
        BY <1>4, <1>5
      <3>2. i \in Nat /\ i \in 0 .. n /\ i - 1 \in 0 .. n
        OBVIOUS
      <3>3. a[i] = 2 * (z + y) /\ a[i - 1] = 2 * z
        BY <3>1, <3>2
      <3>4. b[i] = 7 * Target * (i * (i + 1)) /\ b[i - 1] = 7 * Target * ((i - 1) * (i - 1 + 1))
        BY <3>2
      <3> HIDE DEF a, b, y, z
      <3>5. i * (i + 1) = (i - 1) * (i - 1 + 1) + 2 * i
        BY <3>2
      <3> DEFINE p == (i - 1) * (i - 1 + 1)
                 t == 7 * Target
      <3>6. p \in Int /\ t \in Int
        BY <1>1, <3>2
      <3>7. b[i] = t * (p + 2 * i) /\ b[i - 1] = t * p
        BY <3>4, <3>5
      <3> HIDE DEF p, t
      <3>8. t * (p + 2 * i) = t * p + 2 * (t * i)
        BY <3>2, <3>6
      <3>9. y <= t * i
        BY <3>1 DEF t
      <3> DEFINE u == t * i
                 v == t * p
      <3>10. u \in Int /\ v \in Int /\ b[i] = v + 2 * u /\ b[i - 1] = v /\ y <= u
        BY <3>2, <3>6, <3>7, <3>8, <3>9
      <3> HIDE DEF u, v
      <3>11. a[i] - a[i - 1] = 2 * y
        BY <3>1, <3>3
      <3>12. b[i] - b[i - 1] = 2 * u
        BY <3>10
      <3> QED
        BY <3>1, <3>10, <3>11, <3>12
    <2>4. n \in 0 .. n /\ a[n] = 2 * s[n] /\ b[n] = 7 * Target * (n * (n + 1))
      OBVIOUS
    <2> HIDE DEF a, b
    <2>5. a[n] <= b[n]
      BY <2>1, <2>2, <2>3, GrowsSlower
    <2> QED
      BY <2>4, <2>5
  <1>7. s[n] \in Int
    OBVIOUS
  <1> HIDE DEF times7, inverses
  <1>8. /\ SumTo(times7, n) \in Int /\ 2 * SumTo(times7, n) <= 7 * Target * (n * (n + 1))
        /\ SumTo(inverses, n) \in Int /\ Multiple * n <= top * SumTo(inverses, n)
        /\ 8 * SumTo(inverses, n) <= Multiple * n
    BY <1>3, <1>5, <1>6, <1>7
  <1> QED
    BY <1>8 DEF times7, inverses

\* A quotient that is positive and at most top.
Damped(x, y, top) == 1 <= x \div y /\ x \div y <= top /\ x \div y \in Int

\* The quotients of the LWMA rule, for the target q and the time s.
SlowDamped(p, i, top, q, s) == Damped(998 * (p * q), 1000 * (i * s), 20 * top)

BothDamped(p, i, top) ==
    /\ Damped(19960 * p, 1000 * i, 20 * top)
    /\ \A q \in Nat \ {0}, s \in Int :
           q <= 20 * s /\ s <= 7 * q => SlowDamped(p, i, top, q, s)

\* Both are, p being n multiples, i the sum of the inverses, q
\* a target for each of the weights of the average and s the weighted time.
LEMMA DampedQuotients ==
    ASSUME NEW p \in Nat \ {0}, NEW i \in Int, NEW top \in Nat \ {0}, p <= top * i, 8 * i <= p
    PROVE  BothDamped(p, i, top)
  <1>1. i >= 1
    <2>1. SUFFICES ASSUME i <= 0 PROVE FALSE
      OBVIOUS
    <2>2. top * i <= 0
      BY <2>1
    <2> QED
      BY <2>2
  <1>2. 1000 * i \in Nat \ {0} /\ 19960 * p \in Int
    BY <1>1
  <1>3. (1000 * i) * 1 <= 19960 * p
    BY <1>1
  <1>4. 19960 * p <= (1000 * i) * (20 * top)
    <2> DEFINE t == top * i
    <2>1. (1000 * i) * (20 * top) = 20000 * t
      BY <1>1
    <2>2. t \in Int /\ p <= t
      BY <1>1
    <2> HIDE DEF t
    <2>3. 19960 * p <= 20000 * t
      BY <2>2
    <2> QED
      BY <2>1, <2>3
  <1>5. 1 \in Int /\ 20 * top \in Int
    OBVIOUS
  <1>6. Damped(19960 * p, 1000 * i, 20 * top)
    BY <1>2, <1>3, <1>4, <1>5, QuotientAtLeast, QuotientAtMost, QuotientIs DEF Damped
  <1>7. ASSUME NEW q \in Nat \ {0}, NEW s \in Int, q <= 20 * s, s <= 7 * q
        PROVE  Damped(998 * (p * q), 1000 * (i * s), 20 * top)
    <2> DEFINE a == p * q
               b == i * s
    <2>1. s >= 1 /\ q >= 1
      BY <1>7
    <2>2. a \in Nat \ {0} /\ b \in Nat \ {0}
      BY <1>1, <2>1
    <2>3. 8 * b <= 7 * a
      <3>1. (8 * i) * s <= p * s
        BY <1>1, <2>1
      <3>2. p * s <= p * (7 * q)
        BY <1>7, <2>1
      <3>3. (8 * i) * s = 8 * b /\ p * (7 * q) = 7 * a
        BY <1>1, <2>1
      <3> HIDE DEF a, b
      <3>4. p * s \in Int
        BY <2>1
      <3> QED
        BY <2>2, <3>1, <3>2, <3>3, <3>4
    <2>4. a <= 20 * (top * b)
      <3>1. p * q <= (top * i) * q
        BY <1>1, <2>1
      <3>2. (top * i) * q <= (top * i) * (20 * s)
        <4> DEFINE t == top * i
        <4>1. t \in Nat
          BY <1>1
        <4> HIDE DEF t
        <4>2. t * q <= t * (20 * s)
          BY <1>7, <2>1, <4>1
        <4> QED
          BY <4>2 DEF t
      <3>3. (top * i) * (20 * s) = 20 * (top * b)
        BY <1>1, <2>1
      <3>4. (top * i) * q \in Int /\ top * b \in Int
        BY <1>1, <2>1
      <3> HIDE DEF b
      <3> QED
        BY <2>2, <3>1, <3>2, <3>3, <3>4 DEF a
    <2> HIDE DEF a, b
    <2>5. 1000 * b \in Nat \ {0} /\ 998 * a \in Int /\ (1000 * b) * 1 <= 998 * a
      BY <2>2, <2>3
    <2>6. 998 * a <= (1000 * b) * (20 * top)
      <3> DEFINE t == top * b
      <3>1. t \in Int /\ (1000 * b) * (20 * top) = 20000 * t
        BY <2>2
      <3>2. a <= 20 * t /\ t >= 0
        BY <2>2, <2>4
      <3> HIDE DEF t
      <3> QED
        BY <2>2, <3>1, <3>2
    <2>7. Damped(998 * a, 1000 * b, 20 * top)
      <3> DEFINE u == 998 * a
                 v == 1000 * b
                 w == 20 * top
      <3>1. u \in Int /\ v \in Nat \ {0} /\ w \in Int /\ v * 1 <= u /\ u <= v * w /\ 1 \in Int
        BY <1>5, <2>5, <2>6
      <3> HIDE DEF u, v, w
      <3>2. 1 <= u \div v
        BY <3>1, QuotientAtLeast
      <3>3. u \div v <= w
        BY <3>1, QuotientAtMost
      <3>4. u \div v \in Int
        BY <3>1, QuotientIs
      <3> QED
        BY <3>2, <3>3, <3>4 DEF Damped, u, v, w
    <2> QED
      BY <2>7 DEF a, b
  <1> QED
    BY <1>6, <1>7 DEF BothDamped, SlowDamped

\* The LWMA difficulty is positive, and at most twenty times the largest one.
LEMMA LwmaIsBounded ==
    ASSUME RulesAssumption, RulesKept, \A d \in Difficulties : d >= 8
    PROVE  LwmaDifficulty > 0 /\ LwmaDifficulty <= 20 * Max(Difficulties \union {1})
  <1> DEFINE L == Len(times)
             W == LwmaWindow + 1
             ts == LastOf(times, W)
             cs == LastOf(cumulative, W)
             n == Len(ts) - 1
             k == (n * (n + 1)) \div 2
             solved == SumTo([i \in 1 .. n |-> SolveTime(ts[i + 1], ts[i]) * i], n)
             inverse == SumTo([i \in 1 .. n |-> Multiple \div (cs[i + 1] - cs[i])], n)
             top == Max(Difficulties \union {1})
  <1>1. /\ L \in Nat /\ Len(cumulative) = L /\ times \in Seq(Int) /\ cumulative \in Seq(Int)
        /\ \A i \in 1 .. L - 1 : cumulative[i + 1] - cumulative[i] \in Difficulties
    BY WorkGrows
  <1>2. /\ W \in Nat \ {0} /\ LwmaMinimum \in Nat /\ LwmaMinimum >= 2
        /\ Target \in Nat \ {0} /\ Multiple \in Nat \ {0}
    BY DEF RulesAssumption
  <1>3. top \in Nat \ {0} /\ top >= 1 /\ \A d \in Difficulties : d <= top
    <2> DEFINE D == Difficulties \union {1}
    <2>1. Difficulties \subseteq Nat \ {0} /\ IsFiniteSet(Difficulties)
      BY DEF RulesAssumption
    <2>2. /\ IsFiniteSet(D) /\ D \subseteq Int /\ D # {} /\ 1 \in D /\ D \subseteq Nat
          /\ Difficulties \subseteq D /\ top = Max(D)
      BY <2>1, FS_AddElement
    <2> HIDE DEF D, top
    <2>3. Max(D) \in D /\ \A y \in D : y <= Max(D)
      BY <2>2, MaxIs
    <2>4. Max(D) \in Nat /\ 1 <= Max(D)
      BY <2>2, <2>3
    <2> QED
      BY <2>2, <2>3, <2>4
  <1>4. LwmaDifficulty = IF Len(ts) < LwmaMinimum THEN 1
                         ELSE IF 20 * solved < Target * k
                              THEN (n * 998 * Multiple * 20) \div (1000 * inverse)
                         ELSE (n * 998 * Multiple * Target * k) \div (1000 * inverse * solved)
    BY DEF LwmaDifficulty
  <1> HIDE DEF top
  <1>5. CASE Len(ts) < LwmaMinimum
    <2>1. LwmaDifficulty = 1
      BY <1>4, <1>5
    <2>2. 1 <= 20 * top
      BY <1>3
    <2> QED
      BY <2>1, <2>2 DEF top
  <1>6. CASE ~(Len(ts) < LwmaMinimum)
    <2> HIDE DEF L, W
    <2> DEFINE m == Larger(1, L - W + 1)
    <2>1. /\ Len(ts) = Smaller(L, W) /\ ts \in Seq(Int) /\ Len(ts) \in Nat
      BY <1>1, <1>2, LastOfIs DEF L
    <2>2. /\ cs \in Seq(Int) /\ Len(cs) = Smaller(L, W)
          /\ \A i \in 1 .. Smaller(L, W) : cs[i] = cumulative[m + i - 1]
      <3>1. m = Larger(1, Len(cumulative) - W + 1) /\ Smaller(L, W) = Smaller(Len(cumulative), W)
        BY <1>1
      <3> HIDE DEF m
      <3>2. /\ cs \in Seq(Int) /\ Len(cs) = Smaller(Len(cumulative), W)
            /\ \A i \in 1 .. Smaller(Len(cumulative), W) :
                   cs[i] = cumulative[Larger(1, Len(cumulative) - W + 1) + i - 1]
        BY <1>1, <1>2, LastOfIs
      <3> QED
        BY <3>1, <3>2
    <2>3. m \in Nat /\ m >= 1 /\ m + Smaller(L, W) - 1 <= L
      BY <1>1, <1>2 DEF Larger, Smaller
    <2> HIDE DEF ts, cs, m
    <2>4. n \in Nat \ {0} /\ Smaller(L, W) = n + 1
      BY <1>2, <1>6, <2>1
    <2> HIDE DEF n
    <2>5. \A i \in 1 .. n + 1 : ts[i] \in Int /\ cs[i] \in Int
      BY <2>1, <2>2, <2>4
    <2>6. ASSUME NEW i \in 1 .. n PROVE cs[i + 1] - cs[i] \in Difficulties
      <3>1. i \in 1 .. n + 1 /\ i + 1 \in 1 .. n + 1
        BY <2>4
      <3>2. cs[i] = cumulative[m + i - 1] /\ cs[i + 1] = cumulative[m + (i + 1) - 1]
        BY <2>2, <2>4, <3>1
      <3>3. m + i - 1 \in 1 .. L - 1 /\ m + (i + 1) - 1 = (m + i - 1) + 1
        BY <1>1, <2>3, <2>4
      <3>4. cumulative[(m + i - 1) + 1] - cumulative[m + i - 1] \in Difficulties
        BY <1>1, <3>3
      <3> QED
        BY <3>2, <3>3, <3>4
    <2>7. \A d \in Difficulties : d >= 8 /\ d <= top
      BY <1>3
    <2>8. /\ solved \in Int /\ 2 * solved <= 7 * Target * (n * (n + 1))
          /\ inverse \in Int /\ Multiple * n <= top * inverse /\ 8 * inverse <= Multiple * n
      BY <1>3, <2>4, <2>5, <2>6, <2>7, LwmaSums
    <2>9. k \in Nat /\ 2 * k = n * (n + 1)
      BY <2>4, HalfOfNeighbours
    <2> HIDE DEF k, solved, inverse
    <2> DEFINE p == Multiple * n
               q == Target * k
    <2>10. k >= 1
      <3>1. n * (n + 1) >= 1
        BY <2>4
      <3> QED
        BY <2>9, <3>1
    <2>11. p \in Nat \ {0} /\ q \in Nat \ {0}
      BY <1>2, <2>4, <2>9, <2>10
    <2>12. solved <= 7 * q
      <3>1. 7 * Target * (2 * k) = 14 * q
        BY <1>2, <2>9
      <3>2. 2 * solved <= 14 * q
        BY <2>8, <2>9, <3>1
      <3> HIDE DEF q
      <3> QED
        BY <2>8, <2>11, <3>2
    <2>13. n * 998 * Multiple * 20 = 19960 * p
      BY <1>2, <2>4
    <2>14. n * 998 * Multiple * Target * k = 998 * (p * q)
      <3>1. n * 998 * Multiple = 998 * p
        BY <1>2, <2>4
      <3>2. (998 * p) * Target * k = 998 * (p * q)
        <4> HIDE DEF p
        <4> QED
          BY <1>2, <2>9, <2>11
      <3> QED
        BY <3>1, <3>2
    <2>15. 1000 * inverse * solved = 1000 * (inverse * solved)
      BY <2>8
    <2> HIDE DEF p, q
    <2>16. p <= top * inverse /\ 8 * inverse <= p
      BY <2>8 DEF p
    <2>17. inverse \in Int /\ solved \in Int
      BY <2>8
    <2>18. BothDamped(p, inverse, top)
      BY <1>3, <2>11, <2>16, <2>17, DampedQuotients
    <2>19. CASE 20 * solved < q
      <3>1. LwmaDifficulty = (19960 * p) \div (1000 * inverse)
        BY <1>4, <1>6, <2>13, <2>19 DEF q
      <3>2. Damped(19960 * p, 1000 * inverse, 20 * top)
        BY <2>18 DEF BothDamped
      <3> QED
        BY <3>1, <3>2 DEF Damped, top
    <2>20. CASE ~(20 * solved < q)
      <3>1. LwmaDifficulty = (998 * (p * q)) \div (1000 * (inverse * solved))
        BY <1>4, <1>6, <2>14, <2>15, <2>20 DEF q
      <3>2. q <= 20 * solved /\ solved <= 7 * q
        BY <2>8, <2>11, <2>12, <2>20
      <3>3. SlowDamped(p, inverse, top, q, solved)
        BY <2>11, <2>17, <2>18, <3>2 DEF BothDamped
      <3>4. Damped(998 * (p * q), 1000 * (inverse * solved), 20 * top)
        BY <3>3 DEF SlowDamped
      <3> QED
        BY <3>1, <3>4 DEF Damped, top
    <2> QED
      BY <2>19, <2>20
  <1> QED
    BY <1>5, <1>6

-----------------------------------------------------------------------------
(***************************************************************************)
(* The rules of the chain: weights, rewards and transactions                *)
(***************************************************************************)
\* The fork of a height is a number.
LEMMA ForkIsNat ==
    ASSUME RulesAssumption, NEW height \in Nat
    PROVE  ForkAt(height) \in Nat
  <1> DEFINE S == {v \in DOMAIN ForkHeights : height >= ForkHeights[v]}
             T == {1} \union S
  <1>1. ForkHeights \in Seq(Nat)
    BY DEF RulesAssumption
  <1>2. Len(ForkHeights) \in Nat /\ DOMAIN ForkHeights = 1 .. Len(ForkHeights)
    BY <1>1
  <1>3. IsFiniteSet(1 .. Len(ForkHeights))
    <2>1. 1 \in Int /\ Len(ForkHeights) \in Int
      BY <1>2
    <2> QED
      BY <2>1, FS_Interval
  <1>4. S \in SUBSET (1 .. Len(ForkHeights))
    BY <1>2
  <1>5. IsFiniteSet(S) /\ S \subseteq Nat
    <2> HIDE DEF S
    <2>1. IsFiniteSet(S)
      BY <1>3, <1>4, FS_Subset
    <2>2. S \subseteq Nat
      BY <1>2, <1>4
    <2> QED
      BY <2>1, <2>2
  <1>6. IsFiniteSet(T)
    <2>1. T = S \union {1}
      OBVIOUS
    <2> HIDE DEF S, T
    <2> QED
      BY <1>5, <2>1, FS_AddElement
  <1>7. T \subseteq Nat /\ T \subseteq Int /\ T # {}
    BY <1>5
  <1>8. Max(T) \in T
    <2> HIDE DEF T
    <2> QED
      BY <1>6, <1>7, MaxIs
  <1>9. ForkAt(height) = Max(T)
    BY DEF ForkAt
  <1> QED
    BY <1>7, <1>8, <1>9

\* The effective median is at least the least zone of the fork.
LEMMA EffectiveMedianIs ==
    ASSUME RulesAssumption, NEW long \in Seq(Nat), NEW short \in Seq(Nat), NEW fork \in Nat
    PROVE  /\ EffectiveMedian(long, short, fork) \in Nat \ {0}
           /\ MinBlockWeight(fork) \in Nat \ {0}
           /\ MinBlockWeight(fork) <= EffectiveMedian(long, short, fork)
  <1> DEFINE l == LongTermMedian(long)
             a == MedianOf(LastOf(short, ShortWindow))
             m == Smaller(Larger(l, a), Surge * l)
  <1>1. /\ ZoneV1 \in Nat \ {0} /\ ZoneV5 \in Nat \ {0} /\ Surge \in Nat \ {0}
        /\ LongWindow \in Nat \ {0} /\ ShortWindow \in Nat \ {0}
    BY DEF RulesAssumption
  <1>2. MinBlockWeight(fork) \in Nat \ {0}
    BY <1>1 DEF MinBlockWeight
  <1>3. MedianOf(LastOf(long, LongWindow)) \in Nat
    BY <1>1, LastOfIs, MedianIsNat
  <1>4. l \in Nat
    BY <1>1, <1>3 DEF LongTermMedian, Larger
  <1>5. a \in Nat
    BY <1>1, LastOfIs, MedianIsNat
  <1> HIDE DEF l, a
  <1>6. Surge * l \in Nat
    BY <1>1, <1>4
  <1>7. m \in Nat
    BY <1>4, <1>5, <1>6 DEF Smaller, Larger
  <1>8. EffectiveMedian(long, short, fork) = Larger(m, MinBlockWeight(fork))
    BY DEF EffectiveMedian, l, a
  <1> HIDE DEF m
  <1>9. /\ Larger(m, MinBlockWeight(fork)) \in Nat \ {0}
        /\ MinBlockWeight(fork) <= Larger(m, MinBlockWeight(fork))
    BY <1>2, <1>7 DEF Larger
  <1> QED
    BY <1>2, <1>8, <1>9

\* The reward before any penalty.
LEMMA BaseRewardIsNat ==
    ASSUME RulesAssumption, NEW c \in Nat
    PROVE  BaseReward(c) \in Nat
  <1> DEFINE e == 2 ^ Shift
  <1>1. e \in Nat \ {0} /\ Supply \in Int /\ MinSubsidy \in Nat
    BY DEF RulesAssumption
  <1> HIDE DEF e
  <1>2. (Supply - c) \div e \in Int
    BY <1>1
  <1>3. Larger((Supply - c) \div e, MinSubsidy) \in Nat
    BY <1>1, <1>2 DEF Larger
  <1> QED
    BY <1>3 DEF BaseReward, e

\* A penalty leaves between nothing and everything.
LEMMA PenaltyIsPart ==
    ASSUME NEW b \in Nat, NEW m \in Nat \ {0}, NEW w \in Nat, m < w, w <= 2 * m
    PROVE  ((b * ((2 * m - w) * w)) \div m) \div m \in 0 .. b
  <1> DEFINE v == (2 * m - w) * w
             x == (b * v) \div m
  <1>1. v \in Int /\ 0 <= v
    BY SMT
  <1>2. v <= m * m
    <2> DEFINE r == w - m
    <2>1. r \in Int /\ w = m + r /\ 2 * m - w = m - r
      OBVIOUS
    <2>2. v = (m - r) * (m + r)
      BY <2>1
    <2> HIDE DEF r, v
    <2>3. (m - r) * (m + r) = m * m - r * r /\ r * r >= 0 /\ m * m \in Int /\ r * r \in Int
      BY <2>1
    <2> QED
      BY <2>2, <2>3
  <1> HIDE DEF v
  <1>3. b * v \in Int /\ 0 <= b * v /\ b * m \in Int /\ 0 <= b * m
    BY <1>1
  <1>4. b * v <= m * (b * m)
    <2>1. b * v <= b * (m * m)
      BY <1>1, <1>2
    <2>2. b * (m * m) = m * (b * m)
      OBVIOUS
    <2> QED
      BY <2>1, <2>2
  <1>5. m * 0 <= b * v
    BY <1>3
  <1>6. 0 <= x /\ x <= b * m /\ x \in Int
    <2> DEFINE y == b * v
               z == b * m
    <2>1. y \in Int /\ z \in Int /\ m * 0 <= y /\ y <= m * z
      BY <1>3, <1>4, <1>5
    <2> HIDE DEF y, z
    <2>2. 0 <= y \div m /\ y \div m <= z /\ y \div m \in Int
      BY <2>1, QuotientAtLeast, QuotientAtMost, QuotientIs
    <2> QED
      BY <2>2 DEF y, z
  <1> HIDE DEF x
  <1>7. m * 0 <= x /\ x <= m * b
    BY <1>6
  <1>8. 0 <= x \div m /\ x \div m <= b /\ x \div m \in Int
    BY <1>6, <1>7, QuotientAtLeast, QuotientAtMost, QuotientIs
  <1> QED
    BY <1>8 DEF x, v

\* The limit of the chain is what the reward is paid up to.
LEMMA LimitIsWhatIsPaid ==
    ASSUME RulesAssumption, RulesKept
    PROVE  LimitIsPaid
  <1> DEFINE fork == ForkAt(ChainHeight)
             m == EffectiveMedian(longTerm, weights, fork)
  <1>1. ChainHeight \in Nat
    BY DEF RulesKept, Windows, ChainHeight
  <1>2. fork \in Nat
    BY <1>1, ForkIsNat
  <1>3. longTerm \in Seq(Nat) /\ weights \in Seq(Nat) /\ BlockWeights \subseteq Nat
    <2>1. longTerm \in Seq(Nat) /\ weights \in Seq(BlockWeights)
      BY DEF RulesKept, Windows
    <2>2. BlockWeights \subseteq Nat
      BY DEF RulesAssumption
    <2>3. weights \in Seq(Nat)
      <3>1. Len(weights) \in Nat /\ weights \in [1 .. Len(weights) -> BlockWeights]
        BY <2>1
      <3>2. weights \in [1 .. Len(weights) -> Nat]
        BY <2>2, <3>1
      <3> QED
        BY <3>1, <3>2
    <2> QED
      BY <2>1, <2>2, <2>3
  <1>4. /\ m \in Nat \ {0} /\ MinBlockWeight(fork) \in Nat \ {0} /\ MinBlockWeight(fork) <= m
    BY <1>2, <1>3, EffectiveMedianIs
  <1>5. BlockLimit(fork) = 2 * m
    BY DEF BlockLimit
  <1> HIDE DEF m, fork
  <1>6. Larger(m, MinBlockWeight(fork)) = m
    BY <1>4 DEF Larger
  <1>7. ASSUME NEW w \in BlockWeights, NEW c \in Emissions \ {0}
        PROVE  LET r == BlockReward(m, w, c, fork)
               IN  /\ r.success <=> ValidateBlockWeight(w, m, fork)
                   /\ r.success <=> w <= BlockLimit(fork)
                   /\ r.reward \in 0 .. BaseReward(c)
    <2> DEFINE r == BlockReward(m, w, c, fork)
               b == BaseReward(c)
    <2>1. w \in Nat /\ c \in Nat /\ c # 0
      BY <1>3 DEF RulesAssumption
    <2>2. b \in Nat
      BY <2>1, BaseRewardIsNat
    <2>3. ValidateBlockWeight(w, m, fork) <=> w <= 2 * m
      BY <1>6 DEF ValidateBlockWeight
    <2>4. r = IF w <= m THEN [success |-> TRUE, reward |-> b]
              ELSE IF w > 2 * m THEN [success |-> FALSE, reward |-> 0]
              ELSE [success |-> TRUE, reward |-> ((b * ((2 * m - w) * w)) \div m) \div m]
      BY <1>6, <2>1 DEF BlockReward
    <2> HIDE DEF r, b
    <2>5. CASE w <= m
      <3>1. r.success = TRUE /\ r.reward = b
        BY <2>4, <2>5
      <3>2. w <= 2 * m
        BY <1>4, <2>1, <2>5
      <3> QED
        BY <1>5, <2>2, <2>3, <3>1, <3>2 DEF r, b
    <2>6. CASE ~(w <= m) /\ w > 2 * m
      <3>1. r.success = FALSE /\ r.reward = 0
        BY <2>4, <2>6
      <3>2. ~(w <= 2 * m)
        BY <1>4, <2>1, <2>6
      <3> QED
        BY <1>5, <2>2, <2>3, <3>1, <3>2 DEF r, b
    <2>7. CASE ~(w <= m) /\ ~(w > 2 * m)
      <3>1. r.success = TRUE /\ r.reward = ((b * ((2 * m - w) * w)) \div m) \div m
        BY <2>4, <2>7
      <3>2. w <= 2 * m /\ m < w
        BY <1>4, <2>1, <2>7
      <3>3. r.reward \in 0 .. b
        BY <1>4, <2>1, <2>2, <3>1, <3>2, PenaltyIsPart
      <3> QED
        BY <1>5, <2>3, <3>1, <3>2, <3>3 DEF r, b
    <2> QED
      BY <2>5, <2>6, <2>7
  <1> QED
    BY <1>7 DEF LimitIsPaid, m, fork

\* Two stakers are paid no more than the slippage of a block.
LEMMA YieldIsWithinSlippage == RulesAssumption => YieldIsCovered
  <1> SUFFICES ASSUME RulesAssumption, NEW a \in Stakes, NEW b \in Stakes, NEW s \in Slippages
               PROVE  YieldPayout(a, s, a + b) + YieldPayout(b, s, a + b) <= s
    BY DEF YieldIsCovered
  <1> DEFINE t == a + b
             p == (s * a) \div t
             q == (s * b) \div t
  <1>1. a \in Nat \ {0} /\ b \in Nat \ {0} /\ s \in Nat
    BY DEF RulesAssumption
  <1>2. t \in Nat \ {0} /\ s * a \in Int /\ s * b \in Int
    BY <1>1
  <1>3. s * t = s * a + s * b
    BY <1>1
  <1> HIDE DEF t
  <1>4. p \in Int /\ t * p <= s * a
    BY <1>2, QuotientIs
  <1>5. q \in Int /\ t * q <= s * b
    BY <1>2, QuotientIs
  <1> HIDE DEF p, q
  <1>6. t * (p + q) = t * p + t * q /\ t * p \in Int /\ t * q \in Int
    BY <1>2, <1>4, <1>5
  <1>7. t * (p + q) <= s * t
    BY <1>2, <1>3, <1>4, <1>5, <1>6
  <1>8. p + q <= s
    <2> DEFINE x == p + q
    <2>1. x \in Int /\ t * x <= s * t
      BY <1>4, <1>5, <1>7
    <2> HIDE DEF x
    <2>2. SUFFICES ASSUME s + 1 <= x PROVE FALSE
      BY <1>1, <2>1 DEF x
    <2>3. t * (s + 1) <= t * x
      BY <1>1, <1>2, <2>1, <2>2
    <2>4. t * (s + 1) = s * t + t /\ s * t \in Int /\ t * x \in Int
      BY <1>1, <1>2, <2>1
    <2> QED
      BY <1>2, <2>1, <2>3, <2>4
  <1> QED
    BY <1>8 DEF YieldPayout, p, q, t

\* What the builder makes for a height is accepted at that height.
LEMMA WhatIsBuiltIsValid ==
    ASSUME RulesAssumption, RulesKept
    PROVE  BuiltIsValid
  <1> DEFINE fork == ForkAt(ChainHeight)
  <1>1. ChainHeight \in Nat
    BY DEF RulesKept, Windows, ChainHeight
  <1>2. fork \in Nat
    BY <1>1, ForkIsNat
  <1> HIDE DEF fork
  <1>3. ASSUME NEW type \in {Transfer, Stake, Burn}
        PROVE  LET t == [type |-> type, version |-> TxVersion(type, fork),
                         source |-> ActiveAsset(fork), rct |-> RctTypeAt(fork),
                         dest |-> IF type = Burn THEN "BURN" ELSE ActiveAsset(fork)]
               IN  /\ ValidTypeAndVersion(t, fork) /\ ValidAssets(t, fork)
                   /\ fork < 3 => ValidRct(t, fork)
    <2> DEFINE t == [type |-> type, version |-> TxVersion(type, fork),
                     source |-> ActiveAsset(fork), rct |-> RctTypeAt(fork),
                     dest |-> IF type = Burn THEN "BURN" ELSE ActiveAsset(fork)]
    <2> USE DEF Transfer, Stake, Burn, Miner, Protocol, Convert, Audit
    <2>1. /\ t.type = type /\ t.version = TxVersion(type, fork) /\ t.source = ActiveAsset(fork)
          /\ t.rct = RctTypeAt(fork) /\ t.dest = IF type = 5 THEN "BURN" ELSE ActiveAsset(fork)
      OBVIOUS
    <2>2. type \in {3, 5, 6}
      OBVIOUS
    <2> HIDE DEF t
    <2>3. ValidTypeAndVersion(t, fork)
      <3>1. fork < 2 => TxVersion(type, fork) = 2
        BY <1>2 DEF TxVersion
      <3>2. fork >= 10 => TxVersion(type, fork) = 4
        BY DEF TxVersion
      <3> QED
        BY <2>1, <2>2, <3>1, <3>2 DEF ValidTypeAndVersion
    <2>4. ValidAssets(t, fork)
      <3>1. ActiveAsset(fork) \in {"SAL", "SAL1"}
        BY DEF ActiveAsset
      <3> QED
        BY <2>1, <2>2, <3>1 DEF ValidAssets, Assets
    <2>5. fork < 3 => ValidRct(t, fork)
      <3>1. fork < 3 => RctTypeAt(fork) = 6
        BY <1>2 DEF RctTypeAt
      <3> QED
        BY <1>2, <2>1, <2>2, <3>1 DEF ValidRct
    <2> QED
      BY <2>3, <2>4, <2>5 DEF t
  <1> QED
    BY <1>3 DEF BuiltIsValid, fork

\* What the rules for transactions keep apart.
LEMMA AssetsStayApart == AssetsAreKept
  <1> SUFFICES ASSUME NEW t \in TxShapes, NEW fork \in 1 .. 10, ValidTransaction(t, fork)
               PROVE  /\ t.source # "BURN"
                      /\ t.source # t.dest =>
                             \/ t.type = Burn /\ t.dest = "BURN"
                             \/ t.type = Audit /\ fork \in AuditForks /\ t.targets = <<>>
    BY DEF AssetsAreKept
  <1>1. ValidTypeAndVersion(t, fork) /\ ValidAssets(t, fork) /\ ValidOutputs(t, fork)
    BY DEF ValidTransaction
  <1>2. t.type # Convert
    BY <1>1 DEF ValidTypeAndVersion
  <1>3. CASE t.type = Burn
    BY <1>1, <1>3 DEF ValidAssets
  <1>4. CASE t.type # Burn
    <2>1. t.source # "BURN" /\ (t.type # Audit => t.source = t.dest)
      BY <1>1, <1>2, <1>4 DEF ValidAssets
    <2>2. t.type = Audit => fork \in AuditForks /\ t.targets = <<>>
      BY <1>1 DEF ValidTypeAndVersion, ValidOutputs
    <2> QED
      BY <2>1, <2>2
  <1> QED
    BY <1>3, <1>4

\* The windows are kept.
LEMMA RulesStep ==
    ASSUME RulesAssumption, RulesKept, [RulesNext]_rulesVars
    PROVE  RulesKept'
  <1>1. CASE UNCHANGED rulesVars
    BY <1>1 DEF rulesVars, RulesKept
  <1>2. ASSUME NEW gap \in SolveTimes, NEW d \in Difficulties, NEW w \in BlockWeights,
               AddBlock(gap, d, w)
        PROVE  RulesKept'
    BY <1>2, AddBlockKeeps
  <1>3. ASSUME NEW h \in 0 .. MaxHeight - 1, RollbackToHeight(h)
        PROVE  RulesKept'
    <2>1. h \in Nat
      BY DEF RulesAssumption
    <2> QED
      BY <1>3, <2>1, RollbackKeeps
  <1> QED
    BY <1>1, <1>2, <1>3 DEF RulesNext

\* The windows follow the blocks, and what reads them holds.
LEMMA RulesKeptHolds ==
    ASSUME RulesAssumption, RulesKept
    PROVE  RulesHold
  <1>1. WindowsFollowBlocks
    BY DEF RulesKept, Windows, WindowsFollowBlocks
  <1>2. DifficultyStaysPositive
    BY LegacyIsPositive, LwmaIsBounded DEF DifficultyStaysPositive
  <1> QED
    BY <1>1, <1>2, LimitIsWhatIsPaid, YieldIsWithinSlippage, WhatIsBuiltIsValid, AssetsStayApart
    DEF RulesHold

\* The rules of the chain hold of every chain, for any windows, zones, forks and
\* amounts: after any blocks and rollbacks the windows are those of the blocks that are
\* left; the difficulty stays positive and bounded; the limit, the check and the reward
\* agree; yield is covered; what is built is accepted; and assets stay apart
\* (src/consensus.js, src/validation.js).
THEOREM RulesAreKept == RulesSpec => []RulesHold
  <1>1. RulesInit => RulesKept
    <2> SUFFICES ASSUME RulesInit PROVE RulesKept
      OBVIOUS
    <2>1. /\ times = <<>> /\ cumulative = <<>> /\ weights = <<>> /\ longTerm = <<>>
          /\ added = <<>>
      BY DEF RulesInit
    <2>2. Len(<<>>) = 0 /\ DOMAIN <<>> = {} /\ \A S : <<>> \in Seq(S)
      OBVIOUS
    <2> QED
      BY <2>1 DEF RulesKept, Windows
  <1>2. RulesKept /\ [RulesNext]_rulesVars => RulesKept'
    BY RulesAssumption, RulesStep
  <1>3. RulesKept => RulesHold
    BY RulesAssumption, RulesKeptHolds
  <1> QED
    BY <1>1, <1>2, <1>3, PTL DEF RulesSpec

-----------------------------------------------------------------------------
(***************************************************************************)
(* Prices: the text of a number                                              *)
(***************************************************************************)
\* All but the last digit, and the last one.
LEMMA LastDigit ==
    ASSUME NEW n \in Nat
    PROVE  /\ n \div 10 \in Nat /\ n % 10 \in Nat /\ n = 10 * (n \div 10) + (n % 10)
           /\ n >= 10 => n \div 10 < n
  <1>1. n \div 10 \in Nat /\ 10 * (n \div 10) <= n /\ n < 10 * (n \div 10) + 10
    BY QuotientIs, QuotientAtLeast
  <1>2. n % 10 = n - 10 * (n \div 10)
    OBVIOUS
  <1> DEFINE h == n \div 10
             r == n % 10
  <1>3. h \in Nat /\ 10 * h <= n /\ n < 10 * h + 10 /\ r = n - 10 * h
    BY <1>1, <1>2
  <1> HIDE DEF h, r
  <1>4. h \in Nat /\ r \in Nat /\ n = 10 * h + r /\ (n >= 10 => h < n)
    BY <1>3
  <1> QED
    BY <1>4 DEF h, r

\* The digits are found from those of smaller numbers.
LEMMA DigitsExist ==
    ASSUME NEW n \in Nat
    PROVE  \E d : d = [m \in 0 .. n |-> IF m < 10 THEN <<m>> ELSE Append(d[m \div 10], m % 10)]
  <1> DEFINE By(d, m) == IF m < 10 THEN <<m>> ELSE Append(d[m \div 10], m % 10)
             Flat(d, k) == d = [m \in 0 .. k |-> By(d, m)]
             T == {k \in Nat : \E d : Flat(d, k)}
  <1>1. 0 \in T
    <2> DEFINE d == [m \in 0 .. 0 |-> <<m>>]
    <2>1. \A m \in 0 .. 0 : By(d, m) = <<m>>
      OBVIOUS
    <2>2. Flat(d, 0)
      BY <2>1
    <2> QED
      BY <2>2
  <1>2. ASSUME NEW k \in Nat, k \in T PROVE k + 1 \in T
    <2>1. PICK d : Flat(d, k)
      BY <1>2
    <2> DEFINE t == [m \in 0 .. k + 1 |-> By(d, m)]
    <2>2. ASSUME NEW m \in 0 .. k PROVE t[m] = d[m]
      <3>1. d[m] = By(d, m)
        BY <2>1
      <3>2. m \in 0 .. k + 1
        OBVIOUS
      <3> HIDE DEF By
      <3> QED
        BY <3>1, <3>2
    <2>3. ASSUME NEW m \in 0 .. k + 1 PROVE By(t, m) = By(d, m)
      <3>1. CASE m < 10
        BY <3>1
      <3>2. CASE m >= 10
        <4>1. m \div 10 \in 0 .. k
          BY <3>2, LastDigit
        <4>2. t[m \div 10] = d[m \div 10]
          BY <2>2, <4>1
        <4> HIDE DEF t
        <4> QED
          BY <4>2
      <3> QED
        BY <3>1, <3>2
    <2>4. t = [m \in 0 .. k + 1 |-> By(t, m)]
      <3>1. \A m \in 0 .. k + 1 : By(t, m) = By(d, m)
        BY <2>3
      <3> HIDE DEF By
      <3> QED
        BY <3>1
    <2>5. Flat(t, k + 1)
      BY <2>4
    <2> HIDE DEF Flat
    <2> QED
      BY <2>5
  <1>3. Nat \subseteq T
    <2> HIDE DEF T
    <2> QED
      BY <1>1, <1>2, InductiveSet
  <1> QED
    BY <1>3

\* v[i] is the number that the first i digits of a text spell.
Spells(v, text) ==
    /\ v \in [0 .. Len(text) -> Nat]
    /\ v[0] = 0
    /\ \A i \in 1 .. Len(text) : v[i] = 10 * v[i - 1] + text[i]

\* A text of digits spells a number.
LEMMA SpellsExist ==
    ASSUME NEW text \in Seq(Nat)
    PROVE  \E v : Spells(v, text)
  <1> DEFINE n == Len(text)
             Runs(v, m) == v[0] = 0 /\ \A i \in 1 .. m : v[i] = 10 * v[i - 1] + text[i]
             T == {m \in Nat : m <= n => \E v \in [0 .. m -> Nat] : Runs(v, m)}
  <1>1. n \in Nat /\ \A i \in 1 .. n : text[i] \in Nat
    OBVIOUS
  <1> HIDE DEF n
  <1>2. 0 \in T
    <2> DEFINE v == [i \in 0 .. 0 |-> 0]
    <2>1. v \in [0 .. 0 -> Nat] /\ Runs(v, 0)
      OBVIOUS
    <2> QED
      BY <2>1
  <1>3. ASSUME NEW m \in Nat, m \in T PROVE m + 1 \in T
    <2> HIDE DEF Runs
    <2>1. SUFFICES ASSUME m + 1 <= n PROVE \E v \in [0 .. m + 1 -> Nat] : Runs(v, m + 1)
      OBVIOUS
    <2>2. PICK v \in [0 .. m -> Nat] : Runs(v, m)
      BY <1>1, <1>3, <2>1
    <2> USE DEF Runs
    <2> DEFINE last == 10 * v[m] + text[m + 1]
               t == [i \in 0 .. m + 1 |-> IF i = m + 1 THEN last ELSE v[i]]
    <2>3. v[m] \in Nat /\ text[m + 1] \in Nat
      BY <1>1, <2>1, <2>2
    <2>4. last \in Nat
      BY <2>3
    <2> HIDE DEF last
    <2>5. t \in [0 .. m + 1 -> Nat]
      BY <2>2, <2>4
    <2>6. t[0] = 0 /\ t[m + 1] = last /\ \A i \in 0 .. m : t[i] = v[i]
      BY <2>2
    <2> HIDE DEF t
    <2>7. ASSUME NEW i \in 1 .. m + 1 PROVE t[i] = 10 * t[i - 1] + text[i]
      <3>1. CASE i = m + 1
        <4>1. i - 1 = m /\ m \in 0 .. m
          BY <3>1
        <4> QED
          BY <2>6, <3>1, <4>1 DEF last
      <3>2. CASE i # m + 1
        <4>1. i \in 1 .. m /\ i - 1 \in 0 .. m /\ i \in 0 .. m
          BY <3>2
        <4> QED
          BY <2>2, <2>6, <4>1
      <3> QED
        BY <3>1, <3>2
    <2> QED
      BY <2>5, <2>6, <2>7
  <1>4. Nat \subseteq T
    <2> HIDE DEF T
    <2> QED
      BY <1>2, <1>3, InductiveSet
  <1> HIDE DEF Runs
  <1>5. PICK v \in [0 .. n -> Nat] : Runs(v, n)
    <2>1. n \in T
      BY <1>1, <1>4
    <2> QED
      BY <1>1, <2>1
  <1> USE DEF Runs
  <1>6. Spells(v, text)
    BY <1>5 DEF Spells, n
  <1> QED
    BY <1>6

\* What a text spells is what FromText reads.
LEMMA FromTextIs ==
    ASSUME NEW text \in Seq(Nat), NEW v, Spells(v, text)
    PROVE  FromText(text) = v[Len(text)]
  <1> DEFINE n == Len(text)
             Flat(g) == g = [i \in 0 .. n |-> IF i = 0 THEN 0 ELSE (10 * g[i - 1]) + text[i]]
             c == CHOOSE g : Flat(g)
  <1>1. n \in Nat
    OBVIOUS
  <1>2. v \in [0 .. n -> Nat] /\ v[0] = 0 /\ \A i \in 1 .. n : v[i] = 10 * v[i - 1] + text[i]
    BY DEF Spells
  <1>3. Flat(c)
    <2>1. \A i \in 0 .. n : v[i] = IF i = 0 THEN 0 ELSE (10 * v[i - 1]) + text[i]
      <3>1. \A i \in 0 .. n : i # 0 => i \in 1 .. n
        BY <1>1
      <3> QED
        BY <1>2, <3>1
    <2>2. v = [i \in 0 .. n |-> v[i]]
      BY <1>2
    <2>3. Flat(v)
      BY <2>1, <2>2
    <2> QED
      BY <2>3
  <1>4. FromText(text) = c[n]
    BY DEF FromText
  <1> HIDE DEF c, n
  <1>5. \A i \in 0 .. n : c[i] = v[i]
    <2> DEFINE T == {m \in Nat : m <= n => c[m] = v[m]}
    <2>1. 0 \in T
      BY <1>1, <1>2, <1>3
    <2>2. ASSUME NEW m \in Nat, m \in T PROVE m + 1 \in T
      <3> SUFFICES ASSUME m + 1 <= n PROVE c[m + 1] = v[m + 1]
        OBVIOUS
      <3> DEFINE p == m + 1
      <3>1. p \in 1 .. n /\ p \in 0 .. n /\ p # 0 /\ p - 1 = m /\ m <= n
        BY <1>1
      <3>2. c[m] = v[m]
        BY <2>2, <3>1
      <3> HIDE DEF p
      <3>3. c[p] = (10 * c[p - 1]) + text[p] /\ v[p] = 10 * v[p - 1] + text[p]
        BY <1>2, <1>3, <3>1
      <3>4. c[p] = v[p]
        BY <3>1, <3>2, <3>3
      <3> QED
        BY <3>4 DEF p
    <2> HIDE DEF T
    <2>3. Nat \subseteq T
      BY <2>1, <2>2, InductiveSet
    <2> QED
      BY <1>1, <2>3 DEF T
  <1>6. n \in 0 .. n
    BY <1>1
  <1> QED
    BY <1>4, <1>5, <1>6 DEF n

\* A digit alone, and a digit more.
LEMMA FromTextAppend ==
    ASSUME NEW d \in Nat
    PROVE  /\ FromText(<<d>>) = d
           /\ \A text \in Seq(Nat) : FromText(Append(text, d)) = 10 * FromText(text) + d
  <1>1. FromText(<<d>>) = d
    <2>1. <<d>> \in Seq(Nat) /\ Len(<<d>>) = 1 /\ <<d>>[1] = d
      OBVIOUS
    <2>2. PICK v : Spells(v, <<d>>)
      BY <2>1, SpellsExist
    <2>3. v[1] = 10 * v[1 - 1] + d /\ v[0] = 0
      BY <2>1, <2>2 DEF Spells
    <2> DEFINE text == <<d>>
    <2>4. FromText(text) = v[Len(text)]
      <3>1. text \in Seq(Nat) /\ Spells(v, text)
        BY <2>1, <2>2
      <3> HIDE DEF text
      <3> QED
        BY <3>1, FromTextIs
    <2>5. FromText(<<d>>) = v[1]
      BY <2>1, <2>4
    <2> QED
      BY <2>3, <2>5
  <1>2. ASSUME NEW text \in Seq(Nat) PROVE FromText(Append(text, d)) = 10 * FromText(text) + d
    <2> DEFINE more == Append(text, d)
               n == Len(text)
    <2>1. /\ more \in Seq(Nat) /\ n \in Nat /\ Len(more) = n + 1 /\ more[n + 1] = d
          /\ \A i \in 1 .. n : more[i] = text[i]
      OBVIOUS
    <2> HIDE DEF more
    <2>2. PICK v : Spells(v, more)
      BY <2>1, SpellsExist
    <2> DEFINE w == [i \in 0 .. n |-> v[i]]
    <2>3. Spells(w, text)
      <3>1. v \in [0 .. n + 1 -> Nat] /\ v[0] = 0 /\ \A i \in 1 .. n + 1 : v[i] = 10 * v[i - 1] + more[i]
        BY <2>1, <2>2 DEF Spells
      <3>2. w \in [0 .. n -> Nat] /\ w[0] = 0
        BY <2>1, <3>1
      <3>3. ASSUME NEW i \in 1 .. n PROVE w[i] = 10 * w[i - 1] + text[i]
        <4>1. i \in 1 .. n + 1 /\ i \in 0 .. n /\ i - 1 \in 0 .. n
          BY <2>1
        <4>2. v[i] = 10 * v[i - 1] + more[i]
          BY <3>1, <4>1
        <4>3. w[i] = v[i] /\ w[i - 1] = v[i - 1]
          BY <4>1
        <4> HIDE DEF w
        <4> QED
          BY <2>1, <4>2, <4>3
      <3> QED
        BY <3>2, <3>3 DEF Spells
    <2>4. w[n] = v[n]
      BY <2>1
    <2>5. FromText(text) = w[n] /\ FromText(more) = v[n + 1]
      BY <2>1, <2>2, <2>3, FromTextIs
    <2>6. v[n + 1] = 10 * v[n] + d
      <3>1. n + 1 \in 1 .. n + 1 /\ n + 1 - 1 = n
        BY <2>1
      <3> QED
        BY <2>1, <2>2, <3>1 DEF Spells
    <2> HIDE DEF w
    <2> QED
      BY <2>4, <2>5, <2>6 DEF more
  <1> QED
    BY <1>1, <1>2

\* A number that is written and read is the number: digits keep what a double cannot.
LEMMA DigitsSayNumber == ASSUME NEW n \in Nat PROVE FromText(DigitsOf(n)) = n
  <1> DEFINE Flat(d) == d = [m \in 0 .. n |-> IF m < 10 THEN <<m>> ELSE Append(d[m \div 10], m % 10)]
             c == CHOOSE d : Flat(d)
  <1>1. Flat(c)
    BY DigitsExist
  <1>2. DigitsOf(n) = c[n]
    BY DEF DigitsOf
  <1>3. ASSUME NEW m \in 0 .. n
        PROVE  /\ m < 10 => c[m] = <<m>>
               /\ ~(m < 10) => c[m] = Append(c[m \div 10], m % 10)
    <2> DEFINE By == IF m < 10 THEN <<m>> ELSE Append(c[m \div 10], m % 10)
    <2> HIDE DEF c
    <2>1. c[m] = By
      BY <1>1
    <2>2. (m < 10 => By = <<m>>) /\ (~(m < 10) => By = Append(c[m \div 10], m % 10))
      OBVIOUS
    <2> HIDE DEF By
    <2> QED
      BY <2>1, <2>2
  <1> HIDE DEF c
  <1> DEFINE Right(m) == c[m] \in Seq(Nat) /\ FromText(c[m]) = m
             T == {k \in Nat : k <= n => \A m \in 0 .. k : Right(m)}
  <1>4. ASSUME NEW m \in 0 .. n, \A k \in 0 .. n : k < m => Right(k) PROVE Right(m)
    <2>1. CASE m < 10
      <3>1. c[m] = <<m>> /\ m \in Nat
        <4>1. c[m] = <<m>>
          BY <1>3, <2>1, Zenon
        <4> QED
          BY <4>1
      <3>2. <<m>> \in Seq(Nat) /\ FromText(<<m>>) = m
        BY <3>1, FromTextAppend
      <3> QED
        BY <3>1, <3>2
    <2>2. CASE m >= 10
      <3> DEFINE h == m \div 10
                 d == m % 10
      <3>1. h \in 0 .. n /\ h < m /\ d \in Nat /\ m = 10 * h + d
        BY <2>2, LastDigit
      <3>2. c[m] = Append(c[h], d)
        <4>1. ~(m < 10)
          BY <2>2
        <4> QED
          BY <1>3, <4>1, Zenon
      <3> HIDE DEF h, d
      <3>3. c[h] \in Seq(Nat) /\ FromText(c[h]) = h
        BY <1>4, <3>1
      <3>4. Append(c[h], d) \in Seq(Nat)
        BY <3>1, <3>3
      <3>5. FromText(Append(c[h], d)) = 10 * h + d
        BY <3>1, <3>3, FromTextAppend
      <3> QED
        BY <3>1, <3>2, <3>4, <3>5
    <2> QED
      BY <2>1, <2>2
  <1> HIDE DEF Right
  <1>5. 0 \in T
    BY <1>4
  <1>6. ASSUME NEW k \in Nat, k \in T PROVE k + 1 \in T
    <2> SUFFICES ASSUME k + 1 <= n PROVE \A m \in 0 .. k + 1 : Right(m)
      OBVIOUS
    <2>1. \A m \in 0 .. k : Right(m)
      BY <1>6
    <2>2. Right(k + 1)
      BY <1>4, <2>1
    <2> QED
      BY <2>1, <2>2
  <1>7. n \in T
    <2> HIDE DEF T
    <2>1. Nat \subseteq T
      BY <1>5, <1>6, InductiveSet
    <2> QED
      BY <2>1
  <1>8. Right(n)
    BY <1>7
  <1> QED
    BY <1>2, <1>8 DEF Right

-----------------------------------------------------------------------------
(***************************************************************************)
(* Prices: rates and amounts                                                 *)
(***************************************************************************)
\* Both factors grow.
LEMMA FactorsGrow ==
    ASSUME NEW a \in Nat, NEW b \in Nat, NEW x \in Nat, NEW y \in Nat, a <= x, b <= y
    PROVE  a * b <= x * y
  <1>1. a * b <= x * b
    OBVIOUS
  <1>2. x * b <= x * y
    OBVIOUS
  <1>3. a * b \in Int /\ x * b \in Int /\ x * y \in Int
    OBVIOUS
  <1> DEFINE p == a * b
             q == x * b
             r == x * y
  <1> HIDE DEF p, q, r
  <1>4. p \in Int /\ q \in Int /\ r \in Int /\ p <= q /\ q <= r
    BY <1>1, <1>2, <1>3 DEF p, q, r
  <1>5. p <= r
    BY <1>4
  <1> QED
    BY <1>5 DEF p, r

\* A factor that is positive can be left out.
LEMMA FactorLeftOut ==
    ASSUME NEW a \in Int, NEW b \in Int, NEW k \in Nat \ {0}, k * a <= k * b
    PROVE  a <= b
  <1> SUFFICES ASSUME b + 1 <= a PROVE FALSE
    OBVIOUS
  <1>1. k * (b + 1) <= k * a
    OBVIOUS
  <1>2. k * (b + 1) = k * b + k
    OBVIOUS
  <1> QED
    BY <1>1, <1>2

\* What is left of x after one rounded rate and another one is no more than x, when
\* the rates multiply to no more than one.
LEMMA ThereAndBack ==
    ASSUME NEW x \in Nat, NEW r \in Nat, NEW q \in Nat, NEW c \in Nat \ {0}, r * q <= c * c
    PROVE  (((x * r) \div c) * q) \div c <= x
  <1> DEFINE y == (x * r) \div c
             z == (y * q) \div c
  <1>1. x * r \in Nat
    OBVIOUS
  <1>2. y \in Nat /\ c * y <= x * r
    <2> DEFINE p == x * r
    <2> HIDE DEF p
    <2>1. p \in Nat
      BY <1>1 DEF p
    <2>2. p \div c \in Nat /\ c * (p \div c) <= p
      BY <2>1, QuotientIs, QuotientAtLeast
    <2> QED
      BY <2>2 DEF p
  <1> HIDE DEF y
  <1>3. y * q \in Nat
    BY <1>2
  <1>4. z \in Int /\ c * z <= y * q
    <2> DEFINE p == y * q
    <2> HIDE DEF p
    <2>1. p \in Nat
      BY <1>3 DEF p
    <2>2. p \div c \in Int /\ c * (p \div c) <= p
      BY <2>1, QuotientIs
    <2> QED
      BY <2>2 DEF p
  <1> HIDE DEF z
  <1>5. c * (c * z) <= c * (y * q)
    BY <1>3, <1>4
  <1>6. c * (y * q) = (c * y) * q
    BY <1>2
  <1>7. (c * y) * q <= (x * r) * q
    <2>1. c * y \in Nat
      BY <1>2
    <2> QED
      BY <1>1, <1>2, <2>1, FactorsGrow
  <1>8. (x * r) * q = x * (r * q)
    OBVIOUS
  <1>9. x * (r * q) <= x * (c * c)
    <2>1. r * q \in Nat /\ c * c \in Nat
      OBVIOUS
    <2> QED
      BY <2>1, FactorsGrow
  <1>10. x * (c * c) = (c * c) * x /\ c * (c * z) = (c * c) * z
    BY <1>4
  <1>11. (c * c) * z <= (c * c) * x
    <2> DEFINE t1 == c * (c * z)
               t2 == c * (y * q)
               t3 == (x * r) * q
               t4 == x * (c * c)
    <2>1. t1 \in Int /\ t2 \in Int /\ t3 \in Int /\ t4 \in Int
      BY <1>2, <1>4
    <2>2. t1 <= t2 /\ t2 <= t3 /\ t3 <= t4
      BY <1>5, <1>6, <1>7, <1>8, <1>9
    <2> HIDE DEF t1, t2, t3, t4
    <2>3. t1 <= t4
      BY <2>1, <2>2
    <2> QED
      BY <1>10, <2>3 DEF t1, t4
  <1>12. c * c \in Nat \ {0}
    OBVIOUS
  <1>13. z <= x
    BY <1>4, <1>11, <1>12, FactorLeftOut
  <1> QED
    BY <1>13 DEF z, y

\* The rate of a quotient rounded to a multiple, against the price it comes from.
LEMMA RoundedRate ==
    ASSUME NEW p \in Nat, NEW q \in Nat \ {0}, NEW c \in Nat \ {0}, NEW k \in Nat \ {0}
    PROVE  LET rate == (p * c) \div q IN
           rate - (rate % k) \in Nat /\ (rate - (rate % k)) * q <= p * c
  <1> DEFINE rate == (p * c) \div q
             low == rate - (rate % k)
  <1>1. p * c \in Nat
    OBVIOUS
  <1>2. rate \in Nat /\ q * rate <= p * c
    <2> DEFINE m == p * c
    <2> HIDE DEF m
    <2>1. m \in Nat
      BY <1>1 DEF m
    <2>2. m \div q \in Nat /\ q * (m \div q) <= m
      BY <2>1, QuotientIs, QuotientAtLeast
    <2> QED
      BY <2>2 DEF m
  <1> HIDE DEF rate
  <1>3. low \in Nat /\ low <= rate
    <2>1. rate % k \in 0 .. (k - 1) /\ rate = k * (rate \div k) + (rate % k) /\ rate \div k \in Nat
      BY <1>2
    <2>2. k * (rate \div k) \in Nat
      BY <2>1
    <2> QED
      BY <1>2, <2>1, <2>2
  <1> HIDE DEF low
  <1>4. low * q <= rate * q /\ rate * q = q * rate
    BY <1>2, <1>3
  <1>5. low * q <= p * c
    <2>1. low * q \in Int /\ rate * q \in Int
      BY <1>2, <1>3
    <2> QED
      BY <1>1, <1>2, <1>4, <2>1
  <1> QED
    BY <1>3, <1>5 DEF low, rate

\* Rates there and back multiply to no more than one.
LEMMA RatesMultiply ==
    ASSUME NEW p \in Nat \ {0}, NEW q \in Nat \ {0}, NEW c \in Nat, NEW r \in Nat, NEW s \in Nat,
           r * q <= p * c, s * p <= q * c
    PROVE  r * s <= c * c
  <1>1. (r * q) * (s * p) <= (p * c) * (q * c)
    <2>1. r * q \in Nat /\ s * p \in Nat /\ p * c \in Nat /\ q * c \in Nat
      OBVIOUS
    <2> QED
      BY <2>1, FactorsGrow
  <1>2. (r * q) * (s * p) = (p * q) * (r * s)
    OBVIOUS
  <1>3. (p * c) * (q * c) = (p * q) * (c * c)
    OBVIOUS
  <1>4. p * q \in Nat \ {0} /\ r * s \in Int /\ c * c \in Int
    OBVIOUS
  <1>5. (p * q) * (r * s) <= (p * q) * (c * c)
    BY <1>1, <1>2, <1>3
  <1> QED
    BY <1>4, <1>5, FactorLeftOut

\* A quotient grows with its dividend, and two of them come to no more than the
\* quotient of the sum.
LEMMA QuotientsGrow ==
    ASSUME NEW x \in Nat, NEW y \in Nat, NEW z \in Nat, NEW c \in Nat \ {0}, x + y <= z
    PROVE  x \div c + y \div c <= z \div c
  <1> DEFINE a == x \div c
             b == y \div c
  <1>1. a \in Nat /\ b \in Nat /\ c * a <= x /\ c * b <= y
    BY QuotientIs, QuotientAtLeast
  <1> HIDE DEF a, b
  <1>2. c * (a + b) = c * a + c * b
    BY <1>1
  <1>3. c * (a + b) <= z
    <2>1. c * a \in Int /\ c * b \in Int
      BY <1>1
    <2> QED
      BY <1>1, <1>2, <2>1
  <1>4. a + b <= z \div c
    BY <1>1, <1>3, QuotientAtLeast
  <1> QED
    BY <1>4 DEF a, b

\* A sum in two parts saves one unit of the slippage at most.
LEMMA PartsSaveOne ==
    ASSUME NEW x \in Nat, NEW y \in Nat, NEW c \in Nat \ {0}
    PROVE  (x + y) \div c <= x \div c + y \div c + 1
  <1> DEFINE a == x \div c
             b == y \div c
             s == (x + y) \div c
  <1>1. a \in Int /\ b \in Int /\ x < c * a + c /\ y < c * b + c
    BY QuotientIs
  <1>2. s \in Int /\ c * s <= x + y
    BY QuotientIs
  <1> HIDE DEF a, b, s
  <1>3. c * (a + b + 2) = c * a + c * b + c + c
    BY <1>1
  <1>4. SUFFICES ASSUME a + b + 2 <= s PROVE FALSE
    BY <1>1, <1>2 DEF a, b, s
  <1>5. c * (a + b + 2) <= c * s
    BY <1>1, <1>2, <1>4
  <1>6. c * a \in Int /\ c * b \in Int /\ c * s \in Int
    BY <1>1, <1>2
  <1> QED
    BY <1>1, <1>2, <1>3, <1>5, <1>6

-----------------------------------------------------------------------------
(***************************************************************************)
(* Prices: records and conversions                                           *)
(***************************************************************************)
\* A record with a price of each asset.
IsRecord(pr) ==
    /\ pr = PricingRecord(pr.prices, pr.supply, pr.time, pr.signature)
    /\ pr.prices \in [PricedAssets -> Nat]
    /\ pr.supply \in Nat

\* What a record says as a message that is signed.
Says(pr) == <<pr.prices, pr.supply, pr.time>>

\* The price of an asset, 0 for one that has none.
LEMMA PriceIs ==
    ASSUME NEW pr, IsRecord(pr), NEW a \in AllAssets
    PROVE  AssetPrice(pr, a) \in Nat /\ (a = "BURN" => AssetPrice(pr, a) = 0)
  <1>1. CASE a \in PricedAssets
    <2>1. AssetPrice(pr, a) = pr.prices[a] /\ pr.prices[a] \in Nat
      BY <1>1 DEF AssetPrice, IsRecord
    <2>2. a # "BURN"
      BY <1>1 DEF PricedAssets
    <2> QED
      BY <2>1, <2>2
  <1>2. CASE a \notin PricedAssets
    BY <1>2 DEF AssetPrice
  <1> QED
    BY <1>1, <1>2

\* A rate is no more than the quotient of the prices.
LEMMA RateIs ==
    ASSUME OracleAssumption, NEW pr, IsRecord(pr), NEW from \in AllAssets, NEW to \in AllAssets,
           from # to
    PROVE  /\ ConversionRate(pr, from, to) \in Nat
           /\ ConversionRate(pr, from, to) # 0 =>
                 /\ {AssetPrice(pr, from), AssetPrice(pr, to)} \subseteq Nat \ {0}
                 /\ ConversionRate(pr, from, to) * AssetPrice(pr, to)
                       <= AssetPrice(pr, from) * OracleCoin
  <1> DEFINE p == AssetPrice(pr, from)
             q == AssetPrice(pr, to)
             rate == (p * OracleCoin) \div q
             low == rate - (rate % RateRounding)
             r == ConversionRate(pr, from, to)
  <1>1. p \in Nat /\ q \in Nat
    BY PriceIs
  <1>2. r = IF to # "BURN" /\ Pair(from, to) /\ p # 0 /\ q # 0 THEN low ELSE 0
    BY DEF ConversionRate, HasRate
  <1>3. OracleCoin \in Nat \ {0} /\ RateRounding \in Nat \ {0}
    BY DEF OracleAssumption
  <1> HIDE DEF p, q, r
  <1>4. CASE p # 0 /\ q # 0
    <2>1. low \in Nat /\ low * q <= p * OracleCoin
      BY <1>1, <1>3, <1>4, RoundedRate
    <2>2. r = 0 \/ r = low
      BY <1>2
    <2> HIDE DEF low
    <2>3. r \in Nat /\ (r # 0 => r * q <= p * OracleCoin)
      BY <2>1, <2>2
    <2> QED
      BY <1>1, <1>4, <2>3 DEF p, q, r
  <1>5. CASE p = 0 \/ q = 0
    <2>1. r = 0
      BY <1>2, <1>5
    <2> QED
      BY <2>1 DEF r
  <1> QED
    BY <1>4, <1>5

\* A part of each amount is its slippage.
LEMMA SlippageIs ==
    ASSUME OracleAssumption, NEW amount \in Nat
    PROVE  Slippage(amount) \in 0 .. amount
  <1> DEFINE k == 2 ^ SlippageShift
             s == amount \div k
  <1>1. k \in Nat \ {0}
    BY DEF OracleAssumption
  <1> HIDE DEF k
  <1>2. s \in Nat /\ k * s <= amount
    BY <1>1, QuotientIs, QuotientAtLeast
  <1> HIDE DEF s
  <1>3. 1 * s <= k * s
    BY <1>1, <1>2, FactorsGrow
  <1>4. s <= amount
    <2>1. k * s \in Int
      BY <1>1, <1>2
    <2> QED
      BY <1>2, <1>3, <2>1
  <1> QED
    BY <1>2, <1>4 DEF Slippage, s, k

\* A conversion that is not given back.
Converts(pr, from, to, amount, result) ==
    /\ from # to
    /\ ConversionRate(pr, from, to) # 0
    /\ result.slippage = Slippage(amount)
    /\ result.minted = ConvertedAmount(ConversionRate(pr, from, to), amount - Slippage(amount))

\* What calculateConversion answers.
LEMMA ConversionIs ==
    ASSUME NEW pr, NEW from, NEW to, NEW amount, NEW limit,
           CalculateConversion(pr, from, to, amount, limit).success,
           ~CalculateConversion(pr, from, to, amount, limit).refund
    PROVE  Converts(pr, from, to, amount, CalculateConversion(pr, from, to, amount, limit))
  <1> DEFINE rate == ConversionRate(pr, from, to)
             none == ~HasRate(pr, from, to)
             s == Slippage(amount)
             result == CalculateConversion(pr, from, to, amount, limit)
             back == [success |-> TRUE, minted |-> 0, slippage |-> s, refund |-> TRUE]
             done == [success |-> TRUE, minted |-> ConvertedAmount(rate, amount - s),
                      slippage |-> s, refund |-> FALSE]
  <1>1. result = IF from = to \/ none THEN Failed
                 ELSE IF s > limit THEN back
                 ELSE IF rate = 0 \/ amount = s THEN Failed ELSE done
    BY DEF CalculateConversion
  <1>2. Failed.success = FALSE /\ back.refund = TRUE
    BY DEF Failed
  <1>3. result.success /\ ~result.refund
    OBVIOUS
  <1> HIDE DEF result, rate, none, s
  <1>4. from # to /\ rate # 0 /\ result = done
    <2> HIDE DEF back, done
    <2> QED
      BY <1>1, <1>2, <1>3
  <1>5. result.slippage = s /\ result.minted = ConvertedAmount(rate, amount - s)
    BY <1>4
  <1> QED
    BY <1>4, <1>5 DEF Converts, result, rate, s

\* What is minted is a number.
LEMMA MintedIs ==
    ASSUME OracleAssumption, NEW rate \in Nat, NEW x \in Nat
    PROVE  ConvertedAmount(rate, x) \in Nat
  <1>1. OracleCoin \in Nat \ {0}
    BY DEF OracleAssumption
  <1> DEFINE m == x * rate
  <1>2. m \in Nat
    OBVIOUS
  <1> HIDE DEF m
  <1>3. m \div OracleCoin \in Nat
    BY <1>1, <1>2, QuotientIs, QuotientAtLeast
  <1> QED
    BY <1>3 DEF ConvertedAmount, m

\* A conversion and the one back lose both slippages and gain nothing.
LEMMA RoundTrip ==
    ASSUME OracleAssumption, NEW pr, IsRecord(pr), NEW from \in AllAssets, NEW to \in AllAssets,
           NEW amount \in Nat, NEW given, NEW back,
           Converts(pr, from, to, amount, given), Converts(pr, to, from, given.minted, back)
    PROVE  /\ back.minted + given.slippage <= amount
           /\ back.slippage + ConvertedAmount(ConversionRate(pr, from, to), back.minted)
                <= given.minted
  <1> DEFINE r == ConversionRate(pr, from, to)
             q == ConversionRate(pr, to, from)
             c == OracleCoin
             s == Slippage(amount)
             m == given.minted
             t == Slippage(m)
             b == back.minted
  <1>1. c \in Nat \ {0}
    BY DEF OracleAssumption
  <1>2. r \in Nat /\ q \in Nat /\ r * q <= c * c
    <2> DEFINE x == AssetPrice(pr, from)
               y == AssetPrice(pr, to)
    <2>1. /\ r \in Nat /\ x \in Nat \ {0} /\ y \in Nat \ {0} /\ r * y <= x * c
          /\ q \in Nat /\ q * x <= y * c
      BY RateIs DEF Converts
    <2> HIDE DEF x, y, r, q, c
    <2> QED
      BY <1>1, <2>1, RatesMultiply
  <1>3. q * r <= c * c
    <2>1. q * r = r * q
      BY <1>2
    <2> QED
      BY <1>2, <2>1
  <1>4. s \in 0 .. amount
    BY SlippageIs
  <1>5. given.slippage = s /\ m = ConvertedAmount(r, amount - s)
    BY DEF Converts
  <1> HIDE DEF r, q, c, s
  <1>6. amount - s \in Nat
    BY <1>4
  <1>7. m \in Nat
    BY <1>2, <1>5, <1>6, MintedIs
  <1>8. t \in 0 .. m
    BY <1>7, SlippageIs
  <1>9. back.slippage = t /\ b = ConvertedAmount(q, m - t)
    BY DEF Converts, q
  <1> HIDE DEF t, m
  <1>10. m - t \in Nat
    BY <1>7, <1>8
  <1>11. b \in Nat
    BY <1>2, <1>9, <1>10, MintedIs
  <1> HIDE DEF b
  <1>12. ConvertedAmount(r, b) <= m - t
    <2>1. ((((m - t) * q) \div c) * r) \div c <= m - t
      BY <1>1, <1>2, <1>3, <1>10, ThereAndBack
    <2> QED
      BY <1>9, <2>1 DEF ConvertedAmount, c
  <1>13. ConvertedAmount(q, m) <= amount - s
    <2>1. ((((amount - s) * r) \div c) * q) \div c <= amount - s
      BY <1>1, <1>2, <1>6, ThereAndBack
    <2> QED
      BY <1>5, <2>1 DEF ConvertedAmount, c
  <1>14. b <= ConvertedAmount(q, m)
    <2>1. (m - t) * q \in Nat /\ m * q \in Nat /\ t * q \in Nat
      BY <1>2, <1>7, <1>8, <1>10
    <2>2. (m - t) * q <= m * q
      BY <1>2, <1>7, <1>8, <1>10, FactorsGrow
    <2> DEFINE x == (m - t) * q
               y == m * q
    <2>3. x \in Nat /\ y \in Nat /\ x + 0 <= y
      BY <2>1, <2>2
    <2> HIDE DEF x, y
    <2>4. x \div c + 0 \div c <= y \div c
      BY <1>1, <2>3, QuotientsGrow
    <2>5. 0 \div c = 0 /\ x \div c \in Int /\ y \div c \in Int
      <3>1. 0 \div c \in Int /\ c * (0 \div c) <= 0 /\ 0 <= 0 \div c
        BY <1>1, QuotientIs, QuotientAtLeast
      <3>2. 0 \div c <= 0
        BY <1>1, QuotientAtMost
      <3> QED
        BY <1>1, <2>3, <3>1, <3>2, QuotientIs
    <2>6. x \div c <= y \div c
      BY <2>4, <2>5
    <2> QED
      BY <1>9, <2>6 DEF ConvertedAmount, x, y, c
  <1>15. ConvertedAmount(r, b) \in Nat /\ ConvertedAmount(q, m) \in Nat
    BY <1>2, <1>7, <1>11, MintedIs
  <1>16. b + s <= amount /\ t + ConvertedAmount(r, b) <= m
    BY <1>4, <1>7, <1>8, <1>11, <1>12, <1>13, <1>14, <1>15
  <1> QED
    BY <1>5, <1>9, <1>16 DEF b, m, r

\* An amount in two parts gains one unit at most.
LEMMA TwoParts ==
    ASSUME OracleAssumption, NEW rate \in Nat, NEW x \in Nat, NEW y \in Nat,
           NEW z \in Nat, x + y = z
    PROVE  ConvertedAmount(rate, x - Slippage(x)) + ConvertedAmount(rate, y - Slippage(y))
             <= ConvertedAmount(rate, z - Slippage(z) + 1)
  <1> DEFINE a == Slippage(x)
             b == Slippage(y)
             s == Slippage(z)
             c == OracleCoin
  <1>1. c \in Nat \ {0}
    BY DEF OracleAssumption
  <1>2. a \in 0 .. x /\ b \in 0 .. y /\ s \in 0 .. z
    BY SlippageIs
  <1>3. s <= a + b + 1
    <2>1. 2 ^ SlippageShift \in Nat \ {0}
      BY DEF OracleAssumption
    <2>2. (x + y) \div 2 ^ SlippageShift = s
      BY DEF Slippage
    <2> QED
      BY <2>1, <2>2, PartsSaveOne DEF Slippage
  <1> HIDE DEF a, b, s, c
  <1> DEFINE u == x - a
             v == y - b
             w == z - s + 1
  <1>4. u \in Nat /\ v \in Nat /\ w \in Nat /\ u + v <= w
    BY <1>2, <1>3
  <1> HIDE DEF u, v, w
  <1>5. u * rate \in Nat /\ v * rate \in Nat /\ w * rate \in Nat
    BY <1>4
  <1>6. u * rate + v * rate <= w * rate
    <2>1. u * rate + v * rate = (u + v) * rate
      BY <1>4
    <2>2. (u + v) * rate <= w * rate
      <3>1. u + v \in Nat
        BY <1>4
      <3> QED
        BY <1>4, <3>1, FactorsGrow
    <2> QED
      BY <1>4, <2>1, <2>2
  <1>7. (u * rate) \div c + (v * rate) \div c <= (w * rate) \div c
    BY <1>1, <1>5, <1>6, QuotientsGrow
  <1> QED
    BY <1>7 DEF ConvertedAmount, a, b, s, c, u, v, w

\* A record with other prices and another supply.
LEMMA OtherNumbers ==
    ASSUME NEW pr, pr = PricingRecord(pr.prices, pr.supply, pr.time, pr.signature), NEW f, NEW n
    PROVE  [pr EXCEPT !.prices = f, !.supply = n] = PricingRecord(f, n, pr.time, pr.signature)
  <1> DEFINE q == [pr EXCEPT !.prices = f, !.supply = n]
             r == PricingRecord(f, n, pr.time, pr.signature)
             D == {"prices", "supply", "time", "signature"}
  <1>1. pr = [d \in D |-> pr[d]]
    BY DEF PricingRecord
  <1>2. q = [d \in D |-> IF d = "prices" THEN f ELSE IF d = "supply" THEN n ELSE pr[d]]
    BY <1>1
  <1>3. r = [d \in D |-> IF d = "prices" THEN f ELSE IF d = "supply" THEN n ELSE pr[d]]
    BY DEF PricingRecord
  <1> HIDE DEF q, r
  <1> QED
    BY <1>2, <1>3 DEF q, r

\* A number as a double is a number, and the same number again.
LEMMA AsNumberIs ==
    ASSUME OracleAssumption, NEW n \in Nat
    PROVE  AsNumber(n) \in Nat /\ AsNumber(AsNumber(n)) = AsNumber(n)
  <1>1. ExactLimit \in Nat
    BY DEF OracleAssumption
  <1>2. n % 2 \in 0 .. 1 /\ n - (n % 2) \in Nat /\ (n - (n % 2)) % 2 = 0
    OBVIOUS
  <1> DEFINE r == n % 2
             e == n - r
  <1>3. r \in 0 .. 1 /\ e \in Nat /\ e % 2 = 0
    BY <1>2
  <1>4. AsNumber(n) = IF n <= ExactLimit THEN n ELSE e
    BY DEF AsNumber
  <1>5. AsNumber(e) = e
    <2>1. AsNumber(e) = IF e <= ExactLimit THEN e ELSE e - (e % 2)
      BY DEF AsNumber
    <2> HIDE DEF e
    <2> QED
      BY <1>1, <1>3, <2>1
  <1> HIDE DEF e
  <1> QED
    BY <1>1, <1>3, <1>4, <1>5

\* A record of numbers says what was in it, as doubles.
LEMMA AsNumbersIs ==
    ASSUME OracleAssumption, NEW pr, IsRecord(pr)
    PROVE  /\ IsRecord(AsNumbers(pr))
           /\ AsNumbers(AsNumbers(pr)) = AsNumbers(pr)
           /\ AsNumbers(pr).signature = pr.signature
  <1> DEFINE f == [a \in PricedAssets |-> AsNumber(pr.prices[a])]
             n == AsNumber(pr.supply)
             g == [a \in PricedAssets |-> AsNumber(f[a])]
             said == AsNumbers(pr)
  <1>1. f \in [PricedAssets -> Nat] /\ n \in Nat
    BY AsNumberIs DEF IsRecord
  <1>2. g = f /\ AsNumber(n) = n
    <2>1. \A a \in PricedAssets : AsNumber(f[a]) = f[a]
      BY AsNumberIs DEF IsRecord
    <2>2. AsNumber(n) = n
      BY AsNumberIs DEF IsRecord
    <2>3. f = [a \in PricedAssets |-> f[a]]
      OBVIOUS
    <2> HIDE DEF f, n
    <2> QED
      BY <2>1, <2>2, <2>3
  <1>3. said = PricingRecord(f, n, pr.time, pr.signature)
    <2>1. said = [pr EXCEPT !.prices = f, !.supply = n]
      BY DEF AsNumbers
    <2> HIDE DEF said, f, n
    <2> QED
      BY <2>1, OtherNumbers DEF IsRecord
  <1>4. said.prices = f /\ said.supply = n /\ said.time = pr.time /\ said.signature = pr.signature
    BY <1>3 DEF PricingRecord
  <1>5. AsNumbers(said) = PricingRecord([a \in PricedAssets |-> AsNumber(said.prices[a])],
                                        AsNumber(said.supply), said.time, said.signature)
    <2> DEFINE h == [a \in PricedAssets |-> AsNumber(said.prices[a])]
               k == AsNumber(said.supply)
    <2> HIDE DEF said, f, n
    <2>1. said = PricingRecord(said.prices, said.supply, said.time, said.signature)
      BY <1>3, <1>4
    <2>2. AsNumbers(said) = [said EXCEPT !.prices = h, !.supply = k]
      BY DEF AsNumbers
    <2> HIDE DEF h, k
    <2>3. AsNumbers(said) = PricingRecord(h, k, said.time, said.signature)
      BY <2>1, <2>2, OtherNumbers
    <2> QED
      BY <2>3 DEF h, k
  <1> HIDE DEF said
  <1>6. AsNumbers(said) = said
    BY <1>2, <1>3, <1>4, <1>5
  <1>7. IsRecord(said)
    <2> HIDE DEF f, n
    <2> QED
      BY <1>1, <1>3, <1>4 DEF IsRecord
  <1> QED
    BY <1>4, <1>6, <1>7 DEF said

\* The empty record is a record.
LEMMA EmptyIs ==
    ASSUME OracleAssumption
    PROVE  /\ IsRecord(EmptyPricingRecord)
           /\ EmptyPricingRecord.signature = <<>>
           /\ AsNumbers(EmptyPricingRecord) = EmptyPricingRecord
  <1> DEFINE none == [a \in PricedAssets |-> 0]
             e == EmptyPricingRecord
  <1>1. e = PricingRecord(none, 0, 0, <<>>)
    BY DEF EmptyPricingRecord, NoSignature
  <1>2. e.prices = none /\ e.supply = 0 /\ e.time = 0 /\ e.signature = <<>>
    BY <1>1 DEF PricingRecord
  <1>3. IsRecord(e)
    BY <1>1, <1>2 DEF IsRecord
  <1>4. AsNumber(0) = 0
    BY DEF AsNumber, OracleAssumption
  <1>5. AsNumbers(e) = e
    <2>1. [a \in PricedAssets |-> AsNumber(none[a])] = none
      BY <1>4
    <2>2. [a \in PricedAssets |-> AsNumber(e.prices[a])] = none
      BY <1>2, <2>1
    <2> HIDE DEF none, e
    <2> QED
      BY <1>1, <1>2, <1>4, <2>2 DEF AsNumbers, PricingRecord
  <1> QED
    BY <1>2, <1>3, <1>5

\* A record that is kept as text comes back as it was.
LEMMA KeptAsItWas ==
    ASSUME NEW pr, IsRecord(pr)
    PROVE  ParseKept(PricingRecordToJson(pr)) = pr
  <1> DEFINE f == [a \in PricedAssets |-> DigitsOf(pr.prices[a])]
             n == DigitsOf(pr.supply)
             json == PricingRecordToJson(pr)
  <1>1. /\ \A a \in PricedAssets : FromText(DigitsOf(pr.prices[a])) = pr.prices[a]
        /\ FromText(n) = pr.supply
    BY DigitsSayNumber DEF IsRecord
  <1>2. json = PricingRecord(f, n, pr.time, pr.signature)
    <2>1. json = [pr EXCEPT !.prices = f, !.supply = n]
      BY DEF PricingRecordToJson
    <2> HIDE DEF json, f, n
    <2> QED
      BY <2>1, OtherNumbers DEF IsRecord
  <1>3. json.prices = f /\ json.supply = n
    BY <1>2 DEF PricingRecord
  <1>4. [a \in PricedAssets |-> FromText(f[a])] = pr.prices
    <2>1. \A a \in PricedAssets : f[a] = DigitsOf(pr.prices[a])
      OBVIOUS
    <2>2. pr.prices = [a \in PricedAssets |-> pr.prices[a]]
      BY DEF IsRecord
    <2> HIDE DEF f
    <2>3. \A a \in PricedAssets : FromText(f[a]) = pr.prices[a]
      BY <1>1, <2>1
    <2> QED
      BY <2>2, <2>3
  <1> HIDE DEF json, f, n
  <1>5. ParseKept(json) = PricingRecord([a \in PricedAssets |-> FromText(f[a])], FromText(n),
                                        pr.time, pr.signature)
    <2> DEFINE h == [a \in PricedAssets |-> FromText(json.prices[a])]
               k == FromText(json.supply)
    <2>1. json.time = pr.time /\ json.signature = pr.signature
      BY <1>2 DEF PricingRecord
    <2>2. json = PricingRecord(json.prices, json.supply, json.time, json.signature)
      BY <1>2, <1>3, <2>1
    <2>3. ParseKept(json) = [json EXCEPT !.prices = h, !.supply = k]
      BY DEF ParseKept
    <2>4. h = [a \in PricedAssets |-> FromText(f[a])] /\ k = FromText(n)
      BY <1>3
    <2> HIDE DEF h, k
    <2>5. ParseKept(json) = PricingRecord(h, k, json.time, json.signature)
      BY <2>2, <2>3, OtherNumbers
    <2> QED
      BY <2>1, <2>4, <2>5
  <1> QED
    BY <1>1, <1>4, <1>5 DEF IsRecord, json

\* What a quote is made of, and what is known at each step of it.
TradeIs(trade) ==
    /\ trade = <<trade[1], trade[2], trade[3]>>
    /\ trade[1] \in AllAssets /\ trade[2] \in AllAssets /\ trade[3] \in Traded

QuoteIs(u) ==
    u = [step |-> u.step, record |-> u.record, held |-> u.held, block |-> u.block,
         last |-> u.last, fork |-> u.fork, trade |-> u.trade, limit |-> u.limit,
         given |-> u.given, back |-> u.back]

\* The numbers that are held are doubles, and a signature of the oracle in what is
\* held is the one of the record.
Held(u) ==
    /\ IsRecord(u.record) /\ u.record.signature = NoSignature
    /\ IsRecord(u.held) /\ AsNumbers(u.held) = u.held
    /\ \A m : u.held.signature = <<"oracle", m>> => m = Says(u.record)

Made(u) ==
    /\ u.step \in {"accepted", "converted", "back"} =>
          ValidPricingRecord(u.held, "oracle", u.fork, u.block, u.last)
    /\ u.step \in {"converted", "back"} =>
          /\ TradeIs(u.trade)
          /\ u.given = CalculateConversion(u.held, u.trade[1], u.trade[2], u.trade[3], u.limit)
          /\ u.given.success
    /\ u.step = "back" =>
          /\ ~u.given.refund /\ u.back.success /\ ~u.back.refund
          /\ u.back = CalculateConversion(u.held, u.trade[2], u.trade[1], u.given.minted, u.limit)

OracleKept == QuoteIs(quote) /\ Held(quote) /\ Made(quote)

\* The record of an answer, and whose signature it has.
LEMMA AnswersAre ==
    ASSUME OracleAssumption, NEW pr, IsRecord(pr), NEW answer \in Answers(pr)
    PROVE  /\ IsRecord(answer)
           /\ \A m : answer.signature = <<"oracle", m>> => m = Says(pr)
  <1> DEFINE by(key, f) == PricingRecord(f, pr.supply, pr.time, <<key, Says(pr)>>)
  <1>1. ASSUME NEW key, NEW f \in [PricedAssets -> Nat], answer = by(key, f)
        PROVE  IsRecord(answer) /\ answer.signature = <<key, Says(pr)>>
    <2>1. /\ answer.prices = f /\ answer.supply = pr.supply /\ answer.time = pr.time
          /\ answer.signature = <<key, Says(pr)>>
      BY <1>1 DEF PricingRecord
    <2>2. answer = PricingRecord(answer.prices, answer.supply, answer.time, answer.signature)
      BY <1>1, <2>1
    <2> QED
      BY <2>1, <2>2 DEF IsRecord
  <1>2. ASSUME NEW key PROVE SignedBy(key, pr) = by(key, pr.prices)
    BY DEF SignedBy, IsRecord, PricingRecord, Says
  <1>3. pr.prices \in [PricedAssets -> Nat]
    BY DEF IsRecord
  <1>4. CASE answer = SignedBy("oracle", pr)
    <2>1. IsRecord(answer) /\ answer.signature = <<"oracle", Says(pr)>>
      BY <1>1, <1>2, <1>3, <1>4
    <2> QED
      BY <2>1
  <1>5. CASE answer = SignedBy("other", pr)
    <2>1. IsRecord(answer) /\ answer.signature = <<"other", Says(pr)>>
      BY <1>1, <1>2, <1>3, <1>5
    <2>2. \A m : <<"other", Says(pr)>> # <<"oracle", m>>
      OBVIOUS
    <2> QED
      BY <2>1, <2>2
  <1>6. CASE answer = EmptyPricingRecord
    <2>1. IsRecord(answer) /\ answer.signature = <<>>
      BY <1>6, EmptyIs
    <2>2. \A m : <<>> # <<"oracle", m>>
      OBVIOUS
    <2> QED
      BY <2>1, <2>2
  <1>7. CASE \E p \in Prices : answer = [SignedBy("oracle", pr) EXCEPT !.prices["VSD"] = p]
    <2>1. PICK p \in Prices : answer = [SignedBy("oracle", pr) EXCEPT !.prices["VSD"] = p]
      BY <1>7
    <2> DEFINE f == [pr.prices EXCEPT !["VSD"] = p]
    <2>2. f \in [PricedAssets -> Nat]
      BY <1>3 DEF OracleAssumption
    <2>3. answer = by("oracle", f)
      BY <1>2, <2>1 DEF PricingRecord
    <2>4. IsRecord(answer) /\ answer.signature = <<"oracle", Says(pr)>>
      <3> HIDE DEF f
      <3> QED
        BY <1>1, <2>2, <2>3
    <2> QED
      BY <2>4
  <1> QED
    BY <1>4, <1>5, <1>6, <1>7 DEF Answers

\* What every step leaves of a quote.
LEMMA OracleStep ==
    ASSUME OracleAssumption, OracleKept, [OracleNext]_oracleVars
    PROVE  OracleKept'
  <1>1. QuoteIs(quote) /\ Held(quote) /\ Made(quote)
    BY DEF OracleKept
  <1>2. CASE UNCHANGED oracleVars
    BY <1>1, <1>2 DEF oracleVars, OracleKept
  <1>3. CASE FetchPricingRecord
    <2>1. CASE quote' = [quote EXCEPT !.step = "refused"]
      <3>1. QuoteIs(quote') /\ quote'.step = "refused" /\ quote'.held = quote.held
            /\ quote'.record = quote.record
        BY <1>1, <2>1 DEF QuoteIs
      <3> QED
        BY <1>1, <3>1 DEF OracleKept, Held, Made
    <2>2. ASSUME NEW answer \in Answers(quote.record),
                 quote' = [quote EXCEPT !.step = "fetched", !.held = AsNumbers(answer)]
          PROVE  OracleKept'
      <3>1. /\ QuoteIs(quote') /\ quote'.step = "fetched" /\ quote'.held = AsNumbers(answer)
            /\ quote'.record = quote.record
        BY <1>1, <2>2 DEF QuoteIs
      <3>2. IsRecord(quote.record)
        BY <1>1 DEF Held
      <3>3. IsRecord(answer) /\ \A m : answer.signature = <<"oracle", m>> => m = Says(quote.record)
        BY <3>2, AnswersAre
      <3>4. /\ IsRecord(AsNumbers(answer)) /\ AsNumbers(AsNumbers(answer)) = AsNumbers(answer)
            /\ AsNumbers(answer).signature = answer.signature
        BY <3>3, AsNumbersIs
      <3> QED
        BY <1>1, <3>1, <3>3, <3>4 DEF OracleKept, Held, Made
    <2> QED
      BY <1>3, <2>1, <2>2 DEF FetchPricingRecord
  <1>4. CASE KeepRecord
    <2>1. ParseKept(PricingRecordToJson(quote.held)) = quote.held
      BY <1>1, KeptAsItWas DEF Held
    <2>2. quote' = quote
      BY <1>1, <1>4, <2>1 DEF KeepRecord, QuoteIs
    <2> QED
      BY <1>1, <2>2 DEF OracleKept
  <1>5. ASSUME NEW fork \in OracleForks, NEW block \in BlockTimes, NEW last \in BlockTimes,
               quote' = [quote EXCEPT
                    !.block = block, !.last = last, !.fork = fork,
                    !.step = IF ValidPricingRecord(quote.held, "oracle", fork, block, last)
                             THEN "accepted" ELSE "refused"]
        PROVE  OracleKept'
    <2>1. /\ QuoteIs(quote') /\ quote'.held = quote.held /\ quote'.record = quote.record
          /\ quote'.block = block /\ quote'.last = last /\ quote'.fork = fork
          /\ quote'.step = IF ValidPricingRecord(quote.held, "oracle", fork, block, last)
                           THEN "accepted" ELSE "refused"
      BY <1>1, <1>5 DEF QuoteIs
    <2>2. Held(quote')
      BY <1>1, <2>1 DEF Held
    <2>3. Made(quote')
      BY <2>1 DEF Made
    <2> QED
      BY <2>1, <2>2, <2>3 DEF OracleKept
  <1>6. ASSUME NEW from \in AllAssets, NEW to \in AllAssets, NEW amount \in Traded,
               NEW limit \in SlippageLimits, NEW result,
               quote.step = "accepted",
               result = CalculateConversion(quote.held, from, to, amount, limit),
               result.success,
               quote' = [quote EXCEPT !.step = "converted", !.limit = limit,
                                      !.trade = <<from, to, amount>>, !.given = result]
        PROVE  OracleKept'
    <2>1. /\ QuoteIs(quote') /\ quote'.held = quote.held /\ quote'.record = quote.record
          /\ quote'.block = quote.block /\ quote'.last = quote.last /\ quote'.fork = quote.fork
          /\ quote'.limit = limit /\ quote'.trade = <<from, to, amount>> /\ quote'.given = result
          /\ quote'.step = "converted"
      BY <1>1, <1>6 DEF QuoteIs
    <2>2. Held(quote')
      BY <1>1, <2>1 DEF Held
    <2>3. TradeIs(quote'.trade) /\ quote'.trade[1] = from /\ quote'.trade[2] = to
          /\ quote'.trade[3] = amount
      BY <2>1 DEF TradeIs
    <2>4. Made(quote')
      BY <1>1, <1>6, <2>1, <2>3 DEF Made
    <2> QED
      BY <2>1, <2>2, <2>4 DEF OracleKept
  <1>7. CASE ConvertBack
    <2>1. PICK result : /\ result = CalculateConversion(quote.held, quote.trade[2], quote.trade[1],
                                                        quote.given.minted, quote.limit)
                        /\ result.success /\ ~result.refund
                        /\ quote' = [quote EXCEPT !.step = "back", !.back = result]
      BY <1>7 DEF ConvertBack
    <2>2. /\ QuoteIs(quote') /\ quote'.held = quote.held /\ quote'.record = quote.record
          /\ quote'.block = quote.block /\ quote'.last = quote.last /\ quote'.fork = quote.fork
          /\ quote'.limit = quote.limit /\ quote'.trade = quote.trade
          /\ quote'.given = quote.given /\ quote'.back = result /\ quote'.step = "back"
      BY <1>1, <2>1 DEF QuoteIs
    <2>3. Held(quote')
      BY <1>1, <2>2 DEF Held
    <2>4. quote.step = "converted" /\ ~quote.given.refund
      BY <1>7 DEF ConvertBack
    <2>5. Made(quote')
      BY <1>1, <2>1, <2>2, <2>4 DEF Made
    <2> QED
      BY <2>2, <2>3, <2>5 DEF OracleKept
  <1> QED
    <2>1. CASE ValidateRecord
      BY <1>5, <2>1 DEF ValidateRecord
    <2>2. CASE ConvertAsset
      BY <1>6, <2>2 DEF ConvertAsset
    <2> QED
      BY <1>2, <1>3, <1>4, <1>7, <2>1, <2>2 DEF OracleNext

\* What is accepted was signed.
LEMMA AcceptedIsSigned ==
    ASSUME OracleKept, quote.step \in {"accepted", "converted", "back"},
           quote.held # EmptyPricingRecord
    PROVE  /\ quote.fork >= OracleFork
           /\ quote.held = SignedBy("oracle", quote.record)
           /\ quote.held.time <= quote.block + FreshLimit
           /\ quote.last > 0 => quote.held.time > quote.last
  <1> DEFINE held == quote.held
             record == quote.record
  <1>1. /\ quote.fork >= OracleFork /\ VerifySignature(held, "oracle")
        /\ held.time <= quote.block + FreshLimit
        /\ quote.last > 0 => held.time > quote.last
    BY DEF OracleKept, Made, ValidPricingRecord, IsPricingRecordEmpty
  <1>2. /\ IsRecord(record) /\ IsRecord(held) /\ AsNumbers(held) = held
        /\ \A m : held.signature = <<"oracle", m>> => m = Says(record)
    BY DEF OracleKept, Held
  <1> HIDE DEF held, record
  <1>3. SignatureMessage(held) = Says(held)
    BY <1>2 DEF SignatureMessage, Says
  <1>4. held.signature = <<"oracle", Says(held)>> /\ Says(held) = Says(record)
    BY <1>1, <1>2, <1>3 DEF VerifySignature
  <1>5. held.prices = record.prices /\ held.supply = record.supply /\ held.time = record.time
    BY <1>4 DEF Says
  <1>6. SignedBy("oracle", record)
           = PricingRecord(record.prices, record.supply, record.time, <<"oracle", Says(record)>>)
    BY <1>2 DEF SignedBy, IsRecord, PricingRecord, Says
  <1>7. held = PricingRecord(held.prices, held.supply, held.time, held.signature)
    BY <1>2 DEF IsRecord
  <1>8. held = SignedBy("oracle", record)
    BY <1>4, <1>5, <1>6, <1>7
  <1> QED
    BY <1>1, <1>8 DEF held, record

\* What a step before the end promises of the amounts.
LEMMA OracleKeptHolds == ASSUME OracleAssumption, OracleKept PROVE OracleHolds
  <1> DEFINE held == quote.held
             from == quote.trade[1]
             to == quote.trade[2]
             amount == quote.trade[3]
             rate == ConversionRate(held, from, to)
  <1>1. Held(quote) /\ Made(quote)
    BY DEF OracleKept
  <1>2. IsRecord(held)
    BY <1>1 DEF Held
  <1>3. ASSUME quote.step \in {"converted", "back"}, ~quote.given.refund
        PROVE  /\ from \in AllAssets /\ to \in AllAssets /\ amount \in Nat
               /\ Converts(held, from, to, amount, quote.given)
    <2>1. /\ TradeIs(quote.trade)
          /\ quote.given = CalculateConversion(held, from, to, amount, quote.limit)
          /\ quote.given.success
      BY <1>1, <1>3 DEF Made
    <2>2. from \in AllAssets /\ to \in AllAssets /\ amount \in Traded
      BY <2>1 DEF TradeIs
    <2>3. amount \in Nat
      BY <2>2 DEF OracleAssumption
    <2> HIDE DEF from, to, amount, held
    <2>4. Converts(held, from, to, amount, quote.given)
      BY <1>3, <2>1, ConversionIs
    <2> QED
      BY <2>2, <2>3, <2>4
  <1>4. AcceptedAsSigned
    BY AcceptedIsSigned DEF AcceptedAsSigned
  <1>5. RoundTripCosts
    <2> SUFFICES ASSUME quote.step = "back"
                 PROVE  /\ quote.back.minted + quote.given.slippage <= amount
                        /\ quote.back.slippage + ConvertedAmount(rate, quote.back.minted)
                             <= quote.given.minted
      BY DEF RoundTripCosts
    <2>1. /\ ~quote.given.refund /\ quote.back.success /\ ~quote.back.refund
          /\ quote.back = CalculateConversion(held, to, from, quote.given.minted, quote.limit)
      BY <1>1 DEF Made
    <2> HIDE DEF held, from, to, amount
    <2>2. Converts(held, to, from, quote.given.minted, quote.back)
      BY <2>1, ConversionIs
    <2> QED
      BY <1>2, <1>3, <2>1, <2>2, RoundTrip
  <1>6. PartsGainOneUnit
    <2> SUFFICES ASSUME quote.step = "converted", ~quote.given.refund,
                        NEW part \in Traded, part < amount
                 PROVE  ConvertedAmount(rate, part - Slippage(part))
                          + ConvertedAmount(rate, amount - part - Slippage(amount - part))
                        <= ConvertedAmount(rate, amount - quote.given.slippage + 1)
      BY DEF PartsGainOneUnit
    <2>1. from \in AllAssets /\ to \in AllAssets /\ amount \in Nat
          /\ Converts(held, from, to, amount, quote.given)
      BY <1>3
    <2>2. rate \in Nat /\ quote.given.slippage = Slippage(amount)
      BY <1>2, <2>1, RateIs DEF Converts
    <2>3. part \in Nat /\ amount - part \in Nat /\ part + (amount - part) = amount
      BY <2>1 DEF OracleAssumption
    <2> DEFINE rest == amount - part
    <2>7. part \in Nat /\ rest \in Nat /\ amount \in Nat
      BY <2>1, <2>3
    <2> HIDE DEF rate, amount, rest
    <2>4. part + rest = amount
      BY <2>3 DEF rest
    <2>5. ConvertedAmount(rate, part - Slippage(part)) + ConvertedAmount(rate, rest - Slippage(rest))
             <= ConvertedAmount(rate, amount - Slippage(amount) + 1)
      BY <2>1, <2>2, <2>4, <2>7, TwoParts
    <2>6. ConvertedAmount(rate, part - Slippage(part)) + ConvertedAmount(rate, rest - Slippage(rest))
             <= ConvertedAmount(rate, amount - quote.given.slippage + 1)
      BY <2>2, <2>5
    <2> QED
      BY <2>6 DEF rest
  <1> QED
    BY <1>4, <1>5, <1>6 DEF OracleHolds

\* Prices hold of every record, for any prices, amounts, rounding and slippage: a
\* record that passes is the one the oracle has signed, digit by digit, and is fresh;
\* who converts and converts back has lost both slippages at least; and an amount in
\* two parts gains one unit at most (src/oracle.js).
THEOREM PricesAreKept == OracleSpec => []OracleHolds
  <1>1. OracleInit => OracleKept
    <2> SUFFICES ASSUME OracleInit PROVE OracleKept
      OBVIOUS
    <2>1. PICK prices \in [PricedAssets -> Prices], supply \in Supplies, time \in RecordTimes :
              quote = Quote(PricingRecord(prices, supply, time, NoSignature))
      BY DEF OracleInit
    <2> DEFINE record == PricingRecord(prices, supply, time, NoSignature)
    <2>2. /\ record.prices = prices /\ record.supply = supply /\ record.time = time
          /\ record.signature = NoSignature
      BY DEF PricingRecord
    <2>3. prices \in [PricedAssets -> Nat] /\ supply \in Nat
      BY OracleAssumption DEF OracleAssumption
    <2>4. IsRecord(record)
      BY <2>2, <2>3 DEF IsRecord
    <2> HIDE DEF record
    <2>5. /\ QuoteIs(quote) /\ quote.step = "published" /\ quote.record = record
          /\ quote.held = EmptyPricingRecord
      BY <2>1 DEF Quote, QuoteIs, record
    <2>6. Held(quote)
      <3>1. \A m : <<>> # <<"oracle", m>>
        OBVIOUS
      <3> QED
        BY <2>2, <2>4, <2>5, <3>1, EmptyIs, OracleAssumption DEF Held
    <2>7. Made(quote)
      BY <2>5 DEF Made
    <2> QED
      BY <2>5, <2>6, <2>7 DEF OracleKept
  <1>2. OracleKept /\ [OracleNext]_oracleVars => OracleKept'
    BY OracleAssumption, OracleStep
  <1>3. OracleKept => OracleHolds
    BY OracleAssumption, OracleKeptHolds
  <1> QED
    BY <1>1, <1>2, <1>3, PTL DEF OracleSpec

-----------------------------------------------------------------------------
(***************************************************************************)
(* Admission: the times of blocks                                            *)
(***************************************************************************)
\* The numbers of a list in order grow with the place.
LEMMA OrderGrows ==
    ASSUME NEW s \in Seq(Int), NEW k \in 1 .. Len(s), k + 1 \in 1 .. Len(s)
    PROVE  InOrder(s, k) <= InOrder(s, k + 1)
  <1> DEFINE x == InOrder(s, k)
             y == InOrder(s, k + 1)
             A == {i \in DOMAIN s : s[i] < x}
             B == {i \in DOMAIN s : s[i] <= y}
  <1>1. x \in Int /\ Cardinality(A) < k
    BY InOrderIs
  <1>2. y \in Int /\ Cardinality(B) >= k + 1
    BY InOrderIs
  <1>3. IsFiniteSet(A) /\ Cardinality(A) \in Nat
    <2>1. IsFiniteSet(1 .. Len(s)) /\ DOMAIN s = 1 .. Len(s)
      BY FS_Interval
    <2>2. A \in SUBSET (1 .. Len(s))
      BY <2>1
    <2> HIDE DEF A
    <2> QED
      BY <2>1, <2>2, FS_Subset, FS_CardinalityType
  <1>4. SUFFICES ASSUME y < x PROVE FALSE
    BY <1>1, <1>2
  <1>5. B \in SUBSET A
    <2>1. \A i \in DOMAIN s : s[i] \in Int
      OBVIOUS
    <2> HIDE DEF x, y
    <2> QED
      BY <1>1, <1>2, <1>4, <2>1
  <1> HIDE DEF A, B
  <1>6. Cardinality(B) <= Cardinality(A) /\ Cardinality(B) \in Nat
    BY <1>3, <1>5, FS_Subset, FS_CardinalityType
  <1>7. k \in Nat
    OBVIOUS
  <1> QED
    BY <1>1, <1>2, <1>3, <1>6, <1>7

\* A window that loses its oldest number and gets one above its k-th has no smaller
\* k-th number afterwards.
LEMMA WindowSlides ==
    ASSUME NEW w \in Nat \ {0}, NEW s \in Seq(Int), NEW r \in Seq(Int), Len(s) = w, Len(r) = w,
           \A i \in 1 .. w - 1 : r[i] = s[i + 1],
           NEW k \in 1 .. w, r[w] > InOrder(s, k)
    PROVE  InOrder(s, k) <= InOrder(r, k)
  <1> DEFINE x == InOrder(r, k)
             v == InOrder(s, k)
             A == {i \in DOMAIN r : r[i] <= x}
             B == {i \in DOMAIN s : s[i] < v}
             f == [i \in A |-> i + 1]
  <1>1. x \in Int /\ Cardinality(A) >= k
    BY InOrderIs
  <1>2. v \in Int /\ Cardinality(B) < k
    BY InOrderIs
  <1>3. IsFiniteSet(B) /\ Cardinality(B) \in Nat
    <2>1. IsFiniteSet(1 .. w) /\ DOMAIN s = 1 .. w
      BY FS_Interval
    <2>2. B \in SUBSET (1 .. w)
      BY <2>1
    <2> HIDE DEF B
    <2> QED
      BY <2>1, <2>2, FS_Subset, FS_CardinalityType
  <1>4. SUFFICES ASSUME x < v PROVE FALSE
    BY <1>1, <1>2
  <1>5. ASSUME NEW i \in A PROVE i + 1 \in B
    <2>1. i \in 1 .. w /\ r[i] <= x /\ r[i] \in Int
      OBVIOUS
    <2>2. i # w
      BY <1>1, <1>2, <1>4, <2>1
    <2>3. i \in 1 .. w - 1 /\ i + 1 \in 1 .. w
      BY <2>1, <2>2
    <2>4. s[i + 1] = r[i] /\ DOMAIN s = 1 .. w
      BY <2>3
    <2> HIDE DEF x, v
    <2> QED
      BY <1>1, <1>2, <1>4, <2>1, <2>3, <2>4
  <1>6. A \subseteq Int
    OBVIOUS
  <1> HIDE DEF A, B
  <1>7. f \in Injection(A, B)
    <2>1. f \in [A -> B]
      BY <1>5
    <2>2. \A a, b \in A : f[a] = f[b] => a = b
      BY <1>6
    <2> HIDE DEF f
    <2> QED
      BY <2>1, <2>2 DEF Injection, IsInjective
  <1>8. Cardinality(A) <= Cardinality(B) /\ Cardinality(A) \in Nat
    BY <1>3, <1>7, FS_Injection, FS_CardinalityType
  <1>9. k \in Nat
    OBVIOUS
  <1> QED
    BY <1>1, <1>2, <1>3, <1>8, <1>9

\* The middle of the last times, the lower one when their number is even.
Middle(ts) == InOrder(LastOf(ts, CheckWindow), (CheckWindow + 1) \div 2)

\* The names of this module for what the windows of the chain are read with.
LEMMA RecentIs ==
    ASSUME NEW ts \in Seq(Int)
    PROVE  /\ Recent(ts) = LastOf(ts, CheckWindow)
           /\ \A s, k : InOrderOfTime(s, k) = InOrder(s, k)
           /\ \A s : MedianTimestamp(s) = MedianOf(s)
  <1> DEFINE n == Len(ts)
             w == CheckWindow
  <1>1. w \in Nat /\ n \in Nat
    BY AdmissionAssumption
  <1>2. n - Least(n, w) + 1 = Larger(1, n - w + 1)
    <2>1. Least(n, w) = (IF n < w THEN n ELSE w)
      BY DEF Least
    <2>2. Larger(1, n - w + 1) = (IF 1 < n - w + 1 THEN n - w + 1 ELSE 1)
      BY DEF Larger
    <2> HIDE DEF n, w
    <2>3. CASE n < w
      <3>1. Least(n, w) = n /\ ~(1 < n - w + 1)
        BY <1>1, <2>1, <2>3
      <3> QED
        BY <1>1, <2>2, <3>1
    <2>4. CASE ~(n < w)
      <3>1. Least(n, w) = w
        BY <1>1, <2>1, <2>4
      <3>2. CASE n = w
        BY <1>1, <2>2, <3>1, <3>2
      <3>3. CASE n # w
        BY <1>1, <2>2, <2>4, <3>1, <3>3
      <3> QED
        BY <3>2, <3>3
    <2> QED
      BY <2>3, <2>4
  <1>3. Recent(ts) = LastOf(ts, CheckWindow)
    BY <1>2 DEF Recent, LastOf
  <1>4. \A s, k : InOrderOfTime(s, k) = InOrder(s, k)
    BY DEF InOrderOfTime, InOrder
  <1>5. ASSUME NEW s PROVE MedianTimestamp(s) = MedianOf(s)
    BY <1>4 DEF MedianTimestamp, MedianOf
  <1> QED
    BY <1>3, <1>4, <1>5

\* The last of the numbers of a list, and of the list with one more.
LEMMA LastOfMore ==
    ASSUME NEW w \in Nat \ {0}, NEW ts \in Seq(Int), Len(ts) >= w, NEW t \in Int
    PROVE  /\ LastOf(ts, w) \in Seq(Int) /\ Len(LastOf(ts, w)) = w
           /\ LastOf(Append(ts, t), w) \in Seq(Int) /\ Len(LastOf(Append(ts, t), w)) = w
           /\ \A i \in 1 .. w - 1 : LastOf(Append(ts, t), w)[i] = LastOf(ts, w)[i + 1]
           /\ LastOf(Append(ts, t), w)[w] = t
  <1> DEFINE n == Len(ts)
             more == Append(ts, t)
             s == LastOf(ts, w)
             r == LastOf(more, w)
  <1>1. n \in Nat /\ n >= w
    OBVIOUS
  <1>2. /\ more \in Seq(Int) /\ Len(more) = n + 1 /\ more[n + 1] = t
        /\ \A i \in 1 .. n : more[i] = ts[i]
    OBVIOUS
  <1> HIDE DEF n, more, s, r
  <1>3. Smaller(n, w) = w /\ Smaller(n + 1, w) = w
    BY <1>1 DEF Smaller
  <1>4. Larger(1, n - w + 1) = n - w + 1 /\ Larger(1, n + 1 - w + 1) = n - w + 2
    BY <1>1 DEF Larger
  <1>5. /\ s \in Seq(Int) /\ Len(s) = w
        /\ \A i \in 1 .. w : s[i] = ts[n - w + 1 + i - 1]
    <2>1. /\ s \in Seq(Int) /\ Len(s) = Smaller(n, w)
          /\ \A i \in 1 .. Smaller(n, w) : s[i] = ts[Larger(1, n - w + 1) + i - 1]
      BY LastOfIs DEF n, s
    <2> QED
      BY <1>3, <1>4, <2>1
  <1>6. /\ r \in Seq(Int) /\ Len(r) = w
        /\ \A i \in 1 .. w : r[i] = more[n - w + 2 + i - 1]
    <2>1. /\ r \in Seq(Int) /\ Len(r) = Smaller(Len(more), w)
          /\ \A i \in 1 .. Smaller(Len(more), w) :
                r[i] = more[Larger(1, Len(more) - w + 1) + i - 1]
      BY <1>2, LastOfIs DEF r
    <2>2. Smaller(Len(more), w) = w /\ Larger(1, Len(more) - w + 1) = n - w + 2
      <3>1. Len(more) = n + 1
        BY <1>2
      <3>2. Smaller(Len(more), w) = w
        BY <1>3, <3>1, Zenon
      <3>3. Len(more) - w + 1 = n - w + 2 /\ n - w + 2 > 1
        BY <1>1, <3>1
      <3>4. Larger(1, Len(more) - w + 1)
                = IF 1 < Len(more) - w + 1 THEN Len(more) - w + 1 ELSE 1
        BY Zenon DEF Larger
      <3> QED
        BY <3>2, <3>3, <3>4
    <2>3. Len(r) = w /\ \A i \in 1 .. w : r[i] = more[n - w + 2 + i - 1]
      BY <2>1, <2>2
    <2> QED
      BY <2>1, <2>3
  <1>7. ASSUME NEW i \in 1 .. w - 1 PROVE r[i] = s[i + 1]
    <2>1. i \in 1 .. w /\ i + 1 \in 1 .. w
      OBVIOUS
    <2>2. n - w + 2 + i - 1 = n - w + 1 + (i + 1) - 1 /\ n - w + 2 + i - 1 \in 1 .. n
      BY <1>1, <2>1
    <2>3. r[i] = more[n - w + 2 + i - 1] /\ s[i + 1] = ts[n - w + 1 + (i + 1) - 1]
      BY <1>5, <1>6, <2>1
    <2> QED
      BY <1>2, <2>2, <2>3
  <1>8. r[w] = t
    <2>1. w \in 1 .. w /\ n - w + 2 + w - 1 = n + 1
      BY <1>1
    <2>2. r[w] = more[n - w + 2 + w - 1]
      BY <1>6, <2>1
    <2> QED
      BY <1>2, <2>1, <2>2
  <1> QED
    BY <1>5, <1>6, <1>7, <1>8 DEF s, r, more

\* A number above the median is above the lower middle.
LEMMA AboveTheMedian ==
    ASSUME NEW w \in Nat \ {0}, NEW s \in Seq(Int), Len(s) = w, NEW t \in Int, t > MedianOf(s)
    PROVE  (w + 1) \div 2 \in 1 .. w /\ t > InOrder(s, (w + 1) \div 2)
  <1> DEFINE h == w \div 2
             k == (w + 1) \div 2
  <1>1. w % 2 = 0 => k = h /\ k \in 1 .. w /\ k + 1 \in 1 .. w
    OBVIOUS
  <1>2. w % 2 # 0 => k = h + 1 /\ k \in 1 .. w
    OBVIOUS
  <1>3. MedianOf(s) = IF w % 2 = 0 THEN (InOrder(s, h) + InOrder(s, h + 1)) \div 2
                      ELSE InOrder(s, h + 1)
    BY DEF MedianOf
  <1> HIDE DEF h, k
  <1>4. CASE w % 2 = 0
    <2> DEFINE a == InOrder(s, k)
               b == InOrder(s, k + 1)
    <2>1. a \in Int /\ b \in Int /\ a <= b /\ k \in 1 .. w
      BY <1>1, <1>4, InOrderIs, OrderGrows
    <2>2. t > (a + b) \div 2
      BY <1>1, <1>3, <1>4
    <2> HIDE DEF a, b
    <2>3. t > a
      BY <2>1, <2>2
    <2> QED
      BY <2>1, <2>3 DEF a, k
  <1>5. CASE w % 2 # 0
    BY <1>2, <1>3, <1>5 DEF k
  <1> QED
    BY <1>4, <1>5

\* The last times after one more, whatever was the one of the block that follows.
LEMMA MiddleGrows ==
    ASSUME NEW ts \in Seq(Int), NEW t \in Int,
           Len(ts) >= CheckWindow, t > MedianTimestamp(Recent(ts))
    PROVE  Middle(ts) <= Middle(Append(ts, t))
  <1> DEFINE w == CheckWindow
             s == LastOf(ts, w)
             r == LastOf(Append(ts, t), w)
             k == (w + 1) \div 2
  <1>1. w \in Nat \ {0} /\ Len(ts) >= w
    BY AdmissionAssumption
  <1>2. t > MedianOf(s)
    BY RecentIs
  <1> HIDE DEF w
  <1>3. /\ s \in Seq(Int) /\ Len(s) = w /\ r \in Seq(Int) /\ Len(r) = w
        /\ \A i \in 1 .. w - 1 : r[i] = s[i + 1]
        /\ r[w] = t
    <2> HIDE DEF k
    <2> QED
      BY <1>1, LastOfMore, Zenon
  <1> HIDE DEF s, r
  <1>4. k \in 1 .. w /\ t > InOrder(s, k)
    BY <1>1, <1>2, <1>3, AboveTheMedian
  <1> HIDE DEF k
  <1>5. InOrder(s, k) <= InOrder(r, k)
    BY <1>1, <1>3, <1>4, WindowSlides
  <1> QED
    BY <1>5 DEF Middle, s, r, k, w

\* Beginnings of a list and of the list with one more.
LEMMA BeginningsOfMore ==
    ASSUME NEW ts \in Seq(Int), NEW t \in Int
    PROVE  /\ \A n \in 0 .. Len(ts) : SubSeq(Append(ts, t), 1, n) = SubSeq(ts, 1, n)
           /\ SubSeq(Append(ts, t), 1, Len(ts) + 1) = Append(ts, t)
           /\ SubSeq(ts, 1, Len(ts)) = ts
  OBVIOUS

\* The lower middle of the last times of the beginnings of a list never falls.
GoesOn(ts) == \A n \in CheckWindow .. Len(ts) - 1 :
    Middle(SubSeq(ts, 1, n)) <= Middle(SubSeq(ts, 1, n + 1))

\* A block whose time is above the median keeps it so.
LEMMA GoesOnWithMore ==
    ASSUME NEW ts \in Seq(Int), NEW t \in Int, GoesOn(ts),
           Len(ts) >= CheckWindow => t > MedianTimestamp(Recent(ts))
    PROVE  GoesOn(Append(ts, t))
  <1> DEFINE more == Append(ts, t)
             w == CheckWindow
  <1>1. w \in Nat /\ Len(ts) \in Nat /\ Len(more) = Len(ts) + 1
    BY AdmissionAssumption
  <1>2. \A n \in w .. Len(ts) - 1 : Middle(SubSeq(ts, 1, n)) <= Middle(SubSeq(ts, 1, n + 1))
    BY DEF GoesOn
  <1>3. Len(ts) >= w => Middle(ts) <= Middle(more)
    BY MiddleGrows
  <1>4. /\ \A n \in 0 .. Len(ts) : SubSeq(more, 1, n) = SubSeq(ts, 1, n)
        /\ SubSeq(more, 1, Len(ts) + 1) = more
        /\ SubSeq(ts, 1, Len(ts)) = ts
    BY BeginningsOfMore
  <1> HIDE DEF more, w
  <1>5. ASSUME NEW n \in w .. Len(more) - 1
        PROVE  Middle(SubSeq(more, 1, n)) <= Middle(SubSeq(more, 1, n + 1))
    <2>1. n \in 0 .. Len(ts) /\ n >= w
      BY <1>1, <1>5
    <2>2. CASE n = Len(ts)
      BY <1>3, <1>4, <2>1, <2>2
    <2>3. CASE n # Len(ts)
      <3>1. n \in w .. Len(ts) - 1 /\ n + 1 \in 0 .. Len(ts)
        BY <1>1, <2>1, <2>3
      <3> QED
        BY <1>2, <1>4, <2>1, <3>1
    <2> QED
      BY <2>2, <2>3
  <1> QED
    BY <1>5 DEF GoesOn, more, w

\* What is open at a height and a time is open later.
LEMMA OpenOnceAndForAll ==
    ASSUME NEW h \in Nat, NEW g \in Nat, h <= g,
           NEW now \in Nat, NEW later \in Nat, now <= later
    PROVE  OpenOutputs(h, now) \subseteq OpenOutputs(g, later)
  <1> DEFINE d == TargetTime * LockDelta
  <1>1. /\ TargetTime \in Nat /\ LockDelta \in Nat /\ LockThreshold \in Nat /\ Locks \subseteq Nat
    BY AdmissionAssumption
  <1>2. d \in Nat
    BY <1>1
  <1> HIDE DEF d
  <1>3. ASSUME NEW u \in Locks, IsOutputUnlocked(u, h, now) PROVE IsOutputUnlocked(u, g, later)
    <2>1. \/ u = 0
          \/ IF u < LockThreshold THEN h + LockDelta >= u ELSE now + d >= u
      BY <1>3 DEF IsOutputUnlocked, d
    <2>2. \/ u = 0
          \/ IF u < LockThreshold THEN g + LockDelta >= u ELSE later + d >= u
      <3>1. u \in Nat
        BY <1>1
      <3>2. CASE u < LockThreshold
        BY <1>1, <2>1, <3>1, <3>2
      <3>3. CASE ~(u < LockThreshold)
        BY <1>2, <2>1, <3>1, <3>3
      <3> QED
        BY <3>2, <3>3
    <2> QED
      BY <2>2 DEF IsOutputUnlocked, d
  <1> QED
    BY <1>3 DEF OpenOutputs

\* A coinbase that is mature is open, and one that is open is old enough.
LEMMA CoinbasesOpen ==
    ASSUME NEW h \in 0 .. MostBlocks, NEW now \in Nat, NEW made \in 0 .. h
    PROVE  /\ IsCoinbaseMature(made, h) => IsOutputUnlocked(made + MinedWindow, h, now)
           /\ IsOutputUnlocked(made + MinedWindow, h, now) => MeetsMinimumAge(made, h)
  <1> DEFINE u == made + MinedWindow
  <1>1. /\ MostBlocks \in Nat /\ MinedWindow \in Nat /\ LockDelta \in Nat /\ SpendableAge \in Nat
        /\ LockThreshold \in Nat /\ MostBlocks + MinedWindow < LockThreshold
        /\ SpendableAge + LockDelta <= MinedWindow
    BY AdmissionAssumption
  <1>2. u \in Nat /\ u < LockThreshold /\ made \in Nat /\ h \in Nat
    BY <1>1
  <1>3. IsOutputUnlocked(u, h, now) <=> (u = 0 \/ h + LockDelta >= u)
    BY <1>2 DEF IsOutputUnlocked
  <1>4. IsCoinbaseMature(made, h) => u = 0 \/ h + LockDelta >= u
    BY <1>1, <1>2 DEF IsCoinbaseMature
  <1>5. u = 0 \/ h + LockDelta >= u => MeetsMinimumAge(made, h)
    BY <1>1, <1>2 DEF MeetsMinimumAge
  <1> QED
    BY <1>3, <1>4, <1>5

\* The newest of the forks that are active.
LEMMA NewestFork ==
    ASSUME NEW V, V \subseteq Nat \ {0}, IsFiniteSet(V), V # {}
    PROVE  /\ (CHOOSE v \in V : \A x \in V : x <= v) \in V
           /\ \A x \in V : x <= (CHOOSE v \in V : \A y \in V : y <= v)
  <1>1. \E v \in V : \A x \in V : x <= v
    <2>1. V \subseteq Int
      OBVIOUS
    <2> QED
      BY <2>1, SetHasEnds
  <1> QED
    BY <1>1

\* The newest fork of a network grows with the height.
LEMMA ForksGrow ==
    ASSUME NEW name \in NetworkNames, NEW h \in Nat
    PROVE  HfVersion(h, name) \in Nat /\ HfVersion(h, name) <= HfVersion(h + 1, name)
  <1> DEFINE F == HardForkHeights[NetworkConfig(name)]
             At(g) == {v \in DOMAIN F : F[v] <= g}
             Newest(V) == IF V = {} THEN 1 ELSE CHOOSE v \in V : \A x \in V : x <= v
  <1>1. NetworkConfig(name) \in {"mainnet", "testnet", "stagenet"}
    BY AdmissionAssumption DEF NetworkConfig
  <1>2. DOMAIN F \subseteq Nat \ {0} /\ IsFiniteSet(DOMAIN F) /\ \A v \in DOMAIN F : F[v] \in Nat
    BY <1>1, AdmissionAssumption
  <1>3. \A g : HfVersion(g, name) = Newest(At(g))
    BY DEF HfVersion
  <1> HIDE DEF F
  <1>4. \A g : At(g) \subseteq DOMAIN F
    OBVIOUS
  <1>5. At(h) \subseteq At(h + 1)
    <2>1. ASSUME NEW v \in DOMAIN F, F[v] <= h PROVE F[v] <= h + 1
      <3> DEFINE x == F[v]
      <3>1. x \in Nat /\ x <= h
        BY <1>2, <2>1, Zenon
      <3> HIDE DEF x
      <3>2. x <= h + 1
        BY <3>1
      <3> QED
        BY <3>2 DEF x
    <2> QED
      BY <2>1, Zenon
  <1> HIDE DEF At
  <1>6. \A g : At(g) \subseteq Nat \ {0} /\ IsFiniteSet(At(g))
    BY <1>2, <1>4, FS_Subset
  <1>7. ASSUME NEW V, V \subseteq Nat \ {0}, IsFiniteSet(V)
        PROVE  /\ Newest(V) \in Nat \ {0}
               /\ V # {} => Newest(V) \in V
               /\ \A x \in V : x <= Newest(V)
    <2>1. CASE V = {}
      BY <2>1
    <2>2. CASE V # {}
      <3>1. Newest(V) = CHOOSE v \in V : \A x \in V : x <= v
        BY <2>2
      <3> HIDE DEF Newest
      <3>2. /\ (CHOOSE v \in V : \A x \in V : x <= v) \in V
            /\ \A x \in V : x <= (CHOOSE v \in V : \A y \in V : y <= v)
        BY <1>7, <2>2, NewestFork
      <3> QED
        BY <1>7, <3>1, <3>2
    <2> QED
      BY <2>1, <2>2
  <1>8. Newest({}) = 1
    OBVIOUS
  <1> HIDE DEF Newest
  <1>9. Newest(At(h)) \in Nat /\ Newest(At(h)) <= Newest(At(h + 1))
    <2> DEFINE a == Newest(At(h))
               b == Newest(At(h + 1))
    <2>1. a \in Nat /\ b \in Nat \ {0} /\ \A x \in At(h + 1) : x <= b
      BY <1>6, <1>7
    <2>2. CASE At(h) = {}
      <3>1. a = 1
        BY <1>8, <2>2
      <3>2. a \in Nat /\ b \in Nat \ {0}
        BY <2>1
      <3> HIDE DEF a, b
      <3>3. a \in Nat /\ a <= b
        BY <3>1, <3>2
      <3> QED
        BY <3>3 DEF a, b
    <2>3. CASE At(h) # {}
      <3>1. a \in At(h)
        BY <1>6, <1>7, <2>3
      <3> QED
        BY <1>5, <2>1, <3>1
    <2> QED
      BY <2>2, <2>3
  <1> QED
    BY <1>3, <1>9

\* Forks stay active, and every network locks a stake as its configuration says.
LEMMA ForksAreKept ==
    ForksStay
  <1>1. ASSUME NEW name \in NetworkNames, NEW v \in Forks, NEW h \in 0 .. MostBlocks,
               IsHfActive(v, h, name)
        PROVE  IsHfActive(v, h + 1, name)
    <2>1. h \in Nat /\ h + 1 \in Nat /\ v \in Nat
      BY AdmissionAssumption
    <2>2. /\ HfVersion(h, name) \in Nat /\ HfVersion(h + 1, name) \in Nat
          /\ HfVersion(h, name) <= HfVersion(h + 1, name)
      BY <2>1, ForksGrow
    <2>3. HfVersion(h, name) >= v
      BY <1>1 DEF IsHfActive
    <2> DEFINE a == HfVersion(h, name)
               b == HfVersion(h + 1, name)
    <2>4. a \in Nat /\ b \in Nat /\ a <= b /\ a >= v
      BY <2>2, <2>3
    <2> HIDE DEF a, b
    <2>5. b >= v
      BY <2>1, <2>4
    <2> QED
      BY <2>5 DEF IsHfActive, b
  <1>2. ASSUME NEW name \in NetworkNames
        PROVE  StakeLockPeriod(name) = StakeLockPeriods[NetworkConfig(name)]
    BY AdmissionAssumption DEF StakeLockPeriod, NetworkConfig
  <1> QED
    BY <1>1, <1>2 DEF ForksStay

-----------------------------------------------------------------------------
(***************************************************************************)
(* Admission: what a miner is paid                                           *)
(***************************************************************************)
\* The amounts of coins there can be.
Emitted == 0 .. MoneySupply + FinalSubsidy - 1

\* What a block adds keeps the coins within what there can be.
LEMMA SubsidyIs ==
    ASSUME NEW coins \in Emitted
    PROVE  /\ coins < MoneySupply => BlockSubsidy(coins) \in Nat
           /\ WithSubsidy(coins) \in Emitted
           /\ coins < MoneySupply => WithSubsidy(coins) = coins + BlockSubsidy(coins)
  <1> DEFINE d == 2 ^ EmissionShift
             rest == MoneySupply - coins
             q == rest \div d
  <1>1. MoneySupply \in Nat /\ FinalSubsidy \in Nat \ {0} /\ d \in Nat \ {0, 1}
    BY AdmissionAssumption
  <1>2. coins \in Nat /\ coins < MoneySupply + FinalSubsidy
    BY <1>1 DEF Emitted
  <1>3. BlockSubsidy(coins) = IF q < FinalSubsidy THEN FinalSubsidy ELSE q
    BY DEF BlockSubsidy, Most
  <1> HIDE DEF d
  <1>4. ASSUME coins < MoneySupply PROVE q \in Nat /\ q <= rest
    <2>1. rest \in Nat
      BY <1>1, <1>2, <1>4
    <2> HIDE DEF rest
    <2>2. d * 0 <= rest /\ d \in Nat \ {0}
      BY <1>1, <2>1
    <2>3. q \in Int /\ 0 <= q
      BY <2>1, <2>2, QuotientIs, QuotientAtLeast
    <2>4. rest <= d * rest
      BY <1>1, <2>1
    <2>5. q <= rest
      BY <2>1, <2>2, <2>4, QuotientAtMost
    <2> QED
      BY <2>3, <2>5
  <1>5. CASE coins >= MoneySupply
    <2>1. WithSubsidy(coins) = coins
      BY <1>5 DEF WithSubsidy
    <2> QED
      BY <1>1, <1>2, <1>5, <2>1
  <1>6. CASE coins < MoneySupply
    <2>1. ~(coins >= MoneySupply)
      BY <1>1, <1>2, <1>6
    <2>2. WithSubsidy(coins) = coins + BlockSubsidy(coins)
      BY <2>1 DEF WithSubsidy
    <2>3. q \in Nat /\ q <= MoneySupply - coins
      BY <1>4, <1>6
    <2> DEFINE b == BlockSubsidy(coins)
    <2> HIDE DEF q, b
    <2>4. b = IF q < FinalSubsidy THEN FinalSubsidy ELSE q
      BY <1>3 DEF b
    <2>5. b \in Nat /\ coins + b < MoneySupply + FinalSubsidy
      BY <1>1, <1>2, <1>6, <2>3, <2>4
    <2>6. coins + b \in Emitted
      BY <1>1, <1>2, <2>5 DEF Emitted
    <2> QED
      BY <2>2, <2>5, <2>6 DEF b
  <1> QED
    BY <1>1, <1>2, <1>5, <1>6

\* The coins after each of the first blocks.
LEMMA EmissionIs ==
    ASSUME NEW n \in Nat
    PROVE  \E s \in [0 .. n -> Emitted] :
               s[0] = PremineAmount /\ (\A i \in 1 .. n : s[i] = WithSubsidy(s[i - 1]))
               /\ Emission(n) = s[n]
  <1> DEFINE Runs(s, m) == s[0] = PremineAmount /\ \A i \in 1 .. m : s[i] = WithSubsidy(s[i - 1])
             T == {m \in Nat : m <= n => \E s \in [0 .. m -> Emitted] : Runs(s, m)}
             Flat(s) == s = [h \in 0 .. n |-> IF h = 0 THEN PremineAmount ELSE WithSubsidy(s[h - 1])]
             c == CHOOSE s : Flat(s)
  <1>0. PremineAmount \in Emitted
    <2>1. /\ MoneySupply \in Nat /\ FinalSubsidy \in Nat /\ PremineAmount \in Nat
          /\ PremineAmount + FinalSubsidy < MoneySupply
      BY AdmissionAssumption
    <2> QED
      BY <2>1 DEF Emitted
  <1>a. \A x \in Emitted : WithSubsidy(x) \in Emitted
    BY SubsidyIs
  <1>1. 0 \in T
    <2> DEFINE s == [i \in 0 .. 0 |-> PremineAmount]
    <2>1. s \in [0 .. 0 -> Emitted] /\ Runs(s, 0)
      BY <1>0
    <2> QED
      BY <2>1
  <1>2. ASSUME NEW m \in Nat, m \in T PROVE m + 1 \in T
    <2>1. SUFFICES ASSUME m + 1 <= n PROVE \E s \in [0 .. m + 1 -> Emitted] : Runs(s, m + 1)
      OBVIOUS
    <2>2. PICK s \in [0 .. m -> Emitted] : Runs(s, m)
      BY <1>2, <2>1
    <2> DEFINE t == [i \in 0 .. m + 1 |-> IF i = m + 1 THEN WithSubsidy(s[m]) ELSE s[i]]
    <2>3. s[m] \in Emitted /\ WithSubsidy(s[m]) \in Emitted
      BY <1>a, <2>2
    <2>4. t \in [0 .. m + 1 -> Emitted]
      BY <2>2, <2>3
    <2>5. t[0] = PremineAmount
      BY <2>2
    <2>6. ASSUME NEW i \in 1 .. m + 1 PROVE t[i] = WithSubsidy(t[i - 1])
      <3>1. CASE i = m + 1
        <4>1. m \in 0 .. m + 1 /\ m # m + 1 /\ i - 1 = m /\ i \in 0 .. m + 1
          BY <3>1
        <4>2. t[i] = WithSubsidy(s[m]) /\ t[m] = s[m]
          BY <3>1, <4>1
        <4> QED
          BY <4>1, <4>2
      <3>2. CASE i # m + 1
        <4>1. i \in 1 .. m /\ i - 1 \in 0 .. m /\ i - 1 # m + 1 /\ i \in 0 .. m + 1
              /\ i - 1 \in 0 .. m + 1
          BY <3>2
        <4>2. t[i] = s[i] /\ t[i - 1] = s[i - 1]
          BY <3>2, <4>1
        <4> QED
          BY <2>2, <4>1, <4>2
      <3> QED
        BY <3>1, <3>2
    <2> HIDE DEF t
    <2> QED
      BY <2>4, <2>5, <2>6
  <1>3. Nat \subseteq T
    <2> HIDE DEF T
    <2> QED
      BY <1>1, <1>2, InductiveSet
  <1>4. PICK s \in [0 .. n -> Emitted] : Runs(s, n)
    BY <1>3
  <1>5. Flat(s)
    <2> DEFINE r == [h \in 0 .. n |-> IF h = 0 THEN PremineAmount ELSE WithSubsidy(s[h - 1])]
    <2>1. ASSUME NEW h \in 0 .. n PROVE s[h] = r[h]
      BY <1>4
    <2> QED
      BY <2>1
  <1>6. Flat(c)
    BY <1>5
  <1>7. ASSUME NEW h \in 0 .. n PROVE c[h] = IF h = 0 THEN PremineAmount ELSE WithSubsidy(c[h - 1])
    <2> HIDE DEF c
    <2> QED
      BY <1>6
  <1>8. Emission(n) = c[n]
    BY DEF Emission
  <1> DEFINE U == {m \in Nat : m <= n => c[m] = s[m]}
  <1> HIDE DEF c
  <1>9. 0 \in U
    BY <1>4, <1>7
  <1>10. ASSUME NEW m \in Nat, m \in U PROVE m + 1 \in U
    <2>1. SUFFICES ASSUME m + 1 <= n PROVE c[m + 1] = s[m + 1]
      OBVIOUS
    <2>2. c[m] = s[m] /\ m + 1 \in 0 .. n /\ m + 1 \in 1 .. n /\ m + 1 # 0 /\ m + 1 - 1 = m
      BY <1>10, <2>1
    <2>3. c[m + 1] = WithSubsidy(c[m])
      BY <1>7, <2>2
    <2> QED
      BY <1>4, <2>2, <2>3
  <1>11. n \in U
    <2> HIDE DEF U
    <2> QED
      BY <1>9, <1>10, InductiveSet
  <1>12. Emission(n) = s[n]
    BY <1>8, <1>11
  <1> HIDE DEF T, U
  <1> QED
    BY <1>4, <1>12

\* The coins before the first blocks are asked for: the second block finds a whole subsidy.
LEMMA FirstSubsidies ==
    /\ Emission(1) \in Emitted /\ Emission(1) < MoneySupply
    /\ Emission(2) = Emission(1) + BlockSubsidy(Emission(1))
    /\ BlockSubsidy(Emission(1)) \in Nat
    /\ Emission(4 * MostBlocks) < MoneySupply + FinalSubsidy
  <1>1. MoneySupply \in Nat /\ FinalSubsidy \in Nat \ {0} /\ PremineAmount \in Nat
        /\ PremineAmount + FinalSubsidy < MoneySupply /\ MostBlocks \in Nat
        /\ 2 ^ EmissionShift \in Nat \ {0, 1}
    BY AdmissionAssumption
  <1>2. Emission(1) = WithSubsidy(PremineAmount)
    <2>1. PICK s \in [0 .. 1 -> Emitted] :
               s[0] = PremineAmount /\ (\A i \in 1 .. 1 : s[i] = WithSubsidy(s[i - 1]))
               /\ Emission(1) = s[1]
      BY EmissionIs
    <2>2. s[1] = WithSubsidy(s[1 - 1]) /\ 1 - 1 = 0
      BY <2>1
    <2> QED
      BY <2>1, <2>2
  <1>3. Emission(2) = WithSubsidy(WithSubsidy(PremineAmount))
    <2>1. PICK s \in [0 .. 2 -> Emitted] :
               s[0] = PremineAmount /\ (\A i \in 1 .. 2 : s[i] = WithSubsidy(s[i - 1]))
               /\ Emission(2) = s[2]
      BY EmissionIs
    <2>2. s[1] = WithSubsidy(s[1 - 1]) /\ 1 - 1 = 0 /\ s[2] = WithSubsidy(s[2 - 1]) /\ 2 - 1 = 1
      BY <2>1
    <2> QED
      BY <2>1, <2>2
  <1>4. PremineAmount \in Emitted /\ PremineAmount < MoneySupply
    BY <1>1 DEF Emitted
  <1>5. /\ WithSubsidy(PremineAmount) = PremineAmount + BlockSubsidy(PremineAmount)
        /\ WithSubsidy(PremineAmount) \in Emitted /\ BlockSubsidy(PremineAmount) \in Nat
    BY <1>4, SubsidyIs
  <1>6. BlockSubsidy(PremineAmount) < MoneySupply - PremineAmount
    <2> DEFINE d == 2 ^ EmissionShift
               rest == MoneySupply - PremineAmount
               q == rest \div d
    <2>1. BlockSubsidy(PremineAmount) = IF q < FinalSubsidy THEN FinalSubsidy ELSE q
      BY DEF BlockSubsidy, Most
    <2>2. rest \in Nat /\ FinalSubsidy < rest /\ d \in Nat \ {0, 1} /\ rest >= 1
      BY <1>1
    <2> HIDE DEF d, rest
    <2>3. rest <= d * (rest - 1)
      <3>1. d * (rest - 1) >= 2 * (rest - 1)
        BY <2>2
      <3>2. CASE rest = 1
        BY <1>1, <2>2, <3>2
      <3>3. CASE rest # 1
        BY <2>2, <3>1, <3>3
      <3> QED
        BY <3>2, <3>3
    <2>4. q <= rest - 1 /\ q \in Int
      BY <2>2, <2>3, QuotientAtMost, QuotientIs
    <2> HIDE DEF q
    <2>5. BlockSubsidy(PremineAmount) < rest
      BY <1>1, <2>1, <2>2, <2>4
    <2> QED
      BY <2>5 DEF rest
  <1>7. Emission(1) \in Emitted /\ Emission(1) < MoneySupply
    <2> DEFINE b == BlockSubsidy(PremineAmount)
    <2>1. Emission(1) = PremineAmount + b /\ b \in Nat /\ b < MoneySupply - PremineAmount
      BY <1>2, <1>5, <1>6
    <2> HIDE DEF b
    <2>2. PremineAmount + b < MoneySupply
      BY <1>1, <2>1
    <2> QED
      BY <1>2, <1>5, <2>1, <2>2
  <1>8. /\ WithSubsidy(Emission(1)) = Emission(1) + BlockSubsidy(Emission(1))
        /\ BlockSubsidy(Emission(1)) \in Nat
    BY <1>7, SubsidyIs
  <1>9. Emission(4 * MostBlocks) \in Emitted
    <2>1. 4 * MostBlocks \in Nat
      BY <1>1
    <2>2. \E s \in [0 .. 4 * MostBlocks -> Emitted] : Emission(4 * MostBlocks) = s[4 * MostBlocks]
      BY <2>1, EmissionIs
    <2> QED
      BY <2>1, <2>2
  <1>10. Emission(4 * MostBlocks) < MoneySupply + FinalSubsidy
    BY <1>1, <1>9 DEF Emitted
  <1> QED
    BY <1>2, <1>3, <1>7, <1>8, <1>10

\* The sum of all amounts is a number, and one that every sum is held below.
LEMMA TotalIs ==
    ASSUME NEW amounts \in Seq(Nat)
    PROVE  /\ TotalOf(amounts, Len(amounts)) \in Int
           /\ NoOverflow(amounts) /\ MaxMoney \in Nat
                => TotalOf(amounts, Len(amounts)) <= MaxMoney
  <1> DEFINE n == Len(amounts)
  <1>1. n \in Nat /\ \A i \in 1 .. n : amounts[i] \in Int
    OBVIOUS
  <1>2. TotalOf(amounts, n) = SumTo(amounts, n)
    BY DEF TotalOf, SumTo
  <1>3. PICK s \in [0 .. n -> Int] :
            s[0] = 0 /\ (\A i \in 1 .. n : s[i] = s[i - 1] + amounts[i])
            /\ SumTo(amounts, n) = s[n]
    BY <1>1, SumIs
  <1>4. TotalOf(amounts, n) \in Int /\ (n = 0 => TotalOf(amounts, n) = 0)
    BY <1>1, <1>2, <1>3
  <1>5. ASSUME NoOverflow(amounts), MaxMoney \in Nat PROVE TotalOf(amounts, n) <= MaxMoney
    <2>1. CASE n = 0
      BY <1>4, <1>5, <2>1
    <2>2. CASE n # 0
      <3>1. n \in DOMAIN amounts
        BY <2>2
      <3> QED
        BY <1>5, <3>1 DEF NoOverflow
    <2> QED
      BY <2>1, <2>2
  <1> QED
    BY <1>4, <1>5

\* What was checked with the coins that the chain had is paid by the subsidy and the fees.
LEMMA MinersArePaid ==
    ASSUME NEW t, t.amounts \in Seq(Nat), NEW fee \in Nat,
           NoOverflow(t.amounts), ValidMinerReward(t, fee, Emission(1))
    PROVE  TotalOf(t.amounts, Len(t.amounts)) <= Least(MaxMoney, Emission(2) - Emission(1) + fee)
  <1> DEFINE x == TotalOf(t.amounts, Len(t.amounts))
             e == Emission(1)
             b == BlockSubsidy(e)
  <1>1. MaxMoney \in Nat
    BY AdmissionAssumption
  <1>2. x \in Int /\ x <= MaxMoney
    BY <1>1, TotalIs
  <1>3. x <= b + fee
    BY DEF ValidMinerReward
  <1>4. e \in Nat /\ b \in Nat /\ Emission(2) = e + b
    BY FirstSubsidies DEF Emitted
  <1> HIDE DEF x, b, e
  <1>5. Emission(2) - e + fee = b + fee
    BY <1>4
  <1>6. x <= Least(MaxMoney, Emission(2) - e + fee)
    <2>1. Least(MaxMoney, b + fee) = IF MaxMoney < b + fee THEN MaxMoney ELSE b + fee
      BY DEF Least
    <2>2. x <= Least(MaxMoney, b + fee)
      BY <1>2, <1>3, <2>1
    <2>3. Least(MaxMoney, Emission(2) - e + fee) = Least(MaxMoney, b + fee)
      BY <1>5, Zenon
    <2> QED
      BY <2>2, <2>3
  <1> QED
    BY <1>6 DEF x, e

-----------------------------------------------------------------------------
(***************************************************************************)
(* Admission: fees                                                           *)
(***************************************************************************)
\* What the rules of fees are made of.
LEMMA FeeRules ==
    /\ FEE_PER_BYTE \in Nat \ {0} /\ FEE_PER_KB \in Nat \ {0} /\ Kilo \in Nat \ {0}
    /\ ReferenceWeight \in Nat \ {0} /\ ScalingRounding \in Nat \ {0} /\ Quantum \in Nat \ {0}
    /\ RewardZoneV5 \in Nat \ {0} /\ BaseFeePerKb \in Nat /\ RewardReference \in Nat
    /\ Tolerance \in Nat \ {0, 1}
  BY AdmissionAssumption

\* A quotient grows with what is divided and falls with what divides it.
LEMMA QuotientUp ==
    ASSUME NEW x \in Nat, NEW y \in Nat, x <= y,
           NEW c \in Nat \ {0}, NEW d \in Nat \ {0}, d <= c
    PROVE  x \div c \in Nat /\ y \div d \in Nat /\ x \div c <= y \div d
  <1> DEFINE q == x \div c
  <1>1. q \in Int /\ c * q <= x
    BY QuotientIs
  <1>2. c * 0 <= x /\ d * 0 <= y
    OBVIOUS
  <1>3. 0 <= q
    BY <1>2, QuotientAtLeast
  <1>4. y \div d \in Int /\ 0 <= y \div d
    BY <1>2, QuotientIs, QuotientAtLeast
  <1> HIDE DEF q
  <1>5. d * q <= c * q
    BY <1>1, <1>3
  <1>6. d * q <= y
    BY <1>1, <1>3, <1>5
  <1>7. q <= y \div d
    BY <1>1, <1>6, QuotientAtLeast
  <1> QED
    BY <1>1, <1>3, <1>4, <1>7 DEF q

\* What is rounded up is not less, and it is rounded.
LEMMA RoundUpIs ==
    ASSUME NEW n \in Nat, NEW step \in Nat \ {0}
    PROVE  /\ RoundUp(n, step) \in Nat /\ RoundUp(n, step) >= n
           /\ RoundUp(RoundUp(n, step), step) = RoundUp(n, step)
  <1> DEFINE q == (n + step - 1) \div step
             r == q * step
  <1>1. q \in Int /\ step * q <= n + step - 1 /\ n + step - 1 < step * q + step
    BY QuotientIs
  <1>2. q \in Nat
    <2>1. step * 0 <= n + step - 1 /\ n + step - 1 \in Int
      OBVIOUS
    <2>2. 0 <= q
      BY <2>1, QuotientAtLeast
    <2> QED
      BY <1>1, <2>2
  <1>3. RoundUp(n, step) = r
    BY DEF RoundUp
  <1> HIDE DEF q
  <1>4. r \in Nat /\ r = step * q
    BY <1>2
  <1>5. r >= n
    BY <1>1, <1>4
  <1>6. RoundUp(r, step) = r
    <2> DEFINE p == (r + step - 1) \div step
    <2>1. RoundUp(r, step) = p * step
      BY DEF RoundUp
    <2>2. step * q <= r + step - 1 /\ r + step - 1 \in Int
      BY <1>4
    <2>3. q <= p
      BY <1>2, <2>2, QuotientAtLeast
    <2>4. p \in Int /\ step * p <= r + step - 1
      BY <2>2, QuotientIs
    <2> HIDE DEF p, r
    <2>5. SUFFICES ASSUME q + 1 <= p PROVE FALSE
      <3>1. p = q
        BY <1>2, <2>3, <2>4, <2>5
      <3> QED
        BY <2>1, <3>1 DEF r
    <2>6. step * (q + 1) <= step * p
      BY <1>2, <2>4, <2>5
    <2>7. step * (q + 1) = r + step
      BY <1>2, <1>4
    <2> QED
      BY <1>4, <2>4, <2>6, <2>7
  <1> QED
    BY <1>3, <1>4, <1>5, <1>6

\* More, rounded up, is not less.
LEMMA RoundUpGrows ==
    ASSUME NEW n \in Nat, NEW m \in Nat, n <= m, NEW step \in Nat \ {0}
    PROVE  RoundUp(n, step) <= RoundUp(m, step)
  <1> DEFINE a == (n + step - 1) \div step
             b == (m + step - 1) \div step
  <1>1. n + step - 1 \in Nat /\ m + step - 1 \in Nat /\ n + step - 1 <= m + step - 1
    OBVIOUS
  <1>2. a \in Nat /\ b \in Nat /\ a <= b
    BY <1>1, QuotientUp
  <1>3. RoundUp(n, step) = a * step /\ RoundUp(m, step) = b * step
    BY DEF RoundUp
  <1> HIDE DEF a, b
  <1>4. a * step <= b * step
    BY <1>2
  <1> QED
    BY <1>3, <1>4

\* What a byte costs.
PerByte(reward, fork) ==
    IF fork >= 2 /\ reward > 0
    THEN Most(FEE_PER_BYTE, ((BaseFeePerKb \div Kilo) * RewardReference) \div reward)
    ELSE FEE_PER_BYTE

\* A byte never costs less than the least fee for it.
LEMMA PerByteIs ==
    ASSUME NEW reward \in Nat, NEW fork \in Nat
    PROVE  PerByte(reward, fork) \in Nat /\ PerByte(reward, fork) >= FEE_PER_BYTE
  <1> DEFINE base == (BaseFeePerKb \div Kilo) * RewardReference
             q == base \div reward
  <1>1. BaseFeePerKb \div Kilo \in Nat
    BY FeeRules, QuotientUp
  <1>2. base \in Nat
    BY <1>1, FeeRules
  <1>3. FEE_PER_BYTE \in Nat
    BY FeeRules
  <1>4. CASE fork >= 2 /\ reward > 0
    <2>1. PerByte(reward, fork) = IF FEE_PER_BYTE < q THEN q ELSE FEE_PER_BYTE
      BY <1>4 DEF PerByte, Most
    <2> HIDE DEF base
    <2>2. q \in Nat
      BY <1>2, <1>4, QuotientUp
    <2> HIDE DEF q
    <2> QED
      BY <1>3, <2>1, <2>2
  <1>5. CASE ~(fork >= 2 /\ reward > 0)
    BY <1>3, <1>5 DEF PerByte
  <1> QED
    BY <1>4, <1>5

\* The fee that is asked for covers all bytes.
LEMMA RequiredFeeIs ==
    ASSUME NEW weight \in Nat, NEW reward \in Nat, NEW fork \in Nat
    PROVE  /\ RequiredFee(weight, reward, fork) \in Nat
           /\ RequiredFee(weight, reward, fork) >= weight * FEE_PER_BYTE
           /\ QuantizeFee(RequiredFee(weight, reward, fork)) = RequiredFee(weight, reward, fork)
           /\ RequiredFee(weight, reward, fork) <= RequiredFee(weight + 1, reward, fork)
  <1> DEFINE p == PerByte(reward, fork)
  <1>1. p \in Nat /\ p >= FEE_PER_BYTE
    BY PerByteIs
  <1>2. \A w : RequiredFee(w, reward, fork) = RoundUp(w * p, Quantum)
    BY DEF RequiredFee, QuantizeFee, PerByte
  <1> HIDE DEF p
  <1>3. FEE_PER_BYTE \in Nat /\ Quantum \in Nat \ {0}
    BY FeeRules
  <1>4. weight * p \in Nat /\ (weight + 1) * p \in Nat
    BY <1>1
  <1>5. weight * FEE_PER_BYTE <= weight * p
    BY <1>1, <1>3
  <1>6. weight * p <= (weight + 1) * p
    BY <1>1
  <1> DEFINE a == weight * p
             b == (weight + 1) * p
             f == weight * FEE_PER_BYTE
  <1>7. a \in Nat /\ b \in Nat /\ a <= b /\ f \in Nat /\ f <= a
    BY <1>3, <1>4, <1>5, <1>6
  <1> HIDE DEF a, b, f
  <1>8. /\ RoundUp(a, Quantum) \in Nat /\ RoundUp(a, Quantum) >= a
        /\ RoundUp(RoundUp(a, Quantum), Quantum) = RoundUp(a, Quantum)
        /\ RoundUp(a, Quantum) <= RoundUp(b, Quantum)
    BY <1>3, <1>7, RoundUpIs, RoundUpGrows
  <1>9. RequiredFee(weight, reward, fork) = RoundUp(a, Quantum)
    BY <1>2 DEF a
  <1>10. RequiredFee(weight + 1, reward, fork) = RoundUp(b, Quantum)
    BY <1>2 DEF b
  <1>11. RequiredFee(weight, reward, fork) >= f
    BY <1>7, <1>8, <1>9
  <1> QED
    BY <1>8, <1>9, <1>10, <1>11 DEF f, QuantizeFee

\* Half the parts of what is needed: the tolerance takes one part at most.
LEMMA PartsMissing ==
    ASSUME NEW needed \in Nat, NEW least \in Nat, least <= needed, NEW fee \in Int,
           NEW t \in Nat \ {0, 1}, fee >= needed - (needed \div t)
    PROVE  fee * t >= least * (t - 1)
  <1> DEFINE q == needed \div t
  <1>1. q \in Int /\ t * q <= needed
    BY QuotientIs
  <1> HIDE DEF q
  <1>2. fee >= needed - q
    BY DEF q
  <1>3. t * fee >= t * (needed - q)
    BY <1>1, <1>2
  <1>4. t * (needed - q) = t * needed - t * q
    BY <1>1
  <1>5. least * (t - 1) <= needed * (t - 1)
    OBVIOUS
  <1>6. needed * (t - 1) = t * needed - needed
    OBVIOUS
  <1>7. fee * t = t * fee
    OBVIOUS
  <1> DEFINE a == t * fee
             b == t * needed
             c == t * q
             d == t * (needed - q)
             e == least * (t - 1)
             f == needed * (t - 1)
  <1>8. a \in Int /\ b \in Int /\ c \in Int /\ d \in Int /\ e \in Int /\ f \in Int
    BY <1>1
  <1>9. a >= d /\ d = b - c /\ e <= f /\ f = b - needed /\ c <= needed
    BY <1>1, <1>3, <1>4, <1>5, <1>6
  <1> HIDE DEF a, b, c, d, e, f
  <1>10. a >= e
    BY <1>8, <1>9
  <1> QED
    BY <1>7, <1>10 DEF a, e

\* The fee that grows as the reward falls: more bytes never cost less.
LEMMA DynamicFeeIs ==
    ASSUME NEW reward \in Nat, NEW weight \in Nat
    PROVE  /\ DynamicFee(reward, weight) \in Nat
           /\ DynamicFee(reward, weight) <= DynamicFee(reward, weight + 1)
  <1> DEFINE g(w) == (BaseFeePerKb * w) \div Kilo
             u(w) == (g(w) * RewardReference) \div reward
  <1>1. BaseFeePerKb \in Nat /\ Kilo \in Nat \ {0} /\ RewardReference \in Nat
    BY FeeRules
  <1>2. g(weight) \in Nat /\ g(weight + 1) \in Nat /\ g(weight) <= g(weight + 1)
    <2> DEFINE x == BaseFeePerKb * weight
               y == BaseFeePerKb * (weight + 1)
    <2>1. x \in Nat /\ y \in Nat
      BY <1>1
    <2>2. y = x + BaseFeePerKb
      BY <1>1
    <2> HIDE DEF x, y
    <2>3. x <= y
      BY <1>1, <2>1, <2>2
    <2> QED
      BY <1>1, <2>1, <2>3, QuotientUp DEF x, y
  <1>3. \A w : DynamicFee(reward, w) = IF reward > 0 THEN Most(g(w), u(w)) ELSE g(w)
    BY DEF DynamicFee
  <1> HIDE DEF g
  <1>4. CASE reward > 0
    <2> DEFINE a == g(weight)
               b == g(weight + 1)
               x == a * RewardReference
               y == b * RewardReference
    <2>1. x \in Nat /\ y \in Nat /\ x <= y
      BY <1>1, <1>2, FactorsGrow
    <2>2. x \div reward \in Nat /\ y \div reward \in Nat /\ x \div reward <= y \div reward
      <3> HIDE DEF x, y
      <3> QED
        BY <1>4, <2>1, QuotientUp
    <2>3. u(weight) = x \div reward /\ u(weight + 1) = y \div reward
      OBVIOUS
    <2> DEFINE c == u(weight)
               d == u(weight + 1)
    <2>4. c \in Nat /\ d \in Nat /\ c <= d
      BY <2>2, <2>3
    <2>5. /\ DynamicFee(reward, weight) = IF a < c THEN c ELSE a
          /\ DynamicFee(reward, weight + 1) = IF b < d THEN d ELSE b
      BY <1>3, <1>4 DEF Most
    <2>6. a \in Nat /\ b \in Nat /\ a <= b
      BY <1>2
    <2> HIDE DEF a, b, c, d
    <2> QED
      BY <2>4, <2>5, <2>6
  <1>5. CASE ~(reward > 0)
    BY <1>2, <1>3, <1>5
  <1> QED
    BY <1>4, <1>5

\* The four fees before they are rounded.
TierIs(x, reward, short, long) ==
    LET least == Least(short, long)
        mfw == IF least > 0 THEN least ELSE RewardZoneV5
    IN  /\ mfw \in Nat \ {0}
        /\ x \in [1 .. 4 -> Nat]
        /\ x[1] = (reward * ReferenceWeight) \div (mfw * mfw)
        /\ least >= RewardZoneV5 => x[1] <= x[2] /\ x[2] <= x[3]
        /\ x[3] <= x[4]
        /\ \A f \in 1 .. 4 : ScaledFees(reward, short, long)[f] = RoundUp(x[f], ScalingRounding)

\* There are such fees, and a higher one is not less while the medians are at least the
\* granted zone.
LEMMA TiersAre ==
    ASSUME NEW reward \in Nat, NEW short \in Nat, NEW long \in Nat
    PROVE  \E x : TierIs(x, reward, short, long)
  <1> DEFINE least == Least(short, long)
             mfw == IF least > 0 THEN least ELSE RewardZoneV5
             mnw == IF short > 0 THEN short ELSE RewardZoneV5
             medium == (16 * reward * ReferenceWeight) \div (RewardZoneV5 * mfw)
             part == (32 * ReferenceWeight * mnw) \div RewardZoneV5
             high == IF part > 0 THEN (4 * medium * mfw) \div part ELSE 4 * medium
             low == (reward * ReferenceWeight) \div (mfw * mfw)
             normal == (4 * reward * ReferenceWeight) \div (mfw * mfw)
             x == [f \in 1 .. 4 |-> CASE f = 1 -> low
                                      [] f = 2 -> normal
                                      [] f = 3 -> medium
                                      [] f = 4 -> Most(high, 4 * medium)]
  <1>1. RewardZoneV5 \in Nat \ {0} /\ ReferenceWeight \in Nat \ {0}
    BY FeeRules
  <1>2. least \in Nat
    BY DEF Least
  <1>3. mfw \in Nat \ {0} /\ mnw \in Nat \ {0} /\ (least >= RewardZoneV5 => mfw = least)
    BY <1>1, <1>2
  <1>4. \A f \in 1 .. 4 : ScaledFees(reward, short, long)[f] = RoundUp(x[f], ScalingRounding)
    <2> HIDE DEF least, low, normal, medium, high
    <2>1. ScaledFees(reward, short, long) = [f \in 1 .. 4 |-> RoundUp(
            CASE f = 1 -> low
              [] f = 2 -> normal
              [] f = 3 -> medium
              [] f = 4 -> Most(high, 4 * medium), ScalingRounding)]
      BY DEF ScaledFees, least, low, normal, medium, high
    <2> QED
      BY <2>1
  <1> DEFINE v == reward * ReferenceWeight
             c == mfw * mfw
             d == RewardZoneV5 * mfw
  <1>5. v \in Nat /\ c \in Nat \ {0} /\ d \in Nat \ {0}
    <2> HIDE DEF mfw
    <2> QED
      BY <1>1, <1>3
  <1>6. 4 * reward * ReferenceWeight = 4 * v /\ 16 * reward * ReferenceWeight = 16 * v
    BY <1>1
  <1>7. low \in Nat /\ normal \in Nat /\ medium \in Nat /\ low <= normal
    <2>1. low = v \div c /\ normal = (4 * v) \div c /\ medium = (16 * v) \div d
      BY <1>6
    <2> HIDE DEF v, c, d, low, normal, medium
    <2>2. v \div c \in Nat /\ (4 * v) \div c \in Nat /\ v \div c <= (4 * v) \div c
      BY <1>5, QuotientUp
    <2>3. (16 * v) \div d \in Nat
      BY <1>5, QuotientUp
    <2> QED
      BY <2>1, <2>2, <2>3
  <1>8. ASSUME least >= RewardZoneV5 PROVE normal <= medium
    <2>1. mfw >= RewardZoneV5
      BY <1>3, <1>8
    <2>2. d <= c
      <3> HIDE DEF mfw
      <3> QED
        BY <1>1, <1>3, <2>1
    <2>3. normal = (4 * v) \div c /\ medium = (16 * v) \div d
      BY <1>6
    <2> HIDE DEF v, c, d, normal, medium
    <2>4. (4 * v) \div c <= (16 * v) \div d
      <3>1. 4 * v \in Nat /\ 16 * v \in Nat /\ 4 * v <= 16 * v
        BY <1>5
      <3> DEFINE y == 4 * v
                 z == 16 * v
      <3> HIDE DEF y, z
      <3>2. y \div c <= z \div d
        BY <1>5, <2>2, <3>1, QuotientUp DEF y, z
      <3> QED
        BY <3>2 DEF y, z
    <2> QED
      BY <2>3, <2>4
  <1>9. high \in Int
    <2> DEFINE e == 32 * ReferenceWeight * mnw
               g == 4 * medium * mfw
    <2> HIDE DEF mfw, mnw, medium
    <2>1. e \in Nat /\ g \in Nat
      BY <1>1, <1>3, <1>7
    <2>2. part = e \div RewardZoneV5 /\ high = IF part > 0 THEN g \div part ELSE 4 * medium
      OBVIOUS
    <2> HIDE DEF e, g, part, high
    <2>3. part \in Nat
      BY <1>1, <2>1, <2>2, QuotientUp
    <2>4. part > 0 => g \div part \in Nat
      BY <2>1, <2>3, QuotientUp
    <2> QED
      BY <1>7, <2>2, <2>4
  <1> HIDE DEF least, mfw, low, normal, medium, high
  <1>10. Most(high, 4 * medium) \in Nat /\ medium <= Most(high, 4 * medium)
    BY <1>7, <1>9 DEF Most
  <1>11. x \in [1 .. 4 -> Nat] /\ x[1] = low /\ x[2] = normal /\ x[3] = medium
         /\ x[4] = Most(high, 4 * medium)
    BY <1>7, <1>10
  <1>12. x[1] = (reward * ReferenceWeight) \div (mfw * mfw)
    BY <1>11 DEF low
  <1>13. /\ mfw \in Nat \ {0}
         /\ least >= RewardZoneV5 => x[1] <= x[2] /\ x[2] <= x[3]
         /\ x[3] <= x[4]
    BY <1>3, <1>7, <1>8, <1>10, <1>11
  <1> HIDE DEF x
  <1> QED
    BY <1>4, <1>11, <1>12, <1>13 DEF TierIs, least, mfw

\* A higher priority never costs less, nor the lowest than the base of a block.
LEMMA TiersRise ==
    ASSUME NEW reward \in Nat, NEW short \in Nat, NEW long \in Nat,
           short >= RewardZoneV5, long >= RewardZoneV5
    PROVE  /\ \A f \in 1 .. 3 : ScaledFees(reward, short, long)[f]
                                    <= ScaledFees(reward, short, long)[f + 1]
           /\ DynamicBaseFee(reward, short) <= ScaledFees(reward, short, long)[1]
  <1> DEFINE least == Least(short, long)
             mfw == IF least > 0 THEN least ELSE RewardZoneV5
             fees == ScaledFees(reward, short, long)
  <1>1. RewardZoneV5 \in Nat \ {0} /\ ReferenceWeight \in Nat \ {0}
        /\ ScalingRounding \in Nat \ {0}
    BY FeeRules
  <1>2. least \in Nat /\ least >= RewardZoneV5 /\ least <= short
    BY <1>1 DEF Least
  <1>3. PICK x : TierIs(x, reward, short, long)
    BY TiersAre
  <1>4. /\ mfw \in Nat \ {0} /\ mfw = least
        /\ x \in [1 .. 4 -> Nat]
        /\ x[1] = (reward * ReferenceWeight) \div (mfw * mfw)
        /\ x[1] <= x[2] /\ x[2] <= x[3] /\ x[3] <= x[4]
        /\ \A f \in 1 .. 4 : fees[f] = RoundUp(x[f], ScalingRounding)
    BY <1>1, <1>2, <1>3 DEF TierIs
  <1> HIDE DEF fees, least, mfw
  <1>5. ASSUME NEW f \in 1 .. 3 PROVE fees[f] <= fees[f + 1]
    <2>1. f \in 1 .. 4 /\ f + 1 \in 1 .. 4 /\ (f = 1 \/ f = 2 \/ f = 3)
      OBVIOUS
    <2>2. x[f] \in Nat /\ x[f + 1] \in Nat /\ x[f] <= x[f + 1]
      BY <1>4, <2>1
    <2>3. RoundUp(x[f], ScalingRounding) <= RoundUp(x[f + 1], ScalingRounding)
      BY <1>1, <2>2, RoundUpGrows
    <2> QED
      BY <1>4, <2>1, <2>3
  <1>6. DynamicBaseFee(reward, short) <= fees[1]
    <2> DEFINE v == reward * ReferenceWeight
               c == short * short
               d == mfw * mfw
               q == v \div c
    <2>1. v \in Nat /\ c \in Nat \ {0} /\ d \in Nat \ {0} /\ d <= c
      <3>1. short \in Nat \ {0} /\ mfw <= short
        BY <1>1, <1>2, <1>4
      <3>2. d <= c
        BY <1>4, <3>1, FactorsGrow
      <3> QED
        BY <1>1, <1>4, <3>1, <3>2
    <2>2. Most(short, RewardZoneV5) = short
      BY <1>1 DEF Most
    <2>3. DynamicBaseFee(reward, short) = q - (q \div 20)
      BY <2>2 DEF DynamicBaseFee
    <2>4. x[1] = v \div d /\ x[1] \in Nat
      BY <1>4
    <2> HIDE DEF v, c, d
    <2>5. q \in Nat /\ q <= x[1]
      <3>1. v <= v
        BY <2>1
      <3>2. v \div c \in Nat /\ v \div c <= v \div d
        BY <2>1, <3>1, QuotientUp
      <3> QED
        BY <2>4, <3>2
    <2> HIDE DEF q
    <2>6. q - (q \div 20) <= x[1]
      BY <2>4, <2>5
    <2>7. fees[1] = RoundUp(x[1], ScalingRounding)
      BY <1>4
    <2>8. RoundUp(x[1], ScalingRounding) \in Nat /\ RoundUp(x[1], ScalingRounding) >= x[1]
      BY <1>1, <2>4, RoundUpIs
    <2> DEFINE r == fees[1]
               b == DynamicBaseFee(reward, short)
    <2>9. r \in Nat /\ r >= x[1] /\ b = q - (q \div 20)
      BY <2>3, <2>7, <2>8
    <2> HIDE DEF r, b
    <2>10. b <= r
      BY <2>4, <2>5, <2>6, <2>9
    <2> QED
      BY <2>10 DEF r, b
  <1> QED
    BY <1>5, <1>6 DEF fees

\* Whatever is asked about a fee, the answer is a number.
LEMMA FeesAreNumbers ==
    ASSUME NEW weight \in Nat, NEW reward \in Nat, NEW median \in Nat, NEW fork \in Nat, fork >= 1
    PROVE  /\ RequiredFee(weight, reward, fork) \in Nat
           /\ ScaledFees(reward, median, median)[1] * weight \in Nat
           /\ MinimumFee(weight, fork) \in Nat
           /\ DynamicFee(reward, weight) \in Nat
  <1>1. PICK x : TierIs(x, reward, median, median)
    BY TiersAre
  <1>2. x[1] \in Nat /\ ScaledFees(reward, median, median)[1] = RoundUp(x[1], ScalingRounding)
    BY <1>1 DEF TierIs
  <1>3. ScaledFees(reward, median, median)[1] \in Nat
    BY <1>2, RoundUpIs, FeeRules
  <1>4. MinimumFee(weight, fork) = weight * FEE_PER_BYTE /\ weight * FEE_PER_BYTE \in Nat
    BY FeeRules DEF MinimumFee
  <1>5. ScaledFees(reward, median, median)[1] * weight \in Nat
    BY <1>3
  <1> QED
    BY <1>4, <1>5, RequiredFeeIs, DynamicFeeIs

\* What fees promise, of a transaction and a fee.
LEMMA FeesArePaid ==
    ASSUME NEW weight \in Nat, NEW reward \in Nat, NEW fork \in Nat, fork >= 1, NEW fee \in Nat
    PROVE  /\ ValidFee(RequiredFee(weight, reward, fork), weight, reward, fork)
           /\ ValidFee(fee, weight, reward, fork) =>
                fee * Tolerance >= MinimumFee(weight, fork) * (Tolerance - 1)
  <1> DEFINE r == RequiredFee(weight, reward, fork)
             least == weight * FEE_PER_BYTE
  <1>1. r \in Nat /\ r >= least /\ least \in Nat /\ Tolerance \in Nat \ {0, 1}
    BY RequiredFeeIs, FeeRules
  <1>2. MinimumFee(weight, fork) = least
    BY DEF MinimumFee
  <1>3. \A f : ValidFee(f, weight, reward, fork) <=> f >= r - (r \div Tolerance)
    BY DEF ValidFee
  <1> HIDE DEF r, least
  <1>4. r >= r - (r \div Tolerance)
    <2> DEFINE q == r \div Tolerance
    <2>1. q \in Nat
      BY <1>1, QuotientUp
    <2> HIDE DEF q
    <2>2. r >= r - q
      BY <1>1, <2>1
    <2> QED
      BY <2>2 DEF q
  <1>5. ValidFee(r, weight, reward, fork)
    BY <1>3, <1>4
  <1>6. ASSUME ValidFee(fee, weight, reward, fork)
        PROVE  fee * Tolerance >= least * (Tolerance - 1)
    <2>1. fee >= r - (r \div Tolerance)
      BY <1>3, <1>6
    <2> QED
      BY <1>1, <2>1, PartsMissing
  <1> QED
    BY <1>2, <1>5, <1>6 DEF r

-----------------------------------------------------------------------------
(***************************************************************************)
(* Admission: what is kept                                                   *)
(***************************************************************************)
\* A transaction, with the fee that was chosen for it.
TxGate ==
    gate \in [kind : {"tx"}, draft : Drafts, fork : Forks, reward : Rewards,
              median : MedianWeights, fee : Nat, passed : BOOLEAN]

\* The transaction of a miner: what has passed keeps the sums and the reward.
MinerGate ==
    /\ gate \in [kind : {"miner", "checked"}, tx : MinerTxs, height : Nat,
                 coins : {Emission(1)}, fee : Nat, passed : BOOLEAN]
    /\ gate.kind = "checked" /\ gate.passed =>
          NoOverflow(gate.tx.amounts) /\ ValidMinerReward(gate.tx, gate.fee, Emission(1))

\* The blocks of a chain.
ChainBlocks == [id : Nat, prev : Nat, height : 0 .. MostBlocks]

\* A chain that goes on in time, with what was open at some block and some time.
ChainGate ==
    /\ gate \in [kind : {"chain"}, blocks : Seq(ChainBlocks), times : Seq(Int), now : Nat,
                 opened : SUBSET Locks]
    /\ Len(gate.blocks) >= 1
    /\ GoesOn(gate.times)
    /\ gate.opened \subseteq OpenOutputs(TopHeight, gate.now)

AdmissionKept == TxGate \/ MinerGate \/ ChainGate

\* The numbers the program asks about.
LEMMA GateRules ==
    /\ Forks \subseteq Nat \ {0} /\ Rewards \subseteq Nat /\ MedianWeights \subseteq Nat
    /\ MinerFees \subseteq Nat /\ TimeSteps \subseteq Int /\ MostBlocks \in Nat
    /\ CheckWindow \in Nat \ {0, 1}
    /\ \A draft \in Drafts : draft.weight \in Nat
    /\ \A t \in MinerTxs : t.amounts \in Seq(Nat)
  BY AdmissionAssumption

\* The first questions.
LEMMA AdmissionStarts ==
    ASSUME AdmissionInit
    PROVE  AdmissionKept
  <1>1. CASE gate = NewChain
    <2>1. GenesisBlock \in ChainBlocks
      BY GateRules DEF GenesisBlock, ChainBlocks
    <2>2. <<GenesisBlock>> \in Seq(ChainBlocks) /\ <<0>> \in Seq(Int) /\ Len(<<GenesisBlock>>) = 1
      BY <2>1
    <2>3. gate \in [kind : {"chain"}, blocks : Seq(ChainBlocks), times : Seq(Int), now : Nat,
                    opened : SUBSET Locks]
      BY <1>1, <2>2 DEF NewChain
    <2>4. GoesOn(<<0>>)
      BY GateRules DEF GoesOn
    <2>5. gate.opened = {} /\ gate.times = <<0>> /\ gate.blocks = <<GenesisBlock>>
      BY <1>1 DEF NewChain
    <2> QED
      BY <2>2, <2>3, <2>4, <2>5 DEF AdmissionKept, ChainGate
  <1>2. ASSUME NEW d \in Drafts, NEW f \in Forks, NEW r \in Rewards, NEW m \in MedianWeights,
               gate = [kind |-> "tx", draft |-> d, fork |-> f, reward |-> r, median |-> m,
                       fee |-> 0, passed |-> FALSE]
        PROVE  TxGate
    BY <1>2 DEF TxGate
  <1>3. ASSUME NEW t \in MinerTxs, gate = MinerCase(t)
        PROVE  MinerGate
    BY <1>3 DEF MinerGate, MinerCase
  <1> QED
    BY <1>1, <1>2, <1>3 DEF AdmissionInit, AdmissionKept

\* The numbers of a transaction.
LEMMA TxNumbers ==
    ASSUME TxGate
    PROVE  /\ gate.draft.weight \in Nat /\ gate.reward \in Nat /\ gate.median \in Nat
           /\ gate.fork \in Nat /\ gate.fork >= 1 /\ gate.fee \in Nat
  <1>1. /\ gate.draft \in Drafts /\ gate.fork \in Forks /\ gate.reward \in Rewards
        /\ gate.median \in MedianWeights /\ gate.fee \in Nat
    BY DEF TxGate
  <1>2. gate.draft.weight \in Nat
    BY <1>1, GateRules
  <1>3. gate.reward \in Nat /\ gate.median \in Nat /\ gate.fork \in Nat \ {0}
    BY <1>1, GateRules
  <1>4. gate.fork \in Nat /\ gate.fork >= 1
    BY <1>3
  <1> QED
    BY <1>1, <1>2, <1>3, <1>4

\* A fee that is asked for is a number.
LEMMA AskFeeKeeps ==
    ASSUME TxGate, AskFee
    PROVE  TxGate'
  <1>1. /\ gate.draft.weight \in Nat /\ gate.reward \in Nat /\ gate.median \in Nat
        /\ gate.fork \in Nat /\ gate.fork >= 1
    BY TxNumbers
  <1>2. PICK fee \in {RequiredFee(gate.draft.weight, gate.reward, gate.fork),
                      ScaledFees(gate.reward, gate.median, gate.median)[1] * gate.draft.weight,
                      MinimumFee(gate.draft.weight, gate.fork),
                      DynamicFee(gate.reward, gate.draft.weight)} :
              gate' = [gate EXCEPT !.fee = fee]
    BY DEF AskFee
  <1>3. fee \in Nat
    <2> DEFINE w == gate.draft.weight
               r == gate.reward
               m == gate.median
               f == gate.fork
    <2>1. w \in Nat /\ r \in Nat /\ m \in Nat /\ f \in Nat /\ f >= 1
      BY <1>1
    <2>2. fee \in {RequiredFee(w, r, f), ScaledFees(r, m, m)[1] * w, MinimumFee(w, f),
                  DynamicFee(r, w)}
      BY <1>2
    <2> HIDE DEF w, r, m, f
    <2>3. /\ RequiredFee(w, r, f) \in Nat /\ ScaledFees(r, m, m)[1] * w \in Nat
          /\ MinimumFee(w, f) \in Nat /\ DynamicFee(r, w) \in Nat
      BY <2>1, FeesAreNumbers
    <2> QED
      BY <2>2, <2>3
  <1> QED
    BY <1>2, <1>3 DEF TxGate

\* A miner transaction that passes keeps the sums and the reward.
LEMMA CheckMinerTxKeeps ==
    ASSUME MinerGate, CheckMinerTx
    PROVE  MinerGate'
  <1>1. PICK fee \in MinerFees, fork \in Forks :
           gate' = [gate EXCEPT !.kind = "checked", !.fee = fee, !.passed =
            /\ PrevalidMinerTx(gate.tx, gate.height, fork)
            /\ ValidMinerReward(gate.tx, fee, gate.coins)]
    BY DEF CheckMinerTx
  <1> DEFINE p == /\ PrevalidMinerTx(gate.tx, gate.height, fork)
                  /\ ValidMinerReward(gate.tx, fee, gate.coins)
  <1>2. p \in BOOLEAN
    OBVIOUS
  <1>3. p => NoOverflow(gate.tx.amounts) /\ ValidMinerReward(gate.tx, fee, gate.coins)
    BY DEF PrevalidMinerTx
  <1>4. gate' = [gate EXCEPT !.kind = "checked", !.fee = fee, !.passed = p]
    BY <1>1
  <1> HIDE DEF p
  <1>5. gate \in [kind : {"miner", "checked"}, tx : MinerTxs, height : Nat,
                  coins : {Emission(1)}, fee : Nat, passed : BOOLEAN]
        /\ fee \in Nat
    BY GateRules DEF MinerGate
  <1>6. gate' \in [kind : {"miner", "checked"}, tx : MinerTxs, height : Nat,
                   coins : {Emission(1)}, fee : Nat, passed : BOOLEAN]
    BY <1>2, <1>4, <1>5
  <1>7. gate'.passed = p /\ gate'.tx = gate.tx /\ gate'.fee = fee /\ gate.coins = Emission(1)
    BY <1>4, <1>5
  <1> QED
    BY <1>3, <1>6, <1>7 DEF MinerGate

\* The height of the last block of a chain.
LEMMA TopIs ==
    ASSUME ChainGate
    PROVE  TopHeight \in 0 .. MostBlocks
  <1>1. gate.blocks \in Seq(ChainBlocks) /\ Len(gate.blocks) >= 1
    BY DEF ChainGate
  <1>2. gate.blocks[Len(gate.blocks)] \in ChainBlocks
    BY <1>1
  <1> QED
    BY <1>2 DEF TopHeight, ChainBlocks

\* The clock opens what it opens.
LEMMA ClockTicksKeeps ==
    ASSUME ChainGate, ClockTicks
    PROVE  ChainGate'
  <1> DEFINE open == OpenOutputs(TopHeight, gate.now)
  <1>1. gate' = [gate EXCEPT !.now = @ + 1, !.opened = @ \union open]
    BY DEF ClockTicks
  <1>2. open \subseteq Locks
    BY DEF OpenOutputs
  <1>3. gate \in [kind : {"chain"}, blocks : Seq(ChainBlocks), times : Seq(Int), now : Nat,
                  opened : SUBSET Locks]
    BY DEF ChainGate
  <1>4. TopHeight \in Nat
    BY TopIs, GateRules
  <1>5. open \subseteq OpenOutputs(TopHeight, gate.now + 1)
    BY <1>3, <1>4, OpenOnceAndForAll
  <1> HIDE DEF open
  <1>6. gate' \in [kind : {"chain"}, blocks : Seq(ChainBlocks), times : Seq(Int), now : Nat,
                   opened : SUBSET Locks]
    <2> DEFINE opened2 == gate.opened \union open
               later == gate.now + 1
    <2>1. opened2 \in SUBSET Locks /\ later \in Nat
      BY <1>2, <1>3
    <2>2. gate' = [gate EXCEPT !.now = later, !.opened = opened2]
      BY <1>1, <1>3
    <2> HIDE DEF opened2, later
    <2> QED
      BY <1>3, <2>1, <2>2
  <1>7. /\ gate'.blocks = gate.blocks /\ gate'.times = gate.times /\ gate'.now = gate.now + 1
        /\ gate'.opened = gate.opened \union open
    BY <1>1, <1>3
  <1>8. TopHeight' = TopHeight
    BY <1>7 DEF TopHeight
  <1>9. gate.opened \subseteq open
    BY DEF ChainGate, open
  <1>10. gate'.opened \subseteq OpenOutputs(TopHeight', gate'.now)
    BY <1>5, <1>7, <1>8, <1>9
  <1> QED
    BY <1>6, <1>7, <1>10 DEF ChainGate

\* A block goes on in height and in time.
LEMMA AppendBlockKeeps ==
    ASSUME ChainGate, AppendBlock
    PROVE  ChainGate'
  <1>1. PICK d \in TimeSteps, before \in 1 .. Len(gate.blocks), height \in 1 .. MostBlocks :
         LET block == [id |-> Len(gate.blocks) + 1, prev |-> before, height |-> height]
             time == gate.now + d
         IN /\ time >= 0 /\ ValidLinkage(block, gate.blocks[Len(gate.blocks)])
            /\ ValidBlockTimestamp(time, gate.times, gate.now)
            /\ gate' = [gate EXCEPT !.blocks = Append(@, block), !.times = Append(@, time),
                                    !.opened = @ \union OpenOutputs(TopHeight, gate.now)]
    BY DEF AppendBlock
  <1> DEFINE block == [id |-> Len(gate.blocks) + 1, prev |-> before, height |-> height]
             time == gate.now + d
             open == OpenOutputs(TopHeight, gate.now)
  <1>2. gate \in [kind : {"chain"}, blocks : Seq(ChainBlocks), times : Seq(Int), now : Nat,
                  opened : SUBSET Locks]
        /\ Len(gate.blocks) >= 1
    BY DEF ChainGate
  <1>3. block \in ChainBlocks
    BY <1>2, GateRules DEF ChainBlocks
  <1>4. time \in Int
    BY <1>2, GateRules
  <1>5. height = TopHeight + 1
    BY <1>1 DEF ValidLinkage, TopHeight
  <1>6. gate' = [gate EXCEPT !.blocks = Append(gate.blocks, block),
                             !.times = Append(gate.times, time),
                             !.opened = gate.opened \union open]
    BY <1>1
  <1>7. Len(gate.times) >= CheckWindow => time > MedianTimestamp(Recent(gate.times))
    BY <1>1 DEF ValidBlockTimestamp
  <1>8. TopHeight \in Nat /\ height \in Nat
    BY TopIs, GateRules
  <1>9. open \subseteq Locks /\ gate.opened \subseteq open
    BY DEF OpenOutputs, ChainGate
  <1>10. open \subseteq OpenOutputs(height, gate.now)
    BY <1>2, <1>5, <1>8, OpenOnceAndForAll
  <1>11. block.height = height
    OBVIOUS
  <1> HIDE DEF block, time, open
  <1>12. /\ Append(gate.blocks, block) \in Seq(ChainBlocks)
         /\ Len(Append(gate.blocks, block)) = Len(gate.blocks) + 1
         /\ Append(gate.blocks, block)[Len(gate.blocks) + 1] = block
    BY <1>2, <1>3
  <1>13. Append(gate.times, time) \in Seq(Int)
    BY <1>2, <1>4
  <1>14. GoesOn(gate.times)
    BY DEF ChainGate
  <1>15. GoesOn(Append(gate.times, time))
    BY <1>2, <1>4, <1>7, <1>14, GoesOnWithMore
  <1> DEFINE blocks2 == Append(gate.blocks, block)
             times2 == Append(gate.times, time)
             opened2 == gate.opened \union open
  <1>16. opened2 \in SUBSET Locks
    BY <1>9
  <1>17. blocks2 \in Seq(ChainBlocks) /\ times2 \in Seq(Int)
    BY <1>12, <1>13
  <1>18. gate' = [gate EXCEPT !.blocks = blocks2, !.times = times2, !.opened = opened2]
    BY <1>6
  <1>19. blocks2[Len(blocks2)].height = height /\ Len(blocks2) >= 1
    BY <1>2, <1>11, <1>12
  <1> HIDE DEF blocks2, times2, opened2
  <1>20. gate' \in [kind : {"chain"}, blocks : Seq(ChainBlocks), times : Seq(Int), now : Nat,
                    opened : SUBSET Locks]
    BY <1>2, <1>16, <1>17, <1>18
  <1>21. /\ gate'.blocks = blocks2 /\ gate'.times = times2 /\ gate'.now = gate.now
         /\ gate'.opened = opened2
    BY <1>2, <1>18
  <1>22. TopHeight' = height
    BY <1>19, <1>21 DEF TopHeight
  <1>23. gate'.opened \subseteq OpenOutputs(TopHeight', gate'.now)
    BY <1>9, <1>10, <1>21, <1>22 DEF opened2
  <1>24. Len(gate'.blocks) >= 1
    BY <1>19, <1>21
  <1>25. GoesOn(gate'.times)
    BY <1>15, <1>21 DEF times2
  <1> QED
    BY <1>20, <1>23, <1>24, <1>25 DEF ChainGate

\* Every step keeps what is kept.
LEMMA AdmissionGoesOn ==
    ASSUME AdmissionKept, [AdmissionNext]_admissionVars
    PROVE  AdmissionKept'
  <1>1. CASE UNCHANGED admissionVars
    <2>1. gate' = gate
      BY <1>1 DEF admissionVars
    <2> QED
      BY <2>1 DEF AdmissionKept, TxGate, MinerGate, ChainGate, TopHeight
  <1>2. CASE AskFee
    <2>1. TxGate
      BY <1>2 DEF AskFee, AdmissionKept, MinerGate, ChainGate
    <2> QED
      BY <1>2, <2>1, AskFeeKeeps DEF AdmissionKept
  <1>3. CASE BlocksPass
    <2>1. TxGate
      BY <1>3 DEF BlocksPass, AdmissionKept, MinerGate, ChainGate
    <2>2. TxGate'
      BY <1>3, <2>1 DEF BlocksPass, TxGate
    <2> QED
      BY <2>2 DEF AdmissionKept
  <1>4. CASE CheckTx
    <2>1. TxGate
      BY <1>4 DEF CheckTx, AdmissionKept, MinerGate, ChainGate
    <2> DEFINE p == /\ ValidShape(gate.draft) /\ ValidTxWeight(gate.draft.weight, gate.fork)
                    /\ ValidFee(gate.fee, gate.draft.weight, gate.reward, gate.fork)
    <2>2. gate' = [gate EXCEPT !.passed = p]
      BY <1>4 DEF CheckTx
    <2>3. p \in BOOLEAN
      OBVIOUS
    <2> HIDE DEF p
    <2>4. TxGate'
      BY <2>1, <2>2, <2>3 DEF TxGate
    <2> QED
      BY <2>4 DEF AdmissionKept
  <1>5. CASE CheckMinerTx
    <2>1. MinerGate
      BY <1>5 DEF CheckMinerTx, AdmissionKept, TxGate, ChainGate
    <2> QED
      BY <1>5, <2>1, CheckMinerTxKeeps DEF AdmissionKept
  <1>6. CASE AppendBlock
    <2>1. ChainGate
      BY <1>6 DEF AppendBlock, AdmissionKept, TxGate, MinerGate
    <2> QED
      BY <1>6, <2>1, AppendBlockKeeps DEF AdmissionKept
  <1>7. CASE ClockTicks
    <2>1. ChainGate
      BY <1>7 DEF ClockTicks, AdmissionKept, TxGate, MinerGate
    <2> QED
      BY <1>7, <2>1, ClockTicksKeeps DEF AdmissionKept
  <1> QED
    BY <1>1, <1>2, <1>3, <1>4, <1>5, <1>6, <1>7 DEF AdmissionNext

\* What is kept is what is promised.
LEMMA AdmissionPromises ==
    ASSUME AdmissionKept
    PROVE  AdmissionHolds
  <1>1. TimeGoesOn
    <2>1. SUFFICES ASSUME ChainGate PROVE TimeGoesOn
      BY DEF AdmissionKept, TxGate, MinerGate, TimeGoesOn
    <2>2. gate.times \in Seq(Int) /\ GoesOn(gate.times)
      BY <2>1 DEF ChainGate
    <2> DEFINE middle(k) ==
                InOrderOfTime(Recent(SubSeq(gate.times, 1, k)), (CheckWindow + 1) \div 2)
    <2>3. ASSUME NEW k \in Nat, k <= Len(gate.times)
          PROVE  middle(k) = Middle(SubSeq(gate.times, 1, k))
      <3>1. SubSeq(gate.times, 1, k) \in Seq(Int)
        BY <2>2, <2>3
      <3>2. Recent(SubSeq(gate.times, 1, k)) = LastOf(SubSeq(gate.times, 1, k), CheckWindow)
        BY <3>1, RecentIs
      <3>3. \A s, i : InOrderOfTime(s, i) = InOrder(s, i)
        BY <3>1, RecentIs
      <3> QED
        BY <3>2, <3>3 DEF Middle
    <2>4. ASSUME NEW n \in CheckWindow .. Len(gate.times) - 1
          PROVE  middle(n) <= middle(n + 1)
      <3>1. n \in Nat /\ n <= Len(gate.times) /\ n + 1 \in Nat /\ n + 1 <= Len(gate.times)
        BY <2>2, GateRules
      <3>2. Middle(SubSeq(gate.times, 1, n)) <= Middle(SubSeq(gate.times, 1, n + 1))
        BY <2>2 DEF GoesOn
      <3> HIDE DEF middle
      <3> QED
        BY <2>3, <3>1, <3>2
    <2> QED
      BY <2>4 DEF TimeGoesOn
  <1>2. UnlockedForGood
    <2>1. SUFFICES ASSUME ChainGate PROVE UnlockedForGood
      BY DEF AdmissionKept, TxGate, MinerGate, UnlockedForGood
    <2>2. gate.opened \subseteq OpenOutputs(TopHeight, gate.now) /\ gate.now \in Nat
      BY <2>1 DEF ChainGate
    <2>3. TopHeight \in 0 .. MostBlocks
      BY <2>1, TopIs
    <2>4. ASSUME NEW made \in 0 .. TopHeight
          PROVE  LET open == IsOutputUnlocked(made + MinedWindow, TopHeight, gate.now)
                 IN /\ IsCoinbaseMature(made, TopHeight) => open
                    /\ open => MeetsMinimumAge(made, TopHeight)
      BY <2>2, <2>3, CoinbasesOpen
    <2> QED
      BY <2>2, <2>4 DEF UnlockedForGood
  <1>3. ForksStay
    BY ForksAreKept
  <1>4. MinersGetTheirDue
    <2>1. SUFFICES ASSUME MinerGate, gate.kind = "checked", gate.passed PROVE MinersGetTheirDue
      BY DEF AdmissionKept, TxGate, ChainGate, MinersGetTheirDue
    <2>2. /\ gate.tx.amounts \in Seq(Nat) /\ gate.fee \in Nat
          /\ NoOverflow(gate.tx.amounts) /\ ValidMinerReward(gate.tx, gate.fee, Emission(1))
      BY <2>1, GateRules DEF MinerGate
    <2>3. TotalOf(gate.tx.amounts, Len(gate.tx.amounts))
              <= Least(MaxMoney, Emission(2) - Emission(1) + gate.fee)
      BY <2>2, MinersArePaid
    <2> QED
      BY <2>3, FirstSubsidies DEF MinersGetTheirDue
  <1>5. FeesPay
    <2>1. SUFFICES ASSUME TxGate PROVE FeesPay
      BY DEF AdmissionKept, MinerGate, ChainGate, FeesPay
    <2> DEFINE w == gate.draft.weight
               r == gate.reward
               f == gate.fork
               fee == gate.fee
    <2>2. w \in Nat /\ r \in Nat /\ f \in Nat /\ f >= 1 /\ fee \in Nat
      BY <2>1, TxNumbers
    <2> HIDE DEF w, r, f, fee
    <2>3. /\ ValidFee(RequiredFee(w, r, f), w, r, f)
          /\ QuantizeFee(RequiredFee(w, r, f)) = RequiredFee(w, r, f)
          /\ ValidFee(fee, w, r, f) => fee * Tolerance >= MinimumFee(w, f) * (Tolerance - 1)
          /\ RequiredFee(w, r, f) <= RequiredFee(w + 1, r, f)
          /\ DynamicFee(r, w) <= DynamicFee(r, w + 1)
      BY <2>2, FeesArePaid, RequiredFeeIs, DynamicFeeIs
    <2> QED
      BY <2>3 DEF FeesPay, w, r, f, fee
  <1>6. TiersInOrder
    <2>1. SUFFICES ASSUME TxGate, gate.median >= RewardZoneV5 PROVE TiersInOrder
      BY DEF AdmissionKept, MinerGate, ChainGate, TiersInOrder
    <2>2. gate.reward \in Nat /\ gate.median \in Nat
      BY <2>1, TxNumbers
    <2>3. ASSUME NEW long \in {m \in MedianWeights : m >= RewardZoneV5}
          PROVE  /\ \A f \in 1 .. 3 : ScaledFees(gate.reward, gate.median, long)[f]
                                        <= ScaledFees(gate.reward, gate.median, long)[f + 1]
                 /\ DynamicBaseFee(gate.reward, gate.median)
                        <= ScaledFees(gate.reward, gate.median, long)[1]
      <3>1. long \in Nat /\ long >= RewardZoneV5
        BY <2>3, GateRules
      <3> QED
        BY <2>1, <2>2, <3>1, TiersRise
    <2> QED
      BY <2>3 DEF TiersInOrder
  <1> QED
    BY <1>1, <1>2, <1>3, <1>4, <1>5, <1>6 DEF AdmissionHolds

\* For any networks, rules of fees, amounts, times and blocks: the middle of the last times
\* never falls, what was unlocked stays so, forks stay active, a miner gets no more than the
\* subsidy and the fees, what is asked for as a fee is accepted and what is accepted pays for
\* the bytes, and a higher priority never costs less.
THEOREM WhatIsLetInIsRight == AdmissionSpec => []AdmissionHolds
  <1>1. AdmissionInit => AdmissionKept
    BY AdmissionStarts
  <1>2. AdmissionKept /\ [AdmissionNext]_admissionVars => AdmissionKept'
    BY AdmissionGoesOn
  <1>3. AdmissionKept => AdmissionHolds
    BY AdmissionPromises
  <1> QED
    BY <1>1, <1>2, <1>3, PTL DEF AdmissionSpec

-----------------------------------------------------------------------------
(***************************************************************************)
(* Enotes: what sets of records are worth                                    *)
(***************************************************************************)
\* Lists of the same amounts are worth the same.
LEMMA EqualAmounts ==
    ASSUME NEW s, NEW t, Amounts(s), Amounts(t), Len(s) = Len(t),
           \A i \in 1 .. Len(s) : s[i].amount = t[i].amount
    PROVE  Worth(s) = Worth(t)
  <1>1. PICK f : Sums(f, s)
    BY SumExists
  <1>2. Sums(f, t)
    BY <1>1 DEF Sums
  <1> QED
    BY <1>1, <1>2, WorthIsSum

\* What f makes of the elements of S.
Carried(f, S) == {f[x] : x \in S}

\* What is carried over one by one with its amount is worth the same.
LEMMA CarriedOver ==
    ASSUME NEW S, NEW T, NEW f \in [S -> T], IsFiniteSet(T), HaveAmounts(T),
           \A x \in S : f[x].amount = x.amount,
           \A x, y \in S : f[x] = f[y] => x = y
    PROVE  /\ IsFiniteSet(S) /\ HaveAmounts(S) /\ Value(S) \in Int
           /\ Carried(f, S) \in SUBSET T /\ IsFiniteSet(Carried(f, S))
           /\ Value(Carried(f, S)) = Value(S)
  <1> DEFINE I == {f[x] : x \in S}
             s == SetToSeq(S)
             n == Len(s)
             t == [i \in 1 .. n |-> f[s[i]]]
  <1>1. I \in SUBSET T
    OBVIOUS
  <1>2. IsFiniteSet(I)
    BY <1>1, FS_Subset
  <1>3. f \in Injection(S, T)
    BY DEF Injection, IsInjective
  <1>4. IsFiniteSet(S)
    BY <1>3, FS_Injection
  <1>5. HaveAmounts(S) /\ HaveAmounts(I)
    BY DEF HaveAmounts
  <1>6. Lists(s, S)
    BY <1>4, SetIsListed
  <1> HIDE DEF s
  <1>7. /\ n \in Nat /\ s \in [1 .. n -> S] /\ (\A i, j \in 1 .. n : s[i] = s[j] => i = j)
        /\ \A x \in S : \E i \in 1 .. n : s[i] = x
    BY <1>6 DEF Lists
  <1> HIDE DEF n
  <1>8. t \in [1 .. n -> I] /\ \A i \in 1 .. n : t[i] = f[s[i]]
    BY <1>7
  <1>9. Amounts(t) /\ Len(t) = n /\ Amounts(s) /\ Len(s) = n
    BY <1>5, <1>7, <1>8, ListHasAmounts
  <1> HIDE DEF t
  <1>10. Lists(t, I)
    <2>1. \A i, j \in 1 .. n : t[i] = t[j] => i = j
      BY <1>7, <1>8
    <2>2. \A x \in I : \E i \in 1 .. n : t[i] = x
      BY <1>7, <1>8
    <2> QED
      BY <1>7, <1>8, <1>9, <2>1, <2>2 DEF Lists
  <1>11. \A i \in 1 .. n : s[i].amount = t[i].amount
    BY <1>7, <1>8
  <1>12. Worth(s) = Worth(t)
    BY <1>9, <1>11, EqualAmounts
  <1>13. Value(S) = Worth(s) /\ Value(S) \in Int
    BY <1>5, <1>6, ValueOfList
  <1>14. Value(I) = Worth(t)
    BY <1>5, <1>10, ValueOfList
  <1> QED
    BY <1>1, <1>2, <1>4, <1>5, <1>12, <1>13, <1>14 DEF Carried

\* Nothing is worth nothing, and one record its amount.
LEMMA ValueOfFew ==
    /\ Value({}) = 0
    /\ \A x : x.amount \in Int => Value({x}) = x.amount
  <1>1. HaveAmounts({}) /\ Lists(<<>>, {})
    BY DEF HaveAmounts, Lists
  <1>2. Value({}) = 0
    BY <1>1, ValueOfList, WorthOfNone
  <1>3. ASSUME NEW x, x.amount \in Int PROVE Value({x}) = x.amount
    <2>1. HaveAmounts({x}) /\ Lists(<<x>>, {x})
      BY <1>3 DEF HaveAmounts, Lists
    <2>2. Value({x}) = Worth(<<x>>)
      BY <2>1, ValueOfList
    <2> QED
      BY <1>3, <2>2, WorthOfOne
  <1> QED
    BY <1>2, <1>3

\* A list of naturals is worth a natural.
LEMMA WorthIsNat ==
    ASSUME NEW s, Amounts(s), \A i \in 1 .. Len(s) : s[i].amount \in Nat
    PROVE  Worth(s) \in Nat
  <1>1. PICK f : Sums(f, s)
    BY SumExists
  <1> DEFINE n == Len(s)
             T == {m \in Nat : m <= n => f[m] \in Nat}
  <1>2. n \in Nat /\ f[0] = 0 /\ (\A i \in 1 .. n : f[i] = f[i - 1] + s[i].amount)
        /\ \A i \in 1 .. n : s[i].amount \in Nat
    BY <1>1 DEF Amounts, Sums
  <1> HIDE DEF n
  <1>3. 0 \in T
    BY <1>2
  <1>4. ASSUME NEW m \in Nat, m \in T PROVE m + 1 \in T
    <2>1. SUFFICES ASSUME m + 1 <= n PROVE f[m + 1] \in Nat
      OBVIOUS
    <2>2. m + 1 \in 1 .. n /\ (m + 1) - 1 = m /\ f[m] \in Nat
      BY <1>2, <1>4, <2>1
    <2> QED
      BY <1>2, <2>2
  <1>5. n \in T
    BY <1>2, <1>3, <1>4, InductiveSet
  <1> QED
    BY <1>1, <1>2, <1>5, WorthIsSum DEF n

\* A part is worth no more than the whole.
LEMMA PartIsWorthLess ==
    ASSUME NEW T, IsFiniteSet(T), \A x \in T : x.amount \in Nat, NEW S \in SUBSET T
    PROVE  Value(S) <= Value(T) /\ Value(S) \in Int /\ Value(T) \in Int
  <1> DEFINE R == T \ S
             r == SetToSeq(R)
  <1>1. R \in SUBSET T /\ S \union R = T /\ S \intersect R = {}
    OBVIOUS
  <1>2. IsFiniteSet(S) /\ IsFiniteSet(R)
    BY <1>1, FS_Subset
  <1>3. HaveAmounts(S) /\ HaveAmounts(R) /\ HaveAmounts(T)
    BY DEF HaveAmounts
  <1>4. Lists(r, R)
    BY <1>2, SetIsListed
  <1>5. Value(R) = Worth(r)
    BY DEF Value
  <1> HIDE DEF r
  <1>6. Len(r) \in Nat /\ r \in [1 .. Len(r) -> R]
    BY <1>4 DEF Lists
  <1>7. \A i \in 1 .. Len(r) : r[i].amount \in Nat
    BY <1>6
  <1>8. Amounts(r)
    BY <1>3, <1>6, ListHasAmounts
  <1>9. Value(R) \in Nat
    BY <1>5, <1>7, <1>8, WorthIsNat
  <1> HIDE DEF R
  <1>10. Value(T) = Value(S) + Value(R) /\ Value(S) \in Int
    BY <1>1, <1>2, <1>3, ValueOfBoth
  <1> QED
    BY <1>9, <1>10

\* What is added up one record after another, in whatever order, is the value.
LEMMA AmountIsValue ==
    ASSUME NEW S, IsFiniteSet(S), HaveAmounts(S)
    PROVE  AmountOf(S) = Value(S)
  <1> DEFINE Pick(T) == CHOOSE r \in T : TRUE
             Flat(f) == f = [T \in SUBSET S |->
                                IF T = {} THEN 0 ELSE Pick(T).amount + f[T \ {Pick(T)}]]
             c == CHOOSE f : Flat(f)
             v == [T \in SUBSET S |-> Value(T)]
             M == {n \in Nat : \A T \in SUBSET S : Cardinality(T) = n => c[T] = Value(T)}
  <1>1. ASSUME NEW T \in SUBSET S, T # {}
        PROVE  /\ Pick(T) \in T /\ T \ {Pick(T)} \in SUBSET S
               /\ IsFiniteSet(T) /\ Cardinality(T \ {Pick(T)}) = Cardinality(T) - 1
               /\ Value(T) = Pick(T).amount + Value(T \ {Pick(T)})
    <2> DEFINE x == Pick(T)
               R == T \ {x}
    <2>1. x \in T
      BY <1>1
    <2> HIDE DEF x
    <2>2. R \in SUBSET S /\ T \in SUBSET S /\ {x} \union R = T /\ {x} \intersect R = {}
      BY <2>1
    <2>3. IsFiniteSet(T) /\ IsFiniteSet(R)
      BY <2>2, FS_Subset
    <2>4. Cardinality(R) = Cardinality(T) - 1
      BY <2>1, <2>3, FS_RemoveElement
    <2> HIDE DEF R
    <2>5. HaveAmounts(R) /\ HaveAmounts({x}) /\ IsFiniteSet({x}) /\ x.amount \in Int
      BY <2>1, <2>2, FS_Singleton DEF HaveAmounts
    <2>6. Value(T) = Value({x}) + Value(R)
      BY <2>2, <2>3, <2>5, ValueOfBoth
    <2>7. Value({x}) = x.amount
      BY <2>5, ValueOfFew
    <2> QED
      BY <2>1, <2>2, <2>3, <2>4, <2>6, <2>7 DEF R, x
  <1> HIDE DEF Pick
  <1>2. \A T \in SUBSET S :
           v[T] = IF T = {} THEN 0 ELSE Pick(T).amount + v[T \ {Pick(T)}]
    <2>1. v[{}] = 0
      BY ValueOfFew
    <2>2. ASSUME NEW T \in SUBSET S, T # {} PROVE v[T] = Pick(T).amount + v[T \ {Pick(T)}]
      <3>1. v[T] = Value(T) /\ v[T \ {Pick(T)}] = Value(T \ {Pick(T)})
        BY <1>1, <2>2
      <3> QED
        BY <1>1, <2>2, <3>1
    <2> QED
      BY <2>1, <2>2
  <1>3. Flat(v)
    <2> DEFINE g == [T \in SUBSET S |-> IF T = {} THEN 0 ELSE Pick(T).amount + v[T \ {Pick(T)}]]
    <2>1. \A T \in SUBSET S : g[T] = v[T]
      BY <1>2
    <2>2. v = [T \in SUBSET S |-> v[T]] /\ g = [T \in SUBSET S |-> g[T]]
      OBVIOUS
    <2>3. [T \in SUBSET S |-> g[T]] = [T \in SUBSET S |-> v[T]]
      BY <2>1, Zenon
    <2> HIDE DEF v, g
    <2>4. v = g
      BY <2>2, <2>3
    <2> QED
      BY <2>4 DEF g
  <1> HIDE DEF v
  <1>4. Flat(c)
    BY <1>3
  <1>5. AmountOf(S) = c[S]
    BY DEF AmountOf, Pick
  <1> HIDE DEF c
  <1>6. c[{}] = 0 /\ \A T \in SUBSET S : T # {} => c[T] = Pick(T).amount + c[T \ {Pick(T)}]
    BY <1>4
  <1>7. 0 \in M
    <2>1. ASSUME NEW T \in SUBSET S, Cardinality(T) = 0 PROVE c[T] = Value(T)
      <3>1. T = {}
        BY <2>1, FS_Subset, FS_EmptySet
      <3> QED
        BY <1>6, <3>1, ValueOfFew
    <2> QED
      BY <2>1
  <1>8. ASSUME NEW n \in Nat, n \in M PROVE n + 1 \in M
    <2>1. ASSUME NEW T \in SUBSET S, Cardinality(T) = n + 1 PROVE c[T] = Value(T)
      <3>1. T # {}
        BY <2>1, FS_EmptySet
      <3>2. Cardinality(T \ {Pick(T)}) = n
        BY <1>1, <2>1, <3>1
      <3>3. c[T \ {Pick(T)}] = Value(T \ {Pick(T)})
        BY <1>1, <1>8, <3>1, <3>2
      <3> QED
        BY <1>1, <1>6, <3>1, <3>3
    <2> QED
      BY <2>1
  <1>9. Cardinality(S) \in M
    BY <1>7, <1>8, InductiveSet, FS_CardinalityType
  <1> QED
    BY <1>5, <1>9

\* So is what is added up along a list.
LEMMA AmountIsWorth == \A s : AmountIn(s) = Worth(s)
  BY DEF AmountIn, Worth

\* The places of a list, with what each holds of the amounts.
Numbered(n, s) == {[at |-> <<n, i>>, amount |-> s[i].amount] : i \in DOMAIN s}

\* They are worth what the list is.
LEMMA NumberedWorth ==
    ASSUME NEW n, NEW s, Amounts(s)
    PROVE  /\ IsFiniteSet(Numbered(n, s)) /\ HaveAmounts(Numbered(n, s))
           /\ Value(Numbered(n, s)) = Worth(s)
  <1> DEFINE N == Numbered(n, s)
             m == Len(s)
             t == [i \in 1 .. m |-> [at |-> <<n, i>>, amount |-> s[i].amount]]
  <1>1. m \in Nat /\ DOMAIN s = 1 .. m /\ \A i \in 1 .. m : s[i].amount \in Int
    BY DEF Amounts
  <1>2. HaveAmounts(N)
    BY <1>1 DEF HaveAmounts, Numbered
  <1> HIDE DEF m
  <1>3. \A i \in 1 .. m : t[i].at = <<n, i>> /\ t[i].amount = s[i].amount
    OBVIOUS
  <1>4. t \in [1 .. m -> N]
    BY <1>1 DEF Numbered
  <1>5. \A x \in N : \E i \in 1 .. m : t[i] = x
    BY <1>1 DEF Numbered
  <1>6. \A i, j \in 1 .. m : t[i] = t[j] => i = j
    <2>1. ASSUME NEW i \in 1 .. m, NEW j \in 1 .. m, t[i] = t[j] PROVE i = j
      <3>1. <<n, i>> = <<n, j>>
        BY <1>3, <2>1
      <3> QED
        BY <3>1
    <2> QED
      BY <2>1
  <1> HIDE DEF t, N
  <1>7. Amounts(t) /\ Len(t) = m
    BY <1>1, <1>2, <1>4, ListHasAmounts
  <1>8. Lists(t, N)
    BY <1>1, <1>4, <1>5, <1>6, <1>7 DEF Lists
  <1>9. Worth(t) = Worth(s)
    BY <1>1, <1>3, <1>7, EqualAmounts DEF m
  <1>10. IsFiniteSet(N) /\ Value(N) = Worth(t)
    BY <1>2, <1>8, ValueOfList
  <1> QED
    BY <1>2, <1>9, <1>10 DEF N

-----------------------------------------------------------------------------
(***************************************************************************)
(* Enotes: what is kept                                                      *)
(***************************************************************************)
\* Output i of transaction n, tx, made to pay p by one of the two functions.
MadeFor(tx, n, i, p) ==
    IF tx.era = "cn" THEN LegacyEnote(n, i, p) ELSE CarrotEnote(n, tx.pub, tx.used, i, p)

PaidOut == [to : Places, amount : Nat, kind : {"payment", "change", "coinbase"}]

\* Transaction n: its ephemeral key and its outputs are made with one nonce, and only
\* a miner's transaction spends nothing.
TxMade(n, tx) ==
    /\ tx.era \in {"cn", "carrot"} /\ tx.lead \in Places
    /\ tx.pub = IF tx.era = "cn" THEN Point(Generator, {n}) ELSE EphemeralKey(n, tx.lead)
    /\ IsFiniteSet(tx.outs)
    /\ \A o \in tx.outs :
          /\ o.index \in Nat /\ o.paid \in PaidOut /\ o = MadeFor(tx, n, o.index, o.paid)
          /\ o.paid.kind = "coinbase" <=> tx.images = {}
    /\ \A o, p \in tx.outs : o.index = p.index => o = p

\* Transaction n of ledger l spends outputs of transactions before it.
SpendsEarlier(l, n) ==
    \A image \in l[n].images : \E m \in 1 .. n - 1 : \E o \in l[m].outs : image = <<m, o.index>>

\* One of the first k transactions of l has spent the output.
SpentUpTo(l, k, image) == \E m \in 1 .. k : image \in l[m].images

\* Wallet w recognises output o of tx.
OwnOutput(w, tx, o) == Recognised(w, tx, o, {})

\* The name of a key image, and the record of an output, from the transaction.
ImageIn(n, tx, o) == <<n, Min({p.index : p \in {q \in tx.outs : q.key = o.key}})>>
RecordIn(w, n, tx, o) ==
    [image |-> ImageIn(n, tx, o), sub |-> o.key.spend.sub, amount |-> o.paid.amount,
     carrot |-> tx.era = "carrot", committed |-> tx.images # {}, spent |-> FALSE,
     mask |-> CASE tx.era = "carrot" ->
                     MaskOf(SecretFor(w, tx, o), o.paid.amount, o.key.spend, "payment")
                [] tx.era = "cn" /\ tx.images = {} -> UnitMask
                [] OTHER -> MaskOf(SecretFor(w, tx, o), 0, Generator, "payment")]

LEMMA RecordOfIs ==
    /\ \A w, n, o : RecordOf(w, n, o) = RecordIn(w, n, ledger[n], o)
    /\ \A n, o : Image(n, o) = ImageIn(n, ledger[n], o)
  BY DEF RecordOf, RecordIn, Image, ImageIn

\* r is the record of output o, spent or not.
Records(w, n, tx, o, r) == r = [RecordIn(w, n, tx, o) EXCEPT !.spent = r.spent]

\* Wallet w has recorded what it recognises in the first k transactions of l, and
\* marked what is spent there.
TableFits(l, w, k, table) ==
    /\ \A r \in table :
          /\ \E n \in 1 .. k : \E o \in l[n].outs :
                OwnOutput(w, l[n], o) /\ Records(w, n, l[n], o, r)
          /\ r.spent = SpentUpTo(l, k, r.image)
    /\ \A n \in 1 .. k : \A o \in l[n].outs :
          OwnOutput(w, l[n], o) => \E r \in table : Records(w, n, l[n], o, r)

\* The outputs that no transaction of l spends.
Place(n, o) == [at |-> <<n, o.index>>, amount |-> o.paid.amount]
Left(l, n) ==
    {Place(n, o) : o \in {q \in l[n].outs : ~SpentUpTo(l, Len(l), <<n, q.index>>)}}
UnspentIn(l) == UNION {Left(l, n) : n \in 1 .. Len(l)}

MinersIn(l) == {n \in DOMAIN l : l[n].images = {}}

\* A ledger: what is unspent is worth what was mined.
LedgerFits(l) ==
    /\ \E S : l \in Seq(S)
    /\ \A n \in 1 .. Len(l) : TxMade(n, l[n]) /\ SpendsEarlier(l, n)
    /\ IsFiniteSet(UnspentIn(l)) /\ Value(UnspentIn(l)) = Coin * Cardinality(MinersIn(l))

\* The inductive invariant.
EnotesKept ==
    /\ era \in {"cn", "carrot"} /\ LedgerFits(ledger)
    /\ scanned \in [Holders -> 0 .. Len(ledger)] /\ tables = [w \in Holders |-> tables[w]]
    /\ \A w \in Holders : TableFits(ledger, w, scanned[w], tables[w])

\* The ledger after one more transaction.
LEMMA LedgerMore ==
    ASSUME NEW S, NEW l \in Seq(S), NEW e
    PROVE  /\ Append(l, e) \in Seq(S \union {e}) /\ Len(l) \in Nat /\ DOMAIN l = 1 .. Len(l)
           /\ Len(Append(l, e)) = Len(l) + 1 /\ DOMAIN Append(l, e) = 1 .. Len(l) + 1
           /\ \A i \in 1 .. Len(l) : Append(l, e)[i] = l[i]
           /\ Append(l, e)[Len(l) + 1] = e
  <1>1. l \in Seq(S \union {e}) /\ e \in S \union {e}
    OBVIOUS
  <1> QED
    BY <1>1, AppendProperties, LenProperties

\* What a key of an output is made of.
LEMMA KeyParts ==
    \A spend, secret, commitment :
        /\ OnetimeKey(spend, secret, commitment).spend = spend
        /\ OnetimeKey(spend, secret, commitment).secret = secret
        /\ OnetimeKey(spend, secret, commitment).commitment = commitment
  BY DEF OnetimeKey

\* What outputs of one key have in common; a legacy output shares its key with none.
LEMMA TwinsAre ==
    ASSUME NEW n, NEW tx, TxMade(n, tx), NEW o \in tx.outs, NEW p \in tx.outs, o.key = p.key
    PROVE  /\ o.paid.to = p.paid.to /\ o.paid.amount = p.paid.amount
           /\ tx.era = "cn" => o = p
           /\ o.key.spend = o.paid.to
  <1>1. /\ o = MadeFor(tx, n, o.index, o.paid) /\ p = MadeFor(tx, n, p.index, p.paid)
        /\ \A q, r \in tx.outs : q.index = r.index => q = r
    BY DEF TxMade
  <1> DEFINE i == o.index
             j == p.index
             a == o.paid
             b == p.paid
  <1>2. o = MadeFor(tx, n, i, a) /\ p = MadeFor(tx, n, j, b)
    BY <1>1
  <1>3. (i = j => o = p)
    BY <1>1
  <1> HIDE DEF i, j, a, b
  <1>4. CASE tx.era = "cn"
    <2> DEFINE s == LegacySecret(Multiplied(ViewKey(a.to), n), i)
               t == LegacySecret(Multiplied(ViewKey(b.to), n), j)
    <2>1. o.key = OnetimeKey(a.to, s, NoCommitment) /\ p.key = OnetimeKey(b.to, t, NoCommitment)
      BY <1>2, <1>4 DEF MadeFor, LegacyEnote
    <2>2. s.index = i /\ t.index = j
      BY DEF LegacySecret, NoSecret
    <2> HIDE DEF s, t
    <2>3. o.key.spend = a.to /\ o.key.secret = s
      BY <2>1, KeyParts
    <2>4. OnetimeKey(b.to, t, NoCommitment).spend = b.to /\ OnetimeKey(b.to, t, NoCommitment).secret = t
      BY KeyParts
    <2>5. o.key.spend = b.to /\ o.key.secret = t
      BY <2>1, <2>4
    <2>6. i = j /\ a.to = b.to
      BY <2>2, <2>3, <2>5
    <2> QED
      BY <1>3, <2>3, <2>6 DEF a, b
  <1>5. CASE tx.era # "cn"
    <2> DEFINE s(x) == CarrotSecret(Multiplied(ViewKey(x.to), n), tx.pub, tx.used)
               m(x) == IF x.kind = "coinbase" THEN UnitMask
                       ELSE MaskOf(s(x), x.amount, x.to, x.kind)
               c == Commitment(a.amount, m(a))
               d == Commitment(b.amount, m(b))
               u == s(a)
               v == s(b)
    <2>1. o.key = OnetimeKey(a.to, u, c) /\ p.key = OnetimeKey(b.to, v, d)
      BY <1>2, <1>5 DEF MadeFor, CarrotEnote
    <2>2. c.amount = a.amount /\ d.amount = b.amount
      BY DEF Commitment
    <2> HIDE DEF u, v, c, d
    <2>3. o.key.spend = a.to /\ o.key.commitment = c
      BY <2>1, KeyParts
    <2>4. OnetimeKey(b.to, v, d).spend = b.to /\ OnetimeKey(b.to, v, d).commitment = d
      BY KeyParts
    <2>5. o.key.spend = b.to /\ o.key.commitment = d
      BY <2>1, <2>4
    <2>6. a.to = b.to /\ a.amount = b.amount
      BY <2>2, <2>3, <2>5
    <2> QED
      BY <1>5, <2>3, <2>6 DEF a, b
  <1> QED
    BY <1>4, <1>5

\* A key image is named by the first output of its key.
LEMMA ImageIs ==
    ASSUME NEW n, NEW tx, TxMade(n, tx), NEW o \in tx.outs
    PROVE  \E p \in tx.outs :
               /\ p.key = o.key /\ ImageIn(n, tx, o) = <<n, p.index>>
               /\ (CHOOSE q \in tx.outs : q.index = p.index) = p
  <1> DEFINE K == {q \in tx.outs : q.key = o.key}
             I == {p.index : p \in K}
  <1>1. /\ IsFiniteSet(tx.outs) /\ \A q \in tx.outs : q.index \in Nat
        /\ \A p, q \in tx.outs : p.index = q.index => p = q
    BY DEF TxMade
  <1>2. K \in SUBSET tx.outs /\ o \in K
    OBVIOUS
  <1>3. IsFiniteSet(K)
    BY <1>1, <1>2, FS_Subset
  <1>4. [p \in K |-> p.index] \in Surjection(K, I)
    BY DEF Surjection
  <1>5. IsFiniteSet(I)
    BY <1>3, <1>4, FS_Surjection
  <1>6. I \subseteq Int /\ I # {}
    BY <1>1, <1>2
  <1>7. PICK x \in I : \A y \in I : x <= y
    BY <1>5, <1>6, SetHasEnds
  <1>8. Min(I) \in I
    BY <1>7 DEF Min
  <1>9. PICK p \in K : p.index = Min(I)
    BY <1>8
  <1>10. ImageIn(n, tx, o) = <<n, Min(I)>>
    BY DEF ImageIn
  <1> HIDE DEF I
  <1>11. (CHOOSE q \in tx.outs : q.index = p.index) = p
    BY <1>1
  <1> QED
    BY <1>9, <1>10, <1>11

\* Records of one image are the same record.
LEMMA OneRecord ==
    ASSUME NEW w, NEW n, NEW tx, TxMade(n, tx), NEW o \in tx.outs, NEW p \in tx.outs,
           ImageIn(n, tx, o) = ImageIn(n, tx, p)
    PROVE  RecordIn(w, n, tx, o) = RecordIn(w, n, tx, p)
  <1>1. PICK q \in tx.outs : q.key = o.key /\ ImageIn(n, tx, o) = <<n, q.index>>
    BY ImageIs
  <1>2. PICK r \in tx.outs : r.key = p.key /\ ImageIn(n, tx, p) = <<n, r.index>>
    BY ImageIs
  <1>3. q.index = r.index
    <2>1. <<n, q.index>> = <<n, r.index>>
      BY <1>1, <1>2
    <2> QED
      BY <2>1
  <1>4. q = r
    BY <1>3 DEF TxMade
  <1>5. o.key = p.key
    BY <1>1, <1>2, <1>4
  <1>6. o.paid.amount = p.paid.amount /\ (tx.era = "cn" => o = p)
    BY <1>5, TwinsAre
  <1>7. CASE tx.era = "cn"
    BY <1>6, <1>7
  <1>8. CASE tx.era # "cn"
    <2>1. SecretFor(w, tx, o) = SecretFor(w, tx, p)
      BY <1>8 DEF SecretFor
    <2> QED
      BY <1>5, <1>6, <2>1 DEF RecordIn
  <1> QED
    BY <1>7, <1>8

\* Two scalars multiply a base to the same point, in either order.
LEMMA PointsMeet ==
    \A base, x, y : Multiplied(Point(base, {x}), y) = Multiplied(Point(base, {y}), x)
  <1>1. ASSUME NEW base, NEW x, NEW y
        PROVE  Multiplied(Point(base, {x}), y) = Multiplied(Point(base, {y}), x)
    <2> DEFINE both == {x, y}
    <2>1. {x} \cup {y} = both /\ {y} \cup {x} = both
      OBVIOUS
    <2>2. Multiplied(Point(base, {x}), y) = Point(base, {x} \cup {y})
      BY DEF Multiplied, Point
    <2>3. Multiplied(Point(base, {y}), x) = Point(base, {y} \cup {x})
      BY DEF Multiplied, Point
    <2> HIDE DEF both
    <2>4. Multiplied(Point(base, {x}), y) = Point(base, both)
      BY <2>1, <2>2
    <2>5. Multiplied(Point(base, {y}), x) = Point(base, both)
      BY <2>1, <2>3
    <2> QED
      BY <2>4, <2>5
  <1> QED
    BY <1>1

\* What sender and receiver agree about, the receiver derives as the sender did.
LEMMA BothAgree ==
    ASSUME NEW n, NEW tx, TxMade(n, tx), NEW o \in tx.outs, Agreed(tx, o)
    PROVE  o.key.secret = SecretFor(o.paid.to.owner, tx, o)
  <1> DEFINE a == o.paid
             w == a.to.owner
             i == o.index
  <1>1. /\ o = MadeFor(tx, n, i, a) /\ tx.used = tx.stored
        /\ tx.pub = IF tx.era = "cn" THEN Point(Generator, {n}) ELSE EphemeralKey(n, tx.lead)
    BY DEF TxMade, Agreed
  <1>2. CASE tx.era = "cn"
    <2> DEFINE s == LegacySecret(Multiplied(ViewKey(a.to), n), i)
    <2>1. o.key = OnetimeKey(a.to, s, NoCommitment)
      BY <1>1, <1>2 DEF MadeFor, LegacyEnote
    <2>2. o.key.secret = s
      BY <2>1, KeyParts
    <2>3. a.to.sub = 0
      BY <1>2 DEF Agreed
    <2>4. ViewKey(a.to) = Point(Generator, {w})
      BY <2>3 DEF ViewKey
    <2>5. tx.pub = Point(Generator, {n})
      BY <1>1, <1>2
    <2>6. Multiplied(ViewKey(a.to), n) = Multiplied(tx.pub, w)
      BY <2>4, <2>5, PointsMeet
    <2>7. SecretFor(w, tx, o) = LegacySecret(Multiplied(tx.pub, w), i)
      BY <1>2 DEF SecretFor
    <2> QED
      BY <2>2, <2>6, <2>7
  <1>3. CASE tx.era # "cn"
    <2> DEFINE s == CarrotSecret(Multiplied(ViewKey(a.to), n), tx.pub, tx.used)
               c == Commitment(a.amount, IF a.kind = "coinbase" THEN UnitMask
                                         ELSE MaskOf(s, a.amount, a.to, a.kind))
               base == IF tx.lead.sub = 0 THEN Generator ELSE tx.lead
    <2>1. o.key = OnetimeKey(a.to, s, c)
      BY <1>1, <1>3 DEF MadeFor, CarrotEnote
    <2> HIDE DEF c
    <2>2. o.key.secret = s
      BY <2>1, KeyParts
    <2>3. a.to = tx.lead \/ (a.to.sub = 0 /\ tx.lead.sub = 0)
      BY <1>3 DEF Agreed
    <2>4. ViewKey(a.to) = Point(base, {w})
      BY <2>3 DEF ViewKey
    <2>5. tx.pub = Point(base, {n})
      BY <1>1, <1>3 DEF EphemeralKey
    <2> HIDE DEF base
    <2>6. Multiplied(ViewKey(a.to), n) = Multiplied(tx.pub, w)
      BY <2>4, <2>5, PointsMeet
    <2>7. SecretFor(w, tx, o) = CarrotSecret(Multiplied(tx.pub, w), tx.pub, tx.stored)
      BY <1>3 DEF SecretFor
    <2> QED
      BY <1>1, <2>2, <2>6, <2>7
  <1> QED
    BY <1>2, <1>3

\* The record of such an output opens its commitment, except CARROT change and a
\* CARROT coinbase.
LEMMA MaskOpens ==
    ASSUME NEW n, NEW tx, TxMade(n, tx), NEW o \in tx.outs, NEW w,
           o.key.secret = SecretFor(w, tx, o), tx.era = "cn" \/ o.paid.kind = "payment"
    PROVE  o.commitment = Commitment(RecordIn(w, n, tx, o).amount, RecordIn(w, n, tx, o).mask)
  <1> DEFINE a == o.paid
             i == o.index
             r == RecordIn(w, n, tx, o)
             z == SecretFor(w, tx, o)
  <1>1. o = MadeFor(tx, n, i, a) /\ (a.kind = "coinbase" <=> tx.images = {})
    BY DEF TxMade
  <1>2. r.amount = a.amount
    BY DEF RecordIn
  <1>3. o.key.spend = a.to
    BY TwinsAre
  <1>4. CASE tx.era = "cn"
    <2> DEFINE s == LegacySecret(Multiplied(ViewKey(a.to), n), i)
    <2>1. /\ o.key = OnetimeKey(a.to, s, NoCommitment)
          /\ o.commitment = Commitment(a.amount, IF a.kind = "coinbase" THEN UnitMask
                                                 ELSE MaskOf(s, 0, Generator, "payment"))
      BY <1>1, <1>4 DEF MadeFor, LegacyEnote
    <2> HIDE DEF s
    <2>2. s = z
      BY <2>1, KeyParts
    <2>3. r.mask = IF tx.images = {} THEN UnitMask ELSE MaskOf(z, 0, Generator, "payment")
      BY <1>4 DEF RecordIn
    <2>4. r.mask = IF a.kind = "coinbase" THEN UnitMask ELSE MaskOf(s, 0, Generator, "payment")
      BY <1>1, <2>2, <2>3
    <2> HIDE DEF r
    <2> QED
      BY <1>2, <2>1, <2>4 DEF r
  <1>5. CASE tx.era = "carrot"
    <2> DEFINE s == CarrotSecret(Multiplied(ViewKey(a.to), n), tx.pub, tx.used)
               m == MaskOf(s, a.amount, a.to, a.kind)
               c == Commitment(a.amount, m)
    <2>1. o.key = OnetimeKey(a.to, s, c) /\ o.commitment = c
      BY <1>1, <1>5 DEF MadeFor, CarrotEnote
    <2>2. s = z
      <3> HIDE DEF s, c
      <3> QED
        BY <2>1, KeyParts
    <2>3. r.mask = MaskOf(z, a.amount, o.key.spend, "payment")
      BY <1>5 DEF RecordIn
    <2> HIDE DEF r, s, z
    <2>4. r.mask = m
      BY <1>3, <1>5, <2>2, <2>3
    <2> QED
      BY <1>2, <2>1, <2>4 DEF r
  <1> QED
    BY <1>4, <1>5 DEF TxMade

\* What a record of an output says.
LEMMA RecordParts ==
    ASSUME NEW w, NEW n, NEW tx, NEW o, NEW r, Records(w, n, tx, o, r)
    PROVE  /\ r.image = ImageIn(n, tx, o) /\ r.sub = o.key.spend.sub
           /\ r.amount = o.paid.amount /\ r.mask = RecordIn(w, n, tx, o).mask
  <1> DEFINE x == RecordIn(w, n, tx, o)
  <1>1. r = [x EXCEPT !.spent = r.spent]
    BY DEF Records
  <1>2. /\ x = [image |-> x.image, sub |-> x.sub, amount |-> x.amount, carrot |-> x.carrot,
                committed |-> x.committed, spent |-> x.spent, mask |-> x.mask]
        /\ x.image = ImageIn(n, tx, o) /\ x.sub = o.key.spend.sub
        /\ x.amount = o.paid.amount
    BY DEF RecordIn
  <1> HIDE DEF x
  <1>3. r.image = x.image /\ r.sub = x.sub /\ r.amount = x.amount /\ r.mask = x.mask
    BY <1>1, <1>2
  <1> QED
    BY <1>2, <1>3 DEF x

\* A ledger has a length, and its transactions are as they are made.
LEMMA LedgerIs ==
    ASSUME NEW l, LedgerFits(l)
    PROVE  /\ Len(l) \in Nat /\ DOMAIN l = 1 .. Len(l)
           /\ \A n \in 1 .. Len(l) : TxMade(n, l[n]) /\ SpendsEarlier(l, n)
  <1>1. PICK S : l \in Seq(S)
    BY DEF LedgerFits
  <1> QED
    BY <1>1 DEF LedgerFits

\* The output that a record of wallet w is about.
RecordedOutput(w, r, n, o) ==
    /\ n \in 1 .. scanned[w] /\ n \in 1 .. Len(ledger) /\ TxMade(n, ledger[n])
    /\ o \in ledger[n].outs /\ OwnOutput(w, ledger[n], o) /\ Records(w, n, ledger[n], o, r)

\* The output that its image names.
Named(w, r, n, p) ==
    /\ p \in ledger[n].outs /\ r.image = <<n, p.index>> /\ EnoteAt(r.image) = p
    /\ p.paid.to = [owner |-> w, sub |-> r.sub] /\ p.paid.amount = r.amount

LEMMA TableIs ==
    ASSUME EnotesKept, NEW w \in Holders, NEW r \in tables[w]
    PROVE  \E n, o, p : RecordedOutput(w, r, n, o) /\ Named(w, r, n, p)
  <1>1. TableFits(ledger, w, scanned[w], tables[w]) /\ scanned[w] \in 0 .. Len(ledger)
    BY DEF EnotesKept
  <1>2. PICK n \in 1 .. scanned[w] : \E o \in ledger[n].outs :
             OwnOutput(w, ledger[n], o) /\ Records(w, n, ledger[n], o, r)
    BY <1>1 DEF TableFits
  <1>3. PICK o \in ledger[n].outs : OwnOutput(w, ledger[n], o) /\ Records(w, n, ledger[n], o, r)
    BY <1>2
  <1>4. Len(ledger) \in Nat
    BY LedgerIs DEF EnotesKept
  <1>5. n \in 1 .. Len(ledger)
    BY <1>1, <1>4
  <1>6. TxMade(n, ledger[n])
    BY <1>5, LedgerIs DEF EnotesKept
  <1>7. PICK p \in ledger[n].outs :
             /\ p.key = o.key /\ ImageIn(n, ledger[n], o) = <<n, p.index>>
             /\ (CHOOSE q \in ledger[n].outs : q.index = p.index) = p
    BY <1>6, ImageIs
  <1>8. r.image = <<n, p.index>> /\ r.sub = o.key.spend.sub /\ r.amount = o.paid.amount
    BY <1>3, <1>7, RecordParts
  <1>9. EnoteAt(r.image) = p
    <2>1. r.image[1] = n /\ r.image[2] = p.index
      BY <1>8
    <2>2. EnoteAt(r.image) = CHOOSE q \in ledger[n].outs : q.index = p.index
      BY <2>1 DEF EnoteAt
    <2> QED
      BY <1>7, <2>2
  <1>10. p.paid.to = o.paid.to /\ p.paid.amount = o.paid.amount /\ o.key.spend = o.paid.to
    BY <1>6, <1>7, TwinsAre
  <1>11. o.paid.to \in Places
    BY <1>6 DEF TxMade, PaidOut
  <1>12. o.paid.to = [owner |-> o.paid.to.owner, sub |-> o.paid.to.sub]
    BY <1>11 DEF Places
  <1>13. o.paid.to.owner = w
    BY <1>3, <1>10 DEF OwnOutput, Recognised
  <1> QED
    BY <1>2, <1>3, <1>5, <1>6, <1>8, <1>9, <1>10, <1>12, <1>13 DEF RecordedOutput, Named

\* A wallet has one record of an image.
LEMMA SameImage ==
    ASSUME EnotesKept, NEW w \in Holders, NEW r \in tables[w], NEW s \in tables[w],
           r.image = s.image
    PROVE  r = s
  <1>1. PICK n, o, p : RecordedOutput(w, r, n, o) /\ Named(w, r, n, p)
    BY TableIs
  <1>2. PICK m, q, u : RecordedOutput(w, s, m, q) /\ Named(w, s, m, u)
    BY TableIs
  <1>3. n = m
    <2>1. <<n, p.index>> = <<m, u.index>>
      BY <1>1, <1>2 DEF Named
    <2> QED
      BY <2>1
  <1>4. Records(w, n, ledger[n], o, r) /\ Records(w, n, ledger[n], q, s)
    BY <1>1, <1>2, <1>3 DEF RecordedOutput
  <1>5. ImageIn(n, ledger[n], o) = ImageIn(n, ledger[n], q)
    BY <1>4, RecordParts
  <1>6. TxMade(n, ledger[n]) /\ o \in ledger[n].outs /\ q \in ledger[n].outs
    BY <1>1, <1>2, <1>3 DEF RecordedOutput
  <1> DEFINE x == RecordIn(w, n, ledger[n], o)
             y == RecordIn(w, n, ledger[n], q)
  <1>7. x = y
    BY <1>5, <1>6, OneRecord
  <1>8. r = [x EXCEPT !.spent = r.spent] /\ s = [y EXCEPT !.spent = s.spent]
    BY <1>4 DEF Records
  <1>9. r.spent = s.spent
    <2>1. /\ r.spent = SpentUpTo(ledger, scanned[w], r.image)
          /\ s.spent = SpentUpTo(ledger, scanned[w], s.image)
      BY DEF EnotesKept, TableFits
    <2> HIDE DEF x, y
    <2> QED
      BY <2>1
  <1> HIDE DEF x, y
  <1> QED
    BY <1>7, <1>8, <1>9

\* What a wallet knows is its own.
LEMMA KeptIsOwn == ASSUME EnotesKept PROVE FoundIsOwn
  <1> SUFFICES ASSUME NEW w \in Holders, NEW r \in tables[w]
               PROVE  /\ EnoteAt(r.image).paid.to = [owner |-> w, sub |-> r.sub]
                      /\ EnoteAt(r.image).paid.amount = r.amount
    BY DEF FoundIsOwn
  <1>1. PICK n, o, p : RecordedOutput(w, r, n, o) /\ Named(w, r, n, p)
    BY TableIs
  <1> QED
    BY <1>1 DEF Named

\* What both sides agree about is found, and opens.
LEMMA KeptIsFound == ASSUME EnotesKept PROVE AgreedIsFound
  <1> SUFFICES ASSUME NEW w \in Holders, NEW n \in 1 .. scanned[w], NEW o \in ledger[n].outs,
                      o.paid.to.owner = w, Agreed(ledger[n], o)
               PROVE  \E r \in tables[w] :
                          /\ r.image = Image(n, o)
                          /\ ledger[n].era = "cn" \/ o.paid.kind = "payment" => Opens(r)
    BY DEF AgreedIsFound
  <1> DEFINE tx == ledger[n]
  <1>1. TableFits(ledger, w, scanned[w], tables[w]) /\ TxMade(n, tx)
    <2>1. scanned[w] \in 0 .. Len(ledger) /\ Len(ledger) \in Nat
      BY LedgerIs DEF EnotesKept
    <2>2. n \in 1 .. Len(ledger)
      BY <2>1
    <2> QED
      BY <2>2, LedgerIs DEF EnotesKept
  <1>2. o.key.secret = SecretFor(w, tx, o)
    BY <1>1, BothAgree
  <1>3. o.key.spend = o.paid.to
    BY <1>1, TwinsAre
  <1>4. OwnOutput(w, tx, o)
    BY <1>2, <1>3 DEF OwnOutput, Recognised
  <1>5. PICK r \in tables[w] : Records(w, n, tx, o, r)
    BY <1>1, <1>4 DEF TableFits
  <1>6. r.image = ImageIn(n, tx, o) /\ r.amount = o.paid.amount /\ r.mask = RecordIn(w, n, tx, o).mask
    BY <1>5, RecordParts
  <1>7. r.image = Image(n, o)
    BY <1>6, RecordOfIs
  <1>8. PICK p \in tx.outs : /\ p.key = o.key /\ ImageIn(n, tx, o) = <<n, p.index>>
                             /\ (CHOOSE q \in tx.outs : q.index = p.index) = p
    BY <1>1, ImageIs
  <1>9. p = o
    BY <1>8 DEF Agreed
  <1>10. EnoteAt(r.image) = o
    <2>1. r.image[1] = n /\ r.image[2] = p.index
      BY <1>6, <1>8
    <2>2. EnoteAt(r.image) = CHOOSE q \in ledger[n].outs : q.index = p.index
      BY <2>1 DEF EnoteAt
    <2> QED
      BY <1>8, <1>9, <2>2
  <1>11. ASSUME tx.era = "cn" \/ o.paid.kind = "payment" PROVE Opens(r)
    <2>1. o.commitment = Commitment(RecordIn(w, n, tx, o).amount, RecordIn(w, n, tx, o).mask)
      BY <1>1, <1>2, <1>11, MaskOpens
    <2>2. RecordIn(w, n, tx, o).amount = r.amount
      BY <1>6 DEF RecordIn
    <2>3. o.commitment = Commitment(r.amount, r.mask)
      BY <1>6, <2>1, <2>2
    <2> QED
      BY <1>10, <2>3 DEF Opens
  <1> QED
    BY <1>7, <1>11

\* What is unspent is some output, and has an amount.
LEMMA UnspentIs ==
    ASSUME NEW l
    PROVE  /\ \A x \in UnspentIn(l) : \E n \in 1 .. Len(l) : \E o \in l[n].outs :
                  x = Place(n, o) /\ ~SpentUpTo(l, Len(l), <<n, o.index>>)
           /\ \A n \in 1 .. Len(l) : \A o \in l[n].outs :
                  ~SpentUpTo(l, Len(l), <<n, o.index>>) => Place(n, o) \in UnspentIn(l)
  <1>1. ASSUME NEW x \in UnspentIn(l)
        PROVE  \E n \in 1 .. Len(l) : \E o \in l[n].outs :
                   x = Place(n, o) /\ ~SpentUpTo(l, Len(l), <<n, o.index>>)
    <2>1. PICK n \in 1 .. Len(l) : x \in Left(l, n)
      BY DEF UnspentIn
    <2> QED
      BY <2>1 DEF Left
  <1>2. ASSUME NEW n \in 1 .. Len(l), NEW o \in l[n].outs, ~SpentUpTo(l, Len(l), <<n, o.index>>)
        PROVE  Place(n, o) \in UnspentIn(l)
    <2>1. Place(n, o) \in Left(l, n)
      BY <1>2 DEF Left
    <2> QED
      BY <2>1 DEF UnspentIn
  <1> QED
    BY <1>1, <1>2

LEMMA UnspentHasAmounts ==
    ASSUME NEW l, LedgerFits(l)
    PROVE  HaveAmounts(UnspentIn(l)) /\ \A x \in UnspentIn(l) : x.amount \in Nat
  <1>1. ASSUME NEW x \in UnspentIn(l) PROVE x.amount \in Nat
    <2>1. PICK n \in 1 .. Len(l) : \E o \in l[n].outs :
               x = Place(n, o) /\ ~SpentUpTo(l, Len(l), <<n, o.index>>)
      BY UnspentIs
    <2>2. PICK o \in l[n].outs : x = Place(n, o)
      BY <2>1
    <2>3. TxMade(n, l[n])
      BY LedgerIs
    <2>4. o.paid.amount \in Nat
      BY <2>3 DEF TxMade, PaidOut
    <2> QED
      BY <2>2, <2>4 DEF Place
  <1> QED
    BY <1>1 DEF HaveAmounts

\* What wallets hold comes from what was mined.
LEMMA KeptFromSomething == ASSUME EnotesAssumption, EnotesKept PROVE NothingFromNothing
  <1> SUFFICES ASSUME \A w \in Holders : scanned[w] = Len(ledger)
               PROVE  AmountOf(Holdings) <= Coin * Cardinality(MinersIn(ledger))
    BY DEF NothingFromNothing, MinersIn
  <1> DEFINE place(h) == [at |-> h.record.image, amount |-> h.amount]
             f == [h \in Holdings |-> place(h)]
  <1>1. ASSUME NEW h \in Holdings
        PROVE  \E w \in Holders : \E r \in tables[w] :
                   ~r.spent /\ h = [by |-> w, record |-> r, amount |-> r.amount]
    BY DEF Holdings
  <1>2. ASSUME NEW h \in Holdings PROVE place(h) \in UnspentIn(ledger) /\ place(h).amount = h.amount
    <2>1. PICK w \in Holders : \E r \in tables[w] :
               ~r.spent /\ h = [by |-> w, record |-> r, amount |-> r.amount]
      BY <1>1, <1>2
    <2>2. PICK r \in tables[w] : ~r.spent /\ h = [by |-> w, record |-> r, amount |-> r.amount]
      BY <2>1
    <2>3. PICK n, o, p : RecordedOutput(w, r, n, o) /\ Named(w, r, n, p)
      BY TableIs
    <2>4. h.record = r /\ h.amount = r.amount
      BY <2>2
    <2>5. place(h) = Place(n, p)
      BY <2>3, <2>4 DEF Named, Place
    <2>6. ~SpentUpTo(ledger, Len(ledger), r.image)
      BY <2>2 DEF EnotesKept, TableFits
    <2>7. ~SpentUpTo(ledger, Len(ledger), <<n, p.index>>)
      BY <2>3, <2>6 DEF Named
    <2>8. n \in 1 .. Len(ledger) /\ p \in ledger[n].outs
      BY <2>3 DEF RecordedOutput, Named
    <2>9. place(h).amount = h.amount
      OBVIOUS
    <2> HIDE DEF place
    <2> QED
      BY <2>5, <2>7, <2>8, <2>9, UnspentIs
  <1>3. ASSUME NEW g \in Holdings, NEW h \in Holdings, place(g) = place(h) PROVE g = h
    <2>1. PICK w \in Holders : \E r \in tables[w] :
               g = [by |-> w, record |-> r, amount |-> r.amount]
      BY <1>1
    <2>2. PICK r \in tables[w] : g = [by |-> w, record |-> r, amount |-> r.amount]
      BY <2>1
    <2>3. PICK v \in Holders : \E s \in tables[v] :
               h = [by |-> v, record |-> s, amount |-> s.amount]
      BY <1>1
    <2>4. PICK s \in tables[v] : h = [by |-> v, record |-> s, amount |-> s.amount]
      BY <2>3
    <2>5. r.image = s.image
      BY <1>3, <2>2, <2>4
    <2>6. EnoteAt(r.image).paid.to = [owner |-> w, sub |-> r.sub]
      BY KeptIsOwn DEF FoundIsOwn
    <2>7. v = w
      <3>1. EnoteAt(s.image).paid.to = [owner |-> v, sub |-> s.sub]
        BY KeptIsOwn DEF FoundIsOwn
      <3>2. [owner |-> w, sub |-> r.sub].owner = w /\ [owner |-> v, sub |-> s.sub].owner = v
        OBVIOUS
      <3>3. [owner |-> w, sub |-> r.sub] = [owner |-> v, sub |-> s.sub]
        BY <2>5, <2>6, <3>1
      <3> QED
        BY <3>2, <3>3
    <2>8. r = s
      BY <2>5, <2>7, SameImage
    <2> QED
      BY <2>2, <2>4, <2>7, <2>8
  <1>4. /\ \A x \in UnspentIn(ledger) : x.amount \in Nat
        /\ HaveAmounts(UnspentIn(ledger)) /\ IsFiniteSet(UnspentIn(ledger))
        /\ Value(UnspentIn(ledger)) = Coin * Cardinality(MinersIn(ledger))
    BY UnspentHasAmounts DEF EnotesKept, LedgerFits
  <1>5. f \in [Holdings -> UnspentIn(ledger)]
    BY <1>2
  <1>6. \A h \in Holdings : f[h].amount = h.amount
    BY <1>2
  <1>7. \A g, h \in Holdings : f[g] = f[h] => g = h
    BY <1>3
  <1> HIDE DEF f
  <1>8. /\ IsFiniteSet(Holdings) /\ HaveAmounts(Holdings)
        /\ Carried(f, Holdings) \in SUBSET UnspentIn(ledger)
        /\ Value(Carried(f, Holdings)) = Value(Holdings)
    BY <1>4, <1>5, <1>6, <1>7, CarriedOver
  <1>9. Value(Carried(f, Holdings)) <= Value(UnspentIn(ledger))
    BY <1>4, <1>8, PartIsWorthLess
  <1>10. AmountOf(Holdings) = Value(Holdings)
    BY <1>8, AmountIsValue
  <1> QED
    BY <1>4, <1>8, <1>9, <1>10

\* What a wallet has recorded does not depend on what follows.
LEMMA TableStays ==
    ASSUME NEW S, NEW l \in Seq(S), NEW e, NEW w, NEW k \in 0 .. Len(l), NEW t, TableFits(l, w, k, t)
    PROVE  TableFits(Append(l, e), w, k, t)
  <1> DEFINE m == Append(l, e)
  <1>1. \A n \in 1 .. k : m[n] = l[n]
    BY LedgerMore
  <1> HIDE DEF m
  <1>2. \A image : SpentUpTo(m, k, image) = SpentUpTo(l, k, image)
    BY <1>1 DEF SpentUpTo
  <1>3. ASSUME NEW r \in t
        PROVE  /\ \E n \in 1 .. k : \E o \in m[n].outs :
                      OwnOutput(w, m[n], o) /\ Records(w, n, m[n], o, r)
               /\ r.spent = SpentUpTo(m, k, r.image)
    <2>1. PICK n \in 1 .. k : \E o \in l[n].outs : OwnOutput(w, l[n], o) /\ Records(w, n, l[n], o, r)
      BY DEF TableFits
    <2>2. \E o \in m[n].outs : OwnOutput(w, m[n], o) /\ Records(w, n, m[n], o, r)
      BY <1>1, <2>1
    <2>3. r.spent = SpentUpTo(l, k, r.image)
      BY DEF TableFits
    <2> QED
      BY <1>2, <2>2, <2>3
  <1>4. ASSUME NEW n \in 1 .. k, NEW o \in m[n].outs, OwnOutput(w, m[n], o)
        PROVE  \E r \in t : Records(w, n, m[n], o, r)
    <2>1. o \in l[n].outs /\ OwnOutput(w, l[n], o)
      BY <1>1, <1>4
    <2>2. \E r \in t : Records(w, n, l[n], o, r)
      BY <2>1 DEF TableFits
    <2> QED
      BY <1>1, <2>2
  <1>5. TableFits(m, w, k, t)
    BY <1>3, <1>4 DEF TableFits
  <1> QED
    BY <1>5 DEF m

\* What one more transaction takes from the unspent outputs, and adds to them.
TakenBy(l, e) == {x \in UnspentIn(l) : x.at \in e.images}
AddedBy(n, e) == {Place(n, o) : o \in e.outs}

SpentBefore(l, e) == \A image \in e.images : \E m \in 1 .. Len(l) : \E o \in l[m].outs : image = <<m, o.index>>

\* What is spent, and what is made, by the transactions of the longer ledger.
LEMMA SpentMore ==
    ASSUME NEW l, LedgerFits(l), NEW e, SpentBefore(l, e)
    PROVE  LET n == Len(l) + 1
               m == Append(l, e)
           IN  /\ Len(m) = n /\ n \in Nat /\ m[n] = e /\ \A i \in 1 .. Len(l) : m[i] = l[i]
               /\ \A image : SpentUpTo(m, n, image) <=> SpentUpTo(l, Len(l), image) \/ image \in e.images
               /\ \A i : ~SpentUpTo(m, n, <<n, i>>)
               /\ SpendsEarlier(m, n) /\ \A i \in 1 .. Len(l) : SpendsEarlier(m, i)
  <1> DEFINE n == Len(l) + 1
             m == Append(l, e)
  <1>1. PICK S : l \in Seq(S)
    BY DEF LedgerFits
  <1>2. Len(m) = n /\ Len(l) \in Nat /\ m[n] = e /\ \A i \in 1 .. Len(l) : m[i] = l[i]
    BY <1>1, LedgerMore
  <1> HIDE DEF m
  <1>3. \A image : SpentUpTo(m, n, image) <=> SpentUpTo(l, Len(l), image) \/ image \in e.images
    <2>1. ASSUME NEW image, SpentUpTo(m, n, image)
          PROVE  SpentUpTo(l, Len(l), image) \/ image \in e.images
      <3>1. PICK i \in 1 .. n : image \in m[i].images
        BY <2>1 DEF SpentUpTo
      <3>2. i = n \/ (i \in 1 .. Len(l) /\ image \in l[i].images)
        BY <1>2, <3>1
      <3> QED
        BY <1>2, <3>1, <3>2 DEF SpentUpTo
    <2>2. ASSUME NEW image, SpentUpTo(l, Len(l), image) PROVE SpentUpTo(m, n, image)
      <3>1. PICK i \in 1 .. Len(l) : image \in l[i].images
        BY <2>2 DEF SpentUpTo
      <3>2. i \in 1 .. n /\ image \in m[i].images
        BY <1>2, <3>1
      <3> QED
        BY <3>2 DEF SpentUpTo
    <2>3. ASSUME NEW image, image \in e.images PROVE SpentUpTo(m, n, image)
      <3>1. n \in 1 .. n /\ image \in m[n].images
        BY <1>2, <2>3
      <3> QED
        BY <3>1 DEF SpentUpTo
    <2> QED
      BY <2>1, <2>2, <2>3
  <1>4. ASSUME NEW i \in 1 .. Len(l) PROVE SpendsEarlier(m, i)
    <2>1. SpendsEarlier(l, i)
      BY LedgerIs
    <2>2. m[i] = l[i] /\ \A j \in 1 .. i - 1 : m[j] = l[j]
      BY <1>2
    <2> QED
      BY <2>1, <2>2 DEF SpendsEarlier
  <1>5. SpendsEarlier(m, n)
    <2>1. n - 1 = Len(l)
      BY <1>2
    <2>2. ASSUME NEW image \in m[n].images
          PROVE  \E j \in 1 .. n - 1 : \E o \in m[j].outs : image = <<j, o.index>>
      <3>1. PICK j \in 1 .. Len(l) : \E o \in l[j].outs : image = <<j, o.index>>
        BY <1>2, <2>2 DEF SpentBefore
      <3>2. \E o \in m[j].outs : image = <<j, o.index>>
        BY <1>2, <3>1
      <3> QED
        BY <2>1, <3>2
    <2> QED
      BY <2>2 DEF SpendsEarlier
  <1>6. ASSUME NEW i, SpentUpTo(m, n, <<n, i>>) PROVE FALSE
    <2>1. PICK j \in 1 .. n : <<n, i>> \in m[j].images
      BY <1>6 DEF SpentUpTo
    <2>2. SpendsEarlier(m, j)
      BY <1>2, <1>4, <1>5
    <2>3. PICK h \in 1 .. j - 1 : \E o \in m[h].outs : <<n, i>> = <<h, o.index>>
      BY <2>1, <2>2 DEF SpendsEarlier
    <2>4. n = h
      BY <2>3
    <2> QED
      BY <1>2, <2>4
  <1> QED
    BY <1>2, <1>3, <1>4, <1>5, <1>6 DEF m

\* So it is with what is left unspent.
LEMMA UnspentMore ==
    ASSUME NEW l, LedgerFits(l), NEW e, SpentBefore(l, e)
    PROVE  UnspentIn(Append(l, e)) = (UnspentIn(l) \ TakenBy(l, e)) \union AddedBy(Len(l) + 1, e)
  <1> DEFINE n == Len(l) + 1
             m == Append(l, e)
             Stay == UnspentIn(l) \ TakenBy(l, e)
             Added == AddedBy(n, e)
  <1>1. /\ Len(m) = n /\ n \in Nat /\ m[n] = e /\ (\A i \in 1 .. Len(l) : m[i] = l[i])
        /\ \A image : SpentUpTo(m, n, image) <=> SpentUpTo(l, Len(l), image) \/ image \in e.images
        /\ \A i : ~SpentUpTo(m, n, <<n, i>>)
    BY SpentMore
  <1>2. Len(l) \in Nat
    BY LedgerIs
  <1> HIDE DEF m
  <1>3. ASSUME NEW x \in UnspentIn(m) PROVE x \in Stay \union Added
    <2>1. PICK i \in 1 .. Len(m) : \E o \in m[i].outs :
               x = Place(i, o) /\ ~SpentUpTo(m, Len(m), <<i, o.index>>)
      BY UnspentIs
    <2>2. PICK o \in m[i].outs : x = Place(i, o) /\ ~SpentUpTo(m, n, <<i, o.index>>)
      BY <1>1, <2>1
    <2>3. CASE i = n
      BY <1>1, <2>2, <2>3 DEF AddedBy
    <2>4. CASE i # n
      <3>1. i \in 1 .. Len(l) /\ o \in l[i].outs
        BY <1>1, <1>2, <2>4
      <3>2. ~SpentUpTo(l, Len(l), <<i, o.index>>) /\ <<i, o.index>> \notin e.images
        BY <1>1, <2>2
      <3>3. Place(i, o) \in UnspentIn(l)
        BY <3>1, <3>2, UnspentIs
      <3>4. x.at = <<i, o.index>>
        BY <2>2 DEF Place
      <3> QED
        BY <2>2, <3>2, <3>3, <3>4 DEF TakenBy
    <2> QED
      BY <2>3, <2>4
  <1>4. ASSUME NEW x \in Stay PROVE x \in UnspentIn(m)
    <2>1. PICK i \in 1 .. Len(l) : \E o \in l[i].outs :
               x = Place(i, o) /\ ~SpentUpTo(l, Len(l), <<i, o.index>>)
      BY UnspentIs
    <2>2. PICK o \in l[i].outs : x = Place(i, o) /\ ~SpentUpTo(l, Len(l), <<i, o.index>>)
      BY <2>1
    <2>3. <<i, o.index>> \notin e.images
      BY <2>2 DEF Place, TakenBy
    <2>4. i \in 1 .. Len(m) /\ o \in m[i].outs /\ ~SpentUpTo(m, Len(m), <<i, o.index>>)
      BY <1>1, <1>2, <2>2, <2>3
    <2>5. Place(i, o) \in UnspentIn(m)
      BY <2>4, UnspentIs
    <2> QED
      BY <2>2, <2>5
  <1>5. ASSUME NEW x \in Added PROVE x \in UnspentIn(m)
    <2>1. PICK o \in e.outs : x = Place(n, o)
      BY DEF AddedBy
    <2>2. n \in 1 .. Len(m) /\ o \in m[n].outs /\ ~SpentUpTo(m, Len(m), <<n, o.index>>)
      BY <1>1, <1>2
    <2>3. Place(n, o) \in UnspentIn(m)
      BY <2>2, UnspentIs
    <2> QED
      BY <2>1, <2>3
  <1> HIDE DEF Stay, Added
  <1>6. UnspentIn(m) = Stay \union Added
    BY <1>3, <1>4, <1>5
  <1> QED
    BY <1>6 DEF m, Stay, Added

\* A transaction that makes what it takes, and a miner's that makes what a block
\* pays, leave the ledger right.
LEMMA LedgerGrows ==
    ASSUME EnotesAssumption, NEW l, LedgerFits(l), NEW e, TxMade(Len(l) + 1, e), SpentBefore(l, e),
           IsFiniteSet(AddedBy(Len(l) + 1, e)), HaveAmounts(AddedBy(Len(l) + 1, e)),
           Value(AddedBy(Len(l) + 1, e)) =
               Value(TakenBy(l, e)) + IF e.images = {} THEN Coin ELSE 0
    PROVE  LedgerFits(Append(l, e))
  <1> DEFINE n == Len(l) + 1
             m == Append(l, e)
             U == UnspentIn(l)
             Taken == TakenBy(l, e)
             Added == AddedBy(n, e)
             Stay == U \ Taken
  <1>1. /\ Len(m) = n /\ n \in Nat /\ m[n] = e /\ (\A i \in 1 .. Len(l) : m[i] = l[i])
        /\ SpendsEarlier(m, n) /\ \A i \in 1 .. Len(l) : SpendsEarlier(m, i)
        /\ \A image : SpentUpTo(m, n, image) <=> SpentUpTo(l, Len(l), image) \/ image \in e.images
    BY SpentMore
  <1>2. \E S : m \in Seq(S) /\ DOMAIN m = 1 .. n
    <2>1. PICK S : l \in Seq(S)
      BY DEF LedgerFits
    <2>2. m \in Seq(S \union {e}) /\ DOMAIN m = 1 .. n
      BY <2>1, LedgerMore
    <2> QED
      BY <2>2
  <1>3. Len(l) \in Nat /\ DOMAIN l = 1 .. Len(l) /\ (\A i \in 1 .. Len(l) : TxMade(i, l[i]))
    BY LedgerIs
  <1>4. UnspentIn(m) = Stay \union Added
    BY UnspentMore
  <1>5. IsFiniteSet(U) /\ HaveAmounts(U) /\ Value(U) = Coin * Cardinality(MinersIn(l))
    BY UnspentHasAmounts DEF LedgerFits
  <1>6. IsFiniteSet(Added) /\ HaveAmounts(Added) /\ TxMade(n, e)
        /\ Value(Added) = Value(Taken) + IF e.images = {} THEN Coin ELSE 0
    OBVIOUS
  <1>7. Stay \intersect Added = {}
    <2>1. ASSUME NEW x \in U, x \in Added PROVE FALSE
      <3>1. PICK i \in 1 .. Len(l) : \E o \in l[i].outs :
                 x = Place(i, o) /\ ~SpentUpTo(l, Len(l), <<i, o.index>>)
        BY <2>1, UnspentIs
      <3>2. PICK o \in l[i].outs : x = Place(i, o)
        BY <3>1
      <3>3. PICK p \in e.outs : x = Place(n, p)
        BY <2>1 DEF AddedBy
      <3>4. <<i, o.index>> = <<n, p.index>>
        BY <3>2, <3>3 DEF Place
      <3>5. i = n
        BY <3>4
      <3> QED
        BY <1>3, <3>5
    <2> QED
      BY <2>1
  <1>8. Taken \in SUBSET U /\ Stay \in SUBSET U /\ Taken \union Stay = U /\ Taken \intersect Stay = {}
    BY DEF TakenBy
  <1> HIDE DEF m, U, Taken, Added, Stay
  <1>9. IsFiniteSet(Taken) /\ IsFiniteSet(Stay) /\ HaveAmounts(Taken) /\ HaveAmounts(Stay)
    BY <1>5, <1>8, FS_Subset DEF HaveAmounts
  <1>10. Value(U) = Value(Taken) + Value(Stay) /\ Value(Taken) \in Int /\ Value(Stay) \in Int
    BY <1>8, <1>9, ValueOfBoth
  <1>11. Value(Stay \union Added) = Value(Stay) + Value(Added) /\ IsFiniteSet(Stay \union Added)
    BY <1>6, <1>7, <1>9, ValueOfBoth, FS_Union
  <1>12. IsFiniteSet(MinersIn(l)) /\ Cardinality(MinersIn(l)) \in Nat
    <2>1. MinersIn(l) \in SUBSET (1 .. Len(l))
      BY <1>3 DEF MinersIn
    <2>2. IsFiniteSet(1 .. Len(l))
      BY <1>3, FS_Interval
    <2>3. IsFiniteSet(MinersIn(l))
      BY <2>1, <2>2, FS_Subset
    <2> QED
      BY <2>3, FS_CardinalityType
  <1>13. MinersIn(m) = IF e.images = {} THEN MinersIn(l) \union {n} ELSE MinersIn(l)
    <2>1. DOMAIN m = 1 .. n /\ DOMAIN l = 1 .. Len(l)
      BY <1>2, <1>3
    <2> QED
      BY <1>1, <1>3, <2>1 DEF MinersIn
  <1>14. n \notin MinersIn(l)
    BY <1>3 DEF MinersIn
  <1>15. Cardinality(MinersIn(m)) = Cardinality(MinersIn(l)) + IF e.images = {} THEN 1 ELSE 0
    <2> DEFINE A == MinersIn(l)
    <2>1. IsFiniteSet(A) /\ Cardinality(A) \in Nat /\ n \notin A
      BY <1>12, <1>14
    <2> HIDE DEF A
    <2>2. Cardinality(A \union {n}) = Cardinality(A) + 1
      BY <2>1, FS_AddElement
    <2>3. CASE e.images = {}
      BY <1>13, <2>2, <2>3 DEF A
    <2>4. CASE e.images # {}
      BY <1>13, <2>1, <2>4 DEF A
    <2> QED
      BY <2>3, <2>4
  <1>16. Value(UnspentIn(m)) = Coin * Cardinality(MinersIn(m))
    <2> DEFINE c == Cardinality(MinersIn(l))
    <2>1. Coin \in Nat /\ c \in Nat
      BY <1>12 DEF EnotesAssumption
    <2>2. Value(UnspentIn(m)) = Coin * c + IF e.images = {} THEN Coin ELSE 0
      BY <1>4, <1>5, <1>6, <1>10, <1>11, <2>1
    <2> HIDE DEF c
    <2>3. Coin * (c + 1) = Coin * c + Coin
      BY <2>1
    <2> QED
      BY <1>15, <2>1, <2>2, <2>3 DEF c
  <1>17. \A i \in 1 .. Len(m) : TxMade(i, m[i]) /\ SpendsEarlier(m, i)
    <2>1. ASSUME NEW i \in 1 .. Len(m) PROVE TxMade(i, m[i]) /\ SpendsEarlier(m, i)
      <3>1. CASE i = n
        BY <1>1, <1>6, <3>1
      <3>2. CASE i # n
        <4>1. i \in 1 .. Len(l)
          BY <1>1, <1>3, <3>2
        <4> QED
          BY <1>1, <1>3, <4>1
      <3> QED
        BY <3>1, <3>2
    <2> QED
      BY <2>1
  <1>18. IsFiniteSet(UnspentIn(m))
    BY <1>4, <1>11
  <1>19. LedgerFits(m)
    BY <1>2, <1>16, <1>17, <1>18 DEF LedgerFits
  <1> QED
    BY <1>19 DEF m

\* Outputs for each of the payments ps, and for nothing else.
PayAll(outs, n, pub, context, ps) ==
    /\ IsFiniteSet(outs)
    /\ \A i \in DOMAIN ps : \E o \in outs : o.index = i /\ o.paid = ps[i]
    /\ \A o \in outs : \E i \in DOMAIN ps : o.index = i /\ o.paid = ps[i]
    /\ \A o \in outs : o = IF era = "cn" THEN LegacyEnote(n, o.index, o.paid)
                           ELSE CarrotEnote(n, pub, context, o.index, o.paid)
    /\ \A o, p \in outs : o.index = p.index => o = p

\* Those that are made.
LEMMA OutputsMade ==
    ASSUME NEW n, NEW pub, NEW context, NEW ps, NEW k \in Nat, DOMAIN ps = 1 .. k
    PROVE  PayAll(EnotesOf(n, pub, context, ps), n, pub, context, ps)
  <1> DEFINE made(i, p) == IF era = "cn" THEN LegacyEnote(n, i, p)
                           ELSE CarrotEnote(n, pub, context, i, p)
             outs == EnotesOf(n, pub, context, ps)
             f == [i \in 1 .. k |-> made(i, ps[i])]
  <1>1. \A i, p : made(i, p).index = i /\ made(i, p).paid = p
    BY DEF LegacyEnote, CarrotEnote
  <1>2. outs = {made(i, ps[i]) : i \in 1 .. k}
    BY DEF EnotesOf
  <1>3. \A o \in outs : o = IF era = "cn" THEN LegacyEnote(n, o.index, o.paid)
                            ELSE CarrotEnote(n, pub, context, o.index, o.paid)
    <2>1. ASSUME NEW o \in outs PROVE o = made(o.index, o.paid)
      <3>1. PICK i \in 1 .. k : o = made(i, ps[i])
        BY <1>2
      <3>2. o.index = i /\ o.paid = ps[i]
        BY <1>1, <3>1
      <3> QED
        BY <3>1, <3>2
    <2> QED
      BY <2>1
  <1> HIDE DEF made, outs
  <1>4. f \in Surjection(1 .. k, outs)
    BY <1>2 DEF Surjection
  <1>5. IsFiniteSet(outs)
    BY <1>4, FS_Interval, FS_Surjection
  <1>6. ASSUME NEW i \in 1 .. k PROVE \E o \in outs : o.index = i /\ o.paid = ps[i]
    <2>1. made(i, ps[i]) \in outs
      BY <1>2
    <2> QED
      BY <1>1, <2>1
  <1>7. \A o \in outs : \E i \in 1 .. k : o = made(i, ps[i]) /\ o.index = i /\ o.paid = ps[i]
    BY <1>1, <1>2
  <1> QED
    BY <1>3, <1>5, <1>6, <1>7 DEF outs, PayAll

\* Payments that come to so much; only a miner's spend nothing.
Settles(ps, images, total) ==
    /\ Len(ps) \in Nat \ {0} /\ DOMAIN ps = 1 .. Len(ps)
    /\ \A i \in 1 .. Len(ps) : ps[i] \in PaidOut /\ (ps[i].kind = "coinbase" <=> images = {})
    /\ Worth(ps) = total

\* A transaction as it is added to the ledger.
Entry(n, images, context, stored, lead, ps) ==
    LET pub == IF era = "cn" THEN Point(Generator, {n}) ELSE EphemeralKey(n, lead)
    IN  [era |-> era, pub |-> pub, images |-> images, used |-> context, stored |-> stored,
         lead |-> lead, outs |-> EnotesOf(n, pub, context, ps)]

\* It is made right, and adds so much.
Adds(n, e, total) ==
    /\ TxMade(n, e) /\ IsFiniteSet(AddedBy(n, e)) /\ HaveAmounts(AddedBy(n, e))
    /\ Value(AddedBy(n, e)) = total

LEMMA EntryIsMade ==
    ASSUME NEW n, NEW images, NEW context, NEW stored, NEW lead \in Places, NEW ps, NEW total,
           Settles(ps, images, total), era \in {"cn", "carrot"}
    PROVE  Adds(n, Entry(n, images, context, stored, lead, ps), total)
  <1> DEFINE pub == IF era = "cn" THEN Point(Generator, {n}) ELSE EphemeralKey(n, lead)
             e == Entry(n, images, context, stored, lead, ps)
             outs == EnotesOf(n, pub, context, ps)
             k == Len(ps)
  <1>1. /\ e.era = era /\ e.pub = pub /\ e.images = images /\ e.used = context /\ e.lead = lead
        /\ e.outs = outs
    BY DEF Entry
  <1>2. k \in Nat /\ DOMAIN ps = 1 .. k /\ Worth(ps) = total
        /\ \A i \in 1 .. k : ps[i] \in PaidOut /\ (ps[i].kind = "coinbase" <=> images = {})
    BY DEF Settles
  <1> HIDE DEF k
  <1>3. PayAll(outs, n, pub, context, ps)
    BY <1>2, OutputsMade
  <1>4. pub = IF era = "cn" THEN Point(Generator, {n}) ELSE EphemeralKey(n, lead)
    OBVIOUS
  <1> HIDE DEF e, outs, pub
  <1>5. /\ IsFiniteSet(outs)
        /\ \A i \in 1 .. k : \E o \in outs : o.index = i /\ o.paid = ps[i]
        /\ \A o \in outs : \E i \in 1 .. k : o.index = i /\ o.paid = ps[i]
        /\ \A o \in outs : o = IF era = "cn" THEN LegacyEnote(n, o.index, o.paid)
                               ELSE CarrotEnote(n, pub, context, o.index, o.paid)
        /\ \A o, p \in outs : o.index = p.index => o = p
    BY <1>2, <1>3 DEF PayAll
  <1>6. \A o \in e.outs : /\ o.index \in Nat /\ o.paid \in PaidOut
                          /\ o.paid.kind = "coinbase" <=> e.images = {}
    BY <1>1, <1>2, <1>5
  <1>7. \A o \in e.outs : o = MadeFor(e, n, o.index, o.paid)
    BY <1>1, <1>5 DEF MadeFor
  <1>8. \A o, p \in e.outs : o.index = p.index => o = p
    BY <1>1, <1>5
  <1>9. TxMade(n, e)
    BY <1>1, <1>4, <1>5, <1>6, <1>7, <1>8 DEF TxMade
  <1>10. Amounts(ps)
    BY <1>2 DEF Amounts, PaidOut, k
  <1>11. AddedBy(n, e) = Numbered(n, ps)
    <2>1. ASSUME NEW x \in AddedBy(n, e) PROVE x \in Numbered(n, ps)
      <3>1. PICK o \in outs : x = Place(n, o)
        BY <1>1, <2>1 DEF AddedBy
      <3>2. PICK i \in 1 .. k : o.index = i /\ o.paid = ps[i]
        BY <1>5
      <3> QED
        BY <1>2, <3>1, <3>2 DEF Place, Numbered
    <2>2. ASSUME NEW x \in Numbered(n, ps) PROVE x \in AddedBy(n, e)
      <3>1. PICK i \in 1 .. k : x = [at |-> <<n, i>>, amount |-> ps[i].amount]
        BY <1>2, <2>2 DEF Numbered
      <3>2. PICK o \in outs : o.index = i /\ o.paid = ps[i]
        BY <1>5
      <3>3. x = Place(n, o)
        BY <3>1, <3>2 DEF Place
      <3> QED
        BY <1>1, <3>3 DEF AddedBy
    <2> QED
      BY <2>1, <2>2
  <1>12. Adds(n, e, total)
    BY <1>2, <1>9, <1>10, <1>11, NumberedWorth DEF Adds
  <1> QED
    BY <1>12 DEF e

\* The payments of a transfer come to what is spent.
LEMMA PaymentsComeTo ==
    ASSUME NEW w \in Holders, NEW k \in Nat \ {0}, NEW total \in Int,
           NEW dests \in [1 .. k -> [to : Places, amount : 1 .. Coin]], AmountIn(dests) <= total,
           NEW images, images # {}
    PROVE  Settles(Payments(w, dests, total), images, total)
  <1> DEFINE ps == Payments(w, dests, total)
             spent == AmountIn(dests)
             wanted == [i \in 1 .. k |->
                           [to |-> dests[i].to, amount |-> dests[i].amount, kind |-> "payment"]]
             change == [to |-> Main(w), amount |-> total - spent, kind |-> "change"]
             more == Append(wanted, change)
  <1>1. Coin \in Nat
    BY EnotesAssumption DEF EnotesAssumption
  <1>2. \A i \in 1 .. k : dests[i].to \in Places /\ dests[i].amount \in Nat
    BY <1>1
  <1>3. Len(dests) = k /\ Amounts(dests)
    BY <1>2 DEF Amounts
  <1>4. Len(wanted) = k /\ DOMAIN wanted = 1 .. k /\ wanted \in Seq(PaidOut)
        /\ \A i \in 1 .. k : /\ wanted[i] \in PaidOut /\ wanted[i].kind # "coinbase"
                             /\ wanted[i].amount = dests[i].amount
    BY <1>2 DEF PaidOut
  <1>5. ps = IF spent = total THEN wanted ELSE more
    BY DEF Payments
  <1> HIDE DEF wanted, ps
  <1>6. Amounts(wanted)
    BY <1>2, <1>4 DEF Amounts
  <1>7. Worth(wanted) = spent
    <2>1. Worth(dests) = Worth(wanted)
      BY <1>3, <1>4, <1>6, EqualAmounts
    <2> QED
      BY <2>1, AmountIsWorth
  <1>8. spent \in Int
    <2>1. PICK f : Sums(f, dests)
      BY <1>3, SumExists
    <2>2. Worth(dests) \in Int
      BY <1>3, <2>1, WorthIsSum
    <2> QED
      BY <2>2, AmountIsWorth
  <1> HIDE DEF spent
  <1>9. change \in PaidOut /\ change.kind # "coinbase" /\ change.amount = total - spent
    <2>1. total - spent \in Nat
      BY <1>8 DEF spent
    <2>2. Main(w) \in Places
      BY DEF Main, Places
    <2> QED
      BY <2>1, <2>2 DEF PaidOut
  <1> HIDE DEF change
  <1>10. CASE spent = total
    BY <1>4, <1>5, <1>7, <1>10 DEF ps, Settles
  <1>11. CASE spent # total
    <2>1. /\ Len(more) = k + 1 /\ more[k + 1] = change /\ more \in Seq(PaidOut)
          /\ \A i \in 1 .. k : more[i] = wanted[i]
      BY <1>4, <1>9, AppendProperties
    <2>2. DOMAIN more = 1 .. k + 1
      BY <2>1
    <2>3. more = wanted \o <<change>>
      BY <1>4, <1>9, AppendIsConcat
    <2>4. Amounts(<<change>>) /\ Worth(<<change>>) = change.amount /\ <<change>> \in Seq(PaidOut)
      BY <1>8, <1>9, WorthOfOne
    <2>5. Worth(wanted \o <<change>>) = Worth(wanted) + Worth(<<change>>)
      BY <1>4, <1>6, <2>4, WorthOfBoth
    <2>6. Worth(more) = total
      BY <1>7, <1>8, <1>9, <2>3, <2>4, <2>5
    <2> HIDE DEF more
    <2>7. \A i \in 1 .. k + 1 : more[i] \in PaidOut /\ more[i].kind # "coinbase"
      BY <1>4, <1>9, <2>1
    <2>8. ps = more /\ k + 1 \in Nat \ {0}
      BY <1>5, <1>11
    <2> QED
      BY <2>1, <2>2, <2>6, <2>7, <2>8 DEF ps, Settles
  <1> QED
    BY <1>10, <1>11

\* What a wallet takes for a transfer, as outputs of the ledger.
AsPlace(r) == [at |-> r.image, amount |-> r.amount]

LEMMA TakenIs ==
    ASSUME EnotesAssumption, EnotesKept, NEW w \in Holders, NEW rs \in SUBSET Usable(w),
           NEW e, e.images = {r.image : r \in rs}
    PROVE  /\ SpentBefore(ledger, e)
           /\ AmountOf(rs) \in Int /\ Value(TakenBy(ledger, e)) = AmountOf(rs)
  <1> DEFINE U == UnspentIn(ledger)
             f == [r \in rs |-> AsPlace(r)]
  <1>1. ASSUME NEW r \in rs
        PROVE  \E n \in 1 .. Len(ledger) : \E p \in ledger[n].outs :
                   r.image = <<n, p.index>> /\ AsPlace(r) = Place(n, p) /\ AsPlace(r) \in U
    <2>1. r \in tables[w] /\ r.image \notin SpentImages
      BY DEF Usable
    <2>2. PICK n, o, p : RecordedOutput(w, r, n, o) /\ Named(w, r, n, p)
      BY <2>1, TableIs
    <2>3. n \in 1 .. Len(ledger) /\ p \in ledger[n].outs /\ r.image = <<n, p.index>>
          /\ p.paid.amount = r.amount
      BY <2>2 DEF RecordedOutput, Named
    <2>4. ~SpentUpTo(ledger, Len(ledger), r.image)
      <3>1. DOMAIN ledger = 1 .. Len(ledger)
        BY LedgerIs DEF EnotesKept
      <3> QED
        BY <2>1, <3>1 DEF SpentUpTo, SpentImages
    <2>5. ~SpentUpTo(ledger, Len(ledger), <<n, p.index>>)
      BY <2>3, <2>4
    <2>6. Place(n, p) \in U
      BY <2>3, <2>5, UnspentIs
    <2>7. AsPlace(r) = Place(n, p)
      BY <2>3 DEF AsPlace, Place
    <2> QED
      BY <2>3, <2>6, <2>7
  <1>2. SpentBefore(ledger, e)
    BY <1>1 DEF SpentBefore
  <1>3. U = UnspentIn(ledger) /\ IsFiniteSet(U) /\ HaveAmounts(U)
    BY UnspentHasAmounts DEF EnotesKept, LedgerFits
  <1>4. TakenBy(ledger, e) = Carried(f, rs)
    <2>1. ASSUME NEW x \in TakenBy(ledger, e) PROVE x \in Carried(f, rs)
      <3>1. x \in UnspentIn(ledger) /\ x.at \in e.images
        BY <2>1 DEF TakenBy
      <3>2. PICK m \in 1 .. Len(ledger) : \E o \in ledger[m].outs :
                 x = Place(m, o) /\ ~SpentUpTo(ledger, Len(ledger), <<m, o.index>>)
        BY <3>1, UnspentIs
      <3>3. PICK o \in ledger[m].outs : x = Place(m, o)
        BY <3>2
      <3>4. PICK r \in rs : x.at = r.image
        BY <3>1
      <3>5. PICK n \in 1 .. Len(ledger) : \E p \in ledger[n].outs :
                 r.image = <<n, p.index>> /\ AsPlace(r) = Place(n, p) /\ AsPlace(r) \in U
        BY <1>1
      <3>6. PICK p \in ledger[n].outs : r.image = <<n, p.index>> /\ AsPlace(r) = Place(n, p)
        BY <3>5
      <3>7. <<m, o.index>> = <<n, p.index>>
        BY <3>3, <3>4, <3>6 DEF Place
      <3>8. m = n /\ o.index = p.index
        BY <3>7
      <3>9. TxMade(n, ledger[n])
        BY LedgerIs DEF EnotesKept
      <3>10. o = p
        BY <3>8, <3>9 DEF TxMade
      <3>11. x = AsPlace(r)
        BY <3>3, <3>6, <3>8, <3>10
      <3> QED
        BY <3>11 DEF Carried
    <2>2. ASSUME NEW x \in Carried(f, rs) PROVE x \in TakenBy(ledger, e)
      <3>1. PICK r \in rs : x = AsPlace(r)
        BY <2>2 DEF Carried
      <3>2. x \in U /\ x.at = r.image
        BY <1>1, <3>1 DEF AsPlace
      <3> QED
        BY <3>2 DEF TakenBy
    <2> QED
      BY <2>1, <2>2
  <1>5. f \in [rs -> U]
    BY <1>1
  <1>6. \A r \in rs : f[r].amount = r.amount /\ f[r].at = r.image
    BY DEF AsPlace
  <1>7. \A r, s \in rs : f[r] = f[s] => r = s
    <2>1. ASSUME NEW r \in rs, NEW s \in rs, f[r] = f[s] PROVE r = s
      <3>1. r.image = s.image
        BY <1>6, <2>1
      <3>2. r \in tables[w] /\ s \in tables[w]
        BY DEF Usable
      <3> QED
        BY <3>1, <3>2, SameImage
    <2> QED
      BY <2>1
  <1> HIDE DEF f, U
  <1>8. IsFiniteSet(rs) /\ HaveAmounts(rs) /\ Value(rs) \in Int /\ Value(Carried(f, rs)) = Value(rs)
    BY <1>3, <1>5, <1>6, <1>7, CarriedOver
  <1>9. AmountOf(rs) = Value(rs)
    BY <1>8, AmountIsValue
  <1> QED
    BY <1>2, <1>4, <1>8, <1>9

\* A right transaction at the end disturbs no wallet.
LEMMA MoreIsKept ==
    ASSUME EnotesKept, NEW e, ledger' = Append(ledger, e), LedgerFits(ledger'),
           UNCHANGED <<era, tables, scanned>>
    PROVE  EnotesKept'
  <1>1. PICK S : ledger \in Seq(S)
    BY DEF EnotesKept, LedgerFits
  <1>2. Len(ledger') = Len(ledger) + 1 /\ Len(ledger) \in Nat
    BY <1>1, LedgerMore
  <1>3. scanned \in [Holders -> 0 .. Len(ledger)]
    BY DEF EnotesKept
  <1>4. scanned' \in [Holders -> 0 .. Len(ledger')]
    BY <1>2, <1>3
  <1>5. ASSUME NEW w \in Holders PROVE TableFits(ledger', w, scanned'[w], tables'[w])
    <2> DEFINE k == scanned[w]
               t == tables[w]
    <2>1. TableFits(ledger, w, k, t) /\ k \in 0 .. Len(ledger)
      BY <1>3 DEF EnotesKept
    <2> HIDE DEF k, t
    <2>2. TableFits(Append(ledger, e), w, k, t)
      BY <1>1, <2>1, TableStays
    <2>3. scanned'[w] = k /\ tables'[w] = t
      BY DEF k, t
    <2> QED
      BY <2>2, <2>3
  <1> QED
    BY <1>4, <1>5 DEF EnotesKept

\* A miner is paid.
LEMMA MinedIsKept ==
    ASSUME EnotesAssumption, EnotesKept, NEW w \in Holders, Mined(w)
    PROVE  EnotesKept'
  <1> DEFINE n == Len(ledger) + 1
             context == <<"height", n, 0>>
             p == [to |-> Main(w), amount |-> Coin, kind |-> "coinbase"]
             ps == <<p>>
             e == Entry(n, {}, context, context, Main(w), ps)
  <1>1. (IF era = "cn" THEN Point(Generator, {n}) ELSE EphemeralKey(n, Main(w)))
             = EphemeralKey(n, Main(w))
    BY DEF EphemeralKey, Main
  <1>2. ledger' = Append(ledger, e) /\ UNCHANGED <<era, tables, scanned>>
    BY <1>1 DEF Mined, Entry
  <1>3. Main(w) \in Places /\ Coin \in Nat
    BY EnotesAssumption DEF Main, Places, EnotesAssumption
  <1>4. p \in PaidOut /\ p.kind = "coinbase" /\ p.amount = Coin
    BY <1>3 DEF PaidOut
  <1> HIDE DEF p
  <1>5. Settles(ps, {}, Coin)
    <2>1. Worth(ps) = Coin
      BY <1>3, <1>4, WorthOfOne
    <2>2. Len(ps) = 1 /\ DOMAIN ps = 1 .. 1 /\ \A i \in 1 .. 1 : ps[i] = p
      OBVIOUS
    <2> HIDE DEF ps
    <2> QED
      BY <1>4, <2>1, <2>2 DEF Settles
  <1>6. era \in {"cn", "carrot"} /\ LedgerFits(ledger)
    BY DEF EnotesKept
  <1> HIDE DEF n, context, ps
  <1>7. Adds(n, e, Coin)
    BY <1>3, <1>5, <1>6, EntryIsMade
  <1>8. e.images = {}
    BY DEF Entry
  <1> HIDE DEF e
  <1>9. SpentBefore(ledger, e) /\ TakenBy(ledger, e) = {}
    BY <1>8 DEF SpentBefore, TakenBy
  <1>10. Value(TakenBy(ledger, e)) = 0
    BY <1>9, ValueOfFew
  <1>11. Value(AddedBy(n, e)) = Value(TakenBy(ledger, e)) + IF e.images = {} THEN Coin ELSE 0
    BY <1>3, <1>7, <1>8, <1>10 DEF Adds
  <1>12. LedgerFits(Append(ledger, e))
    BY <1>6, <1>7, <1>9, <1>11, EnotesAssumption, LedgerGrows DEF n, Adds
  <1> QED
    BY <1>2, <1>12, MoreIsKept

\* A transfer is made.
LEMMA PaidIsKept ==
    ASSUME EnotesAssumption, EnotesKept, NEW w \in Holders, NEW rs \in SUBSET Usable(w),
           NEW first \in rs, NEW top \in rs, NEW k \in 1 .. MostDests,
           NEW dests \in [1 .. k -> [to : Places, amount : 1 .. Coin]],
           Pay(w, rs, dests, first, top)
    PROVE  EnotesKept'
  <1> DEFINE n == Len(ledger) + 1
             total == AmountOf(rs)
             ps == Payments(w, dests, total)
             context == <<"ring", first.image[1], first.image[2]>>
             stored == <<"ring", top.image[1], top.image[2]>>
             images == {r.image : r \in rs}
             lead == ps[1].to
             e == Entry(n, images, context, stored, lead, ps)
  <1>1. /\ ledger' = Append(ledger, e) /\ UNCHANGED <<era, tables, scanned>>
        /\ AmountIn(dests) <= total
    BY DEF Pay, Entry
  <1>2. e.images = images
    BY DEF Entry
  <1>3. images # {}
    <2>1. first.image \in images
      OBVIOUS
    <2> QED
      BY <2>1
  <1>4. era \in {"cn", "carrot"} /\ LedgerFits(ledger) /\ k \in Nat \ {0}
    BY EnotesAssumption DEF EnotesKept, EnotesAssumption
  <1>5. SpentBefore(ledger, e) /\ total \in Int /\ Value(TakenBy(ledger, e)) = total
    BY <1>2, TakenIs
  <1> HIDE DEF total, images
  <1>6. Settles(ps, images, total)
    BY <1>1, <1>3, <1>4, <1>5, PaymentsComeTo
  <1> HIDE DEF ps
  <1>7. lead \in Places
    BY <1>6 DEF PaidOut, Settles
  <1> HIDE DEF n, lead, context, stored
  <1>8. Adds(n, e, total)
    BY <1>4, <1>6, <1>7, EntryIsMade
  <1> HIDE DEF e
  <1>9. Value(AddedBy(n, e)) = Value(TakenBy(ledger, e)) + IF e.images = {} THEN Coin ELSE 0
    BY <1>2, <1>3, <1>5, <1>8 DEF Adds
  <1>10. LedgerFits(Append(ledger, e))
    BY <1>4, <1>5, <1>8, <1>9, EnotesAssumption, LedgerGrows DEF n, Adds
  <1> QED
    BY <1>1, <1>10, MoreIsKept

\* A wallet looks at the next transaction.
LEMMA ScannedIsKept ==
    ASSUME EnotesKept, NEW w \in Holders, scanned[w] < Len(ledger), NEW alike, ScanNext(w, alike)
    PROVE  EnotesKept'
  <1> DEFINE n == scanned[w] + 1
             tx == ledger[n]
             found == {RecordOf(w, n, o) : o \in {q \in tx.outs : Recognised(w, tx, q, alike)}}
             marked == {[r EXCEPT !.spent = @ \/ r.image \in tx.images] : r \in tables[w]}
             t == found \cup marked
  <1>1. /\ tables' = [tables EXCEPT ![w] = t] /\ scanned' = [scanned EXCEPT ![w] = n]
        /\ UNCHANGED <<era, ledger>>
    BY DEF ScanNext
  <1>2. /\ Len(ledger) \in Nat /\ LedgerFits(ledger) /\ era \in {"cn", "carrot"}
        /\ scanned \in [Holders -> 0 .. Len(ledger)] /\ tables = [v \in Holders |-> tables[v]]
        /\ \A v \in Holders : TableFits(ledger, v, scanned[v], tables[v])
    BY LedgerIs DEF EnotesKept
  <1>3. scanned[w] \in Nat /\ n \in 1 .. Len(ledger) /\ n - 1 = scanned[w]
    BY <1>2
  <1>4. TxMade(n, tx) /\ \A m \in 1 .. n : SpendsEarlier(ledger, m)
    BY <1>2, <1>3, LedgerIs
  <1> HIDE DEF n
  <1>5. \A image : SpentUpTo(ledger, n, image) <=>
                       SpentUpTo(ledger, scanned[w], image) \/ image \in tx.images
    <2>1. \A m : m \in 1 .. n <=> m \in 1 .. scanned[w] \/ m = n
      BY <1>3
    <2> QED
      BY <2>1 DEF SpentUpTo
  <1>6. \A i : ~SpentUpTo(ledger, n, <<n, i>>)
    <2>1. ASSUME NEW i, SpentUpTo(ledger, n, <<n, i>>) PROVE FALSE
      <3>1. PICK m \in 1 .. n : <<n, i>> \in ledger[m].images
        BY <2>1 DEF SpentUpTo
      <3>2. PICK h \in 1 .. m - 1 : \E o \in ledger[h].outs : <<n, i>> = <<h, o.index>>
        BY <1>4, <3>1 DEF SpendsEarlier
      <3>3. n = h
        BY <3>2
      <3> QED
        BY <1>3, <3>3
    <2> QED
      BY <2>1
  <1>7. \A o : Recognised(w, tx, o, alike) <=> OwnOutput(w, tx, o)
    BY DEF Recognised, OwnOutput
  <1>8. \A o : Records(w, n, tx, o, RecordIn(w, n, tx, o)) /\ RecordIn(w, n, tx, o).spent = FALSE
    <2>1. ASSUME NEW o
          PROVE  Records(w, n, tx, o, RecordIn(w, n, tx, o)) /\ RecordIn(w, n, tx, o).spent = FALSE
      <3> DEFINE x == RecordIn(w, n, tx, o)
      <3>1. x = [image |-> x.image, sub |-> x.sub, amount |-> x.amount, carrot |-> x.carrot,
                 committed |-> x.committed, spent |-> x.spent, mask |-> x.mask]
            /\ x.spent = FALSE
        BY DEF RecordIn
      <3> HIDE DEF x
      <3>2. x = [x EXCEPT !.spent = x.spent]
        BY <3>1
      <3> QED
        BY <3>1, <3>2 DEF Records, x
    <2> QED
      BY <2>1
  <1>9. ASSUME NEW r \in found
        PROVE  /\ \E m \in 1 .. n : \E o \in ledger[m].outs :
                      OwnOutput(w, ledger[m], o) /\ Records(w, m, ledger[m], o, r)
               /\ r.spent = SpentUpTo(ledger, n, r.image)
    <2>1. PICK o \in tx.outs : OwnOutput(w, tx, o) /\ r = RecordIn(w, n, tx, o)
      BY <1>7, RecordOfIs
    <2>2. Records(w, n, tx, o, r) /\ r.spent = FALSE
      BY <1>8, <2>1
    <2>3. PICK p \in tx.outs : p.key = o.key /\ ImageIn(n, tx, o) = <<n, p.index>>
      BY <1>4, ImageIs
    <2>4. r.image = <<n, p.index>>
      BY <2>2, <2>3, RecordParts
    <2>5. ~SpentUpTo(ledger, n, r.image)
      BY <1>6, <2>4
    <2>6. r.spent = SpentUpTo(ledger, n, r.image)
      BY <2>2, <2>5 DEF SpentUpTo
    <2>7. n \in 1 .. n
      BY <1>3
    <2> QED
      BY <2>1, <2>2, <2>6, <2>7
  <1>10. ASSUME NEW r \in tables[w]
         PROVE  LET s == [r EXCEPT !.spent = @ \/ r.image \in tx.images]
                IN  /\ \A m, o : Records(w, m, ledger[m], o, r) => Records(w, m, ledger[m], o, s)
                    /\ s.spent = SpentUpTo(ledger, n, s.image)
    <2> DEFINE s == [r EXCEPT !.spent = @ \/ r.image \in tx.images]
    <2>1. PICK m \in 1 .. scanned[w] : \E o \in ledger[m].outs :
               OwnOutput(w, ledger[m], o) /\ Records(w, m, ledger[m], o, r)
      BY <1>2 DEF TableFits
    <2>2. PICK o \in ledger[m].outs : Records(w, m, ledger[m], o, r)
      BY <2>1
    <2> DEFINE x == RecordIn(w, m, ledger[m], o)
    <2>3. x = [image |-> x.image, sub |-> x.sub, amount |-> x.amount, carrot |-> x.carrot,
               committed |-> x.committed, spent |-> x.spent, mask |-> x.mask]
          /\ r = [x EXCEPT !.spent = r.spent]
      BY <2>2 DEF RecordIn, Records
    <2> HIDE DEF x
    <2>4. s.image = r.image /\ s.spent = (r.spent \/ r.image \in tx.images)
      BY <2>3
    <2>5. r.spent = SpentUpTo(ledger, scanned[w], r.image)
      BY <1>2 DEF TableFits
    <2>6. s.spent = SpentUpTo(ledger, n, s.image)
      <3>1. SpentUpTo(ledger, n, r.image) = (SpentUpTo(ledger, scanned[w], r.image) \/ r.image \in tx.images)
        BY <1>5 DEF SpentUpTo
      <3> QED
        BY <2>4, <2>5, <3>1
    <2>7. ASSUME NEW i, NEW p, Records(w, i, ledger[i], p, r) PROVE Records(w, i, ledger[i], p, s)
      <3> DEFINE y == RecordIn(w, i, ledger[i], p)
      <3>1. y = [image |-> y.image, sub |-> y.sub, amount |-> y.amount, carrot |-> y.carrot,
                 committed |-> y.committed, spent |-> y.spent, mask |-> y.mask]
            /\ r = [y EXCEPT !.spent = r.spent]
        BY <2>7 DEF RecordIn, Records
      <3> HIDE DEF y
      <3>2. s = [y EXCEPT !.spent = s.spent]
        BY <3>1
      <3> QED
        BY <3>2 DEF Records, y
    <2> HIDE DEF s
    <2> QED
      BY <2>6, <2>7 DEF s
  <1>11. ASSUME NEW s \in marked
         PROVE  /\ \E m \in 1 .. n : \E o \in ledger[m].outs :
                       OwnOutput(w, ledger[m], o) /\ Records(w, m, ledger[m], o, s)
                /\ s.spent = SpentUpTo(ledger, n, s.image)
    <2>1. PICK r \in tables[w] : s = [r EXCEPT !.spent = @ \/ r.image \in tx.images]
      OBVIOUS
    <2>2. /\ \A m, o : Records(w, m, ledger[m], o, r) => Records(w, m, ledger[m], o, s)
          /\ s.spent = SpentUpTo(ledger, n, s.image)
      BY <1>10, <2>1
    <2>3. PICK m \in 1 .. scanned[w] : \E o \in ledger[m].outs :
               OwnOutput(w, ledger[m], o) /\ Records(w, m, ledger[m], o, r)
      BY <1>2 DEF TableFits
    <2>4. m \in 1 .. n
      BY <1>3
    <2> QED
      BY <2>2, <2>3, <2>4
  <1>12. ASSUME NEW m \in 1 .. n, NEW o \in ledger[m].outs, OwnOutput(w, ledger[m], o)
         PROVE  \E r \in t : Records(w, m, ledger[m], o, r)
    <2>1. CASE m = n
      <3>1. RecordOf(w, n, o) \in found /\ RecordOf(w, n, o) = RecordIn(w, n, tx, o)
        BY <1>7, <1>12, <2>1, RecordOfIs
      <3> QED
        BY <1>8, <2>1, <3>1
    <2>2. CASE m # n
      <3>1. m \in 1 .. scanned[w]
        BY <1>3, <2>2
      <3>2. PICK r \in tables[w] : Records(w, m, ledger[m], o, r)
        BY <1>2, <1>12, <3>1 DEF TableFits
      <3>3. [r EXCEPT !.spent = @ \/ r.image \in tx.images] \in marked
        OBVIOUS
      <3> QED
        BY <1>10, <3>2, <3>3
    <2> QED
      BY <2>1, <2>2
  <1> HIDE DEF found, marked, tx
  <1>13. TableFits(ledger, w, n, t)
    BY <1>9, <1>11, <1>12 DEF TableFits
  <1> HIDE DEF t
  <1>14. /\ scanned' \in [Holders -> 0 .. Len(ledger)] /\ tables' = [v \in Holders |-> tables'[v]]
         /\ \A v \in Holders : v # w => scanned'[v] = scanned[v] /\ tables'[v] = tables[v]
         /\ scanned'[w] = n /\ tables'[w] = t
    <2>1. n \in 0 .. Len(ledger)
      BY <1>2, <1>3
    <2> QED
      BY <1>1, <1>2, <2>1
  <1>15. ASSUME NEW v \in Holders PROVE TableFits(ledger, v, scanned'[v], tables'[v])
    <2>1. CASE v = w
      BY <1>13, <1>14, <2>1
    <2>2. CASE v # w
      BY <1>2, <1>14, <2>2
    <2> QED
      BY <2>1, <2>2
  <1> QED
    BY <1>1, <1>2, <1>14, <1>15 DEF EnotesKept

LEMMA EnotesInitKept == EnotesInit => EnotesKept
  <1> SUFFICES ASSUME EnotesInit PROVE EnotesKept
    OBVIOUS
  <1>1. /\ era = "cn" /\ ledger = <<>> /\ tables = [w \in Holders |-> {}]
        /\ scanned = [w \in Holders |-> 0]
    BY DEF EnotesInit
  <1>2. Len(ledger) = 0 /\ DOMAIN ledger = {} /\ ledger \in Seq({})
    BY <1>1
  <1>3. UnspentIn(ledger) = {} /\ MinersIn(ledger) = {}
    BY <1>2 DEF UnspentIn, MinersIn
  <1>4. IsFiniteSet({}) /\ Cardinality({}) = 0
    BY FS_EmptySet
  <1>5. Value({}) = Coin * 0
    <2>1. Coin \in Nat
      BY EnotesAssumption DEF EnotesAssumption
    <2> QED
      BY <2>1, ValueOfFew
  <1>6. \A n \in 1 .. Len(ledger) : TxMade(n, ledger[n]) /\ SpendsEarlier(ledger, n)
    BY <1>2
  <1>7. LedgerFits(ledger)
    BY <1>2, <1>3, <1>4, <1>5, <1>6 DEF LedgerFits
  <1>8. \A w \in Holders : TableFits(ledger, w, scanned[w], tables[w])
    BY <1>1 DEF TableFits
  <1>9. scanned \in [Holders -> 0 .. Len(ledger)] /\ tables = [w \in Holders |-> tables[w]]
    BY <1>1, <1>2
  <1> QED
    BY <1>1, <1>7, <1>8, <1>9 DEF EnotesKept

LEMMA EnotesStep == EnotesKept /\ [EnotesNext]_enotesVars => EnotesKept'
  <1> SUFFICES ASSUME EnotesKept, [EnotesNext]_enotesVars PROVE EnotesKept'
    OBVIOUS
  <1>1. EnotesAssumption
    BY EnotesAssumption
  <1>2. CASE Fork
    BY <1>2 DEF Fork, EnotesKept
  <1>3. ASSUME NEW w \in Holders, Mined(w) PROVE EnotesKept'
    BY <1>1, <1>3, MinedIsKept
  <1>4. ASSUME NEW w \in Holders, scanned[w] < Len(ledger),
               NEW alike \in SUBSET ledger[scanned[w] + 1].outs, ScanNext(w, alike)
        PROVE  EnotesKept'
    BY <1>4, ScannedIsKept
  <1>5. ASSUME NEW w \in Holders, NEW rs \in SUBSET Usable(w), NEW first \in rs, NEW top \in rs,
               NEW k \in 1 .. MostDests, NEW dests \in [1 .. k -> [to : Places, amount : 1 .. Coin]],
               Pay(w, rs, dests, first, top)
        PROVE  EnotesKept'
    BY <1>1, <1>5, PaidIsKept
  <1>6. CASE UNCHANGED enotesVars
    BY <1>6 DEF enotesVars, EnotesKept
  <1> QED
    BY <1>2, <1>3, <1>4, <1>5, <1>6 DEF EnotesNext

\* Sender and receiver agree about the outputs, for any wallets, subaddresses and
\* amounts: a wallet takes for its own what was made for it, finds and can spend
\* what both sides describe alike, and all wallets together hold no more than was mined.
THEOREM WhatIsSentIsFound == EnotesSpec => []EnotesHold
  <1>1. EnotesInit => EnotesKept
    BY EnotesInitKept
  <1>2. EnotesKept /\ [EnotesNext]_enotesVars => EnotesKept'
    BY EnotesStep
  <1>3. EnotesKept => EnotesHold
    BY EnotesAssumption, KeptIsOwn, KeptIsFound, KeptFromSomething DEF EnotesHold
  <1> QED
    BY <1>1, <1>2, <1>3, PTL DEF EnotesSpec
=============================================================================
