------------------------------ MODULE Multisig ------------------------------
(***************************************************************************)
(* The key exchange of multisig.js (MultisigAccount): every signer hands out *)
(* a message per round and takes one message of each other signer per round. *)
(*                                                                         *)
(* Keys are symbols: the public spend key of a signer is the signer, a sum   *)
(* of keys the set of its terms, a Diffie-Hellman key the pair of the keys   *)
(* it is made from.  A message of a later round holds no spend key and reads *)
(* as Junk.  updateKex() looks at the number of messages, not at their       *)
(* rounds: any message a signer has sent may come in, late or again.        *)
(***************************************************************************)
EXTENDS Naturals, FiniteSets

CONSTANTS Signers, Junk

ASSUME SignersAssumption ==
    /\ IsFiniteSet(Signers) /\ Cardinality(Signers) >= 2 /\ Junk \notin Signers

VARIABLES
    kexRound,   \* this.kexRound of each signer
    sent,       \* the rounds each signer has sent its message of
    known,      \* this.signers: the spend key each signer has of each other
    shares,     \* this.multisigKeyShares
    spendKey,   \* this.multisigPublicSpendKey, {} before the end
    viewKey,    \* this.multisigPublicViewKey, {} before the end
    beganRight  \* history: the signers that began with messages of the first round

kexVars == <<kexRound, sent, known, shares, spendKey, viewKey, beganRight>>

KexRoundsRequired == Cardinality(Signers)
KexComplete(i) == spendKey[i] # {}
AllKeys == Signers \union {Junk}

KexInit ==
    /\ kexRound = [i \in Signers |-> 0]
    /\ sent = [i \in Signers |-> {}]
    /\ known = [i \in Signers |-> <<>>]
    /\ shares = [i \in Signers |-> {}]
    /\ spendKey = [i \in Signers |-> {}]
    /\ viewKey = [i \in Signers |-> {}]
    /\ beganRight = {}

\* Once for each signer and before its updateKex: the code would take both again.
InitializeKex(i) ==
    /\ kexRound[i] = 0
    /\ kexRound' = [kexRound EXCEPT ![i] = 1]
    /\ sent' = [sent EXCEPT ![i] = {1}]
    /\ UNCHANGED <<known, shares, spendKey, viewKey, beganRight>>

\* The public key in the message of round r of j.
KeyIn(j, r) == IF r = 1 THEN j ELSE Junk

\* Seeded fault: the signers are taken again from the messages of every round.
SignersFrom_EveryRound(i, picked) == [j \in Signers \ {i} |-> KeyIn(j, picked[j])]

\* this.signers is set in the first round and stays.
SignersFrom(i, picked) ==
    IF kexRound[i] = 1 THEN [j \in Signers \ {i} |-> KeyIn(j, picked[j])] ELSE known[i]

\* _finalizeKex: the sum of the own key and the others'; the view key is left
\* to what the signer contributes itself.
SpendKey(i, theirs) == {i} \union {theirs[j] : j \in Signers \ {i}}

\* updateKex() with one message of each other signer.
UpdateKex(i, picked) ==
    /\ kexRound[i] > 0 /\ ~KexComplete(i)
    /\ \A j \in Signers \ {i} : picked[j] \in sent[j]
    /\ beganRight' = IF kexRound[i] = 1 /\ \A j \in Signers \ {i} : picked[j] = 1
                     THEN beganRight \union {i} ELSE beganRight
    /\ LET theirs == SignersFrom(i, picked) IN
       /\ known' = [known EXCEPT ![i] = theirs]
       /\ shares' = [shares EXCEPT ![i] = {{i, theirs[j]} : j \in Signers \ {i}}]
       /\ kexRound' = [kexRound EXCEPT ![i] = @ + 1]
       /\ IF kexRound[i] + 1 > KexRoundsRequired
          THEN /\ spendKey' = [spendKey EXCEPT ![i] = SpendKey(i, theirs)]
               /\ viewKey' = [viewKey EXCEPT ![i] = {i}]
               /\ UNCHANGED sent
          ELSE /\ sent' = [sent EXCEPT ![i] = @ \union {kexRound[i] + 1}]
               /\ UNCHANGED <<spendKey, viewKey>>

KexNext ==
    \E i \in Signers :
        \/ InitializeKex(i)
        \/ \E picked \in [Signers \ {i} -> 1 .. KexRoundsRequired] : UpdateKex(i, picked)

KexSpec == KexInit /\ [][KexNext]_kexVars

-----------------------------------------------------------------------------
\* Types of the accounts.
KexTypeOK ==
    /\ kexRound \in [Signers -> 0 .. KexRoundsRequired + 1]
    /\ sent \in [Signers -> SUBSET (1 .. KexRoundsRequired)]
    /\ shares \in [Signers -> SUBSET SUBSET AllKeys]
    /\ spendKey \in [Signers -> SUBSET AllKeys]
    /\ viewKey \in [Signers -> SUBSET Signers] /\ beganRight \subseteq Signers
    /\ \A i \in Signers :
          known[i] = <<>> \/ known[i] \in [Signers \ {i} -> AllKeys]

\* Signers that began with the right messages, whatever they were given in the
\* later rounds, end with the same spend key, the sum of all, and any two of
\* them with a key share in common.
KexAgrees ==
    \A i, j \in Signers :
        KexComplete(i) /\ KexComplete(j) /\ {i, j} \subseteq beganRight =>
            /\ spendKey[i] = Signers /\ spendKey[i] = spendKey[j]
            /\ i # j => {i, j} \in shares[i] \intersect shares[j]
=============================================================================
