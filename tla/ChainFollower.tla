--------------------------- MODULE ChainFollower ---------------------------
(***************************************************************************)
(* What the synchronisation engine promises about the stretch of chain it   *)
(* has saved as synchronised: it follows the daemon's best chain.  It is    *)
(* extended only by blocks of the best chain, and shortened only when it    *)
(* has left that chain, to the last block the two have in common.           *)
(***************************************************************************)
EXTENDS Naturals, Sequences

CONSTANT Chains     \* the best chains the daemon may report

VARIABLES
    chain,          \* the daemon's best chain
    followed        \* the blocks the wallet has saved as synchronised

vars == <<chain, followed>>

IsPrefixOf(s, c) == Len(s) <= Len(c) /\ s = SubSeq(c, 1, Len(s))

\* The length of the longest common prefix.
CommonLength(s, c) ==
    CHOOSE n \in 0 .. Len(s) :
        /\ IsPrefixOf(SubSeq(s, 1, n), c)
        /\ \A m \in n + 1 .. Len(s) : ~IsPrefixOf(SubSeq(s, 1, m), c)

Init == chain \in Chains /\ followed = <<>>

ChainMoves == chain' \in Chains /\ UNCHANGED followed

Extend ==
    /\ IsPrefixOf(followed, chain)
    /\ \E n \in Len(followed) + 1 .. Len(chain) : followed' = SubSeq(chain, 1, n)
    /\ UNCHANGED chain

Rewind ==
    /\ ~IsPrefixOf(followed, chain)
    /\ followed' = SubSeq(followed, 1, CommonLength(followed, chain))
    /\ UNCHANGED chain

Next == ChainMoves \/ Extend \/ Rewind

Spec == Init /\ [][Next]_vars
=============================================================================
