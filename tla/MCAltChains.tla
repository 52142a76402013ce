----------------------------- MODULE MCAltChains -----------------------------
(***************************************************************************)
(* A small block tree for AltChains.                                        *)
(*                                                                         *)
(*        g --- a1 --- a2 --- a3 --- a4                                     *)
(*        |                                                                 *)
(*        +---- b1 --- b2 --- b3         (some may have more work)          *)
(*                     |                                                    *)
(*                     +----- c3         (c3 is refused on the main chain)  *)
(*                                                                         *)
(* x2, on top of a1, is refused for its timestamp when a1 is not the tip;    *)
(* y3, on top of a2, is refused as an alternative block; e3 is on top of x2. *)
(***************************************************************************)
EXTENDS AltChains

CONSTANTS g, a1, a2, a3, a4, b1, b2, b3, c3, x2, y3, e3

Ancestry == {<<a1, g>>, <<a2, a1>>, <<a3, a2>>, <<a4, a3>>, <<b1, g>>, <<b2, b1>>,
             <<b3, b2>>, <<c3, b2>>, <<x2, a1>>, <<y3, a2>>, <<e3, x2>>}

ParentIn(bs) == [b \in bs \ {g} |-> CHOOSE p \in bs : <<b, p>> \in Ancestry]

\* With refused blocks, and more work in the shorter branch.
Mixed == {g, a1, a2, a3, a4, b1, b2, b3, c3, x2, y3, e3}
MixedParent == ParentIn(Mixed)
MixedWork ==
    [b \in Mixed |-> CASE b \in {a3, b2, c3} -> 2 [] b = a4 -> 6 [] OTHER -> 1]

\* Two branches whose blocks all have the same work.
Plain == {g, a1, a2, a3, a4, b1, b2, b3}
PlainParent == ParentIn(Plain)
PlainWork == [b \in Plain |-> 1]
=============================================================================
