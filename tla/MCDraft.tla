-------------------------------- MODULE MCDraft --------------------------------
(***************************************************************************)
(* Instances of Draft for TLC: layers a, b and c, transactors x1 and x2,   *)
(* modifiers m1 and m2, a writer w.                                        *)
(***************************************************************************)
EXTENDS Draft

CONSTANTS a, b, c, x1, x2, m1, m2, w

\* Two transactions claim the layers a and b in opposite orders, beside two modifiers of a.
\* A writer changes c, without a claim.
OppositeOrders ==
  [t \in {x1, x2, m1, m2, w} |->
     CASE t = x1 -> <<a, b>> [] t = x2 -> <<b, a>> [] t = w -> <<c>> [] OTHER -> <<a>>]

\* A transaction and a writer of the same layer.
Unclaimed == [t \in {x1, w} |-> <<a>>]
=============================================================================
