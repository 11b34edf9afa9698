----------------------- MODULE MCPromotionRefinement -----------------------
(***************************************************************************)
(* Instances of PromotionRefinement for TLC: two promotions that overlap,  *)
(* with their properties and the refinement of ServingCutover.             *)
(***************************************************************************)
EXTENDS PromotionRefinement, TLC

CONSTANTS c1, c2, g0, g1, g2

TwoCoordinators == {c1, c2}
Symmetry == Permutations(TwoCoordinators)

=============================================================================
