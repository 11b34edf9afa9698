---------------------------- MODULE MCPromotion ----------------------------
(***************************************************************************)
(* Instances of GenerationPromotion for TLC.  Coordinators are             *)
(* interchangeable in the safety runs.                                     *)
(***************************************************************************)
EXTENDS GenerationPromotion, TLC

CONSTANTS c1, c2, g0, g1, g2

TwoCoordinators == {c1, c2}
Symmetry == Permutations(TwoCoordinators)

=============================================================================
