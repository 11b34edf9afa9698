---------------------------- MODULE MCRetirement ----------------------------
(***************************************************************************)
(* Instances of GenerationRetirement for TLC.                              *)
(***************************************************************************)
EXTENDS GenerationRetirement, TLC

CONSTANTS c1, c2, g0, g1, g2

TwoCoordinators == {c1, c2}
Symmetry == Permutations(TwoCoordinators) \cup Permutations({g1, g2})

=============================================================================
