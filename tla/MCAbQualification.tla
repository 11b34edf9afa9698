-------------------------- MODULE MCAbQualification --------------------------
(***************************************************************************)
(* Instances of AbQualification for TLC.                                   *)
(***************************************************************************)
EXTENDS AbQualification

CONSTANTS k1, k2
=============================================================================
