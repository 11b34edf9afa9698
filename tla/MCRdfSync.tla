----------------------------- MODULE MCRdfSync -----------------------------
(***************************************************************************)
(* Instances of RdfSync for TLC.                                           *)
(***************************************************************************)
EXTENDS RdfSync

CONSTANTS q1, q2, p1, w1, w2

=============================================================================
