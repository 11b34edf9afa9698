---------------------------- MODULE MCServingPointer ----------------------------
(***************************************************************************)
(* Instances of ServingPointer for TLC.                                    *)
(***************************************************************************)
EXTENDS ServingPointer, TLC

CONSTANTS ga, gb, gc, o1, o2, r1, bx, by
=============================================================================
