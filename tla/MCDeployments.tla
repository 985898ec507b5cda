--------------------------- MODULE MCDeployments ---------------------------
(***************************************************************************)
(* Instances of Deployments for TLC.                                       *)
(***************************************************************************)
EXTENDS Deployments

CONSTANTS d1, d2, e1, r1, r2, w1, w2
=============================================================================
