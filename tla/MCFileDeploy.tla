---------------------------- MODULE MCFileDeploy ----------------------------
(* The instance of FileDeploy that TLC explores: two versions that share a  *)
(* file, each with a file of its own.                                       *)
EXTENDS FileDeploy, TLC

CONSTANTS v1, v2, p1, p2, p3

MCFiles == v1 :> {p1, p2} @@ v2 :> {p2, p3}
=============================================================================
