--------------------------- MODULE MCRobotSecrets ---------------------------
(***************************************************************************)
(* Instances of RobotSecrets for TLC.                                      *)
(***************************************************************************)
EXTENDS RobotSecrets, TLC

Sym == Permutations(Callers)
=============================================================================
