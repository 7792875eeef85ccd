--------------------------- MODULE MCRobotCatalog ---------------------------
(***************************************************************************)
(* Instances of RobotCatalog for TLC.                                      *)
(***************************************************************************)
EXTENDS RobotCatalog, TLC

Sym == Permutations(Clients)

\* No property says anything after a request has straddled a deletion: such
\* states are reached and left there.
BeforeStraddling == ~straddled
=============================================================================
