----------------------------- MODULE MCMigration -----------------------------
(***************************************************************************)
(* Instances of Migration for TLC.                                         *)
(***************************************************************************)
EXTENDS Migration, TLC

Sym == Permutations(Procs)
=============================================================================
