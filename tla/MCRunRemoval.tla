---------------------------- MODULE MCRunRemoval ----------------------------
(***************************************************************************)
(* Instances of RunRemoval for TLC.                                        *)
(***************************************************************************)
EXTENDS RunRemoval

\* One run of each of two robots.
MCQueue == <<1, 2>>
=============================================================================
