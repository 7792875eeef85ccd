--------------------------- MODULE MCTeachSession ---------------------------
(***************************************************************************)
(* Instances of TeachSession for TLC.                                      *)
(***************************************************************************)
EXTENDS TeachSession

\* Filling the field of one label, of which each frame has one, and a click.
MCEvents == {[raw |-> "fill data", label |-> "data"],
             [raw |-> "click", label |-> NotInput]}
=============================================================================
