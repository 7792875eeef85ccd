---------------------------- MODULE MCHubSchedule ----------------------------
(***************************************************************************)
(* Instances of HubSchedule for TLC.                                       *)
(***************************************************************************)
EXTENDS HubSchedule
=============================================================================
