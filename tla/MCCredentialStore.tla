-------------------------- MODULE MCCredentialStore --------------------------
(***************************************************************************)
(* Instances of CredentialStore for TLC.                                   *)
(***************************************************************************)
EXTENDS CredentialStore
=============================================================================
