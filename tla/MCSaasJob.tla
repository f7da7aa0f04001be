----------------------------- MODULE MCSaasJob -----------------------------
(***************************************************************************)
(* Small instances of SaasJob.                                             *)
(***************************************************************************)
EXTENDS SaasJob

=============================================================================
