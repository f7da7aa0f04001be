-------------------------- MODULE MCObservability --------------------------
(***************************************************************************)
(* Small instances of Observability.                                       *)
(***************************************************************************)
EXTENDS Observability

=============================================================================
