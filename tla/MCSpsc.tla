------------------------------- MODULE MCSpsc -------------------------------
(***************************************************************************)
(* Small instances of SpscQueue: one thread on each side, and rings that   *)
(* wrap without bound.                                                     *)
(***************************************************************************)
EXTENDS SpscQueue

=============================================================================
