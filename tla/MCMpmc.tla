------------------------------- MODULE MCMpmc -------------------------------
(***************************************************************************)
(* Small instances of MpmcQueue.                                           *)
(***************************************************************************)
EXTENDS MpmcQueue, TLC

\* Threads and values are interchangeable: nothing orders or names them.
Symmetry == Permutations(Threads) \cup Permutations(Values)

=============================================================================
