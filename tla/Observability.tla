--------------------------- MODULE Observability ---------------------------
(***************************************************************************)
(* Logger, binary log and metrics together.  They share no variable, no    *)
(* lock and no call, so a behaviour of the three is any interleaving of a  *)
(* behaviour of each, and a property of one depends on that one's steps    *)
(* alone: `focus' picks the one whose steps are explored.                  *)
(***************************************************************************)
EXTENDS Logger, Binlog, Metrics

VARIABLE focus

vars == <<focus, logVars, binVars, metVars>>

Init ==
  /\ focus \in {"logger", "binlog", "metrics"}
  /\ LogInit /\ BinInit /\ MetInit

Next ==
  /\ UNCHANGED focus
  /\ \/ focus = "logger" /\ LogNext /\ UNCHANGED <<binVars, metVars>>
     \/ focus = "binlog" /\ BinNext /\ UNCHANGED <<logVars, metVars>>
     \/ focus = "metrics" /\ MetNext /\ UNCHANGED <<logVars, binVars>>

Spec == Init /\ [][Next]_vars
FairSpec == Spec /\ LogFairness

TypeOK == LogTypeOK /\ BinTypeOK /\ MetTypeOK

=============================================================================
