----------------------------- MODULE Processing -----------------------------
(***************************************************************************)
(* The engine, fused pipelines, the arena, remote execution and the        *)
(* io_uring engine together.  None of them calls another or shares memory  *)
(* with it (the server of Remote is a process of its own), so `focus'      *)
(* picks the one whose steps are explored, as in Observability.            *)
(***************************************************************************)
EXTENDS Engine, FusedPipeline, Arena, Remote, IoRing

VARIABLE focus

vars == <<focus, engineVars, fusedVars, arenaVars, remoteVars, ioVars>>

Init ==
  /\ focus \in {"engine", "fused", "arena", "remote", "uring"}
  /\ EngineInit /\ FusedInitial /\ ArenaInit /\ RemoteInit /\ IoInit
  /\ focus # "engine" => caps = {}      \* a part out of focus has one start
  /\ focus # "fused" => ~avx2

Next ==
  /\ UNCHANGED focus
  /\ \/ /\ focus = "engine" /\ EngineNext
        /\ UNCHANGED <<fusedVars, arenaVars, remoteVars, ioVars>>
     \/ /\ focus = "fused" /\ FusedNext
        /\ UNCHANGED <<engineVars, arenaVars, remoteVars, ioVars>>
     \/ /\ focus = "arena" /\ ArenaNext
        /\ UNCHANGED <<engineVars, fusedVars, remoteVars, ioVars>>
     \/ /\ focus = "remote" /\ RemoteNext
        /\ UNCHANGED <<engineVars, fusedVars, arenaVars, ioVars>>
     \/ /\ focus = "uring" /\ IoNext
        /\ UNCHANGED <<engineVars, fusedVars, arenaVars, remoteVars>>

Spec == Init /\ [][Next]_vars
FairSpec == Spec /\ EngineFair

=============================================================================
