---------------------------- MODULE MCPrintJob ----------------------------
(***************************************************************************)
(* Small instances of PrintJob: the four blocks a job needs at most, of    *)
(* which the host keeps any number, so that every allocation can succeed   *)
(* and can fail; one caller, and two.                                      *)
(***************************************************************************)
EXTENDS PrintJob

\* Threads that call img_api_run_job and nothing else.
JobsOnly == Init /\ [][\E c \in Callers : CallJob(c) \/ Step(c)]_vars

=============================================================================
