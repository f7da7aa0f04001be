---------------------------- MODULE CommandLine ----------------------------
(***************************************************************************)
(* cmd/imgengine: how a command line becomes a print job and an exit code. *)
(* An argv is a function from the long options that were given to their    *)
(* values; a path is any non-zero number, lengths in cm are in tenths.     *)
(***************************************************************************)
EXTENDS Naturals

\* The numeric fields of img_cli_options_t that img_build_job copies to the job.
JobFields == {"cols", "rows", "gap", "padding", "width", "height", "dpi", "border",
              "bleed", "crop_mark", "crop_thickness", "crop_offset"}

Options == JobFields \cup {"input", "output", "threads"}

\* img_job_defaults
JobDefaults ==
  [cols |-> 2, rows |-> 3, gap |-> 15, padding |-> 20, width |-> 45, height |-> 35,
   dpi |-> 300, border |-> 2, bleed |-> 10, crop_mark |-> 20, crop_thickness |-> 2,
   crop_offset |-> 8]

\* img_parse_args: an option that is not given leaves the zero of the memset.
ParseArgs(argv) ==
  [f \in Options |->
     LET v == IF f \in DOMAIN argv THEN argv[f] ELSE 0
     IN  IF f = "threads" /\ v = 0 THEN 1 ELSE v]

ArgsOk(opts) == opts["input"] # 0 /\ opts["output"] # 0

\* img_build_job: a zero is taken for "not given".
BuildJob(opts) ==
  [f \in JobFields |-> IF opts[f] # 0 THEN opts[f] ELSE JobDefaults[f]]

\* The worker counts img_api_init accepts.
WorkersOk(n) == n \in 1 .. 64

\* main: the exit code, when memOk says that img_api_init found its memory and jobOk
\* that img_api_run_job succeeded.
ExitCode(argv, memOk, jobOk) ==
  LET opts == ParseArgs(argv)
  IN  IF ArgsOk(opts) /\ WorkersOk(opts["threads"]) /\ memOk /\ jobOk THEN 0 ELSE 1

=============================================================================
