------------------------------ MODULE SaasJob ------------------------------
(***************************************************************************)
(* imgengine-saas: the API service stores a job and sends a Celery task;   *)
(* a worker runs imgengine_cli on it and reports through the API's         *)
(* internal route.                                                         *)
(*                                                                         *)
(* Between worker and API a PATCH may be answered, be answered with a 5xx  *)
(* (requests does not raise for it), or break: the worker gets an          *)
(* exception and the API applies the update later or never.  Processes may *)
(* die between two steps.  Celery acknowledges a task before running it,   *)
(* so a task that was running is gone with its worker.                     *)
(***************************************************************************)
EXTENDS CommandLine, FiniteSets

CONSTANTS
  Jobs,        \* uploads
  Workers,     \* Celery worker processes
  MaxRetries,  \* max_retries of the task (3 in the code)
  MaxFaults    \* bound: broken calls, 5xx answers and deaths in one behaviour

ASSUME RetryAssumption == MaxRetries \in Nat /\ MaxFaults \in Nat
ASSUME JobsAssumption == "none" \notin Jobs   \* the job of a worker that has none

VARIABLES
  api,     \* api[j]: how far generate() is
  row,     \* row[j]: the row of the jobs table
  broker,  \* the tasks in Redis
  wpc,     \* wpc[w]: the next step of process_image
  task,    \* task[w]: what worker w processes
  late,    \* updates whose call broke and that the API may still apply
  sheet,   \* sheet[j]: the job parameters of the sheet in j's output file
  faults,
  runs,    \* history: how often the engine was started for j
  exits,   \* history: exits[j], the exit codes seen for j
  cut,     \* history: jobs one of whose calls broke, or whose engine could not start
  lost,    \* history: jobs whose task or final update is gone
  undone   \* history: jobs whose final status a late update overwrote

apiVars    == <<api, row>>
workerVars == <<broker, wpc, task>>
history    == <<runs, exits, cut, lost, undone>>
vars == <<apiVars, workerVars, late, sheet, faults, history>>

NoRow   == [status |-> "none", error |-> FALSE, logs |-> FALSE]
NoTask  == [job |-> "none", retries |-> 0]
NoSheet == [f \in JobFields |-> 0]

Final == {"completed", "failed"}

\* GenerateJob's defaults, which generate() stores and sends unchanged.
Settings ==
  [cols |-> 6, rows |-> 6, gap |-> 15, padding |-> 20, width |-> 45, height |-> 35,
   dpi |-> 300, border |-> 2, bleed |-> 0, crop_mark |-> 15, crop_thickness |-> 2,
   crop_offset |-> 8]

\* run_engine's command line: every setting, and the two paths.
Cmd == [f \in JobFields \cup {"input", "output"} |->
          IF f \in JobFields THEN Settings[f] ELSE 1]

Init ==
  /\ api = [j \in Jobs |-> "none"]
  /\ row = [j \in Jobs |-> NoRow]
  /\ broker = {}
  /\ wpc = [w \in Workers |-> "idle"]
  /\ task = [w \in Workers |-> NoTask]
  /\ late = {}
  /\ sheet = [j \in Jobs |-> NoSheet]
  /\ faults = 0
  /\ runs = [j \in Jobs |-> 0]
  /\ exits = [j \in Jobs |-> {}]
  /\ cut = {} /\ lost = {} /\ undone = {}

Fault == faults < MaxFaults /\ faults' = faults + 1

-----------------------------------------------------------------------------
\* generate()

SaveUpload(j) ==
  /\ api[j] = "none"
  /\ api' = [api EXCEPT ![j] = "saved"]
  /\ UNCHANGED <<row, workerVars, late, sheet, faults, history>>

CommitJob(j) ==
  /\ api[j] = "saved"
  /\ api' = [api EXCEPT ![j] = "committed"]
  /\ row' = [row EXCEPT ![j] = [NoRow EXCEPT !.status = "queued"]]
  /\ UNCHANGED <<workerVars, late, sheet, faults, history>>

SendTask(j) ==
  /\ api[j] = "committed"
  /\ api' = [api EXCEPT ![j] = "answered"]
  /\ broker' = broker \cup {[job |-> j, retries |-> 0]}
  /\ UNCHANGED <<row, wpc, task, late, sheet, faults, history>>

\* The process dies or a call raises: the client gets an error; a committed row stays.
GenerateFails(j) ==
  /\ api[j] \in {"saved", "committed"}
  /\ Fault
  /\ api' = [api EXCEPT ![j] = "error"]
  /\ UNCHANGED <<row, workerVars, late, sheet, history>>

-----------------------------------------------------------------------------
\* update_job: nothing without a row, else the fields an update carries are
\* overwritten, whatever was there.
Updated(r, status) ==
  IF r = NoRow THEN r ELSE
  [status |-> status,
   error  |-> r.error \/ status \in {"failed", "retrying"},
   logs   |-> r.logs \/ status = "completed"]

Apply(j, status) == row' = [row EXCEPT ![j] = Updated(row[j], status)]

\* A broken call's update reaches the API after all ...
ApplyLate(u) ==
  /\ Apply(u.job, u.status)
  /\ late' = late \ {u}
  /\ undone' = IF row[u.job].status \in Final THEN undone \cup {u.job} ELSE undone
  /\ UNCHANGED <<api, workerVars, sheet, faults, runs, exits, cut, lost>>

\* ... or never does.
DropLate(u) ==
  /\ late' = late \ {u}
  /\ UNCHANGED <<apiVars, workerVars, sheet, faults, history>>

-----------------------------------------------------------------------------
\* process_image

Take(w, m) ==
  /\ wpc[w] = "idle"
  /\ broker' = broker \ {m}
  /\ task' = [task EXCEPT ![w] = m]
  /\ wpc' = [wpc EXCEPT ![w] = "processing"]
  /\ UNCHANGED <<apiVars, late, sheet, faults, history>>

\* requests.patch of a status; the worker goes on at next, or at broken.
Patch(w, status, next, broken) ==
  LET j == task[w].job
  IN  \/ /\ Apply(j, status)
         /\ wpc' = [wpc EXCEPT ![w] = next]
         /\ UNCHANGED <<late, faults, cut, lost>>
      \/ /\ Fault   \* a 5xx answer
         /\ wpc' = [wpc EXCEPT ![w] = next]
         /\ lost' = IF status \in Final THEN lost \cup {j} ELSE lost
         /\ UNCHANGED <<row, late, cut>>
      \/ /\ Fault   \* no answer
         /\ wpc' = [wpc EXCEPT ![w] = broken]
         /\ late' = late \cup {[job |-> j, status |-> status]}
         /\ cut' = cut \cup {j}
         /\ UNCHANGED <<row, lost>>

MarkProcessing(w) ==
  /\ wpc[w] = "processing"
  /\ Patch(w, "processing", "engine", "except")
  /\ UNCHANGED <<api, broker, task, sheet, runs, exits, undone>>

\* Mutation: the return code is not looked at.
RunEngineUnchecked(w) ==
  /\ wpc[w] = "engine"
  /\ runs' = [runs EXCEPT ![task[w].job] = @ + 1]
  /\ exits' = [exits EXCEPT ![task[w].job] = @ \cup {1}]
  /\ wpc' = [wpc EXCEPT ![w] = "completed"]
  /\ UNCHANGED <<apiVars, broker, task, late, sheet, faults, cut, lost, undone>>

Printed(j) == [sheet EXCEPT ![j] = BuildJob(ParseArgs(Cmd))]

\* The output file is opened with "wb": a run that fails or is killed may leave the sheet
\* of an earlier run, or no whole sheet.
Torn(j) == [sheet EXCEPT ![j] = NoSheet]

\* subprocess.run of the command line
RunEngine(w) ==
  /\ wpc[w] = "engine"
  /\ runs' = [runs EXCEPT ![task[w].job] = @ + 1]
  /\ \E memOk, jobOk \in BOOLEAN :
       LET code == ExitCode(Cmd, memOk, jobOk)
       IN  /\ exits' = [exits EXCEPT ![task[w].job] = @ \cup {code}]
           /\ wpc' = [wpc EXCEPT ![w] = IF code = 0 THEN "completed" ELSE "failed"]
           /\ sheet' \in IF code = 0 THEN {Printed(task[w].job)}
                         ELSE {sheet, Torn(task[w].job)}
  /\ UNCHANGED <<apiVars, broker, task, late, faults, cut, lost, undone>>

\* The program cannot be started: subprocess.run raises.
EngineRaises(w) ==
  /\ wpc[w] = "engine"
  /\ wpc' = [wpc EXCEPT ![w] = "except"]
  /\ cut' = cut \cup {task[w].job}
  /\ UNCHANGED <<apiVars, broker, task, late, sheet, faults, runs, exits, lost, undone>>

\* Mutation: a failed job is retried.
MarkFailedRetries(w) ==
  /\ wpc[w] = "failed"
  /\ Patch(w, "failed", "except", "except")
  /\ UNCHANGED <<api, broker, task, sheet, runs, exits, undone>>

MarkFailed(w) ==
  /\ wpc[w] = "failed"
  /\ Patch(w, "failed", "done", "except")
  /\ UNCHANGED <<api, broker, task, sheet, runs, exits, undone>>

MarkCompleted(w) ==
  /\ wpc[w] = "completed"
  /\ Patch(w, "completed", "done", "except")
  /\ UNCHANGED <<api, broker, task, sheet, runs, exits, undone>>

\* The except clause; if its own update raises, autoretry_for takes over: both ways
\* lead to one call of retry.
MarkRetrying(w) ==
  /\ wpc[w] = "except"
  /\ Patch(w, "retrying", "retry", "retry")
  /\ UNCHANGED <<api, broker, task, sheet, runs, exits, undone>>

\* Mutation: the task stays with the worker although it was sent again.
RetryTwice(w) ==
  /\ wpc[w] = "retry"
  /\ task[w].retries < MaxRetries
  /\ broker' = broker \cup {[task[w] EXCEPT !.retries = @ + 1]}
  /\ wpc' = [wpc EXCEPT ![w] = "processing"]
  /\ UNCHANGED <<apiVars, task, late, sheet, faults, history>>

\* Mutation: the exception is swallowed, the task is not sent again.
RetryForgotten(w) ==
  /\ wpc[w] = "retry"
  /\ task[w].retries < MaxRetries
  /\ wpc' = [wpc EXCEPT ![w] = "done"]
  /\ UNCHANGED <<apiVars, broker, task, late, sheet, faults, history>>

\* self.retry: the task is sent again ...
Retry(w) ==
  /\ wpc[w] = "retry"
  /\ task[w].retries < MaxRetries
  /\ broker' = broker \cup {[task[w] EXCEPT !.retries = @ + 1]}
  /\ wpc' = [wpc EXCEPT ![w] = "done"]
  /\ UNCHANGED <<apiVars, task, late, sheet, faults, history>>

\* ... or, the retries exhausted, raises the exception; nobody updates the row.
GiveUp(w) ==
  /\ wpc[w] = "retry"
  /\ task[w].retries = MaxRetries
  /\ wpc' = [wpc EXCEPT ![w] = "done"]
  /\ lost' = lost \cup {task[w].job}
  /\ UNCHANGED <<apiVars, broker, task, late, sheet, faults, runs, exits, cut, undone>>

Finish(w) ==
  /\ wpc[w] = "done"
  /\ wpc' = [wpc EXCEPT ![w] = "idle"]
  /\ task' = [task EXCEPT ![w] = NoTask]
  /\ UNCHANGED <<apiVars, broker, late, sheet, faults, history>>

\* The worker process is killed; Celery starts another, the task is gone.  Its engine,
\* if it runs, dies with it or goes on alone.
WorkerDies(w) ==
  /\ wpc[w] \notin {"idle", "done"}
  /\ Fault
  /\ wpc' = [wpc EXCEPT ![w] = "done"]
  /\ lost' = lost \cup {task[w].job}
  /\ sheet' \in {sheet} \cup IF wpc[w] = "engine"
                            THEN {Torn(task[w].job), Printed(task[w].job)} ELSE {}
  /\ UNCHANGED <<apiVars, broker, task, late, runs, exits, cut, undone>>

-----------------------------------------------------------------------------
ApiStep(j) == SaveUpload(j) \/ CommitJob(j) \/ SendTask(j)

TaskStep(w) ==
  \/ MarkProcessing(w) \/ RunEngine(w) \/ EngineRaises(w)
  \/ MarkFailed(w) \/ MarkCompleted(w) \/ MarkRetrying(w)
  \/ Retry(w) \/ GiveUp(w) \/ Finish(w)

Next ==
  \/ \E j \in Jobs : ApiStep(j) \/ GenerateFails(j)
  \/ \E u \in late : ApplyLate(u) \/ DropLate(u)
  \/ \E w \in Workers : (\E m \in broker : Take(w, m)) \/ TaskStep(w) \/ WorkerDies(w)

Spec == Init /\ [][Next]_vars

\* The services run: a request in progress and a worker with work go on.
FairSpec ==
  /\ Spec
  /\ \A j \in Jobs : WF_vars(CommitJob(j) \/ SendTask(j))
  /\ \A w \in Workers : WF_vars((\E m \in broker : Take(w, m)) \/ TaskStep(w))

-----------------------------------------------------------------------------
Statuses == {"none", "queued", "processing", "retrying"} \cup Final
TaskType == [job : Jobs, retries : 0 .. MaxRetries]

\* The types; in particular no task carries more than MaxRetries retries, whichever of
\* self.retry and autoretry_for (tasks.py:20-22, :71) sent it.
TypeOK ==
  /\ api \in [Jobs -> {"none", "saved", "committed", "answered", "error"}]
  /\ row \in [Jobs -> [status : Statuses, error : BOOLEAN, logs : BOOLEAN]]
  /\ broker \subseteq TaskType
  /\ wpc \in [Workers -> {"idle", "processing", "engine", "completed", "failed",
                          "except", "retry", "done"}]
  /\ task \in [Workers -> TaskType \cup {NoTask}]
  /\ late \subseteq [job : Jobs, status : Statuses]
  /\ sheet \in [Jobs -> [JobFields -> Nat]]
  /\ faults \in 0 .. MaxFaults
  /\ runs \in [Jobs -> Nat]
  /\ exits \in [Jobs -> SUBSET {0, 1}]
  /\ cut \subseteq Jobs /\ lost \subseteq Jobs /\ undone \subseteq Jobs

\* Sheet s was printed with the settings the service keeps (schemas/job.py:11-24); a
\* setting of zero, as the default bleed is, cannot be asked for: job_builder.c:34 takes
\* it for an option that was not given and prints with the engine's own default.
AsAsked(s) == \A f \in JobFields : Settings[f] # 0 => s[f] = Settings[f]

\* The engine was run again on a job, after a call broke, and that run failed or was
\* killed with its worker.
Rerun(j) == j \in cut /\ (1 \in exits[j] \/ j \in lost)

\* What a client reads of a job (generate.py:80) is earned, however late or out of order
\* the updates arrive: "completed" only after the engine exited with 0 and left a sheet
\* with the job's settings, which is there still unless a broken call made the engine run
\* again in vain over it (api.c:274); "failed" only after it exited with another code.
StatusEarned ==
  \A j \in Jobs :
    /\ row[j].status = "completed" => 0 \in exits[j] /\ (AsAsked(sheet[j]) \/ Rerun(j))
    /\ row[j].status = "failed" => 1 \in exits[j]

\* A job is in one place, one task in Redis or one worker, so that no two engines write
\* one output file; no task exists before its row does (generate.py:52, :55); and the
\* engine runs at most once per attempt, once in all unless a call broke or the engine
\* could not be started, although both self.retry and autoretry_for send tasks again
\* (tasks.py:20, :37, :71).
SingleFlight ==
  \A j \in Jobs :
    LET queued == {m \in broker : m.job = j}
        held   == {w \in Workers : task[w].job = j /\ wpc[w] # "done"}
    IN  /\ Cardinality(queued) + Cardinality(held) <= 1
        /\ queued # {} \/ held # {} => row[j] # NoRow
        /\ runs[j] <= IF j \in cut THEN MaxRetries + 1 ELSE 1

\* A final status stays: only a broken call, whose retry or late update overwrites what
\* update_job finds (internal.py:26), can take "completed" or "failed" back.
FinalKept ==
  [][\A j \in Jobs : row[j].status \in Final /\ row'[j].status # row[j].status
                       => j \in cut]_row

\* Every job the client was told about ends, broken calls and retries notwithstanding,
\* unless its worker died, its final update was answered with an error, its retries ran
\* out (tasks.py:61-71), or a late update of an earlier attempt overwrote its end.
JobEnds ==
  \A j \in Jobs :
    api[j] = "answered" ~> row[j].status \in Final \/ j \in lost \cup undone

=============================================================================
