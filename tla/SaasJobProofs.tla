--------------------------- MODULE SaasJobProofs ---------------------------
(***************************************************************************)
(* Proofs about SaasJob for every set of jobs and workers and every bound  *)
(* on retries and faults.  StatusEarned is not inductive: an update that   *)
(* is about to be sent, or late on the network, must be earned too.        *)
(* SingleFlight needs to know that a job without a task yet has done       *)
(* nothing, how many attempts its one task has behind it, and that a job   *)
(* that ended without a broken call has no task left.                      *)
(***************************************************************************)
EXTENDS SaasJob, FiniteSetTheorems, TLAPS

\* A row of the database, and an update a worker may send.
Rows == [status : Statuses, error : BOOLEAN, logs : BOOLEAN]
Updates == [job : Jobs, status : {"processing", "retrying"} \cup Final]

\* A worker that has a task to work on.
Active(w) == wpc[w] \notin {"idle", "done"}

\* A worker with work to do has a task; one without has none.
Holders ==
  \A w \in Workers : /\ wpc[w] = "idle" => task[w] = NoTask
                     /\ wpc[w] # "idle" => task[w] \in TaskType

\* No one has a task of job j.
Nowhere(j) == /\ \A m \in broker : m.job # j
              /\ \A w \in Workers : Active(w) => task[w].job # j

\* A job has one task at most, in Redis or with one worker.
OnePlace ==
  /\ \A m, n \in broker : m.job = n.job => m = n
  /\ \A w \in Workers : Active(w) =>
       /\ \A m \in broker : m.job # task[w].job
       /\ \A v \in Workers : Active(v) /\ task[v].job = task[w].job => v = w

\* Before its task is sent nothing has happened to a job; then it has a row.
NotSent ==
  \A j \in Jobs :
    /\ api[j] # "answered" => /\ Nowhere(j) /\ runs[j] = 0
                              /\ \A u \in late : u.job # j
                              /\ row[j].status \notin Final
    /\ api[j] \in {"committed", "answered"} => row[j] # NoRow

\* The engine has run at most once per attempt so far.
Attempts ==
  /\ \A m \in broker : runs[m.job] <= m.retries /\ (m.retries > 0 => m.job \in cut)
  /\ \A w \in Workers : Active(w) =>
       /\ runs[task[w].job] <= task[w].retries + 1
       /\ wpc[w] \in {"processing", "engine"} => runs[task[w].job] <= task[w].retries
       /\ task[w].retries > 0 \/ wpc[w] \in {"except", "retry"} => task[w].job \in cut
  /\ \A j \in Jobs : runs[j] <= IF j \in cut THEN MaxRetries + 1 ELSE 1

\* What the engine did entitles to this status.
Entitled(j, status) ==
  /\ status = "completed" => 0 \in exits[j] /\ (AsAsked(sheet[j]) \/ Rerun(j))
  /\ status = "failed" => 1 \in exits[j]

\* No status is stored, on its way or about to be sent that the engine did not earn.
Earned ==
  /\ \A j \in Jobs : Entitled(j, row[j].status)
  /\ \A u \in late : u \in Updates /\ u.job \in cut /\ Entitled(u.job, u.status)
  /\ \A w \in Workers : Active(w) => Entitled(task[w].job, wpc[w])

\* A job that ended without a broken call is nobody's any more.
EndedIsOver ==
  \A j \in Jobs : row[j].status \in Final /\ j \notin cut => Nowhere(j)

\* The inductive invariant.
Facts == Holders /\ OnePlace /\ NotSent /\ Attempts /\ Earned /\ EndedIsOver
SaasInv == TypeOK /\ Facts

-----------------------------------------------------------------------------
\* The settings of the service and the defaults of the engine are numbers.
LEMMA SettingFacts == \A f \in JobFields : Settings[f] \in Nat /\ JobDefaults[f] \in Nat
BY DEF JobFields, Settings, JobDefaults

\* What the engine prints is what was asked for, where it could be asked for
\* (job_builder.c:34).
LEMMA EngineFacts ==
  /\ BuildJob(ParseArgs(Cmd)) \in [JobFields -> Nat]
  /\ AsAsked(BuildJob(ParseArgs(Cmd)))
  /\ NoSheet \in [JobFields -> Nat]
  /\ \A memOk, jobOk \in BOOLEAN : ExitCode(Cmd, memOk, jobOk) \in {0, 1}
<1>1. ASSUME NEW f \in JobFields PROVE ParseArgs(Cmd)[f] = Settings[f]
  <2>1. f \in Options /\ f # "threads" /\ f \in DOMAIN Cmd /\ Cmd[f] = Settings[f]
    BY DEF Options, JobFields, Cmd
  <2> QED
    BY <2>1 DEF ParseArgs
<1>2. \A f \in JobFields : BuildJob(ParseArgs(Cmd))[f]
                             = IF Settings[f] # 0 THEN Settings[f] ELSE JobDefaults[f]
  BY <1>1 DEF BuildJob
<1>3. BuildJob(ParseArgs(Cmd)) = [f \in JobFields |-> BuildJob(ParseArgs(Cmd))[f]]
  BY DEF BuildJob
<1>4. BuildJob(ParseArgs(Cmd)) \in [JobFields -> Nat]
  BY <1>2, <1>3, SettingFacts
<1>5. AsAsked(BuildJob(ParseArgs(Cmd)))
  BY <1>2 DEF AsAsked
<1>6. NoSheet \in [JobFields -> Nat]
  BY DEF NoSheet
<1> QED
  BY <1>4, <1>5, <1>6 DEF ExitCode

\* update_job (internal.py:26) makes a row of a row.
LEMMA UpdateFacts ==
  ASSUME NEW r \in Rows, NEW status \in {"processing", "retrying"} \cup Final
  PROVE  /\ Updated(r, status) \in Rows
         /\ Updated(r, status).status = IF r = NoRow THEN "none" ELSE status
         /\ r # NoRow => Updated(r, status) # NoRow
BY DEF Updated, Rows, Statuses, Final, NoRow

\* At first there is no job.
LEMMA InitFacts == Init => SaasInv
<1> SUFFICES ASSUME Init PROVE SaasInv
  OBVIOUS
<1>1. NoRow \in Rows
  BY DEF NoRow, Rows, Statuses
<1>2. TypeOK
  BY <1>1, RetryAssumption, EngineFacts DEF Init, TypeOK, Rows
<1>3. Facts
  <2>1. NoRow.status = "none"
    BY DEF NoRow
  <2> QED
    BY <2>1, RetryAssumption DEF Init, Facts, Holders, OnePlace, NotSent, Nowhere, Attempts, Earned,
       Entitled, EndedIsOver, Active, Final
<1> QED
  BY <1>2, <1>3 DEF SaasInv

\* Steps that take work away, or leave things as they are.
LEMMA QuietFacts ==
  ASSUME Facts, UNCHANGED <<row, broker, runs, exits, cut>>,
         late' \subseteq late, lost \subseteq lost',
         \A j \in Jobs : \/ sheet'[j] = sheet[j]
                         \/ /\ j \in lost'
                            /\ \E w \in Workers : Active(w) /\ task[w].job = j /\ wpc'[w] = "done",
         \A j \in Jobs : /\ api[j] # "answered" <=> api'[j] # "answered"
                         /\ api'[j] = "committed" => api[j] = "committed",
         \A w \in Workers : \/ wpc'[w] = wpc[w] /\ task'[w] = task[w]
                            \/ wpc'[w] = "done" /\ task'[w] = task[w] /\ wpc[w] # "idle"
                            \/ wpc'[w] = "idle" /\ task'[w] = NoTask
  PROVE  Facts'
<1> USE DEF Facts
<1>1. \A w \in Workers : wpc'[w] \notin {"idle", "done"} =>
        Active(w) /\ task'[w] = task[w] /\ wpc'[w] = wpc[w]
  BY DEF Active
<1>2. Holders' /\ OnePlace'
  BY <1>1 DEF Holders, OnePlace, Active
<1>3. \A j \in Jobs : Nowhere(j) => Nowhere(j)'
  BY <1>1 DEF Nowhere, Active
<1>4. NotSent' /\ EndedIsOver'
  BY <1>3 DEF NotSent, EndedIsOver
<1>5. Attempts'
  BY <1>1 DEF Attempts, Active
<1>6. Earned'
  <2>1. ASSUME NEW j \in Jobs, NEW status, Entitled(j, status), j \in cut \/ sheet'[j] = sheet[j]
        PROVE  Entitled(j, status)'
    BY <2>1 DEF Entitled, Rerun
  <2>2. ASSUME NEW j \in Jobs PROVE Entitled(j, row[j].status)'
    <3>1. CASE row[j].status \in Final
      <4>1. j \in cut \/ Nowhere(j)
        BY <3>1 DEF EndedIsOver
      <4>2. j \in cut \/ sheet'[j] = sheet[j]
        BY <4>1 DEF Nowhere
      <4> QED
        BY <2>1, <4>2 DEF Earned
    <3>2. CASE row[j].status \notin Final
      BY <3>2 DEF Entitled, Final
    <3> QED
      BY <3>1, <3>2
  <2>3. ASSUME NEW u \in late' PROVE u \in Updates /\ u.job \in cut' /\ Entitled(u.job, u.status)'
    <3>1. u \in Updates /\ u.job \in cut /\ Entitled(u.job, u.status) /\ u.job \in Jobs
      BY DEF Earned, Updates
    <3> QED
      BY <2>1, <3>1
  <2>4. ASSUME NEW w \in Workers, Active(w)' PROVE Entitled(task[w].job, wpc[w])'
    <3>1. Active(w) /\ task'[w] = task[w] /\ wpc'[w] = wpc[w] /\ wpc[w] # "done"
      BY <1>1, <2>4 DEF Active
    <3>2. task[w].job \in Jobs
      BY <3>1 DEF Holders, Active, TaskType
    <3>3. sheet'[task[w].job] = sheet[task[w].job]
      BY <3>1, <3>2 DEF OnePlace
    <3>4. Entitled(task[w].job, wpc[w])
      BY <3>1 DEF Earned
    <3>5. Entitled(task[w].job, wpc[w]) => (Entitled(task[w].job, wpc[w]))'
      BY <3>1, <3>3 DEF Entitled, Rerun
    <3> QED
      BY <3>4, <3>5
  <2> QED
    BY <2>2, <2>3, <2>4 DEF Earned
<1> QED
  BY <1>2, <1>4, <1>5, <1>6

\* TypeOK, with rows by name.
Kinds ==
  /\ api \in [Jobs -> {"none", "saved", "committed", "answered", "error"}]
  /\ row \in [Jobs -> Rows]
  /\ broker \subseteq TaskType
  /\ task \in [Workers -> TaskType \cup {NoTask}]
  /\ sheet \in [Jobs -> [JobFields -> Nat]]
  /\ runs \in [Jobs -> Nat]
  /\ exits \in [Jobs -> SUBSET {0, 1}]

\* TypeOK says the same.
LEMMA KindsOf == TypeOK => Kinds
BY DEF TypeOK, Kinds, Rows

\* The task of a worker at work is of a job that was sent.
LEMMA HeldFacts ==
  ASSUME SaasInv, NEW w \in Workers, Active(w)
  PROVE  task[w] \in TaskType /\ task[w].job \in Jobs /\ task[w].retries \in 0 .. MaxRetries
<1>1. task[w] \in TaskType
  BY DEF SaasInv, Facts, Holders, Active
<1> QED
  BY <1>1 DEF TaskType

-----------------------------------------------------------------------------
\* generate()
LEMMA GenerateSteps ==
  ASSUME SaasInv, NEW j \in Jobs, ApiStep(j) \/ GenerateFails(j)
  PROVE  SaasInv'
<1> USE DEF SaasInv
<1>1. CASE SaveUpload(j)
  <2>1. TypeOK'
    BY <1>1 DEF TypeOK, SaveUpload, workerVars, history
  <2>2. \A k \in Jobs : /\ api[k] # "answered" <=> api'[k] # "answered"
                        /\ api'[k] = "committed" => api[k] = "committed"
    BY <1>1 DEF SaveUpload, TypeOK
  <2> QED
    BY <1>1, <2>1, <2>2, QuietFacts DEF SaveUpload, workerVars, history
<1>2. CASE GenerateFails(j)
  <2>1. TypeOK'
    BY <1>2, RetryAssumption DEF TypeOK, GenerateFails, Fault, workerVars, history
  <2>2. \A k \in Jobs : /\ api[k] # "answered" <=> api'[k] # "answered"
                        /\ api'[k] = "committed" => api[k] = "committed"
    BY <1>2 DEF GenerateFails, TypeOK
  <2> QED
    BY <1>2, <2>1, <2>2, QuietFacts DEF GenerateFails, workerVars, history
<1>3. CASE CommitJob(j)
  <2> DEFINE r == [NoRow EXCEPT !.status = "queued"]
  <2>0. r \in Rows /\ r.status = "queued" /\ r # NoRow
    BY DEF NoRow, Rows, Statuses
  <2>1. row' = [row EXCEPT ![j] = r] /\ api[j] = "saved"
    BY <1>3 DEF CommitJob
  <2> HIDE DEF r
  <2>2. /\ UNCHANGED <<broker, wpc, task, late, sheet, faults, runs, exits, cut, lost, undone>>
        /\ api' = [api EXCEPT ![j] = "committed"]
    BY <1>3 DEF CommitJob, workerVars, history
  <2>3. row' \in [Jobs -> Rows] /\ row'[j] = r /\ \A k \in Jobs \ {j} : row'[k] = row[k]
    BY <2>0, <2>1, KindsOf DEF Kinds
  <2>4. TypeOK'
    BY <2>2, <2>3 DEF TypeOK, Rows
  <2>5. \A k \in Jobs : Nowhere(k)' <=> Nowhere(k)
    BY <2>2 DEF Nowhere, Active
  <2>6. Holders' /\ OnePlace' /\ Attempts'
    BY <2>2 DEF Facts, Holders, OnePlace, Attempts, Active
  <2>7. /\ api'[j] = "committed" /\ \A k \in Jobs \ {j} : api'[k] = api[k]
    BY <2>2 DEF TypeOK
  <2>8. NotSent'
    BY <2>0, <2>1, <2>2, <2>3, <2>5, <2>7 DEF Facts, NotSent, Final
  <2>9. Earned'
    BY <2>0, <2>2, <2>3 DEF Facts, Earned, Entitled, Rerun, Active
  <2>10. EndedIsOver'
    BY <2>0, <2>2, <2>3, <2>5 DEF Facts, EndedIsOver, Final
  <2> QED
    BY <2>4, <2>6, <2>8, <2>9, <2>10 DEF Facts
<1>4. CASE SendTask(j)
  <2> DEFINE m == [job |-> j, retries |-> 0]
  <2>1. m \in TaskType /\ m.job = j /\ m.retries = 0
    BY RetryAssumption DEF TaskType
  <2>2. /\ broker' = broker \cup {m} /\ api[j] = "committed"
        /\ api' = [api EXCEPT ![j] = "answered"]
        /\ UNCHANGED <<row, wpc, task, late, sheet, faults, runs, exits, cut, lost, undone>>
    BY <1>4 DEF SendTask, history
  <2> HIDE DEF m
  <2>3. TypeOK'
    BY <2>1, <2>2 DEF TypeOK
  <2>4. /\ api'[j] = "answered" /\ \A k \in Jobs \ {j} : api'[k] = api[k]
    BY <2>2 DEF TypeOK
  <2>5. Nowhere(j) /\ runs[j] = 0 /\ row[j].status \notin Final /\ row[j] # NoRow
    BY <2>2 DEF Facts, NotSent
  <2>6. \A k \in Jobs \ {j} : Nowhere(k) => Nowhere(k)'
    BY <2>1, <2>2 DEF Nowhere, Active
  <2>7. Holders' /\ OnePlace'
    BY <2>1, <2>2, <2>5 DEF Facts, Holders, OnePlace, Nowhere, Active
  <2>8. NotSent' /\ EndedIsOver'
    BY <2>2, <2>4, <2>5, <2>6 DEF Facts, NotSent, EndedIsOver
  <2>9. Attempts'
    BY <2>1, <2>2, <2>5 DEF Facts, Attempts, Active
  <2>10. Earned'
    BY <2>2 DEF Facts, Earned, Entitled, Rerun, Active
  <2> QED
    BY <2>3, <2>7, <2>8, <2>9, <2>10 DEF Facts
<1> QED
  BY <1>1, <1>2, <1>3, <1>4 DEF ApiStep

-----------------------------------------------------------------------------
\* update_job on a row, of a task a worker holds or of a late update.
LEMMA RowSteps ==
  ASSUME SaasInv, NEW j \in Jobs, NEW status \in {"processing", "retrying"} \cup Final,
         Entitled(j, status), Apply(j, status), api[j] = "answered",
         UNCHANGED <<api, sheet, exits>>, cut \subseteq cut', lost \subseteq lost'
  PROVE  /\ row' \in [Jobs -> Rows]
         /\ \A k \in Jobs \ {j} : row'[k] = row[k]
         /\ row'[j].status = status /\ row'[j] # NoRow
         /\ \A k \in Jobs : Entitled(k, row[k].status)'
<1>0. row \in [Jobs -> Rows] /\ row[j] # NoRow
  BY KindsOf DEF SaasInv, Kinds, Facts, NotSent
<1>1. row' = [row EXCEPT ![j] = Updated(row[j], status)]
  BY DEF Apply
<1>2. row' \in [Jobs -> Rows] /\ row'[j] = Updated(row[j], status)
  BY <1>0, <1>1, UpdateFacts
<1>3. \A k \in Jobs \ {j} : row'[k] = row[k]
  BY <1>0, <1>1
<1>4. row'[j].status = status /\ row'[j] # NoRow
  BY <1>0, <1>2, UpdateFacts
<1>5. \A k \in Jobs : Entitled(k, row[k].status)'
  BY <1>3, <1>4 DEF SaasInv, Facts, Earned, Entitled, Rerun
<1> QED
  BY <1>2, <1>3, <1>4, <1>5

\* An update that was answered with a timeout arrives after all, or never.
LEMMA LateSteps ==
  ASSUME SaasInv, NEW u \in late, ApplyLate(u) \/ DropLate(u)
  PROVE  SaasInv'
<1> USE DEF SaasInv
<1>1. CASE DropLate(u)
  <2>1. TypeOK'
    BY <1>1 DEF TypeOK, DropLate, apiVars, workerVars, history
  <2> QED
    BY <1>1, <2>1, QuietFacts DEF DropLate, apiVars, workerVars, history
<1>2. CASE ApplyLate(u)
  <2>1. /\ u.job \in Jobs /\ u.status \in {"processing", "retrying"} \cup Final
        /\ u.job \in cut /\ Entitled(u.job, u.status) /\ api[u.job] = "answered"
    BY DEF Facts, Earned, NotSent, Updates
  <2>2. /\ Apply(u.job, u.status) /\ late' = late \ {u}
        /\ UNCHANGED <<api, broker, wpc, task, sheet, faults, runs, exits, cut, lost>>
        /\ undone' \subseteq undone \cup {u.job}
    BY <1>2 DEF ApplyLate, workerVars
  <2>3. /\ row' \in [Jobs -> Rows]
        /\ \A k \in Jobs \ {u.job} : row'[k] = row[k]
        /\ row'[u.job].status = u.status /\ row'[u.job] # NoRow
        /\ \A k \in Jobs : Entitled(k, row[k].status)'
    BY <2>1, <2>2, RowSteps
  <2>4. TypeOK'
    BY <2>1, <2>2, <2>3 DEF TypeOK, Rows
  <2>5. \A k \in Jobs : Nowhere(k)' <=> Nowhere(k)
    BY <2>2 DEF Nowhere, Active
  <2>6. Holders' /\ OnePlace' /\ Attempts'
    BY <2>2 DEF Facts, Holders, OnePlace, Attempts, Active
  <2>7. NotSent' /\ EndedIsOver'
    BY <2>1, <2>2, <2>3, <2>5 DEF Facts, NotSent, EndedIsOver
  <2>8. Earned'
    <3>1. (\A v \in late : v \in Updates /\ v.job \in cut /\ Entitled(v.job, v.status))'
      BY <2>2 DEF Facts, Earned, Entitled, Rerun, Updates
    <3>2. (\A w \in Workers : Active(w) => Entitled(task[w].job, wpc[w]))'
      BY <2>2 DEF Facts, Earned, Entitled, Rerun, Active
    <3> QED
      BY <2>3, <3>1, <3>2 DEF Earned
  <2> QED
    BY <2>4, <2>6, <2>7, <2>8 DEF Facts
<1> QED
  BY <1>1, <1>2

-----------------------------------------------------------------------------
\* process_image
LEMMA TakeSteps ==
  ASSUME SaasInv, NEW w \in Workers, NEW m \in broker, Take(w, m)
  PROVE  SaasInv'
<1> USE DEF SaasInv
<1>0. /\ wpc[w] = "idle" /\ broker' = broker \ {m} /\ task' = [task EXCEPT ![w] = m]
      /\ wpc' = [wpc EXCEPT ![w] = "processing"] /\ m \in TaskType
      /\ UNCHANGED <<api, row, late, sheet, faults, runs, exits, cut, lost, undone>>
  BY DEF Take, apiVars, history, TypeOK
<1>1. TypeOK'
  BY <1>0 DEF TypeOK
<1>2. /\ wpc'[w] = "processing" /\ task'[w] = m
      /\ \A v \in Workers \ {w} : wpc'[v] = wpc[v] /\ task'[v] = task[v]
  BY <1>0 DEF TypeOK
<1>3. Holders' /\ OnePlace'
  BY <1>0, <1>2 DEF Facts, Holders, OnePlace, Active
<1>4. \A j \in Jobs : Nowhere(j) => Nowhere(j)'
  BY <1>0, <1>2 DEF Nowhere, Active
<1>5. NotSent' /\ EndedIsOver'
  BY <1>0, <1>4 DEF Facts, NotSent, EndedIsOver
<1>6. Attempts'
  <2>1. m.retries \in Nat /\ m.job \in Jobs /\ runs[m.job] \in Nat
    BY <1>0, RetryAssumption DEF TaskType, TypeOK
  <2>2. runs[m.job] <= m.retries /\ runs[m.job] <= m.retries + 1 /\ (m.retries > 0 => m.job \in cut)
    BY <2>1 DEF Facts, Attempts
  <2> QED
    BY <1>0, <1>2, <2>2 DEF Facts, Attempts, Active
<1>7. Earned'
  BY <1>0, <1>2 DEF Facts, Earned, Entitled, Rerun, Active
<1> QED
  BY <1>1, <1>3, <1>5, <1>6, <1>7 DEF Facts

\* A status update of the worker that holds job j: applied, answered with a 5xx or broken.
LEMMA PatchSteps ==
  ASSUME SaasInv, NEW w \in Workers, Active(w),
         NEW status \in {"processing", "retrying"} \cup Final,
         NEW next \in {"engine", "retry", "done"}, NEW broken \in {"except", "retry"},
         Patch(w, status, next, broken),
         UNCHANGED <<api, broker, task, sheet, runs, exits, undone>>,
         Entitled(task[w].job, status),
         status \in Final => next = "done",
         next = "engine" => wpc[w] = "processing",
         next = "retry" => wpc[w] = "except"
  PROVE  SaasInv'
<1> USE DEF SaasInv
<1> DEFINE j == task[w].job
<1>0. j \in Jobs /\ task[w] \in TaskType /\ task[w].retries \in Nat /\ runs[j] \in Nat
  BY HeldFacts, RetryAssumption DEF TypeOK
<1>1. api[j] = "answered"
  BY <1>0 DEF Facts, NotSent, Nowhere
<1>2. \E x \in {next, broken} :
        /\ wpc' = [wpc EXCEPT ![w] = x]
        /\ row' = row \/ (Apply(j, status) /\ x = next)
        /\ \/ late' = late /\ cut' = cut /\ x = next
           \/ late' = late \cup {[job |-> j, status |-> status]} /\ cut' = cut \cup {j}
        /\ lost \subseteq lost' /\ lost' \subseteq lost \cup {j}
        /\ faults' \in 0 .. MaxFaults
  <2>0. faults < MaxFaults => faults + 1 \in 0 .. MaxFaults
    BY RetryAssumption DEF TypeOK
  <2>1. CASE Apply(j, status) /\ wpc' = [wpc EXCEPT ![w] = next] /\ UNCHANGED <<late, faults, cut, lost>>
    BY <2>1 DEF TypeOK
  <2>2. CASE /\ Fault /\ wpc' = [wpc EXCEPT ![w] = next] /\ UNCHANGED <<row, late, cut>>
             /\ lost' = IF status \in Final THEN lost \cup {j} ELSE lost
    BY <2>0, <2>2 DEF Fault
  <2>3. CASE /\ Fault /\ wpc' = [wpc EXCEPT ![w] = broken] /\ UNCHANGED <<row, lost>>
             /\ late' = late \cup {[job |-> j, status |-> status]} /\ cut' = cut \cup {j}
    BY <2>0, <2>3 DEF Fault
  <2> QED
    BY <2>1, <2>2, <2>3 DEF Patch
<1>3. PICK x \in {next, broken} :
        /\ wpc' = [wpc EXCEPT ![w] = x]
        /\ row' = row \/ (Apply(j, status) /\ x = next)
        /\ \/ late' = late /\ cut' = cut /\ x = next
           \/ late' = late \cup {[job |-> j, status |-> status]} /\ cut' = cut \cup {j}
        /\ lost \subseteq lost' /\ lost' \subseteq lost \cup {j}
        /\ faults' \in 0 .. MaxFaults
  BY <1>2
<1> HIDE DEF j
<1>4. /\ cut \subseteq cut' /\ cut' \subseteq cut \cup {j}
      /\ x = "except" => j \in cut'
      /\ x = "retry" => j \in cut'
  BY <1>3 DEF Facts, Attempts, j
<1>5. /\ row' \in [Jobs -> Rows]
      /\ \A k \in Jobs \ {j} : row'[k] = row[k]
      /\ row'[j] # NoRow
      /\ \A k \in Jobs : Entitled(k, row[k].status)'
      /\ row'[j].status = row[j].status \/ (row'[j].status = status /\ x = next)
  <2>1. CASE row' = row
    BY <1>0, <1>1, <2>1, <1>3, <1>4, KindsOf DEF Kinds, Facts, NotSent, Earned, Entitled, Rerun
  <2>2. CASE Apply(j, status) /\ x = next
    BY <1>0, <1>1, <1>3, <1>4, <2>2, RowSteps DEF j
  <2> QED
    BY <1>3, <2>1, <2>2
<1>6. [job |-> j, status |-> status] \in Updates /\ [job |-> j, status |-> status].job = j
      /\ [job |-> j, status |-> status].status = status
      /\ [job |-> j, status |-> status] \in [job : Jobs, status : Statuses]
  BY <1>0 DEF Updates, Statuses, Final
<1>7. TypeOK'
  BY <1>0, <1>3, <1>4, <1>5, <1>6 DEF TypeOK, Rows
<1>8. /\ wpc'[w] = x /\ x \notin {"idle", "processing", "completed", "failed"}
      /\ \A v \in Workers \ {w} : wpc'[v] = wpc[v]
  BY <1>3 DEF TypeOK
<1>9. \A v \in Workers : Active(v)' => Active(v)
  BY <1>8 DEF Active
<1>10. Holders' /\ OnePlace'
  BY <1>0, <1>8, <1>9 DEF Facts, Holders, OnePlace
<1>11. \A k \in Jobs : Nowhere(k) => Nowhere(k)'
  BY <1>9 DEF Nowhere
<1>12. NotSent'
  <2>1. \A u \in late' : u \in late \/ u.job = j
    BY <1>3, <1>6
  <2> QED
    BY <1>1, <1>5, <1>11, <2>1 DEF Facts, NotSent
<1>13. Attempts'
  <2>1. /\ runs[j] <= task[w].retries + 1
        /\ x = "engine" => runs[j] <= task[w].retries
        /\ task[w].retries > 0 \/ x \in {"except", "retry"} => j \in cut'
    BY <1>0, <1>3, <1>4 DEF Facts, Attempts, j
  <2>2. \A k \in Jobs : runs[k] <= IF k \in cut' THEN MaxRetries + 1 ELSE 1
    BY <1>4, RetryAssumption DEF Facts, Attempts, TypeOK
  <2>3. (\A m \in broker : runs[m.job] <= m.retries /\ (m.retries > 0 => m.job \in cut))'
    BY <1>4 DEF Facts, Attempts
  <2>4. ASSUME NEW v \in Workers, Active(v)'
        PROVE  /\ runs[task[v].job] <= task[v].retries + 1
               /\ wpc'[v] \in {"processing", "engine"} => runs[task[v].job] <= task[v].retries
               /\ task[v].retries > 0 \/ wpc'[v] \in {"except", "retry"} => task[v].job \in cut'
    BY <1>4, <1>8, <1>9, <2>1, <2>4 DEF Facts, Attempts, j
  <2> QED
    BY <2>2, <2>3, <2>4 DEF Attempts
<1>14. Earned'
  <2>1. (\A u \in late : u \in Updates /\ u.job \in cut /\ Entitled(u.job, u.status))'
    BY <1>3, <1>4, <1>6 DEF Facts, Earned, Entitled, Rerun, Updates, j
  <2>2. (\A v \in Workers : Active(v) => Entitled(task[v].job, wpc[v]))'
    BY <1>3, <1>4, <1>8, <1>9 DEF Facts, Earned, Entitled, Rerun
  <2> QED
    BY <1>5, <2>1, <2>2 DEF Earned
<1>15. EndedIsOver'
  <2> SUFFICES ASSUME NEW k \in Jobs, row'[k].status \in Final, k \notin cut'
               PROVE  Nowhere(k)'
    BY DEF EndedIsOver
  <2>1. CASE k # j
    BY <1>4, <1>5, <1>11, <2>1 DEF Facts, EndedIsOver
  <2>2. CASE k = j /\ row'[j].status = row[j].status
    BY <1>4, <1>11, <2>2 DEF Facts, EndedIsOver
  <2>3. CASE k = j /\ row'[j].status = status /\ x = next
    <3>1. wpc'[w] = "done"
      BY <1>8, <2>3
    <3> QED
      BY <1>9, <2>3, <3>1 DEF Facts, OnePlace, Nowhere, Active, j
  <2> QED
    BY <1>5, <2>1, <2>2, <2>3
<1> QED
  BY <1>7, <1>10, <1>12, <1>13, <1>14, <1>15 DEF Facts

\* The three status updates of process_image (tasks.py:30, :41, :52, :63).
LEMMA MarkSteps ==
  ASSUME SaasInv, NEW w \in Workers,
         MarkProcessing(w) \/ MarkFailed(w) \/ MarkCompleted(w) \/ MarkRetrying(w)
  PROVE  SaasInv'
<1>0. Active(w)
  BY DEF Active, MarkProcessing, MarkFailed, MarkCompleted, MarkRetrying
<1>1. Entitled(task[w].job, wpc[w])
  BY <1>0 DEF SaasInv, Facts, Earned
<1>2. CASE MarkProcessing(w)
  <2>1. Entitled(task[w].job, "processing")
    BY DEF Entitled
  <2> QED
    BY <1>0, <1>2, <2>1, PatchSteps DEF MarkProcessing, Final
<1>3. CASE MarkFailed(w)
  BY <1>0, <1>1, <1>3, PatchSteps DEF MarkFailed, Final
<1>4. CASE MarkCompleted(w)
  BY <1>0, <1>1, <1>4, PatchSteps DEF MarkCompleted, Final
<1>5. CASE MarkRetrying(w)
  <2>1. Entitled(task[w].job, "retrying")
    BY DEF Entitled
  <2> QED
    BY <1>0, <1>5, <2>1, PatchSteps DEF MarkRetrying, Final
<1> QED
  BY <1>2, <1>3, <1>4, <1>5

\* The engine runs (tasks.py:37) or cannot be started.
LEMMA EngineSteps ==
  ASSUME SaasInv, NEW w \in Workers, RunEngine(w) \/ EngineRaises(w)
  PROVE  SaasInv'
<1> USE DEF SaasInv
<1> DEFINE j == task[w].job
<1>0. Active(w) /\ wpc[w] = "engine"
  BY DEF RunEngine, EngineRaises, Active
<1>1. j \in Jobs /\ task[w].retries \in 0 .. MaxRetries /\ runs[j] \in Nat
  BY <1>0, HeldFacts DEF TypeOK
<1>2. runs[j] <= task[w].retries /\ (task[w].retries > 0 => j \in cut)
  BY <1>0 DEF Facts, Attempts
<1>3. UNCHANGED <<api, row, broker, task, late, faults, lost, undone>>
  BY DEF RunEngine, EngineRaises, apiVars
<1>4. /\ cut \subseteq cut' /\ cut' \subseteq cut \cup {j}
      /\ \E x \in {"completed", "failed", "except"} :
           /\ wpc' = [wpc EXCEPT ![w] = x]
           /\ x = "except" => j \in cut' /\ runs' = runs /\ exits' = exits /\ sheet' = sheet
           /\ x # "except" =>
                /\ cut' = cut
                /\ runs' = [runs EXCEPT ![j] = runs[j] + 1]
                /\ exits' = [exits EXCEPT ![j] = exits[j] \cup {IF x = "completed" THEN 0 ELSE 1}]
                /\ sheet' \in IF x = "completed" THEN {Printed(j)} ELSE {sheet, Torn(j)}
  <2>1. CASE RunEngine(w)
    <3>1. PICK memOk, jobOk \in BOOLEAN :
            LET code == ExitCode(Cmd, memOk, jobOk)
            IN  /\ exits' = [exits EXCEPT ![j] = @ \cup {code}]
                /\ wpc' = [wpc EXCEPT ![w] = IF code = 0 THEN "completed" ELSE "failed"]
                /\ sheet' \in IF code = 0 THEN {Printed(j)} ELSE {sheet, Torn(j)}
      BY <2>1 DEF RunEngine
    <3>2. ExitCode(Cmd, memOk, jobOk) \in {0, 1}
      BY EngineFacts
    <3>3. runs' = [runs EXCEPT ![j] = runs[j] + 1] /\ cut' = cut
      BY <2>1 DEF RunEngine
    <3>4. CASE ExitCode(Cmd, memOk, jobOk) = 0
      BY <3>1, <3>3, <3>4
    <3>5. CASE ExitCode(Cmd, memOk, jobOk) = 1
      BY <3>1, <3>3, <3>5
    <3> QED
      BY <3>2, <3>4, <3>5
  <2>2. CASE EngineRaises(w)
    BY <2>2 DEF EngineRaises
  <2> QED
    BY <2>1, <2>2
<1>5. PICK x \in {"completed", "failed", "except"} :
           /\ wpc' = [wpc EXCEPT ![w] = x]
           /\ x = "except" => j \in cut' /\ runs' = runs /\ exits' = exits /\ sheet' = sheet
           /\ x # "except" =>
                /\ cut' = cut
                /\ runs' = [runs EXCEPT ![j] = runs[j] + 1]
                /\ exits' = [exits EXCEPT ![j] = exits[j] \cup {IF x = "completed" THEN 0 ELSE 1}]
                /\ sheet' \in IF x = "completed" THEN {Printed(j)} ELSE {sheet, Torn(j)}
  BY <1>4
<1> HIDE DEF j
<1>6. /\ runs' \in [Jobs -> Nat] /\ runs'[j] <= runs[j] + 1
      /\ \A k \in Jobs \ {j} : runs'[k] = runs[k]
      /\ x = "except" => runs' = runs
  <2>1. runs[j] + 1 \in Nat /\ runs[j] <= runs[j] + 1 /\ runs \in [Jobs -> Nat]
    BY <1>1 DEF TypeOK
  <2>2. runs' = runs \/ (x # "except" /\ runs' = [runs EXCEPT ![j] = runs[j] + 1])
    BY <1>5
  <2> QED
    BY <1>1, <1>5, <2>1, <2>2
<1>7. /\ exits' \in [Jobs -> SUBSET {0, 1}] /\ \A k \in Jobs : exits[k] \subseteq exits'[k]
      /\ x = "completed" => 0 \in exits'[j]
      /\ x = "failed" => 1 \in exits'[j]
  <2>0. exits \in [Jobs -> SUBSET {0, 1}]
    BY DEF TypeOK
  <2>1. CASE x = "except"
    BY <1>5, <2>0, <2>1
  <2>2. CASE x = "completed"
    <3>1. exits' = [exits EXCEPT ![j] = exits[j] \cup {0}]
      BY <1>5, <2>2
    <3> QED
      BY <1>1, <2>0, <2>2, <3>1
  <2>3. CASE x = "failed"
    <3>1. exits' = [exits EXCEPT ![j] = exits[j] \cup {1}]
      BY <1>5, <2>3
    <3> QED
      BY <1>1, <2>0, <2>3, <3>1
  <2> QED
    BY <2>1, <2>2, <2>3
<1>8. /\ sheet' \in [Jobs -> [JobFields -> Nat]]
      /\ \A k \in Jobs \ {j} : sheet'[k] = sheet[k]
      /\ x = "completed" => AsAsked(sheet'[j])
      /\ x = "except" => sheet' = sheet
  <2>0. sheet \in [Jobs -> [JobFields -> Nat]]
    BY DEF TypeOK
  <2>1. sheet' \in {sheet, Printed(j), Torn(j)} /\ (x = "except" => sheet' = sheet)
    BY <1>5
  <2>2. x = "completed" => sheet' = Printed(j)
    BY <1>5
  <2> QED
    BY <1>1, <2>0, <2>1, <2>2, EngineFacts DEF Printed, Torn
<1>9. /\ wpc' \in [Workers -> {"idle", "processing", "engine", "completed", "failed",
                               "except", "retry", "done"}]
      /\ wpc'[w] = x /\ \A v \in Workers \ {w} : wpc'[v] = wpc[v]
  BY <1>5 DEF TypeOK
<1>10. TypeOK'
  BY <1>1, <1>3, <1>4, <1>6, <1>7, <1>8, <1>9 DEF TypeOK, j
<1>11. \A v \in Workers : Active(v)' <=> Active(v)
  BY <1>0, <1>9 DEF Active
<1>12. Holders' /\ OnePlace'
  BY <1>0, <1>3, <1>9, <1>11 DEF Facts, Holders, OnePlace
<1>13. \A k \in Jobs : Nowhere(k) <=> Nowhere(k)'
  BY <1>3, <1>11 DEF Nowhere
<1>14. NotSent'
  <2>1. ~Nowhere(j)
    BY <1>0 DEF Nowhere, j
  <2> QED
    BY <1>3, <1>6, <1>13, <2>1 DEF Facts, NotSent
<1>15. ASSUME NEW k \in Jobs, NEW status, Entitled(k, status), k = j => j \in cut
       PROVE  Entitled(k, status)'
  <2>1. CASE k # j
    BY <1>3, <1>4, <1>7, <1>8, <1>15, <2>1 DEF Entitled, Rerun
  <2>2. CASE k = j
    BY <1>3, <1>4, <1>7, <1>8, <1>15, <2>2 DEF Entitled, Rerun
  <2> QED
    BY <2>1, <2>2
<1>16. Earned'
  <2>1. ASSUME NEW k \in Jobs PROVE Entitled(k, row[k].status)'
    <3>1. CASE row[k].status \in Final
      <4>1. k = j => j \in cut
        BY <1>0, <3>1 DEF Facts, EndedIsOver, Nowhere, j
      <4>2. Entitled(k, row[k].status)
        BY DEF Facts, Earned
      <4> QED
        BY <1>3, <1>15, <4>1, <4>2
    <3>2. CASE row[k].status \notin Final
      BY <1>3, <3>2 DEF Entitled, Final
    <3> QED
      BY <3>1, <3>2
  <2>2. (\A u \in late : u \in Updates /\ u.job \in cut /\ Entitled(u.job, u.status))'
    <3>1. \A u \in late : u.job \in Jobs
      BY DEF TypeOK
    <3> QED
      BY <1>3, <1>4, <1>15, <3>1 DEF Facts, Earned, Updates
  <2>3. ASSUME NEW v \in Workers, Active(v)' PROVE Entitled(task[v].job, wpc[v])'
    <3>1. CASE v = w
      BY <1>3, <1>7, <1>8, <1>9, <3>1 DEF Entitled, j
    <3>2. CASE v # w
      <4>1. Active(v) /\ task[v].job \in Jobs /\ task'[v].job = task[v].job /\ wpc'[v] = wpc[v]
        BY <1>3, <1>9, <1>11, <2>3, <3>2, HeldFacts
      <4>2. task[v].job # j
        BY <1>0, <3>2, <4>1 DEF Facts, OnePlace, j
      <4>3. Entitled(task[v].job, wpc[v])
        BY <4>1 DEF Facts, Earned
      <4> QED
        BY <1>15, <4>1, <4>2, <4>3
    <3> QED
      BY <3>1, <3>2
  <2> QED
    BY <2>1, <2>2, <2>3 DEF Earned
<1>17. EndedIsOver'
  BY <1>3, <1>4, <1>13 DEF Facts, EndedIsOver
<1>18. Attempts'
  <2>1. ASSUME NEW m \in broker
        PROVE  runs'[m.job] <= m.retries /\ (m.retries > 0 => m.job \in cut')
    <3>1. m.job \in Jobs /\ m.job # j
      BY <1>0 DEF TypeOK, TaskType, Facts, OnePlace, j
    <3> QED
      BY <1>4, <1>6, <3>1 DEF Facts, Attempts
  <2>2. ASSUME NEW v \in Workers, Active(v)
        PROVE  /\ runs'[task[v].job] <= task[v].retries + 1
               /\ wpc'[v] \in {"processing", "engine"} => runs'[task[v].job] <= task[v].retries
               /\ task[v].retries > 0 \/ wpc'[v] \in {"except", "retry"} => task[v].job \in cut'
    <3>1. CASE v = w
      BY <1>1, <1>2, <1>4, <1>5, <1>6, <1>9, <3>1 DEF j
    <3>2. CASE v # w
      <4>1. task[v].job \in Jobs /\ task[v].job # j /\ wpc'[v] = wpc[v]
        BY <1>0, <1>9, <2>2, <3>2, HeldFacts DEF Facts, OnePlace, j
      <4> QED
        BY <1>4, <1>6, <2>2, <4>1 DEF Facts, Attempts
    <3> QED
      BY <3>1, <3>2
  <2>3. \A k \in Jobs : runs'[k] <= IF k \in cut' THEN MaxRetries + 1 ELSE 1
    <3>1. runs'[j] <= IF j \in cut' THEN MaxRetries + 1 ELSE 1
      BY <1>1, <1>2, <1>4, <1>6, RetryAssumption
    <3> QED
      BY <1>4, <1>6, <3>1 DEF Facts, Attempts
  <2> QED
    BY <1>3, <1>11, <2>1, <2>2, <2>3 DEF Attempts
<1> QED
  BY <1>10, <1>12, <1>14, <1>16, <1>17, <1>18 DEF Facts

\* self.retry sends the task again, or gives up (tasks.py:71).
LEMMA RetrySteps ==
  ASSUME SaasInv, NEW w \in Workers, Retry(w)
  PROVE  SaasInv'
<1> USE DEF SaasInv
<1> DEFINE m == [task[w] EXCEPT !.retries = @ + 1]
<1>0. Active(w) /\ wpc[w] = "retry"
  BY DEF Retry, Active
<1>1. task[w] \in TaskType /\ task[w].retries \in Nat /\ task[w].job \in Jobs
  BY <1>0, HeldFacts, RetryAssumption
<1>2. /\ m \in TaskType /\ m.job = task[w].job /\ m.retries = task[w].retries + 1
      /\ m.retries > 0
  <2>1. task[w].retries + 1 \in 0 .. MaxRetries
    BY <1>1, RetryAssumption DEF Retry
  <2> QED
    BY <1>1, <2>1 DEF TaskType
<1>3. /\ broker' = broker \cup {m} /\ wpc' = [wpc EXCEPT ![w] = "done"]
      /\ UNCHANGED <<api, row, task, late, sheet, faults, runs, exits, cut, lost, undone>>
  BY DEF Retry, apiVars, history
<1> HIDE DEF m
<1>4. TypeOK'
  BY <1>2, <1>3 DEF TypeOK
<1>5. wpc'[w] = "done" /\ \A v \in Workers \ {w} : wpc'[v] = wpc[v]
  BY <1>3 DEF TypeOK
<1>6. \A v \in Workers : Active(v)' => Active(v) /\ v # w
  BY <1>5 DEF Active
<1>7. Holders' /\ OnePlace'
  BY <1>0, <1>2, <1>3, <1>5, <1>6 DEF Facts, Holders, OnePlace
<1>8. \A k \in Jobs : Nowhere(k) => Nowhere(k)'
  BY <1>0, <1>2, <1>3, <1>6 DEF Nowhere
<1>9. NotSent' /\ EndedIsOver'
  BY <1>3, <1>8 DEF Facts, NotSent, EndedIsOver
<1>10. Attempts'
  <2>1. runs[m.job] <= m.retries /\ m.job \in cut
    BY <1>0, <1>2 DEF Facts, Attempts
  <2> QED
    BY <1>3, <1>5, <1>6, <2>1 DEF Facts, Attempts
<1>11. Earned'
  BY <1>3, <1>5, <1>6 DEF Facts, Earned, Entitled, Rerun
<1> QED
  BY <1>4, <1>7, <1>9, <1>10, <1>11 DEF Facts

\* The task ends, or its worker is killed.
LEMMA EndSteps ==
  ASSUME SaasInv, NEW w \in Workers, GiveUp(w) \/ Finish(w) \/ WorkerDies(w)
  PROVE  SaasInv'
<1> USE DEF SaasInv
<1>0. /\ UNCHANGED <<api, row, broker, late, runs, exits, cut, undone>>
      /\ wpc[w] # "idle" /\ task[w].job \in Jobs /\ lost \subseteq lost'
  <2>1. task[w] \in TaskType
    BY DEF GiveUp, Finish, WorkerDies, Facts, Holders
  <2> QED
    BY <2>1 DEF GiveUp, Finish, WorkerDies, apiVars, history, TaskType
<1>1. \A v \in Workers : \/ wpc'[v] = wpc[v] /\ task'[v] = task[v]
                         \/ wpc'[v] = "done" /\ task'[v] = task[v] /\ wpc[v] # "idle"
                         \/ wpc'[v] = "idle" /\ task'[v] = NoTask
  BY <1>0 DEF GiveUp, Finish, WorkerDies, TypeOK
<1>3. /\ sheet' \in [Jobs -> [JobFields -> Nat]]
      /\ \/ UNCHANGED sheet
         \/ /\ \A k \in Jobs \ {task[w].job} : sheet'[k] = sheet[k]
            /\ task[w].job \in lost' /\ Active(w) /\ wpc'[w] = "done"
  <2>1. sheet \in [Jobs -> [JobFields -> Nat]]
    BY DEF TypeOK
  <2>2. CASE UNCHANGED sheet
    BY <2>1, <2>2
  <2>3. CASE sheet' # sheet
    <3>1. WorkerDies(w) /\ sheet' \in {Torn(task[w].job), Printed(task[w].job)}
      BY <2>3 DEF GiveUp, Finish, WorkerDies
    <3>2. task[w].job \in lost' /\ Active(w) /\ wpc'[w] = "done"
      BY <3>1 DEF WorkerDies, Active, TypeOK
    <3> QED
      BY <1>0, <2>1, <3>1, <3>2, EngineFacts DEF Torn, Printed
  <2> QED
    BY <2>2, <2>3
<1>2. TypeOK'
  <2>1. /\ lost' \subseteq Jobs /\ faults' \in 0 .. MaxFaults
        /\ wpc' = [wpc EXCEPT ![w] = "done"] \/ wpc' = [wpc EXCEPT ![w] = "idle"]
        /\ task' = task \/ task' = [task EXCEPT ![w] = NoTask]
    BY <1>0, RetryAssumption DEF GiveUp, Finish, WorkerDies, history, Fault, TypeOK
  <2> QED
    BY <1>0, <1>3, <2>1 DEF TypeOK
<1> QED
  BY <1>0, <1>1, <1>2, <1>3, QuietFacts

\* Every step of the API, of Redis and of a worker keeps the invariant.
LEMMA StepFacts == SaasInv /\ [Next]_vars => SaasInv'
<1> SUFFICES ASSUME SaasInv, [Next]_vars PROVE SaasInv'
  OBVIOUS
<1>1. CASE UNCHANGED vars
  <2>1. UNCHANGED <<api, row, broker, wpc, task, late, sheet, faults, runs, exits, cut, lost, undone>>
    BY <1>1 DEF vars, apiVars, workerVars, history
  <2>2. TypeOK'
    BY <2>1 DEF SaasInv, TypeOK
  <2> QED
    BY <2>1, <2>2, QuietFacts DEF SaasInv
<1>2. CASE Next
  BY <1>2, GenerateSteps, LateSteps, TakeSteps, MarkSteps, EngineSteps, RetrySteps, EndSteps
     DEF Next, TaskStep
<1> QED
  BY <1>1, <1>2

\* The invariant holds at every moment.
LEMMA SaasInvHolds == Spec => []SaasInv
BY InitFacts, StepFacts, PTL DEF Spec

\* The types hold; no task ever carries more than MaxRetries retries (tasks.py:20-22).
THEOREM SaasTypes == Spec => []TypeOK
<1>1. SaasInv => TypeOK
  BY DEF SaasInv
<1> QED
  BY <1>1, SaasInvHolds, PTL

\* For any number of jobs, workers, retries and faults, "completed" and "failed" are read
\* of a job only after the engine exited that way on it (tasks.py:40-58, internal.py:26);
\* the sheet of a completed job is there, unless a broken call made the engine run again
\* in vain (api.c:274).
THEOREM StatusEarnedHolds == Spec => []StatusEarned
<1>1. SaasInv => StatusEarned
  BY DEF SaasInv, Facts, Earned, Entitled, StatusEarned
<1> QED
  BY <1>1, SaasInvHolds, PTL

\* A set any two of whose members are equal has at most one.
LEMMA AtMostOne ==
  ASSUME NEW S, \A x, y \in S : x = y
  PROVE  Cardinality(S) \in Nat /\ Cardinality(S) <= 1 /\ (S = {} => Cardinality(S) = 0)
<1>1. CASE S = {}
  BY <1>1, FS_EmptySet
<1>2. CASE S # {}
  <2>1. PICK x \in S : S = {x}
    BY <1>2
  <2> QED
    BY <1>2, <2>1, FS_Singleton
<1> QED
  BY <1>1, <1>2

\* For any number of jobs, workers, retries and faults, a job is in one place and the
\* engine runs once per attempt (tasks.py:20, :37, :71; generate.py:52, :55).
THEOREM SingleFlightHolds == Spec => []SingleFlight
<1>1. SaasInv => SingleFlight
  <2> SUFFICES ASSUME SaasInv, NEW j \in Jobs
               PROVE  LET queued == {m \in broker : m.job = j}
                          held   == {w \in Workers : task[w].job = j /\ wpc[w] # "done"}
                      IN  /\ Cardinality(queued) + Cardinality(held) <= 1
                          /\ queued # {} \/ held # {} => row[j] # NoRow
                          /\ runs[j] <= IF j \in cut THEN MaxRetries + 1 ELSE 1
    BY DEF SingleFlight
  <2> DEFINE queued == {m \in broker : m.job = j}
             held   == {w \in Workers : task[w].job = j /\ wpc[w] # "done"}
  <2>1. \A w \in held : Active(w)
    BY JobsAssumption DEF SaasInv, Facts, Holders, Active, NoTask
  <2>2. \A x, y \in queued : x = y
    BY DEF SaasInv, Facts, OnePlace
  <2>3. \A x, y \in held : x = y
    BY <2>1 DEF SaasInv, Facts, OnePlace
  <2>4. queued = {} \/ held = {}
    BY <2>1 DEF SaasInv, Facts, OnePlace
  <2>5. queued # {} \/ held # {} => api[j] = "answered"
    BY <2>1 DEF SaasInv, Facts, NotSent, Nowhere
  <2>6. queued # {} \/ held # {} => row[j] # NoRow
    BY <2>5 DEF SaasInv, Facts, NotSent
  <2>7. runs[j] <= IF j \in cut THEN MaxRetries + 1 ELSE 1
    BY DEF SaasInv, Facts, Attempts
  <2>8. Cardinality(queued) + Cardinality(held) <= 1
    <3> HIDE DEF queued, held
    <3> QED
      BY <2>2, <2>3, <2>4, AtMostOne
  <2> QED
    BY <2>6, <2>7, <2>8
<1> QED
  BY <1>1, SaasInvHolds, PTL

\* A final status changes only for a job one of whose calls broke (internal.py:26).
THEOREM FinalKeptHolds == Spec => FinalKept
<1>1. SaasInv /\ [Next]_vars =>
        [\A j \in Jobs : row[j].status \in Final /\ row'[j].status # row[j].status
                           => j \in cut]_row
  <2> SUFFICES ASSUME SaasInv, [Next]_vars, NEW j \in Jobs,
                      row[j].status \in Final, row'[j].status # row[j].status, j \notin cut
               PROVE  FALSE
    OBVIOUS
  <2> USE DEF SaasInv
  <2>0. api[j] = "answered" /\ Nowhere(j) /\ row \in [Jobs -> Rows]
    BY KindsOf DEF Facts, NotSent, EndedIsOver, Kinds
  <2>1. CASE \E k \in Jobs : ApiStep(k) \/ GenerateFails(k)
    BY <2>0, <2>1 DEF ApiStep, SaveUpload, CommitJob, SendTask, GenerateFails
  <2>2. ASSUME NEW u \in late, ApplyLate(u) \/ DropLate(u) PROVE FALSE
    <3>1. u.job # j
      BY DEF Facts, Earned
    <3> QED
      BY <2>0, <2>2, <3>1 DEF ApplyLate, DropLate, Apply, apiVars
  <2>3. ASSUME NEW w \in Workers, NEW status, NEW next, NEW broken,
               Active(w), Patch(w, status, next, broken)
        PROVE  FALSE
    <3>1. task[w].job # j
      BY <2>0, <2>3 DEF Nowhere
    <3> QED
      BY <2>0, <2>3, <3>1 DEF Patch, Apply
  <2>4. ASSUME NEW w \in Workers,
               (\E m \in broker : Take(w, m)) \/ TaskStep(w) \/ WorkerDies(w)
        PROVE  FALSE
    <3>1. CASE MarkProcessing(w) \/ MarkFailed(w) \/ MarkCompleted(w) \/ MarkRetrying(w)
      BY <2>3, <3>1 DEF MarkProcessing, MarkFailed, MarkCompleted, MarkRetrying, Active
    <3>2. CASE ~(MarkProcessing(w) \/ MarkFailed(w) \/ MarkCompleted(w) \/ MarkRetrying(w))
      BY <2>4, <3>2 DEF Take, TaskStep, RunEngine, EngineRaises, Retry, GiveUp, Finish,
                        WorkerDies, apiVars
    <3> QED
      BY <3>1, <3>2
  <2>5. CASE UNCHANGED vars
    BY <2>5 DEF vars, apiVars
  <2> QED
    BY <2>1, <2>2, <2>4, <2>5 DEF Next
<1> QED
  BY <1>1, SaasInvHolds, PTL DEF Spec, FinalKept

=============================================================================
