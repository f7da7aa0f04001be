----------------------------- MODULE Scheduler -----------------------------
(***************************************************************************)
(* runtime/scheduler.c and runtime/worker.c: a pool of worker threads, one *)
(* ring per worker (queue_spsc.c, access by access), a global overflow     *)
(* queue (queue_mpmc.c, as the BoundedFifo it implements), work stealing,  *)
(* start-up and tear-down.                                                 *)
(*                                                                         *)
(* The main thread runs img_scheduler_init, hands out contexts, and later  *)
(* runs img_scheduler_destroy; Submitters call img_scheduler_submit while  *)
(* the pool is up.  Every task is submitted at most once, and the host     *)
(* destroys the pool only when no submit is in progress.                   *)
(***************************************************************************)
EXTENDS Integers, Sequences, FiniteSets

CONSTANTS
  W,           \* worker_count
  Submitters,  \* host threads that submit
  Tasks,       \* tasks, as multiples of 64 bytes: img_task_t is 64-byte aligned
  N,           \* slots of a worker's ring (1 << 10 in the code)
  G,           \* cells of the global queue (1024 in the code)
  BeyondOverlap, \* whether behaviours are followed after two workers overlapped on a ring
  NULL

ASSUME WAssumption == W \in Nat \ {0}
ASSUME RingAssumption == N \in Nat /\ N >= 2
ASSUME TaskAssumption == Tasks \subseteq Nat /\ NULL \notin Tasks
ASSUME SubmitterAssumption == Submitters \cap 0 .. W - 1 = {}   \* no worker submits

VARIABLES
  phase,             \* main thread: "init", "run", "stop", "join", "destroyed"
  next,              \* main thread: the loop index of init and destroy
  made,              \* made[w]: workers[w].queue exists
  running, ctx,      \* workers[w].running, workers[w].ctx # NULL
  head, tail, buf,   \* the rings
  gq, gst, garg,     \* the global queue, as BoundedFifo
  pc, k, h, got,     \* worker thread: pc, where it looks, index read, task found
  spc, sidx, stask,  \* submitter: pc, tail read, task
  sub,               \* sub[x]: "no", "calling", "accepted", "refused"
  early,             \* tasks submitted before every worker had a ctx
  overlap,           \* history: two workers have been inside img_queue_pop of one ring
  status             \* status[x]: "unset", "done" (0), "skipped" (-1)

mainVars   == <<phase, next>>
ringVars   == <<head, tail, buf>>
globalVars == <<gq, gst, garg>>
workerVars == <<pc, k, h, got>>
submitVars == <<spc, sidx, stask, sub, early>>
vars == <<mainVars, made, running, ctx, ringVars, globalVars, workerVars,
          submitVars, overlap, status>>

Workers == 0 .. W - 1
Slots   == 0 .. N - 1

Global == INSTANCE BoundedFifo WITH
            Threads <- Workers \cup Submitters, Values <- Tasks, Capacity <- G,
            queue <- gq, st <- gst, arg <- garg

Succ(i) == (i + 1) % N

\* (uintptr_t)task % worker_count
Target(x) == (64 * x) % W

\* The ring worker w looks at: its own, then img_scheduler_steal's victims.
Victim(w) == IF k[w] = 0 THEN w ELSE (w + k[w]) % W

-----------------------------------------------------------------------------
Init ==
  /\ phase = "init" /\ next = 0
  /\ made = [w \in Workers |-> FALSE]
  /\ running = [w \in Workers |-> FALSE]
  /\ ctx = [w \in Workers |-> FALSE]
  /\ head = [w \in Workers |-> 0]
  /\ tail = [w \in Workers |-> 0]
  /\ buf = [w \in Workers |-> [i \in Slots |-> NULL]]
  /\ Global!FifoInit
  /\ pc = [w \in Workers |-> "none"]
  /\ k = [w \in Workers |-> 0]
  /\ h = [w \in Workers |-> 0]
  /\ got = [w \in Workers |-> NULL]
  /\ spc = [s \in Submitters |-> "idle"]
  /\ sidx = [s \in Submitters |-> 0]
  /\ stask = [s \in Submitters |-> NULL]
  /\ sub = [x \in Tasks |-> "no"]
  /\ early = {}
  /\ overlap = FALSE
  /\ status = [x \in Tasks |-> "unset"]

-----------------------------------------------------------------------------
\* The main thread.

\* Mutation: the loop leaves the last worker out.
InitWorkerOneShort ==
  /\ phase = "init"
  /\ made' = [made EXCEPT ![next] = TRUE]
  /\ running' = [running EXCEPT ![next] = TRUE]
  /\ pc' = [pc EXCEPT ![next] = "check"]
  /\ IF next + 2 = W THEN phase' = "run" /\ next' = 0
                     ELSE next' = next + 1 /\ UNCHANGED phase
  /\ UNCHANGED <<overlap, ctx, ringVars, globalVars, k, h, got, submitVars, status>>

\* One round of img_scheduler_init's loop: img_worker_init creates the ring and
\* starts the thread, with no ctx.
InitWorker ==
  /\ phase = "init"
  /\ made' = [made EXCEPT ![next] = TRUE]
  /\ running' = [running EXCEPT ![next] = TRUE]
  /\ pc' = [pc EXCEPT ![next] = "check"]
  /\ IF next + 1 = W THEN phase' = "run" /\ next' = 0
                     ELSE next' = next + 1 /\ UNCHANGED phase
  /\ UNCHANGED <<overlap, ctx, ringVars, globalVars, k, h, got, submitVars, status>>

\* "scheduler callers must set sched->workers[i].ctx after init"
SetCtx(w) ==
  /\ phase = "run"
  /\ ~ctx[w]
  /\ ctx' = [ctx EXCEPT ![w] = TRUE]
  /\ UNCHANGED <<mainVars, made, overlap, running, ringVars, globalVars, workerVars,
                 submitVars, status>>

DestroyCall ==
  /\ phase = "run"
  /\ \A s \in Submitters : spc[s] = "idle"
  /\ phase' = "stop"
  /\ UNCHANGED <<next, made, overlap, running, ctx, ringVars, globalVars, workerVars,
                 submitVars, status>>

\* Mutation: running is not cleared.
StopWorkerStillRunning ==
  /\ phase = "stop"
  /\ phase' = "join"
  /\ UNCHANGED <<next, made, overlap, running, ctx, ringVars, globalVars, workerVars, submitVars, status>>

StopWorker ==
  /\ phase = "stop"
  /\ running' = [running EXCEPT ![next] = FALSE]
  /\ phase' = "join"
  /\ UNCHANGED <<next, made, overlap, ctx, ringVars, globalVars, workerVars, submitVars, status>>

\* Mutation: the thread is not joined.
JoinWorkerAtOnce ==
  /\ phase = "join"
  /\ IF next + 1 = W THEN phase' = "destroyed" /\ UNCHANGED next
                     ELSE phase' = "stop" /\ next' = next + 1
  /\ UNCHANGED <<made, overlap, running, ctx, ringVars, globalVars, workerVars, submitVars, status>>

\* pthread_join; after the last worker the global queue and the workers are freed.
JoinWorker ==
  /\ phase = "join"
  /\ pc[next] = "exited"
  /\ IF next + 1 = W THEN phase' = "destroyed" /\ UNCHANGED next
                     ELSE phase' = "stop" /\ next' = next + 1
  /\ UNCHANGED <<made, overlap, running, ctx, ringVars, globalVars, workerVars, submitVars, status>>

-----------------------------------------------------------------------------
\* worker_loop

WorkerGoto(w, from, to) ==
  /\ pc[w] = from
  /\ pc' = [pc EXCEPT ![w] = to]

LoopCheck(w) ==
  /\ WorkerGoto(w, "check", IF running[w] THEN "load" ELSE "exited")
  /\ k' = [k EXCEPT ![w] = 0]
  /\ h' = [h EXCEPT ![w] = 0]
  /\ got' = [got EXCEPT ![w] = NULL]
  /\ UNCHANGED <<mainVars, made, overlap, running, ctx, ringVars, globalVars, submitVars, status>>

\* A worker between its load and its store of some ring's head.
InPop == {"cmp", "read", "store"}

\* img_queue_pop loads head; a ring that does not exist yet is a null pointer, and
\* the process ends (see Next).
PopLoad(w) ==
  /\ WorkerGoto(w, "load", IF made[Victim(w)] THEN "cmp" ELSE "crashed")
  /\ h' = [h EXCEPT ![w] = head[Victim(w)]]
  /\ overlap' = (overlap \/ \E v \in Workers : pc[v] \in InPop /\ Victim(v) = Victim(w))
  /\ UNCHANGED <<mainVars, made, running, ctx, ringVars, globalVars, k, got,
                 submitVars, status>>

\* Mutation: the global queue is never looked at.
NextVictimNoGlobal(w) ==
  /\ IF k[w] < W THEN pc' = [pc EXCEPT ![w] = "load"] /\ k' = [k EXCEPT ![w] = @ + 1]
                  ELSE pc' = [pc EXCEPT ![w] = "check"] /\ UNCHANGED k
  /\ UNCHANGED globalVars

\* This ring had nothing: the next victim, or the global queue after the last.
NextVictim(w) ==
  IF k[w] < W
  THEN /\ pc' = [pc EXCEPT ![w] = "load"]
       /\ k' = [k EXCEPT ![w] = @ + 1]
       /\ UNCHANGED globalVars
  ELSE /\ pc' = [pc EXCEPT ![w] = "gpop"]
       /\ Global!CallPop(w)
       /\ UNCHANGED k

PopEmpty(w) ==
  /\ pc[w] = "cmp"
  /\ h[w] = tail[Victim(w)]
  /\ NextVictim(w)
  /\ UNCHANGED <<mainVars, made, overlap, running, ctx, ringVars, h, got, submitVars, status>>

PopReady(w) ==
  /\ WorkerGoto(w, "cmp", "read")
  /\ h[w] # tail[Victim(w)]
  /\ UNCHANGED <<mainVars, made, overlap, running, ctx, ringVars, globalVars, k, h, got,
                 submitVars, status>>

PopRead(w) ==
  /\ WorkerGoto(w, "read", "store")
  /\ got' = [got EXCEPT ![w] = buf[Victim(w)][h[w]]]
  /\ UNCHANGED <<mainVars, made, overlap, running, ctx, ringVars, globalVars, k, h,
                 submitVars, status>>

\* Mutation: head is not stored.
PopStoreForgotten(w) ==
  /\ pc[w] = "store"
  /\ IF got[w] = NULL
     THEN NextVictim(w)
     ELSE pc' = [pc EXCEPT ![w] = "task"] /\ UNCHANGED <<k, globalVars>>
  /\ UNCHANGED <<mainVars, made, overlap, running, ctx, ringVars, h, got, submitVars, status>>

\* A null item reads as "empty" to the caller, but head has moved.
PopStore(w) ==
  /\ pc[w] = "store"
  /\ head' = [head EXCEPT ![Victim(w)] = Succ(h[w])]
  /\ IF got[w] = NULL
     THEN NextVictim(w)
     ELSE pc' = [pc EXCEPT ![w] = "task"] /\ UNCHANGED <<k, globalVars>>
  /\ UNCHANGED <<mainVars, made, overlap, running, ctx, tail, buf, h, got, submitVars, status>>

GlobalTake(w) ==
  /\ WorkerGoto(w, "gpop", "gret")
  /\ Global!Dequeue(w)
  /\ UNCHANGED <<mainVars, made, overlap, running, ctx, ringVars, k, h, got, submitVars, status>>

GlobalNone(w) ==
  /\ WorkerGoto(w, "gpop", "check")
  /\ Global!PopEmpty(w)
  /\ UNCHANGED <<mainVars, made, overlap, running, ctx, ringVars, k, h, got, submitVars, status>>

GlobalReturn(w) ==
  /\ WorkerGoto(w, "gret", "task")
  /\ got' = [got EXCEPT ![w] = garg[w]]
  /\ Global!ReturnPop(w)
  /\ UNCHANGED <<mainVars, made, overlap, running, ctx, ringVars, k, h, submitVars, status>>

\* Mutation: no "continue" after the skip.
SkipTaskFallsThrough(w) ==
  /\ WorkerGoto(w, "task", "exec")
  /\ ~ctx[w]
  /\ status' = [status EXCEPT ![got[w]] = "skipped"]
  /\ UNCHANGED <<mainVars, made, overlap, running, ctx, ringVars, globalVars, k, h, got, submitVars>>

\* Mutation: the skip does not ask for the ctx.
SkipTaskAlways(w) ==
  /\ WorkerGoto(w, "task", "check")
  /\ status' = [status EXCEPT ![got[w]] = "skipped"]
  /\ UNCHANGED <<mainVars, made, overlap, running, ctx, ringVars, globalVars, k, h, got, submitVars>>

\* No ctx: the task is not executed, its status says so.
SkipTask(w) ==
  /\ WorkerGoto(w, "task", "check")
  /\ ~ctx[w]
  /\ status' = [status EXCEPT ![got[w]] = "skipped"]
  /\ UNCHANGED <<mainVars, made, overlap, running, ctx, ringVars, globalVars, k, h, got, submitVars>>

BeginTask(w) ==
  /\ WorkerGoto(w, "task", "exec")
  /\ ctx[w]
  /\ UNCHANGED <<mainVars, made, overlap, running, ctx, ringVars, globalVars, k, h, got,
                 submitVars, status>>

FinishTask(w) ==
  /\ WorkerGoto(w, "exec", "check")
  /\ status' = [status EXCEPT ![got[w]] = "done"]
  /\ UNCHANGED <<mainVars, made, overlap, running, ctx, ringVars, globalVars, k, h, got, submitVars>>

-----------------------------------------------------------------------------
\* img_scheduler_submit

SubmitGoto(s, from, to) ==
  /\ spc[s] = from
  /\ spc' = [spc EXCEPT ![s] = to]

SubmitDone(s, result) ==
  /\ sub' = [sub EXCEPT ![stask[s]] = result]
  /\ stask' = [stask EXCEPT ![s] = NULL]
  /\ sidx' = [sidx EXCEPT ![s] = 0]

\* img_queue_push on the target's ring, up to the load of tail.  Only Target(x) depends
\* on which task it is, so the tasks are submitted in order.
SubmitCall(s, x) ==
  /\ phase = "run"
  /\ sub[x] = "no" /\ \A y \in Tasks : y < x => sub[y] # "no"
  /\ SubmitGoto(s, "idle", "cmp")
  /\ stask' = [stask EXCEPT ![s] = x]
  /\ sidx' = [sidx EXCEPT ![s] = tail[Target(x)]]
  /\ sub' = [sub EXCEPT ![x] = "calling"]
  /\ early' = IF \A w \in Workers : ctx[w] THEN early ELSE early \cup {x}
  /\ UNCHANGED <<mainVars, made, overlap, running, ctx, ringVars, globalVars, workerVars, status>>

SubmitRoom(s) ==
  /\ SubmitGoto(s, "cmp", "data")
  /\ Succ(sidx[s]) # head[Target(stask[s])]
  /\ UNCHANGED <<mainVars, made, overlap, running, ctx, ringVars, globalVars, workerVars,
                 sidx, stask, sub, early, status>>

\* The ring is full: img_mpmc_push on the global queue
SubmitFull(s) ==
  /\ SubmitGoto(s, "cmp", "gpush")
  /\ Succ(sidx[s]) = head[Target(stask[s])]
  /\ Global!CallPush(s, stask[s])
  /\ UNCHANGED <<mainVars, made, overlap, running, ctx, ringVars, workerVars,
                 sidx, stask, sub, early, status>>

SubmitData(s) ==
  /\ SubmitGoto(s, "data", "tail")
  /\ buf' = [buf EXCEPT ![Target(stask[s])][sidx[s]] = stask[s]]
  /\ UNCHANGED <<mainVars, made, overlap, running, ctx, head, tail, globalVars, workerVars,
                 sidx, stask, sub, early, status>>

SubmitTail(s) ==
  /\ SubmitGoto(s, "tail", "idle")
  /\ tail' = [tail EXCEPT ![Target(stask[s])] = Succ(sidx[s])]
  /\ SubmitDone(s, "accepted")
  /\ UNCHANGED <<mainVars, made, overlap, running, ctx, head, buf, globalVars, workerVars,
                 early, status>>

GlobalPut(s) ==
  /\ SubmitGoto(s, "gpush", "gret")
  /\ Global!Enqueue(s)
  /\ UNCHANGED <<mainVars, made, overlap, running, ctx, ringVars, workerVars,
                 sidx, stask, sub, early, status>>

GlobalPutReturn(s) ==
  /\ SubmitGoto(s, "gret", "idle")
  /\ Global!ReturnPush(s)
  /\ SubmitDone(s, "accepted")
  /\ UNCHANGED <<mainVars, made, overlap, running, ctx, ringVars, workerVars, early, status>>

\* Both queues are full: submit returns -1.
GlobalFull(s) ==
  /\ SubmitGoto(s, "gpush", "idle")
  /\ Global!PushFull(s)
  /\ SubmitDone(s, "refused")
  /\ UNCHANGED <<mainVars, made, overlap, running, ctx, ringVars, workerVars, early, status>>

-----------------------------------------------------------------------------
MainStep == InitWorker \/ StopWorker \/ JoinWorker

WorkerStep(w) ==
  \/ LoopCheck(w) \/ PopLoad(w) \/ PopEmpty(w) \/ PopReady(w) \/ PopRead(w)
  \/ PopStore(w) \/ GlobalTake(w) \/ GlobalNone(w) \/ GlobalReturn(w)
  \/ SkipTask(w) \/ BeginTask(w) \/ FinishTask(w)

SubmitStep(s) ==
  \/ SubmitRoom(s) \/ SubmitFull(s) \/ SubmitData(s) \/ SubmitTail(s)
  \/ GlobalPut(s) \/ GlobalPutReturn(s) \/ GlobalFull(s)

\* No thread dereferenced a null ring: the process is alive.
Alive == \A w \in Workers : pc[w] # "crashed"

Going == Alive /\ (overlap => BeyondOverlap)

Next ==
  /\ Going
  /\ \/ MainStep
     \/ DestroyCall
     \/ \E w \in Workers : SetCtx(w) \/ WorkerStep(w)
     \/ \E s \in Submitters : (\E x \in Tasks : SubmitCall(s, x)) \/ SubmitStep(s)

Spec == Init /\ [][Next]_vars

\* Every thread that can run is run: the workers spin, they never sleep.
FairSpec ==
  /\ Spec
  /\ WF_vars(Going /\ MainStep)
  /\ \A w \in Workers : WF_vars(Going /\ WorkerStep(w))
  /\ \A s \in Submitters : WF_vars(Going /\ SubmitStep(s))

-----------------------------------------------------------------------------
WorkerPcs == {"none", "check", "load", "cmp", "read", "store", "gpop", "gret",
              "task", "exec", "exited", "crashed"}
SubmitPcs == {"idle", "cmp", "data", "tail", "gpush", "gret"}

\* The types; in particular a worker looks at no victim past img_scheduler_steal's
\* loop bound (scheduler.c:75) and at no slot outside a ring.
TypeOK ==
  /\ phase \in {"init", "run", "stop", "join", "destroyed"}
  /\ next \in Workers
  /\ made \in [Workers -> BOOLEAN]
  /\ running \in [Workers -> BOOLEAN]
  /\ ctx \in [Workers -> BOOLEAN]
  /\ head \in [Workers -> Slots]
  /\ tail \in [Workers -> Slots]
  /\ buf \in [Workers -> [Slots -> Tasks \cup {NULL}]]
  /\ gq \in Seq(Tasks)
  /\ pc \in [Workers -> WorkerPcs]
  /\ k \in [Workers -> 0 .. W]
  /\ h \in [Workers -> Slots]
  /\ got \in [Workers -> Tasks \cup {NULL}]
  /\ spc \in [Submitters -> SubmitPcs]
  /\ sidx \in [Submitters -> Slots]
  /\ stask \in [Submitters -> Tasks \cup {NULL}]
  /\ sub \in [Tasks -> {"no", "calling", "accepted", "refused"}]
  /\ early \subseteq Tasks
  /\ overlap \in BOOLEAN
  /\ status \in [Tasks -> {"unset", "done", "skipped"}]

\* The slots of worker w's ring that hold an item.
Occupied(w) ==
  IF head[w] <= tail[w] THEN head[w] .. tail[w] - 1
                        ELSE Slots \ (tail[w] .. head[w] - 1)

\* Everywhere task x is: in a ring, in the global queue, in a worker's hands.
InRing(x) == {wi \in Workers \X Slots : wi[2] \in Occupied(wi[1]) /\ buf[wi[1]][wi[2]] = x}
Queued(x) == {i \in 1 .. Len(gq) : gq[i] = x}
Taking(x) == {w \in Workers : pc[w] = "gret" /\ garg[w] = x}
Held(x)   == {w \in Workers : pc[w] \in {"task", "exec"} /\ got[w] = x}

Copies(x) == Cardinality(InRing(x)) + Cardinality(Queued(x))
             + Cardinality(Taking(x)) + Cardinality(Held(x))

\* As long as no two workers were inside img_queue_pop of one ring at once, a task
\* that submit accepted (scheduler.c:63, :65) is in exactly one place until its status
\* is written, and in none afterwards, whoever steals it: never lost, never duplicated.
\* One that both queues refused is still the caller's: no queue and no worker has it.
Conserved ==
  ~overlap =>
    \A x \in Tasks :
      /\ sub[x] = "accepted" => Copies(x) = IF status[x] = "unset" THEN 1 ELSE 0
      /\ sub[x] = "refused" => Copies(x) = 0 /\ status[x] = "unset"

\* task.h:47 lets the caller take the buffer back once status is written: from then
\* on no worker may hold the task.
NoUseAfterStatus ==
  \A x \in Tasks : status[x] # "unset" =>
    \A w \in Workers : pc[w] \in {"task", "exec"} => got[w] # x

\* worker.h:35 wants the scheduler valid before img_worker_init starts a thread that
\* reads it.  Only while img_scheduler_init is still in its loop (scheduler.c:33) can a
\* worker pop a ring that does not exist; once it has returned, every victim has one.
NullRingOnlyAtStartup ==
  [][\A w \in Workers : pc[w] # "crashed" /\ pc'[w] = "crashed" => phase = "init"]_vars

\* img_scheduler_destroy frees the global queue and the workers (scheduler.c:50-51):
\* by then no thread may be anywhere in worker_loop, not even stealing.
FreedAfterExit == phase = "destroyed" => \A w \in Workers : pc[w] = "exited"

\* worker.c:58 skips a task only for want of a ctx, so a task submitted after
\* every worker got one is executed, whoever steals it.
SkipOnlyEarly == \A x \in Tasks : status[x] = "skipped" => x \in early

\* A status, once written, is final: unless two workers popped one ring at once, no
\* second worker overwrites it.
StatusFinal ==
  [][~overlap => \A x \in Tasks : status[x] # "unset" => status'[x] = status[x]]_status

Outstanding == {x \in Tasks : sub[x] = "accepted" /\ status[x] = "unset"}

\* Accepted tasks are eventually answered, all of them, while the pool is up, whichever
\* queue they went to (a process that died at start-up, or two workers on one ring, aside).
AcceptedAnswered ==
  Outstanding # {} ~> \/ Outstanding = {} \/ overlap \/ ~Alive
                      \/ phase \in {"stop", "join", "destroyed"}

\* img_scheduler_destroy ends: every worker that lives notices that running is 0.
DestroyEnds ==
  phase = "stop" ~> phase = "destroyed" \/ overlap \/ ~Alive

=============================================================================
