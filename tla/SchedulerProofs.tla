-------------------------- MODULE SchedulerProofs --------------------------
(***************************************************************************)
(* Proofs about Scheduler for every number of workers and tasks and every  *)
(* size of the rings and the global queue.  The first part is about start  *)
(* and shutdown and holds for any number of submitters.  The second keeps  *)
(* the books of the tasks; img_queue_push is for one producer, so that     *)
(* part is about one submitter, and about as long as no two workers were   *)
(* inside one ring at once.                                                *)
(***************************************************************************)
EXTENDS Scheduler, RingArith, FiniteSetTheorems

\* All threads that touch a ring.
Threads == Workers \cup Submitters

\* (i + 1) & mask is the next slot, and slot 0 after the last.
LEMMA RingSucc ==
  ASSUME NEW i \in Slots
  PROVE  /\ Succ(i) \in Slots
         /\ Succ(i) = IF i = N - 1 THEN 0 ELSE i + 1
<1> USE RingAssumption DEF Slots, Succ
<1>1. CASE i = N - 1
  <2>1. (0 + N) % N = 0 % N
    BY NextLap
  <2>2. 0 % N = 0
    BY FirstLap
  <2>3. (i + 1) % N = 0
    BY <1>1, <2>1, <2>2
  <2> QED
    BY <1>1, <2>3
<1>2. CASE i # N - 1
  <2>1. i + 1 \in Nat /\ i + 1 < N
    BY <1>2
  <2>2. (i + 1) % N = i + 1
    BY <2>1, FirstLap
  <2> QED
    BY <1>2, <2>1, <2>2
<1> QED
  BY <1>1, <1>2

\* A task goes to an existing worker, and a thief looks at existing ones only.
LEMMA TargetIsWorker == ASSUME NEW x \in Tasks PROVE Target(x) \in Workers
<1>1. 64 * x \in Nat
  BY TaskAssumption
<1> QED
  BY <1>1, WAssumption, ModInRange DEF Target, Workers

\* The victims of img_scheduler_steal are workers (scheduler.c:77).
LEMMA VictimIsWorker ==
  ASSUME NEW w \in Workers, k \in [Workers -> 0 .. W] PROVE Victim(w) \in Workers
<1>1. w + k[w] \in Nat
  BY WAssumption DEF Workers
<1> QED
  BY <1>1, WAssumption, ModInRange DEF Victim, Workers

-----------------------------------------------------------------------------
\* TypeOK in three parts: the main thread, the workers with the rings, the submitters.
MainTypes ==
  /\ phase \in {"init", "run", "stop", "join", "destroyed"}
  /\ next \in Workers
  /\ made \in [Workers -> BOOLEAN]
  /\ running \in [Workers -> BOOLEAN]
  /\ ctx \in [Workers -> BOOLEAN]

\* The workers with their rings.
WorkerTypes ==
  /\ pc \in [Workers -> WorkerPcs]
  /\ k \in [Workers -> 0 .. W]
  /\ h \in [Workers -> Slots]
  /\ got \in [Workers -> Tasks \cup {NULL}]
  /\ overlap \in BOOLEAN

\* What tasks and the global queue are.
SharedTypes ==
  /\ head \in [Workers -> Slots]
  /\ tail \in [Workers -> Slots]
  /\ buf \in [Workers -> [Slots -> Tasks \cup {NULL}]]
  /\ gq \in Seq(Tasks)
  /\ garg \in [Threads -> Tasks \cup {NULL}]
  /\ status \in [Tasks -> {"unset", "done", "skipped"}]

\* The submitters.
SubmitTypes ==
  /\ spc \in [Submitters -> SubmitPcs]
  /\ sidx \in [Submitters -> Slots]
  /\ stask \in [Submitters -> Tasks \cup {NULL}]
  /\ sub \in [Tasks -> {"no", "calling", "accepted", "refused"}]
  /\ early \subseteq Tasks

\* All of TypeOK.
Types == MainTypes /\ WorkerTypes /\ SharedTypes /\ SubmitTypes

\* Where a task is expected there is one.
InHand ==
  /\ \A w \in Workers : /\ pc[w] \in {"task", "exec"} => got[w] \in Tasks
                        /\ pc[w] = "gret" => garg[w] \in Tasks
  /\ \A s \in Submitters : /\ spc[s] # "idle" => stask[s] \in Tasks
                           /\ spc[s] = "gpush" => garg[s] = stask[s]

\* How far start-up and tear-down are.
Progress ==
  /\ phase = "init" => \A w \in Workers : IF w < next THEN made[w] ELSE pc[w] = "none"
  /\ phase # "init" => \A w \in Workers : made[w]
  /\ phase = "run" => next = 0
  /\ phase \in {"stop", "join"} => \A w \in Workers : w < next => pc[w] = "exited"
  /\ FreedAfterExit

\* A task is nowhere before it is submitted.
Known ==
  \A x \in Tasks : sub[x] = "no" =>
    /\ \A w \in Workers : got[w] # x
    /\ \A w \in Workers, i \in Slots : buf[w][i] # x
    /\ \A i \in 1 .. Len(gq) : gq[i] # x
    /\ \A t \in Threads : garg[t] # x
    /\ \A s \in Submitters : stask[s] # x

\* A task that is not early came after every worker had its ctx.
Ready ==
  \A x \in Tasks : sub[x] # "no" /\ x \notin early => \A w \in Workers : ctx[w]

\* The inductive invariant behind the properties of start and shutdown.
PoolInv == Types /\ InHand /\ Progress /\ Known /\ Ready /\ SkipOnlyEarly

\* Before img_scheduler_init there is nothing.
LEMMA PoolInit == Init => PoolInv
<1> SUFFICES ASSUME Init PROVE PoolInv
  OBVIOUS
<1>0. 0 \in Workers /\ 0 \in Slots /\ 0 \in 0 .. W
  BY WAssumption, RingAssumption DEF Workers, Slots
<1>1. gq = <<>> /\ garg = [t \in Threads |-> NULL]
  BY DEF Init, Global!FifoInit, Threads
<1>2. MainTypes /\ WorkerTypes
  BY <1>0 DEF Init, MainTypes, WorkerTypes, WorkerPcs
<1>3. SharedTypes
  <2>1. <<>> \in Seq(Tasks)
    OBVIOUS
  <2> QED
    BY <1>0, <1>1, <2>1 DEF Init, SharedTypes
<1>4. SubmitTypes
  BY <1>0 DEF Init, SubmitTypes, SubmitPcs
<1>5. InHand
  BY DEF Init, InHand
<1>6. Progress
  BY WAssumption DEF Init, Progress, FreedAfterExit, Workers
<1>7. Known
  <2>1. Len(gq) = 0
    BY <1>1
  <2> QED
    BY <1>1, <2>1, TaskAssumption DEF Init, Known
<1>8. Ready /\ SkipOnlyEarly
  BY DEF Init, Ready, SkipOnlyEarly
<1> QED
  BY <1>2, <1>3, <1>4, <1>5, <1>6, <1>7, <1>8 DEF PoolInv, Types

-----------------------------------------------------------------------------
\* The main thread.
LEMMA MainSteps ==
  ASSUME PoolInv, MainStep \/ DestroyCall \/ \E w \in Workers : SetCtx(w)
  PROVE  PoolInv'
<1> USE DEF PoolInv, Types
<1>0. /\ UNCHANGED <<overlap, ringVars, globalVars, k, h, got, submitVars, status>>
      /\ \A v \in Workers : ctx[v] => ctx'[v]
  BY DEF MainStep, InitWorker, StopWorker, JoinWorker, DestroyCall, SetCtx, workerVars, MainTypes
<1>1. /\ UNCHANGED <<overlap, head, tail, buf, gq, gst, garg, k, h, got>>
      /\ UNCHANGED <<spc, sidx, stask, sub, early, status>>
  BY <1>0 DEF ringVars, globalVars, submitVars
<1>2. SharedTypes' /\ SubmitTypes'
  BY <1>1 DEF SharedTypes, SubmitTypes
<1>3. Known' /\ SkipOnlyEarly'
  BY <1>1 DEF Known, SkipOnlyEarly
<1>4. Ready'
  BY <1>0, <1>1 DEF Ready
<1>5. next + 1 # W => next + 1 \in Workers
  BY WAssumption DEF MainTypes, Workers
<1>6. 0 \in Workers /\ Workers \subseteq Nat
  BY WAssumption DEF Workers
<1>7. CASE InitWorker
  <2>1. MainTypes'
    BY <1>5, <1>6, <1>7 DEF InitWorker, MainTypes
  <2>2. pc' = [pc EXCEPT ![next] = "check"]
    BY <1>7 DEF InitWorker
  <2>3. WorkerTypes' /\ InHand'
    BY <1>1, <2>2 DEF WorkerTypes, InHand, WorkerPcs
  <2>4. Progress'
    <3>0. phase = "init" /\ \A w \in Workers : IF w < next + 1 THEN made'[w] ELSE pc'[w] = "none"
      BY <1>6, <1>7, <2>2 DEF InitWorker, MainTypes, WorkerTypes, Progress, Workers
    <3>1. CASE next + 1 = W
      <4>1. \A w \in Workers : w < next + 1
        BY <3>1, WAssumption DEF Workers
      <4> QED
        BY <1>7, <3>0, <3>1, <4>1 DEF InitWorker, Progress, FreedAfterExit
    <3>2. CASE next + 1 # W
      BY <1>7, <3>0, <3>2 DEF InitWorker, Progress, FreedAfterExit
    <3> QED
      BY <3>1, <3>2
  <2> QED
    BY <1>2, <1>3, <1>4, <2>1, <2>3, <2>4
<1>8. CASE ~InitWorker
  <2>1. pc' = pc /\ made' = made
    BY <1>8 DEF MainStep, StopWorker, JoinWorker, DestroyCall, SetCtx, workerVars
  <2>2. WorkerTypes' /\ InHand'
    BY <1>1, <2>1 DEF WorkerTypes, InHand
  <2>3. MainTypes'
    <3>1. CASE \E w \in Workers : SetCtx(w)
      BY <3>1 DEF SetCtx, mainVars, MainTypes
    <3>2. CASE StopWorker
      BY <3>2 DEF StopWorker, MainTypes
    <3>3. CASE JoinWorker
      BY <1>5, <3>3 DEF JoinWorker, MainTypes
    <3>4. CASE DestroyCall
      BY <3>4 DEF DestroyCall, MainTypes
    <3> QED
      BY <1>8, <3>1, <3>2, <3>3, <3>4 DEF MainStep
  <2>4. Progress'
    <3>1. CASE \E w \in Workers : SetCtx(w)
      BY <2>1, <3>1 DEF SetCtx, mainVars, Progress, FreedAfterExit
    <3>2. CASE StopWorker
      BY <2>1, <3>2 DEF StopWorker, Progress, FreedAfterExit
    <3>3. CASE JoinWorker
      <4>1. \A w \in Workers : w < next + 1 => pc[w] = "exited"
        BY <1>6, <3>3 DEF JoinWorker, Progress, MainTypes
      <4>2. CASE next + 1 = W
        <5>1. \A w \in Workers : w < next + 1
          BY <4>2, WAssumption DEF Workers
        <5> QED
          BY <2>1, <3>3, <4>1, <4>2, <5>1 DEF JoinWorker, Progress, FreedAfterExit
      <4>3. CASE next + 1 # W
        BY <2>1, <3>3, <4>1, <4>3 DEF JoinWorker, Progress, FreedAfterExit
      <4> QED
        BY <4>2, <4>3
    <3>4. CASE DestroyCall
      BY <1>6, <2>1, <3>4 DEF DestroyCall, Progress, FreedAfterExit
    <3> QED
      BY <1>8, <3>1, <3>2, <3>3, <3>4 DEF MainStep
  <2> QED
    BY <1>2, <1>3, <1>4, <2>2, <2>3, <2>4
<1> QED
  BY <1>7, <1>8

-----------------------------------------------------------------------------
\* The workers.  What none of their steps touches:
LEMMA WorkerFrame ==
  ASSUME PoolInv, NEW w \in Workers, WorkerStep(w)
  PROVE  /\ UNCHANGED <<phase, next, made, running, ctx, tail, buf>>
         /\ UNCHANGED <<spc, sidx, stask, sub, early>>
         /\ pc[w] \notin {"none", "exited", "crashed"}
         /\ \E to \in WorkerPcs : pc' = [pc EXCEPT ![w] = to]
         /\ \A v \in Workers \ {w} : pc'[v] = pc[v] /\ k'[v] = k[v] /\ h'[v] = h[v] /\ got'[v] = got[v]
<1> USE DEF mainVars, ringVars, submitVars, WorkerGoto, WorkerPcs
<1>0. /\ pc \in [Workers -> WorkerPcs] /\ k \in [Workers -> 0 .. W]
      /\ h \in [Workers -> Slots] /\ got \in [Workers -> Tasks \cup {NULL}]
  BY DEF PoolInv, Types, WorkerTypes
<1>1. CASE LoopCheck(w) \/ PopLoad(w)
  BY <1>0, <1>1 DEF LoopCheck, PopLoad
<1>2. CASE PopEmpty(w)
  BY <1>0, <1>2 DEF PopEmpty, NextVictim
<1>3. CASE PopStore(w)
  BY <1>0, <1>3 DEF PopStore, NextVictim
<1>4. CASE PopReady(w) \/ PopRead(w)
  BY <1>0, <1>4 DEF PopReady, PopRead
<1>5. CASE GlobalTake(w) \/ GlobalNone(w) \/ GlobalReturn(w)
  BY <1>0, <1>5 DEF GlobalTake, GlobalNone, GlobalReturn
<1>6. CASE SkipTask(w) \/ BeginTask(w) \/ FinishTask(w)
  BY <1>0, <1>6 DEF SkipTask, BeginTask, FinishTask
<1> QED
  BY <1>1, <1>2, <1>3, <1>4, <1>5, <1>6 DEF WorkerStep

\* What is then left to show of a worker's step.
LEMMA WorkerRest ==
  ASSUME PoolInv, NEW w \in Workers, WorkerStep(w),
         k' \in [Workers -> 0 .. W], h' \in [Workers -> Slots],
         got' \in [Workers -> Tasks \cup {NULL}], overlap' \in BOOLEAN, SharedTypes',
         pc'[w] \in {"task", "exec"} => got'[w] \in Tasks,
         pc'[w] = "gret" => garg'[w] \in Tasks,
         \A t \in Threads : t # w => garg'[t] = garg[t],
         \A x \in Tasks : sub[x] = "no" =>
           /\ got'[w] # x /\ garg'[w] # x /\ \A i \in 1 .. Len(gq') : gq'[i] # x,
         SkipOnlyEarly'
  PROVE  PoolInv'
<1> USE DEF PoolInv, Types
<1>0. pc \in [Workers -> WorkerPcs]
  BY DEF WorkerTypes
<1>1. MainTypes' /\ SubmitTypes'
  BY WorkerFrame DEF MainTypes, SubmitTypes
<1>2. PICK to \in WorkerPcs : pc' = [pc EXCEPT ![w] = to]
  BY WorkerFrame
<1>3. WorkerTypes'
  BY <1>0, <1>2 DEF WorkerTypes
<1>4. InHand'
  <2>1. ASSUME NEW s \in Submitters PROVE garg'[s] = garg[s]
    BY SubmitterAssumption DEF Threads, Workers
  <2>2. ASSUME NEW v \in Workers, v # w PROVE garg'[v] = garg[v] /\ got'[v] = got[v] /\ pc'[v] = pc[v]
    BY <2>2, WorkerFrame DEF Threads
  <2> QED
    BY <2>1, <2>2, WorkerFrame DEF InHand
<1>5. Progress'
  <2>1. /\ UNCHANGED <<phase, next, made>>
        /\ \A v \in Workers : pc[v] \in {"none", "exited"} => pc'[v] = pc[v]
    BY WorkerFrame
  <2> QED
    BY <2>1 DEF Progress, FreedAfterExit
<1>6. Known'
  BY WorkerFrame DEF Known, Threads
<1>7. Ready'
  BY WorkerFrame DEF Ready
<1> QED
  BY <1>1, <1>3, <1>4, <1>5, <1>6, <1>7

\* The next victim, or the end of the round.
LEMMA VictimSteps ==
  ASSUME PoolInv, NEW w \in Workers, NextVictim(w)
  PROVE  /\ k' \in [Workers -> 0 .. W] /\ gq' = gq /\ garg' = garg
         /\ pc'[w] \in {"load", "gpop"}
<1> USE DEF PoolInv, Types, WorkerTypes
<1>1. CASE k[w] < W
  <2>1. k[w] + 1 \in 0 .. W
    BY <1>1, WAssumption
  <2> QED
    BY <1>1, <2>1 DEF NextVictim, globalVars
<1>2. CASE ~(k[w] < W)
  BY <1>2 DEF NextVictim, Global!CallPop
<1> QED
  BY <1>1, <1>2

\* worker_loop: pop, steal, global queue, execute (worker.c:35-70).
LEMMA WorkerSteps ==
  ASSUME PoolInv, NEW w \in Workers, WorkerStep(w)
  PROVE  PoolInv'
<1> USE DEF PoolInv, Types
<1>0. /\ pc \in [Workers -> WorkerPcs] /\ k \in [Workers -> 0 .. W]
      /\ h \in [Workers -> Slots] /\ got \in [Workers -> Tasks \cup {NULL}]
      /\ overlap \in BOOLEAN
  BY DEF WorkerTypes
<1>1. /\ Victim(w) \in Workers /\ h[w] \in Slots /\ Succ(h[w]) \in Slots
      /\ 0 \in 0 .. W /\ 0 \in Slots /\ w \in Threads
  BY <1>0, VictimIsWorker, RingSucc, WAssumption, RingAssumption DEF Slots, Threads
<1>2. \A x \in Tasks : sub[x] = "no" =>
        /\ got[w] # x /\ garg[w] # x /\ buf[Victim(w)][h[w]] # x
        /\ \A i \in 1 .. Len(gq) : gq[i] # x
  BY <1>1 DEF Known
<1>3. /\ head[Victim(w)] \in Slots /\ buf[Victim(w)][h[w]] \in Tasks \cup {NULL}
      /\ garg[w] \in Tasks \cup {NULL}
  BY <1>1 DEF SharedTypes
<1>4. CASE LoopCheck(w)
  <2>1. UNCHANGED <<gq, garg, status, head, tail, buf, early, overlap>>
    BY <1>4 DEF LoopCheck, globalVars, ringVars, submitVars
  <2>2. SharedTypes' /\ SkipOnlyEarly'
    BY <2>1 DEF SharedTypes, SkipOnlyEarly
  <2>3. /\ pc'[w] \in {"load", "exited"} /\ k' \in [Workers -> 0 .. W] /\ h' \in [Workers -> Slots]
        /\ got' \in [Workers -> Tasks \cup {NULL}] /\ got'[w] = NULL
    BY <1>0, <1>1, <1>4 DEF LoopCheck, WorkerGoto
  <2> QED
    BY <1>0, <1>2, <2>1, <2>2, <2>3, WorkerRest, TaskAssumption
<1>5. CASE PopLoad(w)
  <2>1. UNCHANGED <<gq, garg, status, head, tail, buf, early, k, got>> /\ overlap' \in BOOLEAN
    BY <1>5 DEF PopLoad, globalVars, ringVars, submitVars
  <2>2. SharedTypes' /\ SkipOnlyEarly'
    BY <2>1 DEF SharedTypes, SkipOnlyEarly
  <2>3. pc'[w] \in {"cmp", "crashed"} /\ h' \in [Workers -> Slots]
    BY <1>0, <1>3, <1>5 DEF PopLoad, WorkerGoto
  <2> QED
    BY <1>0, <1>2, <2>1, <2>2, <2>3, WorkerRest
<1>6. CASE PopEmpty(w)
  <2>1. UNCHANGED <<status, head, tail, buf, early, h, got, overlap>>
    BY <1>6 DEF PopEmpty, ringVars, submitVars
  <2>2. /\ k' \in [Workers -> 0 .. W] /\ gq' = gq /\ garg' = garg /\ pc'[w] \in {"load", "gpop"}
    BY <1>6, VictimSteps DEF PopEmpty
  <2>3. SharedTypes' /\ SkipOnlyEarly'
    BY <2>1, <2>2 DEF SharedTypes, SkipOnlyEarly
  <2> QED
    BY <1>0, <1>2, <2>1, <2>2, <2>3, WorkerRest
<1>7. CASE PopReady(w)
  <2>1. UNCHANGED <<gq, garg, status, head, tail, buf, early, k, h, got, overlap>>
    BY <1>7 DEF PopReady, globalVars, ringVars, submitVars
  <2>2. SharedTypes' /\ SkipOnlyEarly'
    BY <2>1 DEF SharedTypes, SkipOnlyEarly
  <2>3. pc'[w] = "read"
    BY <1>0, <1>7 DEF PopReady, WorkerGoto
  <2> QED
    BY <1>0, <1>2, <2>1, <2>2, <2>3, WorkerRest
<1>8. CASE PopRead(w)
  <2>1. UNCHANGED <<gq, garg, status, head, tail, buf, early, k, h, overlap>>
    BY <1>8 DEF PopRead, globalVars, ringVars, submitVars
  <2>2. SharedTypes' /\ SkipOnlyEarly'
    BY <2>1 DEF SharedTypes, SkipOnlyEarly
  <2>3. /\ pc'[w] = "store" /\ got' \in [Workers -> Tasks \cup {NULL}]
        /\ got'[w] = buf[Victim(w)][h[w]]
    BY <1>0, <1>3, <1>8 DEF PopRead, WorkerGoto
  <2> QED
    BY <1>0, <1>2, <2>1, <2>2, <2>3, WorkerRest
<1>9. CASE PopStore(w)
  <2>1. UNCHANGED <<status, tail, buf, early, h, got, overlap>>
    BY <1>9 DEF PopStore, submitVars
  <2>2. head' \in [Workers -> Slots]
    BY <1>1, <1>9 DEF PopStore, SharedTypes
  <2>3. /\ k' \in [Workers -> 0 .. W] /\ gq' = gq /\ garg' = garg
        /\ pc'[w] \in {"load", "gpop"} \/ (pc'[w] = "task" /\ got[w] # NULL)
    <3>1. CASE got[w] = NULL
      BY <1>9, <3>1, VictimSteps DEF PopStore
    <3>2. CASE got[w] # NULL
      BY <1>0, <1>9, <3>2 DEF PopStore, globalVars
    <3> QED
      BY <3>1, <3>2
  <2>4. SharedTypes' /\ SkipOnlyEarly'
    BY <2>1, <2>2, <2>3 DEF SharedTypes, SkipOnlyEarly
  <2> QED
    BY <1>0, <1>2, <2>1, <2>3, <2>4, WorkerRest
<1>10. CASE GlobalTake(w)
  <2>1. UNCHANGED <<status, head, tail, buf, early, k, h, got, overlap>> /\ pc'[w] = "gret"
    BY <1>0, <1>10 DEF GlobalTake, WorkerGoto, ringVars, submitVars
  <2>2. gq # <<>> /\ gq' = Tail(gq) /\ garg' = [garg EXCEPT ![w] = Head(gq)]
    BY <1>10 DEF GlobalTake, Global!Dequeue
  <2>3. gq \in Seq(Tasks) /\ garg \in [Threads -> Tasks \cup {NULL}]
    BY DEF SharedTypes
  <2>4. /\ Head(gq) = gq[1] /\ 1 \in 1 .. Len(gq) /\ Head(gq) \in Tasks
        /\ Tail(gq) \in Seq(Tasks) /\ Len(Tail(gq)) = Len(gq) - 1 /\ Len(gq) \in Nat
        /\ \A i \in 1 .. Len(Tail(gq)) : i + 1 \in 1 .. Len(gq) /\ Tail(gq)[i] = gq[i + 1]
    BY <2>2, <2>3
  <2>5. SharedTypes' /\ SkipOnlyEarly'
    BY <2>1, <2>2, <2>3, <2>4 DEF SharedTypes, SkipOnlyEarly
  <2>6. \A x \in Tasks : sub[x] = "no" =>
           /\ got'[w] # x /\ garg'[w] # x /\ \A i \in 1 .. Len(gq') : gq'[i] # x
    BY <1>1, <1>2, <2>1, <2>2, <2>3, <2>4
  <2>7. garg'[w] \in Tasks /\ \A t \in Threads : t # w => garg'[t] = garg[t]
    BY <1>1, <2>2, <2>3, <2>4
  <2> QED
    BY <1>0, <2>1, <2>5, <2>6, <2>7, WorkerRest
<1>11. CASE GlobalNone(w)
  <2>1. UNCHANGED <<gq, garg, status, head, tail, buf, early, k, h, got, overlap>>
    BY <1>11 DEF GlobalNone, Global!PopEmpty, ringVars, submitVars
  <2>2. SharedTypes' /\ SkipOnlyEarly'
    BY <2>1 DEF SharedTypes, SkipOnlyEarly
  <2>3. pc'[w] = "check"
    BY <1>0, <1>11 DEF GlobalNone, WorkerGoto
  <2> QED
    BY <1>0, <1>2, <2>1, <2>2, <2>3, WorkerRest
<1>12. CASE GlobalReturn(w)
  <2>1. UNCHANGED <<gq, status, head, tail, buf, early, k, h, overlap>>
    BY <1>12 DEF GlobalReturn, Global!ReturnPop, ringVars, submitVars
  <2>2. garg' = [garg EXCEPT ![w] = NULL] /\ garg \in [Threads -> Tasks \cup {NULL}]
    BY <1>12 DEF GlobalReturn, Global!ReturnPop, SharedTypes
  <2>3. SharedTypes' /\ SkipOnlyEarly'
    BY <2>1, <2>2 DEF SharedTypes, SkipOnlyEarly
  <2>4. /\ pc[w] = "gret" /\ pc'[w] = "task" /\ got' \in [Workers -> Tasks \cup {NULL}]
        /\ got'[w] = garg[w]
    BY <1>0, <1>3, <1>12 DEF GlobalReturn, WorkerGoto
  <2>5. got'[w] \in Tasks
    BY <2>4 DEF InHand
  <2>6. garg'[w] = NULL /\ \A t \in Threads : t # w => garg'[t] = garg[t]
    BY <1>1, <2>2
  <2> QED
    BY <1>0, <1>2, <2>1, <2>3, <2>4, <2>5, <2>6, WorkerRest, TaskAssumption
<1>13. CASE SkipTask(w) \/ BeginTask(w) \/ FinishTask(w)
  <2>1. UNCHANGED <<gq, garg, head, tail, buf, early, k, h, got, overlap>>
    BY <1>13 DEF SkipTask, BeginTask, FinishTask, globalVars, ringVars, submitVars
  <2>2. /\ pc[w] \in {"task", "exec"} /\ pc'[w] \in {"check", "exec"}
    BY <1>0, <1>13 DEF SkipTask, BeginTask, FinishTask, WorkerGoto
  <2>3. got[w] \in Tasks
    BY <2>2 DEF InHand
  <2>4. status \in [Tasks -> {"unset", "done", "skipped"}]
    BY DEF SharedTypes
  <2>5. \/ status' = status
        \/ status' = [status EXCEPT ![got[w]] = "done"]
        \/ status' = [status EXCEPT ![got[w]] = "skipped"] /\ ~ctx[w]
    BY <1>13 DEF SkipTask, BeginTask, FinishTask
  <2>6. SharedTypes'
    BY <2>1, <2>3, <2>4, <2>5 DEF SharedTypes
  <2>7. SkipOnlyEarly'
    <3>1. ~ctx[w] => got[w] \in early
      BY <2>3 DEF Known, Ready
    <3> QED
      BY <2>1, <2>3, <2>4, <2>5, <3>1 DEF SkipOnlyEarly
  <2> QED
    BY <1>0, <1>2, <2>1, <2>2, <2>3, <2>6, <2>7, WorkerRest
<1> QED
  BY <1>4, <1>5, <1>6, <1>7, <1>8, <1>9, <1>10, <1>11, <1>12, <1>13 DEF WorkerStep

-----------------------------------------------------------------------------
\* The submitters.  What none of their steps touches:
LEMMA SubmitFrame ==
  ASSUME PoolInv, NEW s \in Submitters, (\E x \in Tasks : SubmitCall(s, x)) \/ SubmitStep(s)
  PROVE  /\ UNCHANGED <<phase, next, made, running, ctx, head, pc, k, h, got, overlap, status>>
         /\ \E to \in SubmitPcs : spc' = [spc EXCEPT ![s] = to]
         /\ \A r \in Submitters \ {s} : spc'[r] = spc[r] /\ sidx'[r] = sidx[r] /\ stask'[r] = stask[r]
<1> USE DEF mainVars, ringVars, workerVars, SubmitGoto, SubmitPcs, SubmitDone
<1>0. /\ spc \in [Submitters -> SubmitPcs] /\ sidx \in [Submitters -> Slots]
      /\ stask \in [Submitters -> Tasks \cup {NULL}]
  BY DEF PoolInv, Types, SubmitTypes
<1>1. CASE \E x \in Tasks : SubmitCall(s, x)
  BY <1>0, <1>1 DEF SubmitCall
<1>2. CASE SubmitRoom(s) \/ SubmitFull(s) \/ SubmitData(s) \/ SubmitTail(s)
  BY <1>0, <1>2 DEF SubmitRoom, SubmitFull, SubmitData, SubmitTail
<1>3. CASE GlobalPut(s) \/ GlobalPutReturn(s) \/ GlobalFull(s)
  BY <1>0, <1>3 DEF GlobalPut, GlobalPutReturn, GlobalFull
<1> QED
  BY <1>1, <1>2, <1>3 DEF SubmitStep

\* What is then left to show of a submitter's step on task x.
LEMMA SubmitRest ==
  ASSUME PoolInv, NEW s \in Submitters, (\E y \in Tasks : SubmitCall(s, y)) \/ SubmitStep(s),
         NEW x \in Tasks, SharedTypes',
         sidx' \in [Submitters -> Slots], stask' \in [Submitters -> Tasks \cup {NULL}],
         sub' \in [Tasks -> {"no", "calling", "accepted", "refused"}],
         sub'[x] # "no", \A y \in Tasks : y # x => sub'[y] = sub[y],
         \/ early' = early /\ sub[x] # "no"
         \/ early' = (IF \A w \in Workers : ctx[w] THEN early ELSE early \cup {x}),
         \A t \in Threads : t # s => garg'[t] = garg[t],
         spc'[s] # "idle" => stask'[s] = x,
         spc'[s] = "gpush" => garg'[s] = x,
         stask'[s] \in {x, NULL}, garg'[s] \in {x, NULL, garg[s]},
         \A w \in Workers, i \in Slots : buf'[w][i] \in {x, buf[w][i]},
         \A i \in 1 .. Len(gq') : gq'[i] = x \/ \E j \in 1 .. Len(gq) : gq'[i] = gq[j]
  PROVE  PoolInv'
<1> USE DEF PoolInv, Types
<1>0. spc \in [Submitters -> SubmitPcs]
  BY DEF SubmitTypes
<1>1. MainTypes' /\ WorkerTypes'
  BY SubmitFrame DEF MainTypes, WorkerTypes
<1>2. SubmitTypes'
  <2>1. PICK to \in SubmitPcs : spc' = [spc EXCEPT ![s] = to]
    BY SubmitFrame
  <2>2. early' \subseteq Tasks
    BY DEF SubmitTypes
  <2> QED
    BY <1>0, <2>1, <2>2 DEF SubmitTypes
<1>3. InHand'
  <2>1. \A w \in Workers : garg'[w] = garg[w] /\ got'[w] = got[w] /\ pc'[w] = pc[w]
    BY SubmitFrame, SubmitterAssumption DEF Threads, Workers
  <2>2. \A r \in Submitters \ {s} : garg'[r] = garg[r] /\ spc'[r] = spc[r] /\ stask'[r] = stask[r]
    BY SubmitFrame DEF Threads
  <2> QED
    BY <2>1, <2>2 DEF InHand
<1>4. Progress' /\ SkipOnlyEarly'
  BY SubmitFrame DEF Progress, FreedAfterExit, SkipOnlyEarly
<1>5. Known'
  <2> SUFFICES ASSUME NEW y \in Tasks, sub'[y] = "no"
               PROVE  /\ \A w \in Workers : got'[w] # y
                      /\ \A w \in Workers, i \in Slots : buf'[w][i] # y
                      /\ \A i \in 1 .. Len(gq') : gq'[i] # y
                      /\ \A t \in Threads : garg'[t] # y
                      /\ \A r \in Submitters : stask'[r] # y
    BY DEF Known
  <2>1. y # x /\ sub[y] = "no" /\ y # NULL
    BY TaskAssumption
  <2>2. s \in Threads
    BY DEF Threads
  <2>3. \A w \in Workers : got'[w] # y
    BY <2>1, SubmitFrame DEF Known
  <2>4. \A w \in Workers, i \in Slots : buf'[w][i] # y
    BY <2>1 DEF Known
  <2>5. \A i \in 1 .. Len(gq') : gq'[i] # y
    BY <2>1 DEF Known
  <2>6. \A t \in Threads : garg'[t] # y
    BY <2>1, <2>2 DEF Known
  <2>7. \A r \in Submitters : stask'[r] # y
    BY <2>1, SubmitFrame DEF Known
  <2> QED
    BY <2>3, <2>4, <2>5, <2>6, <2>7
<1>6. Ready'
  BY SubmitFrame DEF Ready
<1> QED
  BY <1>1, <1>2, <1>3, <1>4, <1>5, <1>6

\* img_scheduler_submit: the ring of the target, then the global queue.
LEMMA SubmitSteps ==
  ASSUME PoolInv, NEW s \in Submitters, (\E x \in Tasks : SubmitCall(s, x)) \/ SubmitStep(s)
  PROVE  PoolInv'
<1> USE DEF PoolInv, Types
<1>0. /\ spc \in [Submitters -> SubmitPcs] /\ sidx \in [Submitters -> Slots]
      /\ stask \in [Submitters -> Tasks \cup {NULL}]
      /\ sub \in [Tasks -> {"no", "calling", "accepted", "refused"}]
      /\ 0 \in Slots /\ s \in Threads
  BY RingAssumption DEF SubmitTypes, Slots, Threads
<1>1. /\ head \in [Workers -> Slots] /\ tail \in [Workers -> Slots]
      /\ buf \in [Workers -> [Slots -> Tasks \cup {NULL}]] /\ gq \in Seq(Tasks)
      /\ garg \in [Threads -> Tasks \cup {NULL}]
  BY DEF SharedTypes
<1>2. ASSUME NEW x \in Tasks, SubmitCall(s, x) PROVE PoolInv'
  <2>1. UNCHANGED <<head, tail, buf, gq, garg, status>>
    BY <1>2 DEF SubmitCall, ringVars, globalVars
  <2>2. /\ sidx' = [sidx EXCEPT ![s] = tail[Target(x)]] /\ stask' = [stask EXCEPT ![s] = x]
        /\ sub' = [sub EXCEPT ![x] = "calling"] /\ spc' = [spc EXCEPT ![s] = "cmp"]
        /\ early' = IF \A w \in Workers : ctx[w] THEN early ELSE early \cup {x}
    BY <1>2 DEF SubmitCall, SubmitGoto
  <2>3. tail[Target(x)] \in Slots
    BY <1>1, TargetIsWorker
  <2>4. /\ sidx' \in [Submitters -> Slots] /\ stask' \in [Submitters -> Tasks \cup {NULL}]
        /\ sub' \in [Tasks -> {"no", "calling", "accepted", "refused"}]
        /\ sub'[x] # "no" /\ \A y \in Tasks : y # x => sub'[y] = sub[y]
        /\ stask'[s] = x /\ spc'[s] = "cmp"
    BY <1>0, <2>2, <2>3
  <2>5. SharedTypes'
    BY <2>1 DEF SharedTypes
  <2> QED
    BY <1>2, <2>1, <2>2, <2>4, <2>5, SubmitRest
<1>3. ASSUME SubmitStep(s) PROVE PoolInv'
  <2> DEFINE x == stask[s]
  <2>0. /\ spc[s] # "idle" /\ x \in Tasks /\ sub[x] # "no"
    <3>1. spc[s] # "idle"
      BY <1>3 DEF SubmitStep, SubmitRoom, SubmitFull, SubmitData, SubmitTail, GlobalPut,
                  GlobalPutReturn, GlobalFull, SubmitGoto
    <3> QED
      BY <3>1 DEF InHand, Known
  <2>1. Target(x) \in Workers /\ Succ(sidx[s]) \in Slots /\ sidx[s] \in Slots
    BY <1>0, <2>0, TargetIsWorker, RingSucc
  <2>2. early' = early /\ head' = head /\ status' = status
    BY <1>3, SubmitFrame DEF SubmitStep, SubmitRoom, SubmitFull, SubmitData, SubmitTail, GlobalPut,
                  GlobalPutReturn, GlobalFull
  <2>3. ASSUME NEW result \in {"accepted", "refused"}, SubmitDone(s, result)
        PROVE  /\ sidx' \in [Submitters -> Slots] /\ stask' \in [Submitters -> Tasks \cup {NULL}]
               /\ sub' \in [Tasks -> {"no", "calling", "accepted", "refused"}]
               /\ sub'[x] # "no" /\ \A y \in Tasks : y # x => sub'[y] = sub[y]
               /\ stask'[s] = NULL
    BY <1>0, <2>0, <2>3 DEF SubmitDone
  <2>4. CASE SubmitRoom(s)
    <3>1. UNCHANGED <<tail, buf, gq, garg, sidx, stask, sub>> /\ spc'[s] = "data"
      BY <1>0, <2>4 DEF SubmitRoom, SubmitGoto, ringVars, globalVars
    <3>2. SharedTypes'
      BY <2>2, <3>1 DEF SharedTypes
    <3> QED
      BY <1>0, <1>3, <2>0, <2>2, <3>1, <3>2, SubmitRest
  <2>5. CASE SubmitFull(s)
    <3>1. UNCHANGED <<tail, buf, gq, sidx, stask, sub>> /\ spc'[s] = "gpush"
      BY <1>0, <2>5 DEF SubmitFull, SubmitGoto, ringVars, Global!CallPush
    <3>2. garg' = [garg EXCEPT ![s] = x]
      BY <2>5 DEF SubmitFull, Global!CallPush
    <3>3. /\ garg' \in [Threads -> Tasks \cup {NULL}] /\ garg'[s] = x
          /\ \A t \in Threads : t # s => garg'[t] = garg[t]
      BY <1>0, <1>1, <2>0, <3>2
    <3>4. SharedTypes'
      BY <2>2, <3>1, <3>3 DEF SharedTypes
    <3> QED
      BY <1>0, <1>3, <2>0, <2>2, <3>1, <3>3, <3>4, SubmitRest
  <2>6. CASE SubmitData(s)
    <3>1. UNCHANGED <<tail, gq, garg, sidx, stask, sub>> /\ spc'[s] = "tail"
      BY <1>0, <2>6 DEF SubmitData, SubmitGoto, globalVars
    <3>2. buf' = [buf EXCEPT ![Target(x)][sidx[s]] = x]
      BY <2>6 DEF SubmitData
    <3>3. /\ buf' \in [Workers -> [Slots -> Tasks \cup {NULL}]]
          /\ \A w \in Workers, i \in Slots : buf'[w][i] \in {x, buf[w][i]}
      BY <1>1, <2>0, <2>1, <3>2
    <3>4. SharedTypes'
      BY <2>2, <3>1, <3>3 DEF SharedTypes
    <3> QED
      BY <1>0, <1>3, <2>0, <2>2, <3>1, <3>3, <3>4, SubmitRest
  <2>7. CASE SubmitTail(s)
    <3>1. UNCHANGED <<buf, gq, garg>> /\ spc'[s] = "idle" /\ SubmitDone(s, "accepted")
      BY <1>0, <2>7 DEF SubmitTail, SubmitGoto, globalVars
    <3>2. tail' \in [Workers -> Slots]
      BY <1>1, <2>1, <2>7 DEF SubmitTail
    <3>3. SharedTypes'
      BY <2>2, <3>1, <3>2 DEF SharedTypes
    <3> QED
      BY <1>3, <2>0, <2>2, <2>3, <3>1, <3>3, SubmitRest
  <2>8. CASE GlobalPut(s)
    <3>1. UNCHANGED <<tail, buf, garg, sidx, stask, sub>> /\ spc'[s] = "gret" /\ spc[s] = "gpush"
      BY <1>0, <2>8 DEF GlobalPut, SubmitGoto, ringVars, Global!Enqueue
    <3>2. gq' = Append(gq, x) /\ garg[s] = x
      BY <2>8, <3>1 DEF GlobalPut, Global!Enqueue, InHand
    <3>3. /\ gq' \in Seq(Tasks) /\ Len(gq') = Len(gq) + 1 /\ Len(gq) \in Nat
          /\ gq'[Len(gq) + 1] = x /\ \A i \in 1 .. Len(gq) : gq'[i] = gq[i]
      BY <1>1, <2>0, <3>2
    <3>4. SharedTypes'
      BY <2>2, <3>1, <3>3 DEF SharedTypes
    <3>5. \A i \in 1 .. Len(gq') : gq'[i] = x \/ \E j \in 1 .. Len(gq) : gq'[i] = gq[j]
      <4> TAKE i \in 1 .. Len(gq')
      <4>1. i \in 1 .. Len(gq) \/ i = Len(gq) + 1
        BY <3>3
      <4> QED
        BY <3>3, <4>1
    <3> QED
      BY <1>0, <1>3, <2>0, <2>2, <3>1, <3>4, <3>5, SubmitRest
  <2>9. CASE GlobalPutReturn(s) \/ GlobalFull(s)
    <3>1. /\ UNCHANGED <<tail, buf, gq>> /\ spc'[s] = "idle"
          /\ garg' = [garg EXCEPT ![s] = NULL]
          /\ \E result \in {"accepted", "refused"} : SubmitDone(s, result)
      BY <1>0, <2>9 DEF GlobalPutReturn, GlobalFull, SubmitGoto, ringVars, Global!ReturnPush,
                        Global!PushFull
    <3>2. /\ garg' \in [Threads -> Tasks \cup {NULL}] /\ garg'[s] = NULL
          /\ \A t \in Threads : t # s => garg'[t] = garg[t]
      BY <1>0, <1>1, <3>1
    <3>3. SharedTypes'
      BY <2>2, <3>1, <3>2 DEF SharedTypes
    <3> QED
      BY <1>3, <2>0, <2>2, <2>3, <3>1, <3>2, <3>3, SubmitRest
  <2> QED
    BY <1>3, <2>4, <2>5, <2>6, <2>7, <2>8, <2>9 DEF SubmitStep
<1> QED
  BY <1>2, <1>3

-----------------------------------------------------------------------------
\* Every step of the main thread, a worker or a submitter keeps PoolInv.
LEMMA PoolStep == PoolInv /\ [Next]_vars => PoolInv'
<1> SUFFICES ASSUME PoolInv, [Next]_vars PROVE PoolInv'
  OBVIOUS
<1>1. CASE Next
  BY <1>1, MainSteps, WorkerSteps, SubmitSteps DEF Next
<1>2. CASE UNCHANGED vars
  <2> USE <1>2 DEF vars, mainVars, ringVars, globalVars, workerVars, submitVars, PoolInv, Types
  <2>1. MainTypes' /\ WorkerTypes' /\ SharedTypes' /\ SubmitTypes'
    BY DEF MainTypes, WorkerTypes, SharedTypes, SubmitTypes
  <2>2. InHand' /\ Progress' /\ Known'
    BY DEF InHand, Progress, FreedAfterExit, Known
  <2>3. Ready' /\ SkipOnlyEarly'
    BY DEF Ready, SkipOnlyEarly
  <2> QED
    BY <2>1, <2>2, <2>3
<1> QED
  BY <1>1, <1>2

\* PoolInv holds as long as the pool is there.
LEMMA PoolInvHolds == Spec => []PoolInv
BY PoolInit, PoolStep, PTL DEF Spec

\* The types hold for any number of workers, submitters and tasks and any ring sizes.
THEOREM PoolTypes == Spec => []TypeOK
<1>1. PoolInv => TypeOK
  BY DEF PoolInv, Types, MainTypes, WorkerTypes, SharedTypes, SubmitTypes, TypeOK
<1> QED
  BY <1>1, PoolInvHolds, PTL

\* img_scheduler_destroy frees the global queue and the workers (scheduler.c:50-51) when
\* every worker, of any number, has left worker_loop.
THEOREM FreedAfterExitHolds == Spec => []FreedAfterExit
<1>1. PoolInv => FreedAfterExit
  BY DEF PoolInv, Progress
<1> QED
  BY <1>1, PoolInvHolds, PTL

\* worker.c:58 skips a task only if it was submitted before every worker had its ctx,
\* whoever stole it and from whom.
THEOREM SkipOnlyEarlyHolds == Spec => []SkipOnlyEarly
<1>1. PoolInv => SkipOnlyEarly
  BY DEF PoolInv
<1> QED
  BY <1>1, PoolInvHolds, PTL

\* A worker pops a ring that does not exist only while img_scheduler_init is in its loop
\* (scheduler.c:33), for any number of workers.
THEOREM NullRingHolds == Spec => NullRingOnlyAtStartup
<1>1. PoolInv /\ [Next]_vars =>
        [\A w \in Workers : pc[w] # "crashed" /\ pc'[w] = "crashed" => phase = "init"]_vars
  <2> SUFFICES ASSUME PoolInv, Next, NEW w \in Workers, pc[w] # "crashed", pc'[w] = "crashed"
               PROVE  phase = "init"
    OBVIOUS
  <2> USE DEF PoolInv, Types
  <2>1. CASE MainStep \/ DestroyCall \/ \E v \in Workers : SetCtx(v)
    BY <2>1 DEF MainStep, InitWorker, StopWorker, JoinWorker, DestroyCall, SetCtx, workerVars,
                WorkerTypes
  <2>2. ASSUME NEW s \in Submitters, (\E x \in Tasks : SubmitCall(s, x)) \/ SubmitStep(s)
        PROVE  phase = "init"
    BY <2>2, SubmitFrame
  <2>3. ASSUME NEW v \in Workers, WorkerStep(v) PROVE phase = "init"
    <3>1. v = w /\ pc \in [Workers -> WorkerPcs]
      BY <2>3, WorkerFrame DEF WorkerTypes
    <3>2. Victim(w) \in Workers
      BY VictimIsWorker DEF WorkerTypes
    <3>3. PopLoad(w) /\ ~made[Victim(w)]
      BY <2>3, <3>1 DEF WorkerStep, LoopCheck, PopLoad, PopEmpty, PopReady, PopRead, PopStore,
            NextVictim, GlobalTake, GlobalNone, GlobalReturn, SkipTask, BeginTask, FinishTask,
            WorkerGoto
    <3> QED
      BY <3>2, <3>3 DEF Progress
  <2> QED
    BY <2>1, <2>2, <2>3 DEF Next
<1> QED
  BY <1>1, PoolInvHolds, PTL DEF Spec, NullRingOnlyAtStartup

-----------------------------------------------------------------------------
(* Conservation.  img_queue_push wants one producer per ring; with more than one
   submitter two of them may write one slot. *)
OneSubmitter == \A r, s \in Submitters : r = s

\* A set of one member at most.
Lone(S) == \A a, b \in S : a = b

\* The workers inside img_queue_pop: one per ring, which nobody else's head moves.
PopSafe ==
  \A w \in Workers :
    /\ pc[w] \in InPop =>
         /\ h[w] = head[Victim(w)]
         /\ \A v \in Workers : pc[v] \in InPop /\ Victim(v) = Victim(w) => v = w
    /\ pc[w] \in {"read", "store"} => head[Victim(w)] # tail[Victim(w)]
    /\ pc[w] = "store" => got[w] = buf[Victim(w)][h[w]]

\* The submitter inside img_queue_push: room once seen stays.
PushSafe ==
  \A s \in Submitters :
    /\ spc[s] \in {"cmp", "data", "tail"} => sidx[s] = tail[Target(stask[s])]
    /\ spc[s] \in {"data", "tail"} => Succ(sidx[s]) # head[Target(stask[s])]
    /\ spc[s] = "tail" => buf[Target(stask[s])][sidx[s]] = stask[s]
    /\ spc[s] # "idle" => sub[stask[s]] = "calling"

\* A slot between head and tail holds a task.
RingsFilled == \A w \in Workers : \A i \in Occupied(w) : buf[w][i] \in Tasks

\* Task x has been entered into a queue.
Placed(x) == \/ sub[x] = "accepted"
             \/ \E s \in Submitters : stask[s] = x /\ spc[s] = "gret"

\* Task x is in at most one place, and in one exactly while it is owed an answer.
Account(x) ==
  /\ Lone(InRing(x)) /\ Lone(Queued(x)) /\ Lone(Taking(x)) /\ Lone(Held(x))
  /\ InRing(x) # {} => Queued(x) = {} /\ Taking(x) = {} /\ Held(x) = {}
  /\ Queued(x) # {} => Taking(x) = {} /\ Held(x) = {}
  /\ Taking(x) # {} => Held(x) = {}
  /\ InRing(x) # {} \/ Queued(x) # {} \/ Taking(x) # {} \/ Held(x) # {}
       <=> Placed(x) /\ status[x] = "unset"
  /\ status[x] # "unset" => Placed(x)

\* The books: who is inside a ring, and where every task is.
Books == PopSafe /\ PushSafe /\ RingsFilled /\ \A x \in Tasks : Account(x)

\* At first every task is nowhere.
LEMMA BooksInit == Init => Books
<1> SUFFICES ASSUME Init PROVE Books
  OBVIOUS
<1>0. gq = <<>> /\ Len(gq) = 0
  BY DEF Init, Global!FifoInit
<1>1. \A w \in Workers : Occupied(w) = {}
  BY RingAssumption DEF Init, Occupied
<1>2. PopSafe /\ PushSafe /\ RingsFilled
  BY <1>1 DEF Init, PopSafe, PushSafe, RingsFilled, InPop
<1>3. ASSUME NEW x \in Tasks PROVE Account(x)
  <2>1. InRing(x) = {} /\ Queued(x) = {} /\ Taking(x) = {} /\ Held(x) = {}
    BY <1>0, <1>1 DEF Init, InRing, Queued, Taking, Held
  <2>2. ~Placed(x)
    BY DEF Init, Placed
  <2> QED
    BY <2>1, <2>2 DEF Account, Lone, Init
<1> QED
  BY <1>2, <1>3 DEF Books

\* A step that leaves the places of x, its status and its submission keeps its account.
LEMMA KeepAccount ==
  ASSUME NEW x \in Tasks, Account(x),
         InRing(x)' = InRing(x), Lone(Queued(x)'), Queued(x)' = {} <=> Queued(x) = {},
         Taking(x)' = Taking(x), Held(x)' = Held(x),
         Placed(x)' <=> Placed(x), status'[x] = status[x]
  PROVE  Account(x)'
BY DEF Account, Lone

\* The ring after a pop and after a push.
LEMMA RingAfterPop ==
  ASSUME NEW v \in Workers, SharedTypes, head[v] # tail[v],
         head' = [head EXCEPT ![v] = Succ(head[v])], tail' = tail
  PROVE  /\ Occupied(v)' = Occupied(v) \ {head[v]} /\ head[v] \in Occupied(v)
         /\ \A u \in Workers \ {v} : Occupied(u)' = Occupied(u)
         /\ Succ(head[v]) # Succ(tail[v]) /\ head'[v] = Succ(head[v])
         /\ \A u \in Workers \ {v} : head'[u] = head[u]
<1>1. head[v] \in Slots /\ tail[v] \in Slots /\ head \in [Workers -> Slots]
  BY DEF SharedTypes
<1>2. /\ Succ(head[v]) \in Slots /\ Succ(head[v]) = IF head[v] = N - 1 THEN 0 ELSE head[v] + 1
      /\ Succ(tail[v]) = IF tail[v] = N - 1 THEN 0 ELSE tail[v] + 1
  BY <1>1, RingSucc
<1>3. head'[v] = Succ(head[v]) /\ \A u \in Workers \ {v} : head'[u] = head[u]
  BY <1>1
<1> QED
  BY <1>1, <1>2, <1>3, RingAssumption DEF Occupied, Slots

\* A push adds the slot at tail.
LEMMA RingAfterPush ==
  ASSUME NEW v \in Workers, SharedTypes, Succ(tail[v]) # head[v],
         tail' = [tail EXCEPT ![v] = Succ(tail[v])], head' = head
  PROVE  /\ Occupied(v)' = Occupied(v) \cup {tail[v]} /\ tail[v] \notin Occupied(v)
         /\ \A u \in Workers \ {v} : Occupied(u)' = Occupied(u)
         /\ tail'[v] = Succ(tail[v]) /\ \A u \in Workers \ {v} : tail'[u] = tail[u]
<1>1. head[v] \in Slots /\ tail[v] \in Slots /\ tail \in [Workers -> Slots]
  BY DEF SharedTypes
<1>2. Succ(tail[v]) \in Slots /\ Succ(tail[v]) = IF tail[v] = N - 1 THEN 0 ELSE tail[v] + 1
  BY <1>1, RingSucc
<1>3. tail'[v] = Succ(tail[v]) /\ \A u \in Workers \ {v} : tail'[u] = tail[u]
  BY <1>1
<1> QED
  BY <1>1, <1>2, <1>3, RingAssumption DEF Occupied, Slots

\* Occupied slots are slots.
LEMMA OccupiedSlots ==
  ASSUME NEW v \in Workers, SharedTypes PROVE Occupied(v) \subseteq Slots /\ tail[v] \notin Occupied(v)
<1>1. head[v] \in Slots /\ tail[v] \in Slots
  BY DEF SharedTypes
<1> QED
  BY <1>1, RingAssumption DEF Occupied, Slots

-----------------------------------------------------------------------------
\* The main thread changes nothing in the books.
LEMMA MainBooks ==
  ASSUME PoolInv, Books, MainStep \/ DestroyCall \/ \E w \in Workers : SetCtx(w)
  PROVE  Books'
<1>0. UNCHANGED <<overlap, ringVars, globalVars, k, h, got, submitVars, status>>
  BY DEF MainStep, InitWorker, StopWorker, JoinWorker, DestroyCall, SetCtx, workerVars
<1>1. /\ UNCHANGED <<overlap, head, tail, buf, gq, garg, k, h, got>>
      /\ UNCHANGED <<spc, sidx, stask, sub, early, status>>
  BY <1>0 DEF ringVars, globalVars, submitVars
<1>2. \A w \in Workers : pc'[w] = pc[w] \/ (pc[w] = "none" /\ pc'[w] = "check")
  <2>1. CASE InitWorker
    <3>1. next \in Workers /\ pc[next] = "none" /\ pc' = [pc EXCEPT ![next] = "check"]
      BY <2>1 DEF InitWorker, PoolInv, Types, MainTypes, Progress, Workers
    <3> QED
      BY <3>1 DEF PoolInv, Types, WorkerTypes
  <2>2. CASE ~InitWorker
    BY <2>2 DEF MainStep, StopWorker, JoinWorker, DestroyCall, SetCtx, workerVars
  <2> QED
    BY <2>1, <2>2
<1>3. \A w \in Workers : Victim(w)' = Victim(w) /\ Occupied(w)' = Occupied(w)
  BY <1>1 DEF Victim, Occupied
<1>4. PopSafe'
  BY <1>1, <1>2, <1>3 DEF Books, PopSafe, InPop
<1>5. PushSafe' /\ RingsFilled'
  BY <1>1, <1>3 DEF Books, PushSafe, RingsFilled
<1>6. ASSUME NEW x \in Tasks PROVE Account(x)'
  <2>1. InRing(x)' = InRing(x)
    BY <1>1, <1>3 DEF InRing
  <2>2. Queued(x)' = Queued(x) /\ Taking(x)' = Taking(x) /\ Held(x)' = Held(x)
    BY <1>1, <1>2 DEF Queued, Taking, Held
  <2>3. Placed(x)' <=> Placed(x)
    BY <1>1 DEF Placed
  <2> QED
    BY <1>1, <2>1, <2>2, <2>3, KeepAccount DEF Books, Account, Lone
<1> QED
  BY <1>4, <1>5, <1>6 DEF Books

-----------------------------------------------------------------------------
\* The workers.  A step of w concerns no other worker's pop unless it moves a head.
LEMMA OtherPops ==
  ASSUME PoolInv, Books, NEW w \in Workers, WorkerStep(w),
         \A v \in Workers \ {w} : pc[v] \in InPop => head'[Victim(v)] = head[Victim(v)],
         pc'[w] \in InPop =>
           /\ h'[w] = head'[Victim(w)']
           /\ \A v \in Workers \ {w} : pc[v] \in InPop => Victim(v) # Victim(w)',
         pc'[w] \in {"read", "store"} => head'[Victim(w)'] # tail[Victim(w)'],
         pc'[w] = "store" => got'[w] = buf[Victim(w)'][h'[w]]
  PROVE  PopSafe'
<1>1. \A v \in Workers \ {w} : /\ Victim(v)' = Victim(v) /\ pc'[v] = pc[v]
                               /\ h'[v] = h[v] /\ got'[v] = got[v]
  BY WorkerFrame DEF Victim
<1>2. tail' = tail /\ buf' = buf
  BY WorkerFrame
<1>3. {"read", "store"} \subseteq InPop
  BY DEF InPop
<1> SUFFICES ASSUME NEW u \in Workers
             PROVE  (/\ pc[u] \in InPop =>
                          /\ h[u] = head[Victim(u)]
                          /\ \A v \in Workers : pc[v] \in InPop /\ Victim(v) = Victim(u) => v = u
                     /\ pc[u] \in {"read", "store"} => head[Victim(u)] # tail[Victim(u)]
                     /\ pc[u] = "store" => got[u] = buf[Victim(u)][h[u]])'
  BY DEF PopSafe
<1>4. CASE u = w
  BY <1>1, <1>2, <1>4
<1>5. CASE u # w
  BY <1>1, <1>2, <1>3, <1>5 DEF Books, PopSafe
<1> QED
  BY <1>4, <1>5

\* Steps that move no task.
LEMMA QuietWorker ==
  ASSUME PoolInv, Books, NEW w \in Workers, WorkerStep(w), PopSafe',
         UNCHANGED <<head, gq, garg, status>>,
         pc[w] # "gret", pc'[w] # "gret",
         pc[w] \in {"task", "exec"} <=> pc'[w] \in {"task", "exec"},
         pc[w] \in {"task", "exec"} => got'[w] = got[w]
  PROVE  Books'
<1>1. /\ UNCHANGED <<tail, buf, spc, sidx, stask, sub>>
      /\ \A v \in Workers \ {w} : pc'[v] = pc[v] /\ got'[v] = got[v]
  BY WorkerFrame
<1>2. \A v \in Workers : Occupied(v)' = Occupied(v)
  BY <1>1 DEF Occupied
<1>3. PushSafe' /\ RingsFilled'
  BY <1>1, <1>2 DEF Books, PushSafe, RingsFilled
<1>4. ASSUME NEW x \in Tasks PROVE Account(x)'
  <2>1. InRing(x)' = InRing(x)
    BY <1>1, <1>2 DEF InRing
  <2>2. Queued(x)' = Queued(x) /\ Taking(x)' = Taking(x)
    BY <1>1 DEF Queued, Taking
  <2>3. Held(x)' = Held(x)
    BY <1>1 DEF Held
  <2>4. Placed(x)' <=> Placed(x)
    BY <1>1 DEF Placed
  <2> QED
    BY <2>1, <2>2, <2>3, <2>4, KeepAccount DEF Books, Account, Lone
<1> QED
  BY <1>3, <1>4 DEF Books

\* A worker looks at a ring or at the global queue, and takes nothing.
LEMMA LookBooks ==
  ASSUME PoolInv, Books, ~overlap', NEW w \in Workers,
         LoopCheck(w) \/ PopLoad(w) \/ PopEmpty(w) \/ PopReady(w) \/ PopRead(w)
           \/ GlobalNone(w) \/ BeginTask(w)
  PROVE  Books'
<1>0. WorkerStep(w) /\ pc \in [Workers -> WorkerPcs]
  BY DEF WorkerStep, PoolInv, Types, WorkerTypes
<1>1. h \in [Workers -> Slots] /\ k \in [Workers -> 0 .. W] /\ got \in [Workers -> Tasks \cup {NULL}]
  BY DEF PoolInv, Types, WorkerTypes
<1> USE DEF WorkerGoto, globalVars, ringVars
<1>2. CASE LoopCheck(w)
  <2>1. /\ UNCHANGED <<head, gq, garg, status>> /\ pc[w] = "check" /\ pc'[w] \in {"load", "exited"}
    BY <1>0, <1>2 DEF LoopCheck
  <2>2. PopSafe'
    BY <1>0, <2>1, OtherPops DEF InPop
  <2> QED
    BY <1>0, <2>1, <2>2, QuietWorker
<1>3. CASE PopLoad(w)
  <2>1. /\ UNCHANGED <<head, gq, garg, status, k, got>> /\ pc[w] = "load" /\ pc'[w] \in {"cmp", "crashed"}
        /\ h'[w] = head[Victim(w)]
        /\ \A v \in Workers : pc[v] \in InPop => Victim(v) # Victim(w)
    BY <1>0, <1>1, <1>3 DEF PopLoad
  <2>2. Victim(w)' = Victim(w)
    BY <2>1 DEF Victim
  <2>3. PopSafe'
    BY <1>0, <2>1, <2>2, OtherPops
  <2> QED
    BY <1>0, <2>1, <2>3, QuietWorker
<1>4. CASE PopEmpty(w)
  <2>1. /\ UNCHANGED <<head, status>> /\ pc[w] = "cmp" /\ NextVictim(w)
    BY <1>4 DEF PopEmpty
  <2>2. gq' = gq /\ garg' = garg /\ pc'[w] \in {"load", "gpop"}
    BY <2>1, VictimSteps
  <2>3. PopSafe'
    BY <1>0, <2>1, <2>2, OtherPops DEF InPop
  <2> QED
    BY <1>0, <2>1, <2>2, <2>3, QuietWorker
<1>5. CASE PopReady(w)
  <2>1. /\ UNCHANGED <<head, gq, garg, status, k, h, got>> /\ pc[w] = "cmp" /\ pc'[w] = "read"
        /\ h[w] # tail[Victim(w)]
    BY <1>0, <1>5 DEF PopReady
  <2>2. Victim(w)' = Victim(w)
    BY <2>1 DEF Victim
  <2>3. h[w] = head[Victim(w)] /\ \A v \in Workers \ {w} : pc[v] \in InPop => Victim(v) # Victim(w)
    BY <2>1 DEF Books, PopSafe, InPop
  <2>4. PopSafe'
    BY <1>0, <2>1, <2>2, <2>3, OtherPops
  <2> QED
    BY <1>0, <2>1, <2>4, QuietWorker
<1>6. CASE PopRead(w)
  <2>1. /\ UNCHANGED <<head, gq, garg, status, k, h>> /\ pc[w] = "read" /\ pc'[w] = "store"
        /\ got'[w] = buf[Victim(w)][h[w]]
    BY <1>0, <1>1, <1>6 DEF PopRead
  <2>2. Victim(w)' = Victim(w)
    BY <2>1 DEF Victim
  <2>3. /\ h[w] = head[Victim(w)] /\ \A v \in Workers \ {w} : pc[v] \in InPop => Victim(v) # Victim(w)
        /\ head[Victim(w)] # tail[Victim(w)]
    BY <2>1 DEF Books, PopSafe, InPop
  <2>4. PopSafe'
    BY <1>0, <2>1, <2>2, <2>3, OtherPops
  <2> QED
    BY <1>0, <2>1, <2>4, QuietWorker
<1>7. CASE GlobalNone(w)
  <2>1. UNCHANGED <<head, gq, garg, status>> /\ pc[w] = "gpop" /\ pc'[w] = "check"
    BY <1>0, <1>7 DEF GlobalNone, Global!PopEmpty
  <2>2. PopSafe'
    BY <1>0, <2>1, OtherPops DEF InPop
  <2> QED
    BY <1>0, <2>1, <2>2, QuietWorker
<1>8. CASE BeginTask(w)
  <2>1. UNCHANGED <<head, gq, garg, status, got>> /\ pc[w] = "task" /\ pc'[w] = "exec"
    BY <1>0, <1>8 DEF BeginTask
  <2>2. PopSafe'
    BY <1>0, <2>1, OtherPops DEF InPop
  <2> QED
    BY <1>0, <2>1, <2>2, QuietWorker
<1> QED
  BY <1>2, <1>3, <1>4, <1>5, <1>6, <1>7, <1>8

\* The item popped leaves the ring and is in the worker's hands.
LEMMA PopBooks ==
  ASSUME PoolInv, Books, NEW w \in Workers, PopStore(w)
  PROVE  Books'
<1>a. PICK v \in Workers : v = Victim(w)
  BY VictimIsWorker DEF PoolInv, Types, WorkerTypes
<1>b. PICK x : x = got[w]
  OBVIOUS
<1>0. WorkerStep(w) /\ pc \in [Workers -> WorkerPcs] /\ SharedTypes
  BY DEF WorkerStep, PoolInv, Types, WorkerTypes
<1>1. /\ pc[w] = "store" /\ h[w] = head[v] /\ head[v] # tail[v] /\ x = buf[v][head[v]]
      /\ \A u \in Workers \ {w} : pc[u] \in InPop => Victim(u) # v
  BY <1>a, <1>b DEF PopStore, Books, PopSafe, InPop
<1>2. /\ UNCHANGED <<tail, buf, spc, sidx, stask, sub>>
      /\ \A u \in Workers \ {w} : pc'[u] = pc[u] /\ got'[u] = got[u]
  BY <1>0, WorkerFrame
<1>3. /\ Occupied(v)' = Occupied(v) \ {head[v]} /\ head[v] \in Occupied(v)
      /\ \A u \in Workers \ {v} : Occupied(u)' = Occupied(u)
      /\ Succ(head[v]) # Succ(tail[v]) /\ head'[v] = Succ(head[v])
      /\ \A u \in Workers \ {v} : head'[u] = head[u]
  <2>1. head' = [head EXCEPT ![v] = Succ(head[v])]
    BY <1>1, <1>a DEF PopStore
  <2> QED
    BY <1>0, <1>1, <1>2, <2>1, RingAfterPop
<1>4. x \in Tasks /\ head[v] \in Slots
  BY <1>0, <1>1, <1>3 DEF Books, RingsFilled, SharedTypes
<1>5. pc'[w] = "task" /\ got' = got /\ status' = status /\ gq' = gq /\ garg' = garg
  BY <1>0, <1>4, <1>b, TaskAssumption DEF PopStore, globalVars
<1>6. PopSafe'
  <2>1. \A u \in Workers \ {w} : pc[u] \in InPop => Victim(u) \in Workers /\ Victim(u) # v
    BY <1>1, VictimIsWorker DEF PoolInv, Types, WorkerTypes
  <2> QED
    BY <1>0, <1>3, <1>5, <2>1, OtherPops DEF InPop
<1>7. PushSafe'
  <2> SUFFICES ASSUME NEW s \in Submitters, spc[s] \in {"data", "tail"}
               PROVE  Succ(sidx[s]) # head'[Target(stask[s])]
    BY <1>2 DEF Books, PushSafe
  <2>1. Target(stask[s]) \in Workers
    BY TargetIsWorker DEF PoolInv, InHand
  <2>2. Succ(sidx[s]) # head[Target(stask[s])] /\ sidx[s] = tail[Target(stask[s])]
    BY DEF Books, PushSafe
  <2> QED
    BY <1>3, <2>1, <2>2
<1>8. RingsFilled'
  BY <1>2, <1>3 DEF Books, RingsFilled
<1>9. ASSUME NEW y \in Tasks PROVE Account(y)'
  <2>1. Queued(y)' = Queued(y) /\ Taking(y)' = Taking(y) /\ (Placed(y)' <=> Placed(y))
    BY <1>1, <1>2, <1>5 DEF Queued, Taking, Placed
  <2>2. CASE y # x
    <3>1. InRing(y)' = InRing(y)
      BY <1>1, <1>2, <1>3, <2>2 DEF InRing
    <3>2. Held(y)' = Held(y)
      BY <1>1, <1>2, <1>5, <1>b, <2>2 DEF Held
    <3> QED
      BY <1>5, <2>1, <3>1, <3>2, KeepAccount DEF Books, Account, Lone
  <2>3. CASE y = x
    <3>1. <<v, head[v]>> \in InRing(x)
      BY <1>0, <1>1, <1>3, <1>4 DEF InRing
    <3>2. InRing(x) = {<<v, head[v]>>} /\ Queued(x) = {} /\ Taking(x) = {} /\ Held(x) = {}
      BY <1>4, <3>1 DEF Books, Account, Lone
    <3>3. InRing(x)' = {}
      <4>1. InRing(x)' \subseteq InRing(x) \ {<<v, head[v]>>}
        BY <1>2, <1>3 DEF InRing
      <4> QED
        BY <3>2, <4>1
    <3>4. Held(x)' = {w}
      BY <1>2, <1>5, <1>b, <3>2 DEF Held
    <3>5. Placed(x) /\ status[x] = "unset"
      BY <1>4, <3>1 DEF Books, Account
    <3> QED
      BY <1>5, <2>1, <2>3, <3>2, <3>3, <3>4, <3>5 DEF Account, Lone
  <2> QED
    BY <2>2, <2>3
<1> QED
  BY <1>6, <1>7, <1>8, <1>9 DEF Books

\* The item taken from the global queue is on its way to the worker ...
LEMMA TakeBooks ==
  ASSUME PoolInv, Books, NEW w \in Workers, GlobalTake(w)
  PROVE  Books'
<1>0. /\ WorkerStep(w) /\ pc \in [Workers -> WorkerPcs] /\ w \in Threads
      /\ gq \in Seq(Tasks) /\ garg \in [Threads -> Tasks \cup {NULL}]
  BY DEF WorkerStep, PoolInv, Types, WorkerTypes, SharedTypes, Threads
<1>1. /\ gq # <<>> /\ gq' = Tail(gq) /\ garg' = [garg EXCEPT ![w] = Head(gq)]
      /\ pc[w] = "gpop" /\ pc'[w] = "gret" /\ UNCHANGED <<head, status, got>>
  BY <1>0 DEF GlobalTake, WorkerGoto, Global!Dequeue, ringVars
<1>2. PICK x : x = Head(gq)
  OBVIOUS
<1>3. /\ x \in Tasks /\ x = gq[1] /\ Len(gq) \in Nat /\ Len(gq) >= 1 /\ Len(gq') = Len(gq) - 1
      /\ \A i \in 1 .. Len(gq) - 1 : gq'[i] = gq[i + 1]
  BY <1>0, <1>1, <1>2
<1>4. /\ UNCHANGED <<tail, buf, spc, sidx, stask, sub>>
      /\ \A u \in Workers \ {w} : pc'[u] = pc[u] /\ got'[u] = got[u] /\ garg'[u] = garg[u]
      /\ garg'[w] = x
  BY <1>0, <1>1, <1>2, WorkerFrame DEF Threads
<1>5. \A u \in Workers : Occupied(u)' = Occupied(u)
  BY <1>1, <1>4 DEF Occupied
<1>6. PopSafe'
  BY <1>0, <1>1, OtherPops DEF InPop
<1>7. PushSafe' /\ RingsFilled'
  BY <1>1, <1>4, <1>5 DEF Books, PushSafe, RingsFilled
<1>8. ASSUME NEW y \in Tasks PROVE Account(y)'
  <2>1. InRing(y)' = InRing(y)
    BY <1>4, <1>5 DEF InRing
  <2>2. Held(y)' = Held(y) /\ (Placed(y)' <=> Placed(y))
    BY <1>1, <1>4 DEF Held, Placed
  <2>3. \A i \in Queued(y)' : i + 1 \in Queued(y) /\ i \in Nat \ {0}
    BY <1>3 DEF Queued
  <2>4. Lone(Queued(y)) /\ Account(y)
    BY DEF Books, Account
  <2>5. Lone(Queued(y)')
    BY <2>3, <2>4 DEF Lone
  <2>6. CASE y # x
    <3>1. Taking(y)' = Taking(y)
      BY <1>1, <1>4, <2>6 DEF Taking
    <3>2. \A i \in Queued(y) : i - 1 \in Queued(y)'
      BY <1>3, <2>6 DEF Queued
    <3>3. Queued(y)' = {} <=> Queued(y) = {}
      BY <2>3, <3>2
    <3> QED
      BY <1>1, <2>1, <2>2, <2>4, <2>5, <3>1, <3>3, KeepAccount
  <2>7. CASE y = x
    <3>1. 1 \in Queued(x)
      BY <1>3 DEF Queued
    <3>2. /\ InRing(x) = {} /\ Taking(x) = {} /\ Held(x) = {}
          /\ Placed(x) /\ status[x] = "unset" /\ Queued(x) = {1}
      BY <2>4, <2>7, <3>1 DEF Account, Lone
    <3>3. Queued(x)' = {}
      BY <2>3, <2>7, <3>2
    <3>4. Taking(x)' = {w}
      BY <1>1, <1>4, <3>2 DEF Taking
    <3> QED
      BY <1>1, <2>1, <2>2, <2>7, <3>2, <3>3, <3>4 DEF Account, Lone
  <2> QED
    BY <2>6, <2>7
<1> QED
  BY <1>6, <1>7, <1>8 DEF Books

\* ... and then in its hands.
LEMMA ReturnBooks ==
  ASSUME PoolInv, Books, NEW w \in Workers, GlobalReturn(w)
  PROVE  Books'
<1>0. /\ WorkerStep(w) /\ pc \in [Workers -> WorkerPcs] /\ w \in Threads
      /\ got \in [Workers -> Tasks \cup {NULL}] /\ garg \in [Threads -> Tasks \cup {NULL}]
  BY DEF WorkerStep, PoolInv, Types, WorkerTypes, SharedTypes, Threads
<1>1. /\ gq' = gq /\ garg' = [garg EXCEPT ![w] = NULL] /\ got' = [got EXCEPT ![w] = garg[w]]
      /\ pc[w] = "gret" /\ pc'[w] = "task" /\ UNCHANGED <<head, status>>
  BY <1>0 DEF GlobalReturn, WorkerGoto, Global!ReturnPop, ringVars
<1>2. PICK x \in Tasks : x = garg[w]
  BY <1>1 DEF PoolInv, InHand
<1>4. /\ UNCHANGED <<tail, buf, spc, sidx, stask, sub>>
      /\ \A u \in Workers \ {w} : pc'[u] = pc[u] /\ got'[u] = got[u] /\ garg'[u] = garg[u]
      /\ got'[w] = x
  BY <1>0, <1>1, <1>2, WorkerFrame DEF Threads
<1>5. \A u \in Workers : Occupied(u)' = Occupied(u)
  BY <1>1, <1>4 DEF Occupied
<1>6. PopSafe'
  BY <1>0, <1>1, OtherPops DEF InPop
<1>7. PushSafe' /\ RingsFilled'
  BY <1>1, <1>4, <1>5 DEF Books, PushSafe, RingsFilled
<1>8. ASSUME NEW y \in Tasks PROVE Account(y)'
  <2>1. InRing(y)' = InRing(y)
    BY <1>4, <1>5 DEF InRing
  <2>2. Queued(y)' = Queued(y) /\ (Placed(y)' <=> Placed(y))
    BY <1>1, <1>4 DEF Queued, Placed
  <2>3. Account(y)
    BY DEF Books
  <2>4. CASE y # x
    <3>1. Taking(y)' = Taking(y) /\ Held(y)' = Held(y)
      BY <1>1, <1>2, <1>4, <2>4 DEF Taking, Held
    <3> QED
      BY <1>1, <2>1, <2>2, <2>3, <3>1, KeepAccount DEF Account, Lone
  <2>5. CASE y = x
    <3>1. w \in Taking(x)
      BY <1>1, <1>2 DEF Taking
    <3>2. /\ InRing(x) = {} /\ Queued(x) = {} /\ Held(x) = {}
          /\ Placed(x) /\ status[x] = "unset" /\ Taking(x) = {w}
      BY <2>3, <2>5, <3>1 DEF Account, Lone
    <3>3. Taking(x)' = {}
      BY <1>1, <1>4, <3>2 DEF Taking
    <3>4. Held(x)' = {w}
      BY <1>1, <1>4, <3>2 DEF Held
    <3> QED
      BY <1>1, <2>1, <2>2, <2>5, <3>2, <3>3, <3>4 DEF Account, Lone
  <2> QED
    BY <2>4, <2>5
<1> QED
  BY <1>6, <1>7, <1>8 DEF Books

\* The answer is written once, by the one worker that has the task.
LEMMA AnswerBooks ==
  ASSUME PoolInv, Books, NEW w \in Workers, SkipTask(w) \/ FinishTask(w)
  PROVE  Books' /\ status[got[w]] = "unset" /\ got[w] \in Tasks
                /\ \A y \in Tasks : y # got[w] => status'[y] = status[y]
<1>0. /\ WorkerStep(w) /\ pc \in [Workers -> WorkerPcs]
      /\ status \in [Tasks -> {"unset", "done", "skipped"}]
  BY DEF WorkerStep, PoolInv, Types, WorkerTypes, SharedTypes
<1>1. /\ UNCHANGED <<head, gq, garg, got>> /\ pc[w] \in {"task", "exec"} /\ pc'[w] = "check"
      /\ \E r \in {"done", "skipped"} : status' = [status EXCEPT ![got[w]] = r]
  BY <1>0 DEF SkipTask, FinishTask, WorkerGoto, globalVars, ringVars
<1>2. PICK x \in Tasks : x = got[w]
  BY <1>1 DEF PoolInv, InHand
<1>3. status'[x] \in {"done", "skipped"} /\ \A y \in Tasks : y # x => status'[y] = status[y]
  BY <1>0, <1>1, <1>2
<1>4. /\ UNCHANGED <<tail, buf, spc, sidx, stask, sub>>
      /\ \A u \in Workers \ {w} : pc'[u] = pc[u]
  BY <1>0, WorkerFrame
<1>5. \A u \in Workers : Occupied(u)' = Occupied(u)
  BY <1>1, <1>4 DEF Occupied
<1>6. PopSafe'
  BY <1>0, <1>1, OtherPops DEF InPop
<1>7. PushSafe' /\ RingsFilled'
  BY <1>1, <1>4, <1>5 DEF Books, PushSafe, RingsFilled
<1>8. w \in Held(x)
  BY <1>1, <1>2 DEF Held
<1>9. /\ InRing(x) = {} /\ Queued(x) = {} /\ Taking(x) = {}
      /\ Placed(x) /\ status[x] = "unset" /\ Held(x) = {w}
  BY <1>8 DEF Books, Account, Lone
<1>10. ASSUME NEW y \in Tasks PROVE Account(y)'
  <2>1. InRing(y)' = InRing(y)
    BY <1>1, <1>4, <1>5 DEF InRing
  <2>2. Queued(y)' = Queued(y) /\ Taking(y)' = Taking(y) /\ (Placed(y)' <=> Placed(y))
    BY <1>1, <1>4 DEF Queued, Taking, Placed
  <2>3. Account(y)
    BY DEF Books
  <2>4. CASE y # x
    <3>1. Held(y)' = Held(y)
      BY <1>1, <1>2, <1>4, <2>4 DEF Held
    <3> QED
      BY <1>3, <2>1, <2>2, <2>3, <2>4, <3>1, KeepAccount DEF Account, Lone
  <2>5. CASE y = x
    <3>1. Held(x)' = {}
      BY <1>1, <1>4, <1>9 DEF Held
    <3> QED
      BY <1>3, <1>9, <2>1, <2>2, <2>5, <3>1 DEF Account, Lone
  <2> QED
    BY <2>4, <2>5
<1> QED
  BY <1>2, <1>3, <1>6, <1>7, <1>9, <1>10 DEF Books

-----------------------------------------------------------------------------
\* The submitter.  Of its steps only two place the task it submits.
LEMMA SubmitBooks ==
  ASSUME PoolInv, Books, OneSubmitter, NEW s \in Submitters,
         (\E x \in Tasks : SubmitCall(s, x)) \/ SubmitStep(s)
  PROVE  Books'
<1> USE DEF ringVars, globalVars, SubmitGoto
<1>0. /\ spc \in [Submitters -> SubmitPcs] /\ sidx \in [Submitters -> Slots]
      /\ stask \in [Submitters -> Tasks \cup {NULL}]
      /\ sub \in [Tasks -> {"no", "calling", "accepted", "refused"}]
      /\ SharedTypes /\ s \in Threads /\ Submitters = {s}
  BY DEF PoolInv, Types, SubmitTypes, Threads, OneSubmitter
<1>1. UNCHANGED <<head, pc, k, h, got, status>>
  BY SubmitFrame
<1>2. \A w \in Workers : Victim(w)' = Victim(w) /\ Victim(w) \in Workers
  BY <1>1, VictimIsWorker DEF Victim, PoolInv, Types, WorkerTypes
<1>3. \A w \in Workers : pc[w] = "gret" => garg'[w] = garg[w]
  <2>1. \A w \in Workers : w # s
    BY SubmitterAssumption DEF Workers
  <2>2. garg \in [Threads -> Tasks \cup {NULL}]
    BY <1>0 DEF SharedTypes
  <2>3. garg' = garg \/ \E y : garg' = [garg EXCEPT ![s] = y]
    BY DEF SubmitCall, SubmitStep, SubmitRoom, SubmitFull, SubmitData, SubmitTail, GlobalPut,
           GlobalPutReturn, GlobalFull, Global!CallPush, Global!Enqueue, Global!ReturnPush,
           Global!PushFull
  <2> QED
    BY <2>1, <2>2, <2>3 DEF Threads
<1>4. \A y \in Tasks : Taking(y)' = Taking(y) /\ Held(y)' = Held(y)
  BY <1>1, <1>3 DEF Taking, Held
\* A step that leaves the rings as they are
<1>5. ASSUME UNCHANGED <<tail, buf>>
      PROVE  PopSafe' /\ RingsFilled' /\ \A y \in Tasks : InRing(y)' = InRing(y)
  <2>1. \A w \in Workers : Occupied(w)' = Occupied(w)
    BY <1>1, <1>5 DEF Occupied
  <2>2. PopSafe'
    BY <1>1, <1>2, <1>5 DEF Books, PopSafe
  <2> QED
    BY <1>5, <2>1, <2>2 DEF Books, RingsFilled, InRing
<1>6. ASSUME NEW y \in Tasks, InRing(y)' = InRing(y), gq' = gq, Placed(y)' <=> Placed(y)
      PROVE  Account(y)'
  <2>1. Queued(y)' = Queued(y) /\ Account(y)
    BY <1>6 DEF Queued, Books
  <2> QED
    BY <1>1, <1>4, <1>6, <2>1, KeepAccount DEF Account, Lone
<1>7. ASSUME NEW x \in Tasks, SubmitCall(s, x) PROVE Books'
  <2>1. /\ UNCHANGED <<tail, buf, gq>> /\ spc'[s] = "cmp" /\ sidx'[s] = tail[Target(x)]
        /\ stask'[s] = x /\ sub'[x] = "calling" /\ sub[x] = "no" /\ spc[s] = "idle"
        /\ \A y \in Tasks \ {x} : sub'[y] = sub[y]
    BY <1>0, <1>7 DEF SubmitCall
  <2>2. PushSafe'
    BY <1>0, <2>1 DEF PushSafe
  <2>3. \A y \in Tasks : Placed(y)' <=> Placed(y)
    BY <1>0, <2>1 DEF Placed
  <2> QED
    BY <1>5, <1>6, <2>1, <2>2, <2>3 DEF Books
<1>8. ASSUME SubmitStep(s) PROVE Books'
  <2>0. spc[s] # "idle"
      BY <1>8 DEF SubmitStep, SubmitRoom, SubmitFull, SubmitData, SubmitTail, GlobalPut,
                  GlobalPutReturn, GlobalFull
  <2>1. PICK x \in Tasks : x = stask[s]
    BY <2>0 DEF PoolInv, InHand
  <2>2. PICK v \in Workers : v = Target(x)
    BY TargetIsWorker
  <2>3. /\ spc[s] \in {"cmp", "data", "tail"} => sidx[s] = tail[v]
        /\ spc[s] \in {"data", "tail"} => Succ(sidx[s]) # head[v]
        /\ spc[s] = "tail" => buf[v][sidx[s]] = x
        /\ sub[x] = "calling"
    BY <2>0, <2>1, <2>2 DEF Books, PushSafe
  <2>4. CASE SubmitRoom(s) \/ SubmitFull(s)
    <3>1. /\ UNCHANGED <<tail, buf, gq, sidx, stask, sub>> /\ spc[s] = "cmp"
          /\ spc'[s] \in {"data", "gpush"} /\ (spc'[s] = "data" => Succ(sidx[s]) # head[v])
      BY <1>0, <2>1, <2>2, <2>4 DEF SubmitRoom, SubmitFull, Global!CallPush
    <3>2. PushSafe'
      BY <1>0, <1>1, <2>1, <2>2, <2>3, <3>1 DEF PushSafe
    <3>3. \A y \in Tasks : Placed(y)' <=> Placed(y)
      BY <1>0, <3>1 DEF Placed
    <3> QED
      BY <1>5, <1>6, <3>1, <3>2, <3>3 DEF Books
  <2>5. CASE SubmitData(s)
    <3>1. /\ UNCHANGED <<tail, gq, sidx, stask, sub>> /\ spc[s] = "data" /\ spc'[s] = "tail"
          /\ buf' = [buf EXCEPT ![v][tail[v]] = x]
      BY <1>0, <2>1, <2>2, <2>3, <2>5 DEF SubmitData
    <3>2. /\ buf'[v][tail[v]] = x
          /\ \A w \in Workers, i \in Slots : <<w, i>> # <<v, tail[v]>> => buf'[w][i] = buf[w][i]
      BY <1>0, <3>1 DEF SharedTypes
    <3>3. \A w \in Workers : Occupied(w)' = Occupied(w) /\ Occupied(w) \subseteq Slots
                             /\ tail[w] \notin Occupied(w)
      BY <1>0, <1>1, <3>1, OccupiedSlots DEF Occupied
    <3>4. \A w \in Workers : \A i \in Occupied(w) : buf'[w][i] = buf[w][i]
      BY <3>2, <3>3
    <3>5. PopSafe'
      <4>1. ASSUME NEW w \in Workers, pc[w] = "store"
            PROVE  buf'[Victim(w)][h[w]] = buf[Victim(w)][h[w]]
        <5>1. h[w] = head[Victim(w)] /\ head[Victim(w)] # tail[Victim(w)]
          BY <4>1 DEF Books, PopSafe, InPop
        <5>2. h[w] \in Slots
          BY DEF PoolInv, Types, WorkerTypes
        <5> QED
          BY <1>2, <3>2, <5>1, <5>2
      <4> QED
        BY <1>1, <1>2, <3>1, <4>1 DEF Books, PopSafe
    <3>6. PushSafe'
      BY <1>0, <1>1, <2>1, <2>2, <2>3, <3>1, <3>2 DEF PushSafe
    <3>7. RingsFilled' /\ \A y \in Tasks : InRing(y)' = InRing(y)
      BY <3>3, <3>4 DEF Books, RingsFilled, InRing
    <3>8. \A y \in Tasks : Placed(y)' <=> Placed(y)
      BY <1>0, <3>1 DEF Placed
    <3> QED
      BY <1>6, <3>1, <3>5, <3>6, <3>7, <3>8 DEF Books
  <2>6. CASE SubmitTail(s)
    <3>1. /\ UNCHANGED <<buf, gq>> /\ spc[s] = "tail" /\ spc'[s] = "idle"
          /\ tail' = [tail EXCEPT ![v] = Succ(tail[v])] /\ sub' = [sub EXCEPT ![x] = "accepted"]
          /\ stask'[s] = NULL
      BY <1>0, <2>1, <2>2, <2>3, <2>6 DEF SubmitTail, SubmitDone
    <3>2. /\ Occupied(v)' = Occupied(v) \cup {tail[v]} /\ tail[v] \notin Occupied(v)
          /\ \A u \in Workers \ {v} : Occupied(u)' = Occupied(u)
          /\ tail'[v] = Succ(tail[v]) /\ \A u \in Workers \ {v} : tail'[u] = tail[u]
      BY <1>0, <1>1, <2>3, <3>1, RingAfterPush
    <3>3. buf[v][tail[v]] = x /\ tail[v] \in Slots /\ Succ(tail[v]) # head[v]
      BY <1>0, <2>3, <3>1 DEF SharedTypes
    <3>4. PopSafe'
      <4>1. \A w \in Workers : head[Victim(w)] # tail[Victim(w)] => head[Victim(w)] # tail'[Victim(w)]
        BY <1>2, <3>2, <3>3
      <4> QED
        BY <1>1, <1>2, <3>1, <4>1 DEF Books, PopSafe
    <3>5. PushSafe'
      BY <1>0, <3>1 DEF PushSafe
    <3>6. RingsFilled'
      BY <3>1, <3>2, <3>3 DEF Books, RingsFilled
    <3>7. ASSUME NEW y \in Tasks PROVE Account(y)'
      <4>1. CASE y # x
        <5>1. InRing(y)' = InRing(y)
          BY <3>1, <3>2, <3>3, <4>1 DEF InRing
        <5>2. Placed(y)' <=> Placed(y)
          BY <1>0, <2>1, <3>1, <4>1 DEF Placed
        <5> QED
          BY <1>6, <3>1, <5>1, <5>2
      <4>2. CASE y = x
        <5>1. ~Placed(x)
          BY <1>0, <2>3, <3>1 DEF Placed
        <5>2. /\ InRing(x) = {} /\ Queued(x) = {} /\ Taking(x) = {} /\ Held(x) = {}
              /\ status[x] = "unset"
          BY <5>1 DEF Books, Account
        <5>3. InRing(x)' = {<<v, tail[v]>>}
          <6>1. <<v, tail[v]>> \in InRing(x)'
            BY <3>1, <3>2, <3>3 DEF InRing
          <6>2. InRing(x)' \subseteq InRing(x) \cup {<<v, tail[v]>>}
            BY <3>1, <3>2 DEF InRing
          <6> QED
            BY <5>2, <6>1, <6>2
        <5>4. Placed(x)' /\ status'[x] = "unset" /\ Queued(x)' = {}
          BY <1>0, <1>1, <3>1, <5>2 DEF Placed, Queued
        <5> QED
          BY <1>4, <4>2, <5>2, <5>3, <5>4 DEF Account, Lone
      <4> QED
        BY <4>1, <4>2
    <3> QED
      BY <3>4, <3>5, <3>6, <3>7 DEF Books
  <2>7. CASE GlobalPut(s)
    <3>1. /\ UNCHANGED <<tail, buf, sidx, stask, sub>> /\ spc[s] = "gpush" /\ spc'[s] = "gret"
          /\ gq' = Append(gq, garg[s])
      BY <1>0, <2>7 DEF GlobalPut, Global!Enqueue
    <3>2. gq' = Append(gq, x) /\ gq \in Seq(Tasks)
      BY <1>0, <2>1, <3>1 DEF PoolInv, InHand, SharedTypes
    <3>3. /\ Len(gq') = Len(gq) + 1 /\ Len(gq) \in Nat
          /\ gq'[Len(gq) + 1] = x /\ \A i \in 1 .. Len(gq) : gq'[i] = gq[i]
      BY <3>2
    <3>4. PushSafe'
      BY <1>0, <2>1, <2>3, <3>1 DEF PushSafe
    <3>5. ASSUME NEW y \in Tasks PROVE Account(y)'
      <4>0. InRing(y)' = InRing(y)
        BY <1>5, <3>1
      <4>1. CASE y # x
        <5>1. Queued(y)' = Queued(y)
          BY <3>3, <4>1 DEF Queued
        <5>2. Placed(y)' <=> Placed(y)
          BY <1>0, <2>1, <3>1, <4>1 DEF Placed
        <5>3. Account(y)
          BY DEF Books
        <5> QED
          BY <1>1, <1>4, <4>0, <5>1, <5>2, <5>3, KeepAccount DEF Account, Lone
      <4>2. CASE y = x
        <5>1. ~Placed(x)
          BY <1>0, <2>3, <3>1 DEF Placed
        <5>2. /\ InRing(x) = {} /\ Queued(x) = {} /\ Taking(x) = {} /\ Held(x) = {}
              /\ status[x] = "unset"
          BY <5>1 DEF Books, Account
        <5>3. Queued(x)' = {Len(gq) + 1}
          BY <3>3, <5>2 DEF Queued
        <5>4. Placed(x)' /\ status'[x] = "unset"
          BY <1>1, <2>1, <3>1, <5>2 DEF Placed
        <5> QED
          BY <1>4, <4>0, <4>2, <5>2, <5>3, <5>4 DEF Account, Lone
      <4> QED
        BY <4>1, <4>2
    <3> QED
      BY <1>5, <3>1, <3>4, <3>5 DEF Books
  <2>8. CASE GlobalPutReturn(s) \/ GlobalFull(s)
    <3>1. /\ UNCHANGED <<tail, buf, gq>> /\ spc'[s] = "idle" /\ stask'[s] = NULL
          /\ \A y \in Tasks \ {x} : sub'[y] = sub[y]
          /\ \/ spc[s] = "gret" /\ sub'[x] = "accepted"
             \/ spc[s] = "gpush" /\ sub'[x] = "refused"
      BY <1>0, <2>1, <2>8 DEF GlobalPutReturn, GlobalFull, SubmitDone, Global!ReturnPush,
                              Global!PushFull
    <3>2. PushSafe'
      BY <1>0, <3>1 DEF PushSafe
    <3>3. \A y \in Tasks : Placed(y)' <=> Placed(y)
      BY <1>0, <2>1, <2>3, <3>1 DEF Placed
    <3> QED
      BY <1>5, <1>6, <3>1, <3>2, <3>3 DEF Books
  <2> QED
    BY <1>8, <2>4, <2>5, <2>6, <2>7, <2>8 DEF SubmitStep
<1> QED
  BY <1>7, <1>8

-----------------------------------------------------------------------------
\* After two workers were inside one ring at once (`overlap') only PoolInv is left.
BooksInv == PoolInv /\ (~overlap => Books)

\* Every step keeps the books.
LEMMA BooksStep == OneSubmitter /\ BooksInv /\ [Next]_vars => BooksInv'
<1> SUFFICES ASSUME OneSubmitter, BooksInv, [Next]_vars PROVE BooksInv'
  OBVIOUS
<1>1. PoolInv'
  BY PoolStep DEF BooksInv
<1>2. CASE UNCHANGED vars
  <2> USE <1>2 DEF vars, mainVars, ringVars, globalVars, workerVars, submitVars
  <2>1. \A w \in Workers : Victim(w)' = Victim(w) /\ Occupied(w)' = Occupied(w)
    BY DEF Victim, Occupied
  <2>2. PopSafe => PopSafe'
    BY <2>1 DEF PopSafe
  <2>3. (PushSafe => PushSafe') /\ (RingsFilled => RingsFilled')
    BY <2>1 DEF PushSafe, RingsFilled
  <2>4. ASSUME NEW x \in Tasks, Account(x) PROVE Account(x)'
    <3>1. InRing(x)' = InRing(x) /\ Queued(x)' = Queued(x) /\ Taking(x)' = Taking(x)
          /\ Held(x)' = Held(x) /\ (Placed(x)' <=> Placed(x))
      BY <2>1 DEF InRing, Queued, Taking, Held, Placed
    <3> QED
      BY <2>4, <3>1, KeepAccount DEF Account
  <2> QED
    BY <1>1, <2>2, <2>3, <2>4 DEF BooksInv, Books
<1>3. CASE Next /\ ~overlap'
  <2>1. ~overlap
    <3>1. CASE \E w \in Workers : PopLoad(w)
      BY <1>3, <3>1 DEF PopLoad
    <3>2. CASE ~\E w \in Workers : PopLoad(w)
      BY <1>3, <3>2 DEF Next, MainStep, InitWorker, StopWorker, JoinWorker, DestroyCall, SetCtx,
            WorkerStep, LoopCheck, PopEmpty, PopReady, PopRead, PopStore, GlobalTake, GlobalNone,
            GlobalReturn, SkipTask, BeginTask, FinishTask, SubmitCall, SubmitStep, SubmitRoom,
            SubmitFull, SubmitData, SubmitTail, GlobalPut, GlobalPutReturn, GlobalFull
    <3> QED
      BY <3>1, <3>2
  <2>2. PoolInv /\ Books
    BY <2>1 DEF BooksInv
  <2>3. ASSUME NEW w \in Workers, WorkerStep(w) PROVE Books'
    BY <1>3, <2>2, <2>3, LookBooks, PopBooks, TakeBooks, ReturnBooks, AnswerBooks DEF WorkerStep
  <2>4. Books'
    BY <1>3, <2>2, <2>3, MainBooks, SubmitBooks DEF Next
  <2> QED
    BY <1>1, <2>4 DEF BooksInv
<1> QED
  BY <1>1, <1>2, <1>3 DEF BooksInv

\* The books hold at every moment.
LEMMA BooksInvHolds == OneSubmitter => (Spec => []BooksInv)
<1> SUFFICES ASSUME OneSubmitter PROVE Spec => []BooksInv
  OBVIOUS
<1>1. Init => BooksInv
  BY PoolInit, BooksInit DEF BooksInv
<1>2. BooksInv /\ [Next]_vars => BooksInv'
  BY BooksStep
<1> QED
  BY <1>1, <1>2, PTL DEF Spec

\* Counting sets of one member at most.
LEMMA LoneCardinality ==
  ASSUME NEW S, Lone(S)
  PROVE  Cardinality(S) = IF S = {} THEN 0 ELSE 1
<1>1. CASE S = {}
  BY <1>1, FS_EmptySet
<1>2. CASE S # {}
  <2>1. PICK a \in S : S = {a}
    BY <1>2 DEF Lone
  <2> QED
    BY <1>2, <2>1, FS_Singleton
<1> QED
  BY <1>1, <1>2

\* With one submitter, any number of workers and any ring and queue sizes, an accepted
\* task is in one place until it is answered and in none afterwards, and a refused one is
\* nowhere (scheduler.c:63-65), as long as no two workers were inside one ring at once.
THEOREM ConservedHolds == OneSubmitter => (Spec => []Conserved)
<1>1. BooksInv => Conserved
  <2> SUFFICES ASSUME BooksInv, ~overlap, NEW x \in Tasks
               PROVE  /\ sub[x] = "accepted" => Copies(x) = IF status[x] = "unset" THEN 1 ELSE 0
                      /\ sub[x] = "refused" => Copies(x) = 0 /\ status[x] = "unset"
    BY DEF Conserved
  <2>1. Account(x)
    BY DEF BooksInv, Books
  <2>2. /\ Cardinality(InRing(x)) = (IF InRing(x) = {} THEN 0 ELSE 1)
        /\ Cardinality(Queued(x)) = (IF Queued(x) = {} THEN 0 ELSE 1)
        /\ Cardinality(Taking(x)) = (IF Taking(x) = {} THEN 0 ELSE 1)
        /\ Cardinality(Held(x)) = (IF Held(x) = {} THEN 0 ELSE 1)
    BY <2>1, LoneCardinality DEF Account
  <2>3. Copies(x) = IF Placed(x) /\ status[x] = "unset" THEN 1 ELSE 0
    <3>1. CASE Placed(x) /\ status[x] = "unset"
      BY <2>1, <2>2, <3>1 DEF Account, Copies
    <3>2. CASE ~(Placed(x) /\ status[x] = "unset")
      BY <2>1, <2>2, <3>2 DEF Account, Copies
    <3> QED
      BY <3>1, <3>2
  <2>4. sub[x] = "accepted" => Placed(x)
    BY DEF Placed
  <2>5. sub[x] = "refused" => ~Placed(x)
    BY DEF Placed, BooksInv, Books, PushSafe
  <2>6. ~Placed(x) => status[x] = "unset"
    BY <2>1 DEF Account
  <2> QED
    BY <2>3, <2>4, <2>5, <2>6
<1>2. OneSubmitter => (Spec => []BooksInv)
  BY BooksInvHolds
<1> QED
  BY <1>1, <1>2, PTL

\* Under the same conditions a status, once written (worker.c:60, :69), is never written again.
THEOREM StatusFinalHolds == OneSubmitter => (Spec => StatusFinal)
<1>1. BooksInv /\ [Next]_vars =>
        [~overlap => \A x \in Tasks : status[x] # "unset" => status'[x] = status[x]]_status
  <2> SUFFICES ASSUME BooksInv, [Next]_vars, ~overlap, NEW x \in Tasks, status[x] # "unset"
               PROVE  status'[x] = status[x]
    OBVIOUS
  <2>0. PoolInv /\ Books
    BY DEF BooksInv
  <2>1. CASE \E w \in Workers : SkipTask(w) \/ FinishTask(w)
    BY <2>0, <2>1, AnswerBooks
  <2>2. CASE ~\E w \in Workers : SkipTask(w) \/ FinishTask(w)
    BY <2>2 DEF Next, vars, MainStep, InitWorker, StopWorker, JoinWorker, DestroyCall, SetCtx,
          WorkerStep, LoopCheck, PopLoad, PopEmpty, PopReady, PopRead, PopStore, GlobalTake,
          GlobalNone, GlobalReturn, BeginTask, SubmitCall, SubmitStep, SubmitRoom,
          SubmitFull, SubmitData, SubmitTail, GlobalPut, GlobalPutReturn, GlobalFull
  <2> QED
    BY <2>1, <2>2
<1>2. OneSubmitter => (Spec => []BooksInv)
  BY BooksInvHolds
<1> QED
  BY <1>1, <1>2, PTL DEF Spec, StatusFinal

=============================================================================
