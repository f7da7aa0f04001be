------------------------------- MODULE Engine -------------------------------
(***************************************************************************)
(* The life of the engine: img_api_init with its workers, the full start   *)
(* of startup/engine_init.c, img_submit_task, img_api_process_fast and     *)
(* img_api_shutdown (api/api.c), over the dispatch tables of Dispatch.     *)
(*                                                                         *)
(* One host thread starts and stops the engine, once per process and not   *)
(* while calls run, as img_api.h asks; Callers are the threads that call   *)
(* it.  The workers have no scheduler: they spin on a ring nobody fills.   *)
(* `wild` names the first undefined behaviour; nothing is said after it.   *)
(***************************************************************************)
EXTENDS Dispatch

CONSTANTS
  Callers,       \* host threads that call img_api_process_fast
  WorkerCounts,  \* arguments of img_api_init
  CoreIds,       \* the processors of the machine, 0 .. n - 1
  Pipelines,     \* the pipelines callers bring: sequences of opcodes
  TaskSlots,     \* size of g_task_queue (1024)
  MaxCalls,      \* bound: fast calls of one caller
  MaxStarts      \* bound: calls of img_engine_init

ASSUME CoreIdsAssumption == CoreIds \subseteq Nat
ASSUME WorkerCountsAssumption == WorkerCounts \subseteq Nat

MaxWorkers == 64
WorkerIds == UNION {0 .. n - 1 : n \in WorkerCounts \cap 1 .. MaxWorkers}

AnyCore == -1     \* the affinity mask of a thread nobody pinned
NoThread == -2    \* of a worker: no thread was created
Exited == -3      \* its thread has ended
NoQueue == -1     \* g_task_queue has no cells

VARIABLES
  caps,     \* what img_cpu_detect_caps finds on this machine
  host,     \* the host thread: [at, i, core]
  engine,   \* g_engine: [count, pool]
  worker,   \* g_workers: [running, ring, handle]
  thread,   \* worker threads: the core each one inherited, NoThread or Exited
  table, batch,   \* g_jump_table, g_batch_jump_table
  io,       \* g_io_vtable is filled
  tasks,    \* g_task_queue: NoQueue, or how many tasks it holds
  call,     \* per caller: [at, pipe, out, ret, n]
  starts, wild

engineVars == <<caps, host, engine, worker, thread, table, batch, io, tasks,
                call, starts, wild>>

Idle == [at |-> "idle", pipe |-> <<>>, out |-> FALSE, ret |-> "none", n |-> 0]

EngineInit ==
  /\ caps \in CapSets
  /\ host = [at |-> "new", i |-> 0, core |-> AnyCore]
  /\ engine = [count |-> 0, pool |-> "none"]
  /\ worker = [w \in WorkerIds |->
                 [running |-> FALSE, ring |-> FALSE, handle |-> FALSE]]
  /\ thread = [w \in WorkerIds |-> NoThread]
  /\ table = EmptyTable /\ batch = EmptyTable
  /\ io = FALSE
  /\ tasks = NoQueue
  /\ call = [c \in Callers |-> Idle]
  /\ starts = 0
  /\ wild = "no"

Sane == wild = "no"

-----------------------------------------------------------------------------
(* img_api_init                                                            *)

\* The sandbox refuses (a production build), the count is out of range, or the
\* pool cannot be had: NULL.  Only the last has cleared g_engine.
InitRefused(n) ==
  /\ Sane /\ host.at = "new"
  /\ engine' \in IF n \in 1 .. MaxWorkers
                 THEN {engine, [count |-> n, pool |-> "none"]} ELSE {engine}
  /\ host' = [host EXCEPT !.at = "failed"]
  /\ UNCHANGED <<caps, worker, thread, table, batch, io, tasks, call, starts, wild>>

InitTables(n) ==
  /\ Sane /\ host.at = "new"
  /\ n \in 1 .. MaxWorkers
  /\ engine' = [count |-> n, pool |-> "ready"]
  /\ table' = HwKernels(caps, JumpTable(caps))
  /\ batch' = BatchTable(caps)
  /\ host' = [host EXCEPT !.at = "workers"]
  /\ UNCHANGED <<caps, worker, thread, io, tasks, call, starts, wild>>

\* img_pin_thread_to_core pins the thread that calls it; a processor that does
\* not exist is an error nobody looks at, and the old mask stays.
Pinned(core) == IF core \in CoreIds THEN core ELSE host.core

\* Mutation: the new thread is created first, and pinned by nobody.
InitWorkerPinLate ==
  /\ Sane /\ host.at = "workers" /\ host.i < engine.count
  /\ worker' = [worker EXCEPT ![host.i] = [running |-> TRUE, ring |-> TRUE, handle |-> TRUE]]
  /\ thread' = [thread EXCEPT ![host.i] = host.core]
  /\ host' = [host EXCEPT !.i = @ + 1, !.core = Pinned(host.i)]
  /\ UNCHANGED <<caps, engine, table, batch, io, tasks, call, starts, wild>>

\* img_worker_init, with scheduler NULL: the thread inherits the host's mask.
\* pthread_create may fail, which nobody looks at.
InitWorker ==
  /\ Sane /\ host.at = "workers" /\ host.i < engine.count
  /\ \E created \in BOOLEAN :
       /\ worker' = [worker EXCEPT ![host.i] =
                       [running |-> TRUE, ring |-> TRUE, handle |-> created]]
       /\ thread' = [thread EXCEPT ![host.i] =
                       IF created THEN Pinned(host.i) ELSE NoThread]
  /\ host' = [host EXCEPT !.i = @ + 1, !.core = Pinned(host.i)]
  /\ UNCHANGED <<caps, engine, table, batch, io, tasks, call, starts, wild>>

\* The ring cannot be had: img_worker_init returns -1, which nobody looks at.
InitWorkerNoRing ==
  /\ Sane /\ host.at = "workers" /\ host.i < engine.count
  /\ worker' = [worker EXCEPT ![host.i].running = TRUE, ![host.i].ring = FALSE]
  /\ host' = [host EXCEPT !.i = @ + 1]
  /\ UNCHANGED <<caps, engine, thread, table, batch, io, tasks, call, starts, wild>>

\* img_mpmc_init of the submission queue, its result ignored.
InitQueue ==
  /\ Sane /\ host.at = "workers" /\ host.i = engine.count
  /\ tasks' \in {NoQueue, 0}
  /\ host' = [host EXCEPT !.at = "up"]
  /\ UNCHANGED <<caps, engine, worker, thread, table, batch, io, call, starts, wild>>

-----------------------------------------------------------------------------
(* img_engine_init: a host may ask for fused kernels, plugins and codecs.  *)

StartTables ==
  /\ Sane /\ host.at = "up" /\ starts < MaxStarts
  /\ table' = JumpTable(caps) /\ batch' = BatchTable(caps)
  /\ starts' = starts + 1
  /\ host' = [host EXCEPT !.at = "kernels"]
  /\ UNCHANGED <<caps, engine, worker, thread, io, tasks, call, wild>>

StartKernels ==
  /\ Sane /\ host.at = "kernels"
  /\ table' = HwKernels(caps, table)
  /\ batch' = FusedInit(caps, batch)
  /\ host' = [host EXCEPT !.at = "plugins"]
  /\ UNCHANGED <<caps, engine, worker, thread, io, tasks, call, starts, wild>>

StartPlugins ==
  /\ Sane /\ host.at = "plugins"
  /\ table' = LoadPlugins(table, "single")
  /\ batch' = LoadPlugins(batch, "batch")
  /\ host' = [host EXCEPT !.at = "io"]
  /\ UNCHANGED <<caps, engine, worker, thread, io, tasks, call, starts, wild>>

\* img_io_register_defaults
StartIo ==
  /\ Sane /\ host.at = "io"
  /\ io' = TRUE
  /\ host' = [host EXCEPT !.at = "up"]
  /\ UNCHANGED <<caps, engine, worker, thread, table, batch, tasks, call, starts, wild>>

-----------------------------------------------------------------------------
(* The calls.                                                              *)

Serving == Sane /\ host.at \in {"up", "kernels", "plugins", "io"}

\* img_submit_task: nobody pops g_task_queue.
Submit ==
  /\ Serving
  /\ \/ tasks = NoQueue /\ wild' = "queue" /\ UNCHANGED tasks
     \/ tasks # NoQueue /\ tasks < TaskSlots /\ tasks' = tasks + 1 /\ UNCHANGED wild
     \/ tasks = TaskSlots /\ UNCHANGED <<tasks, wild>>      \* 0: full
  /\ UNCHANGED <<caps, host, engine, worker, thread, table, batch, io, call, starts>>

At(c, place) == Sane /\ call[c].at = place
StaysBut(f) == /\ call' = f
               /\ UNCHANGED <<caps, host, engine, worker, thread, table, batch,
                              io, tasks, starts>>
Goes(c, place) == [call EXCEPT ![c].at = place]
Returns(c, r)  == [call EXCEPT ![c].at = "idle", ![c].ret = r]

\* img_api_process_fast.  The gate refuses null arguments and sizes.
FastCall(c, pipe) ==
  /\ Serving /\ At(c, "idle") /\ call[c].n < MaxCalls
  /\ UNCHANGED wild
  /\ \E at \in {"decode", "idle"} :
       StaysBut([call EXCEPT ![c] =
          [at |-> at, pipe |-> pipe, out |-> FALSE, n |-> call[c].n + 1,
           ret |-> IF at = "idle" THEN "security" ELSE "none"]])

\* decode_image_secure calls g_io_vtable.decode, whatever it holds.  A decoded
\* image takes a block of the pool into the caller's out_buf.
FastDecode(c) ==
  /\ At(c, "decode")
  /\ \/ ~io /\ wild' = "decode" /\ StaysBut(call)
     \/ io /\ UNCHANGED wild /\ StaysBut(Returns(c, "decode"))
     \/ io /\ UNCHANGED wild
           /\ StaysBut([call EXCEPT ![c].at = "validate", ![c].out = TRUE])

\* A refused pipeline returns with the block still in out_buf.
FastValidate(c) ==
  /\ At(c, "validate")
  /\ UNCHANGED wild
  /\ StaysBut(IF Validate(call[c].pipe) THEN Goes(c, "compile")
                                        ELSE Returns(c, "security"))

FastCompile(c) ==
  /\ At(c, "compile")
  /\ LET r == CompileResult(call[c].pipe, table) IN
     \/ r = "outside" /\ wild' = "table" /\ StaysBut(call)
     \/ r = "refused" /\ UNCHANGED wild /\ StaysBut(Returns(c, "format"))
     \/ r = "ok" /\ UNCHANGED wild /\ StaysBut(Goes(c, "execute"))

\* The compiled pipeline, count first, is cast to a runtime pipeline, pointer
\* first: the loop follows the count as an address.
FastExecute(c) ==
  /\ At(c, "execute")
  /\ wild' = "cast" /\ StaysBut(call)

-----------------------------------------------------------------------------
(* img_api_shutdown, and the worker threads.                               *)

NoCallRuns == \A c \in Callers : call[c].at = "idle"

ShutdownBegin ==
  /\ Sane /\ host.at = "up" /\ NoCallRuns
  /\ host' = [host EXCEPT !.at = "stop", !.i = 0]
  /\ UNCHANGED <<caps, engine, worker, thread, table, batch, io, tasks, call, starts, wild>>

\* Mutation: only the first worker is told.
ShutdownStopFirst ==
  /\ Sane /\ host.at = "stop" /\ host.i < engine.count
  /\ worker' = [worker EXCEPT ![0].running = FALSE]
  /\ host' = [host EXCEPT !.at = "join"]
  /\ UNCHANGED <<caps, engine, thread, table, batch, io, tasks, call, starts, wild>>

ShutdownStop ==
  /\ Sane /\ host.at = "stop" /\ host.i < engine.count
  /\ worker' = [worker EXCEPT ![host.i].running = FALSE]
  /\ host' = [host EXCEPT !.at = "join"]
  /\ UNCHANGED <<caps, engine, thread, table, batch, io, tasks, call, starts, wild>>

\* Mutation: the thread is not waited for.
ShutdownJoinAtOnce ==
  /\ Sane /\ host.at = "join"
  /\ host' = [host EXCEPT !.at = "stop", !.i = @ + 1]
  /\ UNCHANGED <<caps, engine, worker, thread, table, batch, io, tasks, call, starts, wild>>

\* pthread_join waits for the thread.  Of a thread that was never created
\* the handle is the zero of a static variable: undefined.
ShutdownJoin ==
  /\ Sane /\ host.at = "join"
  /\ \/ /\ worker[host.i].handle
        /\ thread[host.i] = Exited
        /\ host' = [host EXCEPT !.at = "stop", !.i = @ + 1]
        /\ UNCHANGED wild
     \/ /\ ~worker[host.i].handle
        /\ wild' = "join" /\ UNCHANGED host
  /\ UNCHANGED <<caps, engine, worker, thread, table, batch, io, tasks, call, starts>>

\* The pool goes; whatever g_task_queue holds stays unanswered.
ShutdownPool ==
  /\ Sane /\ host.at = "stop" /\ host.i = engine.count
  /\ engine' = [engine EXCEPT !.pool = "destroyed"]
  /\ host' = [host EXCEPT !.at = "down"]
  /\ UNCHANGED <<caps, worker, thread, table, batch, io, tasks, call, starts, wild>>

Alive(w) == thread[w] \in CoreIds \cup {AnyCore}

\* worker_loop leaves when it sees running = 0; until then it spins.
WorkerExit(w) ==
  /\ Sane /\ Alive(w) /\ ~worker[w].running
  /\ thread' = [thread EXCEPT ![w] = Exited]
  /\ UNCHANGED <<caps, host, engine, worker, table, batch, io, tasks, call, starts, wild>>

HostStep == \/ InitWorker \/ InitWorkerNoRing \/ InitQueue
            \/ StartKernels \/ StartPlugins \/ StartIo
            \/ ShutdownStop \/ ShutdownJoin \/ ShutdownPool
CallStep(c) == FastDecode(c) \/ FastValidate(c) \/ FastCompile(c) \/ FastExecute(c)

EngineNext ==
  \/ \E n \in WorkerCounts : InitRefused(n) \/ InitTables(n)
  \/ HostStep \/ StartTables \/ ShutdownBegin \/ Submit
  \/ \E c \in Callers : CallStep(c) \/ \E p \in Pipelines : FastCall(c, p)
  \/ \E w \in WorkerIds : WorkerExit(w)

EngineSpec == EngineInit /\ [][EngineNext]_engineVars

\* Threads run: the host inside a call, and each worker, which polls its flag.
EngineFair ==
  /\ WF_engineVars(HostStep)
  /\ \A c \in Callers : WF_engineVars(CallStep(c))
  /\ \A w \in WorkerIds : WF_engineVars(WorkerExit(w))

-----------------------------------------------------------------------------
(* Properties.                                                             *)

EngineTypeOK ==
  /\ engine.count \in 0 .. MaxWorkers /\ engine.pool \in {"none", "ready", "destroyed"}
  /\ host.i \in 0 .. MaxWorkers /\ host.core \in CoreIds \cup {AnyCore}
  /\ tasks \in {NoQueue} \cup 0 .. TaskSlots

(***************************************************************************)
(* Pinning by inheritance (worker.c:93, affinity.c:11): a worker thread    *)
(* runs on the processor of its own number whenever the machine has one,   *)
(* so no two of those workers share a processor, although it is always     *)
(* the host that is pinned and no thread pins itself.                      *)
(***************************************************************************)
WorkersApart ==
  \A w \in WorkerIds : Alive(w) /\ w \in CoreIds => thread[w] = w

(***************************************************************************)
(* The pool outlives the workers (api.c:509-516): when img_api_shutdown    *)
(* destroys the pool every worker thread that was ever created has ended.  *)
(***************************************************************************)
PoolOutlivesThreads ==
  engine.pool = "destroyed" => \A w \in WorkerIds : ~Alive(w)

(***************************************************************************)
(* Kernels fit the processor: at every moment of every start sequence,     *)
(* tables half filled included, no entry of either dispatch table needs    *)
(* instructions the processor lacks (jump_table.c:39,                      *)
(* hardware_registry.c:11, fused_registry.c:29).                           *)
(***************************************************************************)
KernelsFit ==
  \A op \in Opcodes : Fits(table[op], caps) /\ Fits(batch[op], caps)

(***************************************************************************)
(* Shutdown ends (api.c:504): once img_api_shutdown is called the pool is  *)
(* destroyed, unless it joins a worker whose thread was never created.     *)
(***************************************************************************)
ShutdownEnds == host.at = "stop" ~> (host.at = "down" \/ wild = "join")

(***************************************************************************)
(* The codecs are wired (io_register.c:32, "Called once from img_api_init()*)
(* after slab pools are ready"): no call of a started engine goes through  *)
(* a decode pointer that nobody has set.                                   *)
(***************************************************************************)
DecodeWired == wild # "decode"

=============================================================================
