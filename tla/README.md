# imgengine in TLA+

A verification project for `imgengine`, the image layout engine in C under
`src/imgengine`, and for the job service around it under `src/imgengine-saas`.  The
modules model the parts whose correctness depends on the order of steps: the lock-free
queues, the worker pool built on them, the slab pool and the print job that takes its
buffers from it, the drawing of the page, the life of the engine with its dispatch
tables, fused pipelines, the arena, the logger, binary log and metrics, remote execution,
asynchronous file I/O, and the job service with its retries and lost calls.  TLC checks
them on small instances; TLAPS proves most of their safety properties for every number of
threads, workers, callers, blocks and cells, and every page, job and sequence of requests
(section 4 says which, and what only TLC checks).

All paths below are relative to `src/imgengine` unless they say otherwise.

## 1. The system

| Part | State | Operations | Used by |
|---|---|---|---|
| MPMC queue, `src/runtime/queue_mpmc.c` | cells with `seq` and `data`, tickets `head`, `tail` | `img_mpmc_init`, `_push`, `_pop`, `_destroy` | scheduler (overflow), `api.c` (`g_task_queue`) |
| SPSC queue, `src/runtime/queue_spsc.c` | a ring, `head`, `tail` | `img_queue_create`, `_push`, `_pop` | one per worker |
| Scheduler and workers, `src/runtime/scheduler.c`, `worker.c` | workers (`running`, `ctx`, ring, thread), global queue | `img_scheduler_init`, `_submit`, `_steal`, `_destroy`, `worker_loop` | a host program |
| Slab pool, `src/memory/slab.c` | a free list kept in the first bytes of its blocks | `img_slab_create`, `_alloc`, `_free` | decoder, canvas, layout |
| Print job, `src/api/api.c` | buffers, mapping, arena of one call | `img_api_run_job`, `img_api_process_raw` | CLI, bindings, service |
| Engine life cycle, `src/api/api.c`, `src/startup/engine_init.c` | globals: slabs, task queue, workers | `img_api_init`, `img_submit_task`, `img_api_shutdown` | CLI, bindings |
| Grid geometry, `src/pipeline/canvas.c`, `layout.c`, `border.c`, `bleed.c`, `crop_marks.c` | page, cells, pixels | `img_canvas_init`, `img_layout_grid`, ... | `run_job` |
| Arena, `src/memory/arena.c` | `offset`, `size` | create, two ways to allocate, reset, destroy | `run_job` |
| Dispatch, `src/pipeline/jump_table.c`, `hardware_registry.c`, `fused_registry.c`, `src/plugins`, `src/cold` | two tables of kernels by opcode | init, register, validate, compile | engine, remote execution |
| Fused pipelines, `src/pipeline/pipeline_fuse.c`, `fused_*`, `batch_exec.c` | one static block of parameters | fuse, three ways to run | workers |
| Logger, binary log, metrics, `src/observability` | a ring of messages, rings and counters per core | init, write, logger thread, export, shutdown | everything |
| Remote execution, `src/runtime/exec_router.c`, `rpc_*.c` | sockets | route, call, serve | nothing yet |
| Asynchronous file I/O, `src/cmd/imgengine/io_uring_engine.c` | one `io_uring` | read and write a file | command line |
| Command line, `src/cmd/imgengine` | options | parse, build the job, run it | job service |
| Codecs, SIMD kernels, VFS, sandbox, bindings | | | |
| Job service, `../imgengine-saas` | job rows, Celery messages, files | generate, worker task, status update | HTTP clients |

How they interact.  A host calls the API; a job maps its input, decodes it into a slab
block, makes a canvas (second block) and a cell (third and fourth), draws the grid, and
encodes.  A host with a scheduler submits tasks instead; `img_scheduler_submit` puts a
task in the ring of the worker its address selects, or, if that ring is full, in the
global queue; a worker pops its ring, then the others' rings, then the global queue.
Inside the engine everything is shared memory and there are no locks, so order and
atomicity of single loads and stores carry all of the correctness.  Around it, remote
execution talks over a socket, and the job service over HTTP, a database and a message
broker, each of which may lose or delay what it carries.

What is hard here, part by part, and what makes the part correct:

* **MPMC queue.** A thread may sleep between the load of a ticket, the load of `seq`
  and the compare-and-swap, for whole laps of the ring.  Correct: nobody else is on a
  cell between ticket and `seq` store; no unpublished datum is popped; it is a FIFO;
  no call retries for ever.
* **SPSC queue.** Its indices are loaded and stored in separate steps.  Correct, with
  one producer and one consumer: what each side checked stays true until it acts, and
  the ring is a FIFO of `size - 1` items.  With more, it is not correct, and the
  scheduler uses it with more.
* **Scheduler.** Threads start while the pool is being built, contexts come later,
  workers steal while others are stopped.  Correct: an accepted task is in one place
  and answered once; a refused one is never seen by a worker; nothing is freed under a
  running worker; `img_scheduler_destroy` ends.
* **Slab pool.** The list lives in memory that callers overwrite with pixels; there is
  no lock.  Correct: the list is acyclic, ends in NULL, never holds a block in use, and
  no block is lost.
* **Print job.** Many early returns, each with its own set of buffers to give back.
  Correct: at each stage the call holds exactly what the rest of its path uses, and
  after any return nothing is kept.
* **Engine.** `img_api_init` ignores failures, pins the wrong thread on purpose, and a
  second start function refills the tables.  Correct: the workers are apart, the pool
  outlives them, no table ever holds a kernel the processor cannot run, shutdown ends.
* **Geometry.** Sizes are divided, scaled in single precision and centred; cells that do
  not fit are skipped but counted; border, bleed and marks draw on one canvas, one after
  the other.  Correct, for a job that fits its page: every counted cell is written, the
  margins and gaps are kept, and what is drawn for one photo spares the others.
* **Arena.** `size_t` sums that may wrap, two allocation functions with different
  rounding.  Correct: blocks lie in the arena and apart.
* **Logger, binary log, metrics.** A ring whose pop tries once, a shutdown that does not
  drain; rings and counters without atomics.  Correct: what is printed is a prefix of
  what was written; drops only when full; entries whole; counters exact.
* **Fused pipelines.** One static block of parameters, and four implementations of the
  same arithmetic.  Correct: the fused run is the composition of its operations.
* **Remote execution, file I/O.** Return values that nobody looks at.  Correct: what a
  success is worth.
* **Job service.** Commit-then-send, retries, lost and late answers, dying workers.
  Correct: a status is earned, a job is in one place, every job ends or is accounted for.

`PROJECT.json` lists every part with its status, and every hazard with its line and the
properties that watch it.  Where the code does go wrong in the way the hazard says and no
document claims otherwise, or where a property leaves the case out, its note says so.

## 2. Modules

| Module | Models |
|---|---|
| `BoundedFifo` | what a queue promises: a call, one atomic effect, a return |
| `MpmcQueue` | `queue_mpmc.c`, one action per atomic access |
| `SpscQueue` | `queue_spsc.c`, one action per access, any producers and consumers |
| `Scheduler` | `scheduler.c`, `worker.c` with the rings access by access and the global queue as `BoundedFifo` |
| `SlabPool` | `slab.c`, reads and writes of the list as separate steps |
| `PrintJob` | `img_api_run_job`, `img_api_process_raw` on top of `SlabPool` |
| `Layout` | `canvas.c`, the grid of `layout.c`, `border.c`, `bleed.c`, `crop_marks.c`, pixel by pixel |
| `Logger`, `Binlog`, `Metrics` | `logger.c`; `binlog.c` with `binlog_decode.c`; `metrics.c` |
| `Observability` | the three together |
| `CommandLine` | `args.c`, `job_builder.c`, `main.c`: options to job and exit code |
| `SaasJob` | `generate.py`, `internal.py`, `tasks.py`, `engine_runner.py`, on top of `CommandLine` |
| `Dispatch` | the dispatch tables, everything that fills them, validation and compilation |
| `Engine` | `img_api_init`, `img_engine_init`, `img_submit_task`, `img_api_process_fast`, `img_api_shutdown`, on top of `Dispatch` |
| `FusedPipeline` | `pipeline_fuse.c`, `fused_dispatch.c`, `fused_kernels.inc`, `batch_exec.c`, byte by byte |
| `Arena` | `arena.c` with wrapping sizes |
| `Remote` | `exec_router.c`, `rpc_client.c`, `rpc_server.c`, on top of `Dispatch` |
| `IoRing` | `io_uring_engine.c` |
| `Processing` | `Engine`, `FusedPipeline`, `Arena`, `Remote`, `IoRing` together |
| `RingArith` | lemmas about `%` and division, and about smallest members of sets |
| `TicketRingProofs` | theorems about `MpmcQueue` and `Logger`, rings whose cells carry sequence numbers |
| `SingleWriterProofs` | theorems about `SpscQueue`, `Binlog` and `Metrics`, whose plain stores want one thread at a time |
| `SchedulerProofs`, `PrintJobProofs`, `LayoutProofs`, `SaasJobProofs` | theorems about the module they name |
| `ProcessingProofs` | theorems about `Engine` with `Dispatch`, `Arena`, `Remote`, `IoRing`, `FusedPipeline`, and that they are parts of `Processing` |
| `MCMpmc`, `MCSpsc`, `MCScheduler`, `MCPrintJob`, `MCLayout`, `MCObservability`, `MCSaasJob`, `MCProcessing` | the instances for TLC |

Operators commented "Mutation:" are not part of a specification.  Each is a plausible
mistake in the code, and stands before the definition it would replace; the table of
mutants in `PROJECT.json` says which property notices it.

### Correspondence

**MpmcQueue.** `seq[i]` and `data[i]` are the fields of cell `i`, `head` and `tail` those of
`img_mpmc_queue_t`; `pos`, `val` and `pc` are a thread's locals and place.  The loop of
`img_mpmc_push` is `PushLoadTail`, then one of `PushLoadSeqFree/Full/Retry` (the sign of
`diff`), then `PushCasOk/Fail`, `PushData`, `PushPublish`; pop is the same with `head`.
Interleaving of single accesses is justified because every access that another thread
may race with is an atomic with acquire or release order, and `data` is only reached
between a ticket and the `seq` store that hands the cell over: exactly what
`CellExclusive` says, so the plain accesses are ordered by the atomics around them.
The code is built for x86-64 only, where the weak compare-and-swap does not fail
spuriously.  Positions are natural numbers: the code's are 64-bit, the number of cells
is a power of two and divides 2^64, so only a thread suspended for 2^64 operations
could tell the difference.

**SpscQueue.** `head`, `tail`, `buffer` are the ring's; `pc`, `idx`, `val` a thread's.  The
owner's index is a plain load and the other side's an acquire load; both sides store
with release.

**Scheduler.** `phase` and `next` are the main thread in `img_scheduler_init` and
`img_scheduler_destroy`; `made`, `running` and `ctx` the fields of `img_worker_t`; `k`
counts the rings a worker has looked at, its own first (`k = 0`), then the victims of
`img_scheduler_steal`, which are `(self_id + i + 1) % n` for `i < n`, so that the last is
the thief's own ring.  `Target` is `(uintptr_t)task % worker_count` with tasks aligned to 64
bytes: with a worker count that divides 64 every task goes to worker 0.  A pop of a ring
that does not exist yet is a null dereference: the thread is `"crashed"` and the process
takes no further step.  `overlap` is a history: two workers were inside `img_queue_pop` of
one ring at once.  After that a single-consumer ring promises nothing, and with
`BeyondOverlap` FALSE the behaviour ends there; with TRUE (`sched_thief`) it goes on.
Left out: allocation failures (those of `img_worker_init` are in `Engine`), core pinning
(in `Engine`), and what the task's pipeline does.  Assumed of the host: it submits each
task once, in order (a task differs from another only by its address), and calls
`img_scheduler_destroy` when no submit is in progress.

**SlabPool.** `link[b]` is the first word of block `b`: its `next` while free, `JUNK`
(pixels) while in use.  `img_slab_alloc` is a load step and a store step,
`img_slab_free` a link step and a store step; with one caller these are atomic in
effect, with two they are not.  `host` is the set of blocks that the host keeps for
itself (task buffers), chosen once, so that a run covers pools of every size up to
`Blocks`.  Debug poisoning is left out.

**PrintJob.** `pc` is the stage of the call, `held` the block of each role (`photo`,
`canvas`, `tmp`, `cell`), `others` the mapping of the input and the arena, `todo` what is
still to give back.  Each way out of each stage names its own releases, in the code's
order: `img_slab_free`, `munmap` and `img_arena_destroy` are steps of their own.  A stage that can fail does so nondeterministically
with the codes its source returns; the geometry that decides it is abstracted.
`FILL` takes `tmp` then `cell`, `FIT` `cell` then `tmp`, as `prepare_fill` and
`prepare_fit` do.  Drawing borders, bleed and marks cannot fail.
The host is assumed to have registered the codecs (see `engine_io`).  `img_api_process_fast`
is in `Engine`.

**Layout.** One job from `img_canvas_init` to the last crop mark.  `photo` and `start` are
the fields of the canvas, `cells` the array in the arena, `i` the round of the loop that
`phase` is in: a round of `img_layout_grid` (`PlaceCell`, or `SkipCell` for its
`continue`), of `img_draw_borders`, `img_apply_bleed` or `img_draw_crop_marks`, in the
order of `api.c:224-256`.  `Around` is a cell with its bleed, cut at the page, and `Ink` what
the cell shows at a pixel once its border is drawn.  `written` is a history: the cells that were recorded.  The
arena does not clear memory, so the cells start as any member of `Garbage`.  Colours are
told apart by where they come from (background, pixel of the photo, border, mark),
though the code paints borders and marks in the same black.  A scaled size is the exact
quotient or one more or less, as the product of two rounded floats may be on either side
of an integer, but not above the limit the scale came from: a product that rounds up
past an integer limit is cut back to it.  Both modes hand the blit a photo of exactly the
size of the cell, so the resampling itself is not modelled.  A job's lengths are at most
16384 pixels (a page of A4 at 1400 dpi) with at least one row and column; the products
then stay below 2^31, and integers stand for `uint32_t` and `int32_t`.  Running out of
slab or arena is `PrintJob`'s part.

**Logger.** `lhead`, `ltail`, `lseq`, `lmsg` are `g_ring`, `wpc` and `wpos` a writer inside
`log_ring_push`, `thread` the next step of `logger_loop`.  Only that thread moves `head`, so
its load, check and compare-and-swap are one step (`PopTake`, which like the code does not
tell `diff > 0` from `diff = 0`); copy, release and print are steps of their own.
`img_logger_init` reports neither a failed `malloc` (`life = "noring"`) nor a failed
`pthread_create`; what then touches cells that are not there is `"wild"` or `"undefined"`.

**Binlog, Metrics.** An entry is stored in two halves, the header and the arguments; a
thread that never called `img_binlog_set_cpu` writes to slot 0, as in the code.  The
engine never reads the ring, so `head` is 0.  `Decode` is what `tools/binlog_decode.c`
makes of an entry.  A report to the metrics is one atomic add for each total and separate
read and write steps for each extreme; the exporter reads core by core.  `mixed` and
`crowded` are histories of slots and cores where two threads overlapped.

**CommandLine, SaasJob.** An argv is a function from the options given to their values;
`BuildJob` takes a zero for an option that was not given, as `img_build_job` does.  `api[j]`
is how far `generate()` is, `row[j]` the database row, `broker` the messages in Redis,
`wpc[w]` the place in `process_image`.  A `PATCH` is stored, or answered with a 5xx (which
`requests` does not raise for), or breaks: the worker gets an exception and the update is
in `late`, to be applied at any later time or never.  The engine opens its output with "wb":
a run that fails, or is killed, leaves the sheet of an earlier run or none (`Torn`).  Any process may die between two
steps; Celery acknowledges early, so the task dies with its worker (external).

**Engine, Dispatch.** `host` is the thread that starts and stops the engine; `worker` and
`thread` the entries of `g_workers` and the threads created for them, with the processor
each inherited; `table` and `batch` the two dispatch tables, whose entries say which
instructions a kernel needs and who registered it.  `wild` names the first undefined step
(null decoder, queue without cells, table read outside its 256 entries, cast of a
compiled pipeline, join of a thread that was never created); nothing is said after it.  As
`img_api.h` asks, the engine is started once and not stopped while calls run.

**FusedPipeline.** `fp` is `g_fused_params`; a thread fuses op by op and runs byte by byte,
reading the block at every byte as the kernels do.  `batch` kernels go over `w * h` bytes,
the row kernels over rows with a stride, in vectors of `Lanes` bytes and a scalar tail
when the build has AVX2.  A resize without parameters leaves the dimensions of the block as
they are.  The context of a thread keeps `fused_params` from its last run.

**Arena.** Sizes are `size_t` modulo `Word`; `Line` is the 64 of `align64`.  `given` is a
history of the blocks handed out since the last reset.

**Remote.** An image is two chunks, each with the client whose bytes it has; a `recv` gets
one or both.  The server's buffer comes uncleared from `malloc`: when its `recv` of the body
is short (`cut`), the second chunk is whatever was there, other memory or what a buffer
freed after an earlier request left (`heap`).  A short `recv` of the client (`early`) leaves
the second chunk of its own image.  A server that is asked for
an operation it lacks calls a null kernel and is dead.  A server that closes with unread
bytes may reset the connection.  Headers arrive whole and sends complete.

**IoRing.** `flight` are submissions, `cq` completions not yet seen; a call waits for the
first completion, whosever it is, and an error leaves it in place.

**Observability, Processing.** Their parts share no variable and do not call each other,
so `focus`, chosen at the start, picks the part whose steps are explored; an interleaving
of two parts has, projected to each, a behaviour of that part.  Parts out of focus keep
their initial state.

## 3. What TLC checks

| Run | Instance | Shows |
|---|---|---|
| `mpmc` | 3 threads, 2 values, 2 cells, 4 tickets a side | `CellExclusive`; `ImplementsFifo` |
| `mpmc_live` | 3 threads, 1 value, 2 cells, 3 tickets a side, fair | `CallsReturn`: no push or pop retries for ever |
| `spsc` | 1 producer, 1 consumer, 4 slots, 3 values | `SlotExclusive`; `RingInv`; `ImplementsFifo` |
| `sched` | 2 workers, 1 submitter, 3 tasks, ring of 2, global queue of 1, fair | `Conserved`, `SkipOnlyEarly`, `FreedAfterExit`, `StatusFinal`, `NullRingOnlyAtStartup`, `AcceptedAnswered`, `DestroyEnds` |
| `sched_thief` | 2 workers, 2 tasks | **violated**: `NoUseAfterStatus` |
| `job` | 1 caller, pools of 0 to 4 blocks, fair | `HoldsWhatItNeeds`, `PoolSound`, `CallsReturn` |
| `job_two` | 2 callers of `img_api_run_job`, 3 blocks | **violated**: `Exclusive` |
| `layout` | page of 11 by 8 pixels, 432 jobs | `EveryCellWritten`, `GridInMargins`, `BleedIsClamp`, `PhotosIntact`, `SheetAsPlanned` |
| `logger` | 2 writers of 2 messages on a ring of 2; 2 threads on 2 slots of 1 and 4 entries; 2 reporters on 2 cores and an exporter; fair | `PrintedInOrder`, `DropOnlyFull`, `ThreadInRing`, `TicketPrinted`; `EntriesKept`; `MetricsExact` |
| `saas` | 2 jobs, 2 workers, 1 retry, 2 faults, fair | `StatusEarned`, `SingleFlight`, `FinalKept`, `JobEnds` |
| `engine` | 0, 1, 3 and 65 workers on 2 processors of every kind, up to 2 full starts, 1 caller with 6 pipelines; 2 threads with 6 pipelines on 2 images; an arena of 8 or 16 units in a `size_t` of 16; 2 clients of one server; 4 files; fair | `WorkersApart`, `PoolOutlivesThreads`, `KernelsFit`, `ShutdownEnds`; `FusedRight`; `ArenaSound`; `RemoteTrue`; `OwnCompletion` |
| `engine_io` | 1 worker, no `img_engine_init` | **violated**: `DecodeWired` |

Each property is explained, with the lines it is about, in the comment above it.

### Findings

* `sched_thief`: a worker that steals pops a single-consumer ring while its owner pops
  it too.  Both load the same `head`, both get the task, and one executes on the buffer
  after the other has written `status`, which `task.h:47` gives the caller as the sign
  to take the buffer back.
* `job_two`: `img_api.h:53` calls `img_api_run_job` thread-safe; two calls on one engine
  share a slab pool without a lock and can be given the same block.
* `engine_io`: `io_register.c:32` says that `img_api_init` registers the codecs.  It does
  not, and `img_engine_init`, which does, has no caller: a call on an engine started with
  `img_api_init` alone, as `main.c:41` does, decodes through a null pointer.

### Further observations

These came out of reading and of the same models, and are not runs of their own.

*Queues and scheduler.*  Worker 0's thread runs before `img_scheduler_init` has created the
ring of worker 1 and may pop a null queue, against `worker.h:35`; `NullRingOnlyAtStartup`
shows that this is the only time.  A one-cell MPMC queue breaks the seq protocol (the
theorems assume two cells, the code has 1024).  With two submitters `Conserved` fails:
every caller of `img_scheduler_submit` is a producer of a single-producer ring.

*Print job.*  A failed JPEG encode leaves `img_api_process_raw` as -1, no code of
`img_result_t`.  A job that does not fit its page leaves cells out that the later passes
read: the geometry properties are stated for jobs that leave each photo a pixel.
`crop_marks.c:78` says that marks never overlap the photo content; with a gap narrower than
offset plus thickness they are drawn on the next photo (`PhotosIntact` says when they are
not).  `api.c:224` and `img_api.h:45` put the border after bleed and marks; `api.c:226` draws
it first, so that the bleed repeats the black border and the border grows outwards by the
bleed; `SheetAsPlanned` states the sheet that the calls make.

*Engine.*  Nobody pops the queue that `img_submit_task` fills, and `img_api_shutdown` drains
nothing although `img_api.h:36` says so.  The host stays pinned to the last worker's
processor, and workers past the last processor share it.  NEON gets AVX2 kernels
registered.  The grayscale plug-in, loaded last, replaces the AVX2 kernel.  Opcodes 256 to
0xFFF pass validation and read outside the table (in the model `wild` is then "table").  A
refused pipeline returns with the decoded block in `out_buf`.  A compiled pipeline is cast
to a runtime pipeline of another layout (`api.c:424`).  `img_api_init` enters the sandbox
first, `sandbox.c:23` wants it last.

*Fused pipelines.*  `fused_kernels.inc:19` says that the kernels agree with
`fused_exec_avx2`.  They do where `FusedRight` says: rows without padding, brightness below
half the 16-bit range, no resize, gray before brightness.  Elsewhere they differ: the
batch kernels ignore the stride, the vector sum of 32768 and more becomes 0, resize only
changes the dimensions, {bright, resize} and {resize} leave it out.  A second thread that
fuses changes what the first one runs; the comment at `pipeline_fuse.c:30` tells callers to
use a descriptor each, which does not help, since the block is shared.

*Observability.*  Messages in the ring at shutdown are lost, a writer after it uses freed
cells, and a failed start of the logger is reported to nobody.  Threads without a slot
share slot 0 of the binary log and tear entries; the decoder has no case for batch events.
An average in an export may exceed its maximum, as counters are read while reports go on.

*Remote execution and file I/O.*  With the kernels of this repository the operations
routed to the server are those no table has a kernel for, so that the first request ends
the server, and the client returns 0 with the image as it was.  With a server that has such a
kernel and a short `recv` of the body, the rest of the image that comes back may be another
client's: the buffer of `rpc_server.c:40` is not cleared, `:60` sends all of it, and an earlier
request's was freed at `:62`.  `RemoteTrue` says that it takes this short `recv`.  A refused connection leaks
its socket.  After one failed transfer every later call sees that completion, returns -1
and frees a buffer its own transfer may still write to; short transfers count as whole.

*Job service.*  Retries that run out leave a job "retrying"; a killed worker, or a final
update answered with a 5xx, leaves it "processing"; a crash between commit and send leaves
it "queued".  A late update overwrites a final status: a row may say "completed" while a
later run of the engine, begun because the answer was lost, has failed and truncated the
sheet (`api.c:274`).  A bleed of 0, the service's default,
is printed as 10.

### Bounds, and why they are enough

* `MaxTickets` cuts behaviours in `mpmc*`: positions grow for ever otherwise.  With two
  cells, four tickets are two laps, so that a cell is pushed, popped, pushed and popped
  again while a thread holds readings of the lap before; `TicketSafety` and `NoDataRace`
  cover all laps.  Three threads: one that is stale, one that overtakes it, and one on the
  other side.
* `spsc` wraps without bound; four slots make empty, partly full, wrapped and full
  different.  Three values make a swap of two items visible in the refinement.
* `sched`: a ring of two slots holds one item, the global queue one; with three tasks
  ring, global queue and refusal are all reached.  The addresses are multiples of 64, so
  that all tasks go to worker 0 and worker 1 can only steal.
* `job`: a job takes at most four blocks; pools of 0 to 4 make each allocation fail in
  turn, and succeed for ever.
* `layout`: grids of one, two by two and three by one photos of 3 by 2 and 7 by 4 pixels
  on a page of 11 by 8.  Some fit as they are, some only scaled down (to a single pixel
  too), some not at all; gaps are smaller and larger than bleed and marks, and bleed and
  marks are cut at every side of the page.
* `logger`: four messages (`MaxWrites` 2) on two cells: the ring fills, wraps and drops.
  `MaxEvents` 2 fills a ring of one usable entry, `MaxReports` 1 on two cores lets two
  reports and an export overlap.
* `saas`: `MaxRetries` 1 has a first, a last and an exhausted attempt; `MaxFaults` 2 lets one
  fault hit the job and another its retry, or a late update a later attempt.
* `engine`: three workers on two processors are one more than there are processors, 0 and 65
  are refused.  `MaxStarts` 2: a table is refilled after plug-ins replaced its entries.
  `MaxCalls` 1, `TaskSlots` 1.  `Lanes` 2 with a row of three bytes has a vector and a
  tail; `MaxFuses` 1 for each of two threads, `MaxRuns` 2 in all.  `MaxBlocks` 3, with every
  request of the small `size_t`, wrapping ones included.  `MaxSends` 2: a client comes back
  after the server died.  `MaxOps` 4: two calls after a failed one.

Symmetry (of threads and of values) is used in `mpmc` only, which checks no liveness, and
whose specification neither orders nor names a thread or a value.

### Fairness

Weak fairness of each thread's steps inside a call, of each worker's and the logger's loop
and of the main thread inside start and shutdown: threads are preempted, not stopped,
workers spin and never block, and nothing in these calls waits on a lock (a `pthread_join`
waits for a thread that itself is scheduled).  For the service: a request in progress and a
worker with a message go on; faults are never forced.  Nobody is assumed to *make* a call,
to hand out contexts, or to stop the engine.  `AcceptedAnswered` is stated while the pool is
up: the code leaves tasks that are still queued at `img_scheduler_destroy` unanswered.
Deadlock checking is off where the system may stop: a destroyed pool, a drawn page, a
process that ended, counters at their bounds.

## 4. What is proved

All theorems hold for any sets of threads, values, callers, workers, jobs and blocks.  The
modules that are only composed with others (`Logger`, `Binlog`, `Metrics`, `Engine`, `Arena`,
`Remote`, `IoRing`, `FusedPipeline`) have a specification of their own, of which the theorems speak; they share no
variable with the rest of the composition.

* **`TicketRingProofs`**, the queue (assumes `N >= 2`): `TypeCorrect`, `TicketSafety`
  (`Spec => []TicketInv`), `NoDataRace` (`Spec => []CellExclusive`).  `CellExclusive` is
  not inductive: that nobody else is on a cell follows only from what its `seq` says
  about every ticket.  `TicketInv` therefore says, for every ticket between `head` and
  `tail + N` and every cell, which `seq` it shows and who may be working on it, that a
  thread's readings are of the present or of the past (and that a stale reading makes
  its compare-and-swap fail), and that `tail - head` stays within `N`.  `RingArith` has
  the facts about `%`: two tickets on one cell that are less than `N` apart are equal.
  `MpmcRefinement` (`Spec => ImplementsFifo`) maps the ring to the items of the tickets
  from `head` to `tail - 1`.  An item is with the push that has the ticket until it is
  stored and in the ticket's cell from then on (`TicketValues`), so the compare-and-swaps
  are the enqueue and the dequeue, the store and the publication change nothing of the
  FIFO, and a call that gives up does so in a state where the FIFO may refuse: full, or
  with a pop that has taken its item and not yet released the cell (empty, or with an
  unfinished push, for pop).
* **`TicketRingProofs`**, the logger (assumes a ring of at least two cells; the code has
  1024): `PrintedInOrderHolds`, `ThreadInRingHolds`, `DropOnlyFullHolds`.  What is printed is
  a prefix of the tickets only because the cell the thread takes next shows the ticket that
  is next; so `LogInv` says of every ticket in the ring whether its cell is still its
  writer's or holds its message (`TicketCells`), of every writer which ticket it holds and
  that a free cell it has seen may since be gone, but then its compare-and-swap fails
  (`WriterInv`), and of the thread how much of the message in its hands is printed
  (`Output`).  `LoopAlive` ties the ring's life to the thread's: shutdown frees it after
  the join.
* **`SingleWriterProofs`**, the queue (assumes one producer and one consumer): `SpscTypeCorrect`,
  `RingSafety`, `NoSlotRace`, and `SpscRefinement` (`Spec => ImplementsFifo`).  The
  invariant says that the consumer's check "not empty" and the producer's check "not
  full" remain true while the other side moves, and that a slot between `head` and
  `tail` is never null.  The refinement maps the ring to the sequence of its occupied
  slots; `PushTail` is the enqueue, `PopHead` the dequeue, and an early failure is a call
  that had no effect.
* **`SingleWriterProofs`**, the binary log (any threads, slots and ring sizes; assumes only that
  `1 << power` is positive): `EntriesKeptHolds`.  `BinInv` says of a slot that never had two
  writers at once that all its finished entries are those it accepted, and of the one
  thread in it how much of the entry at its local tail is stored (`InHand`).  That no write
  goes astray holds of shared slots too, and needs the shape of the ring: the local tail is
  below the mask, and the mask of a slot without entries is 0.
* **`SingleWriterProofs`**, the metrics (any threads, cores and reports): `MetricsExactHolds`.
  The totals are exact because each report is told once (`ToldOnce`) and the sum over a
  finite set grows by the member added.  The extremes need that a comparison still holds
  when its store is made (`Compared`), true on cores never `crowded`.  That an export never
  shows fewer requests than the one before is a fact about all its partial sums: those of
  the last export are still bounded by what the cores have counted, core by core, and the
  export under way has passed them (`ExportSums`); for the maxima, the last one is in hand
  or on a core still to be read (`MaxAhead`).
* **`SchedulerProofs`** (rings of at least two slots; a worker does not submit): `PoolTypes`,
  `FreedAfterExitHolds`, `SkipOnlyEarlyHolds`, `NullRingHolds`, and for one thread that
  submits (`OneSubmitter`) `ConservedHolds` and `StatusFinalHolds`.  `PoolInv` has the
  progress of start and stop (which workers exist, are stopped, are joined) and that a task
  nobody has submitted is nowhere.  The books (`Books`) say in which one place each task
  is; they need that a producer's reading "not full" and a consumer's "not empty" stay true,
  which is where one submitter is needed and where stealing breaks it: as in the property,
  nothing is claimed once two workers were inside one ring at once (`overlap`).
* **`PrintJobProofs`** (no assumption on the number of callers): `JobTypeCorrect`,
  `JobSafety`, `BuffersLive`.  `HoldsWhatItNeeds` needs to know that a
  release never gives back what the next stage keeps, that FILL and FIT keep to their
  own stages, and that only a job gets past the decoder; `JobInv` adds exactly these.
  These speak of the job's own bookkeeping; they hold even when two callers corrupt the
  pool's list, which is why `Exclusive` is not among them.
* **`PrintJobProofs`**, the pool: `PoolSoundInTurn` (`Spec /\ []OneAtATime => []PoolSound`),
  for callers whose calls of `slab.c` follow one another, and `PoolSoundAlone`, for one
  caller.  `slab.c` has no lock and does not provide `OneAtATime`; run `job_two` shows what
  happens without it.  `PoolSound` follows the links from `free_list`; `PoolInv` says
  instead that some order of distinct blocks *is* the list, that every other block is the
  host's, a caller's or on its way back (`Places`), and what a call in progress has read
  (`InCall`).  That the walk visits exactly that order is `WalkFollows`.
* **`LayoutProofs`** (assumes only the bound on the fields): `LayoutTypeCorrect`,
  `GridSafety`, `NoCellLeftOut`, `MarginsKept`, `PhotosSafe`, `BleedClamped`, `SheetPlanned`.  `EveryCellWritten` and the
  margins are not inductive by themselves: they rest on the size and origin that
  `img_canvas_init` chose, and on the cells being written in the order of the loop.
  `GridInv` keeps exactly that.  The rest is arithmetic with products: `cols` shares of
  `avail / cols` fit into `avail`, column `k` ends before column `k + 1` begins, and a
  cell's number gives its row and column back.  `PhotosIntact` speaks of the end of a
  job; `PhotosSoFar` says the same of the photos and borders drawn up to any moment, and
  each pass keeps it because cells in line are at least a gap apart, a border stays in its
  cell, and bleed and marks stay out of their own.  `BleedIsClamp` is a fact about one step:
  the rows are copied first and the columns after them, over the rows already bled, so that
  the corners come out as the nearest pixel, when the cell is on the page (`PlacedOnPage`).
  `SheetAsPlanned` speaks of the whole finished page; `SheetSoFar` says of any moment which
  cells already have their bleed and their marks and what every pixel shows then.  Each step
  keeps it because the bleeds of two cells do not meet when the gap is twice the bleed
  (`BleedsApart`) and marks are only ever drawn over bleed and background.
* **`ProcessingProofs`**, the arena (assumes that a line divides the range of `size_t` and
  that alignments are at most a line): `ArenaSafe` (`ArenaSpec => []ArenaSound`).  That a
  plain block starts on a line is not inductive: it rests on where the offset stands, so
  `ArenaInv` adds that the offset is on a line unless an aligned block of an odd size came
  before.  A request near `SIZE_MAX` may wrap; the invariant then says nothing more until
  the next reset, and the types still hold.
* **`ProcessingProofs`**, the engine (processor numbers and worker counts are naturals):
  `WorkersApartHolds`, `PoolOutlivesThreadsHolds`, `KernelsFitHolds`.  The pool is destroyed last, but that no thread is
  left by then depends on how far each loop of start and shutdown has come and on which
  workers were never created: `Lifecycle` has these.  `KernelsFit` needs that the tables hold
  kernels at all, whichever registry filled them (`TablesFit`).
* **`ProcessingProofs`**, remote execution and I/O: `RemoteTrueHolds`, `OwnCompletionHolds`.
  `RemoteInv` follows a request: who waits, whom the one server works for and what bytes it
  has (`InFlight`, `Serves`); the first chunk is always the waiting client's own, and the
  second too unless the server's `recv` was short.  `IoInv` has what the ring may hold: one transfer, that of the
  call in progress, until a transfer fails; after that the failed completion stays at the
  head until the ring goes, so that every call before that ends with -1 (`ErrorFirst`).
* **`ProcessingProofs`**, fused pipelines (ops carry no or a natural brightness; an image has
  `h` rows of at least one pixel, `stride` apart, of bytes): `FusedRightHolds`, for every
  pipeline, image and number of lanes.  `FusedRight` compares a finished image with a fold
  over the ops.  For a fusable pipeline both that fold and the one `img_pipeline_fuse`
  makes have a closed form, `ByteOf` and `ParamsOf` (`FoldByte`, `FoldParams`).  `FusedInv`
  follows a thread: `g_fused_params` is `ParamsOf` the ops fused so far as long as nobody
  else fuses (`FusingInv`), and in a run that the property speaks of (`Promised`) the image
  is the given one with the first `x` pixels done (`UpTo`).  That the row kernels meet
  every pixel once, in order, and no padding is `RowOrder`; that vector and scalar loop
  agree below half the 16-bit range is `VectorAgrees`.
* **`ProcessingProofs`**, the whole: `PartsApart`, that a behaviour of `Processing` is one of
  `Engine`, `FusedPipeline`, `Arena`, `Remote` and `IoRing` each.
* **`SaasJobProofs`** (assumes that no job is the mark of an idle worker): `SaasTypes`,
  `StatusEarnedHolds`, `SingleFlightHolds`, `FinalKeptHolds`.  None is inductive alone: a
  status in the row was a worker's or a delayed update before, so `SaasInv` says of those
  too that the engine earned them (`Earned`), and of the sheet that only a run after a broken
  call (`Rerun`) can take it back; a job is in one place (`OnePlace`) only
  because a job whose request has not got that far has no task yet (`NotSent`) and one that
  ended has none any more (`EndedIsOver`); `Attempts` counts the runs against the retries.

The prover cannot use the library's induction theorems, which take an operator as a
parameter.  Where a proof is about a walk, a sum or a fold for every input, it takes a
smallest counterexample instead (`SmallestNumber`, `SmallestMember` in `RingArith`, from
the well-foundedness of `<` and of strict inclusion on a finite set) and shows that there is
a smaller one.

Only model-checked is liveness, which is outside this prover's reach: `CallsReturn` of the
MPMC queue and of the print job, `AcceptedAnswered`, `DestroyEnds`, `TicketPrinted`,
`JobEnds`, `ShutdownEnds`.  Every other property of a passing run is stated by a theorem.

The inductive invariants of the proofs (`TicketInv`, `JobInv`, `GridInv`, `ArenaInv` and the
others named above) and the type invariants are proved and not part of a run.

## 5. Plan

The components of the inventory that have state and control are modelled, and the safety
properties of the passing runs are proved.  What could follow:

1. `Layout` with job fields of their real 32-bit width, so that the products of
   `layout.c:261` can wrap.
2. `Conserved` and `StatusFinal` for several submitters, with the pool's rings replaced by
   what they promise to two producers, which is less than a FIFO.
3. The streaming decoder and VFS, once the API reaches them.

## 6. Not modelled, and why

Image codecs (wrappers of libjpeg-turbo and stb; what a job sees of them is in
`PrintJob`), the resize and colour kernels (arithmetic on pixels, no control), the sandbox
(one-time system-call set-up), VFS and streams (thin I/O, not reached from the API),
language bindings (glue), the benchmark, `cluster_registry.c` (a table nobody reads),
`img_pipeline.c` and `pipeline/engine.c` (they read pointers nobody initialises, and have
no caller), the web pages and read-only routes of the service.  The numeric limits of
`img_security_validate_request` and 32-bit overflow of job fields are outside `Layout`'s
assumption on its jobs.
