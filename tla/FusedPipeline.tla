--------------------------- MODULE FusedPipeline ---------------------------
(***************************************************************************)
(* Fused pipelines: img_pipeline_fuse and the ways to run its result       *)
(* (pipeline/pipeline_fuse.c, fused_dispatch.c, fused_kernels.inc,         *)
(* batch_exec.c, hot/pipeline_exec.c).                                     *)
(*                                                                         *)
(* The parameters of the last img_pipeline_fuse of ANY thread live in one  *)
(* static block, g_fused_params.  Each Thread fuses a pipeline into its    *)
(* own img_pipeline_fused_t and runs it on its own image; the kernels read *)
(* the block again for every byte they write.                              *)
(***************************************************************************)
EXTENDS Integers, SequencesExt, FiniteSetsExt

CONSTANTS
  Threads,      \* the threads that fuse and run
  Pipes,        \* pipelines: sequences of [op, val]; val is the brightness, the width
                \* and height of a resize, or -1 for params NULL
  Images,       \* images: [w, h, stride, bytes], one channel
  Lanes,        \* bytes of a vector (32)
  MaxFuses,     \* bound: pipelines one thread fuses
  MaxRuns       \* bound: runs of fused pipelines, by all threads together

VARIABLES
  avx2,   \* the build has AVX2
  fp,     \* g_fused_params
  job     \* per thread: see NewJob

fusedVars == <<avx2, fp, job>>

NULL == -1

\* The parameters of an op are unsigned (fused_params.h:33).
ASSUME PipesAssumption == Pipes \subseteq Seq([op : STRING, val : {NULL} \cup Nat])

\* A buffer has h rows, stride apart, each beginning with w pixels.
ASSUME ImagesAssumption ==
  \A m \in Images :
    /\ m.w \in Nat \ {0} /\ m.h \in Nat /\ m.stride \in Nat /\ m.w <= m.stride
    /\ m.bytes \in Seq(0 .. 255) /\ Len(m.bytes) = m.stride * m.h

Fusables == {"gray", "bright", "resize"}
NoParams == [gray |-> FALSE, bright |-> FALSE, resize |-> FALSE, val |-> 0,
             w |-> 0, h |-> 0]

\* A thread: its pipeline, the next op to fuse, the signature so far, what its
\* img_ctx_t holds in fused_params, and the image with its size.  `route` is
\* the code that is running over it, x the byte it is at, `clean` remembers
\* that no other thread has fused since this one began to.
NewJob == [at |-> "idle", pipe |-> <<>>, i |-> 0, sig |-> {}, ctx |-> "null",
           img |-> CHOOSE m \in Images : TRUE, w |-> 0, h |-> 0, bytes |-> <<>>,
           route |-> "none", x |-> 0, runs |-> 0, fuses |-> 0, clean |-> FALSE]

FusedInitial ==
  /\ avx2 \in BOOLEAN
  /\ fp = NoParams
  /\ job = [t \in Threads |-> NewJob]

-----------------------------------------------------------------------------
(* img_pipeline_fuse                                                       *)

\* What an op does to the parameters.
Fused(p, o) ==
  CASE o.op = "gray"   -> [p EXCEPT !.gray = TRUE]
    [] o.op = "bright" -> [p EXCEPT !.bright = TRUE,
                                    !.val = IF o.val = NULL THEN @ ELSE o.val]
    [] o.op = "resize" -> [p EXCEPT !.resize = TRUE,
                                    !.w = IF o.val = NULL THEN @ ELSE o.val,
                                    !.h = IF o.val = NULL THEN @ ELSE o.val]
    [] OTHER -> p

Disturbed(t, f) == [u \in Threads |-> IF u = t THEN f[u] ELSE [f[u] EXCEPT !.clean = FALSE]]

\* The job a thread starts when it fuses this pipeline for this image.
Fusing(t, pipe, img) ==
  [job[t] EXCEPT !.at = "fuse", !.pipe = pipe, !.i = 1, !.sig = {},
                 !.img = img, !.w = img.w, !.h = img.h, !.bytes = img.bytes,
                 !.route = "none", !.runs = 0, !.fuses = @ + 1, !.clean = TRUE]

CanFuse(t) == job[t].at \in {"idle", "fused"} /\ job[t].fuses < MaxFuses

\* Mutation: the block is not cleared.
FuseClearKept(t, pipe, img) ==
  /\ CanFuse(t)
  /\ job' = Disturbed(t, [job EXCEPT ![t] = Fusing(t, pipe, img)])
  /\ UNCHANGED <<avx2, fp>>

FuseClear(t, pipe, img) ==
  /\ CanFuse(t)
  /\ fp' = NoParams
  /\ job' = Disturbed(t, [job EXCEPT ![t] = Fusing(t, pipe, img)])
  /\ UNCHANGED avx2

FuseOp(t) ==
  /\ job[t].at = "fuse" /\ job[t].i <= Len(job[t].pipe)
  /\ LET o == job[t].pipe[job[t].i] IN
     /\ fp' = Fused(fp, o)
     /\ job' = Disturbed(t, [job EXCEPT ![t].i = @ + 1,
                                        ![t].sig = @ \cup ({o.op} \cap Fusables)])
  /\ UNCHANGED avx2

FuseDone(t) ==
  /\ job[t].at = "fuse" /\ job[t].i > Len(job[t].pipe)
  /\ job' = [job EXCEPT ![t].at = "fused"]
  /\ UNCHANGED <<avx2, fp>>

\* img_get_fused_kernel: the ops the kernel of this signature applies, or
\* "null" for a signature whose entry is NULL.
FusedKernel(sig) ==
  CASE sig = {"resize"} -> {"null"}
    [] sig = {"bright", "resize"} -> {"bright"}
    [] OTHER -> sig

-----------------------------------------------------------------------------
(* Running it.                                                             *)

CanRun(t) == /\ job[t].at = "fused"
             /\ MapThenSumSet(LAMBDA u : job[u].runs, Threads) < MaxRuns
Runs(t, route, ctx) ==
  job' = [job EXCEPT ![t].at = "run", ![t].route = route, ![t].ctx = ctx,
                     ![t].x = 0, ![t].runs = @ + 1]
RouteOf(t) == IF FusedKernel(job[t].sig) = {"null"} THEN "rows" ELSE "batch"

\* img_pipeline_execute_fused_batch: the context gets the static block.
RunFusedBatch(t) ==
  /\ CanRun(t) /\ Runs(t, RouteOf(t), "static")
  /\ UNCHANGED <<avx2, fp>>

\* img_batch_execute_fused takes what the context holds: a batch kernel
\* returns at once without parameters, the other path follows the null.
RunBatch(t) ==
  /\ CanRun(t)
  /\ IF job[t].ctx # "null" THEN Runs(t, RouteOf(t), job[t].ctx)
     ELSE job' = [job EXCEPT ![t].at = IF RouteOf(t) = "rows" THEN "wild" ELSE "fused",
                             ![t].route = "nothing", ![t].runs = @ + 1]
  /\ UNCHANGED <<avx2, fp>>

\* img_pipeline_execute_fused, with parameters of the caller's own.
RunSingle(t) ==
  /\ CanRun(t) /\ Runs(t, "rows", "own")
  /\ UNCHANGED <<avx2, fp>>

Params(t) == IF job[t].ctx = "static" THEN fp
             ELSE FoldLeft(Fused, NoParams, job[t].pipe)

Gray(px) == (px * 77) \div 256
Bright(px, v) == IF px + v > 255 THEN 255 ELSE px + v
\* adds_epu16 saturates at 65535; packus_epi16 takes 32768 and up as negative.
VectorBright(px, v) == IF px + v >= 32768 THEN 0 ELSE Bright(px, v)

\* The byte of the image the kernel is at, and what it writes there.  A batch
\* kernel runs over w * h bytes from the start; its ops are compiled in.
BatchByte(t) == job[t].x + 1
BatchValue(t, px) ==
  LET k == FusedKernel(job[t].sig)
      g == IF "gray" \in k THEN Gray(px) ELSE px
  IN  IF "bright" \in k THEN Bright(g, Params(t).val) ELSE g

\* fused_exec_avx2 and fused_exec_scalar go row by row and ask the parameters.
RowByte(t) ==
  (job[t].x \div job[t].w) * job[t].img.stride + (job[t].x % job[t].w) + 1
InVector(t) == avx2 /\ (job[t].x % job[t].w) < (job[t].w \div Lanes) * Lanes
RowValue(t, px) ==
  LET p == Params(t)
      g == IF p.gray THEN Gray(px) ELSE px
  IN  IF ~p.bright THEN g
      ELSE IF InVector(t) THEN VectorBright(g, p.val) ELSE Bright(g, p.val)

KernelByte(t) ==
  /\ job[t].at = "run" /\ job[t].x < job[t].w * job[t].h
  /\ LET batch == job[t].route = "batch"
         k  == IF batch THEN BatchByte(t) ELSE RowByte(t)
         px == job[t].bytes[k]
     IN  job' = [job EXCEPT ![t].bytes[k] = IF batch THEN BatchValue(t, px) ELSE RowValue(t, px),
                            ![t].x = @ + 1]
  /\ UNCHANGED <<avx2, fp>>

\* A batch kernel with resize relabels the image; no pixel moves.
KernelDone(t) ==
  /\ job[t].at = "run" /\ job[t].x = job[t].w * job[t].h
  /\ LET resized == job[t].route = "batch" /\ "resize" \in FusedKernel(job[t].sig) IN
     job' = [job EXCEPT ![t].at = "fused",
                        ![t].w = IF resized THEN Params(t).w ELSE @,
                        ![t].h = IF resized THEN Params(t).h ELSE @]
  /\ UNCHANGED <<avx2, fp>>

FusedNext ==
  \E t \in Threads :
     \/ \E pipe \in Pipes, img \in Images : FuseClear(t, pipe, img)
     \/ FuseOp(t) \/ FuseDone(t)
     \/ RunFusedBatch(t) \/ RunBatch(t) \/ RunSingle(t)
     \/ KernelByte(t) \/ KernelDone(t)

FusedSpec == FusedInitial /\ [][FusedNext]_fusedVars

-----------------------------------------------------------------------------
(* Properties.                                                             *)

\* The pipeline applied to a byte one op at a time, in its order.
Apply(px, o) == CASE o.op = "gray" -> Gray(px)
                  [] o.op = "bright" -> Bright(px, IF o.val = NULL THEN 0 ELSE o.val)
                  [] OTHER -> px

\* The whole image, pixels only: the bytes between rows are left alone.
Sequential(pipe, img) ==
  [k \in 1 .. Len(img.bytes) |->
     IF (k - 1) % img.stride < img.w THEN FoldLeft(Apply, img.bytes[k], pipe)
     ELSE img.bytes[k]]

\* The pipelines fusion is meant for: no resize, each op once, gray first.
Fusable(pipe) ==
  /\ \A i \in 1 .. Len(pipe) : pipe[i].op # "resize"
  /\ \A i, j \in 1 .. Len(pipe) :
       i < j /\ {pipe[i].op, pipe[j].op} \subseteq {"gray", "bright"}
         => pipe[i].op = "gray" /\ pipe[j].op = "bright"

\* The images each way of running is meant for: batch kernels want rows
\* without padding, the vector loop brightness below half the range.
Suits(t) ==
  IF job[t].route = "batch" THEN job[t].img.stride = job[t].img.w
  ELSE \A i \in 1 .. Len(job[t].pipe) : job[t].pipe[i].val < 32768 - 255

(***************************************************************************)
(* Fusion is the composition of its ops (pipeline_fuse.c:37-207,           *)
(* fused_kernels.inc:21): a thread that fuses a fusable pipeline and runs  *)
(* it once on an image that suits the route, while no other thread fuses,  *)
(* gets the image that its ops applied one after the other give, whatever  *)
(* was fused or run before, by which route, with or without AVX2.          *)
(***************************************************************************)
FusedRight ==
  \A t \in Threads :
    /\ job[t].at = "fused" /\ job[t].runs = 1 /\ job[t].route \in {"batch", "rows"}
    /\ job[t].clean \/ job[t].ctx = "own"
    /\ Fusable(job[t].pipe) /\ Suits(t)
    => job[t].bytes = Sequential(job[t].pipe, job[t].img)

=============================================================================
