------------------------------ MODULE Dispatch ------------------------------
(***************************************************************************)
(* The tables that turn an opcode into a kernel, and the two gates before  *)
(* them: pipeline/jump_table.c, hardware_registry.c, fused_registry.c, the *)
(* plugin registries, cold/validation.c and cold/pipeline_compiled.c, as   *)
(* operators on tables.  A table maps the opcodes that anything registers  *)
(* to a kernel; every other entry is NULL.                                 *)
(***************************************************************************)
EXTENDS Integers, Sequences, FiniteSetsExt

OP_RESIZE      == 1
OP_CROP        == 2
OP_GRAYSCALE   == 3
OP_BRIGHTNESS  == 4
OP_RESIZE_H    == 16
OP_RESIZE_V    == 17
IMG_MAX_OPS    == 256
OP_CUSTOM_BASE == 4096
IMG_MAX_PIPELINE_OPS == 32

Opcodes == {OP_RESIZE, OP_CROP, OP_GRAYSCALE, OP_BRIGHTNESS, OP_RESIZE_H,
            OP_RESIZE_V}

\* img_cpu_detect_caps: what an x86-64 processor reports (an ARM build has
\* {"neon"} and is not explored).
CapSets == {{}, {"avx2"}, {"avx2", "avx512"}}

\* A kernel: the instruction set it is written for, and where it came from.
Kernel(isa, from) == [isa |-> isa, from |-> from]
NoKernel == Kernel("none", "null")

EmptyTable == [op \in Opcodes |-> NoKernel]

\* The instruction set a processor with these capabilities gets.
Best(caps) == IF "avx512" \in caps THEN "avx512"
              ELSE IF "avx2" \in caps THEN "avx2" ELSE "scalar"

-----------------------------------------------------------------------------
(* Single-image kernels.                                                   *)

\* img_jump_table_init: both tables cleared, then one resize.
JumpTable(caps) ==
  [EmptyTable EXCEPT ![OP_RESIZE] = Kernel(Best(caps), "table")]

\* Mutation: AVX2 kernels for every processor.
HwKernelsUnchecked(caps, t) ==
  [t EXCEPT ![OP_RESIZE_H]  = Kernel("avx2", "arch"),
            ![OP_RESIZE_V]  = Kernel("avx2", "arch"),
            ![OP_GRAYSCALE] = Kernel("avx2", "arch")]

\* img_hw_register_kernels: AVX-512 and NEON get AVX2 kernels, NEON no gray.
HwKernels(caps, t) ==
  LET isa == IF caps = {} THEN "scalar" ELSE "avx2"
      resizing == [t EXCEPT ![OP_RESIZE_H] = Kernel(isa, "arch"),
                            ![OP_RESIZE_V] = Kernel(isa, "arch")]
  IN  IF caps = {"neon"} THEN resizing
      ELSE [resizing EXCEPT ![OP_GRAYSCALE] = Kernel(isa, "arch")]

\* The descriptors linked into the library: plugin_grayscale.c (plugin_crop.c
\* exports a function and no descriptor; plugin_resize.c is a library of its
\* own, which img_plugin_load_all does not open: it walks the same section).
Plugins == <<[op |-> OP_GRAYSCALE, single |-> Kernel("scalar", "plugin"),
              batch |-> NoKernel, abi |-> 1]>>
IMG_PLUGIN_ABI_VERSION == 1

\* img_register_op: the descriptors that set an entry of one of the tables; none
\* past its end, none to NULL, none of another ABI.
Registering(op, which) ==
  {i \in 1 .. Len(Plugins) :
     /\ Plugins[i].abi = IMG_PLUGIN_ABI_VERSION
     /\ Plugins[i].op = op /\ op < IMG_MAX_OPS
     /\ Plugins[i][which] # NoKernel}

\* img_plugins_init_all, and img_plugin_load_all after it with the same effect: in
\* the order of the section, so that the last one stays.
LoadPlugins(t, which) ==
  [op \in Opcodes |->
     IF Registering(op, which) = {} THEN t[op]
     ELSE Plugins[Max(Registering(op, which))][which]]

(* Batch kernels.                                                          *)

BatchTable(caps) ==
  [EmptyTable EXCEPT ![OP_RESIZE] =
     IF Best(caps) = "avx2" THEN Kernel("avx2", "table") ELSE NoKernel]

\* img_fused_init
FusedInit(caps, t) ==
  IF "avx2" \in caps THEN [t EXCEPT ![OP_RESIZE] = Kernel("avx2", "fused")] ELSE t

\* A kernel this processor can run.
Fits(k, caps) == k.isa \in caps \cup {"scalar", "none"}

-----------------------------------------------------------------------------
(* Pipelines are sequences of opcodes.                                     *)

\* img_validate_pipeline_safety: opcodes up to 0xFFF pass, the table has 256.
Validate(pipe) ==
  /\ Len(pipe) \in 1 .. IMG_MAX_PIPELINE_OPS
  /\ \A i \in 1 .. Len(pipe) : pipe[i] # 0 /\ pipe[i] < OP_CUSTOM_BASE

\* g_jump_table[op] of an opcode inside the table
Lookup(t, op) == IF op \in Opcodes THEN t[op] ELSE NoKernel

\* img_pipeline_compile stops at the first opcode without a kernel.  Up to
\* there it reads the table: an index outside it reads foreign memory.
Missing(pipe, t) == {i \in 1 .. Len(pipe) : Lookup(t, pipe[i]) = NoKernel}

CompileResult(pipe, t) ==
  IF Len(pipe) \notin 1 .. IMG_MAX_PIPELINE_OPS THEN "refused"
  ELSE IF Missing(pipe, t) = {} THEN "ok"
  ELSE IF \E i \in Missing(pipe, t) : /\ pipe[i] >= IMG_MAX_OPS
                                      /\ \A j \in Missing(pipe, t) : i <= j
       THEN "outside" ELSE "refused"

=============================================================================
