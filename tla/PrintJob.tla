------------------------------ MODULE PrintJob ------------------------------
(***************************************************************************)
(* api/api.c: img_api_run_job and img_api_process_raw, with the decoder,   *)
(* canvas and grid layout they call, as users of the slab pool.            *)
(*                                                                         *)
(* A call is a sequence of stages; a stage either goes on, asks the pool   *)
(* for a block, or fails and gives back what the call holds.  What a stage *)
(* computes is abstracted to whether it succeeds; which blocks, mappings   *)
(* and arenas it holds, in which order each path takes and gives them back *)
(* and which code it returns are those of the source.                      *)
(***************************************************************************)
EXTENDS SlabPool, Sequences

\* What a call holds: blocks of the pool, each in a role, the mapping of its input
\* file, and the arena of a job.
Roles == {"photo", "canvas", "tmp", "cell"}
Others == {"input", "arena"}

\* The codes of img_result_t that these calls use.
Named == {"SUCCESS", "NOMEM", "FORMAT", "SECURITY", "IO", "INTERNAL"}

\* What the parts return besides success: load_file_mmap, the security gate,
\* img_decode_to_buffer before its allocation.
LoadErrors   == {"IO"}
GateErrors   == {"SECURITY"}
HeaderErrors == {"NOMEM", "FORMAT", "SECURITY"}

\* The JPEG encoder returns 0 or a plain -1, the PDF writer an img_result_t.
JpegResults == {"SUCCESS", "MINUS_ONE"}
PdfResults  == {"SUCCESS", "NOMEM", "IO"}

VARIABLES
  pc,      \* pc[c]: the stage of c's call
  kind,    \* kind[c]: "job" (run_job) or "raw" (process_raw)
  mode,    \* mode[c]: job->mode, "FILL" or "FIT"
  role,    \* role[c]: what the block being allocated is for
  held,    \* held[c][r]: the block that plays role r
  others,  \* others[c]: which of Others it holds
  todo,    \* todo[c]: what to give back, in order
  dest,    \* dest[c]: the stage after that
  res      \* res[c]: what the last call returned

jobVars == <<pc, kind, mode, role, held, others, todo, dest, res>>
vars == <<slabVars, jobVars>>

Init ==
  /\ SlabInit
  /\ pc     = [c \in Callers |-> "idle"]
  /\ kind   = [c \in Callers |-> "job"]
  /\ mode   = [c \in Callers |-> "FILL"]
  /\ role   = [c \in Callers |-> "photo"]
  /\ held   = [c \in Callers |-> [r \in Roles |-> NULL]]
  /\ todo   = [c \in Callers |-> << >>]
  /\ dest   = [c \in Callers |-> "idle"]
  /\ others = [c \in Callers |-> {}]
  /\ res    = [c \in Callers |-> "SUCCESS"]

-----------------------------------------------------------------------------
At(c, stage) == pc[c] = stage /\ op[c] = "none"

Goto(c, stage) == pc' = [pc EXCEPT ![c] = stage]

\* Ask the pool for a block.
Want(c, r) ==
  /\ Goto(c, "alloc")
  /\ role' = [role EXCEPT ![c] = r]

\* Give back what the list names, in its order, then go to a stage.
GiveBack(c, list, stage) ==
  /\ Goto(c, "free")
  /\ todo' = [todo EXCEPT ![c] = list]
  /\ dest' = [dest EXCEPT ![c] = stage]

\* A way out of the call: the releases it makes, and the code it returns.
Leave(c, list, e) ==
  /\ GiveBack(c, list, "idle")
  /\ res' = [res EXCEPT ![c] = e]

\* What the caller of the decoder releases when it failed: run_job the mapping and the
\* arena, process_raw nothing.
DecodeFailed(c) == IF kind[c] = "job" THEN <<"input", "arena">> ELSE << >>

-----------------------------------------------------------------------------
CallJob(c) ==
  /\ At(c, "idle")
  /\ kind' = [kind EXCEPT ![c] = "job"]
  /\ \E m \in {"FILL", "FIT"} : mode' = [mode EXCEPT ![c] = m]
  /\ Goto(c, "load")
  /\ UNCHANGED <<slabVars, role, held, others, todo, dest, res>>

CallRaw(c) ==
  /\ At(c, "idle")
  /\ kind' = [kind EXCEPT ![c] = "raw"]
  /\ Goto(c, "gate")
  /\ UNCHANGED <<slabVars, mode, role, held, others, todo, dest, res>>

\* Argument and ABI checks, load_file_mmap.
LoadInput(c) ==
  /\ At(c, "load")
  /\ \/ /\ others' = [others EXCEPT ![c] = @ \cup {"input"}]
        /\ Goto(c, "gate")
        /\ UNCHANGED <<todo, dest, res>>
     \/ /\ \E e \in {"SECURITY", "INTERNAL"} \cup LoadErrors : Leave(c, << >>, e)
        /\ UNCHANGED others
  /\ UNCHANGED <<slabVars, kind, mode, role, held>>

SecurityGate(c) ==
  /\ At(c, "gate")
  /\ \/ /\ Goto(c, IF kind[c] = "job" THEN "arena" ELSE "header")
        /\ UNCHANGED <<todo, dest, res>>
     \/ \E e \in GateErrors : Leave(c, IF kind[c] = "job" THEN <<"input">> ELSE << >>, e)
  /\ UNCHANGED <<slabVars, kind, mode, role, held, others>>

\* Mutation: no munmap when there is no arena.
CreateArenaLeak(c) ==
  /\ At(c, "arena")
  /\ \/ /\ others' = [others EXCEPT ![c] = @ \cup {"arena"}]
        /\ Goto(c, "header")
        /\ UNCHANGED <<todo, dest, res>>
     \/ Leave(c, << >>, "NOMEM") /\ UNCHANGED others
  /\ UNCHANGED <<slabVars, kind, mode, role, held>>

CreateArena(c) ==
  /\ At(c, "arena")
  /\ \/ /\ others' = [others EXCEPT ![c] = @ \cup {"arena"}]
        /\ Goto(c, "header")
        /\ UNCHANGED <<todo, dest, res>>
     \/ Leave(c, <<"input">>, "NOMEM") /\ UNCHANGED others
  /\ UNCHANGED <<slabVars, kind, mode, role, held>>

\* img_decode_to_buffer up to its allocation: no decoder, bad header, dimensions
\* refused, or larger than a block
DecodeHeader(c) ==
  /\ At(c, "header")
  /\ \/ /\ Want(c, "photo")
        /\ UNCHANGED <<todo, dest, res>>
     \/ /\ \E e \in HeaderErrors : Leave(c, DecodeFailed(c), e)
        /\ UNCHANGED role
  /\ UNCHANGED <<slabVars, kind, mode, held, others>>

\* The rest of img_decode_to_buffer, which frees its block when it fails (its last
\* bounds check repeats the size check, and passes); run_job then unmaps the input.
DecodePixels(c) ==
  /\ At(c, "pixels")
  /\ \/ /\ kind[c] = "job"
        /\ GiveBack(c, <<"input">>, "canvas")
        /\ UNCHANGED res
     \/ /\ kind[c] = "raw"
        /\ Goto(c, "encode")
        /\ UNCHANGED <<todo, dest, res>>
     \/ Leave(c, IF kind[c] = "job" THEN <<"photo", "input", "arena">> ELSE <<"photo">>,
              "FORMAT")
  /\ UNCHANGED <<slabVars, kind, mode, role, held, others>>

\* img_canvas_init up to its allocation
SizeCanvas(c) ==
  /\ At(c, "canvas")
  /\ \/ /\ Want(c, "canvas")
        /\ UNCHANGED <<todo, dest, res>>
     \/ /\ Leave(c, <<"photo", "arena">>, "NOMEM")
        /\ UNCHANGED role
  /\ UNCHANGED <<slabVars, kind, mode, held, others>>

\* prepare_fill resizes first, prepare_fit makes the cell first; either may be
\* larger than a block.  (The sizes are at least 1: never IMG_ERR_FORMAT.)
BeginLayout(c) ==
  /\ At(c, "layout")
  /\ \/ /\ Want(c, IF mode[c] = "FILL" THEN "tmp" ELSE "cell")
        /\ UNCHANGED <<todo, dest, res>>
     \/ /\ Leave(c, <<"photo", "canvas", "arena">>, "NOMEM")
        /\ UNCHANGED role
  /\ UNCHANGED <<slabVars, kind, mode, held, others>>

\* prepare_fill: crop the resized photo into a cell
CropToCell(c) ==
  /\ At(c, "crop")
  /\ \/ /\ Want(c, "cell")
        /\ UNCHANGED <<todo, dest, res>>
     \/ /\ Leave(c, <<"tmp", "photo", "canvas", "arena">>, "NOMEM")
        /\ UNCHANGED role
  /\ UNCHANGED <<slabVars, kind, mode, held, others>>

\* prepare_fit: resize the photo to go into the cell
FitResize(c) ==
  /\ At(c, "fit")
  /\ \/ /\ Want(c, "tmp")
        /\ UNCHANGED <<todo, dest, res>>
     \/ /\ Leave(c, <<"cell", "photo", "canvas", "arena">>, "NOMEM")
        /\ UNCHANGED role
  /\ UNCHANGED <<slabVars, kind, mode, held, others>>

\* Both roles filled: copy, and give tmp back.
FinishCell(c) ==
  /\ At(c, "copy")
  /\ GiveBack(c, <<"tmp">>, "cells")
  /\ UNCHANGED <<slabVars, kind, mode, role, held, others, res>>

\* The cells array from the arena, the grid, and the two buffers it was made from
FillGrid(c) ==
  /\ At(c, "cells")
  /\ \/ GiveBack(c, <<"cell", "photo">>, "finish") /\ UNCHANGED res
     \/ Leave(c, <<"cell", "photo", "canvas", "arena">>, "NOMEM")
  /\ UNCHANGED <<slabVars, kind, mode, role, held, others>>

\* img_draw_borders, img_apply_bleed, img_draw_crop_marks, in this order, in place.
\* Each returns IMG_SUCCESS on every path, so run_job's checks never fire.
Finishing(c) ==
  /\ At(c, "finish")
  /\ Goto(c, "encode")
  /\ UNCHANGED <<slabVars, kind, mode, role, held, others, todo, dest, res>>

\* The output's suffix chooses the encoder of run_job, whose JPEG file may not open;
\* process_raw always makes a JPEG.
Encode(c) ==
  /\ At(c, "encode")
  /\ \E e \in IF kind[c] = "job" THEN JpegResults \cup {"IO"} \cup PdfResults
                                 ELSE JpegResults :
       Leave(c, IF kind[c] = "job" THEN <<"canvas", "arena">> ELSE <<"photo">>, e)
  /\ UNCHANGED <<slabVars, kind, mode, role, held, others>>

-----------------------------------------------------------------------------
\* img_slab_alloc on behalf of a stage

BeginAlloc(c) ==
  /\ pc[c] = "alloc"
  /\ AllocLoad(c)
  /\ UNCHANGED jobVars

StageAfter(c) ==
  CASE role[c] = "photo"  -> "pixels"
    [] role[c] = "canvas" -> "layout"
    [] role[c] = "tmp"    -> IF mode[c] = "FILL" THEN "crop" ELSE "copy"
    [] role[c] = "cell"   -> IF mode[c] = "FILL" THEN "copy" ELSE "fit"

EndAlloc(c) ==
  /\ pc[c] = "alloc"
  /\ AllocStore(c)
  /\ held' = [held EXCEPT ![c][role[c]] = blk[c]]
  /\ Goto(c, StageAfter(c))
  /\ UNCHANGED <<kind, mode, role, others, todo, dest, res>>

\* Mutation: the job waits for a block.
NoBlockWaits(c) ==
  /\ pc[c] = "alloc"
  /\ AllocNone(c)
  /\ UNCHANGED jobVars

\* The pool is empty: each stage has its own way out.
NoBlock(c) ==
  /\ pc[c] = "alloc"
  /\ AllocNone(c)
  /\ LET fill == mode[c] = "FILL"
     IN  Leave(c, CASE role[c] = "photo"  -> DecodeFailed(c)
                    [] role[c] = "canvas" -> <<"photo", "arena">>
                    [] role[c] = "tmp"    -> IF fill THEN <<"photo", "canvas", "arena">>
                                             ELSE <<"cell", "photo", "canvas", "arena">>
                    [] role[c] = "cell"   -> IF fill THEN <<"tmp", "photo", "canvas", "arena">>
                                             ELSE <<"photo", "canvas", "arena">>,
               "NOMEM")
  /\ UNCHANGED <<kind, mode, role, held, others>>

\* img_slab_free on behalf of a stage

BeginFree(c) ==
  /\ At(c, "free")
  /\ todo[c] # << >>
  /\ Head(todo[c]) \in Roles
  /\ FreeLink(c, held[c][Head(todo[c])])
  /\ held' = [held EXCEPT ![c][Head(todo[c])] = NULL]
  /\ todo' = [todo EXCEPT ![c] = Tail(@)]
  /\ UNCHANGED <<pc, kind, mode, role, others, dest, res>>

EndFree(c) ==
  /\ pc[c] = "free"
  /\ FreeStore(c)
  /\ UNCHANGED jobVars

\* munmap of the input, img_arena_destroy
Release(c) ==
  /\ At(c, "free")
  /\ todo[c] # << >>
  /\ Head(todo[c]) \in Others
  /\ others' = [others EXCEPT ![c] = @ \ {Head(todo[c])}]
  /\ todo' = [todo EXCEPT ![c] = Tail(@)]
  /\ UNCHANGED <<slabVars, pc, kind, mode, role, held, dest, res>>

AllFreed(c) ==
  /\ At(c, "free")
  /\ todo[c] = << >>
  /\ Goto(c, dest[c])
  /\ UNCHANGED <<slabVars, kind, mode, role, held, others, todo, dest, res>>

-----------------------------------------------------------------------------
Step(c) ==
  \/ LoadInput(c) \/ SecurityGate(c) \/ CreateArena(c) \/ DecodeHeader(c)
  \/ DecodePixels(c) \/ SizeCanvas(c) \/ BeginLayout(c) \/ CropToCell(c)
  \/ FitResize(c) \/ FinishCell(c) \/ FillGrid(c) \/ Finishing(c) \/ Encode(c)
  \/ BeginAlloc(c) \/ EndAlloc(c) \/ NoBlock(c)
  \/ BeginFree(c) \/ EndFree(c) \/ Release(c) \/ AllFreed(c)

Next == \E c \in Callers : CallJob(c) \/ CallRaw(c) \/ Step(c)

Spec == Init /\ [][Next]_vars

\* A call once made is carried on; nobody has to call.
FairSpec == Spec /\ \A c \in Callers : WF_vars(Step(c))

-----------------------------------------------------------------------------
Stages == {"idle", "load", "gate", "arena", "header", "pixels", "canvas", "layout",
           "crop", "fit", "copy", "cells", "finish", "encode", "alloc", "free"}

\* The orders in which the paths of api.c give back what they hold, and what is left
\* of them.
ReturnLists ==
  {<< >>, <<"input">>, <<"arena">>, <<"photo">>, <<"tmp">>,
   <<"input", "arena">>, <<"photo", "arena">>, <<"canvas", "arena">>, <<"cell", "photo">>,
   <<"photo", "input", "arena">>, <<"photo", "canvas", "arena">>,
   <<"tmp", "photo", "canvas", "arena">>, <<"cell", "photo", "canvas", "arena">>}

\* The types; in particular a release names nothing twice, in one of the
\* orders of api.c and layout.c.
TypeOK ==
  /\ SlabTypeOK
  /\ pc \in [Callers -> Stages]
  /\ kind \in [Callers -> {"job", "raw"}]
  /\ mode \in [Callers -> {"FILL", "FIT"}]
  /\ role \in [Callers -> Roles]
  /\ held \in [Callers -> [Roles -> Blocks \cup {NULL}]]
  /\ others \in [Callers -> SUBSET Others]
  /\ todo \in [Callers -> ReturnLists]
  /\ dest \in [Callers -> {"idle", "canvas", "cells", "finish"}]
  /\ res \in [Callers -> Named \cup {"MINUS_ONE"}]

Holding(c) == {r \in Roles : held[c][r] # NULL} \cup others[c]

\* What a call holds while its image is decoded.
Decoding(k) == IF k = "job" THEN {"input", "arena"} ELSE {}

\* What it holds when it asks for the block of each role.
Before(r, m, k) ==
  CASE r = "photo"  -> Decoding(k)
    [] r = "canvas" -> {"photo", "arena"}
    [] r = "tmp"    -> {"photo", "canvas", "arena"} \cup (IF m = "FIT" THEN {"cell"} ELSE {})
    [] r = "cell"   -> {"photo", "canvas", "arena"} \cup (IF m = "FILL" THEN {"tmp"} ELSE {})

\* What is kept for the stage that follows a release.
Kept(stage) ==
  CASE stage = "canvas" -> {"photo", "arena"}
    [] stage = "cells"  -> {"photo", "canvas", "cell", "arena"}
    [] stage = "finish" -> {"canvas", "arena"}
    [] OTHER            -> {}

\* What a list of releases names.
Owed(list) == {list[i] : i \in DOMAIN list}

\* What a call holds at each stage.
Expected(c) ==
  CASE pc[c] \in {"idle", "load"} -> {}
    [] pc[c] = "gate"   -> IF kind[c] = "job" THEN {"input"} ELSE {}
    [] pc[c] = "arena"  -> {"input"}
    [] pc[c] = "header" -> Decoding(kind[c])
    [] pc[c] = "pixels" -> Decoding(kind[c]) \cup {"photo"}
    [] pc[c] = "canvas" -> Kept("canvas")
    [] pc[c] = "layout" -> {"photo", "canvas", "arena"}
    [] pc[c] = "crop"   -> {"photo", "canvas", "tmp", "arena"}
    [] pc[c] = "fit"    -> {"photo", "canvas", "cell", "arena"}
    [] pc[c] = "copy"   -> Roles \cup {"arena"}
    [] pc[c] = "cells"  -> Kept("cells")
    [] pc[c] = "finish" -> Kept("finish")
    [] pc[c] = "encode" -> IF kind[c] = "job" THEN {"canvas", "arena"} ELSE {"photo"}
    [] pc[c] = "alloc"  -> Before(role[c], mode[c], kind[c])
    [] pc[c] = "free"   -> Owed(todo[c]) \cup Kept(dest[c])

\* At every stage, on every path through decoder, canvas and layout, a call holds
\* exactly the buffers, the mapping and the arena that the rest of its path uses and
\* gives back: it never reads a buffer it freed (layout.c:140 frees tmp while cell lives
\* on) or a file it unmapped (api.c:191), and no early return of the decoder, the canvas
\* or the layout (canvas.c:84, layout.c:114, :204, :263) or of run_job itself
\* (api.c:164-220) forgets one, so that a call that returned has kept nothing.
HoldsWhatItNeeds == \A c \in Callers : Holding(c) = Expected(c)

\* What a release gives back is never what the next stage keeps.
GivesBackOthers == \A c \in Callers : pc[c] = "free" => Owed(todo[c]) \cap Kept(dest[c]) = {}

\* Only run_job gets past the decoder.
OnlyJobsLayOut ==
  \A c \in Callers :
    \/ pc[c] \in {"load", "arena", "canvas", "layout", "crop", "fit", "copy", "cells", "finish"}
    \/ pc[c] = "alloc" /\ role[c] # "photo"
    \/ pc[c] = "free" /\ dest[c] # "idle"
    => kind[c] = "job"

\* prepare_fill crops, prepare_fit fits.
ModeStages ==
  \A c \in Callers : (pc[c] = "crop" => mode[c] = "FILL") /\ (pc[c] = "fit" => mode[c] = "FIT")

\* A pool call is in progress only where the job makes one.
PoolCalls ==
  \A c \in Callers :
    /\ op[c] = "alloc" => pc[c] = "alloc"
    /\ op[c] = "free" => pc[c] = "free"

\* The inductive invariant of the proofs: what run_job and process_raw hold, owe and
\* have released at each stage of api.c:138-379.
JobInv ==
  /\ HoldsWhatItNeeds
  /\ GivesBackOthers
  /\ OnlyJobsLayOut
  /\ ModeStages
  /\ PoolCalls

\* Every call of run_job and process_raw returns: an empty pool is an error
\* (slab.c:55-56), never a wait.
CallsReturn == \A c \in Callers : pc[c] # "idle" ~> pc[c] = "idle"

=============================================================================
