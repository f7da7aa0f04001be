--------------------------- MODULE PrintJobProofs ---------------------------
(***************************************************************************)
(* Proofs about PrintJob for every pool and every set of callers.  What a  *)
(* call holds and gives back is a fact of its own path, and holds even     *)
(* where concurrent calls damage the free list; the free list itself is    *)
(* sound as long as the calls of the pool follow one another.              *)
(***************************************************************************)
EXTENDS PrintJob, RingArith, FiniteSetTheorems

\* What is left of a list of releases once the first is made.
LEMMA ReturnListTail ==
  ASSUME NEW list \in ReturnLists, list # << >>
  PROVE  /\ Head(list) \in Roles \cup Others
         /\ Tail(list) \in ReturnLists
         /\ Head(list) \in Owed(list)
         /\ Owed(Tail(list)) = Owed(list) \ {Head(list)}
<1> DEFINE R == Roles \cup Others
<1>1. ASSUME NEW a \in R, list = <<a>>
      PROVE  Head(list) = a /\ Tail(list) = << >> /\ Owed(list) = {a} /\ Owed(Tail(list)) = {}
  BY <1>1 DEF Owed
<1>2. ASSUME NEW a \in R, NEW b \in R, a # b, list = <<a, b>>
      PROVE  Head(list) = a /\ Tail(list) = <<b>> /\ Owed(list) = {a, b} /\ Owed(Tail(list)) = {b}
  BY <1>2 DEF Owed
<1>3. ASSUME NEW a \in R, NEW b \in R, NEW d \in R, a # b, a # d, list = <<a, b, d>>
      PROVE  /\ Head(list) = a /\ Tail(list) = <<b, d>>
             /\ Owed(list) = {a, b, d} /\ Owed(Tail(list)) = {b, d}
  BY <1>3 DEF Owed
<1>4. ASSUME NEW a \in R, NEW b \in R, NEW d \in R, NEW e \in R, a # b, a # d, a # e,
             list = <<a, b, d, e>>
      PROVE  /\ Head(list) = a /\ Tail(list) = <<b, d, e>>
             /\ Owed(list) = {a, b, d, e} /\ Owed(Tail(list)) = {b, d, e}
  BY <1>4 DEF Owed
<1>5. CASE list = <<"input">>
  BY <1>1, <1>5 DEF ReturnLists, Roles, Others
<1>6. CASE list = <<"arena">>
  BY <1>1, <1>6 DEF ReturnLists, Roles, Others
<1>7. CASE list = <<"photo">>
  BY <1>1, <1>7 DEF ReturnLists, Roles, Others
<1>8. CASE list = <<"tmp">>
  BY <1>1, <1>8 DEF ReturnLists, Roles, Others
<1>9. CASE list = <<"input", "arena">>
  BY <1>2, <1>9 DEF ReturnLists, Roles, Others
<1>10. CASE list = <<"photo", "arena">>
  BY <1>2, <1>10 DEF ReturnLists, Roles, Others
<1>11. CASE list = <<"canvas", "arena">>
  BY <1>2, <1>11 DEF ReturnLists, Roles, Others
<1>12. CASE list = <<"cell", "photo">>
  BY <1>2, <1>12 DEF ReturnLists, Roles, Others
<1>13. CASE list = <<"photo", "input", "arena">>
  BY <1>3, <1>13 DEF ReturnLists, Roles, Others
<1>14. CASE list = <<"photo", "canvas", "arena">>
  BY <1>3, <1>14 DEF ReturnLists, Roles, Others
<1>15. CASE list = <<"tmp", "photo", "canvas", "arena">>
  BY <1>4, <1>15 DEF ReturnLists, Roles, Others
<1>16. CASE list = <<"cell", "photo", "canvas", "arena">>
  BY <1>4, <1>16 DEF ReturnLists, Roles, Others
<1> QED
  BY <1>5, <1>6, <1>7, <1>8, <1>9, <1>10, <1>11, <1>12, <1>13, <1>14, <1>15, <1>16 DEF ReturnLists

\* The lists the actions use.
LEMMA ReturnListMembers ==
  /\ << >> \in ReturnLists
  /\ <<"input">> \in ReturnLists
  /\ <<"arena">> \in ReturnLists
  /\ <<"photo">> \in ReturnLists
  /\ <<"tmp">> \in ReturnLists
  /\ <<"input", "arena">> \in ReturnLists
  /\ <<"photo", "arena">> \in ReturnLists
  /\ <<"canvas", "arena">> \in ReturnLists
  /\ <<"cell", "photo">> \in ReturnLists
  /\ <<"photo", "input", "arena">> \in ReturnLists
  /\ <<"photo", "canvas", "arena">> \in ReturnLists
  /\ <<"tmp", "photo", "canvas", "arena">> \in ReturnLists
  /\ <<"cell", "photo", "canvas", "arena">> \in ReturnLists
BY DEF ReturnLists

\* What each list names.
LEMMA OwedValues ==
  /\ Owed(<< >>) = {}
  /\ Owed(<<"input">>) = {"input"}
  /\ Owed(<<"arena">>) = {"arena"}
  /\ Owed(<<"photo">>) = {"photo"}
  /\ Owed(<<"tmp">>) = {"tmp"}
  /\ Owed(<<"input", "arena">>) = {"input", "arena"}
  /\ Owed(<<"photo", "arena">>) = {"photo", "arena"}
  /\ Owed(<<"canvas", "arena">>) = {"canvas", "arena"}
  /\ Owed(<<"cell", "photo">>) = {"cell", "photo"}
  /\ Owed(<<"photo", "input", "arena">>) = {"photo", "input", "arena"}
  /\ Owed(<<"photo", "canvas", "arena">>) = {"photo", "canvas", "arena"}
  /\ Owed(<<"tmp", "photo", "canvas", "arena">>) = {"tmp", "photo", "canvas", "arena"}
  /\ Owed(<<"cell", "photo", "canvas", "arena">>) = {"cell", "photo", "canvas", "arena"}
BY DEF Owed

\* The stages, roles and results the actions use.
LEMMA Members ==
  /\ "idle" \in Stages /\ "load" \in Stages /\ "gate" \in Stages /\ "arena" \in Stages
  /\ "header" \in Stages /\ "pixels" \in Stages /\ "canvas" \in Stages /\ "layout" \in Stages
  /\ "crop" \in Stages /\ "fit" \in Stages /\ "copy" \in Stages /\ "cells" \in Stages
  /\ "finish" \in Stages /\ "encode" \in Stages /\ "alloc" \in Stages /\ "free" \in Stages
  /\ "photo" \in Roles /\ "canvas" \in Roles /\ "tmp" \in Roles /\ "cell" \in Roles
  /\ "SUCCESS" \in Named /\ "NOMEM" \in Named /\ "FORMAT" \in Named
  /\ "SECURITY" \in Named /\ "IO" \in Named /\ "INTERNAL" \in Named
BY DEF Stages, Roles, Named

-----------------------------------------------------------------------------
\* Leaving a call keeps the types.
LEMMA LeaveType ==
  ASSUME TypeOK, NEW c \in Callers, NEW list \in ReturnLists,
         NEW e \in Named \cup {"MINUS_ONE"}, Leave(c, list, e),
         UNCHANGED <<slabVars, kind, mode, role, held, others>>
  PROVE  TypeOK'
BY Members DEF TypeOK, SlabTypeOK, slabVars, Leave, GiveBack, Goto

\* So does asking for a block,
LEMMA WantType ==
  ASSUME TypeOK, NEW c \in Callers, NEW r \in Roles, Want(c, r),
         UNCHANGED <<slabVars, kind, mode, held, others, todo, dest, res>>
  PROVE  TypeOK'
BY Members DEF TypeOK, SlabTypeOK, slabVars, Want, Goto

\* and going on to the next stage.
LEMMA GotoType ==
  ASSUME TypeOK, NEW c \in Callers, NEW stage \in Stages, Goto(c, stage),
         others' \in [Callers -> SUBSET Others],
         UNCHANGED <<slabVars, kind, mode, role, held, todo, dest, res>>
  PROVE  TypeOK'
BY DEF TypeOK, SlabTypeOK, slabVars, Goto

\* Every variable of a job and of the pool keeps its type: in particular each list
\* of releases is one of ReturnLists, and names nothing twice.
THEOREM JobTypeCorrect == Spec => []TypeOK
<1>1. Init => TypeOK
  <2> SUFFICES ASSUME Init PROVE TypeOK
    OBVIOUS
  <2>1. /\ freeList \in Blocks \cup {NULL}
        /\ link \in [Blocks -> Blocks \cup {NULL, JUNK}]
        /\ host \subseteq Blocks
    <3>0. PICK n \in 0 .. Cardinality(Blocks) : \E order \in [1 .. n -> Blocks] :
            /\ host = Blocks \ {order[i] : i \in DOMAIN order}
            /\ freeList = IF DOMAIN order = {} THEN NULL ELSE order[1]
            /\ link = [b \in Blocks |->
                         IF b \in host THEN JUNK
                         ELSE LET i == CHOOSE i \in DOMAIN order : order[i] = b
                              IN  IF i + 1 \in DOMAIN order THEN order[i + 1] ELSE NULL]
      BY DEF Init, SlabInit, ChainInit
    <3>1. PICK order \in [1 .. n -> Blocks] :
            /\ host = Blocks \ {order[i] : i \in DOMAIN order}
            /\ freeList = IF DOMAIN order = {} THEN NULL ELSE order[1]
            /\ link = [b \in Blocks |->
                         IF b \in host THEN JUNK
                         ELSE LET i == CHOOSE i \in DOMAIN order : order[i] = b
                              IN  IF i + 1 \in DOMAIN order THEN order[i + 1] ELSE NULL]
      BY <3>0
    <3>2. DOMAIN order = 1 .. n /\ n \in Nat
      BY BlocksAssumption, FS_CardinalityType
    <3>3. DOMAIN order # {} => order[1] \in Blocks
      BY <3>2
    <3>4. \A i \in DOMAIN order : order[i] \in Blocks
      BY <3>2
    <3> QED
      BY <3>1, <3>3, <3>4
  <2> QED
    BY <2>1, ReturnListMembers DEF Init, SlabInit, TypeOK, SlabTypeOK, Roles, Others, Stages, Named
<1>2. TypeOK /\ [Next]_vars => TypeOK'
  <2> SUFFICES ASSUME TypeOK, [Next]_vars PROVE TypeOK'
    OBVIOUS
  <2>1. ASSUME NEW c \in Callers, CallJob(c) \/ CallRaw(c) PROVE TypeOK'
    <3>1. pc' \in [Callers -> Stages]
      BY <2>1, Members DEF CallJob, CallRaw, TypeOK, Goto
    <3>2. kind' \in [Callers -> {"job", "raw"}] /\ mode' \in [Callers -> {"FILL", "FIT"}]
      BY <2>1 DEF CallJob, CallRaw, TypeOK
    <3> QED
      BY <2>1, <3>1, <3>2 DEF CallJob, CallRaw, TypeOK, SlabTypeOK, slabVars
  <2>2. ASSUME NEW c \in Callers, LoadInput(c) PROVE TypeOK'
    <3>1. ASSUME NEW e \in {"SECURITY", "INTERNAL", "IO"}, Leave(c, << >>, e), UNCHANGED others
          PROVE  TypeOK'
      BY <2>2, <3>1, LeaveType, Members, ReturnListMembers DEF LoadInput, LoadErrors
    <3>2. CASE /\ others' = [others EXCEPT ![c] = @ \cup {"input"}]
               /\ Goto(c, "gate") /\ UNCHANGED <<todo, dest, res>>
      <4>1. others' \in [Callers -> SUBSET Others]
        BY <3>2 DEF TypeOK, Others
      <4> QED
        BY <2>2, <3>2, <4>1, GotoType, Members DEF LoadInput, LoadErrors
    <3> QED
      BY <2>2, <3>1, <3>2 DEF LoadInput, LoadErrors
  <2>3. ASSUME NEW c \in Callers, SecurityGate(c) PROVE TypeOK'
    <3>1. CASE Leave(c, IF kind[c] = "job" THEN <<"input">> ELSE << >>, "SECURITY")
      BY <2>3, <3>1, LeaveType, Members, ReturnListMembers DEF SecurityGate, GateErrors
    <3>2. CASE Goto(c, IF kind[c] = "job" THEN "arena" ELSE "header") /\ UNCHANGED <<todo, dest, res>>
      BY <2>3, <3>2, GotoType, Members DEF SecurityGate, GateErrors, TypeOK
    <3> QED
      BY <2>3, <3>1, <3>2 DEF SecurityGate, GateErrors
  <2>4. ASSUME NEW c \in Callers, CreateArena(c) PROVE TypeOK'
    <3>1. CASE Leave(c, <<"input">>, "NOMEM") /\ UNCHANGED others
      BY <2>4, <3>1, LeaveType, Members, ReturnListMembers DEF CreateArena
    <3>2. CASE /\ others' = [others EXCEPT ![c] = @ \cup {"arena"}]
               /\ Goto(c, "header") /\ UNCHANGED <<todo, dest, res>>
      <4>1. others' \in [Callers -> SUBSET Others]
        BY <3>2 DEF TypeOK, Others
      <4> QED
        BY <2>4, <3>2, <4>1, GotoType, Members DEF CreateArena
    <3> QED
      BY <2>4, <3>1, <3>2 DEF CreateArena
  <2>5. ASSUME NEW c \in Callers, DecodeHeader(c) PROVE TypeOK'
    <3>1. ASSUME NEW e \in {"NOMEM", "FORMAT", "SECURITY"}, Leave(c, DecodeFailed(c), e),
                 UNCHANGED role
          PROVE  TypeOK'
      <4>1. DecodeFailed(c) \in ReturnLists
        BY ReturnListMembers DEF DecodeFailed
      <4> QED
        BY <2>5, <3>1, <4>1, LeaveType, Members DEF DecodeHeader, HeaderErrors
    <3>2. CASE Want(c, "photo") /\ UNCHANGED <<todo, dest, res>>
      BY <2>5, <3>2, WantType, Members DEF DecodeHeader, HeaderErrors
    <3> QED
      BY <2>5, <3>1, <3>2 DEF DecodeHeader, HeaderErrors
  <2>6. ASSUME NEW c \in Callers, DecodePixels(c) PROVE TypeOK'
    <3>1. CASE Leave(c, IF kind[c] = "job" THEN <<"photo", "input", "arena">> ELSE <<"photo">>,
                     "FORMAT")
      BY <2>6, <3>1, LeaveType, Members, ReturnListMembers DEF DecodePixels
    <3>2. CASE GiveBack(c, <<"input">>, "canvas") /\ UNCHANGED res
      BY <2>6, <3>2, Members, ReturnListMembers
         DEF DecodePixels, GiveBack, Goto, TypeOK, SlabTypeOK, slabVars
    <3>3. CASE Goto(c, "encode") /\ UNCHANGED <<todo, dest, res>>
      BY <2>6, <3>3, GotoType, Members DEF DecodePixels, TypeOK
    <3> QED
      BY <2>6, <3>1, <3>2, <3>3 DEF DecodePixels
  <2>7. ASSUME NEW c \in Callers, SizeCanvas(c) PROVE TypeOK'
    BY <2>7, LeaveType, WantType, Members, ReturnListMembers DEF SizeCanvas
  <2>8. ASSUME NEW c \in Callers, BeginLayout(c) PROVE TypeOK'
    BY <2>8, LeaveType, WantType, Members, ReturnListMembers DEF BeginLayout
  <2>9. ASSUME NEW c \in Callers, CropToCell(c) PROVE TypeOK'
    BY <2>9, LeaveType, WantType, Members, ReturnListMembers DEF CropToCell
  <2>10. ASSUME NEW c \in Callers, FitResize(c) PROVE TypeOK'
    BY <2>10, LeaveType, WantType, Members, ReturnListMembers DEF FitResize
  <2>11. ASSUME NEW c \in Callers, FinishCell(c) PROVE TypeOK'
    BY <2>11, Members, ReturnListMembers
       DEF FinishCell, GiveBack, Goto, TypeOK, SlabTypeOK, slabVars
  <2>12. ASSUME NEW c \in Callers, FillGrid(c) PROVE TypeOK'
    <3>1. CASE Leave(c, <<"cell", "photo", "canvas", "arena">>, "NOMEM")
      BY <2>12, <3>1, LeaveType, Members, ReturnListMembers DEF FillGrid
    <3>2. CASE GiveBack(c, <<"cell", "photo">>, "finish") /\ UNCHANGED res
      BY <2>12, <3>2, Members, ReturnListMembers
         DEF FillGrid, GiveBack, Goto, TypeOK, SlabTypeOK, slabVars
    <3> QED
      BY <2>12, <3>1, <3>2 DEF FillGrid
  <2>13. ASSUME NEW c \in Callers, Finishing(c) PROVE TypeOK'
    BY <2>13, GotoType, Members DEF Finishing, TypeOK
  <2>14. ASSUME NEW c \in Callers, Encode(c) PROVE TypeOK'
    BY <2>14, LeaveType, Members, ReturnListMembers DEF Encode, JpegResults, PdfResults
  <2>15. ASSUME NEW c \in Callers, BeginAlloc(c) PROVE TypeOK'
    BY <2>15 DEF BeginAlloc, AllocLoad, jobVars, TypeOK, SlabTypeOK
  <2>16. ASSUME NEW c \in Callers, EndAlloc(c) PROVE TypeOK'
    <3>1. StageAfter(c) \in Stages /\ role[c] \in Roles
      BY Members DEF StageAfter, TypeOK, Roles
    <3>2. SlabTypeOK'
      BY <2>16 DEF EndAlloc, AllocStore, TypeOK, SlabTypeOK
    <3>3. held' \in [Callers -> [Roles -> Blocks \cup {NULL}]]
      BY <2>16, <3>1 DEF EndAlloc, TypeOK, SlabTypeOK
    <3> QED
      BY <2>16, <3>1, <3>2, <3>3 DEF EndAlloc, Goto, TypeOK
  <2>17. ASSUME NEW c \in Callers, NoBlock(c) PROVE TypeOK'
    <3>1. PICK list \in ReturnLists : Leave(c, list, "NOMEM")
      BY <2>17, ReturnListMembers DEF NoBlock, DecodeFailed, TypeOK, Roles
    <3> QED
      BY <2>17, <3>1, LeaveType, Members DEF NoBlock, AllocNone
  <2>18. ASSUME NEW c \in Callers, BeginFree(c) PROVE TypeOK'
    <3>1. Head(todo[c]) \in Roles /\ Tail(todo[c]) \in ReturnLists
      BY <2>18, ReturnListTail DEF BeginFree, TypeOK
    <3> DEFINE r == Head(todo[c])
               rest == Tail(todo[c])
    <3>2. todo' = [todo EXCEPT ![c] = rest] /\ held' = [held EXCEPT ![c][r] = NULL]
      BY <2>18 DEF BeginFree
    <3>3. SlabTypeOK'
      <4>1. held[c][r] \in Blocks \cup {NULL}
        BY <3>1 DEF TypeOK
      <4> QED
        BY <2>18, <4>1 DEF BeginFree, FreeLink, TypeOK, SlabTypeOK
    <3> HIDE DEF r, rest
    <3>4. todo' \in [Callers -> ReturnLists] /\ held' \in [Callers -> [Roles -> Blocks \cup {NULL}]]
      BY <3>1, <3>2 DEF TypeOK, r, rest
    <3> QED
      BY <2>18, <3>3, <3>4 DEF BeginFree, TypeOK
  <2>19. ASSUME NEW c \in Callers, EndFree(c) PROVE TypeOK'
    BY <2>19 DEF EndFree, FreeStore, jobVars, TypeOK, SlabTypeOK
  <2>20. ASSUME NEW c \in Callers, AllFreed(c) PROVE TypeOK'
    BY <2>20, GotoType, Members DEF AllFreed, TypeOK
  <2>21. ASSUME NEW c \in Callers, Release(c) PROVE TypeOK'
    <3>1. Tail(todo[c]) \in ReturnLists
      BY <2>21, ReturnListTail DEF Release, TypeOK
    <3>2. others' \in [Callers -> SUBSET Others]
      BY <2>21 DEF Release, TypeOK
    <3>3. todo' \in [Callers -> ReturnLists]
      BY <2>21, <3>1 DEF Release, TypeOK
    <3> QED
      BY <2>21, <3>2, <3>3 DEF Release, TypeOK, SlabTypeOK, slabVars
  <2>22. CASE UNCHANGED vars
    BY <2>22 DEF vars, jobVars, slabVars, TypeOK, SlabTypeOK
  <2> QED
    BY <2>1, <2>2, <2>3, <2>4, <2>5, <2>6, <2>7, <2>8, <2>9, <2>10, <2>11, <2>12, <2>13,
       <2>14, <2>15, <2>16, <2>17, <2>18, <2>19, <2>20, <2>21, <2>22 DEF Next, Step
<1> QED
  BY <1>1, <1>2, PTL DEF Spec

-----------------------------------------------------------------------------
\* The inductive invariant, of one call.
CallInv(c) ==
  /\ Holding(c) = Expected(c)
  /\ pc[c] = "free" => Owed(todo[c]) \cap Kept(dest[c]) = {}
  /\ \/ pc[c] \in {"load", "arena", "canvas", "layout", "crop", "fit", "copy", "cells", "finish"}
     \/ pc[c] = "alloc" /\ role[c] # "photo"
     \/ pc[c] = "free" /\ dest[c] # "idle"
     => kind[c] = "job"
  /\ pc[c] = "crop" => mode[c] = "FILL"
  /\ pc[c] = "fit" => mode[c] = "FIT"
  /\ op[c] = "alloc" => pc[c] = "alloc"
  /\ op[c] = "free" => pc[c] = "free"

\* The invariant is that of every call.
LEMMA PerCall == JobInv <=> \A c \in Callers : CallInv(c)
BY DEF JobInv, CallInv, HoldsWhatItNeeds, GivesBackOthers, OnlyJobsLayOut,
   ModeStages, PoolCalls

\* What the invariant reads of a call.
Locals(c) ==
  <<pc[c], kind[c], mode[c], role[c], held[c], others[c], todo[c], dest[c], op[c]>>

\* A step of one call leaves the others as they are.
LEMMA OtherCalls ==
  ASSUME NEW d \in Callers, CallInv(d), Locals(d)' = Locals(d)
  PROVE  CallInv(d)'
<1>1. /\ pc'[d] = pc[d] /\ kind'[d] = kind[d] /\ mode'[d] = mode[d] /\ role'[d] = role[d]
      /\ held'[d] = held[d] /\ todo'[d] = todo[d] /\ dest'[d] = dest[d]
      /\ others'[d] = others[d] /\ op'[d] = op[d]
  BY DEF Locals
<1>2. Holding(d)' = Holding(d)
  BY <1>1 DEF Holding
<1>3. Expected(d)' = Expected(d)
  BY <1>1 DEF Expected
<1> QED
  BY <1>1, <1>2, <1>3 DEF CallInv

\* A call that gives back all it holds may leave.
LEMMA LeaveInv ==
  ASSUME TypeOK, NEW c \in Callers, CallInv(c), op[c] = "none", NEW list \in ReturnLists,
         Holding(c) = Owed(list), NEW e, Leave(c, list, e),
         UNCHANGED <<slabVars, kind, mode, role, held, others>>
  PROVE  CallInv(c)'
<1>1. pc'[c] = "free" /\ dest'[c] = "idle" /\ todo'[c] = list /\ op'[c] = "none"
  BY DEF Leave, GiveBack, Goto, TypeOK, slabVars
<1>2. Holding(c)' = Holding(c)
  BY DEF Holding
<1>3. Expected(c)' = Owed(list) /\ Kept("idle") = {}
  BY <1>1 DEF Expected, Kept, Owed
<1> QED
  BY <1>1, <1>2, <1>3 DEF CallInv, Kept, Owed

\* A call that holds what comes before a block may ask for it.
LEMMA WantInv ==
  ASSUME TypeOK, NEW c \in Callers, CallInv(c), op[c] = "none", NEW r \in Roles,
         Holding(c) = Before(r, mode[c], kind[c]), r # "photo" => kind[c] = "job", Want(c, r),
         UNCHANGED <<slabVars, kind, mode, held, others, todo, dest, res>>
  PROVE  CallInv(c)'
<1>1. pc'[c] = "alloc" /\ role'[c] = r /\ op'[c] = "none"
  BY DEF Want, Goto, TypeOK, slabVars
<1>2. Holding(c)' = Holding(c)
  BY DEF Holding
<1>3. Expected(c)' = Before(r, mode[c], kind[c])
  BY <1>1 DEF Expected, Before
<1> QED
  BY <1>1, <1>2, <1>3 DEF CallInv

\* A call that holds what the next stage needs may go on to it.
LEMMA GotoInv ==
  ASSUME TypeOK, NEW c \in Callers, CallInv(c), op[c] = "none",
         NEW stage \in Stages \ {"alloc", "free", "idle", "crop", "fit"}, Goto(c, stage),
         Expected(c)' = Holding(c)',
         stage \in {"gate", "header", "pixels", "encode"} \/ kind[c] = "job",
         UNCHANGED <<slabVars, kind>>
  PROVE  CallInv(c)'
<1>1. pc'[c] = stage /\ op'[c] = "none" /\ kind'[c] = kind[c]
  BY DEF Goto, TypeOK, slabVars
<1> QED
  BY <1>1 DEF CallInv, Stages

\* The stages before the canvas.
LEMMA DecodeStages ==
  ASSUME TypeOK, NEW c \in Callers, CallInv(c),
         CallJob(c) \/ CallRaw(c) \/ LoadInput(c) \/ SecurityGate(c) \/ CreateArena(c)
           \/ DecodeHeader(c) \/ DecodePixels(c)
  PROVE  CallInv(c)'
<1>1. CASE CallJob(c) \/ CallRaw(c)
  <2>1. /\ pc[c] = "idle" /\ op'[c] = "none" /\ held' = held /\ others' = others
        /\ (pc'[c] = "load" /\ kind'[c] = "job") \/ (pc'[c] = "gate" /\ kind'[c] = "raw")
    BY <1>1 DEF CallJob, CallRaw, At, Goto, TypeOK, slabVars
  <2>2. Holding(c)' = Holding(c) /\ Holding(c) = {} /\ Expected(c)' = {}
    BY <2>1 DEF Holding, Expected, CallInv
  <2> QED
    BY <2>1, <2>2 DEF CallInv
<1>2. CASE LoadInput(c)
  <2>0. pc[c] = "load" /\ op[c] = "none" /\ Holding(c) = {} /\ kind[c] = "job"
    BY <1>2 DEF LoadInput, LoadErrors, At, CallInv, Expected
  <2>1. ASSUME NEW e, Leave(c, << >>, e), UNCHANGED others PROVE CallInv(c)'
    BY <1>2, <2>0, <2>1, LeaveInv, OwedValues, ReturnListMembers DEF LoadInput, LoadErrors
  <2>2. CASE Goto(c, "gate") /\ others' = [others EXCEPT ![c] = @ \cup {"input"}]
    <3>1. Expected(c)' = {"input"}
      BY <1>2, <2>0, <2>2 DEF Expected, Goto, TypeOK, LoadInput
    <3>2. Holding(c)' = Holding(c) \cup {"input"}
      BY <1>2, <2>2 DEF Holding, TypeOK, LoadInput
    <3> QED
      BY <1>2, <2>0, <2>2, <3>1, <3>2, GotoInv DEF LoadInput, LoadErrors, Stages
  <2> QED
    BY <1>2, <2>1, <2>2 DEF LoadInput, LoadErrors
<1>3. CASE SecurityGate(c)
  <2>0. /\ pc[c] = "gate" /\ op[c] = "none" /\ kind[c] \in {"job", "raw"}
        /\ Holding(c) = IF kind[c] = "job" THEN {"input"} ELSE {}
    BY <1>3 DEF SecurityGate, GateErrors, At, CallInv, Expected, TypeOK
  <2>1. CASE Leave(c, IF kind[c] = "job" THEN <<"input">> ELSE << >>, "SECURITY")
    BY <1>3, <2>0, <2>1, LeaveInv, OwedValues, ReturnListMembers DEF SecurityGate, GateErrors
  <2>2. CASE Goto(c, IF kind[c] = "job" THEN "arena" ELSE "header")
    <3>1. Expected(c)' = Holding(c)
      BY <1>3, <2>0, <2>2 DEF Expected, Decoding, Goto, TypeOK, SecurityGate
    <3>2. Holding(c)' = Holding(c)
      BY <1>3 DEF Holding, SecurityGate
    <3> QED
      BY <1>3, <2>0, <2>2, <3>1, <3>2, GotoInv DEF SecurityGate, GateErrors, Stages
  <2> QED
    BY <1>3, <2>1, <2>2 DEF SecurityGate, GateErrors
<1>4. CASE CreateArena(c)
  <2>0. pc[c] = "arena" /\ op[c] = "none" /\ Holding(c) = {"input"} /\ kind[c] = "job"
    BY <1>4 DEF CreateArena, At, CallInv, Expected
  <2>1. CASE Leave(c, <<"input">>, "NOMEM") /\ UNCHANGED others
    BY <1>4, <2>0, <2>1, LeaveInv, OwedValues, ReturnListMembers DEF CreateArena
  <2>2. CASE Goto(c, "header") /\ others' = [others EXCEPT ![c] = @ \cup {"arena"}]
    <3>1. Expected(c)' = {"input", "arena"}
      BY <1>4, <2>0, <2>2 DEF Expected, Decoding, Goto, TypeOK, CreateArena
    <3>2. Holding(c)' = Holding(c) \cup {"arena"}
      BY <1>4, <2>2 DEF Holding, TypeOK, CreateArena
    <3> QED
      BY <1>4, <2>0, <2>2, <3>1, <3>2, GotoInv DEF CreateArena, Stages
  <2> QED
    BY <1>4, <2>1, <2>2 DEF CreateArena
<1>5. CASE DecodeHeader(c)
  <2>0. /\ pc[c] = "header" /\ op[c] = "none" /\ Holding(c) = Decoding(kind[c])
        /\ kind[c] \in {"job", "raw"}
    BY <1>5 DEF DecodeHeader, HeaderErrors, At, CallInv, Expected, TypeOK
  <2>1. ASSUME NEW e, Leave(c, DecodeFailed(c), e), UNCHANGED role PROVE CallInv(c)'
    <3>1. DecodeFailed(c) \in ReturnLists /\ Owed(DecodeFailed(c)) = Decoding(kind[c])
      BY OwedValues, ReturnListMembers DEF DecodeFailed, Decoding
    <3> QED
      BY <1>5, <2>0, <2>1, <3>1, LeaveInv DEF DecodeHeader, HeaderErrors
  <2>2. CASE Want(c, "photo") /\ UNCHANGED <<todo, dest, res>>
    <3>1. Before("photo", mode[c], kind[c]) = Decoding(kind[c])
      BY DEF Before
    <3> QED
      BY <1>5, <2>0, <2>2, <3>1, WantInv, Members DEF DecodeHeader, HeaderErrors
  <2> QED
    BY <1>5, <2>1, <2>2 DEF DecodeHeader, HeaderErrors
<1>6. CASE DecodePixels(c)
  <2>0. /\ pc[c] = "pixels" /\ op[c] = "none" /\ kind[c] \in {"job", "raw"}
        /\ Holding(c) = Decoding(kind[c]) \cup {"photo"}
    BY <1>6 DEF DecodePixels, At, CallInv, Expected, TypeOK
  <2>1. CASE Leave(c, IF kind[c] = "job" THEN <<"photo", "input", "arena">> ELSE <<"photo">>,
                   "FORMAT")
    BY <1>6, <2>0, <2>1, LeaveInv, OwedValues, ReturnListMembers DEF DecodePixels, Decoding
  <2>2. CASE kind[c] = "job" /\ GiveBack(c, <<"input">>, "canvas") /\ UNCHANGED res
    <3>1. /\ pc'[c] = "free" /\ dest'[c] = "canvas" /\ todo'[c] = <<"input">>
          /\ op'[c] = "none" /\ kind'[c] = "job"
      BY <1>6, <2>0, <2>2 DEF DecodePixels, GiveBack, Goto, TypeOK, slabVars
    <3>2. Kept("canvas") = {"photo", "arena"} /\ Owed(todo'[c]) = {"input"}
      BY <3>1, OwedValues DEF Kept
    <3>3. Expected(c)' = {"photo", "arena", "input"} /\ Holding(c)' = Holding(c)
      BY <1>6, <3>1, <3>2 DEF Expected, Kept, Owed, Holding, DecodePixels
    <3> QED
      BY <2>0, <2>2, <3>1, <3>2, <3>3 DEF CallInv, Kept, Owed, Decoding
  <2>3. CASE kind[c] = "raw" /\ Goto(c, "encode") /\ UNCHANGED <<todo, dest, res>>
    <3>1. Expected(c)' = {"photo"} /\ Holding(c)' = Holding(c)
      BY <1>6, <2>3 DEF Expected, Holding, Goto, TypeOK, DecodePixels
    <3> QED
      BY <1>6, <2>0, <2>3, <3>1, GotoInv DEF DecodePixels, Stages, Decoding
  <2> QED
    BY <1>6, <2>1, <2>2, <2>3 DEF DecodePixels
<1> QED
  BY <1>1, <1>2, <1>3, <1>4, <1>5, <1>6

\* The canvas, the layout and the encoders.
LEMMA LayoutStages ==
  ASSUME TypeOK, NEW c \in Callers, CallInv(c),
         SizeCanvas(c) \/ BeginLayout(c) \/ CropToCell(c) \/ FitResize(c) \/ FinishCell(c)
           \/ FillGrid(c) \/ Finishing(c) \/ Encode(c)
  PROVE  CallInv(c)'
<1>1. CASE SizeCanvas(c)
  <2>0. op[c] = "none" /\ Holding(c) = {"photo", "arena"} /\ kind[c] = "job"
    BY <1>1 DEF SizeCanvas, At, CallInv, Expected, Kept
  <2>1. Before("canvas", mode[c], kind[c]) = {"photo", "arena"}
    BY DEF Before
  <2> QED
    BY <1>1, <2>0, <2>1, LeaveInv, WantInv, OwedValues, ReturnListMembers, Members DEF SizeCanvas
<1>2. CASE BeginLayout(c)
  <2>0. /\ op[c] = "none" /\ Holding(c) = {"photo", "canvas", "arena"} /\ kind[c] = "job"
        /\ mode[c] \in {"FILL", "FIT"}
    BY <1>2 DEF BeginLayout, At, CallInv, Expected, TypeOK
  <2>1. /\ mode[c] = "FILL" => Before("tmp", mode[c], kind[c]) = {"photo", "canvas", "arena"}
        /\ mode[c] = "FIT" => Before("cell", mode[c], kind[c]) = {"photo", "canvas", "arena"}
    BY DEF Before
  <2> QED
    BY <1>2, <2>0, <2>1, LeaveInv, WantInv, OwedValues, ReturnListMembers, Members DEF BeginLayout
<1>3. CASE CropToCell(c)
  <2>0. /\ op[c] = "none" /\ Holding(c) = {"photo", "canvas", "tmp", "arena"} /\ kind[c] = "job"
        /\ mode[c] = "FILL"
    BY <1>3 DEF CropToCell, At, CallInv, Expected
  <2>1. mode[c] = "FILL" => Before("cell", mode[c], kind[c]) = {"photo", "canvas", "tmp", "arena"}
    BY DEF Before
  <2> QED
    BY <1>3, <2>0, <2>1, LeaveInv, WantInv, OwedValues, ReturnListMembers, Members DEF CropToCell
<1>4. CASE FitResize(c)
  <2>0. /\ op[c] = "none" /\ Holding(c) = {"photo", "canvas", "cell", "arena"} /\ kind[c] = "job"
        /\ mode[c] = "FIT"
    BY <1>4 DEF FitResize, At, CallInv, Expected
  <2>1. mode[c] = "FIT" => Before("tmp", mode[c], kind[c]) = {"photo", "canvas", "cell", "arena"}
    BY DEF Before
  <2> QED
    BY <1>4, <2>0, <2>1, LeaveInv, WantInv, OwedValues, ReturnListMembers, Members DEF FitResize
<1>5. CASE FinishCell(c)
  <2>0. op[c] = "none" /\ Holding(c) = Roles \cup {"arena"} /\ kind[c] = "job"
    BY <1>5 DEF FinishCell, At, CallInv, Expected
  <2>1. /\ pc'[c] = "free" /\ dest'[c] = "cells" /\ todo'[c] = <<"tmp">> /\ op'[c] = "none"
        /\ kind'[c] = "job"
    BY <1>5, <2>0 DEF FinishCell, GiveBack, Goto, TypeOK, slabVars
  <2>2. Kept("cells") = {"photo", "canvas", "cell", "arena"} /\ Owed(todo'[c]) = {"tmp"}
    BY <2>1, OwedValues DEF Kept
  <2>3. Expected(c)' = Roles \cup {"arena"} /\ Holding(c)' = Holding(c)
    BY <1>5, <2>1, <2>2 DEF Expected, Kept, Owed, Roles, Holding, FinishCell
  <2> QED
    BY <2>0, <2>1, <2>2, <2>3 DEF CallInv, Kept, Owed
<1>6. CASE FillGrid(c)
  <2>0. op[c] = "none" /\ Holding(c) = {"photo", "canvas", "cell", "arena"} /\ kind[c] = "job"
    BY <1>6 DEF FillGrid, At, CallInv, Expected, Kept
  <2>1. CASE Leave(c, <<"cell", "photo", "canvas", "arena">>, "NOMEM")
    BY <1>6, <2>0, <2>1, LeaveInv, OwedValues, ReturnListMembers DEF FillGrid
  <2>2. CASE GiveBack(c, <<"cell", "photo">>, "finish")
    <3>1. /\ pc'[c] = "free" /\ dest'[c] = "finish" /\ todo'[c] = <<"cell", "photo">>
          /\ op'[c] = "none" /\ kind'[c] = "job"
      BY <1>6, <2>0, <2>2 DEF FillGrid, GiveBack, Goto, TypeOK, slabVars
    <3>2. Kept("finish") = {"canvas", "arena"} /\ Owed(todo'[c]) = {"cell", "photo"}
      BY <3>1, OwedValues DEF Kept
    <3>3. Expected(c)' = {"photo", "canvas", "cell", "arena"} /\ Holding(c)' = Holding(c)
      BY <1>6, <3>1, <3>2 DEF Expected, Kept, Owed, Holding, FillGrid
    <3> QED
      BY <2>0, <3>1, <3>2, <3>3 DEF CallInv, Kept, Owed
  <2> QED
    BY <1>6, <2>1, <2>2 DEF FillGrid
<1>7. CASE Finishing(c)
  <2>0. op[c] = "none" /\ Holding(c) = {"canvas", "arena"} /\ kind[c] = "job"
    BY <1>7 DEF Finishing, At, CallInv, Expected, Kept
  <2>1. Expected(c)' = {"canvas", "arena"} /\ Holding(c)' = Holding(c) /\ Goto(c, "encode")
    BY <1>7, <2>0 DEF Expected, Holding, Goto, TypeOK, Finishing
  <2> QED
    BY <1>7, <2>0, <2>1, GotoInv DEF Finishing, Stages
<1>8. CASE Encode(c)
  <2>0. op[c] = "none" /\ Holding(c) = IF kind[c] = "job" THEN {"canvas", "arena"} ELSE {"photo"}
    BY <1>8 DEF Encode, JpegResults, PdfResults, At, CallInv, Expected
  <2> QED
    BY <1>8, <2>0, LeaveInv, OwedValues, ReturnListMembers DEF Encode, JpegResults, PdfResults
<1> QED
  BY <1>1, <1>2, <1>3, <1>4, <1>5, <1>6, <1>7, <1>8

\* The calls of the pool.
LEMMA PoolStages ==
  ASSUME TypeOK, NEW c \in Callers, CallInv(c),
         BeginAlloc(c) \/ EndAlloc(c) \/ NoBlock(c) \/ BeginFree(c) \/ EndFree(c) \/ Release(c)
           \/ AllFreed(c)
  PROVE  CallInv(c)'
<1>1. CASE BeginAlloc(c)
  <2>1. pc'[c] = "alloc" /\ op'[c] = "alloc" /\ UNCHANGED jobVars /\ pc[c] = "alloc"
    BY <1>1 DEF BeginAlloc, AllocLoad, jobVars, TypeOK, SlabTypeOK
  <2>2. Holding(c)' = Holding(c) /\ Expected(c)' = Expected(c)
    BY <2>1 DEF Holding, Expected, jobVars
  <2> QED
    BY <2>1, <2>2 DEF CallInv, jobVars
<1>2. CASE EndAlloc(c)
  <2>0. /\ pc[c] = "alloc" /\ Holding(c) = Before(role[c], mode[c], kind[c]) /\ blk[c] \in Blocks
        /\ role[c] \in Roles /\ mode[c] \in {"FILL", "FIT"}
        /\ role[c] # "photo" => kind[c] = "job"
    BY <1>2 DEF EndAlloc, AllocStore, CallInv, Expected, TypeOK, SlabTypeOK
  <2>1. /\ pc'[c] = StageAfter(c) /\ op'[c] = "none" /\ held'[c] = [held[c] EXCEPT ![role[c]] = blk[c]]
        /\ kind' = kind /\ mode' = mode /\ others' = others
    BY <1>2 DEF EndAlloc, AllocStore, Goto, TypeOK, SlabTypeOK
  <2>2. Holding(c)' = Holding(c) \cup {role[c]}
    BY <2>0, <2>1, BlocksAssumption DEF Holding, TypeOK
  <2>3. CASE role[c] = "photo"
    <3>1. pc'[c] = "pixels" /\ Holding(c)' = Decoding(kind[c]) \cup {"photo"}
      BY <2>0, <2>1, <2>2, <2>3 DEF StageAfter, Before
    <3>2. Expected(c)' = Decoding(kind[c]) \cup {"photo"}
      BY <2>1, <3>1 DEF Expected
    <3> QED
      BY <2>1, <3>1, <3>2 DEF CallInv
  <2>4. CASE role[c] = "canvas"
    <3>1. pc'[c] = "layout" /\ Holding(c)' = {"photo", "canvas", "arena"} /\ kind'[c] = "job"
      BY <2>0, <2>1, <2>2, <2>4 DEF StageAfter, Before
    <3>2. Expected(c)' = {"photo", "canvas", "arena"}
      BY <3>1 DEF Expected
    <3> QED
      BY <2>1, <3>1, <3>2 DEF CallInv
  <2>5. CASE role[c] = "tmp"
    <3>1. /\ mode[c] = "FILL" => pc'[c] = "crop" /\ Holding(c)' = {"photo", "canvas", "tmp", "arena"}
          /\ mode[c] = "FIT" => pc'[c] = "copy" /\ Holding(c)' = Roles \cup {"arena"}
          /\ kind'[c] = "job"
      BY <2>0, <2>1, <2>2, <2>5 DEF StageAfter, Before, Roles
    <3>2. Expected(c)' = Holding(c)'
      BY <2>0, <3>1 DEF Expected
    <3> QED
      BY <2>0, <2>1, <3>1, <3>2 DEF CallInv
  <2>6. CASE role[c] = "cell"
    <3>1. /\ mode[c] = "FIT" => pc'[c] = "fit" /\ Holding(c)' = {"photo", "canvas", "cell", "arena"}
          /\ mode[c] = "FILL" => pc'[c] = "copy" /\ Holding(c)' = Roles \cup {"arena"}
          /\ kind'[c] = "job"
      BY <2>0, <2>1, <2>2, <2>6 DEF StageAfter, Before, Roles
    <3>2. Expected(c)' = Holding(c)'
      BY <2>0, <3>1 DEF Expected
    <3> QED
      BY <2>0, <2>1, <3>1, <3>2 DEF CallInv
  <2> QED
    BY <2>0, <2>3, <2>4, <2>5, <2>6 DEF Roles
<1>3. CASE NoBlock(c)
  <2>0. /\ op[c] = "none" /\ Holding(c) = Before(role[c], mode[c], kind[c])
        /\ role[c] \in Roles /\ mode[c] \in {"FILL", "FIT"} /\ kind[c] \in {"job", "raw"}
    BY <1>3 DEF NoBlock, AllocNone, CallInv, Expected, TypeOK
  <2>1. PICK list \in ReturnLists : Leave(c, list, "NOMEM") /\ Owed(list) = Holding(c)
    <3>1. CASE role[c] = "photo"
      BY <1>3, <2>0, <3>1, OwedValues, ReturnListMembers DEF NoBlock, Before, DecodeFailed, Decoding
    <3>2. CASE role[c] = "canvas"
      BY <1>3, <2>0, <3>2, OwedValues, ReturnListMembers DEF NoBlock, Before, DecodeFailed, Decoding
    <3>3. CASE role[c] = "tmp"
      BY <1>3, <2>0, <3>3, OwedValues, ReturnListMembers DEF NoBlock, Before, DecodeFailed, Decoding
    <3>4. CASE role[c] = "cell"
      BY <1>3, <2>0, <3>4, OwedValues, ReturnListMembers DEF NoBlock, Before, DecodeFailed, Decoding
    <3> QED
      BY <2>0, <3>1, <3>2, <3>3, <3>4 DEF Roles
  <2> QED
    BY <1>3, <2>0, <2>1, LeaveInv DEF NoBlock, AllocNone
<1>4. CASE BeginFree(c)
  <2> DEFINE r == Head(todo[c])
             rest == Tail(todo[c])
  <2>0. /\ pc[c] = "free" /\ op[c] = "none" /\ Holding(c) = Owed(todo[c]) \cup Kept(dest[c])
        /\ todo[c] \in ReturnLists /\ todo[c] # << >> /\ Owed(todo[c]) \cap Kept(dest[c]) = {}
    BY <1>4 DEF BeginFree, At, CallInv, Expected, TypeOK
  <2>1. r \in Roles /\ r \in Owed(todo[c]) /\ Owed(rest) = Owed(todo[c]) \ {r}
    BY <1>4, <2>0, ReturnListTail DEF BeginFree
  <2>2. /\ held'[c] = [held[c] EXCEPT ![r] = NULL] /\ todo'[c] = rest /\ op'[c] = "free"
        /\ UNCHANGED <<pc, kind, mode, role, others, dest>>
    BY <1>4 DEF BeginFree, FreeLink, TypeOK, SlabTypeOK
  <2> HIDE DEF r, rest
  <2>3. Holding(c)' = Holding(c) \ {r}
    <3>1. r \notin others[c]
      BY <2>1 DEF TypeOK, Roles, Others
    <3> QED
      BY <2>1, <2>2, <3>1 DEF Holding, TypeOK
  <2>4. Expected(c)' = Owed(rest) \cup Kept(dest[c])
    BY <2>0, <2>2 DEF Expected, Kept
  <2> QED
    BY <2>0, <2>1, <2>2, <2>3, <2>4 DEF CallInv, Kept, Owed
<1>5. CASE EndFree(c)
  <2>1. pc[c] = "free" /\ op'[c] = "none" /\ UNCHANGED jobVars
    BY <1>5 DEF EndFree, FreeStore, TypeOK, SlabTypeOK
  <2>2. Holding(c)' = Holding(c) /\ Expected(c)' = Expected(c)
    BY <2>1 DEF Holding, Expected, jobVars
  <2> QED
    BY <2>1, <2>2 DEF CallInv, jobVars
<1>6. CASE AllFreed(c)
  <2>0. /\ pc[c] = "free" /\ op[c] = "none" /\ Holding(c) = Kept(dest[c])
        /\ dest[c] \in {"idle", "canvas", "cells", "finish"}
    BY <1>6, OwedValues DEF AllFreed, At, CallInv, Expected, TypeOK
  <2>1. /\ pc'[c] = dest[c] /\ op'[c] = "none"
        /\ UNCHANGED <<kind, mode, role, held, others, todo, dest>>
    BY <1>6, <2>0 DEF AllFreed, Goto, TypeOK, slabVars
  <2>2. Holding(c)' = Holding(c) /\ Expected(c)' = Kept(dest[c])
    BY <2>0, <2>1 DEF Holding, Expected, Kept
  <2> QED
    BY <2>0, <2>1, <2>2 DEF CallInv
<1>7. CASE Release(c)
  <2>0. /\ pc[c] = "free" /\ op[c] = "none" /\ Holding(c) = Owed(todo[c]) \cup Kept(dest[c])
        /\ todo[c] \in ReturnLists /\ todo[c] # << >> /\ Owed(todo[c]) \cap Kept(dest[c]) = {}
    BY <1>7 DEF Release, At, CallInv, Expected, TypeOK
  <2>1. PICK r \in Others : r = Head(todo[c])
    BY <1>7 DEF Release
  <2>2. PICK rest \in ReturnLists : rest = Tail(todo[c]) /\ Owed(rest) = Owed(todo[c]) \ {r}
    BY <2>0, <2>1, ReturnListTail
  <2>3. r \in Owed(todo[c])
    BY <2>0, <2>1, ReturnListTail
  <2>4. /\ others'[c] = others[c] \ {r} /\ todo'[c] = rest /\ op'[c] = "none"
        /\ UNCHANGED <<pc, kind, mode, role, held, dest>>
    BY <1>7, <2>0, <2>1, <2>2 DEF Release, TypeOK, slabVars
  <2>5. Holding(c)' = Holding(c) \ {r}
    <3>1. r \notin Roles
      BY <2>1 DEF Roles, Others
    <3> QED
      BY <2>4, <3>1 DEF Holding
  <2>6. Expected(c)' = Owed(rest) \cup Kept(dest[c])
    BY <2>0, <2>4 DEF Expected, Kept
  <2> QED
    BY <2>0, <2>2, <2>3, <2>4, <2>5, <2>6 DEF CallInv, Kept, Owed
<1> QED
  BY <1>1, <1>2, <1>3, <1>4, <1>5, <1>6, <1>7

-----------------------------------------------------------------------------
\* A step of call c leaves every variable of the other calls alone.
LEMMA StepIsLocal ==
  ASSUME TypeOK, NEW c \in Callers, CallJob(c) \/ CallRaw(c) \/ Step(c),
         NEW d \in Callers, d # c
  PROVE  Locals(d)' = Locals(d)
<1> USE DEF TypeOK, SlabTypeOK, Locals, At, Goto, Want, GiveBack, Leave, slabVars, jobVars
<1>1. CASE CallJob(c) \/ CallRaw(c)
  BY <1>1 DEF CallJob, CallRaw
<1>2. CASE LoadInput(c) \/ SecurityGate(c) \/ CreateArena(c)
  BY <1>2 DEF LoadInput, SecurityGate, CreateArena
<1>3. CASE DecodeHeader(c) \/ DecodePixels(c) \/ SizeCanvas(c)
  BY <1>3 DEF DecodeHeader, DecodePixels, SizeCanvas
<1>4. CASE BeginLayout(c) \/ CropToCell(c) \/ FitResize(c)
  BY <1>4 DEF BeginLayout, CropToCell, FitResize
<1>5. CASE FinishCell(c) \/ FillGrid(c) \/ Finishing(c) \/ Encode(c)
  BY <1>5 DEF FinishCell, FillGrid, Finishing, Encode
<1>6. CASE BeginAlloc(c) \/ EndAlloc(c)
  BY <1>6 DEF BeginAlloc, EndAlloc, AllocLoad, AllocStore
<1>7. CASE NoBlock(c)
  BY <1>7 DEF NoBlock, AllocNone
<1>8. CASE BeginFree(c) \/ EndFree(c) \/ Release(c) \/ AllFreed(c)
  BY <1>8 DEF BeginFree, EndFree, Release, AllFreed, FreeLink, FreeStore
<1> QED
  BY <1>1, <1>2, <1>3, <1>4, <1>5, <1>6, <1>7, <1>8 DEF Step

\* At every stage of run_job and process_raw a call holds exactly the buffers, the
\* mapping and the arena that the rest of its path uses and gives back, in every pool
\* and beside any other calls.
THEOREM JobSafety == Spec => []JobInv
<1>1. Init => JobInv
  <2> SUFFICES ASSUME Init, NEW c \in Callers PROVE CallInv(c)
    BY PerCall
  <2>1. Holding(c) = {} /\ Expected(c) = {}
    BY DEF Init, Holding, Expected
  <2> QED
    BY <2>1 DEF Init, SlabInit, CallInv
<1>2. TypeOK /\ JobInv /\ [Next]_vars => JobInv'
  <2>0. JobInv' <=> \A c \in Callers : CallInv(c)'
    BY DEF JobInv, CallInv, HoldsWhatItNeeds, GivesBackOthers, OnlyJobsLayOut,
       ModeStages, PoolCalls
  <2> SUFFICES ASSUME TypeOK, \A c \in Callers : CallInv(c), [Next]_vars, NEW d \in Callers
               PROVE  CallInv(d)'
    BY <2>0, PerCall
  <2>1. CASE UNCHANGED vars
    BY <2>1, OtherCalls DEF vars, jobVars, slabVars, Locals
  <2>2. ASSUME NEW c \in Callers, CallJob(c) \/ CallRaw(c) \/ Step(c) PROVE CallInv(d)'
    <3>1. CASE d # c
      BY <2>2, <3>1, StepIsLocal, OtherCalls
    <3>2. CASE d = c
      BY <2>2, <3>2, DecodeStages, LayoutStages, PoolStages DEF Step
    <3> QED
      BY <3>1, <3>2
  <2> QED
    BY <2>1, <2>2 DEF Next
<1> QED
  BY <1>1, <1>2, JobTypeCorrect, PTL DEF Spec

\* In particular it never uses what it has given back, and a call that returned, with
\* whatever code, has kept nothing: no block, no mapping of its input, no arena.
THEOREM BuffersLive == Spec => []HoldsWhatItNeeds
<1>1. JobInv => HoldsWhatItNeeds
  BY DEF JobInv
<1> QED
  BY <1>1, JobSafety, PTL

-----------------------------------------------------------------------------
\* Calls of the pool follow one another, as with one thread or with a lock around
\* slab.c, which has none.
OneAtATime == \A c, d \in Callers : op[c] # "none" /\ op[d] # "none" => c = d

\* The free list is the first n blocks of order.
IsList(n, order) ==
  /\ \A i, j \in 1 .. n : order[i] = order[j] => i = j
  /\ freeList = IF n = 0 THEN NULL ELSE order[1]
  /\ \A i \in 1 .. n : link[order[i]] = IF i < n THEN order[i + 1] ELSE NULL

\* A caller's blocks, those on their way back included.
With(c) == own[c] \cup InFlight(c)

\* Every block is in one place.
Places(n, order) ==
  /\ \A i \in 1 .. n : order[i] \notin host /\ \A c \in Callers : order[i] \notin With(c)
  /\ \A c \in Callers : With(c) \cap host = {}
  /\ \A c, d \in Callers : c # d => With(c) \cap With(d) = {}
  /\ \A b \in Blocks :
       b \in host \/ (\E i \in 1 .. n : order[i] = b) \/ \E c \in Callers : b \in With(c)

\* What a job holds is its own, a block for each role.
HeldIsOwn ==
  \A c \in Callers :
    /\ \A r \in Roles : held[c][r] # NULL => held[c][r] \in own[c]
    /\ \A r, s \in Roles : held[c][r] # NULL /\ held[c][r] = held[c][s] => r = s

\* What a call in progress has read or written.
InCall ==
  \A c \in Callers :
    /\ op[c] = "alloc" => freeList \in Blocks /\ blk[c] = freeList /\ nxt[c] = link[freeList]
    /\ op[c] = "free" => blk[c] \in Blocks /\ blk[c] \notin own[c] /\ link[blk[c]] = freeList

\* The inductive invariant of the pool: some order of some blocks is the free list, and
\* each other block is in one other place.
PoolInv ==
  /\ \E n \in Nat : \E order \in [1 .. n -> Blocks] : IsList(n, order) /\ Places(n, order)
  /\ HeldIsOwn
  /\ InCall

-----------------------------------------------------------------------------
\* What the definition of Walk asks of a function.
Walks(walk) ==
  walk = [i \in 0 .. Cardinality(Blocks) |->
            IF i = 0 THEN freeList
            ELSE IF walk[i - 1] \in Blocks THEN link[walk[i - 1]] ELSE walk[i - 1]]

\* Walk is a choice among such functions.
LEMMA WalkIsChosen == Walk = CHOOSE walk : Walks(walk)
BY DEF Walk, Walks

\* No list is longer than the pool.
LEMMA ListFits ==
  ASSUME NEW n \in Nat, NEW order \in [1 .. n -> Blocks], IsList(n, order)
  PROVE  n <= Cardinality(Blocks) /\ Cardinality(Blocks) \in Nat
<1>1. IsFiniteSet(1 .. n) /\ Cardinality(1 .. n) = n
  BY FS_Interval
<1>2. ~(Cardinality(Blocks) < n)
  <2>1. Cardinality(Blocks) < n => \E i, j \in 1 .. n : i # j /\ order[i] = order[j]
    BY <1>1, FS_PigeonHole, BlocksAssumption
  <2> QED
    BY <2>1 DEF IsList
<1> QED
  BY <1>2, FS_CardinalityType, BlocksAssumption

\* The walk goes through the list in its order and stays at its end.
LEMMA WalkFollows ==
  ASSUME NEW n \in Nat, NEW order \in [1 .. n -> Blocks], IsList(n, order)
  PROVE  Walk = [i \in 0 .. Cardinality(Blocks) |-> IF i < n THEN order[i + 1] ELSE NULL]
<1> DEFINE C == Cardinality(Blocks)
           v(i) == IF i < n THEN order[i + 1] ELSE NULL
           w == [i \in 0 .. C |-> v(i)]
<1>0. C \in Nat /\ n <= C
  BY ListFits
<1> HIDE DEF C
<1>1. \A i \in 0 .. C : v(i) = IF i = 0 THEN freeList
                               ELSE IF v(i - 1) \in Blocks THEN link[v(i - 1)] ELSE v(i - 1)
  <2> TAKE i \in 0 .. C
  <2>1. CASE i = 0
    BY <2>1 DEF IsList
  <2>2. CASE i > 0 /\ i - 1 < n
    <3>1. i \in 1 .. n /\ v(i - 1) = order[i]
      BY <2>2, <1>0
    <3>2. order[i] \in Blocks /\ link[order[i]] = v(i)
      BY <3>1 DEF IsList
    <3> QED
      BY <2>2, <3>1, <3>2
  <2>3. CASE i > 0 /\ ~(i - 1 < n)
    <3>1. v(i - 1) = NULL /\ v(i) = NULL
      BY <2>3, <1>0
    <3> QED
      BY <2>3, <3>1, BlocksAssumption
  <2> QED
    BY <2>1, <2>2, <2>3, <1>0
<1> HIDE DEF v
<1>2. \A i \in 0 .. C : i # 0 => i - 1 \in 0 .. C
  BY <1>0
<1>3. Walks(w)
  BY <1>1, <1>2 DEF Walks, C
<1>4. Walks(Walk)
  <2> HIDE DEF w
  <2> QED
    BY <1>3, WalkIsChosen
<1>5. \A i \in 0 .. C : Walk[i] = IF i = 0 THEN freeList
                                  ELSE IF Walk[i - 1] \in Blocks THEN link[Walk[i - 1]]
                                       ELSE Walk[i - 1]
  BY <1>4 DEF Walks, C
<1> DEFINE D == {i \in 0 .. C : Walk[i] # w[i]}
<1>6. D = {}
  <2> SUFFICES ASSUME D # {} PROVE FALSE
    OBVIOUS
  <2>1. D \subseteq Nat
    BY <1>0
  <2>2. PICK m \in D : \A k \in D : m <= k
    <3> HIDE DEF D
    <3> QED
      BY <2>1, SmallestNumber
  <2>3. m \in 0 .. C /\ Walk[m] # v(m)
    OBVIOUS
  <2>4. m # 0
    BY <2>3, <1>1, <1>5
  <2>5. m - 1 \in 0 .. C /\ m - 1 \notin D
    BY <2>2, <2>3, <2>4, <1>0
  <2>6. Walk[m - 1] = v(m - 1)
    BY <2>5
  <2> QED
    BY <2>3, <2>4, <2>6, <1>1, <1>5
<1>7. DOMAIN Walk = 0 .. C /\ Walk = [i \in DOMAIN Walk |-> Walk[i]]
  BY <1>4 DEF Walks, C
<1>8. Walk = w
  BY <1>6, <1>7
<1> QED
  BY <1>8 DEF v, C

-----------------------------------------------------------------------------
\* The invariant says what the pool promises.
LEMMA PoolInvSound == TypeOK /\ PoolInv => PoolSound
<1> SUFFICES ASSUME TypeOK, PoolInv PROVE PoolSound
  OBVIOUS
<1>1. PICK n \in Nat : \E order \in [1 .. n -> Blocks] : IsList(n, order) /\ Places(n, order)
  BY DEF PoolInv
<1>2. PICK order \in [1 .. n -> Blocks] : IsList(n, order) /\ Places(n, order)
  BY <1>1
<1> DEFINE C == Cardinality(Blocks)
<1>3. C \in Nat /\ n <= C
  BY <1>2, ListFits
<1>4. Walk = [i \in 0 .. C |-> IF i < n THEN order[i + 1] ELSE NULL]
  BY <1>2, WalkFollows
<1> HIDE DEF C
<1>5. ListSound
  <2>1. Walk[C] = NULL
    BY <1>3, <1>4
  <2> QED
    BY <2>1 DEF ListSound, C
<1>6. Chain = {order[i] : i \in 1 .. n}
  <2>1. ASSUME NEW b \in Chain PROVE \E i \in 1 .. n : order[i] = b
    <3>1. PICK i \in 0 .. C : b = Walk[i] /\ b \in Blocks
      BY <1>4 DEF Chain
    <3>2. i < n /\ b = order[i + 1]
      BY <1>4, <3>1, BlocksAssumption
    <3>3. i + 1 \in 1 .. n
      BY <1>3, <3>2
    <3> QED
      BY <3>2, <3>3
  <2>2. ASSUME NEW i \in 1 .. n PROVE order[i] \in Chain
    <3>1. i - 1 \in 0 .. C /\ i - 1 < n /\ (i - 1) + 1 = i
      BY <1>3
    <3>2. Walk[i - 1] = order[i] /\ i - 1 \in DOMAIN Walk
      BY <1>4, <3>1
    <3>3. order[i] \in Blocks
      OBVIOUS
    <3> QED
      BY <3>2, <3>3 DEF Chain
  <2> QED
    BY <2>1, <2>2
<1>7. Exclusive
  BY <1>2, <1>6 DEF Exclusive, Places, With
<1>8. Conserved
  <2>1. host \subseteq Blocks /\ \A c \in Callers : With(c) \subseteq Blocks
    BY DEF TypeOK, SlabTypeOK, PoolInv, InCall, With, InFlight
  <2>2. Chain \subseteq Blocks
    BY DEF Chain
  <2> DEFINE U == UNION {With(c) : c \in Callers}
  <2>3. \A b : b \in U <=> \E c \in Callers : b \in With(c)
    OBVIOUS
  <2>4. \A b \in Blocks : b \in host \/ b \in Chain \/ b \in U
    BY <1>2, <1>6, <2>3 DEF Places
  <2>5. U \subseteq Blocks
    BY <2>1, <2>3
  <2> HIDE DEF U
  <2>6. Blocks = host \cup Chain \cup U
    BY <2>1, <2>2, <2>4, <2>5
  <2> QED
    BY <2>6 DEF Conserved, U, With
<1> QED
  BY <1>5, <1>7, <1>8 DEF PoolSound

\* Init makes such a list.
LEMMA PoolInitInv == Init => PoolInv
<1> SUFFICES ASSUME Init PROVE PoolInv
  OBVIOUS
<1> DEFINE Start(order) ==
             /\ \A i, j \in DOMAIN order : order[i] = order[j] => i = j
             /\ host = Blocks \ {order[i] : i \in DOMAIN order}
             /\ freeList = IF DOMAIN order = {} THEN NULL ELSE order[1]
             /\ link = [b \in Blocks |->
                          IF b \in host THEN JUNK
                          ELSE LET i == CHOOSE i \in DOMAIN order : order[i] = b
                               IN  IF i + 1 \in DOMAIN order THEN order[i + 1] ELSE NULL]
<1>1. PICK n \in 0 .. Cardinality(Blocks) : \E order \in [1 .. n -> Blocks] : Start(order)
  BY DEF Init, SlabInit, ChainInit
<1>2. PICK order \in [1 .. n -> Blocks] : Start(order)
  BY <1>1
<1>3. n \in Nat /\ DOMAIN order = 1 .. n
  BY BlocksAssumption, FS_CardinalityType
<1>4. \A i \in 1 .. n : link[order[i]] = IF i < n THEN order[i + 1] ELSE NULL
  <2> TAKE i \in 1 .. n
  <2> DEFINE k == CHOOSE j \in DOMAIN order : order[j] = order[i]
  <2>1. k \in 1 .. n /\ order[k] = order[i]
    BY <1>3
  <2>2. k = i
    BY <1>2, <1>3, <2>1
  <2>3. order[i] \in Blocks /\ order[i] \notin host
    BY <1>2, <1>3
  <2>4. link[order[i]] = IF k + 1 \in DOMAIN order THEN order[k + 1] ELSE NULL
    BY <1>2, <2>3
  <2> HIDE DEF k
  <2>5. i + 1 \in 1 .. n <=> i < n
    BY <1>3
  <2> QED
    BY <1>3, <2>2, <2>4, <2>5
<1>5. IsList(n, order)
  <2>1. DOMAIN order = {} <=> n = 0
    BY <1>3
  <2> QED
    BY <1>2, <1>3, <1>4, <2>1 DEF IsList
<1>6. \A c \in Callers : With(c) = {}
  BY DEF Init, SlabInit, With, InFlight
<1>7. Places(n, order)
  BY <1>2, <1>3, <1>6 DEF Places
<1>8. HeldIsOwn /\ InCall
  BY DEF Init, SlabInit, HeldIsOwn, InCall
<1> QED
  BY <1>3, <1>5, <1>7, <1>8 DEF PoolInv

\* A step outside the pool changes nothing here.
LEMMA PoolFrame ==
  ASSUME PoolInv, UNCHANGED <<slabVars, held>>
  PROVE  PoolInv'
BY DEF PoolInv, slabVars, IsList, Places, With, InFlight, HeldIsOwn, InCall

\* BeginAlloc reads the first block and the next.
LEMMA PoolBeginAlloc ==
  ASSUME TypeOK, PoolInv, OneAtATime', NEW c \in Callers, BeginAlloc(c)
  PROVE  PoolInv'
<1>1. /\ op[c] = "none" /\ freeList \in Blocks
      /\ op' = [op EXCEPT ![c] = "alloc"] /\ blk' = [blk EXCEPT ![c] = freeList]
      /\ nxt' = [nxt EXCEPT ![c] = link[freeList]]
      /\ UNCHANGED <<freeList, link, own, host, held>>
  BY DEF BeginAlloc, AllocLoad, jobVars
<1>2. \A d \in Callers : With(d)' = With(d)
  BY <1>1 DEF With, InFlight, TypeOK, SlabTypeOK
<1>3. ASSUME NEW n \in Nat, NEW order \in [1 .. n -> Blocks], IsList(n, order), Places(n, order)
      PROVE  IsList(n, order)' /\ Places(n, order)'
  BY <1>1, <1>2, <1>3 DEF IsList, Places
<1>4. HeldIsOwn'
  BY <1>1 DEF HeldIsOwn, PoolInv
<1>5. InCall'
  BY <1>1 DEF InCall, PoolInv, OneAtATime, TypeOK, SlabTypeOK
<1> QED
  BY <1>3, <1>4, <1>5 DEF PoolInv

\* BeginFree links the block before the list it read.
LEMMA PoolBeginFree ==
  ASSUME TypeOK, JobInv, PoolInv, OneAtATime', NEW c \in Callers, BeginFree(c)
  PROVE  PoolInv'
<1>1. PICK r \in Roles : r = Head(todo[c]) /\ r \in Owed(todo[c])
  BY ReturnListTail DEF BeginFree, TypeOK
<1>2. held[c][r] # NULL
  <2>1. r \in Holding(c)
    BY <1>1 DEF BeginFree, At, JobInv, HoldsWhatItNeeds, Expected
  <2>2. r \notin others[c]
    BY <1>1 DEF TypeOK, Roles, Others
  <2> QED
    BY <2>1, <2>2 DEF Holding
<1>3. PICK b \in Blocks : b = held[c][r]
  BY <1>1, <1>2 DEF TypeOK
<1>4. /\ op[c] = "none"
      /\ link' = [link EXCEPT ![b] = freeList]
      /\ op' = [op EXCEPT ![c] = "free"] /\ blk' = [blk EXCEPT ![c] = b]
      /\ own' = [own EXCEPT ![c] = own[c] \ {b}]
      /\ held' = [held EXCEPT ![c][r] = NULL]
      /\ UNCHANGED <<freeList, nxt, host>>
  BY <1>1, <1>3 DEF BeginFree, FreeLink
<1>5. b \in own[c]
  BY <1>1, <1>2, <1>3 DEF PoolInv, HeldIsOwn
<1>6. \A d \in Callers : With(d)' = With(d)
  <2> TAKE d \in Callers
  <2>1. CASE d = c
    <3>1. With(c) = own[c]
      BY <1>4 DEF With, InFlight
    <3>2. With(c)' = (own[c] \ {b}) \cup {b}
      BY <1>4 DEF With, InFlight, TypeOK, SlabTypeOK
    <3> QED
      BY <1>5, <2>1, <3>1, <3>2
  <2>2. CASE d # c
    BY <1>4, <2>2 DEF With, InFlight, TypeOK, SlabTypeOK
  <2> QED
    BY <2>1, <2>2
<1>7. ASSUME NEW n \in Nat, NEW order \in [1 .. n -> Blocks], IsList(n, order), Places(n, order)
      PROVE  IsList(n, order)' /\ Places(n, order)'
  <2>1. \A i \in 1 .. n : order[i] # b
    BY <1>5, <1>7 DEF Places, With
  <2>2. \A i \in 1 .. n : link'[order[i]] = link[order[i]]
    BY <1>4, <2>1 DEF TypeOK, SlabTypeOK
  <2>3. IsList(n, order)'
    BY <1>4, <1>7, <2>2 DEF IsList
  <2> QED
    BY <1>4, <1>6, <1>7, <2>3 DEF Places
<1>8. HeldIsOwn'
  <2> SUFFICES ASSUME NEW d \in Callers
               PROVE  /\ \A p \in Roles : held'[d][p] # NULL => held'[d][p] \in own'[d]
                      /\ \A p, s \in Roles :
                           held'[d][p] # NULL /\ held'[d][p] = held'[d][s] => p = s
    BY DEF HeldIsOwn
  <2>0. /\ \A p \in Roles : held[d][p] # NULL => held[d][p] \in own[d]
        /\ \A p, s \in Roles : held[d][p] # NULL /\ held[d][p] = held[d][s] => p = s
    BY DEF PoolInv, HeldIsOwn
  <2>1. CASE d = c
    <3>1. own'[d] = own[d] \ {b} /\ held'[d][r] = NULL
          /\ \A p \in Roles : p # r => held'[d][p] = held[d][p]
      BY <1>4, <2>1 DEF TypeOK, SlabTypeOK
    <3>2. \A p \in Roles : p # r => held[d][p] # b
      BY <1>2, <1>3, <2>0, <2>1
    <3> QED
      BY <2>0, <3>1, <3>2
  <2>2. CASE d # c
    <3>1. own'[d] = own[d] /\ held'[d] = held[d]
      BY <1>4, <2>2 DEF TypeOK, SlabTypeOK
    <3> QED
      BY <2>0, <3>1
  <2> QED
    BY <2>1, <2>2
<1>9. InCall'
  <2> SUFFICES ASSUME NEW d \in Callers, op'[d] # "none"
               PROVE  /\ op'[d] = "free" /\ blk'[d] \in Blocks /\ blk'[d] \notin own'[d]
                      /\ link'[blk'[d]] = freeList'
    BY DEF InCall
  <2>1. op'[c] = "free" /\ blk'[c] = b /\ own'[c] = own[c] \ {b} /\ link'[b] = freeList
    BY <1>4 DEF TypeOK, SlabTypeOK
  <2>2. d = c
    BY <2>1 DEF OneAtATime
  <2> QED
    BY <1>4, <2>1, <2>2
<1> QED
  BY <1>7, <1>8, <1>9 DEF PoolInv

\* EndAlloc takes the first block off the list, which nobody changed since.
LEMMA PoolEndAlloc ==
  ASSUME TypeOK, PoolInv, OneAtATime, NEW c \in Callers, EndAlloc(c)
  PROVE  PoolInv'
<1>1. PICK n \in Nat : \E order \in [1 .. n -> Blocks] : IsList(n, order) /\ Places(n, order)
  BY DEF PoolInv
<1>2. PICK order \in [1 .. n -> Blocks] : IsList(n, order) /\ Places(n, order)
  BY <1>1
<1>3. PICK r \in Roles : r = role[c]
  BY DEF TypeOK
<1>4. op[c] = "alloc" /\ freeList \in Blocks /\ blk[c] = freeList /\ nxt[c] = link[freeList]
  BY DEF EndAlloc, AllocStore, PoolInv, InCall
<1>5. /\ freeList' = link[freeList]
      /\ link' = [link EXCEPT ![freeList] = JUNK]
      /\ own' = [own EXCEPT ![c] = own[c] \cup {freeList}]
      /\ op' = [op EXCEPT ![c] = "none"] /\ blk' = [blk EXCEPT ![c] = NULL]
      /\ held' = [held EXCEPT ![c][r] = freeList]
      /\ UNCHANGED host
  BY <1>3, <1>4 DEF EndAlloc, AllocStore
<1>6. n # 0 /\ 1 \in 1 .. n /\ freeList = order[1] /\ n - 1 \in Nat
  <2>1. n # 0
    BY <1>2, <1>4, BlocksAssumption DEF IsList
  <2> QED
    BY <1>2, <2>1 DEF IsList
<1>7. \A i \in 1 .. n - 1 : i \in 1 .. n /\ i + 1 \in 1 .. n /\ i + 1 # 1
  BY <1>6
<1> DEFINE rest == [i \in 1 .. n - 1 |-> order[i + 1]]
<1>8. rest \in [1 .. n - 1 -> Blocks]
  BY <1>7
<1>9. With(c)' = With(c) \cup {order[1]} /\ \A d \in Callers : d # c => With(d)' = With(d)
  <2>1. op'[c] = "none" /\ own'[c] = own[c] \cup {freeList}
    BY <1>5 DEF TypeOK, SlabTypeOK
  <2>2. With(c)' = own[c] \cup {freeList} /\ With(c) = own[c]
    BY <1>4, <2>1 DEF With, InFlight
  <2>3. \A d \in Callers : d # c => op'[d] = op[d] /\ own'[d] = own[d] /\ blk'[d] = blk[d]
    BY <1>5 DEF TypeOK, SlabTypeOK
  <2> QED
    BY <1>6, <2>2, <2>3 DEF With, InFlight
<1>10. IsList(n - 1, rest)'
  <2>1. \A i \in 1 .. n - 1 : rest[i] = order[i + 1] /\ order[i + 1] # order[1]
    BY <1>2, <1>6, <1>7 DEF IsList
  <2>2. freeList' = IF n - 1 = 0 THEN NULL ELSE rest[1]
    <3>1. link[order[1]] = IF 1 < n THEN order[1 + 1] ELSE NULL
      BY <1>2, <1>6 DEF IsList
    <3>2. n - 1 # 0 => 1 < n /\ 1 \in 1 .. n - 1
      BY <1>6
    <3>3. n - 1 = 0 => ~(1 < n)
      OBVIOUS
    <3> QED
      BY <1>5, <1>6, <2>1, <3>1, <3>2, <3>3
  <2>3. ASSUME NEW i \in 1 .. n - 1
        PROVE  link'[rest[i]] = IF i < n - 1 THEN rest[i + 1] ELSE NULL
    <3>1. rest[i] \in Blocks /\ link'[rest[i]] = link[order[i + 1]]
      BY <1>5, <1>6, <1>8, <2>1 DEF TypeOK, SlabTypeOK
    <3>2. link[order[i + 1]] = IF i + 1 < n THEN order[(i + 1) + 1] ELSE NULL
      BY <1>2, <1>7 DEF IsList
    <3>3. (i + 1 < n <=> i < n - 1) /\ (i < n - 1 => i + 1 \in 1 .. n - 1)
      BY <1>6
    <3> QED
      BY <2>1, <3>1, <3>2, <3>3
  <2>4. ASSUME NEW i \in 1 .. n - 1, NEW j \in 1 .. n - 1, rest[i] = rest[j] PROVE i = j
    <3>1. order[i + 1] = order[j + 1] /\ i + 1 \in 1 .. n /\ j + 1 \in 1 .. n
      BY <1>7, <2>1, <2>4
    <3>2. i + 1 = j + 1
      BY <1>2, <3>1 DEF IsList
    <3> QED
      BY <3>2
  <2> HIDE DEF rest
  <2> QED
    BY <2>2, <2>3, <2>4 DEF IsList
<1>11. Places(n - 1, rest)'
  <2>1. \A i \in 1 .. n : order[i] \notin host /\ \A d \in Callers : order[i] \notin With(d)
    BY <1>2 DEF Places
  <2>2. \A i \in 1 .. n - 1 : rest[i] = order[i + 1] /\ order[i + 1] # order[1]
    BY <1>2, <1>6, <1>7 DEF IsList
  <2>3. \A i \in 1 .. n - 1 : rest[i] \notin host' /\ \A d \in Callers : rest[i] \notin With(d)'
    BY <1>5, <1>7, <1>9, <2>1, <2>2
  <2>4. \A d \in Callers : With(d)' \cap host' = {}
    BY <1>2, <1>5, <1>6, <1>9, <2>1 DEF Places
  <2>5. \A d, e \in Callers : d # e => With(d)' \cap With(e)' = {}
    BY <1>2, <1>6, <1>9, <2>1 DEF Places
  <2>6. ASSUME NEW b \in Blocks
        PROVE  \/ b \in host' \/ (\E i \in 1 .. n - 1 : rest[i] = b)
               \/ \E d \in Callers : b \in With(d)'
    <3>1. CASE b \in host
      BY <1>5, <3>1
    <3>2. CASE \E d \in Callers : b \in With(d)
      BY <1>9, <3>2
    <3>3. ASSUME NEW i \in 1 .. n, order[i] = b
          PROVE  (\E j \in 1 .. n - 1 : rest[j] = b) \/ b \in With(c)'
      <4>1. CASE i = 1
        BY <1>9, <3>3, <4>1
      <4>2. CASE i # 1
        <5>1. i - 1 \in 1 .. n - 1 /\ (i - 1) + 1 = i
          BY <1>6, <4>2
        <5> QED
          BY <2>2, <3>3, <5>1
      <4> QED
        BY <4>1, <4>2
    <3> QED
      BY <1>2, <3>1, <3>2, <3>3 DEF Places
  <2> HIDE DEF rest
  <2> QED
    BY <2>3, <2>4, <2>5, <2>6 DEF Places
<1>12. HeldIsOwn'
  <2> SUFFICES ASSUME NEW d \in Callers
               PROVE  /\ \A p \in Roles : held'[d][p] # NULL => held'[d][p] \in own'[d]
                      /\ \A p, s \in Roles :
                           held'[d][p] # NULL /\ held'[d][p] = held'[d][s] => p = s
    BY DEF HeldIsOwn
  <2>0. /\ \A p \in Roles : held[d][p] # NULL => held[d][p] \in own[d]
        /\ \A p, s \in Roles : held[d][p] # NULL /\ held[d][p] = held[d][s] => p = s
    BY DEF PoolInv, HeldIsOwn
  <2>1. CASE d = c
    <3>1. /\ own'[d] = own[d] \cup {freeList} /\ held'[d][r] = freeList
          /\ \A p \in Roles : p # r => held'[d][p] = held[d][p]
      BY <1>5, <2>1 DEF TypeOK, SlabTypeOK
    <3>2. freeList \notin own[d] /\ freeList # NULL
      BY <1>2, <1>4, <1>6, BlocksAssumption DEF Places, With
    <3>3. \A p \in Roles : held[d][p] # freeList
      BY <2>0, <3>2
    <3> QED
      BY <2>0, <3>1, <3>2, <3>3
  <2>2. CASE d # c
    <3>1. own'[d] = own[d] /\ held'[d] = held[d]
      BY <1>5, <2>2 DEF TypeOK, SlabTypeOK
    <3> QED
      BY <2>0, <3>1
  <2> QED
    BY <2>1, <2>2
<1>13. InCall'
  <2>1. \A d \in Callers : op'[d] = "none"
    BY <1>4, <1>5 DEF OneAtATime, TypeOK, SlabTypeOK
  <2> QED
    BY <2>1 DEF InCall
<1> HIDE DEF rest
<1>14. \E k \in Nat : \E list \in [1 .. k -> Blocks] : IsList(k, list)' /\ Places(k, list)'
  BY <1>6, <1>8, <1>10, <1>11
<1> QED
  BY <1>12, <1>13, <1>14 DEF PoolInv

\* EndFree makes the block it linked the first of the list.
LEMMA PoolEndFree ==
  ASSUME TypeOK, PoolInv, OneAtATime, NEW c \in Callers, EndFree(c)
  PROVE  PoolInv'
<1>1. PICK n \in Nat : \E order \in [1 .. n -> Blocks] : IsList(n, order) /\ Places(n, order)
  BY DEF PoolInv
<1>2. PICK order \in [1 .. n -> Blocks] : IsList(n, order) /\ Places(n, order)
  BY <1>1
<1>3. PICK b \in Blocks : b = blk[c] /\ b \notin own[c] /\ link[b] = freeList /\ op[c] = "free"
  BY DEF EndFree, FreeStore, PoolInv, InCall
<1>4. /\ freeList' = b
      /\ op' = [op EXCEPT ![c] = "none"] /\ blk' = [blk EXCEPT ![c] = NULL]
      /\ UNCHANGED <<link, nxt, own, host, held>>
  BY <1>3 DEF EndFree, FreeStore, jobVars
<1>5. n + 1 \in Nat /\ n + 1 # 0 /\ 1 \in 1 .. n + 1
  OBVIOUS
<1>6. \A i \in 1 .. n + 1 : i # 1 => i - 1 \in 1 .. n
  OBVIOUS
<1> DEFINE longer == [i \in 1 .. n + 1 |-> IF i = 1 THEN b ELSE order[i - 1]]
<1>7. longer \in [1 .. n + 1 -> Blocks]
  BY <1>6
<1>8. longer[1] = b /\ \A i \in 1 .. n : i + 1 \in 1 .. n + 1 /\ longer[i + 1] = order[i]
  <2>1. \A i \in 1 .. n : i + 1 \in 1 .. n + 1 /\ i + 1 # 1 /\ (i + 1) - 1 = i
    OBVIOUS
  <2> QED
    BY <1>5, <2>1
<1>9. b \in With(c) /\ With(c)' = With(c) \ {b} /\ \A d \in Callers : d # c => With(d)' = With(d)
  <2>1. op'[c] = "none" /\ own'[c] = own[c]
    BY <1>4 DEF TypeOK, SlabTypeOK
  <2>2. With(c)' = own[c] /\ With(c) = own[c] \cup {b}
    BY <1>3, <2>1 DEF With, InFlight
  <2>3. \A d \in Callers : d # c => op'[d] = op[d] /\ own'[d] = own[d] /\ blk'[d] = blk[d]
    BY <1>4 DEF TypeOK, SlabTypeOK
  <2> QED
    BY <1>3, <2>2, <2>3 DEF With, InFlight
<1>10. \A i \in 1 .. n : order[i] # b
  BY <1>2, <1>9 DEF Places
<1>11. \A i \in 1 .. n + 1 : i = 1 \/ \E j \in 1 .. n : i = j + 1
  <2> TAKE i \in 1 .. n + 1
  <2>1. i # 1 => i - 1 \in 1 .. n /\ i = (i - 1) + 1
    OBVIOUS
  <2> QED
    BY <2>1
<1> HIDE DEF longer
<1>12. IsList(n + 1, longer)'
  <2>1. ASSUME NEW i \in 1 .. n + 1, NEW j \in 1 .. n + 1, longer[i] = longer[j] PROVE i = j
    <3>1. CASE i = 1 /\ j = 1
      BY <3>1
    <3>2. ASSUME NEW k \in 1 .. n, (i = k + 1 /\ j = 1) \/ (i = 1 /\ j = k + 1) PROVE FALSE
      BY <1>8, <1>10, <2>1, <3>2
    <3>3. ASSUME NEW k \in 1 .. n, NEW l \in 1 .. n, i = k + 1, j = l + 1 PROVE i = j
      <4>1. order[k] = order[l]
        BY <1>8, <2>1, <3>3
      <4> QED
        BY <1>2, <3>3, <4>1 DEF IsList
    <3> QED
      BY <1>11, <3>1, <3>2, <3>3
  <2>2. link[longer[1]] = IF 1 < n + 1 THEN longer[1 + 1] ELSE NULL
    <3>1. CASE n = 0
      BY <1>2, <1>3, <1>8, <3>1 DEF IsList
    <3>2. CASE n # 0
      <4>1. 1 \in 1 .. n /\ 1 < n + 1 /\ link[b] = order[1]
        BY <1>2, <1>3, <3>2 DEF IsList
      <4> QED
        BY <1>8, <4>1
    <3> QED
      BY <3>1, <3>2
  <2>3. ASSUME NEW j \in 1 .. n
        PROVE  link[longer[j + 1]] = IF j + 1 < n + 1 THEN longer[(j + 1) + 1] ELSE NULL
    <3>1. link[order[j]] = IF j < n THEN order[j + 1] ELSE NULL
      BY <1>2 DEF IsList
    <3>2. (j + 1 < n + 1 <=> j < n) /\ (j < n => j + 1 \in 1 .. n)
      OBVIOUS
    <3> QED
      BY <1>8, <3>1, <3>2
  <2>4. \A i \in 1 .. n + 1 :
          link'[longer[i]] = IF i < n + 1 THEN longer[i + 1] ELSE NULL
    BY <1>4, <1>11, <2>2, <2>3
  <2> QED
    BY <1>4, <1>5, <1>8, <2>1, <2>4 DEF IsList
<1>13. Places(n + 1, longer)'
  <2>1. \A i \in 1 .. n : order[i] \notin host /\ \A d \in Callers : order[i] \notin With(d)
    BY <1>2 DEF Places
  <2>2. b \notin host /\ \A d \in Callers : b \notin With(d)'
    BY <1>2, <1>9 DEF Places
  <2>3. \A d \in Callers : With(d)' \subseteq With(d)
    BY <1>9
  <2>4. \A i \in 1 .. n + 1 : longer[i] \notin host' /\ \A d \in Callers : longer[i] \notin With(d)'
    <3> TAKE i \in 1 .. n + 1
    <3>1. CASE i = 1
      BY <1>4, <1>8, <2>2, <3>1
    <3>2. ASSUME NEW j \in 1 .. n, i = j + 1
          PROVE  longer[i] \notin host' /\ \A d \in Callers : longer[i] \notin With(d)'
      <4>1. longer[i] = order[j]
        BY <1>8, <3>2
      <4> QED
        BY <1>4, <2>1, <2>3, <4>1
    <3> QED
      BY <1>11, <3>1, <3>2
  <2>5. /\ \A d \in Callers : With(d)' \cap host' = {}
        /\ \A d, e \in Callers : d # e => With(d)' \cap With(e)' = {}
    BY <1>2, <1>4, <2>3 DEF Places
  <2>6. ASSUME NEW a \in Blocks
        PROVE  \/ a \in host' \/ (\E i \in 1 .. n + 1 : longer[i] = a)
               \/ \E d \in Callers : a \in With(d)'
    <3>1. CASE a = b
      BY <1>5, <1>8, <3>1
    <3>2. CASE a # b
      <4>1. \A d \in Callers : a \in With(d) => a \in With(d)'
        BY <1>9, <3>2
      <4>2. (\E i \in 1 .. n : order[i] = a) => \E i \in 1 .. n + 1 : longer[i] = a
        BY <1>8
      <4> QED
        BY <1>2, <1>4, <4>1, <4>2 DEF Places
    <3> QED
      BY <3>1, <3>2
  <2> QED
    BY <2>4, <2>5, <2>6 DEF Places
<1>14. HeldIsOwn'
  BY <1>4 DEF HeldIsOwn, PoolInv
<1>15. InCall'
  <2>1. \A d \in Callers : op'[d] = "none"
    BY <1>3, <1>4 DEF OneAtATime, TypeOK, SlabTypeOK
  <2> QED
    BY <2>1 DEF InCall
<1>16. \E k \in Nat : \E list \in [1 .. k -> Blocks] : IsList(k, list)' /\ Places(k, list)'
  BY <1>5, <1>7, <1>12, <1>13
<1> QED
  BY <1>14, <1>15, <1>16 DEF PoolInv

\* Every other step of a job, or of its way out, leaves the pool alone.
LEMMA PoolInvStep ==
  ASSUME TypeOK, JobInv, PoolInv, OneAtATime, OneAtATime', [Next]_vars
  PROVE  PoolInv'
<1>1. CASE UNCHANGED vars
  BY <1>1, PoolFrame DEF vars, jobVars
<1>2. ASSUME NEW c \in Callers, CallJob(c) \/ CallRaw(c) \/ Step(c) PROVE PoolInv'
  <2>1. CASE CallJob(c) \/ CallRaw(c)
    BY <2>1, PoolFrame DEF CallJob, CallRaw
  <2>2. CASE LoadInput(c) \/ SecurityGate(c) \/ CreateArena(c) \/ DecodeHeader(c)
    BY <2>2, PoolFrame DEF LoadInput, SecurityGate, CreateArena, DecodeHeader
  <2>3. CASE DecodePixels(c) \/ SizeCanvas(c) \/ BeginLayout(c) \/ CropToCell(c)
    BY <2>3, PoolFrame DEF DecodePixels, SizeCanvas, BeginLayout, CropToCell
  <2>4. CASE FitResize(c) \/ FinishCell(c) \/ FillGrid(c) \/ Finishing(c) \/ Encode(c)
    BY <2>4, PoolFrame DEF FitResize, FinishCell, FillGrid, Finishing, Encode
  <2>5. CASE NoBlock(c) \/ Release(c) \/ AllFreed(c)
    BY <2>5, PoolFrame DEF NoBlock, AllocNone, Release, AllFreed
  <2>6. CASE BeginAlloc(c) \/ EndAlloc(c) \/ BeginFree(c) \/ EndFree(c)
    BY <2>6, PoolBeginAlloc, PoolEndAlloc, PoolBeginFree, PoolEndFree
  <2> QED
    BY <1>2, <2>1, <2>2, <2>3, <2>4, <2>5, <2>6 DEF Step
<1> QED
  BY <1>1, <1>2 DEF Next

\* Whatever jobs take and give back and whichever allocation fails, the free list stays
\* exact, no block is in two places and none is lost, as long as calls of slab.c follow
\* one another; slab.c itself does nothing to make them.
THEOREM PoolSoundInTurn == Spec /\ []OneAtATime => []PoolSound
<1>1. TypeOK /\ JobInv /\ PoolInv /\ OneAtATime /\ OneAtATime' /\ [Next]_vars => PoolInv'
  BY PoolInvStep
<1> QED
  BY <1>1, PoolInitInv, PoolInvSound, JobTypeCorrect, JobSafety, PTL DEF Spec

\* In particular with one thread, for every pool, whatever the host keeps of it.
THEOREM PoolSoundAlone == (\A c, d \in Callers : c = d) => (Spec => []PoolSound)
<1> SUFFICES ASSUME \A c, d \in Callers : c = d PROVE Spec => []PoolSound
  OBVIOUS
<1>1. OneAtATime
  BY DEF OneAtATime
<1> QED
  BY <1>1, PoolSoundInTurn, PTL

=============================================================================
