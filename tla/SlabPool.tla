------------------------------ MODULE SlabPool ------------------------------
(***************************************************************************)
(* memory/slab.c: a pool of equal blocks chained into a free list through  *)
(* their own first bytes.  The pool has no lock and no atomics: a call     *)
(* reads the list in one step and writes it in another.                    *)
(*                                                                         *)
(* The module has the steps of the pool's calls; PrintJob, which extends   *)
(* it, makes them at the places where the jobs of api.c do.                *)
(***************************************************************************)
EXTENDS Naturals, FiniteSets

CONSTANTS
  Blocks,   \* the blocks of the pool
  Callers,  \* threads that use the pool
  NULL,     \* end of the list, no block
  JUNK      \* pixel data, where a free block keeps its next pointer

ASSUME BlocksAssumption ==
  /\ IsFiniteSet(Blocks)
  /\ NULL \notin Blocks
  /\ JUNK \notin Blocks \cup {NULL}

VARIABLES
  freeList,  \* pool->free_list
  link,      \* link[b]: the first bytes of block b
  op,        \* op[c]: the pool call c is in the middle of
  blk, nxt,  \* the locals of that call: block, block->next
  own,       \* own[c]: blocks handed to c and not given back
  host       \* blocks the host keeps: its tasks' buffers (task.h:40)

slabVars == <<freeList, link, op, blk, nxt, own, host>>

\* img_slab_create chains the blocks, each once.  The host has taken some of them
\* before the calls of the model begin, and keeps them.
ChainInit ==
  \E n \in 0 .. Cardinality(Blocks) : \E order \in [1 .. n -> Blocks] :
    /\ \A i, j \in DOMAIN order : order[i] = order[j] => i = j
    /\ host = Blocks \ {order[i] : i \in DOMAIN order}
    /\ freeList = IF DOMAIN order = {} THEN NULL ELSE order[1]
    /\ link = [b \in Blocks |->
                 IF b \in host THEN JUNK
                 ELSE LET i == CHOOSE i \in DOMAIN order : order[i] = b
                      IN  IF i + 1 \in DOMAIN order THEN order[i + 1] ELSE NULL]

SlabInit ==
  /\ ChainInit
  /\ op  = [c \in Callers |-> "none"]
  /\ blk = [c \in Callers |-> NULL]
  /\ nxt = [c \in Callers |-> NULL]
  /\ own = [c \in Callers |-> {}]

-----------------------------------------------------------------------------
\* img_slab_alloc: the list is empty, return NULL.
AllocNone(c) ==
  /\ op[c] = "none"
  /\ freeList = NULL
  /\ UNCHANGED slabVars

\* img_slab_alloc: block = free_list, next = block->next
AllocLoad(c) ==
  /\ op[c] = "none"
  /\ freeList \in Blocks
  /\ op'  = [op EXCEPT ![c] = "alloc"]
  /\ blk' = [blk EXCEPT ![c] = freeList]
  /\ nxt' = [nxt EXCEPT ![c] = link[freeList]]
  /\ UNCHANGED <<freeList, link, own, host>>

\* img_slab_alloc: free_list = next; the caller fills the block with pixels.
AllocStore(c) ==
  /\ op[c] = "alloc"
  /\ freeList' = nxt[c]
  /\ link' = [link EXCEPT ![blk[c]] = JUNK]
  /\ own'  = [own EXCEPT ![c] = @ \cup {blk[c]}]
  /\ op'   = [op EXCEPT ![c] = "none"]
  /\ blk'  = [blk EXCEPT ![c] = NULL]
  /\ nxt'  = [nxt EXCEPT ![c] = NULL]
  /\ UNCHANGED host

\* Mutation: the block becomes the whole list.
FreeLinkToNull(c, b) ==
  /\ op[c] = "none"
  /\ link' = [link EXCEPT ![b] = NULL]
  /\ op'   = [op EXCEPT ![c] = "free"]
  /\ blk'  = [blk EXCEPT ![c] = b]
  /\ own'  = [own EXCEPT ![c] = @ \ {b}]
  /\ UNCHANGED <<freeList, nxt, host>>

\* img_slab_free: block->next = free_list
FreeLink(c, b) ==
  /\ op[c] = "none"
  /\ link' = [link EXCEPT ![b] = freeList]
  /\ op'   = [op EXCEPT ![c] = "free"]
  /\ blk'  = [blk EXCEPT ![c] = b]
  /\ own'  = [own EXCEPT ![c] = @ \ {b}]
  /\ UNCHANGED <<freeList, nxt, host>>

\* img_slab_free: free_list = block
FreeStore(c) ==
  /\ op[c] = "free"
  /\ freeList' = blk[c]
  /\ op'  = [op EXCEPT ![c] = "none"]
  /\ blk' = [blk EXCEPT ![c] = NULL]
  /\ UNCHANGED <<link, nxt, own, host>>

-----------------------------------------------------------------------------
SlabTypeOK ==
  /\ freeList \in Blocks \cup {NULL, JUNK}
  /\ link \in [Blocks -> Blocks \cup {NULL, JUNK}]
  /\ op  \in [Callers -> {"none", "alloc", "free"}]
  /\ blk \in [Callers -> Blocks \cup {NULL}]
  /\ nxt \in [Callers -> Blocks \cup {NULL, JUNK}]
  /\ own \in [Callers -> SUBSET Blocks]
  /\ host \subseteq Blocks
  /\ \A c \in Callers : op[c] = "alloc" => blk[c] \in Blocks

\* The free list, walked from free_list: walk[i] is the i-th block, or where the
\* list ended.
Walk ==
  LET walk[i \in 0 .. Cardinality(Blocks)] ==
        IF i = 0 THEN freeList
        ELSE IF walk[i - 1] \in Blocks THEN link[walk[i - 1]] ELSE walk[i - 1]
  IN  walk

Chain == {Walk[i] : i \in DOMAIN Walk} \cap Blocks

InFlight(c) == IF op[c] = "free" THEN {blk[c]} ELSE {}

\* img_slab_alloc follows block->next (slab.c:58): the list ends in NULL after at
\* most all the blocks: no cycle, and no pixel data taken for a next pointer.
ListSound == Walk[Cardinality(Blocks)] = NULL

\* A block is in one place: on the list, with the host or one caller, or on its way back, so
\* img_slab_alloc never hands out a buffer that is in use (slab.c:53-76).
Exclusive ==
  /\ Chain \cap host = {}
  /\ \A c \in Callers : (Chain \cup host) \cap (own[c] \cup InFlight(c)) = {}
  /\ \A c, d \in Callers :
       c # d => (own[c] \cup InFlight(c)) \cap (own[d] \cup InFlight(d)) = {}

\* No block is ever lost: what is not with a caller can be allocated again, in
\* whatever order img_slab_free got the others (slab.c:66-76).
Conserved ==
  Blocks = host \cup Chain \cup UNION {own[c] \cup InFlight(c) : c \in Callers}

\* The pool between and during calls: an exact free list, no block in two places and
\* none lost, whatever a job took and gave back and whichever allocation failed.
PoolSound == ListSound /\ Exclusive /\ Conserved

=============================================================================
