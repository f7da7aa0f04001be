----------------------------- MODULE MpmcQueue -----------------------------
(***************************************************************************)
(* The bounded lock-free queue of runtime/queue_mpmc.c, one action per     *)
(* access to shared memory.                                                *)
(*                                                                         *)
(* Positions ("tickets") are taken from head and tail by compare-and-swap; *)
(* ticket p lives in cell p & mask, and the cell's seq field says whose    *)
(* turn it is: p when the cell waits for the push of ticket p, p + 1 when  *)
(* it holds that push's item, p + N when the item has been taken.          *)
(*                                                                         *)
(* Memory is sequentially consistent here.  The code pairs a release store *)
(* of seq with an acquire load of it, the accesses of cell->data are       *)
(* separated by such a pair, and head and tail are only changed by         *)
(* compare-and-swap.  The compare-and-swap never fails spuriously: the     *)
(* file uses __builtin_ia32_pause, so it is built for x86 only, where the  *)
(* weak form is the strong one.  Positions are unbounded naturals: the     *)
(* code's are 64 bits wide, and N, a power of two, divides 2^64.           *)
(***************************************************************************)
EXTENDS Integers, Sequences

CONSTANTS
  Threads,     \* threads that push and pop
  Values,      \* non-null data pointers
  NULL,        \* the null pointer
  N,           \* q->size, what align_pow2 made of the requested size
  MaxTickets   \* bound: no push is called once tail has reached it

ASSUME NAssumption == N \in Nat \ {0}
ASSUME NullAssumption == NULL \notin Values
ASSUME BoundAssumption == MaxTickets \in Nat

VARIABLES
  head, tail,  \* q->head, q->tail
  seq,         \* seq[i]: q->cells[i].seq
  data,        \* data[i]: q->cells[i].data
  pc,          \* pc[t]: the next shared access of thread t's call
  pos,         \* pos[t]: the local pos of push and pop
  val          \* val[t]: push's argument, pop's local data

vars == <<head, tail, seq, data, pc, pos, val>>

Cells == 0 .. N - 1

PushPcs == {"push_tail", "push_seq", "push_cas", "push_data", "push_pub"}
PopPcs  == {"pop_head", "pop_seq", "pop_cas", "pop_data", "pop_rel"}
Pcs     == {"idle"} \cup PushPcs \cup PopPcs

\* q->cells[p & q->mask]
Cell(p) == p % N

-----------------------------------------------------------------------------
\* img_mpmc_init: cell i waits for ticket i.
Init ==
  /\ head = 0
  /\ tail = 0
  /\ seq  = [i \in Cells |-> i]
  /\ data = [i \in Cells |-> NULL]
  /\ pc   = [t \in Threads |-> "idle"]
  /\ pos  = [t \in Threads |-> 0]
  /\ val  = [t \in Threads |-> NULL]

Goto(t, from, to) ==
  /\ pc[t] = from
  /\ pc' = [pc EXCEPT ![t] = to]

\* The locals of a call die with it.
Return(t) ==
  /\ pos' = [pos EXCEPT ![t] = 0]
  /\ val' = [val EXCEPT ![t] = NULL]

-----------------------------------------------------------------------------
\* img_mpmc_push(q, v)
PushCall(t, v) ==
  /\ Goto(t, "idle", "push_tail")
  /\ tail < MaxTickets
  /\ val' = [val EXCEPT ![t] = v]
  /\ UNCHANGED <<head, tail, seq, data, pos>>

PushLoadTail(t) ==
  /\ Goto(t, "push_tail", "push_seq")
  /\ pos' = [pos EXCEPT ![t] = tail]
  /\ UNCHANGED <<head, tail, seq, data, val>>

\* diff == 0: the cell is free for this ticket, try to take the ticket.
PushLoadSeqFree(t) ==
  /\ Goto(t, "push_seq", "push_cas")
  /\ seq[Cell(pos[t])] = pos[t]
  /\ UNCHANGED <<head, tail, seq, data, pos, val>>

\* Mutation: a free cell is taken for a full queue.
PushLoadSeqFullTooSoon(t) ==
  /\ Goto(t, "push_seq", "idle")
  /\ seq[Cell(pos[t])] <= pos[t]
  /\ Return(t)
  /\ UNCHANGED <<head, tail, seq, data>>

\* Mutation: push waits for room instead of returning -1.
PushLoadSeqFullSpins(t) ==
  /\ Goto(t, "push_seq", "push_tail")
  /\ seq[Cell(pos[t])] < pos[t]
  /\ UNCHANGED <<head, tail, seq, data, pos, val>>

\* diff < 0: the cell still belongs to the ticket of the previous lap.
PushLoadSeqFull(t) ==
  /\ Goto(t, "push_seq", "idle")
  /\ seq[Cell(pos[t])] < pos[t]
  /\ Return(t)
  /\ UNCHANGED <<head, tail, seq, data>>

\* diff > 0: another push took the ticket, look at tail again.
PushLoadSeqRetry(t) ==
  /\ Goto(t, "push_seq", "push_tail")
  /\ seq[Cell(pos[t])] > pos[t]
  /\ UNCHANGED <<head, tail, seq, data, pos, val>>

\* Mutation: a plain store instead of the compare-and-swap.
PushCasOkBlind(t) ==
  /\ Goto(t, "push_cas", "push_data")
  /\ tail' = pos[t] + 1
  /\ UNCHANGED <<head, seq, data, pos, val>>

PushCasOk(t) ==
  /\ Goto(t, "push_cas", "push_data")
  /\ tail = pos[t]
  /\ tail' = pos[t] + 1
  /\ UNCHANGED <<head, seq, data, pos, val>>

PushCasFail(t) ==
  /\ Goto(t, "push_cas", "push_tail")
  /\ tail # pos[t]
  /\ UNCHANGED <<head, tail, seq, data, pos, val>>

PushData(t) ==
  /\ Goto(t, "push_data", "push_pub")
  /\ data' = [data EXCEPT ![Cell(pos[t])] = val[t]]
  /\ UNCHANGED <<head, tail, seq, pos, val>>

PushPublish(t) ==
  /\ Goto(t, "push_pub", "idle")
  /\ seq' = [seq EXCEPT ![Cell(pos[t])] = pos[t] + 1]
  /\ Return(t)
  /\ UNCHANGED <<head, tail, data>>

-----------------------------------------------------------------------------
\* img_mpmc_pop(q)
PopCall(t) ==
  /\ Goto(t, "idle", "pop_head")
  /\ UNCHANGED <<head, tail, seq, data, pos, val>>

PopLoadHead(t) ==
  /\ Goto(t, "pop_head", "pop_seq")
  /\ pos' = [pos EXCEPT ![t] = head]
  /\ UNCHANGED <<head, tail, seq, data, val>>

PopLoadSeqReady(t) ==
  /\ Goto(t, "pop_seq", "pop_cas")
  /\ seq[Cell(pos[t])] = pos[t] + 1
  /\ UNCHANGED <<head, tail, seq, data, pos, val>>

PopLoadSeqEmpty(t) ==
  /\ Goto(t, "pop_seq", "idle")
  /\ seq[Cell(pos[t])] < pos[t] + 1
  /\ Return(t)
  /\ UNCHANGED <<head, tail, seq, data>>

PopLoadSeqRetry(t) ==
  /\ Goto(t, "pop_seq", "pop_head")
  /\ seq[Cell(pos[t])] > pos[t] + 1
  /\ UNCHANGED <<head, tail, seq, data, pos, val>>

PopCasOk(t) ==
  /\ Goto(t, "pop_cas", "pop_data")
  /\ head = pos[t]
  /\ head' = pos[t] + 1
  /\ UNCHANGED <<tail, seq, data, pos, val>>

PopCasFail(t) ==
  /\ Goto(t, "pop_cas", "pop_head")
  /\ head # pos[t]
  /\ UNCHANGED <<head, tail, seq, data, pos, val>>

PopData(t) ==
  /\ Goto(t, "pop_data", "pop_rel")
  /\ val' = [val EXCEPT ![t] = data[Cell(pos[t])]]
  /\ UNCHANGED <<head, tail, seq, data, pos>>

\* pos + q->mask + 1: the cell waits for the ticket one lap later.
PopRelease(t) ==
  /\ Goto(t, "pop_rel", "idle")
  /\ seq' = [seq EXCEPT ![Cell(pos[t])] = pos[t] + N]
  /\ Return(t)
  /\ UNCHANGED <<head, tail, data>>

-----------------------------------------------------------------------------
PushStep(t) ==
  \/ PushLoadTail(t)
  \/ PushLoadSeqFree(t) \/ PushLoadSeqFull(t) \/ PushLoadSeqRetry(t)
  \/ PushCasOk(t) \/ PushCasFail(t)
  \/ PushData(t)
  \/ PushPublish(t)

PopStep(t) ==
  \/ PopLoadHead(t)
  \/ PopLoadSeqReady(t) \/ PopLoadSeqEmpty(t) \/ PopLoadSeqRetry(t)
  \/ PopCasOk(t) \/ PopCasFail(t)
  \/ PopData(t)
  \/ PopRelease(t)

Next ==
  \E t \in Threads :
    \/ \E v \in Values : PushCall(t, v)
    \/ PopCall(t)
    \/ PushStep(t)
    \/ PopStep(t)

Spec == Init /\ [][Next]_vars

\* The operating system runs every thread that is inside a call; nobody has
\* to call.
FairSpec == Spec /\ \A t \in Threads : WF_vars(PushStep(t) \/ PopStep(t))

-----------------------------------------------------------------------------
\* The types of the queue and of the calls in progress; in particular a cell's seq
\* never runs below zero (PopRelease adds a lap, queue_mpmc.c:143).
TypeOK ==
  /\ head \in Nat
  /\ tail \in Nat
  /\ seq  \in [Cells -> Nat]
  /\ data \in [Cells -> Values \cup {NULL}]
  /\ pc   \in [Threads -> Pcs]
  /\ pos  \in [Threads -> Nat]
  /\ val  \in [Threads -> Values \cup {NULL}]

\* Between its compare-and-swap and its store of seq a call owns its cell.
Pushing(t) == pc[t] \in {"push_data", "push_pub"}
Popping(t) == pc[t] \in {"pop_data", "pop_rel"}

\* cell->data is a plain field (queue_mpmc.c:93 and :139): two calls must never
\* be between taking a ticket and storing seq on the same cell.
CellExclusive ==
  \A t, u \in Threads :
    /\ t # u
    /\ Pushing(t) \/ Popping(t)
    /\ Pushing(u) \/ Popping(u)
    => Cell(pos[t]) # Cell(pos[u])

\* Pop's callers take NULL for "empty" (scheduler.c:79, worker.c:48): a pop that
\* took a ticket must not hand out NULL, the item would be lost.
PopNeverNull ==
  \A t \in Threads : pc[t] = "pop_rel" => val[t] \in Values

\* The queue never holds more than its N cells (queue_mpmc.h: "bounded queue").
Bounded == head <= tail /\ tail <= head + N

-----------------------------------------------------------------------------
\* The inductive invariant: what seq says of every ticket in the two windows
\* [head, tail) and [tail, head + N), and what a call in progress knows.

\* A ticket in [head, tail) waits for its push or holds its item.
ReservedTickets ==
  \A p \in head .. tail - 1 :
    \/ seq[Cell(p)] = p /\ \E t \in Threads : Pushing(t) /\ pos[t] = p
    \/ seq[Cell(p)] = p + 1 /\ data[Cell(p)] \in Values

\* The cell of a ticket in [tail, head + N) is free, or the pop of the ticket one
\* lap earlier still reads it.
FreeTickets ==
  \A p \in tail .. head + N - 1 :
    \/ seq[Cell(p)] = p
    \/ seq[Cell(p)] = p - N + 1 /\ \E t \in Threads : Popping(t) /\ pos[t] = p - N

PushOwners ==
  \A t \in Threads :
    Pushing(t) =>
      /\ head <= pos[t] /\ pos[t] < tail
      /\ seq[Cell(pos[t])] = pos[t]
      /\ pc[t] = "push_pub" => data[Cell(pos[t])] \in Values

PopOwners ==
  \A t \in Threads :
    Popping(t) =>
      /\ pos[t] < head /\ tail <= pos[t] + N
      /\ seq[Cell(pos[t])] = pos[t] + 1
      /\ data[Cell(pos[t])] \in Values

DistinctOwners ==
  \A t, u \in Threads :
    t # u => /\ Pushing(t) /\ Pushing(u) => pos[t] # pos[u]
             /\ Popping(t) /\ Popping(u) => pos[t] # pos[u]

\* What a call read earlier still holds if its compare-and-swap is to succeed.
StaleReads ==
  \A t \in Threads :
    /\ pc[t] \in PushPcs => val[t] \in Values
    /\ pc[t] = "push_seq" => pos[t] <= tail
    /\ pc[t] = "push_cas" => /\ pos[t] <= tail
                             /\ pos[t] = tail => seq[Cell(pos[t])] = pos[t]
    /\ pc[t] = "pop_seq" => pos[t] <= head
    /\ pc[t] = "pop_cas" => /\ pos[t] <= head
                            /\ pos[t] = head => seq[Cell(pos[t])] = pos[t] + 1

\* The protocol of the seq fields (queue_mpmc.c:70-100, :116-146): every cell is in
\* step with head, tail and the calls in progress, whatever those read long ago.
TicketInv ==
  /\ Bounded
  /\ ReservedTickets
  /\ FreeTickets
  /\ PushOwners
  /\ PopOwners
  /\ DistinctOwners
  /\ StaleReads
  /\ PopNeverNull

-----------------------------------------------------------------------------
\* The queue as its callers see it: a push takes effect when it takes its
\* ticket from tail, a pop when it takes its ticket from head.
TicketValue(p) ==
  IF \E t \in Threads : pc[t] = "push_data" /\ pos[t] = p
  THEN val[CHOOSE t \in Threads : pc[t] = "push_data" /\ pos[t] = p]
  ELSE data[Cell(p)]

Contents == [i \in 1 .. tail - head |-> TicketValue(head + i - 1)]

Phase(t) ==
  CASE pc[t] = "idle" -> "idle"
    [] pc[t] \in {"push_tail", "push_seq", "push_cas"} -> "push"
    [] Pushing(t) -> "putting"
    [] pc[t] \in {"pop_head", "pop_seq", "pop_cas"} -> "pop"
    [] Popping(t) -> "taking"

Held(t) == IF pc[t] = "pop_data" THEN data[Cell(pos[t])] ELSE val[t]

Fifo == INSTANCE BoundedFifo WITH
          Capacity <- N,
          queue <- Contents,
          st    <- [t \in Threads |-> Phase(t)],
          arg   <- [t \in Threads |-> Held(t)]

\* queue_mpmc.c implements a bounded FIFO: items come out once each, in the
\* order of the tickets, "full" and "empty" are returned only when BoundedFifo
\* allows it.
ImplementsFifo == Fifo!FifoSpec

\* Lock freedom: with finitely many pushes, no call of push or pop can retry for
\* ever (queue_mpmc.c:65 and :111 loop without a bound).
CallsReturn == \A t \in Threads : pc[t] # "idle" ~> pc[t] = "idle"

=============================================================================
