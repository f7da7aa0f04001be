----------------------------- MODULE SpscQueue -----------------------------
(***************************************************************************)
(* The ring buffer of runtime/queue_spsc.c, one action per access to       *)
(* shared memory.  A ring of N = 1 << power slots holds N - 1 items: head  *)
(* is the next slot to read, tail the next slot to write, and the ring is  *)
(* empty when they are equal.                                              *)
(*                                                                         *)
(* Neither side takes its slot atomically: push reads tail and stores it   *)
(* three accesses later, pop does the same with head.  The module lets any *)
(* set of threads push and any set pop; the code is written for one of     *)
(* each (Disciplined), and the scheduler's stealing goes beyond that.      *)
(***************************************************************************)
EXTENDS Integers, Sequences, FiniteSets

CONSTANTS
  Producers, Consumers,  \* threads that push, threads that pop
  Values,                \* non-null data pointers
  NULL,                  \* the null pointer
  N                      \* q->capacity

ASSUME NAssumption == N \in Nat \ {0}
ASSUME NullAssumption == NULL \notin Values
ASSUME SidesAssumption == Producers \cap Consumers = {}

VARIABLES
  head, tail,  \* q->head, q->tail
  buffer,      \* q->buffer
  pc,          \* pc[t]: the next shared access of thread t's call
  idx,         \* idx[t]: push's t, pop's h
  val          \* val[t]: push's argument, pop's data

vars == <<head, tail, buffer, pc, idx, val>>

Threads == Producers \cup Consumers
Slots   == 0 .. N - 1

\* One producer and one consumer: what the queue is written for.
Disciplined ==
  /\ \A t, u \in Producers : t = u
  /\ \A t, u \in Consumers : t = u

\* (i + 1) & q->mask
Succ(i) == (i + 1) % N

-----------------------------------------------------------------------------
\* img_queue_create
Init ==
  /\ head = 0
  /\ tail = 0
  /\ buffer = [i \in Slots |-> NULL]
  /\ pc  = [t \in Threads |-> "idle"]
  /\ idx = [t \in Threads |-> 0]
  /\ val = [t \in Threads |-> NULL]

Goto(t, from, to) ==
  /\ pc[t] = from
  /\ pc' = [pc EXCEPT ![t] = to]

\* The locals of a call die with it.
Return(t) ==
  /\ idx' = [idx EXCEPT ![t] = 0]
  /\ val' = [val EXCEPT ![t] = NULL]

-----------------------------------------------------------------------------
\* img_queue_push(q, v), up to the load of tail
PushCall(t, v) ==
  /\ Goto(t, "idle", "push_check")
  /\ idx' = [idx EXCEPT ![t] = tail]
  /\ val' = [val EXCEPT ![t] = v]
  /\ UNCHANGED <<head, tail, buffer>>

\* next == head: return false
PushFull(t) ==
  /\ Goto(t, "push_check", "idle")
  /\ Succ(idx[t]) = head
  /\ Return(t)
  /\ UNCHANGED <<head, tail, buffer>>

\* Mutation: no check for a full ring.
PushRoomUnchecked(t) ==
  /\ Goto(t, "push_check", "push_data")
  /\ UNCHANGED <<head, tail, buffer, idx, val>>

PushRoom(t) ==
  /\ Goto(t, "push_check", "push_data")
  /\ Succ(idx[t]) # head
  /\ UNCHANGED <<head, tail, buffer, idx, val>>

\* Mutation: the item goes to the slot after tail.
PushDataNext(t) ==
  /\ Goto(t, "push_data", "push_tail")
  /\ buffer' = [buffer EXCEPT ![Succ(idx[t])] = val[t]]
  /\ UNCHANGED <<head, tail, idx, val>>

PushData(t) ==
  /\ Goto(t, "push_data", "push_tail")
  /\ buffer' = [buffer EXCEPT ![idx[t]] = val[t]]
  /\ UNCHANGED <<head, tail, idx, val>>

PushTail(t) ==
  /\ Goto(t, "push_tail", "push_ret")
  /\ tail' = Succ(idx[t])
  /\ UNCHANGED <<head, buffer, idx, val>>

PushReturn(t) ==
  /\ Goto(t, "push_ret", "idle")
  /\ Return(t)
  /\ UNCHANGED <<head, tail, buffer>>

-----------------------------------------------------------------------------
\* img_queue_pop(q), up to the load of head
PopCall(t) ==
  /\ Goto(t, "idle", "pop_check")
  /\ idx' = [idx EXCEPT ![t] = head]
  /\ UNCHANGED <<head, tail, buffer, val>>

\* Mutation: the last item is not seen.
PopEmptyTooSoon(t) ==
  /\ Goto(t, "pop_check", "idle")
  /\ tail \in {idx[t], Succ(idx[t])}
  /\ Return(t)
  /\ UNCHANGED <<head, tail, buffer>>

\* h == tail: return NULL
PopEmpty(t) ==
  /\ Goto(t, "pop_check", "idle")
  /\ idx[t] = tail
  /\ Return(t)
  /\ UNCHANGED <<head, tail, buffer>>

PopReady(t) ==
  /\ Goto(t, "pop_check", "pop_data")
  /\ idx[t] # tail
  /\ UNCHANGED <<head, tail, buffer, idx, val>>

PopData(t) ==
  /\ Goto(t, "pop_data", "pop_head")
  /\ val' = [val EXCEPT ![t] = buffer[idx[t]]]
  /\ UNCHANGED <<head, tail, buffer, idx>>

PopHead(t) ==
  /\ Goto(t, "pop_head", "pop_ret")
  /\ head' = Succ(idx[t])
  /\ UNCHANGED <<tail, buffer, idx, val>>

PopReturn(t) ==
  /\ Goto(t, "pop_ret", "idle")
  /\ Return(t)
  /\ UNCHANGED <<head, tail, buffer>>

-----------------------------------------------------------------------------
PushStep(t) ==
  \/ PushFull(t) \/ PushRoom(t) \/ PushData(t) \/ PushTail(t) \/ PushReturn(t)

PopStep(t) ==
  \/ PopEmpty(t) \/ PopReady(t) \/ PopData(t) \/ PopHead(t) \/ PopReturn(t)

Next ==
  \/ \E t \in Producers : (\E v \in Values : PushCall(t, v)) \/ PushStep(t)
  \/ \E t \in Consumers : PopCall(t) \/ PopStep(t)

Spec == Init /\ [][Next]_vars

-----------------------------------------------------------------------------
PushPcs == {"push_check", "push_data", "push_tail", "push_ret"}
PopPcs  == {"pop_check", "pop_data", "pop_head", "pop_ret"}

\* The indices, shared and local, stay inside the ring: every use of them is masked
\* (queue_spsc.c:38 and :61).
TypeOK ==
  /\ head \in Slots
  /\ tail \in Slots
  /\ buffer \in [Slots -> Values \cup {NULL}]
  /\ pc  \in [Threads -> {"idle"} \cup PushPcs \cup PopPcs]
  /\ idx \in [Threads -> Slots]
  /\ val \in [Threads -> Values \cup {NULL}]

\* The slots that hold an item: from head up to tail, going round.
Occupied ==
  IF head <= tail THEN head .. tail - 1 ELSE Slots \ (tail .. head - 1)

\* buffer[] is not atomic (queue_spsc.c:43 and :60): the slot a push is about to
\* write must not be one that a pop is about to read, and must hold no item.
SlotExclusive ==
  \A p \in Producers :
    pc[p] \in {"push_data", "push_tail"} =>
      /\ idx[p] \notin Occupied
      /\ \A c \in Consumers : pc[c] \in {"pop_data", "pop_head"} => idx[p] # idx[c]

\* Pop's callers take NULL for "empty" (worker.c:48): an occupied slot holds an
\* item, and so does a pop that found the ring not empty.
NoNullItem ==
  /\ \A i \in Occupied : buffer[i] \in Values
  /\ \A c \in Consumers : pc[c] \in {"pop_head", "pop_ret"} => val[c] \in Values

\* What each side still knows of what it read: its own index is current, and the
\* answer of its check cannot have been spoilt by the other side.
SideInv ==
  /\ \A p \in Producers :
       /\ pc[p] \in {"idle"} \cup PushPcs
       /\ pc[p] \in PushPcs => val[p] \in Values
       /\ pc[p] \in {"push_check", "push_data", "push_tail"} => idx[p] = tail
       /\ pc[p] \in {"push_data", "push_tail"} => Succ(tail) # head
       /\ pc[p] = "push_tail" => buffer[tail] = val[p]
  /\ \A c \in Consumers :
       /\ pc[c] \in {"idle"} \cup PopPcs
       /\ pc[c] \in {"pop_check", "pop_data", "pop_head"} => idx[c] = head
       /\ pc[c] \in {"pop_data", "pop_head"} => head # tail
       /\ pc[c] = "pop_head" => val[c] = buffer[head]
       /\ pc[c] \in {"idle", "pop_check", "pop_data"} => val[c] = NULL

\* The check each side makes (queue_spsc.c:40, :57) is still true when it acts on it,
\* and what lies between head and tail is the items, none of them null.
RingInv == SideInv /\ NoNullItem

-----------------------------------------------------------------------------
\* The ring as its callers see it: a push takes effect when it stores tail, a pop
\* when it stores head.
Count == IF head <= tail THEN tail - head ELSE tail + N - head

Contents == [i \in 1 .. Count |-> buffer[(head + i - 1) % N]]

Phase(t) ==
  CASE pc[t] = "idle" -> "idle"
    [] pc[t] \in {"push_check", "push_data", "push_tail"} -> "push"
    [] pc[t] = "push_ret" -> "putting"
    [] pc[t] \in {"pop_check", "pop_data", "pop_head"} -> "pop"
    [] pc[t] = "pop_ret" -> "taking"

Held(t) == IF pc[t] = "pop_head" THEN NULL ELSE val[t]

Fifo == INSTANCE BoundedFifo WITH
          Capacity <- N - 1,
          queue <- Contents,
          st    <- [t \in Threads |-> Phase(t)],
          arg   <- [t \in Threads |-> Held(t)]

\* With one producer and one consumer queue_spsc.c is a bounded FIFO of N - 1
\* items: nothing is lost, duplicated or reordered.
ImplementsFifo == Fifo!FifoSpec

=============================================================================
