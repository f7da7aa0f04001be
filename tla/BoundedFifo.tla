---------------------------- MODULE BoundedFifo ----------------------------
(***************************************************************************)
(* What a bounded multi-producer multi-consumer queue promises its         *)
(* callers: a FIFO in which every call takes effect at one instant between *)
(* its call and its return.                                                *)
(*                                                                         *)
(* The promise is deliberately as weak as the lock-free code needs it to   *)
(* be.  A push may be refused although the queue holds fewer than Capacity *)
(* items while some pop has taken its item and has not returned, and a pop *)
(* may find nothing although the queue is not empty while some push has    *)
(* entered its item and has not returned.  With no call in flight, "full"  *)
(* means Capacity items and "empty" means none.                            *)
(***************************************************************************)
EXTENDS Naturals, Sequences

CONSTANTS
  Threads,   \* the threads that call the queue
  Values,    \* what can be pushed (pointers, never NULL)
  NULL,      \* the null pointer
  Capacity   \* how many items the queue holds

VARIABLES
  queue,     \* the items, oldest first
  st,        \* st[t]: how far thread t's call is
  arg        \* arg[t]: the item thread t pushes, or the item its pop took

fifoVars == <<queue, st, arg>>

Phases == {"idle", "push", "putting", "pop", "taking"}

FifoInit ==
  /\ queue = << >>
  /\ st  = [t \in Threads |-> "idle"]
  /\ arg = [t \in Threads |-> NULL]

Goto(t, from, to) ==
  /\ st[t] = from
  /\ st' = [st EXCEPT ![t] = to]

CallPush(t, v) ==
  /\ Goto(t, "idle", "push")
  /\ arg' = [arg EXCEPT ![t] = v]
  /\ UNCHANGED queue

Enqueue(t) ==
  /\ Goto(t, "push", "putting")
  /\ Len(queue) < Capacity
  /\ queue' = Append(queue, arg[t])
  /\ UNCHANGED arg

ReturnPush(t) ==
  /\ Goto(t, "putting", "idle")
  /\ arg' = [arg EXCEPT ![t] = NULL]
  /\ UNCHANGED queue

PushFull(t) ==
  /\ Goto(t, "push", "idle")
  /\ Len(queue) = Capacity \/ \E u \in Threads : st[u] = "taking"
  /\ arg' = [arg EXCEPT ![t] = NULL]
  /\ UNCHANGED queue

CallPop(t) ==
  /\ Goto(t, "idle", "pop")
  /\ UNCHANGED <<queue, arg>>

Dequeue(t) ==
  /\ Goto(t, "pop", "taking")
  /\ queue # << >>
  /\ arg' = [arg EXCEPT ![t] = Head(queue)]
  /\ queue' = Tail(queue)

ReturnPop(t) ==
  /\ Goto(t, "taking", "idle")
  /\ arg' = [arg EXCEPT ![t] = NULL]
  /\ UNCHANGED queue

PopEmpty(t) ==
  /\ Goto(t, "pop", "idle")
  /\ queue = << >> \/ \E u \in Threads : st[u] = "putting"
  /\ UNCHANGED <<queue, arg>>

FifoNext ==
  \E t \in Threads :
    \/ \E v \in Values : CallPush(t, v)
    \/ Enqueue(t)
    \/ ReturnPush(t)
    \/ PushFull(t)
    \/ CallPop(t)
    \/ Dequeue(t)
    \/ ReturnPop(t)
    \/ PopEmpty(t)

FifoSpec == FifoInit /\ [][FifoNext]_fifoVars

=============================================================================
