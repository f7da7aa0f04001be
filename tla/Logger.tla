------------------------------- MODULE Logger -------------------------------
(***************************************************************************)
(* The asynchronous text logger of observability/logger.c: writers push    *)
(* messages on a lock-free ring, one background thread pops and prints     *)
(* them, and the host starts and stops that thread.                        *)
(*                                                                         *)
(* The writers' side is stepped one shared access at a time.  Only the     *)
(* logger thread moves head, so its load of head, its load of seq and its  *)
(* compare-and-swap of head are one step; the copy, the release of the     *)
(* cell and the print are steps of their own.  Memory is sequentially      *)
(* consistent and the weak compare-and-swap does not fail spuriously, as   *)
(* in MpmcQueue.  A step on cells that are not there is undefined: the     *)
(* thread that takes it is "wild" and takes no other.                      *)
(***************************************************************************)
EXTENDS Integers, Sequences, FiniteSets

CONSTANTS
  Writers,     \* threads that call img_log_write
  RingSize,    \* LOG_RING_SIZE
  MaxWrites    \* bound: calls of img_log_write per writer

\* With one cell a published message would look like a free cell to the next ticket.
ASSUME RingSizeAssumption == RingSize \in Nat \ {0, 1}
ASSUME MaxWritesAssumption == MaxWrites \in Nat

VARIABLES
  life,        \* the host: off, running, stopping, stopped, noring, undefined
  running,     \* g_running
  thread,      \* the logger thread: none, or its next step
  lhead, ltail, lseq, lmsg,   \* g_ring
  wpc, wpos,   \* wpc[w], wpos[w]: the writer's next access, its local pos
  calls,       \* calls[w]: calls of img_log_write that w has made
  buffer,      \* the logger thread's buffer
  tickets,     \* history: messages in the order their tickets were taken
  printed      \* what stdout has received

logVars == <<life, running, thread, lhead, ltail, lseq, lmsg, wpc, wpos, calls,
             buffer, tickets, printed>>

Blank    == <<"blank", 0>>
Messages == Writers \X (1 .. MaxWrites)
RingCells == 0 .. RingSize - 1
CellOf(p) == p % RingSize
Message(w) == <<w, calls[w]>>

HasCells == life \in {"running", "stopping"}

WriterPcs == {"idle", "tail", "seq", "cas", "copy", "publish", "wild"}
ThreadPcs == {"none", "check", "pop", "copy", "release", "print", "exit"}

LogInit ==
  /\ life = "off" /\ running = FALSE /\ thread = "none"
  /\ lhead = 0 /\ ltail = 0
  /\ lseq = [i \in RingCells |-> 0]
  /\ lmsg = [i \in RingCells |-> Blank]
  /\ wpc = [w \in Writers |-> "idle"]
  /\ wpos = [w \in Writers |-> 0]
  /\ calls = [w \in Writers |-> 0]
  /\ buffer = Blank /\ tickets = << >> /\ printed = << >>

ring == <<lhead, ltail, lseq, lmsg>>
writer == <<wpc, wpos, calls>>
output == <<buffer, tickets, printed>>

-----------------------------------------------------------------------------
(* The host.  img_logger_init reports nothing, so shutdown follows a       *)
(* failed start as it follows a good one.                                  *)

InitNoMemory ==
  /\ life = "off" /\ life' = "noring"
  /\ UNCHANGED <<running, thread, ring, writer, output>>

\* The result of pthread_create is not looked at: started may be FALSE.
InitLogger(started) ==
  /\ life = "off" /\ life' = "running"
  /\ running' = TRUE
  /\ lseq' = [i \in RingCells |-> i]
  /\ thread' = IF started THEN "check" ELSE "none"
  /\ UNCHANGED <<lhead, ltail, lmsg, writer, output>>

ShutdownFlag ==
  /\ life \in {"running", "noring"}
  /\ running' = FALSE
  /\ life' = IF thread = "none" THEN "undefined"   \* joins no thread
                                ELSE "stopping"
  /\ UNCHANGED <<thread, ring, writer, output>>

\* Mutation: the ring is freed before the thread is joined.
ShutdownJoinLate ==
  /\ life = "stopping"
  /\ life' = "stopped"
  /\ UNCHANGED <<running, thread, ring, writer, output>>

ShutdownJoin ==
  /\ life = "stopping" /\ thread = "exit"
  /\ life' = "stopped"
  /\ UNCHANGED <<running, thread, ring, writer, output>>

-----------------------------------------------------------------------------
(* img_log_write and log_ring_push.                                        *)

WriterAt(w, from, to) ==
  /\ wpc[w] = from
  /\ wpc' = [wpc EXCEPT ![w] = to]

\* A level below LOG_INFO returns at once.
LogBelowInfo(w) ==
  /\ wpc[w] = "idle" /\ calls[w] < MaxWrites
  /\ calls' = [calls EXCEPT ![w] = @ + 1]
  /\ UNCHANGED <<life, running, thread, ring, wpc, wpos, output>>

LogWrite(w) ==
  /\ WriterAt(w, "idle", "tail")
  /\ calls[w] < MaxWrites
  /\ calls' = [calls EXCEPT ![w] = @ + 1]
  /\ UNCHANGED <<life, running, thread, ring, wpos, output>>

LogLoadTail(w) ==
  /\ WriterAt(w, "tail", "seq")
  /\ wpos' = [wpos EXCEPT ![w] = ltail]
  /\ UNCHANGED <<life, running, thread, ring, calls, output>>

SeqOf(w) == lseq[CellOf(wpos[w])]

LogSeqFree(w) ==
  /\ HasCells /\ SeqOf(w) = wpos[w]
  /\ WriterAt(w, "seq", "cas")
  /\ UNCHANGED <<life, running, thread, ring, wpos, calls, output>>

\* Mutation: a cell another writer has just taken is taken for a full ring.
LogSeqFullIfNotFree(w) ==
  /\ HasCells /\ SeqOf(w) # wpos[w]
  /\ WriterAt(w, "seq", "idle")
  /\ wpos' = [wpos EXCEPT ![w] = 0]
  /\ UNCHANGED <<life, running, thread, ring, calls, output>>

\* diff < 0: the message is dropped; img_log_write ignores the -1.
LogSeqFull(w) ==
  /\ HasCells /\ SeqOf(w) < wpos[w]
  /\ WriterAt(w, "seq", "idle")
  /\ wpos' = [wpos EXCEPT ![w] = 0]
  /\ UNCHANGED <<life, running, thread, ring, calls, output>>

LogSeqRetry(w) ==
  /\ HasCells /\ SeqOf(w) > wpos[w]
  /\ WriterAt(w, "seq", "tail")
  /\ UNCHANGED <<life, running, thread, ring, wpos, calls, output>>

LogCasOk(w) ==
  /\ WriterAt(w, "cas", "copy")
  /\ ltail = wpos[w]
  /\ ltail' = ltail + 1
  /\ tickets' = Append(tickets, Message(w))
  /\ UNCHANGED <<life, running, thread, lhead, lseq, lmsg, wpos, calls, buffer,
                 printed>>

LogCasFail(w) ==
  /\ WriterAt(w, "cas", "tail")
  /\ ltail # wpos[w]
  /\ UNCHANGED <<life, running, thread, ring, wpos, calls, output>>

LogCopy(w) ==
  /\ HasCells
  /\ WriterAt(w, "copy", "publish")
  /\ lmsg' = [lmsg EXCEPT ![CellOf(wpos[w])] = Message(w)]
  /\ UNCHANGED <<life, running, thread, lhead, ltail, lseq, wpos, calls, output>>

\* Mutation: the cell of the ticket is never published.
LogPublishForgotten(w) ==
  /\ HasCells
  /\ WriterAt(w, "publish", "idle")
  /\ UNCHANGED <<life, running, thread, ring, wpos, calls, output>>

LogPublish(w) ==
  /\ HasCells
  /\ WriterAt(w, "publish", "idle")
  /\ lseq' = [lseq EXCEPT ![CellOf(wpos[w])] = wpos[w] + 1]
  /\ wpos' = [wpos EXCEPT ![w] = 0]
  /\ UNCHANGED <<life, running, thread, lhead, ltail, lmsg, calls, output>>

\* The cells are not allocated, or freed: undefined.
LogNoCells(w) ==
  /\ ~HasCells
  /\ wpc[w] \in {"seq", "copy", "publish"}
  /\ wpc' = [wpc EXCEPT ![w] = "wild"]
  /\ UNCHANGED <<life, running, thread, ring, wpos, calls, output>>

-----------------------------------------------------------------------------
(* logger_loop and log_ring_pop.                                           *)

ThreadAt(from, to) == thread = from /\ thread' = to

LoopTest ==
  /\ ThreadAt("check", IF running THEN "pop" ELSE "exit")
  /\ UNCHANGED <<life, running, ring, writer, output>>

\* diff < 0: nothing published at head.
PopNothing ==
  /\ ThreadAt("pop", "check")
  /\ lseq[CellOf(lhead)] < lhead + 1
  /\ UNCHANGED <<life, running, ring, writer, output>>

\* Mutation: a ticket that is taken and not yet published is popped.
PopTakeUnpublished ==
  /\ ThreadAt("pop", "copy")
  /\ lseq[CellOf(lhead)] >= lhead /\ lhead < ltail
  /\ lhead' = lhead + 1
  /\ UNCHANGED <<life, running, ltail, lseq, lmsg, writer, output>>

\* diff > 0 is not told apart from diff = 0.
PopTake ==
  /\ ThreadAt("pop", "copy")
  /\ lseq[CellOf(lhead)] >= lhead + 1
  /\ lhead' = lhead + 1
  /\ UNCHANGED <<life, running, ltail, lseq, lmsg, writer, output>>

PopCopy ==
  /\ ThreadAt("copy", "release")
  /\ buffer' = lmsg[CellOf(lhead - 1)]
  /\ UNCHANGED <<life, running, ring, writer, tickets, printed>>

PopGiveBack ==
  /\ ThreadAt("release", "print")
  /\ lseq' = [lseq EXCEPT ![CellOf(lhead - 1)] = lhead - 1 + RingSize]
  /\ UNCHANGED <<life, running, lhead, ltail, lmsg, writer, output>>

PrintBuffer ==
  /\ ThreadAt("print", "check")
  /\ printed' = Append(printed, buffer)
  /\ UNCHANGED <<life, running, ring, writer, buffer, tickets>>

-----------------------------------------------------------------------------
LogStep(w) ==
  \/ LogLoadTail(w)
  \/ LogSeqFree(w) \/ LogSeqFull(w) \/ LogSeqRetry(w)
  \/ LogCasOk(w) \/ LogCasFail(w)
  \/ LogCopy(w) \/ LogPublish(w)
  \/ LogNoCells(w)

LoggerLoop ==
  \/ LoopTest \/ PopNothing \/ PopTake \/ PopCopy \/ PopGiveBack \/ PrintBuffer

LogHost ==
  \/ InitNoMemory
  \/ \E started \in BOOLEAN : InitLogger(started)
  \/ ShutdownFlag \/ ShutdownJoin

LogNext ==
  \/ LogHost
  \/ \E w \in Writers : LogWrite(w) \/ LogBelowInfo(w) \/ LogStep(w)
  \/ LoggerLoop

LogSpec == LogInit /\ [][LogNext]_logVars

\* The system schedules the logger thread and every thread inside a call.
LogFairness ==
  /\ WF_logVars(LoggerLoop)
  /\ \A w \in Writers : WF_logVars(LogStep(w))

-----------------------------------------------------------------------------
LogTypeOK ==
  /\ life \in {"off", "running", "stopping", "stopped", "noring", "undefined"}
  /\ running \in BOOLEAN /\ thread \in ThreadPcs
  /\ lhead \in Nat /\ ltail \in Nat
  /\ lseq \in [RingCells -> Nat]
  /\ lmsg \in [RingCells -> Messages \cup {Blank}]
  /\ wpc \in [Writers -> WriterPcs] /\ wpos \in [Writers -> Nat]
  /\ calls \in [Writers -> 0 .. MaxWrites]
  /\ buffer \in Messages \cup {Blank}
  /\ tickets \in Seq(Messages) /\ printed \in Seq(Messages \cup {Blank})

\* What logger_loop writes to stdout is, at every moment, a prefix of the
\* messages in the order their tickets were taken: none twice, none out of
\* order, none read before its writer had copied it or after another writer
\* had reused the cell (logger.c:145, 179).
PrintedInOrder ==
  /\ Len(printed) <= Len(tickets)
  /\ printed = SubSeq(tickets, 1, Len(printed))

\* The tickets whose cells the logger thread has given back.
Released == IF thread \in {"copy", "release"} THEN lhead - 1 ELSE lhead

\* log_ring_push answers -1 (logger.c:147) only when every cell of the ring
\* belongs to a ticket the logger thread has not given back, although the pos
\* it compares with may be stale by then.
DropOnlyFull ==
  [][\A w \in Writers :
       wpc[w] = "seq" /\ wpc'[w] = "idle" => ltail - Released >= RingSize]_logVars

\* The logger thread is in the ring only while the ring is allocated: shutdown
\* joins it before free (logger.c:115, 117), whatever it was doing.
ThreadInRing == thread \in {"pop", "copy", "release"} => HasCells

\* A message that has its ticket is printed, unless the logger is shut down
\* first (its messages are not drained, logger.c:113) or its thread never
\* started (logger.c:104).
TicketPrinted ==
  \A k \in 1 .. Cardinality(Writers) * MaxWrites :
    Len(tickets) >= k ~> Len(printed) >= k \/ thread = "none" \/ life # "running"

=============================================================================
