------------------------------- MODULE Binlog -------------------------------
(***************************************************************************)
(* The binary event log of observability/binlog.c: one ring per CPU slot,  *)
(* written without atomics by the thread whose tls_cpu_id names the slot,  *)
(* and never read by the engine (head stays 0), so that a ring keeps the   *)
(* first entries it is given and drops the rest.                           *)
(*                                                                         *)
(* An entry is stored in two halves, its header (time, event, cpu) and its *)
(* arguments, so that two threads of one slot can tear it.  `mixed' is a   *)
(* history of the slots in which two writes were under way at once, and    *)
(* `stray' tells that a write went through a pointer that was not there.   *)
(***************************************************************************)
EXTENDS Integers, Sequences

CONSTANTS
  Loggers,     \* threads that write events
  CpuIds,      \* tls_cpu_id values that img_binlog_set_cpu is given
  Kinds,       \* the kinds of event they write, of those in events.h
  Powers,      \* img_binlog_init's power: a ring has 2^power entries
  MaxEvents    \* bound: events written per thread

ASSUME CpuIdsAssumption == CpuIds \subseteq Nat /\ 0 \in CpuIds
ASSUME KindsAssumption == Kinds \subseteq {"LATENCY", "ERROR", "BATCH"}
\* 1u << power is not 0.
ASSUME PowersAssumption ==
  Powers \subseteq Nat /\ \A power \in Powers : 2^power \in Nat \ {0}
ASSUME MaxEventsAssumption == MaxEvents \in Nat

VARIABLES
  bstate,      \* the log: unset, ready, partial (init returned -1), destroyed
  count,       \* log->cpu_count
  rings,       \* rings[c]: the img_binlog_cpu_t of slot c
  tls,         \* tls[t]: tls_cpu_id, 0 in a thread that never sets it
  bpc, btail,  \* bpc[t], btail[t]: the thread's next access, its local tail
  event,       \* event[t]: the event it writes
  events,      \* events[t]: how many it has written
  accepted,    \* history: accepted[c]: the events slot c had room for
  mixed, stray \* histories

binVars == <<bstate, count, rings, tls, bpc, btail, event, events, accepted,
             mixed, stray>>

\* An entry: its arguments are named by the thread and the call they are of.
NoEvent == [id |-> "none", arg |-> <<"none", 0>>]

\* tools/binlog_decode.c: what the reader makes of an entry.  It has no case
\* for IMG_EVENT_BATCH, and shows the arguments of two kinds only.
Decode(e) ==
  CASE e.id = "LATENCY" -> <<"LAT", e.arg>>
    [] e.id = "ERROR"   -> <<"ERR", e.arg>>
    [] OTHER            -> <<"UNK", e.id>>

\* memset: no entries, size, mask, head and tail 0.
NoRing == [entries |-> << >>, mask |-> 0, tail |-> 0, has |-> FALSE]
Ring(size) ==
  [entries |-> [i \in 1 .. size |-> NoEvent], mask |-> size - 1, tail |-> 0,
   has |-> TRUE]

BinInit ==
  /\ bstate = "unset" /\ count = 0
  /\ rings = [c \in CpuIds |-> NoRing]
  /\ tls = [t \in Loggers |-> 0]
  /\ bpc = [t \in Loggers |-> "idle"]
  /\ btail = [t \in Loggers |-> 0]
  /\ event = [t \in Loggers |-> NoEvent]
  /\ events = [t \in Loggers |-> 0]
  /\ accepted = [c \in CpuIds |-> << >>]
  /\ mixed = {} /\ stray = FALSE

calling == <<tls, bpc, btail, event, events>>

-----------------------------------------------------------------------------
\* Mutation: the failed slot keeps the mask of a ring.
BinlogInitMaskFirst(cpus, power, good) ==
  /\ bstate = "unset"
  /\ count' = cpus
  /\ rings' = [c \in CpuIds |->
                 IF c < good THEN Ring(2^power)
                 ELSE IF c < cpus THEN [NoRing EXCEPT !.mask = 2^power - 1]
                 ELSE NoRing]
  /\ bstate' = IF good = cpus THEN "ready" ELSE "partial"
  /\ UNCHANGED <<calling, accepted, mixed, stray>>

\* img_binlog_init(log, cpus, power), whose allocation `good' fails when it is
\* less than cpus: cpu_count is set and the rings from there on are blank.
BinlogInit(cpus, power, good) ==
  /\ bstate = "unset"
  /\ count' = cpus
  /\ rings' = [c \in CpuIds |-> IF c < good THEN Ring(2^power) ELSE NoRing]
  /\ bstate' = IF good = cpus THEN "ready" ELSE "partial"
  /\ UNCHANGED <<calling, accepted, mixed, stray>>

\* img_binlog_destroy, called once no write is under way: the pointers, the
\* masks and cpu_count stay, so a write after it stores in freed memory.
BinlogDestroy ==
  /\ bstate \in {"ready", "partial"}
  /\ \A t \in Loggers : bpc[t] = "idle"
  /\ bstate' = "destroyed"
  /\ UNCHANGED <<count, rings, calling, accepted, mixed, stray>>

\* worker_loop names its slot when it starts; other threads never do.
SetCpu(t, c) ==
  /\ events[t] = 0
  /\ tls' = [tls EXCEPT ![t] = c]
  /\ UNCHANGED <<bstate, count, rings, bpc, btail, event, events, accepted,
                 mixed, stray>>

-----------------------------------------------------------------------------
BinAt(t, from, to) ==
  /\ bpc[t] = from
  /\ bpc' = [bpc EXCEPT ![t] = to]

\* img_binlog_write through IMG_LOG_LATENCY, IMG_LOG_ERROR or img_trace_emit.
BinCall(t, id) ==
  /\ bpc[t] = "idle" /\ events[t] < MaxEvents
  /\ bstate # "destroyed"
  /\ events' = [events EXCEPT ![t] = @ + 1]
  /\ IF tls[t] >= count
       THEN UNCHANGED <<bpc, event>>
       ELSE /\ bpc' = [bpc EXCEPT ![t] = "tail"]
            /\ event' = [event EXCEPT ![t] = [id |-> id, arg |-> <<t, events'[t]>>]]
  /\ mixed' = mixed \cup
       {c \in CpuIds : /\ c = tls[t] /\ c < count
                       /\ \E u \in Loggers \ {t} : tls[u] = c /\ bpc[u] # "idle"}
  /\ UNCHANGED <<bstate, count, rings, tls, btail, accepted, stray>>

SlotOf(t) == rings[tls[t]]
NextOf(t) == (SlotOf(t).tail + 1) % (SlotOf(t).mask + 1)

\* next == c->head, and head is never moved from 0.
BinFull(t) ==
  /\ BinAt(t, "tail", "idle")
  /\ NextOf(t) = 0
  /\ event' = [event EXCEPT ![t] = NoEvent]
  /\ UNCHANGED <<bstate, count, rings, tls, btail, events, accepted, mixed, stray>>

BinRoom(t) ==
  /\ BinAt(t, "tail", "header")
  /\ NextOf(t) # 0
  /\ btail' = [btail EXCEPT ![t] = SlotOf(t).tail]
  /\ accepted' = [accepted EXCEPT ![tls[t]] = Append(@, event[t])]
  /\ stray' = (stray \/ ~SlotOf(t).has)
  /\ UNCHANGED <<bstate, count, rings, tls, event, events, mixed>>

\* e = &c->entries[tail]
EntryOf(t) == SlotOf(t).entries[btail[t] + 1]
StoreEntry(t, e) ==
  rings' = [rings EXCEPT ![tls[t]].entries = [SlotOf(t).entries EXCEPT ![btail[t] + 1] = e]]

BinHeader(t) ==
  /\ ~stray
  /\ BinAt(t, "header", "args")
  /\ StoreEntry(t, [EntryOf(t) EXCEPT !.id = event[t].id])
  /\ UNCHANGED <<bstate, count, tls, btail, event, events, accepted, mixed, stray>>

BinArgs(t) ==
  /\ ~stray
  /\ BinAt(t, "args", "advance")
  /\ StoreEntry(t, [EntryOf(t) EXCEPT !.arg = event[t].arg])
  /\ UNCHANGED <<bstate, count, tls, btail, event, events, accepted, mixed, stray>>

BinAdvance(t) ==
  /\ ~stray
  /\ BinAt(t, "advance", "idle")
  /\ rings' = [rings EXCEPT ![tls[t]].tail = (btail[t] + 1) % (SlotOf(t).mask + 1)]
  /\ event' = [event EXCEPT ![t] = NoEvent]
  /\ btail' = [btail EXCEPT ![t] = 0]
  /\ UNCHANGED <<bstate, count, tls, events, accepted, mixed, stray>>

-----------------------------------------------------------------------------
BinWrite(t) ==
  \/ BinFull(t) \/ BinRoom(t) \/ BinHeader(t) \/ BinArgs(t) \/ BinAdvance(t)

BinNext ==
  \/ \E cpus \in 1 .. 2, power \in Powers, good \in 0 .. 2 :
       good <= cpus /\ BinlogInit(cpus, power, good)
  \/ BinlogDestroy
  \/ \E t \in Loggers :
       \/ \E c \in CpuIds : SetCpu(t, c)
       \/ \E id \in Kinds : BinCall(t, id)
       \/ BinWrite(t)

BinSpec == BinInit /\ [][BinNext]_binVars

-----------------------------------------------------------------------------
BinTypeOK ==
  /\ bstate \in {"unset", "ready", "partial", "destroyed"}
  /\ count \in 0 .. 2 /\ stray \in BOOLEAN /\ mixed \subseteq CpuIds
  /\ tls \in [Loggers -> CpuIds]
  /\ bpc \in [Loggers -> {"idle", "tail", "header", "args", "advance"}]
  /\ \A c \in CpuIds : rings[c].tail \in 0 .. rings[c].mask

\* The entries of slot c between head and tail, as the decoder shows them.
Decoded(c) == [i \in 1 .. rings[c].tail |-> Decode(rings[c].entries[i])]

\* A slot that one thread at a time writes holds what its writers were given
\* room for, whole and in order, except an entry still being written; when the
\* ring is full it is full for good (binlog.c:108-123: "SPSC per CPU").  Two
\* threads that never called img_binlog_set_cpu share slot 0 and may tear it.
\* And no write ever goes through a pointer that img_binlog_init did not fill,
\* not even after it failed half way: the mask of a blank slot is 0, so that
\* the slot looks full (binlog.c:49, 63, 111).
EntriesKept ==
  /\ ~stray
  /\ \A c \in CpuIds \ mixed :
       LET pending == Len(accepted[c]) - rings[c].tail IN
       /\ pending \in 0 .. 1
       /\ Decoded(c) = [i \in 1 .. rings[c].tail |-> Decode(accepted[c][i])]
       /\ pending = 1 =>
            \E t \in Loggers : tls[t] = c /\ bpc[t] \notin {"idle", "tail"}

=============================================================================
