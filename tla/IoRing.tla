------------------------------- MODULE IoRing -------------------------------
(***************************************************************************)
(* cmd/imgengine/io_uring_engine.c: whole-file reads and writes over one   *)
(* io_uring, one call at a time.  Completions arrive in any order, and a   *)
(* call waits for the first one it sees, which need not be its own.        *)
(***************************************************************************)
EXTENDS Naturals, Sequences

CONSTANT MaxOps      \* bound: files read or written

VARIABLES
  uring,    \* [live, flight, cq]: submissions in flight, completions unseen
  io_call,  \* the call in progress: [at, kind, id, fd, buf]
  io_ret,   \* what the last call returned: [id, ok, seen, whole]
  failed    \* history: a completion was negative

ioVars == <<uring, io_call, io_ret, failed>>

NoCall == [at |-> "idle", kind |-> "none", id |-> 0, fd |-> FALSE, buf |-> "none"]

IoInit ==
  /\ uring = [live |-> FALSE, flight |-> {}, cq |-> <<>>]
  /\ io_call = NoCall
  /\ io_ret = [id |-> 0, ok |-> FALSE, seen |-> 0, whole |-> FALSE]
  /\ failed = FALSE

\* img_io_uring_init may fail; the command line then goes on without.
RingInit ==
  /\ ~uring.live /\ io_call.id = 0
  /\ uring' = [uring EXCEPT !.live = TRUE]
  /\ UNCHANGED <<io_call, io_ret, failed>>

RingDestroy ==
  /\ uring.live /\ io_call.at = "idle"
  /\ uring' = [live |-> FALSE, flight |-> {}, cq |-> <<>>]
  /\ UNCHANGED <<io_call, io_ret, failed>>

\* A call opens its file and submits, or fails before it does.
FileStart(kind, buf) ==
  /\ uring.live /\ io_call.at = "idle" /\ io_call.id < MaxOps
  /\ LET id == io_call.id + 1 IN
     \/ /\ io_call' = [NoCall EXCEPT !.id = id]
        /\ io_ret' = [id |-> id, ok |-> FALSE, seen |-> 0, whole |-> FALSE]
        /\ UNCHANGED uring
     \/ /\ io_call' = [at |-> "wait", kind |-> kind, id |-> id, fd |-> TRUE, buf |-> buf]
        /\ uring' = [uring EXCEPT !.flight = @ \cup {id}]
        /\ UNCHANGED io_ret
  /\ UNCHANGED failed

\* open, fstat and malloc may fail; each failure closes the file.
ReadFile == FileStart("read", "malloc")

WriteFile == FileStart("write", "caller")

\* The kernel completes a submission: whole, short, or with an error.
Complete(id, res) ==
  /\ id \in uring.flight
  /\ uring' = [uring EXCEPT !.flight = @ \ {id}, !.cq = Append(@, [id |-> id, res |-> res])]
  /\ failed' = (failed \/ res = "error")
  /\ UNCHANGED <<io_call, io_ret>>

Waiting == io_call.at = "wait" /\ uring.cq # <<>>
Answer(ok) ==
  /\ io_ret' = [id |-> io_call.id, ok |-> ok, seen |-> Head(uring.cq).id,
                whole |-> Head(uring.cq).res = "whole"]
  /\ io_call' = [io_call EXCEPT !.at = "idle", !.fd = FALSE,
                                !.buf = IF io_call.kind = "read" /\ ok THEN "returned" ELSE "none"]

\* An error returns before io_uring_cqe_seen: the completion stays first.
WaitError ==
  /\ Waiting /\ Head(uring.cq).res = "error"
  /\ Answer(FALSE)
  /\ UNCHANGED <<uring, failed>>

\* Mutation: the completion is never marked as seen.
WaitOkUnseen ==
  /\ Waiting /\ Head(uring.cq).res # "error"
  /\ Answer(TRUE)
  /\ UNCHANGED <<uring, failed>>

\* A short transfer is taken for the whole file.
WaitOk ==
  /\ Waiting /\ Head(uring.cq).res # "error"
  /\ Answer(TRUE)
  /\ uring' = [uring EXCEPT !.cq = Tail(@)]
  /\ UNCHANGED failed

IoNext ==
  \/ RingInit \/ RingDestroy \/ ReadFile \/ WriteFile \/ WaitError \/ WaitOk
  \/ \E id \in uring.flight, res \in {"whole", "short", "error"} : Complete(id, res)

IoSpec == IoInit /\ [][IoNext]_ioVars

(***************************************************************************)
(* A call answers for itself (io_uring_engine.c:58, 91): a call that       *)
(* returns 0 has seen its own completion and no transfer of its buffer is  *)
(* under way any more.  Only after a failed transfer, whose completion is  *)
(* left in the ring, does a later call see another's, and then it returns  *)
(* -1.                                                                     *)
(***************************************************************************)
OwnCompletion ==
  /\ io_ret.ok => io_ret.seen = io_ret.id /\ io_ret.id \notin uring.flight
  /\ io_ret.seen \notin {0, io_ret.id} => failed /\ ~io_ret.ok
  /\ ~failed /\ io_call.at = "idle" => uring.flight = {} /\ uring.cq = <<>>

=============================================================================
