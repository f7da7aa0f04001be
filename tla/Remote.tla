------------------------------- MODULE Remote -------------------------------
(***************************************************************************)
(* Remote execution: the routing of exec_router.c, img_rpc_send of         *)
(* rpc_client.c and the accept loop of rpc_server.c.  An image is two      *)
(* chunks of bytes, each of some client's image.  TCP keeps their order,   *)
(* but one recv returns what has arrived, one chunk or both, and neither   *)
(* side looks at the result of a send or a recv.  The server's buffer is   *)
(* uncleared memory, where a freed buffer of an earlier request may have   *)
(* left its bytes.  Headers arrive whole, and a send ends (the buffers of  *)
(* the sockets hold an image).                                             *)
(***************************************************************************)
EXTENDS Dispatch

CONSTANTS
  Clients,    \* threads that dispatch operations
  RemoteOps,  \* the opcodes they ask for, all inside the table
  ServerOps,  \* the opcodes the server process has a kernel for
  MaxSends    \* bound: operations of one client

VARIABLES
  client,   \* per client: [at, op, img, ret, n, sockets]
  server,   \* the server process: [at, who, data, heap], heap being the
            \* chunks that freed buffers left in its memory
  reply,    \* per client: the image sent back, "none", or "reset"
  cut,      \* history: clients whose body the server's recv cut short
  early     \* history: clients whose own recv of the answer was short

remoteVars == <<client, server, reply, cut, early>>

\* The image of client c, its two chunks raw or done.
Image(c, first, second) == <<[of |-> c, state |-> first], [of |-> c, state |-> second]>>
Fresh(c) == Image(c, "raw", "raw")
Whole(c) == Image(c, "done", "done")
Junk     == [of |-> "nobody", state |-> "raw"]
NoReply == <<>>
Reset == <<"reset">>

RemoteInit ==
  /\ client = [c \in Clients |-> [at |-> "idle", op |-> 0, img |-> Fresh(c),
                                  ret |-> "none", n |-> 0, sockets |-> 0]]
  /\ server = [at |-> "accept", who |-> {}, data |-> <<Junk, Junk>>, heap |-> {}]
  /\ reply = [c \in Clients |-> NoReply]
  /\ cut = {} /\ early = {}

Up == server.at # "dead"

\* img_exec_route
Local(op) == op \in {OP_RESIZE, OP_RESIZE_H, OP_RESIZE_V, OP_GRAYSCALE, OP_BRIGHTNESS}

RetTo(c, r) == client' = [client EXCEPT ![c].at = "idle", ![c].ret = r]

\* img_exec_dispatch on a fresh image; the table here is the client's own.
ExecDispatch(c, op) ==
  /\ client[c].at = "idle" /\ client[c].n < MaxSends
  /\ client' = [client EXCEPT
       ![c].op  = op,
       ![c].n   = @ + 1,
       ![c].at  = IF Local(op) THEN "idle" ELSE "connect",
       ![c].img = IF Local(op) /\ op # OP_BRIGHTNESS THEN Whole(c) ELSE Fresh(c),
       ![c].ret = IF ~Local(op) THEN "none"
                  ELSE IF op # OP_BRIGHTNESS THEN "ok" ELSE "error"]
  /\ reply' = [reply EXCEPT ![c] = NoReply]
  /\ cut' = cut \ {c} /\ early' = early \ {c}
  /\ UNCHANGED server

\* A refused connection leaves the socket open.
ConnectFails(c) ==
  /\ client[c].at = "connect" /\ ~Up
  /\ client' = [client EXCEPT ![c].at = "idle", ![c].ret = "error", ![c].sockets = @ + 1]
  /\ UNCHANGED <<server, reply, cut, early>>

\* connect, and the two sends; what is sent to a server that dies is lost.
SendRequest(c) ==
  /\ client[c].at = "connect" /\ Up
  /\ client' = [client EXCEPT ![c].at = "wait"]
  /\ UNCHANGED <<server, reply, cut, early>>

Accept(c) ==
  /\ server.at = "accept" /\ client[c].at = "wait" /\ reply[c] = NoReply
  /\ server' = [server EXCEPT !.at = "kernel", !.who = {c}, !.data = client[c].img]
  /\ UNCHANGED <<client, reply, cut, early>>

\* The recv of the body got the first chunk only: the rest is what was in the
\* memory that malloc returned.
AcceptShort(c) ==
  /\ server.at = "accept" /\ client[c].at = "wait" /\ reply[c] = NoReply
  /\ \E left \in {Junk} \cup server.heap :
       server' = [server EXCEPT !.at = "kernel", !.who = {c},
                                !.data = [client[c].img EXCEPT ![2] = left]]
  /\ cut' = cut \cup {c}
  /\ UNCHANGED <<client, reply, early>>

\* The kernel works on all the bytes of the buffer, whoever's they are.
Processed(data) == [i \in 1 .. 2 |-> [data[i] EXCEPT !.state = "done"]]

\* Mutation: the answer is the request's body.
KernelEchoes ==
  /\ server.at = "kernel"
  /\ \E c \in server.who :
       /\ client[c].op \in ServerOps
       /\ server' = [server EXCEPT !.at = "reply"]
  /\ UNCHANGED <<client, reply, cut, early>>

\* g_jump_table[req.op_code] is called without a look: NULL ends the server.
Kernel1 ==
  /\ server.at = "kernel"
  /\ \E c \in server.who :
       server' = IF client[c].op \in ServerOps
                 THEN [server EXCEPT !.at = "reply", !.data = Processed(@)]
                 ELSE [server EXCEPT !.at = "dead"]
  /\ UNCHANGED <<client, reply, cut, early>>

\* Header, body, free, close.  free leaves the bytes in memory.  Closing with unread
\* bytes resets the connection, and the client may lose what it has not read.
Reply ==
  /\ server.at = "reply"
  /\ \E c \in server.who :
       reply' \in {[reply EXCEPT ![c] = r] :
                     r \in {server.data} \cup IF c \in cut THEN {Reset} ELSE {}}
  /\ server' = [at |-> "accept", who |-> {}, data |-> <<Junk, Junk>>,
                 heap |-> server.heap \cup {server.data[2]}]
  /\ UNCHANGED <<client, cut, early>>

\* img_rpc_send returns 0 whatever the two recv calls say.
ReceiveAll(c) ==
  /\ client[c].at = "wait" /\ reply[c] \notin {NoReply, Reset}
  /\ client' = [client EXCEPT ![c].at = "idle", ![c].ret = "ok", ![c].img = reply[c]]
  /\ UNCHANGED <<server, reply, cut, early>>

ReceiveShort(c) ==
  /\ client[c].at = "wait" /\ reply[c] \notin {NoReply, Reset}
  /\ client' = [client EXCEPT ![c].at = "idle", ![c].ret = "ok", ![c].img[1] = reply[c][1]]
  /\ early' = early \cup {c}
  /\ UNCHANGED <<server, reply, cut>>

ReceiveNothing(c) ==
  /\ client[c].at = "wait"
  /\ reply[c] = Reset \/ (reply[c] = NoReply /\ ~Up)
  /\ RetTo(c, "ok")
  /\ UNCHANGED <<server, reply, cut, early>>

RemoteNext ==
  \/ \E c \in Clients :
       \/ \E op \in RemoteOps : ExecDispatch(c, op)
       \/ ConnectFails(c) \/ SendRequest(c) \/ Accept(c) \/ AcceptShort(c)
       \/ ReceiveAll(c) \/ ReceiveShort(c) \/ ReceiveNothing(c)
  \/ Kernel1 \/ Reply

RemoteSpec == RemoteInit /\ [][RemoteNext]_remoteVars

(***************************************************************************)
(* What a zero from img_exec_dispatch is worth (rpc_client.c:46-53).       *)
(* Unless the server's recv of the body was short, the image is the        *)
(* client's own and processed: wholly, in its first part when the client's *)
(* recv of the answer was short, or not at all when the server died before *)
(* it answered.  With a short recv of the server (rpc_server.c:40-60) only *)
(* the first part is sure to be the client's own: the rest may be what the *)
(* freed buffer of another client's request left in memory.                *)
(***************************************************************************)
RemoteTrue ==
  \A c \in Clients :
    client[c].at = "idle" /\ client[c].ret = "ok" =>
      /\ client[c].img[1].of = c
      /\ \/ client[c].img = Whole(c)
         \/ c \in early /\ client[c].img = Image(c, "done", "raw")
         \/ reply[c] = NoReply /\ ~Up /\ client[c].img = Fresh(c)
         \/ c \in cut

=============================================================================
