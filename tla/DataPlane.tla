------------------------------ MODULE DataPlane ------------------------------
(***************************************************************************)
(* The request/response data plane between one client IO engine           *)
(* (src/nic/rdma-gpunode.cpp, client_session::data_channel) and one server *)
(* IO engine (src/nic/rdma-memorynode.cpp, server_session::data_channel),  *)
(* joined by the RC queue pairs Eps that the handshake set up, one         *)
(* completion queue per engine (cq_num = 1).                               *)
(*                                                                         *)
(*  - the user thread calls client_engine::Send, which pushes a send_task  *)
(*    on the engine's task queue tasks_;                                   *)
(*  - the client worker alternates: dispatch one task (send buffer,        *)
(*    framing, PickEp, PostSend), then poll the CQ and handle up to        *)
(*    CQ_POLL_DEPTH completions;                                           *)
(*  - the server worker polls its CQ; on a receive it runs the callback,   *)
(*    re-posts the receive, busy-waits for a send buffer and busy-waits    *)
(*    until PostSend of the reply succeeds;                                *)
(*  - the NIC delivers each QP's messages in order, only into a posted     *)
(*    receive (an RC receiver-not-ready retry otherwise), and later gives  *)
(*    the sender its send completion.                                      *)
(* A buffer is a model value; a message carries the context (the task),    *)
(* the header's length field and the sender's send buffer.                 *)
(***************************************************************************)
EXTENDS Integers, Sequences, FiniteSetsExt

CONSTANTS
    Tasks,          \* application contexts of the calls (model values)
    Server,         \* the server's address, the remote_server_ of every endpoint
    NumEps,         \* endpoints of the client engine to Server (num_per_host)
    ClientBufs,     \* buffers of the client engine's send region (buf_num)
    ServerBufs,     \* buffers of the server engine's send region (buf_num)
    RecvBatch,      \* FLAGS_recv_batch: receives pre-posted per endpoint
    ClientWqDepth,  \* FLAGS_send_wq_depth of the client process
    ServerWqDepth,  \* FLAGS_send_wq_depth of the server process
    CqPollDepth,    \* CQ_POLL_DEPTH
    SbufSize,       \* FLAGS_sbuf_size
    IntMax,         \* INT_MAX of the build's int
    PayloadLens,    \* lengths the user passes to Send
    ReplyLens,      \* lengths the server callback writes to *out_len
    NoBuf,          \* no buffer (model value)
    NoCtx           \* no context (model value)

ASSUME
    /\ NumEps \in Nat \ {0}
    /\ RecvBatch \in Nat \ {0}
    /\ {ClientWqDepth, ServerWqDepth, CqPollDepth} \subseteq Nat \ {0}
    /\ ClientBufs \cap ServerBufs = {}
    /\ PayloadLens \cup ReplyLens \subseteq 0..IntMax
    /\ NoBuf \notin ClientBufs \cup ServerBufs /\ NoCtx \notin Tasks

\* Size of the header: callback (8), context (8), length (4).
HeaderLen == 20

Eps == 0..(NumEps - 1)
Sides == {"client", "server"}
Peer(s) == IF s = "client" THEN "server" ELSE "client"

NoReply == [ctx |-> NoCtx, len |-> 0, ep |-> 0, buf |-> NoBuf]

Task == [ctx : Tasks, len : PayloadLens]
Msg == [ctx : Tasks, len : Int, buf : ClientBufs \cup ServerBufs]
WC == [op : {"SEND", "RECV"}, ep : Eps, msg : Msg]

\* The client engine's endpoints_: all NumEps endpoints lead to Server.
EpVec == [i \in Eps |-> Server]

LOCAL EP == INSTANCE PickEp WITH Dests <- {Server}, MaxPerHost <- NumEps,
              PickDests <- {Server}, endpoints <- EpVec,
              endpoint_index <- 0, last <- 0

VARIABLES
    submitted,      \* the send_tasks the user has passed to Send (history)
    tasks,          \* rdma_io_engine::tasks_ of the client engine
    endpoint_index, \* rdma_io_engine::endpoint_index_ of the client engine
    free,           \* free send buffers: free["client"], free["server"]
    wire,           \* wire[e][s]: messages posted by side s on QP e, not yet received
    acks,           \* acks[e][s]: received, send completion not yet on s's CQ
    rq,             \* rq[e][s]: receives posted on side s of QP e
    sq,             \* sq[e][s]: send work requests occupying s's send queue of QP e
    cq,             \* cq[s]: completions of side s's engine, not yet polled
    cpc,            \* client worker: "dispatch", "poll" or "process"
    cbatch,         \* client worker: the wc[] array being processed
    spc,            \* server worker: "poll", "process", "getbuf" or "post"
    sbatch,         \* server worker: the wc[] array being processed
    sreply,         \* server worker: the reply being sent
    served,         \* served[t]: server callback runs for context t (history)
    answers         \* answers[t]: lengths the client callback saw for t (history)

vars == <<submitted, tasks, endpoint_index, free, wire, acks, rq, sq, cq,
          cpc, cbatch, spc, sbatch, sreply, served, answers>>
net == <<wire, acks>>

(***************************************************************************)
(* Framing.  A payload longer than the buffer leaves room for is cut to    *)
(* sbuf_size - 20; the header's length field holds the cut length.  The    *)
(* test sbuf_size < len + 20 is int arithmetic: when len + 20 exceeds     *)
(* INT_MAX the addition is undefined, and the build either wraps it (the  *)
(* sum is negative, the test fails and nothing is cut) or folds the test  *)
(* to the mathematical one (the payload is cut): the cut lengths the      *)
(* build can produce.                                                      *)
(***************************************************************************)
Truncate(len) ==
    CASE len > IntMax - HeaderLen -> {len, SbufSize - HeaderLen}
      [] SbufSize < len + HeaderLen -> {SbufSize - HeaderLen}
      [] OTHER -> {len}

\* Fault variant: the reply is cut as if the header were 8 bytes long.
TruncateReplyHeader8(len) ==
    CASE len > IntMax - HeaderLen -> {len, SbufSize - 8}
      [] SbufSize < len + 8 -> {SbufSize - 8}
      [] OTHER -> {len}

TruncateReply(len) ==
    CASE len > IntMax - HeaderLen -> {len, SbufSize - HeaderLen}
      [] SbufSize < len + HeaderLen -> {SbufSize - HeaderLen}
      [] OTHER -> {len}

\* Fault variant: every completion of the batch, receives too, frees a slot.
FreeSlotsAnyWc(batch, s) ==
    [e \in Eps |-> [sq[e] EXCEPT ![s] =
        @ - Cardinality({i \in DOMAIN batch : batch[i].ep = e})]]

\* Send completions in a polled batch free their send-queue slots.
FreeSlots(batch, s) ==
    [e \in Eps |-> [sq[e] EXCEPT ![s] =
        @ - Cardinality({i \in DOMAIN batch :
                           batch[i].op = "SEND" /\ batch[i].ep = e})]]

\* ibv_poll_cq: take up to CQ_POLL_DEPTH completions off side s's CQ.
PollCount(s) == IF Len(cq[s]) < CqPollDepth THEN Len(cq[s]) ELSE CqPollDepth
Polled(s) == SubSeq(cq[s], 1, PollCount(s))
Unpolled(s) == SubSeq(cq[s], PollCount(s) + 1, Len(cq[s]))

\* rdma_io_engine::PutTask: tasks_.push, at the tail of the queue.
PutTask(q, t) == Append(q, t)

\* rdma_io_engine::ReleaseBuffer(0, buf): the buffer returns to the region.
ReleaseBuffer(s, b) == [free EXCEPT ![s] = @ \cup {b}]

WqDepth(s) == IF s = "client" THEN ClientWqDepth ELSE ServerWqDepth

\* rdma_endpoint::PostSend: ibv_post_send fails (ENOMEM) on a full send queue.
PostSendFails(e, s) == sq[e][s] >= WqDepth(s)

\* rdma_endpoint::PostRecv: one more receive posted on the QP.
PostRecv(e, s) == [rq EXCEPT ![e][s] = @ + 1]

-----------------------------------------------------------------------------
(* The state after Connect/AcceptHandler and Start: every endpoint has     *)
(* recv_batch receives posted on both sides, every send buffer is free.    *)
Init ==
    /\ submitted = {}
    /\ tasks = <<>>
    /\ endpoint_index = 0
    /\ free = [client |-> ClientBufs, server |-> ServerBufs]
    /\ wire = [e \in Eps |-> [s \in Sides |-> <<>>]]
    /\ acks = [e \in Eps |-> [s \in Sides |-> <<>>]]
    /\ rq = [e \in Eps |-> [s \in Sides |-> RecvBatch]]
    /\ sq = [e \in Eps |-> [s \in Sides |-> 0]]
    /\ cq = [s \in Sides |-> <<>>]
    /\ cpc = "dispatch"
    /\ cbatch = <<>>
    /\ spc = "poll"
    /\ sbatch = <<>>
    /\ sreply = NoReply
    /\ served = [t \in Tasks |-> <<>>]
    /\ answers = [t \in Tasks |-> <<>>]

-----------------------------------------------------------------------------
(* User thread: client_engine::Send(callback, ctx, packet, length, dest).  *)
Send(t, len) ==
    /\ t \notin {r.ctx : r \in submitted}
    /\ submitted' = submitted \cup {[ctx |-> t, len |-> len]}
    /\ tasks' = PutTask(tasks, [ctx |-> t, len |-> len])
    /\ UNCHANGED <<endpoint_index, free, net, rq, sq, cq, cpc, cbatch,
                   spc, sbatch, sreply, served, answers>>

(* Client worker, phase 1: GetTask finds the queue empty.                  *)
DispatchIdle ==
    /\ cpc = "dispatch"
    /\ tasks = <<>>
    /\ cpc' = "poll"
    /\ UNCHANGED <<submitted, tasks, endpoint_index, free, net, rq, sq, cq,
                   cbatch, spc, sbatch, sreply, served, answers>>

\* Fault variant: without a buffer the task is deleted instead of put back.
DispatchNoBufferDrop ==
    /\ cpc = "dispatch"
    /\ tasks # <<>>
    /\ free["client"] = {}
    /\ tasks' = Tail(tasks)
    /\ cpc' = "poll"
    /\ UNCHANGED <<submitted, endpoint_index, free, net, rq, sq, cq,
                   cbatch, spc, sbatch, sreply, served, answers>>

(* No send buffer left: delete the request, PutTask the task back (tail).  *)
DispatchNoBuffer ==
    /\ cpc = "dispatch"
    /\ tasks # <<>>
    /\ free["client"] = {}
    /\ tasks' = PutTask(Tail(tasks), Head(tasks))
    /\ cpc' = "poll"
    /\ UNCHANGED <<submitted, endpoint_index, free, net, rq, sq, cq,
                   cbatch, spc, sbatch, sreply, served, answers>>

(* A buffer is taken, the packet framed, PickEp chooses the endpoint and   *)
(* PostSend succeeds: the task is deleted, the buffer is in flight.        *)
DispatchPosted ==
    /\ cpc = "dispatch"
    /\ tasks # <<>>
    /\ \E b \in free["client"], cut \in Truncate(Head(tasks).len) :
         LET t == Head(tasks)
             r == EP!PickEp(EpVec, endpoint_index, Server)
             m == [ctx |-> t.ctx, len |-> cut, buf |-> b]
         IN  /\ ~PostSendFails(r.ep, "client")
             /\ endpoint_index' = r.index
             /\ tasks' = Tail(tasks)
             /\ free' = [free EXCEPT !["client"] = @ \ {b}]
             /\ wire' = [wire EXCEPT ![r.ep]["client"] = Append(@, m)]
             /\ sq' = [sq EXCEPT ![r.ep]["client"] = @ + 1]
    /\ cpc' = "poll"
    /\ UNCHANGED <<submitted, acks, rq, cq, cbatch, spc, sbatch, sreply,
                   served, answers>>

\* Fault variant: on a failed post the buffer is not released.
DispatchPostFailedLeak ==
    /\ cpc = "dispatch"
    /\ tasks # <<>>
    /\ \E b \in free["client"] :
         LET r == EP!PickEp(EpVec, endpoint_index, Server)
         IN  /\ sq[r.ep]["client"] >= ClientWqDepth
             /\ endpoint_index' = r.index
             /\ free' = [free EXCEPT !["client"] = @ \ {b}]
    /\ tasks' = Append(Tail(tasks), Head(tasks))
    /\ cpc' = "poll"
    /\ UNCHANGED <<submitted, net, rq, sq, cq, cbatch, spc, sbatch,
                   sreply, served, answers>>

\* Fault variant: on a failed post the task is deleted instead of put back.
DispatchPostFailedDrop ==
    /\ cpc = "dispatch"
    /\ tasks # <<>>
    /\ free["client"] # {}
    /\ LET r == EP!PickEp(EpVec, endpoint_index, Server)
       IN  /\ sq[r.ep]["client"] >= ClientWqDepth
           /\ endpoint_index' = r.index
    /\ tasks' = Tail(tasks)
    /\ cpc' = "poll"
    /\ UNCHANGED <<submitted, free, net, rq, sq, cq, cbatch, spc, sbatch,
                   sreply, served, answers>>

(* PostSend fails (the send queue is full): the buffer is released, the    *)
(* request deleted and the task put back; PickEp has moved the cursor.     *)
DispatchPostFailed ==
    /\ cpc = "dispatch"
    /\ tasks # <<>>
    /\ free["client"] # {}
    /\ LET r == EP!PickEp(EpVec, endpoint_index, Server)
       IN  /\ PostSendFails(r.ep, "client")
           /\ endpoint_index' = r.index
    /\ tasks' = PutTask(Tail(tasks), Head(tasks))
    /\ cpc' = "poll"
    /\ UNCHANGED <<submitted, free, net, rq, sq, cq, cbatch, spc, sbatch,
                   sreply, served, answers>>

(* Client worker, phase 2: ibv_poll_cq on the engine's CQ.                 *)
ClientPoll ==
    /\ cpc = "poll"
    /\ cbatch' = Polled("client")
    /\ cq' = [cq EXCEPT !["client"] = Unpolled("client")]
    /\ sq' = FreeSlots(Polled("client"), "client")
    /\ cpc' = IF PollCount("client") = 0 THEN "dispatch" ELSE "process"
    /\ UNCHANGED <<submitted, tasks, endpoint_index, free, net, rq, spc,
                   sbatch, sreply, served, answers>>

\* After the last completion of the batch the loop starts over.
ClientNextPc == IF Len(cbatch) = 1 THEN "dispatch" ELSE "process"

(* IBV_WC_SEND: the request's send buffer returns to the send region.      *)
ClientSendDone ==
    /\ cpc = "process"
    /\ Head(cbatch).op = "SEND"
    /\ free' = ReleaseBuffer("client", Head(cbatch).msg.buf)
    /\ cbatch' = Tail(cbatch)
    /\ cpc' = ClientNextPc
    /\ UNCHANGED <<submitted, tasks, endpoint_index, net, rq, sq, cq, spc,
                   sbatch, sreply, served, answers>>

\* Fault variant: the receive request is not posted again.
ClientRecvDoneNoRepost ==
    /\ cpc = "process"
    /\ Head(cbatch).op = "RECV"
    /\ LET w == Head(cbatch)
       IN  answers' = [answers EXCEPT ![w.msg.ctx] = Append(@, w.msg.len)]
    /\ cbatch' = Tail(cbatch)
    /\ cpc' = ClientNextPc
    /\ UNCHANGED <<submitted, tasks, endpoint_index, free, net, rq, sq, cq,
                   spc, sbatch, sreply, served>>

(* IBV_WC_RECV: the callback named in the header runs with the header's   *)
(* context and length, then the same request is posted again.              *)
ClientRecvDone ==
    /\ cpc = "process"
    /\ Head(cbatch).op = "RECV"
    /\ LET w == Head(cbatch)
       IN  /\ answers' = [answers EXCEPT ![w.msg.ctx] = Append(@, w.msg.len)]
           /\ rq' = PostRecv(w.ep, "client")
    /\ cbatch' = Tail(cbatch)
    /\ cpc' = ClientNextPc
    /\ UNCHANGED <<submitted, tasks, endpoint_index, free, net, sq, cq, spc,
                   sbatch, sreply, served>>

-----------------------------------------------------------------------------
(* Server worker: ibv_poll_cq (an empty poll changes nothing).             *)
ServerPoll ==
    /\ spc = "poll"
    /\ cq["server"] # <<>>
    /\ sbatch' = Polled("server")
    /\ cq' = [cq EXCEPT !["server"] = Unpolled("server")]
    /\ sq' = FreeSlots(Polled("server"), "server")
    /\ spc' = "process"
    /\ UNCHANGED <<submitted, tasks, endpoint_index, free, net, rq, cpc,
                   cbatch, sreply, served, answers>>

(* IBV_WC_RECV: parse the header, run the callback, which writes some      *)
(* reply length, post the receive again, then start on the reply.          *)
ServerRecv ==
    /\ spc = "process"
    /\ Head(sbatch).op = "RECV"
    /\ \E out \in ReplyLens :
       \E cut \in TruncateReply(out) :
         LET w == Head(sbatch)
         IN  /\ served' = [served EXCEPT ![w.msg.ctx] =
                             Append(@, [in |-> w.msg.len, out |-> out])]
             /\ rq' = PostRecv(w.ep, "server")
             /\ sreply' = [ctx |-> w.msg.ctx, len |-> cut,
                           ep |-> w.ep, buf |-> NoBuf]
    /\ sbatch' = Tail(sbatch)
    /\ spc' = "getbuf"
    /\ UNCHANGED <<submitted, tasks, endpoint_index, free, net, sq, cq, cpc,
                   cbatch, answers>>

(* while (buf == nullptr) usleep(50): the step waits for a free buffer.    *)
ServerGetBuf ==
    /\ spc = "getbuf"
    /\ \E b \in free["server"] :
         /\ free' = [free EXCEPT !["server"] = @ \ {b}]
         /\ sreply' = [sreply EXCEPT !.buf = b]
    /\ spc' = "post"
    /\ UNCHANGED <<submitted, tasks, endpoint_index, net, rq, sq, cq, cpc,
                   cbatch, sbatch, served, answers>>

(* while (ep->PostSend(send_req)) usleep(50): waits for a send-queue slot. *)
ServerPostReply ==
    /\ spc = "post"
    /\ ~PostSendFails(sreply.ep, "server")
    /\ wire' = [wire EXCEPT ![sreply.ep]["server"] =
                  Append(@, [ctx |-> sreply.ctx, len |-> sreply.len,
                             buf |-> sreply.buf])]
    /\ sq' = [sq EXCEPT ![sreply.ep]["server"] = @ + 1]
    /\ sreply' = NoReply
    /\ spc' = IF sbatch = <<>> THEN "poll" ELSE "process"
    /\ UNCHANGED <<submitted, tasks, endpoint_index, free, acks, rq, cq, cpc,
                   cbatch, sbatch, served, answers>>

(* IBV_WC_SEND: the reply's buffer returns to the server's send region.    *)
ServerSendDone ==
    /\ spc = "process"
    /\ Head(sbatch).op = "SEND"
    /\ free' = ReleaseBuffer("server", Head(sbatch).msg.buf)
    /\ sbatch' = Tail(sbatch)
    /\ spc' = IF Len(sbatch) = 1 THEN "poll" ELSE "process"
    /\ UNCHANGED <<submitted, tasks, endpoint_index, net, rq, sq, cq, cpc,
                   cbatch, sreply, served, answers>>

-----------------------------------------------------------------------------
(* NIC: the head message of side s on QP e lands in a posted receive of    *)
(* the peer, which gets an IBV_WC_RECV; the sender's ACK is pending.       *)
Deliver(e, s) ==
    /\ wire[e][s] # <<>>
    /\ rq[e][Peer(s)] > 0
    /\ rq' = [rq EXCEPT ![e][Peer(s)] = @ - 1]
    /\ cq' = [cq EXCEPT ![Peer(s)] =
                Append(@, [op |-> "RECV", ep |-> e, msg |-> Head(wire[e][s])])]
    /\ acks' = [acks EXCEPT ![e][s] = Append(@, Head(wire[e][s]))]
    /\ wire' = [wire EXCEPT ![e][s] = Tail(@)]
    /\ UNCHANGED <<submitted, tasks, endpoint_index, free, sq, cpc, cbatch,
                   spc, sbatch, sreply, served, answers>>

(* NIC: the ACK reaches the sender, whose CQ gets the IBV_WC_SEND.         *)
Ack(e, s) ==
    /\ acks[e][s] # <<>>
    /\ cq' = [cq EXCEPT ![s] =
                Append(@, [op |-> "SEND", ep |-> e, msg |-> Head(acks[e][s])])]
    /\ acks' = [acks EXCEPT ![e][s] = Tail(@)]
    /\ UNCHANGED <<submitted, tasks, endpoint_index, free, wire, rq, sq, cpc,
                   cbatch, spc, sbatch, sreply, served, answers>>

-----------------------------------------------------------------------------
User == \E t \in Tasks, len \in PayloadLens : Send(t, len)

ClientWorker ==
    \/ DispatchIdle \/ DispatchNoBuffer \/ DispatchPosted \/ DispatchPostFailed
    \/ ClientPoll \/ ClientSendDone \/ ClientRecvDone

ServerWorker ==
    \/ ServerPoll \/ ServerRecv \/ ServerGetBuf \/ ServerPostReply
    \/ ServerSendDone

Nic == \E e \in Eps, s \in Sides : Deliver(e, s) \/ Ack(e, s)

Next == User \/ ClientWorker \/ ServerWorker \/ Nic

(***************************************************************************)
(* Fairness.  Both workers are threads that spin without blocking; the     *)
(* NIC delivers and acknowledges (RC retransmits until the receiver has a  *)
(* receive posted); the user thread sends every task it has.               *)
(***************************************************************************)
Fairness ==
    /\ WF_vars(ClientWorker)
    /\ WF_vars(ServerWorker)
    /\ \A e \in Eps, s \in Sides : WF_vars(Deliver(e, s)) /\ WF_vars(Ack(e, s))
    /\ \A t \in Tasks : WF_vars(\E len \in PayloadLens : Send(t, len))

Spec == Init /\ [][Next]_vars /\ Fairness

-----------------------------------------------------------------------------
TypeOK ==
    /\ submitted \subseteq Task
    /\ tasks \in Seq(Task)
    /\ endpoint_index \in Eps
    /\ free \in [Sides -> SUBSET (ClientBufs \cup ServerBufs)]
    /\ wire \in [Eps -> [Sides -> Seq(Msg)]]
    /\ acks \in [Eps -> [Sides -> Seq(Msg)]]
    /\ rq \in [Eps -> [Sides -> 0..RecvBatch]]
    /\ sq \in [Eps -> [Sides -> Nat]]
    /\ cq \in [Sides -> Seq(WC)]
    /\ cpc \in {"dispatch", "poll", "process"}
    /\ spc \in {"poll", "process", "getbuf", "post"}
    /\ cbatch \in Seq(WC) /\ sbatch \in Seq(WC)
    /\ served \in [Tasks -> Seq([in : Int, out : ReplyLens])]
    /\ answers \in [Tasks -> Seq(Int)]

\* The completions of side s not yet handled: on the CQ or in the batch.
Pending(s) == cq[s] \o (IF s = "client" THEN cbatch ELSE sbatch)

\* Number of elements i of sequence q with P(q[i]).
CountIn(q, P(_)) == Cardinality({i \in DOMAIN q : P(q[i])})

\* Send buffers of side s held by a request: posted, delivered, or a send
\* completion not yet handled; on the server also the reply being built.
HeldCount(s, b) ==
    LET OnBuf(m) == m.buf = b
        SendWc(w) == w.op = "SEND" /\ w.msg.buf = b
    IN  CountIn(Pending(s), SendWc)
        + (IF s = "server" /\ sreply.buf = b THEN 1 ELSE 0)
        + MapThenSumSet(LAMBDA e : CountIn(wire[e][s], OnBuf)
                                   + CountIn(acks[e][s], OnBuf), Eps)

(***************************************************************************)
(* Buffer conservation (property 1 of the specification), for both send  *)
(* regions and the receive rings.  Every send buffer is, at every instant, *)
(* either free in its region or held by exactly one request in flight:     *)
(* posted, received, or waiting for its send completion to be handled.     *)
(* Every endpoint keeps recv_batch receive buffers on each side: posted,   *)
(* or holding a receive completion the worker has not handled yet.  It is  *)
(* broken by a path of the worker loops that takes a buffer and drops it   *)
(* (post failure, back-pressure) or releases or re-posts one twice.        *)
(***************************************************************************)
BufferConservation ==
    /\ \A s \in Sides :
         \A b \in (IF s = "client" THEN ClientBufs ELSE ServerBufs) :
           (IF b \in free[s] THEN 1 ELSE 0) + HeldCount(s, b) = 1
    /\ \A e \in Eps, s \in Sides :
         LET RecvOn(w) == w.op = "RECV" /\ w.ep = e
         IN  rq[e][s] + CountIn(Pending(s), RecvOn) = RecvBatch

\* Places where the call for context t is, from Send to its callback.
CallCount(t) ==
    LET OfT(x) == x.ctx = t
        RecvOfT(w) == w.op = "RECV" /\ w.msg.ctx = t
    IN  CountIn(tasks, OfT)
        + MapThenSumSet(LAMBDA e : CountIn(wire[e]["client"], OfT)
                                   + CountIn(wire[e]["server"], OfT), Eps)
        + CountIn(Pending("server"), RecvOfT) + CountIn(Pending("client"), RecvOfT)
        + (IF sreply.ctx = t THEN 1 ELSE 0)
        + Len(answers[t])

(***************************************************************************)
(* No call is lost or duplicated (property 3 and 6 of the specification):  *)
(* a context the user passed to Send is, at every instant, in exactly one  *)
(* place: the task queue, a request on the wire or in the server's         *)
(* completions, the reply being built or on the wire or in the client's    *)
(* completions, or answered by one callback run; an unsent one is nowhere. *)
(* Re-enqueueing on back-pressure and on a failed post must neither drop   *)
(* the task nor send it twice.                                             *)
(***************************************************************************)
NoCallLostOrDuplicated ==
    \A t \in Tasks :
      CallCount(t) = IF t \in {r.ctx : r \in submitted} THEN 1 ELSE 0

(***************************************************************************)
(* Packet truncation (property 7 of the specification): the server        *)
(* callback of a call whose payload of length L exceeds sbuf_size - 20     *)
(* sees exactly sbuf_size - 20 bytes, and one within the limit sees L, as  *)
(* framed by the client worker's length test (rdma-gpunode.cpp).          *)
(***************************************************************************)
PayloadTruncated ==
    \A r \in submitted : \A k \in DOMAIN served[r.ctx] :
        served[r.ctx][k].in = IF r.len > SbufSize - HeaderLen
                                THEN SbufSize - HeaderLen ELSE r.len

\* Every call the user made is eventually answered.
Answered(t) == answers[t] # <<>>
Submitted(t) == t \in {r.ctx : r \in submitted}

(***************************************************************************)
(* Every call is answered: once the user has sent a task, the client       *)
(* callback for its context eventually runs.  The server worker must not   *)
(* wait forever for a send buffer or a send-queue slot that only its own   *)
(* completion handling could free.                                         *)
(***************************************************************************)
EveryCallAnswered == \A t \in Tasks : Submitted(t) ~> Answered(t)

(***************************************************************************)
(* The data plane implements the abstract RPC service of module Rpc: the  *)
(* user's Send is a Submit, the client callback an Answer, every other     *)
(* step leaves the service unchanged.                                      *)
(***************************************************************************)
RPC == INSTANCE Rpc WITH requests <- submitted, replies <- answers

ImplementsRpc == RPC!Spec

=============================================================================
