------------------------------ MODULE Handshake ------------------------------
(***************************************************************************)
(* The connection handshake of src/nic/context.cpp over its TCP side       *)
(* channel: rdma_context::Connect on the client (one call per client       *)
(* program run, from client_session::Init) against one AcceptHandler      *)
(* thread per accepted connection on the server (spawned by Listen).       *)
(*                                                                         *)
(* Each run r is one execution of the client program.  A run that fails   *)
(* ends the program (Init returns an error, main returns 1); the run       *)
(* RestartOf[r'] = r is the same client program started again after that  *)
(* failure.  The server is long-lived: its hosts_, its engine's endpoints_ *)
(* and its receive region survive the runs.  A connect_info record is a   *)
(* type and a number_of_qp; a short read is a record of no known type.     *)
(* The server has one IO engine (ioengine_num = 1); the client's engines   *)
(* are folded into NumQp = num_per_host * ioengine_num.                    *)
(***************************************************************************)
EXTENDS Integers, Sequences, FiniteSets

CONSTANTS
    Runs,            \* client program runs (model values)
    RestartOf,       \* RestartOf[r]: the failed run that r restarts, or NoRun
    NoRun,
    NumQp,           \* num_per_host_ * io_engines_.size() of the client
    RecvBatch,       \* FLAGS_recv_batch
    RecvBufs,        \* FLAGS_buf_num of the server engine's receive region
    MaxConnRetry,    \* kMaxConnRetry
    HostInfoKey,     \* kHostInfoKey, kChannelInfoKey, kGoGoKey (helper.hpp)
    ChannelInfoKey,
    GoGoKey,
    CrashRuns,       \* the runs whose client program may die in mid-handshake
    ActivateFailRuns,\* the runs whose ibv_modify_qp calls in Activate may fail
    CreateQpFailRuns \* the runs whose server-side ibv_create_qp may fail

ASSUME
    /\ RestartOf \in [Runs -> Runs \cup {NoRun}] /\ NoRun \notin Runs
    /\ NumQp \in Nat \ {0} /\ RecvBatch \in Nat \ {0} /\ RecvBufs \in Nat
    /\ MaxConnRetry \in Nat \ {0}
    /\ Cardinality({HostInfoKey, ChannelInfoKey, GoGoKey}) = 3
    /\ {HostInfoKey, ChannelInfoKey, GoGoKey} \subseteq Nat
    /\ CrashRuns \subseteq Runs /\ ActivateFailRuns \subseteq Runs
    /\ CreateQpFailRuns \subseteq Runs

VARIABLES
    listening,   \* Listen has bound and listens on the port
    crashed,     \* the server process died (null receive buffer)
    cpc,         \* Connect's position, per run
    retries,     \* failed ConnectionSetup attempts, per run
    ci,          \* Connect's QP loop index, per run
    cEps,        \* endpoints the client registered (PutEndpoint), per run
    toS, toC,    \* the TCP stream of each run, in both directions
    cOpen,       \* the client's socket of the run is open
    spc,         \* AcceptHandler's position, per run
    si,          \* AcceptHandler's QP loop index, per run
    snq,         \* number_of_qp the server read, per run
    hosts,       \* runs with an rdma_host in the server's hosts_
    hostsInit,   \* runs whose server host is initialized
    sEps,        \* <<run, i>> activated with its first receives posted
    endpoints,   \* the slots of the server engine's endpoints_ storage, <<run, i>>
    epSize,      \* the size of endpoints_: its first epSize slots are its elements
    putAt,       \* per run: the size of endpoints_ PutEndpoint's push_back read
    recvFree,    \* free buffers of the server engine's receive region
    numOfRecv    \* the server's num_of_recv_

vars == <<listening, crashed, cpc, retries, ci, cEps, toS, toC, cOpen, spc,
          si, snq, hosts, hostsInit, sEps, endpoints, epSize, putAt, recvFree,
          numOfRecv>>

Msg(type, nqp) == [type |-> type, nqp |-> nqp]

\* A read of fewer than sizeof(connect_info) bytes: it matches no type.
Short == Msg(-1, 0)

Types == {HostInfoKey, ChannelInfoKey, GoGoKey, 0, -1}

\* The server socket of run r is open while its AcceptHandler runs, and
\* after a handler that returned without closing it ("returned").
SOpen(r) == spc[r] \in {"readHost", "writeHost", "readChan", "writeChan",
                        "activate", "putEp", "readGoGo", "writeGoGo",
                        "returned"} /\ ~crashed

-----------------------------------------------------------------------------
(* A blocking read returns the next record, or a short count once the     *)
(* peer has closed the socket and nothing is left to read.                 *)
CanRead(q, peerOpen) == q # <<>> \/ ~peerOpen
Got(q) == IF q # <<>> THEN Head(q) ELSE Short
Rest(q) == IF q # <<>> THEN Tail(q) ELSE q

(* A write to a socket whose peer is gone is lost (the first write after   *)
(* the peer closed succeeds; the handshake never writes twice in a row).   *)
Write(q, peerOpen, m) == IF peerOpen THEN Append(q, m) ELSE q

(* The state after rdma_context::Init: the receive region holds buf_num    *)
(* buffers, no connection, the listen thread not yet listening.            *)
Init ==
    /\ listening = FALSE
    /\ crashed = FALSE
    /\ cpc = [r \in Runs |-> "idle"]
    /\ retries = [r \in Runs |-> 0]
    /\ ci = [r \in Runs |-> 0]
    /\ cEps = [r \in Runs |-> 0]
    /\ toS = [r \in Runs |-> <<>>]
    /\ toC = [r \in Runs |-> <<>>]
    /\ cOpen = [r \in Runs |-> FALSE]
    /\ spc = [r \in Runs |-> "none"]
    /\ si = [r \in Runs |-> 0]
    /\ snq = [r \in Runs |-> 0]
    /\ hosts = {}
    /\ hostsInit = {}
    /\ sEps = {}
    /\ endpoints = <<>>
    /\ epSize = 0
    /\ putAt = [r \in Runs |-> 0]
    /\ recvFree = RecvBufs
    /\ numOfRecv = 0

-----------------------------------------------------------------------------
\* Positions of Connect in which the client program may die.
Running == {"connecting", "writeHost", "readHost", "writeChan", "readChan",
            "writeGoGo", "readGoGo"}

\* The server end of run r's connection is not closed (accepted or not).
SAlive(r) == ~crashed /\ (spc[r] = "none" \/ SOpen(r))

\* goto out in Connect: close(sockfd); Init fails and the program exits.
ClientFail(r) ==
    /\ cpc' = [cpc EXCEPT ![r] = "failed"]
    /\ cOpen' = [cOpen EXCEPT ![r] = FALSE]

(* rdma_endpoint::Activate: three ibv_modify_qp calls (INIT, RTR, RTS),    *)
(* returning -1 at the first that fails, 0 after the last.  Only its       *)
(* result is observed by the handshake.                                    *)
Activate(r) == IF r \in ActivateFailRuns THEN {0, -1} ELSE {0}

ServerVars == <<listening, crashed, spc, si, snq, hosts, hostsInit, sEps, endpoints, epSize, putAt,
                recvFree, numOfRecv>>

(* client_session::Init calls Connect; a run that restarts the client      *)
(* program starts only once the run it restarts has failed.                *)
ClientStart(r) ==
    /\ cpc[r] = "idle"
    /\ IF RestartOf[r] = NoRun THEN TRUE
       ELSE cpc[RestartOf[r]] \in {"failed", "gaveUp"}
    /\ cpc' = [cpc EXCEPT ![r] = "connecting"]
    /\ UNCHANGED <<retries, ci, cEps, toS, toC, cOpen, ServerVars>>

\* Fault variant: the retry loop makes kMaxConnRetry + 1 attempts (i <= ...).
ClientConnectAttemptExtraRetry(r) ==
    /\ cpc[r] = "connecting"
    /\ IF listening /\ ~crashed
         THEN /\ cpc' = [cpc EXCEPT ![r] = "writeHost"]
              /\ cOpen' = [cOpen EXCEPT ![r] = TRUE]
              /\ UNCHANGED retries
         ELSE /\ retries' = [retries EXCEPT ![r] = @ + 1]
              /\ cpc' = [cpc EXCEPT ![r] = IF retries[r] = MaxConnRetry
                                                THEN "gaveUp" ELSE @]
              /\ UNCHANGED cOpen
    /\ UNCHANGED <<ci, cEps, toS, toC, ServerVars>>

(* One ConnectionSetup attempt: it connects once the server listens;       *)
(* otherwise sleep(1) and retry, up to kMaxConnRetry attempts.             *)
ClientConnectAttempt(r) ==
    /\ cpc[r] = "connecting"
    /\ IF listening /\ ~crashed
         THEN /\ cpc' = [cpc EXCEPT ![r] = "writeHost"]
              /\ cOpen' = [cOpen EXCEPT ![r] = TRUE]
              /\ UNCHANGED retries
         ELSE /\ retries' = [retries EXCEPT ![r] = @ + 1]
              /\ cpc' = [cpc EXCEPT ![r] = IF retries[r] + 1 = MaxConnRetry
                                                THEN "gaveUp" ELSE @]
              /\ UNCHANGED cOpen
    /\ UNCHANGED <<ci, cEps, toS, toC, ServerVars>>

(* The HostInfo record: zeroed, number_of_qp and gid filled in; its type   *)
(* field is never set, so it goes out as 0.                                *)
ClientWriteHost(r) ==
    /\ cpc[r] = "writeHost"
    /\ toS' = [toS EXCEPT ![r] = Write(@, SAlive(r), Msg(0, NumQp))]
    /\ cpc' = [cpc EXCEPT ![r] = "readHost"]
    /\ UNCHANGED <<retries, ci, cEps, toC, cOpen, ServerVars>>

(* Read the server's HostInfo; a short read or another type is goto out.   *)
ClientReadHost(r) ==
    /\ cpc[r] = "readHost"
    /\ CanRead(toC[r], SAlive(r))
    /\ toC' = [toC EXCEPT ![r] = Rest(@)]
    /\ IF Got(toC[r]).type = HostInfoKey
         THEN /\ cpc' = [cpc EXCEPT ![r] = "writeChan"]
              /\ UNCHANGED cOpen
         ELSE ClientFail(r)
    /\ UNCHANGED <<retries, ci, cEps, toS, ServerVars>>

(* QP i: ibv_create_qp, GetEndpointInfo, write the ChannelInfo record.     *)
ClientWriteChan(r) ==
    /\ cpc[r] = "writeChan"
    /\ toS' = [toS EXCEPT ![r] = Write(@, SAlive(r), Msg(ChannelInfoKey, 0))]
    /\ cpc' = [cpc EXCEPT ![r] = "readChan"]
    /\ UNCHANGED <<retries, ci, cEps, toC, cOpen, ServerVars>>

\* Fault variant: after the last QP the GoGo exchange is skipped.
ClientReadChanNoGoGo(r) ==
    /\ cpc[r] = "readChan"
    /\ CanRead(toC[r], SAlive(r))
    /\ toC' = [toC EXCEPT ![r] = Rest(@)]
    /\ \E res \in Activate(r) :
         IF Got(toC[r]).type = ChannelInfoKey /\ res = 0
           THEN /\ cEps' = [cEps EXCEPT ![r] = @ + 1]
                /\ ci' = [ci EXCEPT ![r] = @ + 1]
                /\ cpc' = [cpc EXCEPT ![r] = IF ci[r] + 1 < NumQp
                                                  THEN "writeChan" ELSE "done"]
                /\ UNCHANGED cOpen
           ELSE /\ ClientFail(r) /\ UNCHANGED <<cEps, ci>>
    /\ UNCHANGED <<retries, toS, ServerVars>>

(* Read the peer's ChannelInfo, SetEndpointInfo, Activate, post the first  *)
(* recv_batch receives and PutEndpoint; then the next QP, or GoGo.  Another *)
(* type or a failed Activate is goto out.                                  *)
ClientReadChan(r) ==
    /\ cpc[r] = "readChan"
    /\ CanRead(toC[r], SAlive(r))
    /\ toC' = [toC EXCEPT ![r] = Rest(@)]
    /\ \E res \in Activate(r) :
         IF Got(toC[r]).type = ChannelInfoKey /\ res = 0
           THEN /\ cEps' = [cEps EXCEPT ![r] = @ + 1]
                /\ ci' = [ci EXCEPT ![r] = @ + 1]
                /\ cpc' = [cpc EXCEPT ![r] = IF ci[r] + 1 < NumQp
                                                  THEN "writeChan" ELSE "writeGoGo"]
                /\ UNCHANGED cOpen
           ELSE /\ ClientFail(r) /\ UNCHANGED <<cEps, ci>>
    /\ UNCHANGED <<retries, toS, ServerVars>>

(* Ask the server for GoGo.                                                *)
ClientWriteGoGo(r) ==
    /\ cpc[r] = "writeGoGo"
    /\ toS' = [toS EXCEPT ![r] = Write(@, SAlive(r), Msg(GoGoKey, 0))]
    /\ cpc' = [cpc EXCEPT ![r] = "readGoGo"]
    /\ UNCHANGED <<retries, ci, cEps, toC, cOpen, ServerVars>>

(* The server's GoGo: the host is initialized, the socket closed and       *)
(* Connect returns 0.                                                      *)
ClientReadGoGo(r) ==
    /\ cpc[r] = "readGoGo"
    /\ CanRead(toC[r], SAlive(r))
    /\ toC' = [toC EXCEPT ![r] = Rest(@)]
    /\ IF Got(toC[r]).type = GoGoKey
         THEN /\ cpc' = [cpc EXCEPT ![r] = "done"]
              /\ cOpen' = [cOpen EXCEPT ![r] = FALSE]
         ELSE ClientFail(r)
    /\ UNCHANGED <<retries, ci, cEps, toS, ServerVars>>

(* The client program dies (killed, or a failed verbs call ends Init):     *)
(* the kernel closes its socket.                                           *)
ClientCrash(r) ==
    /\ r \in CrashRuns
    /\ cpc[r] \in Running
    /\ ClientFail(r)
    /\ UNCHANGED <<retries, ci, cEps, toS, toC, ServerVars>>

-----------------------------------------------------------------------------
\* AcceptHandler's goto out: close(connfd); hosts_, endpoints_ and the
\* receive buffers already posted stay as they are.
ServerOut(r) == spc' = [spc EXCEPT ![r] = "out"]

ClientVars == <<cpc, retries, ci, cEps, cOpen>>

(* The listen thread binds and listens (server_session::Init, Listen).     *)
ServerListen ==
    /\ ~listening /\ ~crashed
    /\ listening' = TRUE
    /\ UNCHANGED <<crashed, spc, si, snq, hosts, hostsInit, sEps, endpoints, epSize, putAt, recvFree,
                   numOfRecv, toS, toC, ClientVars>>

(* accept() returns run r's connection; a detached AcceptHandler starts.   *)
ServerAccept(r) ==
    /\ listening /\ ~crashed
    /\ spc[r] = "none"
    /\ cpc[r] \notin {"idle", "connecting", "gaveUp"}
    /\ spc' = [spc EXCEPT ![r] = "readHost"]
    /\ UNCHANGED <<listening, crashed, si, snq, hosts, hostsInit, sEps, endpoints, epSize, putAt,
                   recvFree, numOfRecv, toS, toC, ClientVars>>

(* Read HostInfo: a short read, another type or number_of_qp <= 0 is goto  *)
(* out; otherwise num_of_recv_ grows (under numlock_).                     *)
ServerReadHost(r) ==
    /\ spc[r] = "readHost" /\ ~crashed
    /\ CanRead(toS[r], cOpen[r])
    /\ toS' = [toS EXCEPT ![r] = Rest(@)]
    /\ LET m == Got(toS[r])
       IN  IF m.type = HostInfoKey /\ m.nqp > 0
             THEN /\ snq' = [snq EXCEPT ![r] = m.nqp]
                  /\ numOfRecv' = numOfRecv + m.nqp
                  /\ spc' = [spc EXCEPT ![r] = "writeHost"]
             ELSE ServerOut(r) /\ UNCHANGED <<snq, numOfRecv>>
    /\ UNCHANGED <<listening, crashed, si, hosts, hostsInit, sEps, endpoints, epSize, putAt, recvFree,
                   toC, ClientVars>>

(* Reply with the server's HostInfo, then push a new rdma_host on hosts_   *)
(* (under hosts_lock_).                                                    *)
ServerWriteHost(r) ==
    /\ spc[r] = "writeHost" /\ ~crashed
    /\ toC' = [toC EXCEPT ![r] = Write(@, cOpen[r], Msg(HostInfoKey, snq[r]))]
    /\ hosts' = hosts \cup {r}
    /\ spc' = [spc EXCEPT ![r] = "readChan"]
    /\ UNCHANGED <<listening, crashed, si, snq, hostsInit, sEps, endpoints, epSize, putAt, recvFree,
                   numOfRecv, toS, ClientVars>>

\* Fault variant: a short read or a wrong type is retried instead of goto out.
ServerReadChanRetry(r) ==
    /\ spc[r] = "readChan" /\ ~crashed
    /\ CanRead(toS[r], cOpen[r])
    /\ toS' = [toS EXCEPT ![r] = Rest(@)]
    /\ spc' = [spc EXCEPT ![r] = IF Got(toS[r]).type = ChannelInfoKey
                                    THEN "writeChan" ELSE @]
    /\ UNCHANGED <<listening, crashed, si, snq, hosts, hostsInit, sEps, endpoints, epSize, putAt,
                   recvFree, numOfRecv, toC, ClientVars>>

(* QP i: ibv_create_qp fails.  The handler logs, deletes the null qp and   *)
(* returns -1 from the thread, not by goto out: connfd is never closed.    *)
ServerCreateQpFail(r) ==
    /\ spc[r] = "readChan" /\ ~crashed
    /\ r \in CreateQpFailRuns
    /\ spc' = [spc EXCEPT ![r] = "returned"]
    /\ UNCHANGED <<listening, crashed, si, snq, hosts, hostsInit, sEps, endpoints, epSize, putAt,
                   recvFree, numOfRecv, toS, toC, ClientVars>>

(* QP i: ibv_create_qp succeeds and the endpoint joins the host's eps;     *)
(* then read the client's ChannelInfo; a short read or another type is     *)
(* goto out.                                                               *)
ServerReadChan(r) ==
    /\ spc[r] = "readChan" /\ ~crashed
    /\ CanRead(toS[r], cOpen[r])
    /\ toS' = [toS EXCEPT ![r] = Rest(@)]
    /\ IF Got(toS[r]).type = ChannelInfoKey
         THEN spc' = [spc EXCEPT ![r] = "writeChan"]
         ELSE ServerOut(r)
    /\ UNCHANGED <<listening, crashed, si, snq, hosts, hostsInit, sEps, endpoints, epSize, putAt,
                   recvFree, numOfRecv, toC, ClientVars>>

(* SetEndpointInfo, GetEndpointInfo and write the server's ChannelInfo.    *)
ServerWriteChan(r) ==
    /\ spc[r] = "writeChan" /\ ~crashed
    /\ toC' = [toC EXCEPT ![r] = Write(@, cOpen[r], Msg(ChannelInfoKey, 0))]
    /\ spc' = [spc EXCEPT ![r] = "activate"]
    /\ UNCHANGED <<listening, crashed, si, snq, hosts, hostsInit, sEps, endpoints, epSize, putAt,
                   recvFree, numOfRecv, toS, ClientVars>>

\* Fault variant: the first batch posts recv_batch + 1 receives (j <= ...).
ServerActivateExtraRecv(r) ==
    /\ spc[r] = "activate" /\ ~crashed
    /\ \E res \in Activate(r) :
       IF res # 0
         THEN /\ ServerOut(r)
              /\ UNCHANGED <<crashed, recvFree, sEps, putAt>>
       ELSE IF recvFree < RecvBatch + 1
         THEN /\ crashed' = TRUE
              /\ recvFree' = 0
              /\ UNCHANGED <<spc, sEps, putAt>>
         ELSE /\ recvFree' = recvFree - (RecvBatch + 1)
              /\ sEps' = sEps \cup {<<r, si[r]>>}
              /\ putAt' = [putAt EXCEPT ![r] = epSize]
              /\ spc' = [spc EXCEPT ![r] = "putEp"]
              /\ UNCHANGED crashed
    /\ UNCHANGED <<listening, si, snq, hosts, hostsInit, endpoints, epSize, numOfRecv,
                   toS, toC, ClientVars>>

(* Activate (INIT, RTR, RTS; a failure is goto out), then recv_batch times *)
(* PickNextBuffer(1) and PostRecv, SetActivated(true); PutEndpoint's       *)
(* push_back reads the size of endpoints_.  PickNextBuffer returns nullptr *)
(* from an empty region and buf->local_K_ dereferences it: the server dies.*)
ServerActivate(r) ==
    /\ spc[r] = "activate" /\ ~crashed
    /\ \E res \in Activate(r) :
       IF res # 0
         THEN /\ ServerOut(r)
              /\ UNCHANGED <<crashed, recvFree, sEps, putAt>>
       ELSE IF recvFree < RecvBatch
         THEN /\ crashed' = TRUE
              /\ recvFree' = 0
              /\ UNCHANGED <<spc, sEps, putAt>>
         ELSE /\ recvFree' = recvFree - RecvBatch
              /\ sEps' = sEps \cup {<<r, si[r]>>}
              /\ putAt' = [putAt EXCEPT ![r] = epSize]
              /\ spc' = [spc EXCEPT ![r] = "putEp"]
              /\ UNCHANGED crashed
    /\ UNCHANGED <<listening, si, snq, hosts, hostsInit, endpoints, epSize, numOfRecv,
                   toS, toC, ClientVars>>

(* std::vector::push_back as an unlocked caller sees it: the element goes   *)
(* into the slot after the size it read, and the size becomes that plus     *)
(* one.  A slot past the size keeps what an earlier push wrote there.       *)
PushBack(slots, size, e) ==
    IF size < Len(slots) THEN [slots EXCEPT ![size + 1] = e] ELSE Append(slots, e)

\* Fault variant: the QP loop runs number_of_qp + 1 times (i <= ...).
ServerPutEndpointExtraQp(r) ==
    /\ spc[r] = "putEp" /\ ~crashed
    /\ endpoints' = PushBack(endpoints, putAt[r], <<r, si[r]>>)
    /\ epSize' = putAt[r] + 1
    /\ si' = [si EXCEPT ![r] = @ + 1]
    /\ spc' = [spc EXCEPT ![r] = IF si[r] + 1 <= snq[r]
                                    THEN "readChan" ELSE "readGoGo"]
    /\ UNCHANGED <<listening, crashed, snq, hosts, hostsInit, sEps, putAt,
                   recvFree, numOfRecv, toS, toC, ClientVars>>

(* engine->PutEndpoint(ep): endpoints_.push_back with no lock, while the   *)
(* AcceptHandler threads of other connections run.  The slot written and   *)
(* the new size come from the size read before: when another handler has   *)
(* pushed in between, its endpoint is overwritten (the data race's lost    *)
(* update).  Then the next QP, or the GoGo exchange.                       *)
ServerPutEndpoint(r) ==
    /\ spc[r] = "putEp" /\ ~crashed
    /\ endpoints' = PushBack(endpoints, putAt[r], <<r, si[r]>>)
    /\ epSize' = putAt[r] + 1
    /\ si' = [si EXCEPT ![r] = @ + 1]
    /\ spc' = [spc EXCEPT ![r] = IF si[r] + 1 < snq[r]
                                    THEN "readChan" ELSE "readGoGo"]
    /\ UNCHANGED <<listening, crashed, snq, hosts, hostsInit, sEps, putAt,
                   recvFree, numOfRecv, toS, toC, ClientVars>>

(* Read the client's GoGo request; a short read or another type is out.   *)
ServerReadGoGo(r) ==
    /\ spc[r] = "readGoGo" /\ ~crashed
    /\ CanRead(toS[r], cOpen[r])
    /\ toS' = [toS EXCEPT ![r] = Rest(@)]
    /\ IF Got(toS[r]).type = GoGoKey
         THEN spc' = [spc EXCEPT ![r] = "writeGoGo"]
         ELSE ServerOut(r)
    /\ UNCHANGED <<listening, crashed, si, snq, hosts, hostsInit, sEps, endpoints, epSize, putAt,
                   recvFree, numOfRecv, toC, ClientVars>>

(* Answer GoGo, mark the host initialized, close connfd.                   *)
ServerWriteGoGo(r) ==
    /\ spc[r] = "writeGoGo" /\ ~crashed
    /\ toC' = [toC EXCEPT ![r] = Write(@, cOpen[r], Msg(GoGoKey, 0))]
    /\ hostsInit' = hostsInit \cup {r}
    /\ spc' = [spc EXCEPT ![r] = "done"]
    /\ UNCHANGED <<listening, crashed, si, snq, hosts, sEps, endpoints, epSize, putAt, recvFree,
                   numOfRecv, toS, ClientVars>>

-----------------------------------------------------------------------------
Client(r) ==
    \/ ClientStart(r) \/ ClientConnectAttempt(r) \/ ClientWriteHost(r)
    \/ ClientReadHost(r) \/ ClientWriteChan(r) \/ ClientReadChan(r)
    \/ ClientWriteGoGo(r) \/ ClientReadGoGo(r)

Handler(r) ==
    \/ ServerReadHost(r) \/ ServerWriteHost(r) \/ ServerCreateQpFail(r)
    \/ ServerReadChan(r)
    \/ ServerWriteChan(r) \/ ServerActivate(r) \/ ServerPutEndpoint(r)
    \/ ServerReadGoGo(r)
    \/ ServerWriteGoGo(r)

Next ==
    \/ ServerListen
    \/ \E r \in Runs : Client(r) \/ ClientCrash(r) \/ ServerAccept(r)
                       \/ Handler(r)

(***************************************************************************)
(* Fairness: each client program and each AcceptHandler thread runs on;    *)
(* the listen thread listens and accepts.  A crash of a client program is  *)
(* never forced.                                                           *)
(***************************************************************************)
Fairness ==
    /\ WF_vars(ServerListen)
    /\ \A r \in Runs : WF_vars(Client(r)) /\ WF_vars(ServerAccept(r))
                       /\ WF_vars(Handler(r))

Spec == Init /\ [][Next]_vars /\ Fairness

-----------------------------------------------------------------------------
CPcs == {"idle", "gaveUp", "failed", "done"} \cup Running
SPcs == {"none", "readHost", "writeHost", "readChan", "writeChan", "activate",
         "putEp", "readGoGo", "writeGoGo", "done", "out", "returned"}

TypeOK ==
    /\ listening \in BOOLEAN /\ crashed \in BOOLEAN
    /\ cpc \in [Runs -> CPcs] /\ spc \in [Runs -> SPcs]
    /\ retries \in [Runs -> 0..MaxConnRetry]
    /\ ci \in [Runs -> 0..NumQp] /\ cEps \in [Runs -> 0..NumQp]
    /\ si \in [Runs -> 0..NumQp] /\ snq \in [Runs -> 0..NumQp]
    /\ toS \in [Runs -> Seq([type : Types, nqp : 0..NumQp])]
    /\ toC \in [Runs -> Seq([type : Types, nqp : 0..NumQp])]
    /\ cOpen \in [Runs -> BOOLEAN]
    /\ hostsInit \subseteq hosts /\ hosts \subseteq Runs
    /\ sEps \subseteq Runs \X (0..(NumQp - 1))
    /\ endpoints \in Seq(Runs \X (0..(NumQp - 1)))
    /\ epSize \in 0..Len(endpoints)
    /\ putAt \in [Runs -> Nat]
    /\ recvFree \in 0..RecvBufs
    /\ numOfRecv \in Nat

(***************************************************************************)
(* GoGo gates the data plane: once Connect has returned 0 for a run (and   *)
(* client_session::Start may let the workers send), the client holds its   *)
(* NumQp activated endpoints and the server has activated every one of     *)
(* the matching QPs, posted its first receives and called PutEndpoint.    *)
(* This is what the GoGo exchange of Connect/AcceptHandler is for: the     *)
(* client activates its QP i before the server activates QP i.           *)
(***************************************************************************)
GoGoGatesTraffic ==
    \A r \in Runs :
        cpc[r] = "done" =>
            /\ cEps[r] = NumQp
            /\ \A i \in 0..(NumQp - 1) : <<r, i>> \in sEps
            /\ si[r] = NumQp
            /\ r \in hostsInit

(***************************************************************************)
(* The server never takes a buffer from an empty receive region: the      *)
(* pre-posting loop of AcceptHandler dereferences what PickNextBuffer(1)   *)
(* returns without a check.                                                *)
(***************************************************************************)
NoNullRecvBuffer == ~crashed

\* The endpoints in the server engine's endpoints_.
Registered == {endpoints[j] : j \in 1..epSize}

(***************************************************************************)
(* Every endpoint whose PutEndpoint has returned stays in its engine's     *)
(* endpoints_: the push_back of one AcceptHandler thread never loses the   *)
(* endpoint another handler has just registered.                           *)
(***************************************************************************)
EndpointsRegistered ==
    \A r \in Runs : \A i \in 0..(NumQp - 1) :
        i < si[r] => <<r, i>> \in Registered

(***************************************************************************)
(* A connection the server has accepted ends with Connect returning 0 and  *)
(* the server's host initialized, for every run whose own client program   *)
(* neither dies nor meets a failing Activate or ibv_create_qp, whatever    *)
(* the other runs do: the hosts_ entry, endpoints and posted receive      *)
(* buffers that AcceptHandler's goto out (or its return -1) leaves behind  *)
(* for a failed run, and that run's restart, never stop another client's  *)
(* handshake while the receive region lasts.                               *)
(***************************************************************************)
FaultFree == Runs \ (CrashRuns \cup ActivateFailRuns \cup CreateQpFailRuns)

ConnectedRunsComplete ==
    \A r \in FaultFree : (spc[r] # "none") ~> (cpc[r] = "done" /\ spc[r] = "done")

(***************************************************************************)
(* The refinement mapping to what the handshake promises (Connection):    *)
(* a client run is trying from client_session::Init's call of Connect     *)
(* until Connect returns; a handler that returned 0 has established the   *)
(* run, one that took goto out or whose process died has aborted it; the  *)
(* QPs the server activated are those with their first receives posted.   *)
(***************************************************************************)
ClientView(r) ==
    CASE cpc[r] = "idle" -> "idle"
      [] cpc[r] \in {"gaveUp", "failed"} -> "failed"
      [] cpc[r] = "done" -> "connected"
      [] OTHER -> "trying"

ServerView(r) ==
    CASE spc[r] = "none" -> "none"
      [] spc[r] = "done" -> "established"
      [] spc[r] \in {"out", "returned"} \/ crashed -> "aborted"
      [] OTHER -> "handling"

CONN == INSTANCE Connection WITH
            client <- [r \in Runs |-> ClientView(r)],
            server <- [r \in Runs |-> ServerView(r)],
            activated <- [r \in Runs |-> {i \in 0..(NumQp - 1) : <<r, i>> \in sEps}]

(***************************************************************************)
(* Connect/AcceptHandler implement the handshake's promise: a run's       *)
(* Connect returns 0 only after its AcceptHandler has activated every QP  *)
(* and answered GoGo; the server establishes a run only with every QP      *)
(* activated; a server death aborts every handler in progress at once;    *)
(* and every started Connect and every accepted handler eventually ends,  *)
(* whatever the client programs that die or the Activate calls and        *)
(* ibv_create_qp calls that fail.                                          *)
(***************************************************************************)
ImplementsConnection == CONN!Spec

(***************************************************************************)
(* The same refinement with the ending promised only for the runs whose   *)
(* server-side ibv_create_qp cannot fail: every step of every run, the    *)
(* leaking ones included, is a step of Connection, and a handler that      *)
(* returned without closing its socket holds up no other client program.  *)
(***************************************************************************)
OtherRunsImplementConnection ==
    /\ CONN!Init /\ [][CONN!Next]_CONN!vars
    /\ \A r \in Runs \ CreateQpFailRuns : CONN!Ends(r)
====
