----------------------------- MODULE TraceClient -----------------------------
(***************************************************************************)
(* The trace-replay client src/nic/smartwn.cpp on top of the client        *)
(* engines.  main parses the trace into requests, each a list of           *)
(* sub-requests naming a memory node (dest); it splits the requests into   *)
(* io_thread contiguous parts and runs thread_task on each: for every      *)
(* request of its part the thread Sends all sub-requests through           *)
(* GetEngine(thread_num), then spins until the request's                   *)
(* curCallbackTrigger, incremented by ReveiveFromMem on the engine's       *)
(* worker, reaches the number of sub-requests.                             *)
(*                                                                         *)
(* The engine is abstracted to what this client depends on: its task      *)
(* queue, its worker's PickEp over the endpoints Connect built, and the    *)
(* reply of each posted call (DataPlane shows that every posted call is    *)
(* answered, refining Rpc, when the server has enough send buffers).       *)
(*                                                                         *)
(* Subreq::dest is the c_str() of a std::string local to the parsing loop  *)
(* (smartwn.cpp 225-228): when thread_task reads it the string is gone.    *)
(* The read is undefined behaviour; its outcomes are DestReads: "named"    *)
(* (the memory still holds this sub-request's host), "stale" (it holds     *)
(* another host name parsed later) and "garbage" (no host name).           *)
(*                                                                         *)
(* After starting the threads main joins them all, sleeps and writes its   *)
(* report, which reads every Subreq's start and end timestamps; an end     *)
(* timestamp is nullptr until ReveiveFromMem stamps it.  The latencies     *)
(* themselves are not modelled.                                            *)
(***************************************************************************)
EXTENDS Integers, Sequences, FiniteSets

CONSTANTS
    Hosts,        \* the memory nodes of --mem_nodes, in connect order
    HostOrder,    \* Hosts as the sequence remote_hosts
    NumPerHost,   \* FLAGS_qp_num: endpoints per host and engine
    NumEngines,   \* FLAGS_ioengine_num
    Trace,        \* the parsed trace: per request, the dest of each sub-request
    IoThread,     \* FLAGS_io_thread
    DestReads,    \* outcomes of reading the dangling Subreq::dest
    Garbage       \* a dest string that names no host

ASSUME
    /\ HostOrder \in Seq(Hosts) /\ {HostOrder[i] : i \in DOMAIN HostOrder} = Hosts
    /\ NumPerHost \in Nat \ {0} /\ NumEngines \in Nat \ {0}
    /\ Trace \in Seq(Seq(Hosts))
    /\ IoThread \in Nat \ {0}
    /\ DestReads \subseteq {"named", "stale", "garbage"} /\ DestReads # {}
    /\ Garbage \notin Hosts

VARIABLES
    tpc,        \* thread_task's position: "send", "wait" or "done"
    reqInd,     \* the request the thread is on
    subInd,     \* the next sub-request of it to Send
    queue,      \* per engine: tasks_, sub-requests <<q, k>> with their dest
    cursor,     \* per engine: endpoint_index_
    inflight,   \* sub-requests posted and not yet answered, with their host
    trigger,    \* per request: curCallbackTrigger
    crashed,    \* the client process died (PickEp returned nullptr)
    startedBy,  \* history: the threads that started each request
    ended,      \* sub-requests <<q, k>> whose end_timestamp is set
    mpc         \* main's position: "join", "report", "done" or "crashed"

vars == <<tpc, reqInd, subInd, queue, cursor, inflight, trigger, crashed,
          startedBy, ended, mpc>>

NoEp == -1

\* The endpoints_ of every engine: Connect's loops add, for each host in
\* order, NumPerHost endpoints to each engine.
Layout == [i \in 0..(Len(HostOrder) * NumPerHost - 1) |->
              HostOrder[i \div NumPerHost + 1]]

LOCAL EP == INSTANCE PickEp WITH Dests <- Hosts, MaxPerHost <- NumPerHost,
                PickDests <- Hosts, endpoints <- Layout, endpoint_index <- 0,
                last <- NoEp

-----------------------------------------------------------------------------
(* main: partSize = size / thread_count; with no full part one thread     *)
(* takes everything, otherwise a remainder makes every part one longer.   *)
\* Fault variant: the remainder does not lengthen the parts.
PartSizeNoCeil(n, tc) == IF n \div tc = 0 THEN n ELSE n \div tc

PartSize(n, tc) ==
    IF n \div tc = 0 THEN n
    ELSE IF n % tc # 0 THEN n \div tc + 1 ELSE n \div tc

NumThreads(n, tc) == IF n \div tc = 0 THEN 1 ELSE tc

\* thread_task: the part [left, right) of thread i, right clamped to size.
Left(n, tc, i) == PartSize(n, tc) * i
Right(n, tc, i) ==
    IF PartSize(n, tc) * (i + 1) > n THEN n ELSE PartSize(n, tc) * (i + 1)

Threads == 0..(NumThreads(Len(Trace), IoThread) - 1)

\* Request indexes are 0-based as in trace_data; Trace is 1-based.
Subs(q) == Len(Trace[q + 1])

\* client_session::GetEngine(id) is io_engines_[id % engine_num].
EngineOf(t) == t % NumEngines

\* The sub-request loop of thread_task runs only for a request with some.
StartPc(q) == IF Subs(q) > 0 THEN "send" ELSE "wait"

\* Every sub-request of the trace.
AllSubs == UNION {{<<q, k>> : k \in 0..(Subs(q) - 1)} : q \in 0..(Len(Trace) - 1)}

\* What reading Subreq::dest of sub-request k of request q can give.
DestRead(q, k) ==
    UNION { CASE o = "named"   -> {Trace[q + 1][k + 1]}
              [] o = "stale"   -> Hosts
              [] o = "garbage" -> {Garbage} : o \in DestReads }

Init ==
    /\ reqInd = [t \in Threads |-> Left(Len(Trace), IoThread, t)]
    /\ subInd = [t \in Threads |-> 0]
    /\ tpc = [t \in Threads |->
                IF Left(Len(Trace), IoThread, t) < Right(Len(Trace), IoThread, t)
                THEN StartPc(Left(Len(Trace), IoThread, t)) ELSE "done"]
    /\ queue = [e \in 0..(NumEngines - 1) |-> <<>>]
    /\ cursor = [e \in 0..(NumEngines - 1) |-> 0]
    /\ inflight = {}
    /\ trigger = [q \in 0..(Len(Trace) - 1) |-> 0]
    /\ crashed = FALSE
    /\ startedBy = [q \in 0..(Len(Trace) - 1) |->
                      {t \in Threads : tpc[t] # "done" /\ reqInd[t] = q}]
    /\ ended = {}
    /\ mpc = "join"

-----------------------------------------------------------------------------
(* thread_task: build sub-request k of the current request and            *)
(* engine.Send it with the dest pointer of its Subreq.                     *)
ThreadSend(t) ==
    /\ tpc[t] = "send" /\ ~crashed
    /\ LET q == reqInd[t]
           k == subInd[t]
       IN  /\ \E d \in DestRead(q, k) :
                queue' = [queue EXCEPT ![EngineOf(t)] =
                            Append(@, [sub |-> <<q, k>>, dest |-> d])]
           /\ subInd' = [subInd EXCEPT ![t] = k + 1]
           /\ tpc' = [tpc EXCEPT ![t] = IF k + 1 < Subs(q) THEN "send" ELSE "wait"]
    /\ UNCHANGED <<reqInd, cursor, inflight, trigger, crashed, startedBy, ended, mpc>>

(* After the spin: the next request of the thread's part, or return.       *)
(* The request loop runs while reqInd < right.                             *)
NextRequest(t, right) ==
    /\ LET next == reqInd[t] + 1
       IN  IF next < right
             THEN /\ reqInd' = [reqInd EXCEPT ![t] = next]
                  /\ subInd' = [subInd EXCEPT ![t] = 0]
                  /\ tpc' = [tpc EXCEPT ![t] = StartPc(next)]
                  /\ startedBy' = [startedBy EXCEPT ![next] = @ \cup {t}]
             ELSE /\ tpc' = [tpc EXCEPT ![t] = "done"]
                  /\ UNCHANGED <<reqInd, subInd, startedBy>>
    /\ UNCHANGED <<queue, cursor, inflight, trigger, crashed, ended, mpc>>

\* Fault variant: the request loop also runs for reqInd = right (<=).
ThreadWaitInclusive(t) ==
    /\ tpc[t] = "wait"
    /\ trigger[reqInd[t]] >= Subs(reqInd[t])
    /\ NextRequest(t, IF Right(Len(Trace), IoThread, t) < Len(Trace)
                      THEN Right(Len(Trace), IoThread, t) + 1 ELSE Len(Trace))

\* Fault variant: the spin ends one callback early (trigger + 1 < size).
ThreadWaitEarly(t) ==
    /\ tpc[t] = "wait"
    /\ trigger[reqInd[t]] + 1 >= Subs(reqInd[t])
    /\ NextRequest(t, Right(Len(Trace), IoThread, t))

\* Fault variant: the spin waits for one callback more than there are (<=).
ThreadWaitStrict(t) ==
    /\ tpc[t] = "wait"
    /\ trigger[reqInd[t]] > Subs(reqInd[t])
    /\ NextRequest(t, Right(Len(Trace), IoThread, t))

(* The spin on curCallbackTrigger ends once every sub-request of the      *)
(* request has had its callback; the thread goes on with the next request *)
(* of its part, or returns.                                                *)
ThreadWait(t) ==
    /\ tpc[t] = "wait"
    /\ trigger[reqInd[t]] >= Subs(reqInd[t])
    /\ NextRequest(t, Right(Len(Trace), IoThread, t))

(* The engine's worker dispatches the head task: PickEp(task->dest), then  *)
(* send_ep->PostSend.  PickEp returns nullptr for a dest no endpoint       *)
(* leads to, and PostSend through it kills the process.                    *)
Dispatch(e) ==
    /\ queue[e] # <<>> /\ ~crashed
    /\ LET task == Head(queue[e])
           r == EP!PickEp(Layout, cursor[e], task.dest)
       IN  IF r.ep = NoEp
             THEN /\ crashed' = TRUE
                  /\ UNCHANGED <<queue, cursor, inflight>>
             ELSE /\ queue' = [queue EXCEPT ![e] = Tail(@)]
                  /\ cursor' = [cursor EXCEPT ![e] = r.index]
                  /\ inflight' = inflight \cup {[sub |-> task.sub, host |-> Layout[r.ep]]}
                  /\ UNCHANGED crashed
    /\ UNCHANGED <<tpc, reqInd, subInd, trigger, startedBy, ended, mpc>>

\* Fault variant: the completion is handled and left in place.
ReplyKeepsInflight(x) ==
    /\ ~crashed
    /\ trigger' = [trigger EXCEPT ![x.sub[1]] = @ + 1]
    /\ UNCHANGED <<tpc, reqInd, subInd, queue, cursor, inflight, crashed,
                   startedBy, ended, mpc>>

(* The reply of a posted sub-request reaches the engine's worker, which   *)
(* runs ReveiveFromMem: it stamps the Subreq and increments its request's  *)
(* curCallbackTrigger.                                                     *)
Reply(x) ==
    /\ ~crashed
    /\ inflight' = inflight \ {x}
    /\ ended' = ended \cup {x.sub}
    /\ trigger' = [trigger EXCEPT ![x.sub[1]] = @ + 1]
    /\ UNCHANGED <<tpc, reqInd, subInd, queue, cursor, crashed, startedBy, mpc>>

(* main: threads[i].join() for every thread, then endTime, sleep(1) and    *)
(* the output file.                                                        *)
MainJoin ==
    /\ mpc = "join" /\ ~crashed
    /\ \A t \in Threads : tpc[t] = "done"
    /\ mpc' = "report"
    /\ UNCHANGED <<tpc, reqInd, subInd, queue, cursor, inflight, trigger,
                   crashed, startedBy, ended>>

(* The report walks trace_data and, for every Subreq, reads                *)
(* start_timastamp->tv_sec and end_timestamp->tv_sec: an end timestamp     *)
(* still nullptr is dereferenced and the process dies.  The percentiles,   *)
(* medians and averages computed from them are left out.                   *)
MainReport ==
    /\ mpc = "report" /\ ~crashed
    /\ mpc' = IF AllSubs \subseteq ended THEN "done" ELSE "crashed"
    /\ UNCHANGED <<tpc, reqInd, subInd, queue, cursor, inflight, trigger,
                   crashed, startedBy, ended>>

Next ==
    \/ \E t \in Threads : ThreadSend(t) \/ ThreadWait(t)
    \/ \E e \in 0..(NumEngines - 1) : Dispatch(e)
    \/ \E x \in inflight : Reply(x)
    \/ MainJoin \/ MainReport

SubIds == {<<q, k>> : q \in 0..(Len(Trace) - 1), k \in 0..2}

(***************************************************************************)
(* Fairness: application threads and engine workers run on their own     *)
(* cores; every posted call is answered (Rpc's liveness, which DataPlane   *)
(* implements).                                                            *)
(***************************************************************************)
Fairness ==
    /\ \A t \in Threads : WF_vars(ThreadSend(t) \/ ThreadWait(t))
    /\ \A e \in 0..(NumEngines - 1) : WF_vars(Dispatch(e))
    /\ \A s \in SubIds : WF_vars(\E x \in inflight : x.sub = s /\ Reply(x))
    /\ WF_vars(MainJoin \/ MainReport)

Spec == Init /\ [][Next]_vars /\ Fairness

-----------------------------------------------------------------------------
TypeOK ==
    /\ tpc \in [Threads -> {"send", "wait", "done"}]
    /\ reqInd \in [Threads -> 0..Len(Trace)]
    /\ \A t \in Threads : tpc[t] # "done" => subInd[t] \in 0..Subs(reqInd[t])
    /\ \A q \in DOMAIN trigger : trigger[q] \in 0..Subs(q)
    /\ crashed \in BOOLEAN
    /\ ended \subseteq AllSubs
    /\ mpc \in {"join", "report", "done", "crashed"}
    /\ \A x \in inflight : x.host \in Hosts

(***************************************************************************)
(* The parts of main's partition are disjoint: no request is replayed by  *)
(* two threads (its callbacks would be counted twice in one trigger).      *)
(***************************************************************************)
OneThreadPerRequest == \A q \in DOMAIN startedBy : Cardinality(startedBy[q]) <= 1

(***************************************************************************)
(* The join is a barrier for the replies: once main has joined every       *)
(* thread, ReveiveFromMem has stamped every Subreq of the trace, so the    *)
(* report never dereferences a nullptr end_timestamp.  It rests on three  *)
(* actors: main's partition covering the trace, each thread spinning until *)
(* all callbacks of its request have run, and the engine workers'          *)
(* callbacks.                                                              *)
(***************************************************************************)
ReportAfterEveryReply == mpc \in {"report", "done"} => AllSubs \subseteq ended

(***************************************************************************)
(* The replay completes: every request of the trace is replayed, every     *)
(* thread returns, main joins them and writes its report.                  *)
(***************************************************************************)
ProgramCompletes == <>(mpc = "done")

(***************************************************************************)
(* Section 7: a task for a dest with no endpoint is dropped with an error; *)
(* the client worker never follows the nullptr PickEp returns.             *)
(***************************************************************************)
NoNullEndpoint == ~crashed
====
