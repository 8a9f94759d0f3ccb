# TLA+ models of the SmartWN RDMA messaging engine

This directory holds TLA+ models of the request/response fabric under
`src/nic/`, and the TLC configurations that check them. A client (GPU node)
sends requests to a server (memory node) over RDMA reliable-connection queue
pairs. The server runs a user callback on each request and sends the result
back. The client then runs the callback that was carried in the request
header.

## The system and its parts

| Part | Source | State | Operations |
|---|---|---|---|
| IO engine | `engine.cpp`, `engine.hpp` | task queue `tasks_` (TBB concurrent queue), endpoint vector `endpoints_`, shared cursor `endpoint_index_`, two buffer regions (0 = send, 1 = receive), CQs | `PutTask`, `GetTask`, `PickNextBuffer`, `ReleaseBuffer`, `PutEndpoint`, `PickEp` |
| Endpoint | `endpoint.cpp` | a QP with a send queue of `send_wq_depth` and a receive queue | `PostSend` (fails with ENOMEM when full), `PostRecv`, `Activate`, `RestoreFromERR` (never called) |
| Client session | `rdma-gpunode.cpp` | one worker thread per engine | `client_engine::Send` (user threads), `client_session::data_channel` (the worker) |
| Server session | `rdma-memorynode.cpp` | one worker thread per engine | `server_session::data_channel` |
| Context | `context.cpp` | device, PD, engines, hosts | `Init`, `Listen`/`AcceptHandler` (one detached thread per connection), `Connect` (TCP handshake, QP creation, pre-posting `recv_batch` receives, `PutEndpoint`) |
| Host | `host.hpp` | per-peer endpoint list and credit | never used by the data path |
| Applications | `main_*.cpp`, `ps-test.cpp`, `smartwn.cpp` | drivers | call `Send`, provide callbacks |

How the parts interact: user threads call `Send`, which only enqueues a task.
The client worker takes one task per iteration. It needs a send buffer, or it
puts the task back at the tail. It frames a 20-byte header (callback, context,
length) and truncates the payload to `sbuf_size - 20`. Then it picks an
endpoint round robin and posts. On failure it releases the buffer and
re-enqueues the task. Then it polls each CQ for up to `CQ_POLL_DEPTH`
completions:

- A SEND completion returns the buffer.
- A RECV completion runs the callback and re-posts the same receive buffer.

The server worker only polls. For each RECV it:

1. runs `Callback`;
2. re-posts the receive;
3. busy-waits for a send buffer;
4. frames the truncated reply;
5. busy-waits until `PostSend` succeeds.

Its SEND completions return buffers. The NIC delivers a message only into a
posted receive. RC is reliable and in order per QP, so the network loses,
duplicates and reorders nothing; in-order delivery holds per QP only.

The hard behaviours are these:

- The client and server workers interleave with user threads and the NIC.
- Buffers and send-queue slots run out, which brings back-pressure and retries.
- A task can fail part way, after a buffer was taken and the cursor moved.
- Re-enqueueing reorders tasks.
- The server's busy-waits are done by the only thread that can end them.
- Endpoint selection uses one cursor shared by all destinations.

## Modules

| Module | Models | Kind |
|---|---|---|
| `PickEp.tla` | `rdma_io_engine::PickEp` (engine.cpp 59-84) as a pure operator, and a state machine of repeated picks over every endpoint layout that `Connect` can build | component + algorithm |
| `MC_PickEpBalance.tla` | adds a history variable counting picks per endpoint | MC with history |
| `Connection.tla` | abstract handshake: per run, the client connects only after the server has established the run with every QP activated; either side may give up; each side ends | abstract spec |
| `Rpc.tla` | abstract service: every submitted call is answered exactly once, with a reply of length min(callback output, `sbuf_size - 20`) | abstract spec |
| `Handshake.tla` | `rdma_context::Connect` (with `ConnectionSetup`'s retries) against one `AcceptHandler` thread per accepted connection, over a TCP stream per connection; client program runs that may die and be restarted | component composition |
| `MC_Handshake.tla` | runs of two client hosts, two runs of one restarted client, or both; the faults given to the first run only | MC |
| `ContextInit.tla` | `rdma_context::Init` (context.cpp 24-178): `InitDevice`'s device search, open and queries, then `InitMemory`, with every verbs failure and its -1, `exit(1)` or null-device outcome | component |
| `MC_ContextInit.tla` | `--dev mlx5_1` and four device lists a host may report | MC |
| `TraceClient.tla` | smartwn.cpp's trace replay: main's partition of the requests among `io_thread` threads, `thread_task`'s send loop and spin on `curCallbackTrigger`, `ReveiveFromMem`, over the client engines' task queues and `PickEp` (through `INSTANCE PickEp`) | application + composition |
| `MC_TraceClient.tla` | two memory nodes; traces of five requests (three threads) and three requests (two threads) | MC |
| `DataPlane.tla` | client `Send` + client worker + server worker + NIC, composed over one engine, with `PickEp` reused through `INSTANCE` | composition |
| `MC_DataPlane.tla` | model values for calls, buffers and the server | MC |

### ContextInit: state and actions against the code

`devices` is what `ibv_get_device_list` returned. Init takes it from
`DeviceLists`, the lists the host may report, and a name is a sequence of
characters. `pc` is the position in `Init`: searching and opening the device,
allocating memory, ready, failed (`Init` returns -1, the session's `Init`
returns true and `main` returns 1), exited (`exit(1)`), or crashed. `opened` is
the device `ibv_open_device` opened.

- `FirstMatch` is the search loop. `strncmp(name, devname_, strlen(devname_))`
  is 0 exactly when `devname_` is a prefix of the name (`IsPrefix`), and the
  first match breaks the loop.
- `PickDevice` is the device the loop leaves in `dev`. That is the match, else
  the last device it looked at, else the initial nullptr.
- `InitDevice` is the whole function. A NULL list, a failed open or a failed
  GID query returns -1. A null device is dereferenced by `ibv_open_device`. A
  failed port query exits. Otherwise the device is open.
- `InitMemory` is the PD, CQ and region allocation. Its first failure returns
  -1; which call failed makes no difference to what follows.

`OpenedNamedDevice` says the context goes on only with a device that `--dev`
names: the flag is the "RDMA device name prefix to open" (section 6.3), and a
device that cannot be opened fails init (section 7). It fails, because the
`if (!flag)` branch (context.cpp 61-63) only logs. `InitCuda` is compiled only
with GDR and is left out.

### Handshake: state and actions against the code

A run `r` is one execution of the client program. A failed run ends the
program, because `client_session::Init` returns an error and `main` returns 1.
`RestartOf` names the failed run that a later run restarts. The server is one
long-lived process: `hosts_`, its engine's `endpoints_` (its storage slots `endpoints` and size `epSize`) and its
receive region (`recvFree`, buf_num buffers) outlive every run.

- `toS[r]` and `toC[r]` are the two directions of run `r`'s TCP stream, and `cOpen[r]` says whether the client's socket is open.
- The server's socket is open while `spc[r]` is a position inside `AcceptHandler`. It stays open after a handler that returned without closing it (`returned`).
- A blocking `read` returns the next record. If the peer has closed, it returns a short count (`Short`), which every check turns into `goto out`.
- A `write` to a closed peer is lost. The handshake never writes twice without reading in between, so SIGPIPE never arises.

Each action is one blocking call with the local work that follows it, up to
the next blocking call:

- Client: `ClientConnectAttempt`, then `ClientWriteHost`, `ClientReadHost`, `ClientWriteChan`/`ClientReadChan` once per QP, `ClientWriteGoGo` and `ClientReadGoGo`.
- Server: `ServerReadHost`, then `ServerWriteHost`, then `ServerReadChan`, `ServerWriteChan`, `ServerActivate` and `ServerPutEndpoint` once per QP, then `ServerReadGoGo` and `ServerWriteGoGo`. `ServerCreateQpFail` is the other outcome of the `ibv_create_qp` at the top of each QP iteration.

Three details of the code are kept:

- `Activate` is its result only: it fails when any of its three `ibv_modify_qp` calls fails (for the runs in the constant `ActivateFailRuns`; a client program dies in mid-handshake only for the runs in `CrashRuns`). A failure is `goto out` on the server and on the client alike, and the other side then reads a closed socket.

- `ServerActivate` pre-posts `recv_batch` buffers taken from the receive region and marks the endpoint activated (`sEps`). When the region is empty, the null buffer is dereferenced and the server dies (`crashed`).
- `PutEndpoint` is an unlocked `push_back` on `endpoints_`, shared by all AcceptHandler threads. It is two steps: `ServerActivate` ends by reading the size (`putAt`), and `ServerPutEndpoint` writes the slot after it and sets the size (`epSize`) from that read (`PushBack`). A handler that pushes in between is overwritten; that is the lost update of the data race. `endpoints` holds the vector's storage slots: a stale push can lower the size, and the slots past it keep what was written there, so a later push that read a larger size writes after them. A reallocation during the race, which can corrupt the heap, is not modelled.
- A failed server-side `ibv_create_qp` (for the runs in `CreateQpFailRuns`) is not `goto out`: the handler deletes the null qp and returns -1 (context.cpp:348-353), so `connfd` is never closed. The client, which has written its ChannelInfo, blocks in `read` (context.cpp:567) with no timeout.
- `ClientWriteHost` sends type 0, because Connect zeroes its first record and never sets the type.

The keys `kHostInfoKey`, `kChannelInfoKey` and `kGoGoKey` are constants,
because helper.hpp is not in the repository.

Handshake properties:

- `GoGoGatesTraffic`: once Connect has returned 0, the server has activated and posted every QP of the run and called `PutEndpoint` for each.
- `EndpointsRegistered`: an endpoint whose `PutEndpoint` has returned stays in `endpoints_`.
- `NoNullRecvBuffer`: the server never takes a buffer from an empty receive region.
- `ConnectedRunsComplete`: every accepted connection of a run with no fault of its own (not in `CrashRuns`, `ActivateFailRuns` or `CreateQpFailRuns`) ends with both sides done. This holds whatever the faulty runs do beside it, including the host, endpoints and receives their `goto out` leaves behind.
- `ImplementsConnection`: `Handshake` refines the abstract handshake of `Connection.tla` (below), liveness included. It fails once `ibv_create_qp` can fail (run `handshake_createqp_hang`).
- `OtherRunsImplementConnection`: every step is a step of `Connection`, and the ending that `Connection` promises holds for every run outside `CreateQpFailRuns`. So a leaked handler holds up no other client program.

### Connection: what the handshake promises, and the refinement

`Connection.tla` states the handshake per client run with three variables:

- `client[r]`: idle, trying, connected or failed;
- `server[r]`: none, handling, established or aborted;
- `activated[r]`: the QPs the server side has activated.

The server establishes a run only when every QP is activated. The client connects only after the server has established the run. Either side may give up, and `ServerDies` aborts every handling run at once. Weak fairness says that each side of a started run ends, one way or the other.

The refinement mapping, in `Handshake.tla`:

- `ClientView`: `cpc` idle is idle; gaveUp or failed is failed; done is connected; every other position is trying.
- `ServerView`: `spc` none is none; done is established; out or returned, or any position once the server has crashed, is aborted; every other position is handling.
- `activated[r]` is the set of `i` with `<<r, i>>` in `sEps`.

The null-buffer crash of `ServerActivate` is the abstract `ServerDies`. A failed `Activate` or a short read is `Abort`. A failed `ibv_create_qp` is `Abort` too. Client deaths and failed reads are `ClientGivesUp`. `ServerPutEndpoint` and the record exchanges are stuttering steps. The refinement, with its fairness, says more than `GoGoGatesTraffic`: no handler or `Connect` waits forever, even when client programs die and `Activate` fails. It does not survive a failed `ibv_create_qp`: the server aborts, but its socket stays open and the client waits in `read` forever, so the client's weak fairness (`Connect` or `ClientGivesUp`) is violated. `Connection` states each run's fairness as `Ends(r)`, so `OtherRunsImplementConnection` can require it for the other runs.

### DataPlane: state and actions against the code

- The task queue `tasks_` is `tasks`, a sequence. `Send` appends to it, and a failed post or a missing buffer appends at the tail again, just as `PutTask` does.
- The send regions are `free[side]`, a set of buffer model values. `PickNextBuffer(0)` and `ReleaseBuffer(0, ..)` take from and return to this set.
- `rq[e][s]` counts the receives posted on endpoint `e` at side `s`.
- `sq[e][s]` counts the send work requests that have not yet completed. The send queue holds `ClientWqDepth`/`ServerWqDepth` of them (`send_wq_depth`), and `PostSend` fails when it is full.
- `wire[e][s]` holds messages in flight, and `acks[e][s]` holds messages delivered whose SEND completion is still to come.
- `cq[s]` is the completion queue. `cbatch`/`sbatch` is the batch returned by one `ibv_poll_cq` (at most `CqPollDepth`) and still being processed.
- `cpc`/`spc` are the workers' program counters. They split the loop only where the code can block or is observed between steps. The server's busy-waits are the `getbuf` and `post` counters.
- `submitted` records the calls made. `served` records what the server callback was given, and `answers[t]` records what the client callback received.

Every action covers the whole code path it names:

- `DispatchPosted` takes a buffer, frames and truncates the payload, moves the cursor through `PickEp`, posts, and deletes the task.
- `DispatchPostFailed` does all of that, then releases the buffer and re-enqueues the task.
- `ClientRecvDone` runs the callback and re-posts the receive.
- `ServerRecv` runs the callback, re-posts and frames the reply.
- `ServerGetBuf` and `ServerPostReply` are the two busy-waits. Each is enabled only when its wait ends.

Bad completion statuses and `ibv_poll_cq < 0` end the process. They are not
actions: an RC QP without a peer failure gives no bad status.

### Properties

- `TypeOK`.
- `BufferConservation`: every send buffer is either free or held by exactly one of these:
  - a task being framed;
  - a message on the wire;
  - a message awaiting its SEND completion;
  - a SEND completion not yet handled;
  - the server's reply under construction.

  Also, on each QP and side, the posted receives plus the RECV completions not yet handled always equal `recv_batch`. Together these are the buffer-leak and double-release hazards of the failure paths.
- `NoCallLostOrDuplicated`: every call that was made sits in exactly one place: the task queue, the worker, a message, a completion, the server, or the answered calls. A call that was not made is in none of them.
- `ImplementsRpc`: `DataPlane` refines `Rpc` under `requests <- submitted, replies <- answers`. This includes the abstract liveness (every call is answered) and the reply length.
- `EveryCallAnswered`: every submitted call is eventually answered.
- `PayloadTruncated`: the server callback sees min(L, `sbuf_size - 20`) bytes of a payload of length L. This is property 7 of the specification.

`Truncate` and `TruncateReply` return the set of lengths the build can produce. The test `sbuf_size < len + 20` is `int` arithmetic. Above `INT_MAX - 20`, signed overflow is undefined. A wrapping build gets a negative sum and cuts nothing. A build that folds the test to the mathematical comparison cuts. The constant `IntMax` is the real `INT_MAX` (2147483647). The code computes `len + 20` only below it, so TLC's own 32-bit integers suffice.

### TraceClient: state and actions against the code

`tpc`, `reqInd` and `subInd` are `thread_task`'s position and its two loop
indexes; `queue` and `cursor` are each engine's `tasks_` and
`endpoint_index_`; `trigger` is each request's `curCallbackTrigger`;
`inflight` holds the sub-requests posted and not yet answered; `ended` holds
the sub-requests whose `end_timestamp` `ReveiveFromMem` has set; `mpc` is
main's position (joining the threads, reporting, done, or dead); `crashed` is
the client process dying. `startedBy` is a history of the threads that began
each request. `ThreadSend` is one iteration of the sub-request loop
(smartwn.cpp 114-155), `ThreadWait` is the spin at 158 and the step to the
next request, `Dispatch` is the client worker's dispatch of the head task
(rdma-gpunode.cpp 39-95; buffer and send-queue back-pressure are DataPlane's
and left out here), and `Reply` is the answer reaching `ReveiveFromMem`. `MainJoin` is main's
join of every thread (smartwn.cpp 278-285), and `MainReport` is the report's
walk over every `Subreq` (308-325), which dereferences `end_timestamp` and so
kills the process if one is still nullptr. A request with no sub-requests is
allowed: its thread goes straight to the spin, which ends at once.
The answers themselves are abstract: DataPlane shows that every posted call is
answered when the server has enough send buffers.

`Subreq::dest` is the `c_str()` of a string destroyed at the end of each
parsing iteration (smartwn.cpp 225-228). Reading it is undefined; its
outcomes are the constant `DestReads`: the right host name, another host name,
or no host name. With another host name, the sub-request is posted to a memory
node the trace did not name. The replay run explores this outcome, and its
properties hold through it. With no host name, the client dies; the
`traceclient_null_endpoint` run shows it.

TraceClient properties:

- `OneThreadPerRequest`: no request is replayed by two threads.
- `ReportAfterEveryReply`: main reaches the report only when every sub-request of the trace has its `end_timestamp` set. It fails if a thread's spin ends one callback early, because then main's join can return while a reply is outstanding.
- `ProgramCompletes`: the program eventually finishes its report. It fails if a spin waits for a callback that never comes, and also if a partition leaves a request to no thread.
- `NoNullEndpoint`: the client never follows a nullptr from `PickEp`. Section 7 of the specification says such a task is dropped.

### PickEp properties

- `PickEpBalanced` (history, in `MC_PickEpBalance`): the pick counts of two endpoints to the same host never differ by more than one.

## Runs

| Run | Expect | What it shows |
|---|---|---|
| `dataplane_sqfull` | pass | 2 calls, 1 QP, 2 client buffers, client send queue of depth 1. Posts fail with a full send queue and are retried. Buffers, receives and calls are conserved, and the data plane refines `Rpc`. |
| `dataplane_backpressure` | pass | 2 calls, 2 QPs, 1 client buffer. The second task is re-enqueued for lack of a buffer, and the two QPs take turns. Same properties. |
| `dataplane_server_stall` | violation | 2 calls, 1 server send buffer, `recv_batch` 2. The server takes the only buffer for the first reply. It then handles the second request in the same poll batch and spins in `getbuf`, while the SEND completion that would free the buffer waits behind it in its own CQ. `EveryCallAnswered` fails (rdma-memorynode.cpp:55). |
| `handshake_faults` | pass | Runs a1 and b1 of two client hosts, and a2 restarting a1 once it fails. Only a1 may die or see an `Activate` fail, on either side. Only b1's server-side `ibv_create_qp` may fail. The server may start listening late, so a client can give up after `kMaxConnRetry` attempts. One QP per run, and buf_num = 3 (one QP per run x `recv_batch` 1). Every step refines `Connection`, and a1 and a2 end as it promises (`OtherRunsImplementConnection`). a2 completes whatever a1 and b1 leave behind (`ConnectedRunsComplete`). The region is never exhausted (`NoNullRecvBuffer`), and `GoGoGatesTraffic` holds. |
| `handshake_createqp_hang` | violation | Runs a1 and b1, one QP each, and only b1's server-side `ibv_create_qp` may fail. The handler returns -1 without closing `connfd` (context.cpp:348-353), and b1's `Connect` waits in `read` (context.cpp:567) forever. `ImplementsConnection` fails: a started `Connect` never ends, where section 7 of the specification says setup errors fail cleanly. |
| `handshake_restart_exhaust` | violation | Runs a1 and a2, a2 restarting a1, and 2 QPs per run. Only a1 may die. buf_num is sized for one client. The dead run's `goto out` leaves its host, endpoints and posted receives behind (context.cpp:432), and the restarted run's `PickNextBuffer(1)` returns nullptr (context.cpp:388-390). |
| `handshake_putendpoint_race` | violation | Two client hosts with 2 QPs each and no faults. One AcceptHandler reads the size of `endpoints_`, the other registers its endpoint, and the first writes over it. The endpoint is lost from `endpoints_` (context.cpp:403, engine.cpp:28-30). |
| `dataplane_length_overflow` | violation | 1 call whose payload is 2147483640 bytes, within 20 of `INT_MAX`. `lreq_len + 20` overflows, the truncation test fails, and the server callback sees the full length instead of 2 bytes (rdma-gpunode.cpp:74). `PayloadTruncated` fails. |
| `context_init_missing_device` | violation | `--dev mlx5_1` on a host that reports only `mlx5_0`. `InitDevice` logs that it did not find the device, opens `mlx5_0` anyway, and `Init` returns 0 (context.cpp:61). `OpenedNamedDevice` fails. |
| `traceclient_replay` | pass | Five requests of 2, 1, 0, 1 and 2 sub-requests on three threads and two engines. `partSize` is 2 after the remainder increment, and threads 0 and 2 share engine 0's queue and cursor. The parts are disjoint and cover the trace, main reports only after every reply, and the program completes, whether the dangling dest reads as its own host or another. |
| `traceclient_null_endpoint` | violation | The dangling dest reads as no host. `PickEp` returns nullptr and the worker calls `PostSend` through it (rdma-gpunode.cpp:84-85), where section 7 says the task is dropped. |
| `pickep_balance` | violation | `engine.cpp:64` only increments the cursor on a first-loop match, where the second loop sets it past the match. On `<<h1,h1,h2,h2>>` the picks for `h2` are 2, 2, 2, 3, so the load is unbalanced. |

The handshake bounds: in the violation runs NumQp = 2 gives the per-QP loop a second pass, which the race needs. The pass run has three runs: a faulty run, its restart, and a concurrent second host. That gives concurrent handlers, restarts and leftovers of a failed run together. Each run has one QP, because two QPs with three runs took more than 20 minutes. The second pass of the loop is exercised by the two violation runs, which have two QPs per run. `kMaxConnRetry` = 2 lets a client give up while the server is still starting.

The data-plane bounds were chosen for these reasons:

- Two calls are enough for every interleaving of two tasks: re-enqueue order, replies crossing, and two completions in one poll batch.
- One client buffer forces the no-buffer path. A send queue of depth 1 forces the post-failure path.
- Two QPs exercise the cursor.
- `sbuf_size = 22` leaves 2 payload bytes. The payload lengths {1, 3} and reply lengths {0, 3} then fall on both sides of the truncation.

The passing runs give the server at least as many send buffers as calls in
flight. That excludes the stall, which the violation run shows separately.
With fewer buffers the refinement cannot hold.

The trace-replay bounds: five requests over three threads make `partSize` round up, so the last part is shorter. Two requests have two sub-requests for different hosts, so the spin waits for more than one callback, and the third request is empty, so its spin ends at once. With two engines, threads 0 and 2 share engine 0 (`GetEngine` takes `id % engine_num`). The null-endpoint run uses three requests on two threads sharing one engine, which is enough to reach the crash.

## Fairness

- In TraceClient, each application thread and each engine worker is a busy loop on its own core, so each gets weak fairness. Main gets weak fairness for its join and report, because it only blocks on the joins. Each posted sub-request is eventually answered; that is DataPlane's `EveryCallAnswered` under enough server buffers.

- In Handshake, each client program, each AcceptHandler thread and the listen thread get weak fairness. A client crash gets none, because it is never forced.

- Each worker thread is a dedicated busy loop, so each gets weak fairness.
- The NIC's delivery and acknowledgement per QP and direction get weak fairness.
- A user's `Send` of a pending call gets weak fairness, so calls are made.

`ServerGetBuf` and `ServerPostReply` get only the worker's weak fairness. That
is exactly the code: `usleep` and retry, with nothing else that runs in between.

## Not modelled, and the plan

- **Handshake, parts still to model:**
  - the client's own receive region, whose pre-posting has the same unchecked nullptr and is fresh on every run;
  - several server engines (QPs spread round robin; the receive regions are per engine);
  - a failed first-batch `PostRecv`, which takes the same `goto out` as a failed `Activate`, and failures of `bind`, `listen` and `accept` in `Listen` (context.cpp:181-237), which end the listen thread. The model lets the server listen late but never fail to;
- **Endpoint QP state machine:** the QP states RESET, INIT, RTR, RTS and ERR are not modelled, because no code reads them. `Activate` enters the handshake by its result, a completion in error ends the process, and `RestoreFromERR` is never called.
- **Multiple engines and CQs per engine:** one worker polls several CQs in turn.
- **CQ placement:** `AcceptHandler` and `Connect` advance one `engine_cqid` across all engines (context.cpp:340, 539). With two engines of two CQs each, engine 0 only ever gets CQ 0. The model gives each engine side one CQ, and the placement has no safety consequence.
- **Negative payload lengths** passed to `Send`: they pass the truncation test, and `memcpy` gets a huge size. The model takes lengths from 0 to `IntMax`, the caller's contract.
- **Observations without a run of their own:**
  - `Connect` never sets the type of its HostInfo record (context.cpp:499), so it sends 0, and `AcceptHandler` requires `kHostInfoKey`. With `HostInfoKey = 1`, the specification's value, `ConnectedRunsComplete` fails. `helper.hpp` is not in the repository, and the runs use 0, the value under which the code works.
  - Alternating destinations through the one shared cursor starve an endpoint: on `<<h1,h1,h2,h2>>`, endpoint 0 is never picked again. No run checks this. The one that checked starvation for a single destination was given up for the `ibv_create_qp` hang.
- **Left out for good:**
  - the verbs handles that `InitMemory` allocates (PD, CQs, regions) and `GidToIP`. ContextInit keeps only the outcomes of `Init`; the engine, CQ and buffer counts enter the other modules as constants;
  - `InitCuda`, which is compiled only with GDR;
  - `host.hpp` credit, which no code calls;
  - of the application drivers, trace parsing, payloads and latency output, and the one-shot programs main_client, main_server and ps-test (the dangling `sr->dest` is modelled in TraceClient as a nondeterministic read);
  - the latency statistics of smartwn.cpp's report. An empty request makes the p95 fallback index -1 (line 357), and an empty trace reads `interval_arr` at -1 (line 442). Both are out-of-bounds reads that only feed printed figures. The model keeps empty requests for their effect on the threads, but not the statistics;
  - the C++ memory model. `ReveiveFromMem` stores `end_timestamp` and then increments `curCallbackTrigger` with relaxed ordering (smartwn.cpp 79-82), so nothing orders that store before main's read of it. TraceClient makes `Reply` one step, as the x86 build behaves, and main sleeps for one second before the report;
  - the HugeCTR layer code, which is unrelated to the engine.
- `memory.hpp` and `helper.hpp` are not in the repository. The buffer regions are modelled from the specification as free sets. The NIC actions `Deliver` and `Ack` are modelled from the specification's description of RC semantics.
