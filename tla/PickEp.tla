------------------------------- MODULE PickEp -------------------------------
(***************************************************************************)
(* Endpoint selection of one IO engine (src/nic/engine.cpp, PickEp).       *)
(* The engine keeps the vector endpoints_ of its endpoints, each tagged     *)
(* with the remote server it leads to, and one cursor endpoint_index_      *)
(* shared by every destination.  PickEp scans from the cursor to the end   *)
(* of the vector, then from the start; it returns the first endpoint whose *)
(* remote server is the destination and moves the cursor.                  *)
(***************************************************************************)
EXTENDS Integers, Sequences, SequencesExt

CONSTANTS
    Dests,       \* remote servers (model values)
    MaxPerHost,  \* bound on num_per_host (FLAGS_qp_num)
    PickDests    \* destinations the callers of PickEp ask for

ASSUME PickDests \subseteq Dests /\ MaxPerHost \in Nat \ {0}

\* PickEp returns nullptr when no endpoint leads to the destination.
NoEp == -1

VARIABLES
    endpoints,        \* rdma_io_engine::endpoints_, as a function 0..n-1 -> Dests
    endpoint_index,   \* rdma_io_engine::endpoint_index_
    last              \* the endpoint returned by the latest PickEp

vars == <<endpoints, endpoint_index, last>>

(***************************************************************************)
(* The endpoints_ vector rdma_context::Connect leaves in an engine: for    *)
(* each host of the session in turn, num_per_host endpoints, each put by   *)
(* PutEndpoint, so the endpoints of one host form one block.               *)
(***************************************************************************)
ConnectLayout(hosts, k) ==
    [i \in 0..(Len(hosts) * k - 1) |-> hosts[i \div k + 1]]

Layouts ==
    { ConnectLayout(hs, k) :
        hs \in UNION {SetToSeqs(S) : S \in SUBSET Dests \ {{}}},
        k \in 1..MaxPerHost }

(***************************************************************************)
(* rdma_io_engine::PickEp(dest) as a pure operator: the endpoint returned  *)
(* and the new value of the cursor.  The first loop matches at some i >=   *)
(* the cursor but only increments the cursor; the second loop sets it to   *)
(* i+1.  Both wrap the cursor to 0 when it reaches the vector's size.      *)
(***************************************************************************)
PickEp(eps, index, dest) ==
    LET n        == Cardinality(DOMAIN eps)
        Wrap(c)  == IF c = n THEN 0 ELSE c
        fromCur  == {i \in index..(n-1) : eps[i] = dest}
        fromZero == {i \in 0..(n-1) : eps[i] = dest}
    IN  IF fromCur # {}
          THEN [ep |-> Min(fromCur), index |-> Wrap(index + 1)]
        ELSE IF fromZero # {}
          THEN [ep |-> Min(fromZero), index |-> Wrap(Min(fromZero) + 1)]
        ELSE [ep |-> NoEp, index |-> index]

\* Session start: the handshakes are done, tasks go only to session hosts.
Init ==
    /\ endpoints \in {l \in Layouts : PickDests \subseteq Range(l)}
    /\ endpoint_index = 0
    /\ last = NoEp

\* One call of PickEp by the engine's worker thread for a task to dest.
Pick(dest) ==
    LET r == PickEp(endpoints, endpoint_index, dest)
    IN  /\ endpoint_index' = r.index
        /\ last' = r.ep
        /\ UNCHANGED endpoints

Next == \E d \in PickDests : Pick(d)

Spec == Init /\ [][Next]_vars

=============================================================================
