------------------------------ MODULE Connection ------------------------------
(***************************************************************************)
(* What the connection handshake promises (section 4.4 and property 5 of  *)
(* the specification), one connection per client program run: the server  *)
(* side establishes a run only once it has activated every one of the      *)
(* run's QPs; the client side returns success only once the server has     *)
(* established the run; either side may give up instead, and the server   *)
(* process may die, aborting every connection it is handling.  Neither     *)
(* side waits forever.                                                     *)
(***************************************************************************)
EXTENDS Integers

CONSTANTS Runs, NumQp

VARIABLES
    client,     \* per run: "idle", "trying", "connected" or "failed"
    server,     \* per run: "none", "handling", "established" or "aborted"
    activated   \* per run: the QPs the server side has activated

vars == <<client, server, activated>>

Qps == 0..(NumQp - 1)

Init ==
    /\ client = [r \in Runs |-> "idle"]
    /\ server = [r \in Runs |-> "none"]
    /\ activated = [r \in Runs |-> {}]

Start(r) ==
    /\ client[r] = "idle"
    /\ client' = [client EXCEPT ![r] = "trying"]
    /\ UNCHANGED <<server, activated>>

\* The server takes a connection the client side has opened.
Accept(r) ==
    /\ server[r] = "none" /\ client[r] # "idle"
    /\ server' = [server EXCEPT ![r] = "handling"]
    /\ UNCHANGED <<client, activated>>

ActivateQp(r, i) ==
    /\ server[r] = "handling" /\ i \notin activated[r]
    /\ activated' = [activated EXCEPT ![r] = @ \cup {i}]
    /\ UNCHANGED <<client, server>>

Establish(r) ==
    /\ server[r] = "handling" /\ activated[r] = Qps
    /\ server' = [server EXCEPT ![r] = "established"]
    /\ UNCHANGED <<client, activated>>

Connect(r) ==
    /\ client[r] = "trying" /\ server[r] = "established"
    /\ client' = [client EXCEPT ![r] = "connected"]
    /\ UNCHANGED <<server, activated>>

ClientGivesUp(r) ==
    /\ client[r] = "trying"
    /\ client' = [client EXCEPT ![r] = "failed"]
    /\ UNCHANGED <<server, activated>>

Abort(r) ==
    /\ server[r] = "handling"
    /\ server' = [server EXCEPT ![r] = "aborted"]
    /\ UNCHANGED <<client, activated>>

\* The server process dies: every connection it is handling is aborted.
ServerDies ==
    /\ server' = [r \in Runs |-> IF server[r] = "handling" THEN "aborted"
                                                           ELSE server[r]]
    /\ UNCHANGED <<client, activated>>

Next ==
    \/ ServerDies
    \/ \E r \in Runs :
         \/ Start(r) \/ Accept(r) \/ Establish(r) \/ Connect(r)
         \/ ClientGivesUp(r) \/ Abort(r)
         \/ \E i \in Qps : ActivateQp(r, i)

(* Each side of a started connection eventually ends it, one way or the  *)
(* other.                                                                  *)
Ends(r) ==
    /\ WF_vars(Connect(r) \/ ClientGivesUp(r))
    /\ WF_vars(Establish(r) \/ Abort(r))

Spec == Init /\ [][Next]_vars /\ \A r \in Runs : Ends(r)
================================================================================
