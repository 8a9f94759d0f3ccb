--------------------------------- MODULE Rpc ---------------------------------
(***************************************************************************)
(* What the data plane promises its user (sections 4.5, 4.6 and property  *)
(* 3 of the specification): every call passed to Send is answered by      *)
(* exactly one run of its callback, with a reply length the server         *)
(* callback produced, cut to what one send buffer holds after the header.  *)
(***************************************************************************)
EXTENDS Integers, Sequences

CONSTANTS Tasks, PayloadLens, ReplyLens, SbufSize

VARIABLES
    requests,   \* the calls made: records [ctx, len]
    replies     \* replies[t]: the lengths the callback of call t was run with

vars == <<requests, replies>>

\* Largest payload one packet carries.
Capacity == SbufSize - 20

Made(t) == \E r \in requests : r.ctx = t

Init ==
    /\ requests = {}
    /\ replies = [t \in Tasks |-> <<>>]

Submit(t, len) ==
    /\ ~Made(t)
    /\ requests' = requests \cup {[ctx |-> t, len |-> len]}
    /\ UNCHANGED replies

Answer(t) ==
    /\ Made(t)
    /\ replies[t] = <<>>
    /\ \E out \in ReplyLens :
         replies' = [replies EXCEPT ![t] = <<IF out > Capacity THEN Capacity ELSE out>>]
    /\ UNCHANGED requests

Next ==
    \/ \E t \in Tasks, len \in PayloadLens : Submit(t, len)
    \/ \E t \in Tasks : Answer(t)

Spec == Init /\ [][Next]_vars /\ \A t \in Tasks : WF_vars(Answer(t))
=============================================================================
