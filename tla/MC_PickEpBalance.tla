--------------------------- MODULE MC_PickEpBalance ---------------------------
(***************************************************************************)
(* PickEp with a history variable counting how often each endpoint was    *)
(* returned, for a bounded number of consecutive calls.                    *)
(***************************************************************************)
EXTENDS PickEp, TLC

CONSTANTS h1, h2, h3, MaxPicks

MCDests == {h1, h2, h3}
SameDest == {h2}

VARIABLE picks   \* history: picks[i] = calls of PickEp that returned endpoint i

BInit == Init /\ picks = [i \in DOMAIN endpoints |-> 0]

BNext ==
    /\ \E d \in PickDests : Pick(d)
    /\ last' # NoEp
    /\ picks' = [picks EXCEPT ![last'] = @ + 1]
    /\ SumSet({picks[i] : i \in DOMAIN picks}) + 1 <= MaxPicks

BSpec == BInit /\ [][BNext]_<<vars, picks>>

(***************************************************************************)
(* Property 4 of the specification: called N times in a row with the same *)
(* dest, PickEp returns each of the K endpoints to dest within one of N/K  *)
(* times, so every two of them are returned within one time of each other.*)
(***************************************************************************)
PickEpBalanced ==
    \A i, j \in DOMAIN endpoints :
      (endpoints[i] \in PickDests /\ endpoints[j] \in PickDests)
        => picks[i] - picks[j] \in -1..1
=============================================================================
