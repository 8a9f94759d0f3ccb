---------------------------- MODULE MC_Handshake ----------------------------
(* Client program runs for TLC: a1 and a2 are two runs of one client, a2    *)
(* restarting a1 after it failed; b1 is a second client host.  A client   *)
(* that dies and an Activate that fails are given to a1; a server-side    *)
(* ibv_create_qp that fails is given to b1.                                *)
EXTENDS Handshake, TLC

CONSTANTS a1, a2, b1

MCRunsTwoHosts == {a1, b1}
MCRunsRestart == {a1, a2}
MCRunsAll == {a1, a2, b1}
MCNoRestart == [r \in MCRunsTwoHosts |-> NoRun]
MCRestart == (a1 :> NoRun) @@ (a2 :> a1)
MCRestartAll == (a1 :> NoRun) @@ (a2 :> a1) @@ (b1 :> NoRun)
MCFaultyRun == {a1}
MCCreateQpRun == {b1}
MCNoFaults == {}
====
