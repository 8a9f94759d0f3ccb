--------------------------- MODULE MC_TraceClient ---------------------------
(* Instances of TraceClient: two memory nodes; the replay trace has five  *)
(* requests for three threads (partSize 2: parts [0,2), [2,4), [4,5)), the *)
(* smaller one three requests for two threads.                             *)
EXTENDS TraceClient

CONSTANTS m1, m2, junk

MCHostOrder == <<m1, m2>>

\* Requests: <<m1, m2>>, <<m2>>, <<m1>>.
MCTrace == <<<<m1, m2>>, <<m2>>, <<m1>>>>

\* Five requests, the third with no sub-request:
\* <<m1, m2>>, <<m2>>, <<>>, <<m2>>, <<m2, m1>>.
MCTrace5 == <<<<m1, m2>>, <<m2>>, <<>>, <<m2>>, <<m2, m1>>>>

MCReadsNamedStale == {"named", "stale"}
MCReadsAll == {"named", "stale", "garbage"}
====
