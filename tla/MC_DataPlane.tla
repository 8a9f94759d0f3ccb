---------------------------- MODULE MC_DataPlane ----------------------------
EXTENDS DataPlane, TLC

CONSTANTS t1, t2, t3, cb1, cb2, sb1, sb2, sb3, mem1

MCTasks1 == {t1}
MCTasks2 == {t1, t2}
MCTasks3 == {t1, t2, t3}
MCClientBufs == {cb1, cb2}
MCClientBufs1 == {cb1}
MCServerBufs1 == {sb1}
MCServerBufs2 == {sb1, sb2}
MCServerBufs3 == {sb1, sb2, sb3}
MCPayloadLens == {1, 3}
MCReplyLens == {0, 3}
\* A payload length within 20 of INT_MAX (2147483647).
MCPayloadLensNearIntMax == {2147483640}
=============================================================================
