CONSTANTS
  a1 = a1
  a2 = a2
  b1 = b1
  NoRun = NoRun
  Runs <- MCRunsRestart
  RestartOf <- MCRestart
  NumQp = 2
  RecvBatch = 1
  RecvBufs = 2
  MaxConnRetry = 2
  HostInfoKey = 0
  ChannelInfoKey = 2
  GoGoKey = 3
  CrashRuns <- MCFaultyRun
  ActivateFailRuns <- MCNoFaults
  CreateQpFailRuns <- MCNoFaults
SPECIFICATION Spec
CHECK_DEADLOCK FALSE
INVARIANT NoNullRecvBuffer
