CONSTANTS
  a1 = a1
  a2 = a2
  b1 = b1
  NoRun = NoRun
  Runs <- MCRunsAll
  RestartOf <- MCRestartAll
  NumQp = 1
  RecvBatch = 1
  RecvBufs = 3
  MaxConnRetry = 2
  HostInfoKey = 0
  ChannelInfoKey = 2
  GoGoKey = 3
  CrashRuns <- MCFaultyRun
  ActivateFailRuns <- MCFaultyRun
  CreateQpFailRuns <- MCCreateQpRun
SPECIFICATION Spec
CHECK_DEADLOCK FALSE
INVARIANT TypeOK
INVARIANT GoGoGatesTraffic
INVARIANT NoNullRecvBuffer
PROPERTY ConnectedRunsComplete
PROPERTY OtherRunsImplementConnection
