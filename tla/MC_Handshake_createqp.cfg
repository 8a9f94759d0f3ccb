CONSTANTS
  a1 = a1
  a2 = a2
  b1 = b1
  NoRun = NoRun
  Runs <- MCRunsTwoHosts
  RestartOf <- MCNoRestart
  NumQp = 1
  RecvBatch = 1
  RecvBufs = 2
  MaxConnRetry = 2
  HostInfoKey = 0
  ChannelInfoKey = 2
  GoGoKey = 3
  CrashRuns <- MCNoFaults
  ActivateFailRuns <- MCNoFaults
  CreateQpFailRuns <- MCCreateQpRun
SPECIFICATION Spec
CHECK_DEADLOCK FALSE
PROPERTY ImplementsConnection
