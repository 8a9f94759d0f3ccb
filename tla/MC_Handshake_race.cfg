CONSTANTS
  a1 = a1
  a2 = a2
  b1 = b1
  NoRun = NoRun
  Runs <- MCRunsTwoHosts
  RestartOf <- MCNoRestart
  NumQp = 2
  RecvBatch = 1
  RecvBufs = 4
  MaxConnRetry = 2
  HostInfoKey = 0
  ChannelInfoKey = 2
  GoGoKey = 3
  CrashRuns <- MCNoFaults
  ActivateFailRuns <- MCNoFaults
  CreateQpFailRuns <- MCNoFaults
SPECIFICATION Spec
CHECK_DEADLOCK FALSE
INVARIANT EndpointsRegistered
