CONSTANTS
  t1 = t1
  t2 = t2
  t3 = t3
  cb1 = cb1
  cb2 = cb2
  sb1 = sb1
  sb2 = sb2
  sb3 = sb3
  mem1 = mem1
  NoBuf = NoBuf
  NoCtx = NoCtx
  Tasks <- MCTasks1
  Server = mem1
  NumEps = 1
  ClientBufs <- MCClientBufs
  ServerBufs <- MCServerBufs1
  RecvBatch = 2
  ClientWqDepth = 2
  ServerWqDepth = 2
  CqPollDepth = 10
  SbufSize = 22
  IntMax = 2147483647
  PayloadLens <- MCPayloadLensNearIntMax
  ReplyLens <- MCReplyLens
SPECIFICATION Spec
INVARIANT PayloadTruncated
