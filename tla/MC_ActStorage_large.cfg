\* Writes enabled: one device whose descriptor pool is shared by one read
\* worker and the device's large-block read and write loops.
CONSTANTS
  NumDevices = 1
  NumQueues = 1
  ThreadsPerQueue = 1
  WritesEnabled = TRUE
  ReadInterval = 3
  LargeInterval = 3
  RunStop = 2
  MaxReadReqsQueued = 1
  MaxSleepLag = 1
  Stagger = 2
  RwStagger = 1
  UsleepWrap = 1000
  ReportInterval = 2
  PopTimeout = 0
  MallocCanFail = FALSE
  PushCanFail = TRUE
  SignalInAllocator = TRUE
  SetupCanFail = TRUE
  Fds = {1, 2}
  NoFd = NoFd
  NoDev = NoDev
  NoReq = NoReq
SPECIFICATION Spec
INVARIANT PacingNeverAhead
PROPERTY PoolRefinement
INVARIANT NoFdLeakAtExit
