\* SIGTERM may land in a thread inside malloc or free: one queue served by
\* two workers.
CONSTANTS
  NumDevices = 1
  NumQueues = 1
  ThreadsPerQueue = 2
  WritesEnabled = FALSE
  ReadInterval = 1
  LargeInterval = 2
  RunStop = 2
  MaxReadReqsQueued = 2
  MaxSleepLag = 2
  Stagger = 2
  RwStagger = 1
  UsleepWrap = 1000
  ReportInterval = 2
  PopTimeout = 0
  MallocCanFail = FALSE
  PushCanFail = FALSE
  SignalInAllocator = TRUE
  SetupCanFail = FALSE
  Fds = {1, 2}
  NoFd = NoFd
  NoDev = NoDev
  NoReq = NoReq
SPECIFICATION Spec
PROPERTY Termination
