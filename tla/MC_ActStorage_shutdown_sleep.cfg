\* Overload on the first request, with a large-block interval of 1.2 s
\* (large_block_ops_per_sec below num_devices / 1.1).  Here one tick
\* stands for 100 ms: the report interval is 1 s, the pop timeout 100 ms,
\* MAX_SLEEP_LAG_USEC 10 s; the staggers (1 ms, 0.5 ms) are 0.
CONSTANTS
  NumDevices = 1
  NumQueues = 1
  ThreadsPerQueue = 1
  WritesEnabled = TRUE
  ReadInterval = 10
  LargeInterval = 12
  RunStop = 10
  MaxReadReqsQueued = 0
  MaxSleepLag = 100
  Stagger = 0
  RwStagger = 0
  UsleepWrap = 50000
  ReportInterval = 10
  PopTimeout = 1
  MallocCanFail = FALSE
  PushCanFail = FALSE
  SignalInAllocator = FALSE
  SetupCanFail = FALSE
  Fds = {1, 2}
  NoFd = NoFd
  NoDev = NoDev
  NoReq = NoReq
SPECIFICATION Spec
INVARIANT SleepsEndInTime
