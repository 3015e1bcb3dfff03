\* A large-block interval longer than 2^32 us (large_block_ops_per_sec below
\* num_devices / 4295).  Here one tick stands for 2^31 us, so usleep's
\* uint32_t argument wraps at 2 ticks; the staggers and the lag limit, all
\* far below a tick, are 0.
CONSTANTS
  NumDevices = 1
  NumQueues = 1
  ThreadsPerQueue = 1
  WritesEnabled = TRUE
  ReadInterval = 1
  LargeInterval = 3
  RunStop = 4
  MaxReadReqsQueued = 1
  MaxSleepLag = 0
  Stagger = 0
  RwStagger = 0
  UsleepWrap = 2
  ReportInterval = 4
  PopTimeout = 0
  MallocCanFail = FALSE
  PushCanFail = FALSE
  SignalInAllocator = FALSE
  SetupCanFail = FALSE
  Fds = {1, 2}
  NoFd = NoFd
  NoDev = NoDev
  NoReq = NoReq
SPECIFICATION Spec
INVARIANT PacingNeverAhead
