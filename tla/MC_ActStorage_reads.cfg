\* Transaction reads only (write-reqs-per-sec: 0): two devices, two queues
\* with one worker each, four requests over the run, at most two queued.
CONSTANTS
  NumDevices = 2
  NumQueues = 2
  ThreadsPerQueue = 1
  WritesEnabled = FALSE
  ReadInterval = 1
  LargeInterval = 2
  RunStop = 2
  MaxReadReqsQueued = 2
  MaxSleepLag = 2
  Stagger = 2
  RwStagger = 1
  UsleepWrap = 1000
  ReportInterval = 2
  PopTimeout = 0
  MallocCanFail = TRUE
  PushCanFail = FALSE
  SignalInAllocator = FALSE
  SetupCanFail = TRUE
  Fds = {1, 2}
  NoFd = NoFd
  NoDev = NoDev
  NoReq = NoReq
SPECIFICATION Spec
INVARIANT TypeOK
INVARIANT OutstandingBounded
INVARIANT EndToEndCoversRaw
INVARIANT HistogramsAgree
 
PROPERTY Termination
