----------------------------- MODULE ActStorage -----------------------------
(***************************************************************************)
(* The closed-loop workload driver of act.c (ACT storage): the request     *)
(* generator run_add_readreqs, the read-queue workers run_reads, the       *)
(* per-device large-block loops run_large_block_reads / _writes, and the   *)
(* supervisor loop and shutdown in main().  They share g_running,          *)
(* g_read_reqs_queued, the read queues, the histograms and the per-device  *)
(* descriptor pools (module FdPool).                                       *)
(*                                                                         *)
(* Time is a discrete clock `now`, in ticks after g_run_start_us; the      *)
(* paced loops' usleep() is a wait until `now` reaches the computed wake   *)
(* time.  Offsets, buffers and random data are abstracted away (module     *)
(* DeviceGeometry checks offsets); a histogram is the count of its        *)
(* samples.                                                                *)
(***************************************************************************)
EXTENDS Integers, SequencesExt

CONSTANTS
  NumDevices,         \* g_cfg.num_devices
  NumQueues,          \* g_cfg.num_queues
  ThreadsPerQueue,    \* g_cfg.threads_per_queue
  WritesEnabled,      \* g_cfg.write_reqs_per_sec != 0
  ReadInterval,       \* 1000000 / read_reqs_per_sec, in ticks
  LargeInterval,      \* 1000000 * num_devices / large_block_ops_per_sec
  RunStop,            \* g_cfg.run_us: the run stops at run_stop_us
  MaxReadReqsQueued,  \* MAX_READ_REQS_QUEUED
  MaxSleepLag,        \* MAX_SLEEP_LAG_USEC
  Stagger,            \* STAGGER
  RwStagger,          \* RW_STAGGER
  UsleepWrap,         \* 2^32 us, the range of usleep's uint32_t argument
  ReportInterval,     \* g_cfg.report_interval_us
  PopTimeout,         \* the 100 ms timeout of run_reads' cf_queue_pop
  MallocCanFail,      \* malloc(sizeof(readreq)) may return NULL
  PushCanFail,        \* cf_queue_push may fail (its queue cannot grow)
  SignalInAllocator,  \* SIGTERM may interrupt a thread inside malloc/free
  SetupCanFail,       \* main()'s cf_queue_create, malloc or pthread_create may fail
  Fds, NoFd, NoDev, NoReq

ASSUME /\ NumDevices >= 1 /\ NumQueues >= 1 /\ ThreadsPerQueue >= 1
       /\ {WritesEnabled, MallocCanFail, PushCanFail, SignalInAllocator, SetupCanFail} \subseteq BOOLEAN
       /\ {ReadInterval, LargeInterval, UsleepWrap, ReportInterval} \subseteq Nat \ {0}
       /\ {RunStop, MaxReadReqsQueued, MaxSleepLag, Stagger, RwStagger, PopTimeout} \subseteq Nat
       /\ Fds = 1 .. Cardinality(Fds) /\ Cardinality(Fds) >= NumDevices

Devices == 0 .. NumDevices - 1
Queues == 0 .. NumQueues - 1

(* Thread identities: the generator, worker j of read queue q, and the     *)
(* large-block read / write thread of device d (only when writes are on).  *)
Gen == <<"gen">>
Workers == {<<"rd", q, j>> : q \in Queues, j \in 1 .. ThreadsPerQueue}
LargeBlock == IF WritesEnabled
              THEN {<<"lb", d, k>> : d \in Devices, k \in {"read", "write"}}
              ELSE {}
Paced == {Gen} \cup LargeBlock
Threads == Paced \cup Workers

QueueOf(w) == w[2]
DevOf(l) == l[2]

VARIABLES
  running,      \* g_running
  now,          \* cf_getus() - g_run_start_us, in ticks
  reqsQueued,   \* g_read_reqs_queued
  readq,        \* readq[q]: contents of g_readqs[q].p_req_queue
  pushed,       \* history: pushed[q] = readreqs ever pushed on queue q
  pc,           \* pc[t]: where thread t is in its run function
  count,        \* count[t]: the loop counter of a paced thread
  wake,         \* wake[t]: when the paced thread's usleep() ends
  req,          \* req[w]: the readreq worker w popped, or NoReq
  rawStart,     \* rawStart[w]: raw_start_time in read_and_report
  stop,         \* stop[w]: stop_time returned by read_from_device
  hRaw,         \* samples in g_p_raw_read_histogram
  hRead,        \* samples in g_p_read_histogram
  hDev,         \* hDev[d]: samples in devices[d].p_raw_read_histogram
  createStep,   \* index of main's next setup step in CreatePlan
  mainPc,       \* main(): "setup" (creating threads), "setupfail" (exit(-1)),
                \* "loop" (reporting), "join" (shutdown), "done"
                \* (returned), "killed" (_exit(0) from the SIGTERM handler),
                \* "segv" (_exit(-1) from the SIGSEGV handler)
  hung,         \* threads blocked for good in the SIGTERM handler
  reports,      \* main()'s count: reports begun; it sleeps until reports * interval
  mainStep,     \* index of main's next shutdown step in JoinPlan
  stopCause,    \* history: who first cleared g_running
  fdq, fdDev, held

vars == <<running, now, reqsQueued, readq, pushed, pc, count, wake, req, rawStart,
          stop, hRaw, hRead, hDev, createStep, mainPc, hung, reports, mainStep, stopCause,
          fdq, fdDev, held>>

Pool == INSTANCE FdPool WITH Devs <- Devices, Users <- Threads

(* The abstract pool seen through the queues: a queue is its set of fds.   *)
AP == INSTANCE AbstractPool WITH Devs <- Devices, Users <- Threads,
        pooled <- [d \in Devices |-> Range(fdq[d])], openOn <- fdDev, lent <- held

Req == [dev : Devices, start : Nat]

(* start_us of a large-block loop: g_run_start_us - n * STAGGER, and       *)
(* RW_STAGGER less for the write loop.                                     *)
LargeStart(l) == 0 - DevOf(l) * Stagger - (IF l[3] = "write" THEN RwStagger ELSE 0)

(* The time the paced thread's count-th operation is scheduled for.        *)
Scheduled(t) == IF t = Gen THEN count[t] * ReadInterval
                ELSE LargeStart(t) + count[t] * LargeInterval

safe_delta_ns(start_ns, stop_ns) == IF start_ns > stop_ns THEN 0 ELSE stop_ns - start_ns

(* main()'s shutdown after the loop: join the generator, every worker of   *)
(* every queue, then per device the two large-block threads (when          *)
(* created) followed by fd_close_all.                                      *)
JoinStep(t) == [kind |-> "join", t |-> t]
(* Mutant of DeviceSteps: fd_close_all before the large-block joins.       *)
DeviceStepsCloseFirst(d) ==
  <<[kind |-> "close", d |-> d]>>
  \o (IF WritesEnabled THEN <<JoinStep(<<"lb", d, "read">>), JoinStep(<<"lb", d, "write">>)>>
      ELSE <<>>)
DeviceSteps(d) ==
  (IF WritesEnabled THEN <<JoinStep(<<"lb", d, "read">>), JoinStep(<<"lb", d, "write">>)>>
   ELSE <<>>) \o <<[kind |-> "close", d |-> d]>>
JoinPlan ==
  <<JoinStep(Gen)>>
  \o [i \in 1 .. NumQueues * ThreadsPerQueue |->
        JoinStep(<<"rd", (i - 1) \div ThreadsPerQueue, ((i - 1) % ThreadsPerQueue) + 1>>)]
  \o FlattenSeq([i \in 1 .. NumDevices |-> DeviceSteps(i - 1)])

(* main()'s setup after g_running = true: when writes are on, the write  *)
(* thread of every device, then the read thread of every device; then per  *)
(* queue cf_queue_create and the malloc of its thread array, followed by   *)
(* its workers; the generator last.                                        *)
CreateStep(t) == [kind |-> "create", t |-> t]
QueueSteps(q) ==
  <<[kind |-> "queue", q |-> q]>> \o [j \in 1 .. ThreadsPerQueue |-> CreateStep(<<"rd", q, j>>)]
LargeCreateSteps ==
  IF WritesEnabled
  THEN [i \in 1 .. NumDevices |-> CreateStep(<<"lb", i - 1, "write">>)]
       \o [i \in 1 .. NumDevices |-> CreateStep(<<"lb", i - 1, "read">>)]
  ELSE <<>>
CreatePlan ==
  LargeCreateSteps \o FlattenSeq([i \in 1 .. NumQueues |-> QueueSteps(i - 1)]) \o <<CreateStep(Gen)>>

(* The steps of CreatePlan main() has completed, and the threads and read  *)
(* queues they created.                                                    *)
SetupDone == {CreatePlan[i] : i \in 1 .. createStep - 1}
Created == {s.t : s \in {x \in SetupDone : x.kind = "create"}}
QueueCreated(q) == [kind |-> "queue", q |-> q] \in SetupDone

-----------------------------------------------------------------------------
(* main() from g_running = true on, before its first pthread_create; now = *)
(* 0 is g_run_start_us.  The setup before it (configure, set_schedulers,   *)
(* discover_num_blocks) has left one pooled descriptor per device; a       *)
(* thread runs once main() has created it.                                 *)
Init ==
  /\ running = TRUE
  /\ now = 0
  /\ reqsQueued = 0
  /\ readq = [q \in Queues |-> <<>>]
  /\ pushed = [q \in Queues |-> 0]
  /\ pc = [t \in Threads |-> IF t \in LargeBlock THEN "alloc" ELSE "head"]
  /\ count = [t \in Paced |-> 0]
  /\ wake = [t \in Paced |-> IF t = Gen THEN 0 ELSE LargeStart(t)]
  /\ req = [w \in Workers |-> NoReq]
  /\ rawStart = [w \in Workers |-> 0]
  /\ stop = [w \in Workers |-> 0]
  /\ hRaw = 0 /\ hRead = 0 /\ hDev = [d \in Devices |-> 0]
  /\ mainPc = "setup" /\ createStep = 1 /\ mainStep = 1 /\ hung = {}
  /\ stopCause = "none" /\ reports = 0
  /\ Pool!PoolInit([d \in Devices |-> d + 1])

(* The process has not exited: its threads and its clock still run.       *)
Alive == mainPc \in {"setup", "loop", "join"}

Goto(t, from, to) == pc[t] = from /\ pc' = [pc EXCEPT ![t] = to]

(* Clear g_running; remember who did it first.                             *)
StopRunning(cause) ==
  /\ running' = FALSE
  /\ stopCause' = IF running THEN cause ELSE stopCause

-----------------------------------------------------------------------------
(* run_add_readreqs: the loop head, after the drift-corrected usleep().    *)
GenHead ==
  /\ now >= wake[Gen]
  /\ Goto(Gen, "head", IF running THEN "enqueue" ELSE "done")
  /\ UNCHANGED <<running, now, reqsQueued, readq, pushed, count, wake, req, rawStart,
                 stop, hRaw, hRead, hDev, createStep, mainPc, reports, mainStep, hung, stopCause,
                 fdq, fdDev, held>>

(* Mutant of GenCheck: the overload test reads the counter before the      *)
(* increment instead of testing the incremented value.                     *)
GenCheckTestsOld ==
  /\ pc[Gen] = "enqueue"
  /\ reqsQueued <= MaxReadReqsQueued
  /\ reqsQueued' = reqsQueued + 1
  /\ pc' = [pc EXCEPT ![Gen] = "push"]
  /\ UNCHANGED <<running, now, readq, pushed, count, wake, req, rawStart, stop, hRaw,
                 hRead, hDev, createStep, mainPc, reports, mainStep, hung, stopCause,
                 fdq, fdDev, held>>

(* cf_atomic32_incr(&g_read_reqs_queued) returns a count within            *)
(* MAX_READ_REQS_QUEUED: the loop goes on to build the readreq.            *)
GenCheck ==
  /\ pc[Gen] = "enqueue"
  /\ reqsQueued + 1 <= MaxReadReqsQueued
  /\ reqsQueued' = reqsQueued + 1
  /\ pc' = [pc EXCEPT ![Gen] = "push"]
  /\ UNCHANGED <<running, now, readq, pushed, count, wake, req, rawStart, stop, hRaw,
                 hRead, hDev, createStep, mainPc, reports, mainStep, hung, stopCause,
                 fdq, fdDev, held>>

(* Mutant of GenEnqueue: the device index is rand_31() % (num_devices+1). *)
GenEnqueueDeviceOffByOne ==
  /\ pc[Gen] = "push"
  /\ \E d \in 0 .. NumDevices :
       readq' = [readq EXCEPT ![count[Gen] % NumQueues] =
                   Append(@, [dev |-> d, start |-> now])]
  /\ pushed' = [pushed EXCEPT ![count[Gen] % NumQueues] = @ + 1]
  /\ count' = [count EXCEPT ![Gen] = @ + 1]
  /\ wake' = [wake EXCEPT ![Gen] = (count[Gen] + 1) * ReadInterval]
  /\ pc' = [pc EXCEPT ![Gen] = "head"]
  /\ UNCHANGED <<running, now, reqsQueued, req, rawStart, stop, hRaw, hRead, hDev,
                 createStep, mainPc, hung, reports, mainStep, stopCause, fdq, fdDev, held>>

(* malloc a readreq for a random device, stamp start_time, push it on      *)
(* queue count % num_queues, count++, and sleep until count /              *)
(* read_reqs_per_sec.                                                      *)
GenEnqueue ==
  /\ pc[Gen] = "push"
  /\ \E d \in Devices :
       readq' = [readq EXCEPT ![count[Gen] % NumQueues] =
                   Append(@, [dev |-> d, start |-> now])]
  /\ pushed' = [pushed EXCEPT ![count[Gen] % NumQueues] = @ + 1]
  /\ count' = [count EXCEPT ![Gen] = @ + 1]
  /\ wake' = [wake EXCEPT ![Gen] = (count[Gen] + 1) * ReadInterval]
  /\ pc' = [pc EXCEPT ![Gen] = "head"]
  /\ UNCHANGED <<running, now, reqsQueued, req, rawStart, stop, hRaw, hRead, hDev,
                 createStep, mainPc, reports, mainStep, hung, stopCause, fdq, fdDev, held>>

(* malloc(sizeof(readreq)) returns NULL, after the increment: the store   *)
(* to p_readreq->p_device faults and as_sig_handle_segv, in the generator  *)
(* thread, prints a backtrace and calls _exit(-1).                         *)
GenMallocFail ==
  /\ MallocCanFail
  /\ pc[Gen] = "push"
  /\ mainPc' = "segv"
  /\ UNCHANGED <<running, now, reqsQueued, readq, pushed, pc, count, wake, req, rawStart,
                 stop, hRaw, hRead, hDev, createStep, hung, reports, mainStep, stopCause,
                 fdq, fdDev, held>>

(* As GenEnqueue, but cf_queue_push fails; its result is ignored, so the   *)
(* readreq is lost and the increment is never undone.                      *)
GenPushFail ==
  /\ PushCanFail
  /\ pc[Gen] = "push"
  /\ count' = [count EXCEPT ![Gen] = @ + 1]
  /\ wake' = [wake EXCEPT ![Gen] = (count[Gen] + 1) * ReadInterval]
  /\ pc' = [pc EXCEPT ![Gen] = "head"]
  /\ UNCHANGED <<running, now, reqsQueued, readq, pushed, req, rawStart, stop, hRaw, hRead,
                 hDev, createStep, mainPc, hung, reports, mainStep, stopCause, fdq, fdDev, held>>

(* The incremented count exceeds MAX_READ_REQS_QUEUED: "too many read reqs *)
(* queued", g_running = false, break -- the increment is not undone.       *)
GenOverload ==
  /\ pc[Gen] = "enqueue"
  /\ reqsQueued + 1 > MaxReadReqsQueued
  /\ reqsQueued' = reqsQueued + 1
  /\ StopRunning("overload")
  /\ pc' = [pc EXCEPT ![Gen] = "done"]
  /\ UNCHANGED <<now, readq, pushed, count, wake, req, rawStart, stop, hRaw, hRead,
                 hDev, createStep, mainPc, reports, mainStep, hung, fdq, fdDev, held>>

-----------------------------------------------------------------------------
(* run_reads, worker w of queue QueueOf(w).                                *)
(* Mutant of WorkerHead: the loop does not test g_running.                 *)
WorkerHeadForever(w) ==
  /\ Goto(w, "head", "pop")
  /\ UNCHANGED <<running, now, reqsQueued, readq, pushed, count, wake, req, rawStart,
                 stop, hRaw, hRead, hDev, createStep, mainPc, reports, mainStep, hung, stopCause,
                 fdq, fdDev, held>>

WorkerHead(w) ==
  /\ Goto(w, "head", IF running THEN "pop" ELSE "done")
  /\ UNCHANGED <<running, now, reqsQueued, readq, pushed, count, wake, req, rawStart,
                 stop, hRaw, hRead, hDev, createStep, mainPc, reports, mainStep, hung, stopCause,
                 fdq, fdDev, held>>

(* cf_queue_pop(p_req_queue, &p_readreq, 100) returns CF_QUEUE_OK.         *)
WorkerPop(w) ==
  /\ readq[QueueOf(w)] # <<>>
  /\ Goto(w, "pop", "get")
  /\ req' = [req EXCEPT ![w] = Head(readq[QueueOf(w)])]
  /\ readq' = [readq EXCEPT ![QueueOf(w)] = Tail(@)]
  /\ UNCHANGED pushed
  /\ UNCHANGED <<running, now, reqsQueued, count, wake, rawStart, stop, hRaw,
                 hRead, hDev, createStep, mainPc, reports, mainStep, hung, stopCause, fdq, fdDev, held>>

(* The 100 ms pop times out on an empty queue: continue to the loop head.  *)
WorkerTimeout(w) ==
  /\ readq[QueueOf(w)] = <<>>
  /\ Goto(w, "pop", "head")
  /\ UNCHANGED <<running, now, reqsQueued, readq, pushed, count, wake, req, rawStart,
                 stop, hRaw, hRead, hDev, createStep, mainPc, reports, mainStep, hung, stopCause,
                 fdq, fdDev, held>>

(* Mutant of WorkerGetFd: raw_start_time is not stamped for this request.  *)
WorkerGetFdNoStamp(w) ==
  /\ pc[w] = "get"
  /\ Pool!fd_get(w, req[w].dev)
  /\ pc' = [pc EXCEPT ![w] = IF held'[w] = NoFd THEN "free" ELSE "io"]
  /\ UNCHANGED <<running, now, reqsQueued, readq, pushed, count, wake, req, rawStart,
                 stop, hRaw, hRead, hDev, createStep, mainPc, reports, mainStep, hung, stopCause>>

(* read_and_report: raw_start_time = cf_getns(); read_from_device's        *)
(* fd_get -- on -1 it returns -1 and nothing is reported.                  *)
WorkerGetFd(w) ==
  /\ pc[w] = "get"
  /\ rawStart' = [rawStart EXCEPT ![w] = now]
  /\ Pool!fd_get(w, req[w].dev)
  /\ pc' = [pc EXCEPT ![w] = IF held'[w] = NoFd THEN "free" ELSE "io"]
  /\ UNCHANGED <<running, now, reqsQueued, readq, pushed, count, wake, req, stop,
                 hRaw, hRead, hDev, createStep, mainPc, reports, mainStep, hung, stopCause>>

(* lseek and read succeed: stop_ns = cf_getns(), fd_put.                   *)
WorkerReadOk(w) ==
  /\ Goto(w, "io", "rawhist")
  /\ stop' = [stop EXCEPT ![w] = now]
  /\ Pool!fd_put(w, req[w].dev)
  /\ UNCHANGED <<running, now, reqsQueued, readq, pushed, count, wake, req, rawStart,
                 hRaw, hRead, hDev, createStep, mainPc, reports, mainStep, hung, stopCause>>

(* lseek or read fails: close(fd), return -1.                              *)
WorkerReadFail(w) ==
  /\ Goto(w, "io", "free")
  /\ Pool!fd_close(w)
  /\ UNCHANGED <<running, now, reqsQueued, readq, pushed, count, wake, req, rawStart,
                 stop, hRaw, hRead, hDev, createStep, mainPc, reports, mainStep, hung, stopCause>>

(* The three histogram_insert_data_point calls, one at a time: each is     *)
(* thread-safe, the three together are not atomic.                         *)
(* Mutant of WorkerRawHist: the insert into g_p_read_histogram is lost.    *)
WorkerRawHistSkipsRead(w) ==
  /\ Goto(w, "rawhist", "devhist")
  /\ hRaw' = hRaw + 1
  /\ UNCHANGED <<running, now, reqsQueued, readq, pushed, count, wake, req, rawStart,
                 stop, hRead, hDev, createStep, mainPc, reports, mainStep, hung, stopCause,
                 fdq, fdDev, held>>

WorkerRawHist(w) ==
  /\ Goto(w, "rawhist", "readhist")
  /\ hRaw' = hRaw + 1
  /\ UNCHANGED <<running, now, reqsQueued, readq, pushed, count, wake, req, rawStart,
                 stop, hRead, hDev, createStep, mainPc, reports, mainStep, hung, stopCause,
                 fdq, fdDev, held>>

WorkerReadHist(w) ==
  /\ Goto(w, "readhist", "devhist")
  /\ hRead' = hRead + 1
  /\ UNCHANGED <<running, now, reqsQueued, readq, pushed, count, wake, req, rawStart,
                 stop, hRaw, hDev, createStep, mainPc, reports, mainStep, hung, stopCause,
                 fdq, fdDev, held>>

WorkerDevHist(w) ==
  /\ Goto(w, "devhist", "free")
  /\ hDev' = [hDev EXCEPT ![req[w].dev] = @ + 1]
  /\ UNCHANGED <<running, now, reqsQueued, readq, pushed, count, wake, req, rawStart,
                 stop, hRaw, hRead, createStep, mainPc, reports, mainStep, hung, stopCause,
                 fdq, fdDev, held>>

(* free(p_readreq).  The two time stamps are locals of the iteration, dead *)
(* from here on.                                                           *)
WorkerFree(w) ==
  /\ Goto(w, "free", "decr")
  /\ req' = [req EXCEPT ![w] = NoReq]
  /\ rawStart' = [rawStart EXCEPT ![w] = 0]
  /\ stop' = [stop EXCEPT ![w] = 0]
  /\ UNCHANGED <<running, now, reqsQueued, readq, pushed, count, wake, hRaw, hRead, hDev,
                 createStep, mainPc, reports, mainStep, hung, stopCause, fdq, fdDev, held>>

WorkerDecr(w) ==
  /\ Goto(w, "decr", "head")
  /\ reqsQueued' = reqsQueued - 1
  /\ UNCHANGED <<running, now, readq, pushed, count, wake, req, rawStart, stop, hRaw,
                 hRead, hDev, createStep, mainPc, reports, mainStep, hung, stopCause,
                 fdq, fdDev, held>>

-----------------------------------------------------------------------------
(* run_large_block_reads / run_large_block_writes, thread l.  The buffer   *)
(* cf_valloc() may fail: the thread prints an error and returns at once.   *)
LargeAllocOk(l) ==
  /\ Goto(l, "alloc", "head")
  /\ UNCHANGED <<running, now, reqsQueued, readq, pushed, count, wake, req, rawStart,
                 stop, hRaw, hRead, hDev, createStep, mainPc, reports, mainStep, hung, stopCause,
                 fdq, fdDev, held>>

LargeAllocFail(l) ==
  /\ Goto(l, "alloc", "done")
  /\ UNCHANGED <<running, now, reqsQueued, readq, pushed, count, wake, req, rawStart,
                 stop, hRaw, hRead, hDev, createStep, mainPc, reports, mainStep, hung, stopCause,
                 fdq, fdDev, held>>

(* The loop head `while (g_running)`, after the usleep().                  *)
LargeHead(l) ==
  /\ now >= wake[l]
  /\ Goto(l, "head", IF running THEN "get" ELSE "done")
  /\ UNCHANGED <<running, now, reqsQueued, readq, pushed, count, wake, req, rawStart,
                 stop, hRaw, hRead, hDev, createStep, mainPc, reports, mainStep, hung, stopCause,
                 fdq, fdDev, held>>

(* read_and_report_large_block / write_and_report_large_block: rand_fill   *)
(* and the random offset, then read_from_device / write_to_device's        *)
(* fd_get; on -1 the operation is skipped.                                 *)
LargeGetFd(l) ==
  /\ pc[l] = "get"
  /\ Pool!fd_get(l, DevOf(l))
  /\ pc' = [pc EXCEPT ![l] = IF held'[l] = NoFd THEN "pace" ELSE "io"]
  /\ UNCHANGED <<running, now, reqsQueued, readq, pushed, count, wake, req, rawStart,
                 stop, hRaw, hRead, hDev, createStep, mainPc, reports, mainStep, hung, stopCause>>

(* The seek and read / write succeed: fd_put and insert the sample into    *)
(* the direction's global histogram (not counted in this model).           *)
LargeIoOk(l) ==
  /\ Goto(l, "io", "pace")
  /\ Pool!fd_put(l, DevOf(l))
  /\ UNCHANGED <<running, now, reqsQueued, readq, pushed, count, wake, req, rawStart,
                 stop, hRaw, hRead, hDev, createStep, mainPc, reports, mainStep, hung, stopCause>>

LargeIoFail(l) ==
  /\ Goto(l, "io", "pace")
  /\ Pool!fd_close(l)
  /\ UNCHANGED <<running, now, reqsQueued, readq, pushed, count, wake, req, rawStart,
                 stop, hRaw, hRead, hDev, createStep, mainPc, reports, mainStep, hung, stopCause>>

(* The end of usleep((uint32_t)sleep_us) when sleep_us > 0: the cast keeps *)
(* sleep_us modulo 2^32 us.  Otherwise there is no sleep: the target time  *)
(* has passed, and the loop head may run at once.                          *)
usleep_wake(sleep) == now + (IF sleep > 0 THEN sleep % UsleepWrap ELSE sleep)

(* sleep_us after count++: target_us - (cf_getus() - start_us).            *)
LargeSleep(l) == LargeStart(l) + (count[l] + 1) * LargeInterval - now

(* Mutant of LargePace: target_us computed before count++.                 *)
LargePaceOldCount(l) ==
  /\ Goto(l, "pace", "head")
  /\ LargeSleep(l) - LargeInterval >= 0 - MaxSleepLag
  /\ count' = [count EXCEPT ![l] = @ + 1]
  /\ wake' = [wake EXCEPT ![l] = usleep_wake(LargeSleep(l) - LargeInterval)]
  /\ UNCHANGED <<running, now, reqsQueued, readq, pushed, req, rawStart, stop, hRaw,
                 hRead, hDev, createStep, mainPc, reports, mainStep, hung, stopCause, fdq, fdDev, held>>

(* count++; target_us = count * 1000000 * num_devices / ops_per_sec;       *)
(* sleep_us = target_us - (cf_getus() - start_us): sleep if positive.      *)
LargePace(l) ==
  /\ Goto(l, "pace", "head")
  /\ LargeSleep(l) >= 0 - MaxSleepLag
  /\ count' = [count EXCEPT ![l] = @ + 1]
  /\ wake' = [wake EXCEPT ![l] = usleep_wake(LargeSleep(l))]
  /\ UNCHANGED <<running, now, reqsQueued, readq, pushed, req, rawStart, stop, hRaw,
                 hRead, hDev, createStep, mainPc, reports, mainStep, hung, stopCause, fdq, fdDev, held>>

(* sleep_us < -MAX_SLEEP_LAG_USEC: "drive(s) can't keep up", g_running =   *)
(* false; no sleep, and the loop ends at its head.                         *)
LargeFallBehind(l) ==
  /\ Goto(l, "pace", "head")
  /\ LargeSleep(l) < 0 - MaxSleepLag
  /\ count' = [count EXCEPT ![l] = @ + 1]
  /\ wake' = [wake EXCEPT ![l] = usleep_wake(LargeSleep(l))]
  /\ StopRunning("overload")
  /\ UNCHANGED <<now, reqsQueued, readq, pushed, req, rawStart, stop, hRaw, hRead,
                 hDev, createStep, mainPc, reports, mainStep, hung, fdq, fdDev, held>>

-----------------------------------------------------------------------------
(* The next setup step succeeds: pthread_create starts its thread, or      *)
(* cf_queue_create and the malloc of the thread array both succeed.  After *)
(* the generator main() enters its report loop.                            *)
MainCreate ==
  /\ mainPc = "setup"
  /\ createStep' = createStep + 1
  /\ mainPc' = IF createStep = Len(CreatePlan) THEN "loop" ELSE "setup"
  /\ UNCHANGED <<running, now, reqsQueued, readq, pushed, pc, count, wake, req, rawStart,
                 stop, hRaw, hRead, hDev, reports, mainStep, hung, stopCause,
                 fdq, fdDev, held>>

(* It fails: "ERROR: create ... thread" (or none for a NULL queue or       *)
(* array), exit(-1), with the threads created so far in whatever state     *)
(* they are.                                                               *)
MainSetupFail ==
  /\ SetupCanFail
  /\ mainPc = "setup"
  /\ mainPc' = "setupfail"
  /\ UNCHANGED <<running, now, reqsQueued, readq, pushed, pc, count, wake, req, rawStart,
                 stop, hRaw, hRead, hDev, createStep, reports, mainStep, hung, stopCause,
                 fdq, fdDev, held>>

-----------------------------------------------------------------------------
(* main()'s report loop, `while (g_running && (now_us = cf_getus()) <     *)
(* run_stop_us)`: the test passes, count++, and main() sleeps until        *)
(* count * report_interval_us; the report it then prints only reads state. *)
MainReport ==
  /\ mainPc = "loop"
  /\ now >= reports * ReportInterval
  /\ running /\ now < RunStop
  /\ reports' = reports + 1
  /\ UNCHANGED <<running, now, reqsQueued, readq, pushed, pc, count, wake, req, rawStart,
                 stop, hRaw, hRead, hDev, createStep, mainPc, mainStep, hung, stopCause,
                 fdq, fdDev, held>>

(* The test fails, after the sleep: g_running = false, then shutdown.      *)
MainLoopExit ==
  /\ mainPc = "loop"
  /\ now >= reports * ReportInterval
  /\ ~running \/ now >= RunStop
  /\ StopRunning("duration")
  /\ mainPc' = "join"
  /\ UNCHANGED <<now, reqsQueued, readq, pushed, pc, count, wake, req, rawStart, stop,
                 hRaw, hRead, hDev, createStep, reports, mainStep, hung, fdq, fdDev, held>>

(* pthread_join of the next thread in JoinPlan: waits until it returned.   *)
MainJoin ==
  /\ mainPc = "join"
  /\ mainStep <= Len(JoinPlan)
  /\ JoinPlan[mainStep].kind = "join"
  /\ pc[JoinPlan[mainStep].t] = "done"
  /\ mainStep' = mainStep + 1
  /\ UNCHANGED <<running, now, reqsQueued, readq, pushed, pc, count, wake, req,
                 rawStart, stop, hRaw, hRead, hDev, createStep, mainPc, reports, hung, stopCause,
                 fdq, fdDev, held>>

(* fd_close_all(p_device) and cf_queue_destroy of its descriptor queue.    *)
MainCloseAll ==
  /\ mainPc = "join"
  /\ mainStep <= Len(JoinPlan)
  /\ JoinPlan[mainStep].kind = "close"
  /\ Pool!fd_close_all(JoinPlan[mainStep].d)
  /\ mainStep' = mainStep + 1
  /\ UNCHANGED <<running, now, reqsQueued, readq, pushed, pc, count, wake, req,
                 rawStart, stop, hRaw, hRead, hDev, createStep, mainPc, reports, hung, stopCause>>

(* Histograms freed, return 0: the process exits.                          *)
MainReturn ==
  /\ mainPc = "join"
  /\ mainStep > Len(JoinPlan)
  /\ mainPc' = "done"
  /\ UNCHANGED <<running, now, reqsQueued, readq, pushed, pc, count, wake, req,
                 rawStart, stop, hRaw, hRead, hDev, createStep, reports, mainStep, hung, stopCause,
                 fdq, fdDev, held>>

(* Some thread is asleep in usleep(): main() between two reports, or a    *)
(* paced loop before its next operation.                                   *)
Asleep ==
  \/ mainPc = "loop" /\ now < reports * ReportInterval
  \/ \E t \in Paced : pc[t] = "head" /\ wake[t] > now

(* Time passes.  From run_stop_us on, main() leaves its loop once it wakes, *)
(* and time need only reach the wake time of a thread still asleep.  The   *)
(* few pthread_create calls of setup take microseconds, well within a      *)
(* tick: no tick ends during setup.                                        *)
Tick ==
  /\ Alive /\ mainPc # "setup"
  /\ \/ now < RunStop
     \/ /\ mainPc = "loop" => now < reports * ReportInterval
        /\ Asleep
  /\ now' = now + 1
  /\ UNCHANGED <<running, reqsQueued, readq, pushed, pc, count, wake, req, rawStart,
                 stop, hRaw, hRead, hDev, createStep, mainPc, reports, mainStep, hung, stopCause,
                 fdq, fdDev, held>>

(* A thread is inside malloc or free: the generator's step that allocates *)
(* and pushes a readreq, a worker's free(p_readreq), a large-block loop's  *)
(* cf_valloc.  The allocator holds its arena lock there.                   *)
InAllocator(t) ==
  /\ t \in Created
  /\ \/ t = Gen /\ pc[t] = "push"
     \/ t \in Workers /\ pc[t] = "free"
     \/ t \in LargeBlock /\ pc[t] = "alloc"

(* SIGTERM, at any time before the process ends, handled by some thread    *)
(* not already stuck in the handler: as_sig_handle_term prints a backtrace *)
(* and calls _exit(0) in whatever state every thread is -- no thread is    *)
(* joined, no pool drained.  Its backtrace_symbols() and free() are not    *)
(* async-signal-safe: when the signal interrupted that thread inside       *)
(* malloc or free, the handler waits for the arena lock the thread itself  *)
(* holds, and the thread never runs again.                                 *)
Sigterm ==
  /\ Alive
  /\ \/ /\ mainPc' = "killed"
        /\ UNCHANGED hung
     \/ /\ SignalInAllocator
        /\ \E t \in Threads \ hung : InAllocator(t) /\ hung' = hung \cup {t}
        /\ UNCHANGED mainPc
  /\ UNCHANGED <<running, now, reqsQueued, readq, pushed, pc, count, wake, req,
                 rawStart, stop, hRaw, hRead, hDev, createStep, reports, mainStep, stopCause,
                 fdq, fdDev, held>>

Ended == mainPc \in {"done", "killed", "segv", "setupfail"}

(* The process has exited, or it may sit still for good: a thread stuck in *)
(* the signal handler is never joined.                                     *)
Exited ==
  /\ Ended \/ hung # {}
  /\ UNCHANGED vars

Generator ==
  /\ Alive /\ Gen \in Created \ hung
  /\ GenHead \/ GenCheck \/ GenEnqueue \/ GenMallocFail \/ GenPushFail \/ GenOverload

Worker(w) ==
  /\ Alive /\ w \in Created \ hung
  /\ \/ WorkerHead(w) \/ WorkerPop(w) \/ WorkerTimeout(w) \/ WorkerGetFd(w)
     \/ WorkerReadOk(w) \/ WorkerReadFail(w) \/ WorkerRawHist(w)
     \/ WorkerReadHist(w) \/ WorkerDevHist(w) \/ WorkerFree(w)
     \/ WorkerDecr(w)

Large(l) ==
  /\ Alive /\ l \in Created \ hung
  /\ \/ LargeAllocOk(l) \/ LargeAllocFail(l) \/ LargeHead(l) \/ LargeGetFd(l)
     \/ LargeIoOk(l) \/ LargeIoFail(l) \/ LargePace(l) \/ LargeFallBehind(l)

Main == MainCreate \/ MainSetupFail \/ MainReport \/ MainLoopExit \/ MainJoin \/ MainCloseAll \/ MainReturn

Next ==
  \/ Generator
  \/ \E w \in Workers : Worker(w)
  \/ \E l \in LargeBlock : Large(l)
  \/ Main
  \/ Tick
  \/ Sigterm
  \/ Exited

-----------------------------------------------------------------------------
(* Requests allocated and not yet freed: in a queue or with a worker.      *)
Outstanding ==
  FoldFunction(LAMBDA q, acc : Len(q) + acc, 0, readq)
  + Cardinality({w \in Workers : req[w] # NoReq})

TypeOK ==
  /\ running \in BOOLEAN
  /\ now \in Nat
  /\ reqsQueued \in 0 .. MaxReadReqsQueued + 1
  /\ readq \in [Queues -> Seq(Req)] /\ pushed \in [Queues -> Nat]
  /\ pc \in [Threads -> {"alloc", "head", "enqueue", "push", "pop", "get", "io",
                         "rawhist", "readhist", "devhist", "free", "decr",
                         "pace", "done"}]
  /\ count \in [Paced -> Nat] /\ wake \in [Paced -> Int]
  /\ req \in [Workers -> Req \cup {NoReq}]
  /\ rawStart \in [Workers -> Nat] /\ stop \in [Workers -> Nat]
  /\ {hRaw, hRead} \subseteq Nat /\ hDev \in [Devices -> Nat]
  /\ mainPc \in {"setup", "setupfail", "loop", "join", "done", "killed", "segv"}
  /\ createStep \in 1 .. Len(CreatePlan) + 1 /\ hung \subseteq Threads
  /\ mainStep \in 1 .. Len(JoinPlan) + 1
  /\ stopCause \in {"none", "duration", "overload"}
  /\ reports \in Nat
  /\ Pool!PoolTypeOK

(* The overload check of run_add_readreqs bounds memory: at no time are    *)
(* more than MAX_READ_REQS_QUEUED readreqs allocated and not yet freed,    *)
(* although the generator increments before it checks and the workers     *)
(* decrement only after the read and the three histogram inserts.          *)
OutstandingBounded == Outstanding <= MaxReadReqsQueued

(* Threads between the two halves of a readreq's accounting: the          *)
(* generator after its increment (420) and before the push (438), and the  *)
(* workers after free(p_readreq) (559) and before the decrement (560).     *)
InWindow ==
  (IF pc[Gen] = "push" THEN 1 ELSE 0) + Cardinality({w \in Workers : pc[w] = "decr"})

(* Spec 3 and 7: g_read_reqs_queued, which main() prints in every report   *)
(* (353), counts the readreqs allocated and not yet freed, plus the        *)
(* threads inside an increment-to-push or free-to-decrement window -- by   *)
(* whichever threads and in whatever order they increment and decrement.   *)
(* It exceeds that by one at most, for the generator's final increment     *)
(* that found the run overloaded; the generator has then stopped and       *)
(* g_running is false.                                                     *)
CounterExact ==
  Alive =>
    LET extra == reqsQueued - Outstanding - InWindow
    IN  /\ extra \in {0, 1}
        /\ extra = 1 => ~running /\ pc[Gen] = "done"

(* Spec 8.6: the end-to-end sample a worker records (from the generator's  *)
(* start_time, taken before the push) is never smaller than the raw sample *)
(* (from raw_start_time, taken after the pop) for the same request.        *)
EndToEndCoversRaw ==
  \A w \in Workers :
    pc[w] \in {"rawhist", "readhist", "devhist"} =>
      safe_delta_ns(req[w].start, stop[w]) >= safe_delta_ns(rawStart[w], stop[w])

(* Spec 8.5: the global raw-read histogram and the per-device ones differ  *)
(* only by the workers between their inserts; the end-to-end histogram     *)
(* lies between them.  A reporter snapshot is skewed by at most that.      *)
HistogramsAgree ==
  LET devTotal == FoldFunction(+, 0, hDev)
      between == Cardinality({w \in Workers : pc[w] \in {"readhist", "devhist"}})
  IN  /\ devTotal <= hRead /\ hRead <= hRaw
      /\ hRaw - devTotal <= between

(* Drift-corrected pacing never runs ahead of the configured rate: a paced *)
(* thread issues its count-th operation no earlier than start + count /    *)
(* rate, whatever the I/O latencies and scheduling were before.            *)
PacingNeverAhead ==
  \A t \in Paced :
    pc[t] \in {"enqueue", "get"} => now >= Scheduled(t)

(* Spec 4.3 and 5, borrow semantics: the pools, as the threads of act use  *)
(* them, implement AbstractPool.  Every step of every thread -- fd_get's   *)
(* pop or open(), fd_put, the close() of an I/O error, main()'s            *)
(* fd_close_all -- is an abstract acquire, release, discard or close_all   *)
(* or leaves the pools alone: a descriptor is never lent to two threads,   *)
(* never both lent and pooled, never returned to another device's pool,   *)
(* and a device is opened again only when its pool is empty.              *)
PoolRefinement == AP!AbsSpec

(* Spec 5: on shutdown every descriptor is closed -- main() joins every    *)
(* thread that may still hold or return one before fd_close_all.           *)
NoFdLeakAtExit == mainPc = "done" => \A f \in Fds : fdDev[f] = NoDev

(* Spec 4.9: shutdown completes -- the 100 ms pop timeout and the paced    *)
(* loops' head checks let every thread see g_running = false, so main()    *)
(* joins them all and returns (unless a SIGTERM ends the process first).   *)
Termination == <>Ended

(* Spec S6 and 7 (Signal: "cooperative shutdown via running"): on SIGTERM  *)
(* the process joins every thread it has started before it exits.          *)
SigtermJoinsThreads ==
  mainPc = "killed" => \A t \in Created : pc[t] = "done"

(* Spec 8.4 and 5: after a graceful shutdown (the duration elapsed, no     *)
(* overload) reqs_queued is back to 0 and every readreq has been freed.    *)
ReqsQueuedZeroAtExit ==
  (mainPc = "done" /\ stopCause = "duration") => reqsQueued = 0 /\ Outstanding = 0

(* Spec 8, overload boundary: once g_running is cleared, every thread      *)
(* exits within one report interval plus the worker pop timeout.  Threads  *)
(* that run may be slow, but none may sit in usleep() longer than that     *)
(* after the stop: at any time g_running is false, every paced loop's      *)
(* remaining sleep, whether it began before or after the stop, is within   *)
(* the bound.                                                              *)
SleepsEndInTime ==
  ~running =>
    \A t \in Paced : pc[t] = "head" => wake[t] - now <= ReportInterval + PopTimeout

(* Every thread is an OS thread the scheduler keeps running, and the       *)
(* monotonic clock keeps advancing.                                        *)
Fairness ==
  /\ WF_vars(Generator)
  /\ \A w \in Workers : WF_vars(Worker(w))
  /\ \A l \in LargeBlock : WF_vars(Large(l))
  /\ WF_vars(Main)
  /\ WF_vars(Tick)

Spec == Init /\ [][Next]_vars /\ Fairness

====
