# TLA+ models of act (ACT storage benchmark)

This directory holds TLA+ models of `act`, the Aerospike Certification Tool's storage
test. Its C source is `src/config/act_storage_1.conf` (the program text of `act.c`)
and `src/clock.h`. The modules are checked with TLC. This README covers:

- what each module models;
- how the modules map to the code;
- what each run shows;
- what is not modelled yet.

## 1. The system

`act` drives direct reads and writes at configured rates against raw devices. It
reports latency histograms. Its components carry spec numbers C1–C11 and are defined
in `act_storage_1.conf` unless noted otherwise.

| Part | Code | Shared state it touches |
|---|---|---|
| C1 monotonic clock | `cf_getms/us/ns` (`clock.h`) | none (reads `CLOCK_MONOTONIC`) |
| C2 aligned buffers | `align_4096`, `cf_valloc` | none |
| C3 descriptor pool | `fd_get`, `fd_put`, `fd_close_all`, and the `close()` in the I/O error paths | the per-device `p_fd_queue`, plus process-wide fd numbers |
| C4 geometry probe | `discover_min_op_bytes`, `discover_num_blocks`, `random_read_offset`, `random_large_block_offset` | the device record, which is immutable after setup |
| C5 direct-I/O engine | `read_from_device`, `write_to_device` | the pool |
| C6 large-block loops | `run_large_block_reads/_writes` | `g_running`, pool, large-block histograms |
| C7 generator | `run_add_readreqs` | `g_running`, `g_read_reqs_queued`, read queues |
| C8 workers | `run_reads`, `read_and_report` | read queues, pool, three histograms, `g_read_reqs_queued`, `g_running` |
| C9/C10 reporter and supervisor | `main()`: report loop (sleep to the next report boundary, then test `g_running` and the run's end) and shutdown | `g_running`; it also joins every thread and closes every pool |
| C11 scheduler configurator | `set_schedulers` | sysfs files only |
| signal handlers | `as_sig_handle_term/_segv` | none: they print a backtrace and `_exit`, ending every thread wherever it is |

**How the threads interact.** `main()` sets everything up: it probes each device,
which leaves one pooled descriptor per device. It then sets `g_running` and creates the threads, each of which starts running while `main()` creates the next:

- two large-block threads per device, only when `write_reqs_per_sec != 0`;
- the workers of each read queue;
- the generator.

After that `main()` sleeps in its report loop. Every thread loops on `while (g_running)`:

- The generator increments `g_read_reqs_queued`, then checks it against `MAX_READ_REQS_QUEUED`. On overload it clears `g_running`. Otherwise it pushes a readreq on queue `count % num_queues` and sleeps until `count / read_reqs_per_sec`.
- A worker pops with a 100 ms timeout. It reads through the pool, inserts three histogram samples one at a time, frees the readreq and decrements the counter.
- A large-block loop does one I/O through the pool and paces itself against a staggered start. If it lags more than `MAX_SLEEP_LAG_USEC`, it clears `g_running`.

When the duration elapses, or `g_running` is cleared, `main()` shuts down in this order:

1. it clears `g_running`;
2. it joins the generator;
3. it joins every worker, queue by queue;
4. per device, it joins the two large-block threads and then calls `fd_close_all`.

**Hard behaviours.**

- Every thread runs in parallel with every other.
- The counter is incremented before the check.
- The histogram inserts are three separate steps.
- Descriptor numbers are recycled by `open()`: it returns the lowest free number.
- I/O can fail and `open()` can fail.
- Paced loops can lag.
- Shutdown depends on timeouts and on the order of the joins.
- The probe uses unsigned 64-bit arithmetic.

## 2. Modules

| Module | Models | Composes |
|---|---|---|
| `Clock` | C1: `cf_getms/us/ns` as conversions of a `CLOCK_MONOTONIC` timespec `ts`; `last[f]` is what the latest call of each helper returned | standalone |
| `AbstractPool` | the pool's promise (spec 4.3, 5) over sets: `pooled[d]`, `openOn[f]`, `lent[u]`; actions Acquire, Release, Discard, CloseAll | refined by `FdPool` inside `ActStorage` (`AP == INSTANCE AbstractPool WITH pooled <- [d |-> Range(fdq[d])], openOn <- fdDev, lent <- held`) |
| `FdPool` | C3: the pools `fdq[d]` (a FIFO `Seq`), `fdDev[f]` (the device a number is open on), `held[u]` (what each thread borrowed) | used by `ActStorage` through `Pool == INSTANCE FdPool WITH Devs <- Devices, Users <- Threads` |
| `ActStorage` | C1 (as the clock `now`), C5–C10: every thread as a program counter `pc[t]`, with `main()` as `mainPc`, `createStep` (setup) and `mainStep` (shutdown) | `FdPool` |
| `DeviceGeometry` | C4 the probe and the offsets drawn from it | standalone: device records are immutable after setup |
| `MC_ActStorage`, `MC_DeviceGeometry`, `MC_Clock` | instances for TLC | |

**ActStorage: how state and actions correspond to the code.** Every global and
every per-thread local that matters is a variable:

- `running` is `g_running`;
- `reqsQueued` is `g_read_reqs_queued`;
- `readq` holds the read queues;
- `count` and `wake` are the paced loops' `count` and the end of their `usleep`;
- `req`, `rawStart` and `stop` are a worker's `p_readreq`, `raw_start_time` and `stop_time`;
- `hRaw`, `hRead` and `hDev` count the samples in the raw, end-to-end and per-device histograms.

Each action is one atomic step of the code, named after it:

- Generator: `GenHead` is the loop head after the sleep. `GenCheck` is the increment of `g_read_reqs_queued` and its bound test (420). `GenEnqueue` is the rest of the iteration: `malloc`, `start_time`, the push, `count++` and the pacing sleep (427–448). `GenOverload` is the overload exit. Two failure paths of the same iteration are actions of their own, each enabled by a constant. `GenMallocFail` is `malloc` returning NULL: the next store faults and `as_sig_handle_segv` calls `_exit(-1)` (`mainPc = "segv"`). `GenPushFail` is a failed `cf_queue_push` whose result the code ignores: the readreq is lost, and the increment is kept.
- Worker: `WorkerHead`, `WorkerPop`, `WorkerTimeout`, `WorkerGetFd`, `WorkerReadOk`, `WorkerReadFail`, `WorkerRawHist`, `WorkerReadHist`, `WorkerDevHist`, `WorkerFree` (`free`, 559), `WorkerDecr` (the decrement, 560).
- Large-block loop: `LargeAllocOk`, `LargeAllocFail`, `LargeHead`, `LargeGetFd`, `LargeIoOk`, `LargeIoFail`, `LargePace`, `LargeFallBehind`.
- Setup: `Init` is `main()` just after `g_running = true`, with no thread started yet (`mainPc = "setup"`). Each `MainCreate` is the next step of `CreatePlan`, the sequence built from `main()`'s creation loops: with writes on, every device's write thread and then every device's read thread; then, per queue, `cf_queue_create` with the `malloc` of its thread array, followed by its workers; the generator last. A thread takes steps only once it is in `Created`, so the threads already started run interleaved with the rest of setup. `MainSetupFail` is any of these calls failing: `exit(-1)` (`mainPc = "setupfail"`) with the started threads wherever they are. The step that creates the generator also enters the report loop.
- Main: `MainReport` is one pass of the report loop: the test passes, `count++` (`reports`), and `main()` sleeps until `reports * ReportInterval`. The report printed after the sleep only reads state. `MainLoopExit` is the test failing after a sleep, followed by `g_running = false`. So `main()` notices a cleared `g_running` only at a report boundary. Then come `MainJoin`, `MainCloseAll` and `MainReturn`. The join order is the sequence `JoinPlan`, built from `main()`'s loops.
- Signal: `Sigterm` is `as_sig_handle_term`: at any moment while the process is alive (`Alive`), `_exit(0)` ends it (`mainPc = "killed"`). Every thread action and `Tick` is conjoined with `Alive`, so nothing moves after the exit. When `SignalInAllocator` is TRUE, the signal may instead land in a thread that is inside `malloc` or `free` (`InAllocator`). The handler's `backtrace_symbols`/`free` then wait on the arena lock that thread already holds, and the thread joins the set `hung`: it never runs again, and `main()`'s `pthread_join` of it never returns.
- Clock: `Tick` advances `now` by one tick.

The variables `stopCause` and `pushed` are history variables. `stopCause` records
who first cleared `g_running`, so that a "graceful" shutdown can be told apart from
an overload. `pushed[q]` counts the readreqs ever pushed on queue q.

**Abstractions.**

- Offsets, buffers and data are left out, because `DeviceGeometry` covers them.
- A histogram is its sample count.
- Time is in ticks after `g_run_start_us`, and `usleep` is waiting until `now >= wake`. A large-block loop's sleep is taken modulo `UsleepWrap` (`usleep_wake`), which is 2^32 µs in ticks. The generator's sleeps never exceed one second, so the cast cannot bite there.
- The report loop's printing only reads state, so only its test, count and sleep are modelled.
- Once the loop has exited, `Tick` only advances to wake a sleeper. This keeps the clock finite.
- No tick ends during setup. The handful of `pthread_create` calls take microseconds, far less than one 500 µs tick. The threads started early still interleave with every later setup step.

**DeviceGeometry.** `Init` picks the inputs the probe depends on:

- the device size (`BLKGETSIZE64`);
- its logical block size (a direct read of n bytes works iff n is a multiple of it);
- `record_bytes`.

`Probe` runs `discover_num_blocks`, which includes the RECURSIVE loop of
`discover_min_op_bytes`. It computes in `uint64_t`: `U64Sub` wraps modulo `Word`.

## 3. Runs

| Run | Cfg | Expect | Checks |
|---|---|---|---|
| reads | `MC_ActStorage_reads.cfg` | pass (≈967k states, 130 s) | `TypeOK`, `OutstandingBounded`, `EndToEndCoversRaw`, `HistogramsAgree`, `CounterExact`, `Termination` |
| large | `MC_ActStorage_large.cfg` | pass (≈1.43M states, 115 s) | `PacingNeverAhead`, `PoolRefinement`, `NoFdLeakAtExit` |
| drain | `MC_ActStorage_drain.cfg` | violation | `ReqsQueuedZeroAtExit` |
| geometry | `MC_DeviceGeometry.cfg` | pass (200 states) | `OffsetsWithinDevice`, `ProbeMatchesReference` |
| geometry_bigrecord | `MC_DeviceGeometry_bigrecord.cfg` | violation | `OffsetsWithinDevice` |
| geometry_len4096 | `MC_DeviceGeometry_len4096.cfg` | violation | `ReadLengthAligned4096` |
| sigterm | `MC_ActStorage_sigterm.cfg` | violation | `SigtermJoinsThreads` |
| push_fail | `MC_ActStorage_push_fail.cfg` | violation | `CounterExact` |
| sigterm_hang | `MC_ActStorage_sigterm_hang.cfg` | violation | `Termination` |
| usleep_wrap | `MC_ActStorage_usleep_wrap.cfg` | violation | `PacingNeverAhead` |
| shutdown_sleep | `MC_ActStorage_shutdown_sleep.cfg` | violation | `SleepsEndInTime` |
| clock | `MC_Clock.cfg` | pass (3.5k states) | `ReadingsOrdered` |

**What the passing runs show.**

- `OutstandingBounded`: at most `MAX_READ_REQS_QUEUED` readreqs are ever allocated and not yet freed. This holds even though the counter is incremented before it is checked and decremented only after the reads.
- `EndToEndCoversRaw`: every end-to-end sample is at least the raw sample of the same request (spec 8.6).
- `HistogramsAgree`: the per-device total is at most the end-to-end count, which is at most the raw count. The raw count exceeds the per-device total only by the workers between their inserts (spec 8.5).
- `Termination`: the process always ends, by `main()` returning or by SIGTERM (spec 4.9).
- `PacingNeverAhead`: no paced loop issues an operation before its scheduled time.
- `PoolRefinement`: the pools, as all threads and `main()` use them, implement `AbstractPool`. Every step is an abstract acquire, release, discard or close-all, or leaves the pools alone. So a descriptor is never lent to two threads, never both lent and pooled, and a device is reopened only when its pool is empty (spec 4.3, 5). The refinement also forbids returning a descriptor to another device's pool, but `large` has a single device, so that case is not exercised.
- `ReadingsOrdered` (clock): no call of `cf_getms`, `cf_getus` or `cf_getns` returns less than an earlier call of any of them, converted to its unit. This is what makes `safe_delta_ns`'s clamp dead code and the pacing's elapsed time non-negative.
- `NoFdLeakAtExit`: at exit every descriptor is closed.
- `CounterExact`: while the process runs, `g_read_reqs_queued` (the value `main()` prints at 353, and the one the generator tests) equals the readreqs allocated and not yet freed (queued, or held by a worker) plus the threads inside an accounting window: the generator between its increment (420) and its push (438), and each worker between `free` (559) and its decrement (560). So while `g_running` is true the counter may run ahead of the live readreqs, by exactly those threads. The only other excess is the generator's final increment on overload, which is never undone: one more, and then the generator has stopped and `g_running` is false. In `reads`, the two queues' workers complete requests in either order, interleaved with the generator's next increment.

**Findings** (also in `PROJECT.json`):

1. **drain.** The first violation needs only one request pushed before the duration ends. Workers exit at their loop head while requests are still queued. `main()` then destroys the queue without freeing them, so `g_read_reqs_queued` ≠ 0. This contradicts spec 8.4 and S1.
2. **geometry_bigrecord.** A record larger than the device's large-block area passes setup, with `num_read_offsets` equal to 0 or wrapped. The spec requires *DeviceTooSmall*, and the code has no such check (line 654).
3. **geometry_len4096.** Transaction read lengths are multiples of `min_op_bytes`, for example 1536 bytes, not multiples of 4096 as spec 8.3 states. Spec 4.5 asks only for `min_op_bytes` alignment.
4. **sigterm.** `as_sig_handle_term` calls `_exit(0)` right away. The threads started so far are killed mid-operation, nothing is joined, and no final report is printed. Spec S6 and section 7 describe a cooperative shutdown through `running`.

5. **push_fail** (code bug, `act_storage_1.conf:438`). The result of `cf_queue_push` is ignored. When the push fails, the readreq leaks and `g_read_reqs_queued` keeps counting it while the run goes on. The counter then overstates the load, which can stop the run with a false overload, and it can never return to 0. `CounterExact` is violated as soon as the generator's first iteration (loop head, increment, failed push) is over.
6. **sigterm_hang** (code bug, `act_storage_1.conf:906`). The SIGTERM handler calls `backtrace_symbols`, `free` and `fprintf`. None of them is async-signal-safe. The shortest counter-example:
   1. The generator is inside the step that allocates a readreq.
   2. SIGTERM is delivered to it, and the handler blocks on the generator's own arena lock.
   3. The duration elapses, and both workers exit.
   4. `main()` waits forever in `pthread_join` of the generator.

   Spec S6 expects an exit within about 200 ms.
7. **usleep_wrap** (`act_storage_1.conf:526`). The large-block loops sleep with `usleep((uint32_t)sleep_us)`, so a sleep longer than 2^32 µs (about 71.6 min) is cut modulo 2^32 µs. That happens when `large_block_ops_per_sec < num_devices / 4295`. Nothing in this file excludes that rate, which is derived from `write-reqs-per-sec`. The loop then wakes early, and `PacingNeverAhead` fails at its second operation.
8. **shutdown_sleep** (`act_storage_1.conf:483`). After an overload, each large-block loop finishes its operation in progress. It then sleeps until its next target time, and only after that tests `g_running`. Spec 8 says every thread exits within one report interval plus the 100 ms pop timeout. A loop whose interval is longer than that, 1.2 s in the cfg, overruns it; this needs `large_block_ops_per_sec < num_devices / 1.1`, for example many devices. `SleepsEndInTime` states the bound on the sleeps themselves, so a slow thread or a slow I/O cannot be what breaks it.

Every property of a passing run has a mutant in `PROJECT.json`: a plausible bug
of the code, written as an operator next to the definition it replaces, which
TLC finds violating that property. Examples:

- the overload test reading the old counter;
- `fd_get` not removing the head of the pool;
- `fd_close_all` run before the joins;
- pacing computed before `count++`;
- the probe stopping before 4096.

## 4. Bounds, and why they are enough

- **reads.** Two devices and two queues, so that the generator's round-robin spreads requests over both queues and the per-device histograms are both exercised. The two queues' workers also complete requests in either order against the generator's increments, which is what `CounterExact` needs. `MaxReadReqsQueued = 2`, so the overload path is reached with requests still in flight. A run of 2 ticks with a request per tick, so the generator fills the bound.
- **Report interval.** The passing cfgs set `ReportInterval = RunStop`: one report per run, and the loop test runs at 0 and at the end. A shorter interval only adds more report boundaries at which `main()` may notice the stop. It triples the state space without any new interleaving of the threads. `PopTimeout` is 0 there, because only `SleepsEndInTime` reads it.
- **shutdown_sleep.** Here a tick stands for 100 ms: the report interval is 10 ticks, the pop timeout 1, the large-block interval 12, and `MAX_SLEEP_LAG_USEC` 100. `MaxReadReqsQueued = 0`, so the first request overloads.
- **usleep_wrap.** Here a tick stands for 2^31 µs. The cast therefore wraps at 2 ticks, and an interval of 3 ticks is above 2^32 µs. `STAGGER`, `RW_STAGGER` and `MAX_SLEEP_LAG_USEC` (10 s) are all below one tick, so they are 0. Every other cfg sets `UsleepWrap = 1000`, far above any sleep the run reaches. At 500 µs per tick the true value would be about 8.6 million ticks.
- **push_fail, sigterm_hang.** One device, one queue with two workers, two ticks and a bound of 2. The fault is switched on by `PushCanFail` or `SignalInAllocator`.
- **Faults in passing runs.** `reads` and `large` have `SetupCanFail` TRUE: setup may stop at any of its steps. `reads` has `MallocCanFail` TRUE, which `Termination` still allows for. `large` has `PushCanFail` and `SignalInAllocator` TRUE; its properties are safety properties and do not depend on the counter. So every fault action fires in a passing run.
- **large.** One device whose pool is shared by a worker and both large-block loops, with only two descriptor numbers. This means `open()` reuses a number closed by another thread's error path, and the pool runs empty. A large-block interval of 3 ticks, the write loop's `RW_STAGGER` of 1 tick and `MaxSleepLag = 1` make both sleeping and falling behind reachable within the 2-tick run. With one device, `STAGGER` multiplies device index 0 and plays no part.
- **geometry.** The cfg covers:
  - device sizes 0, a half block, exactly one large block, one block plus a partial block, and three blocks;
  - logical block sizes 512, 1024, 4096 and 8192, where 8192 is unreadable;
  - record sizes from 1 byte to a whole large block.

  `Word = 2^30` and `Rand48Count = 2^18` are far above every size used, so wrap-around shows as a value above the device size, just as 2^64 would.

- **clock.** `tv_sec` ∈ {0, 1} (TLC integers are 32-bit, so `tv_sec * 10^9` must stay below 2^31), and `tv_nsec` ∈ {0, 999, 1000, 999999, 1000000, 999999999}: each unit boundary just missed and just reached, and the last nanosecond before a second boundary. `Advance` jumps to any later timespec, so every pair of reading instants is covered.

One tick stands for 500 µs (`RW_STAGGER`). Integer ticks keep the drift
arithmetic exact.

## 5. Fairness

Every thread is an OS thread, and no thread holds a lock across a wait, so each
thread gets weak fairness. `main()` also gets weak fairness. The monotonic clock
advances, which is `WF(Tick)`. No strong fairness is assumed. `Sigterm` has no fairness: a signal may or may not come. A thread in `hung` takes no step again: its actions are disabled, so fairness does not apply to it. This is why `sigterm_hang` can show `main()` waiting forever even though `main()` is weakly fair.

## 6. Not modelled

- **Signal-safety, other threads.** A signal landing in `main()` while it frees histograms or destroys queues would hang it the same way. That case is not modelled, since it adds no behaviour beyond `sigterm_hang`. Arena sharing between threads is not modelled either: a handler in another thread always ends the process.
- **Abstract request lifecycle.** There is no separate abstract spec of readreqs (allocated, queued, in service, freed). Its invariants are what `CounterExact` and `OutstandingBounded` state directly over the queues and the workers. Both passing runs enable a fault (`MallocCanFail`, `PushCanFail`) that such a spec would have to describe as an exception anyway. The descriptor pool, whose promise is an abstract spec of its own, is checked by refinement (`PoolRefinement`).
- **Setup before `g_running = true`.** `configure()`, `set_schedulers`, `rand_seed` and `histogram_create` run before any thread exists. Their failures only `exit(-1)`, and nothing interleaves with them. `discover_num_blocks` is `DeviceGeometry`'s `Probe`.
- **Other boundaries.**
  - The `write_reqs_per_sec == 0` boundary, meaning no large-block histograms.
  - `set_schedulers`, which writes only to sysfs.
  - `configure()`, the histogram library, `cf_queue` and the random generator, which are not in this repository. `cf_queue` is taken to be a thread-safe FIFO and the atomics to be atomic.
  - `align_4096`. It rounds the worker's stack buffer up by at most 4095 bytes inside a buffer of `read_bytes + 4096`, so no property of the model could tell a correct mask from most wrong ones.
  - The generator's round-robin `count % num_queues` is kept in `GenEnqueue`, but no property restates it.
  - The worker's stack VLA and `read_reqs_per_sec == 0`. They are listed as hazards, each with the reason no property covers it.
  - The `uint64_t` wrap of the clock conversions, which needs 584 years of uptime.
