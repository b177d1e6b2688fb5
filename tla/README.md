# Verification of fake-service's load generator and request path

TLA+ models of the parts of fake-service (`src/`) that coordinate
concurrent work: the synthetic load generator's start/stop protocol, its
memory-variance arithmetic and, in later steps, the gRPC request handler with
its worker-pool fan-out and duration budget, the worker pool itself
against its contract, and the earlier generator revision in
`src/load/node_generator.go`. TLC checks the models on small instances;
TLAPS proves the type invariants, the stop protocol's no-blocking
guarantee, the handler's success latency and the pool's refinement of its
contract for every value of the constants.

## 1. Inventory

### Components

| Component | Source | State | Operations |
|---|---|---|---|
| Load generator (`NodeGenerator`) | `src/unnamed/part_000` (current), `src/load/node_generator.go` (earlier revision) | shared `running` flag, `finished` channel (capacity 2), phase state `currentBytes`, `currentTick`, `ticksPerPeriod`, `maxVarianceBytes` | `NewNodeGenerator`, `Generate` (returns the `Finished` closure), the memory-loop goroutine, the CPU supervisor goroutine, N duty-cycle worker goroutines |
| Variance models | `src/unnamed/part_000` | none (read phase state) | `varianceLinear`, `varianceRandom`, `varianceSineWave`, zero; chosen by `getVarianceFuncByName`; `tick`, `linearX`, `x` |
| Process memory generator | `src/load/process_memory_generator.go` | `running`, `finished` | does not compile (undefined `g`, malformed literal) |
| gRPC handler (`FakeServer.Handle`) | `src/handlers/request_grpc.go` | per request: start time, response tree, upstream error | Generate + deferred Finished; error injection short-circuit; worker-pool fan-out over `upstreamURIs`; remaining-duration sleep; response |
| Worker pool | not in `src/` (package `worker`) | task queue, result slots | `New(count, op)`, `Do(tasks)`, `Responses()` |
| Response tree | `src/handlers/ready_http_test.go` lines 67-113 (package `response`) | `UpstreamCalls` list | `AppendUpstream`, `ToJSON` |
| Error injector, duration distribution, logging, tracing | not in `src/` | | external collaborators |

### How they interact

One `FakeServer` holds one generator, and the gRPC server runs `Handle`
for each request in its own goroutine. Each call therefore runs `Generate` on
the same generator: it overwrites the shared `g.finished` with a fresh
2-slot channel, sets the shared `g.running`, and starts a memory loop and, if
`cpuCoresCount != 0`, a CPU supervisor that starts `int(cpuCoresCount)`
busy/sleep workers. The deferred `Finished` closure sends two signals, each
on the channel `g.finished` holds when that send evaluates it (and blocked
there until it has room), and then clears `g.running`. A loop
that sees `g.running` false reads `g.finished` and receives one signal. The
CPU supervisor reads `g.finished` as soon as it has started its workers. The
memory loop owns the phase state: each iteration computes
`newMemLen = currentBytes + delta(g)`, allocates it, stores it and advances
the tick modulo `ticksPerPeriod`.

### What makes it hard

* Interleavings of several handlers' `Generate`/`Finished` with the loops
  of earlier requests, all on the same two racy fields.
* Goroutines that read a shared field late (stale channel, stale flag).
* Blocking: a send into a full channel, or a receive that never gets a
  signal, is invisible to a single-request unit test.
* Numeric edges: accumulated deltas going negative (`make` panics), a
  zero `ticksPerPeriod` (`%` by zero panics), the `ticksPerPeriod - 1`
  denominator of the linear ramp.
* In the handler: partial failure of upstream calls, early returns that
  must still stop the generator, and a negative remaining duration.

### What makes each component correct

* Stop protocol: the `Finished` closure never blocks (the comment at
  part_000:73); after every request has called it, every loop and worker
  exits (spec 8).
* Phase arithmetic: no iteration panics; the allocation is
  `baseline + delta(tick)` (spec 4.1); the tick stays in
  `[0, ticksPerPeriod)`.
* Worker pool: every task run exactly once, results in task order,
  aggregate error iff some task failed (spec 4.3).
* Handler: a successful request takes `max(D, E)`, the sleep being
  `max(0, D - E)` (spec 4.4); an upstream response is never dereferenced
  when nil; the duration budget is honoured on every path.

## 2. Modules

| Module | Models |
|---|---|
| `MemoryPhase` | `NewNodeGenerator`'s derived values, the variance models, `getVarianceFuncByName`, `linearX`, `tick`, the panics of `make` and `%` |
| `Generator` | the generator shared by a set of requests: Generate, the closure's sends and clear, memory loop, CPU supervisor, workers |
| `GeneratorV1` | the earlier revision `src/load/node_generator.go`: the same stop protocol (taken from `Generator`), its own variance functions and memory loop |
| `MCGenerator`, `MCGeneratorV1` | TLC instances (`2^20` bytes per MiB, or 1024 for the random model; random draws) |
| `GeneratorProofs` | TLAPS proofs about `Generator` |
| `GeneratorV1Proofs` | TLAPS proofs about `GeneratorV1`: the random model's bound and the absence of panics |
| `WorkerPoolAbstract` | what the pool promises: each task's result recorded once, Do returns with all of them in task order, a bad count runs nothing |
| `WorkerPool` | the pool (spec-modelled, its code is outside `src/`): workers pulling indices from a shared queue, a results channel in completion order, result slots, aggregate error; refines `WorkerPoolAbstract` |
| `MCWorkerPool` | TLC instance (three tasks, worker counts 0, 2, 4) |
| `WorkerPoolProofs` | TLAPS proofs that `WorkerPool` implements `WorkerPoolAbstract` |
| `Handler` | `FakeServer.Handle` for one request: Generate and the deferred closure (counted), error injection, fan-out by the pool's contract, response list, duration budget |
| `MCHandler` | TLC instance (two or three upstream URIs) |
| `HandlerProofs` | TLAPS proofs about `Handler` |

### Correspondence with the code (Generator)

| Code | Model |
|---|---|
| `g.running`, `g.finished` | `running`, `finished` (a channel is named by the request whose `Generate` made it; `NilChan` before the first) |
| channel buffers | `buf[c]`, capacity `FinishedCap = 2` |
| handler position | `hpc[r]`: idle, made, send1, wait1, send2, wait2, clear, done |
| the channel a send evaluated | `sendOn[r]` (while `hpc[r]` is wait1 or wait2) |
| memory loop / CPU supervisor | `lpc[<<r, "mem">>]`, `lpc[<<r, "cpu">>]`; `waitOn` is the channel each read from `g.finished` |
| duty-cycle workers | `workers[r]`, a count: workers are identical and touch no shared state but `running` |
| `newMemLen`, `state.currentBytes`, `state.currentTick` | `newLen[r]`, `currentBytes`, `currentTick` |
| a panic in any goroutine | `panicked`: the process is gone and nothing more happens |

Actions: `GenMakeChan` (line 74), `GenStart` (75-81), `SendEval` and
`Send` (84, 85: Go evaluates the channel operand once, so a send blocked
on a full channel stays on it even when a later `Generate` replaces
`g.finished`),
`ClearRunning` (86), `MemCompute` (140-143), `MemCommit` (145-154: `make`,
store, `tick`, sleep), `MemExit` (loop condition false), `MemPick`
(`<-g.finished` reads the field), `CpuStart` (91-130 and the read at 131),
`Recv` (the receive of 131 / 157), `WorkerExit` (116). A worker iteration
and the sleeps change no shared state and are stutters. `ServerIdle` lets
the server live on once all handlers returned, so a leaked goroutine is a
liveness failure, not a deadlock; a handler stuck in a send is still a
deadlock.

The memory loop's iteration is split into compute (reads `currentBytes`)
and commit (writes it), because two overlapping loops can interleave there.

Abstractions: reads of the racy `running` and `finished` fields see the
last write (sequential consistency); float arithmetic is exact rational
arithmetic with `int()` as truncation toward zero (rounding of the last
bit is not modelled); `math.Sin` is exact at quarter points and only
sign-and-bound elsewhere; `rand.Float64()` ranges over `RandomDraws`
hundredths; time is not modelled (sleeps are points where other goroutines
may run); the iteration count is bounded by `MaxIterations`; `Cores` is
`int(cpuCoresCount)`.

### Correspondence with the code (Handler)

| Code | Model |
|---|---|
| `ts`, `time.Now()` | `ts`, `now` (an integer clock) |
| `defer finished()` | `stops`, the calls of the closure (its effect is `Generator`'s) |
| `wp.Responses()`, `err := wp.Do(...)` | `results` (one outcome per URI, in task order), `upstreamError` |
| `resp.UpstreamCalls` | `upstreamCalls`, the URIs appended so far |
| `d`, `et`, `rd` | `d`, `et`, and `d - et` inside `Budget` |
| the returned status | `code`: injected, internal, ok, or panic |

Actions: `Start` (67-70), `InjectError` / `NoInjectedError` (81-94),
`FanOut` (96-116: the pool, the loop of `AppendUpstream`, and its
dereference of a nil response at 114, which panics after appending the
earlier results), `FanOutRejected` (107-110: `worker.New` rejects an
`f.workerCount` below 1, `Do` fails without running a task, and the
handler takes the upstream-error path with an empty response list;
`NewFakeServer` never checks the count, so `WorkerCounts` ranges over
a bad value too), `Budget` (118-142: the upstream-error return, or the
sleep when `rd > 0`), `Return` (the deferred closure, which Go runs on
every return and while a panic unwinds), `Returned` (stutter after the
return). The time set-up and fan-out take is one choice from
`FanOutTimes`; with no URIs the only result list is the empty one, so
`FanOut` leaves the error nil and the response without upstream calls.
The pool's workers (modelled in `WorkerPool`), tracing and JSON text are
left out. `Handle` calls `Generate` through `f.generator`, a
`*load.Generator` whose definition (`generator.go`) is not in `src/`; the
model takes it to be the `NodeGenerator` of `part_000`, the only generator
type in `src/` with that method set, so the stop protocol and the calls
it makes are `Generator`'s. This is an inference from the names, not
something the sources show.

### Correspondence with the code (GeneratorV1)

`node_generator.go` keeps the current revision's stop protocol line for
line, so `GeneratorV1` reuses `Generator`'s `GenMakeChan`, `GenStart`,
`SendEval`, `Send`, `ClearRunning`, `CpuStart`, `MemExit`, `MemPick` and `Recv`
(grouped as `GenerateV1`, `FinishedV1`, `GenerateCPUV1`) and replaces the
memory loop: `MemComputeV1` (117-123) calls the variance function, which
returns the new size itself (`RandomValueV1`: `int(B + B * v * rPct /
100)` from the baseline, `rPct = 2k/100 - 1` for a draw `k/100`;
`SineTickV1`: the sine model advances `g.currentTick` and panics on a zero
`ticksPerPeriod`, `SinePanicsV1`; linear and zero return the current size);
`MemCommitV1` (124-132) is `make` (a panic on a negative size) and the
store into `g.currentMemory` (`currentBytes`).

### Correspondence with the spec (WorkerPool)

The pool's package is not in `src/`; `WorkerPool` follows spec 4.3 and
is marked spec-modelled in the map. `wc` is the count given to
`worker.New`; `ppc` is `Do`'s position (start, wait, returned,
configError); `next` is the next index the task queue hands out;
`wpc[w]`/`cur[w]` are worker w's position and task; `chan` is the results
channel as a sequence of `<<index, outcome>>` pairs in completion order;
`slots` are the result slots; `results`/`aggErr` are `Responses()` and
the error `Do` returns. Actions: `RejectConfig` (count below 1),
`StartWorkers` (`min(count, len(tasks))` goroutines), `Take`, `Run`
(the operation returns and the pair is sent), `Exit` (queue drained),
`Collect` (Do places a pair in the slot of its index), `Return` (all
workers exited, channel drained). `ServerRuns` lets the process live on,
so a `Do` that never returns is a liveness failure.

The contract `WorkerPoolAbstract` has only the slots, the status, the
results and the error: `Complete(i, o)` fills an empty slot, `ReturnAll`
returns once every slot is full, `RejectConfig` fails a bad count. The
refinement mapping counts a task complete once its pair is sent:
`AbsSlots[i]` is the outcome of i's pair in `chan` if there is one, else
`slots[i]`; `AbsStatus` is "running" while Do is starting or waiting. So
`Run` is a `Complete` step, `Return` is `ReturnAll`, and `Take`, `Exit`,
`StartWorkers` and `Collect` are stutters.

## 3. Runs

| Run | Config | Expect | Shows |
|---|---|---|---|
| `gen_single` | 1 request, 2 cores, variance off, 3 iterations | pass | `TypeOK`, `StopNeverBlocks`, `GeneratorQuiesces`: used by one request the protocol is right |
| `gen_serial_leak` | 2 sequential requests, 1 core | violation of `GeneratorQuiesces` | the CPU supervisor of request 1 reads request 2's channel; one goroutine blocks forever |
| `gen_concurrent_block` | 2 concurrent requests, 0 cores | violation of `StopNeverBlocks` | the first closure fills the second channel; the second closure blocks |
| `gen_overlap_drift` | 2 sequential requests, 0 cores, linear 50%, 4 ticks | violation of `NoRuntimePanic` | a memory loop revived by the second `Generate` runs beside the second request's loop; both add their deltas to `currentBytes`, which goes negative |
| `phase_linear` | 1 request, linear 50%, period 4 s (8 ticks), 4 iterations | violation of `NoRuntimePanic` | one request alone panics: the accumulated size goes 1048576, 524288, 149797, then the third iteration computes -74897 and `make` panics |
| `phase_zero_period` | period 0 | violation of `NoRuntimePanic` | `tick()` computes `% 0` |
| `phase_stateless` | linear 50%, 4 ticks | violation of `StatelessAllocation` | the code accumulates deltas, against spec 4.1 |
| `v1_random` | earlier revision, 1 request, 1 core, random 100%, 3 iterations | pass | `RandomAllocationWithinVariance`, `NoRuntimePanic`: each random size is taken from the baseline and stays within the variance (up to the byte `int()` truncates, see below), and is never negative |
| `pool` | 3 tasks, worker counts 0, 2, 4, outcomes ok/err | pass | `ImplementsContract` (the pool refines its contract: each task run once, results by index in task order, aggregate error, bad count rejected) and `DoReturns` |
| `handler` | 3 URIs, outcomes ok/err, worker counts 0 and 2, durations and fan-out times 0..3, injection on | pass | `SuccessLatencyIsMaxBudget`: a request that returns ok took exactly `max(D, E)`, through every failure pattern, the rejected pool and the injected error |
| `handler_nil_response` | as `handler`, plus a nil-response outcome | violation of `NoHandlerPanic` | `*v.Response` panics on a failed task with a nil response |
| `handler_budget` | as `handler` | violation of `BudgetHonoured` | the upstream-error return skips the sleep, so the request is shorter than D |

Bounds. One request with two cores exercises every goroutine kind and
both sends in every order; the leak needs two sequential requests with a
CPU supervisor, and the overlap two sequential requests with a memory
loop that slept through the first clear of `running`. The linear ramp
panics for one request at 50% over 8 ticks within three iterations, so
`phase_linear` needs four. `MCBytesPerMiB` is the code's `2^20`; the random model
multiplies sizes by 10000 before dividing and uses 1024 bytes per MiB so
TLC's 32-bit integers do not overflow; draws 0, 0.5 and 0.99 give the
lowest, the middle and the highest size. Three tasks with two and four
workers give a pool with fewer workers than tasks (a worker runs two
tasks, results arrive out of order) and with more (idle workers that exit
at once); count 0 is the configuration error.

Fairness. `FairSpec` puts weak fairness on each handler, each memory
loop, each CPU supervisor and the workers of each request. Go's runtime
eventually runs a runnable goroutine, and every loop calls into the runtime
(`time.Now`, `time.Sleep`) each iteration, so even under go 1.12's
cooperative scheduling none of them can be starved forever; a handler's
work between `Generate` and the closure is finite. `WorkerPool`'s `FairSpec` puts weak fairness
on each worker and on `Do`: the operation returns (each upstream call has
its own deadline), and a receive on a channel with a pending pair, once
enabled, stays enabled until Do takes it.

Mutants (each must break its property under the run's cfg):
`CpuStartOffByOne` (`i <= n` worker loop) breaks `TypeOK`;
`FinishedCapOne` (a 1-slot channel) breaks `StopNeverBlocks`; `SendOnce`
(one signal, as `ProcessMemoryGenerator` does) breaks `GeneratorQuiesces`;
`RandomValueAccumulating` (random delta added to the current size) breaks
`RandomAllocationWithinVariance`; `RandomValueNoPercent` (the variance not
divided by 100) breaks `NoRuntimePanic` in `v1_random`;
`CollectInArrivalOrder` (results placed in arrival order) breaks
`ImplementsContract`; `TakeOffByOne` (the queue stops before the last
task) breaks `DoReturns`; `BudgetSleepD` (sleeping `d` instead of `rd`)
breaks `SuccessLatencyIsMaxBudget`.

Handler bounds: durations and fan-out times from 0 to 3 give the budget
with `d > et`, `d = et` and `d < et`; three URIs with two outcomes give
every pattern of failures, including a failure that is not the last task;
worker count 0 reaches `FanOutRejected`.

## 4. Findings

1. Sequential requests leak a goroutine (part_000:131): the CPU supervisor
   reads `g.finished` late and may wait on the next request's channel.
2. Concurrent requests block the `Finished` closure
   (request_grpc.go:69): `Handle` shares one generator across requests,
   against the spec's one-generation-at-a-time rule.
3. Sequential requests corrupt the phase state (part_000:151): a memory
   loop revived by the next `Generate` overlaps that request's loop; each
   reads `currentBytes`, adds its delta and writes it back, so the deltas
   no longer cancel and `make` panics on a negative size.
4. Variance period 0 panics in `tick()` (part_000:285); the spec asks for a
   minimum of 2 ticks per period.
5. The allocation accumulates deltas (part_000:143) where the spec requires
   `baseline + delta`.
6. A failed upstream task with a nil response crashes `Handle`
   (request_grpc.go:114): the spec's worker result allows a nil response,
   and the handler dereferences it.
7. On an upstream error `Handle` returns at once (request_grpc.go:123),
   without sleeping out the budget that spec 2 and 4.4 describe.
8. The linear variance model panics with a single request
   (part_000:145, `phase_linear`): the current revision adds each tick's
   delta onto the previous size, the deltas of a ramp do not cancel, and
   at 50% over an 8-tick period the size goes negative on the third
   iteration.

The earlier revision's `varianceRandom` (node_generator.go:154) stores
`int(B + delta)`, truncated toward zero. The spec says delta lies strictly
within `[-max, +max)`. With a draw near `rPct = -1` and a baseline whose
`max` is not a whole number of bytes, the stored size is up to one byte
below `B - max`. TLC reaches 1013 for `B = 1024`, variance 1% and draw 0,
where `B - max = 1013.76`. `RandomAllocationWithinVariance` therefore
states the bound as `-max - 1 < size - B < max`. The divergence is below
one byte, so it is recorded here and as a hazard, not as a violation run.

One hazard stays listed without a run of its own: the earlier
revision's sine model with period 0 divides by zero
(node_generator.go:176), a `NoRuntimePanic` violation of the same kind as
finding 4. A `workerCount` below 1 (request_grpc.go:55) is modelled
(`FanOutRejected`) but has no run of its own: the request returns
Internal with an empty response, which the spec does not rule out.

## 5. Proofs

`GeneratorProofs` (checked by `tlapm`):

* `TypeCorrect`: `Spec => []TypeOK` for all constants satisfying
  `PhaseAssumption` and `GeneratorAssumption`. It rests on
  `TicksPerPeriodValue` (`ticksPerPeriod = 2 * period`, so the linear
  denominator `ticksPerPeriod - 1` is never 0), `TruncDivInt` and
  `DeltasInt` (every variance model yields an integer). `tick()` is typed
  only on the branch where it does not panic.
* `SingleRequestStopNeverBlocks`: for `Requests = {r}`,
  `Spec => []StopNeverBlocks`, for every core count and variance setting.
  `StopNeverBlocks` is not inductive by itself; the inductive invariant
  `IInv(r)` adds that `g.finished` is nil exactly while r is idle, that a
  loop exists only after `Generate` made r's channel, that every loop
  waiting or done waited on r's channel, and the conservation law
  `buf[r] + Received(r) = SentBy(r)` (signals buffered plus signals
  received equal signals sent, read off the program counters). Before the
  first send nothing was sent, so the buffer is empty; before the second
  it holds at most one. TLC checked `IInv` as an invariant before the
  proof.

`HandlerProofs` (checked by `tlapm`), for every list of URIs, worker
count set, duration set, fan-out time set and outcome set satisfying
`HandlerAssumption`: `HandlerTypeCorrect` and `SuccessLatency`
(`Spec => []SuccessLatencyIsMaxBudget`, the property of the `handler`
run). They rest on one inductive invariant `HInv`: no status is decided
before the budget step, and an ok code carries `now - ts = max(d, et)`.
The first conjunct is what makes the second inductive: without it a
state with code ok could take a later clock step. The budget step is
arithmetic (`et + max(0, d - et) = max(d, et)`). The panic branch of the
fan-out needs `FirstNilBound`: the first nil result is a position of the
list, proved from the well-foundedness of `<` on `Nat` (`WFMin`), so the
response prefix appended before the panic is a sequence of the URIs.

`WorkerPoolProofs` (checked by `tlapm`), for every number of tasks, set
of worker counts and outcome set satisfying `WorkerPoolAssumption`:
`PoolImplementsContract`, `Spec => ImplementsContract`, the refinement
that the `pool` run checks on three tasks. It rests on the inductive
invariant `IInv` (`PoolInvariant`): every index the queue has handed out
is in exactly one place (the busy worker running it, one pair of the
channel, or its slot) and no later index is anywhere; before the workers
start, and after a configuration error, nothing has run; worker 1 is
started whenever there is a task and a worker exits only once the queue
is drained. Uniqueness makes the mapping well defined (an index has at
most one pair in the channel, so `AbsSlots` picks it) and shows that
`Run` fills an empty slot of the contract; completeness shows that when
Do returns every slot is full (`ReturnReady`). `Collect` is a stutter:
the pair leaves the channel and lands in the slot it was already mapped
to (`CollectRefines`). TLC checked `IInv` as an invariant of the pool run
before the proof.

`GeneratorV1Proofs` (checked by `tlapm`), for every set of requests, core
count, iteration bound and draw set that satisfies the assumptions:

* `RandomAllocationBounded`: `SpecV1 => []RandomAllocationWithinVariance`
  under `RandomModel` (random model, variance at least 1%, baseline at
  least 1 MiB). These hypotheses are what make `[-max, +max)` non-empty;
  for variance 0 or baseline 0 the property is false, and says so. The
  property holds only while no size is pending between `make` and the
  store. So the inductive invariant `RInv` adds two facts: every size a
  memory loop has computed and not yet committed is in range, and only a
  started memory loop can hold one (`Started`). The second fact is needed
  because `GenStart` resets the loop's program counter.
* `NoPanicV1`: `SpecV1 => []NoRuntimePanic` under `NoPanicModel`
  (neither sine with a zero period nor random with a variance above 100%).
  Its inductive invariant `PInv` says that the stored size and every
  pending size are non-negative. Under these hypotheses an iteration
  computes either the stored size itself (linear, sine, variance 0) or
  `RandomValueV1(k) >= 0` (`RandomValueNonNeg`). So `make` never panics.
  The two excluded cases do panic; the hazards at node_generator.go:176
  and :124 cover them.
* The arithmetic rests on `TruncDivBounds`: `int(a / b)` for `b > 0`
  leaves a remainder of `a`'s sign, smaller than `b`. The lemmas
  `RandomValueWithin` and `RandomValueNonNeg` bound `RandomValueV1` with
  it.

TLC checked both `RInv` and `PInv` as invariants before the proofs. It
used one and two requests, serial and concurrent, with variance 1% and
100% and four iterations.

Only model-checked:

* The liveness properties `GeneratorQuiesces` and `DoReturns`. TLAPS does
  not reason about fairness and `ENABLED`.
* Every property of `Generator` with more than one request.

## 6. Plan for later sittings

1. A composition of `Handler`, `WorkerPool` and `Generator` over several
   requests: each request's fan-out through the pool, the shared
   generator underneath.
2. Proofs: the handler's refinement of a one-step request contract;
   `StopNeverBlocks` for serial requests with no CPU supervisor.
3. `ProcessMemoryGenerator` if its source is fixed to compile.

## Not modelled

`ProcessMemoryGenerator` (does not compile), the logging/formatting
helpers (`deg`, `rad`, `radString`, `xAsFrac`, `reduce`, `gcd`,
`bytesToMiBString`), JSON encoding, `runtime.GOMAXPROCS` (a process-wide
setting that affects only scheduling speed), the readiness-probe tests,
and `go.mod`.
