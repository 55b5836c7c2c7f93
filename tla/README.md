# Verification of mochi-tests

TLA+ models of the benchmark and regression programs in `src/`, TLC
configurations that check them on small instances, and TLAPS proofs of the
properties that hold for every instance. `PROJECT.json` maps every definition
to the source lines it models and lists runs, mutants, hazards and theorems.

    tlc -workers 2 -config BwShared.cfg MCBwTransfer
    tlapm BwTransfer_proofs.tla

## 1. The system

The repository holds the performance regression programs of the Mochi
libraries (Argobots, Mercury, Margo, SSG, Bake). Unless noted, a program runs
as two MPI processes: rank 0 is a server and rank 1 its client.

The runtime rule that decides what can interleave: Margo started without a
JSON configuration gives `main`, the progress loop and all RPC handlers one
execution stream (ES), the primary one, and switches between them only where
they block. So a handler runs only while `main` waits on an eventual, and two
handlers interleave only at `margo_respond`, `margo_bulk_transfer`,
`ABT_thread_join`. Programs that ask for a progress thread, or for dedicated
transfer streams (`-T`), get real parallelism.

| Component | State | Operations | Interaction | What is hard | What makes it correct |
|---|---|---|---|---|---|
| `perf-regression/margo-p2p-bw.c`, transfer phase | `cur_off`, `cur_off_mutex`, per-worker `bytes_moved`, clock | `bw_ult` creates, joins and sums workers; `bw_worker` draws offsets and transfers | workers share the offset under a spin lock; ESs; blocking bulk transfers | parallel updates, spinning on a cooperative ES, the wrap, workers ending in any order | no offset lost or drawn twice, transfers inside the buffer, the checked prefix fully moved, the byte count right, the handler ends |
| `margo-p2p-bw.c`, run control | `g_buffer` on both ranks, bulk handle, transfer pool, `g_bw_done_eventual` | `main` of both ranks, `run_benchmark` (fill, PULL, pause, PUSH, check), `bw_ult` after the join (respond, verify, fill, signal) | RPCs, one-sided access to the client's buffer, eventual | a response sent before the server is done, set-up after the broadcast, teardown while handlers end | both pattern assertions, no access during a transfer, no use before set-up or after release, both ranks end |
| `margo-p2p-vector.c` | as above, plus the regions of a vector | as above, each transfer over `vector_len` regions from offset 0 | as above | division of the transfer into regions; `vector_len` 0 | regions cover the buffer without overlap |
| `gpu-margo-p2p-bw.cu` | as above, plus a host staging buffer on either or both ranks | `cudaMemcpy` before and after fills and checks | GPU memory is the RDMA target | a missing or short copy checks stale data; attributes left uninitialized on a host rank | assertions hold on the staged copy; the other rank notices nothing |
| `margo-p2p-latency.c` | `rpcs_serviced`, eventual, measurement array | `noop_ult`, `run_benchmark`, `bench_routine_print` | RPCs, timed or not | counting versus delivery, the two-second limit, order statistics of short arrays | server leaves after the last call and, if nothing timed out, does leave; the printed values are in the order of the header |
| `interoperability/margo-calls-from-pthreads.c` | `rpcs_serviced`, eventual | ten pthreads, ten calls each; handlers on the progress thread | handlers run in parallel with `main` | the eventual is created late | the server ends |
| `interoperability/margo-plus-non-margo.c`, `lib-nm.c` | a Margo instance, then a Mercury context with progress threads | `nm_run_client`, `nm_run_server`, `progress_fn`, callbacks | condition variable, one-second server | no ordering between server life and the client's calls; a forward completed with an error ends the client; handle and context destroyed beside a running callback | nothing in flight when they are destroyed; both sides end unless a forward is lost or fails |
| `bake-p2p-bw.c` | target, write offset, stop eventual | `run_benchmark`, `bench_worker`, `bench_stop_ult` | n clients and one server | first stop ends the server for all; last region | each region of a client written once, the stopping client's work done before the detach (the last region is not inside the buffer, see Findings) |
| `pmdk-bw.c` | one offset and lock per pool | `bench_worker` | workers assigned to pools round robin | pools without workers, reported total | each pool's objects written once, total correct |
| `abt-eventual-bench.c`, `abt-future-bench.c` | barrier, start time, per-ULT eventual | `bench_thread`, `ev_thread` | detached setter ULTs, barrier | a setter outliving what it uses; a clock read before the start time | every setter finds its eventual, every set is counted, nothing outlives the arguments, the program ends |
| `ssg-test-separate-group-{create,attach}.c`, `theta/separate-ssg.qsub` | group file, group id | store, attach, push-prefinalize callback, destroy | file polled by the job script; remote shutdown | file read before complete, double destroy | the attacher is never aborted |
| `polaris/process-results.sh` | output files | header count, row tagging | reads what a batch job printed | failed program leaves header only; tags by position | every row tagged by its own section |
| `node-microbench`, job, build and plot scripts, autotools, CI | none that lasts | timing loops, text processing | none | none that a model reaches | not modelled |

## 2. Modules

* **`TransferRing`** is the abstract specification: workers draw tickets from a
  ring of `Slots` offsets, atomically and in order (`Take`), and give them back
  when the bytes are moved (`Move`). No lock, thread or stream.
* **`BwTransfer`** is one `bw_rpc` in detail. `pc[w]` walks through
  `bw_worker` statement by statement (`Begin`, `Acquire`, `Fetch`, `Bump`,
  `Wrap`, `Transfer`, `Account`); `hpc` and `i` through `bw_ult` (`Create`,
  `JoinWait`, `JoinWake`, `Join`). `on[e]` is the ULT that stream `e` runs:
  every step of a ULT requires that it runs, `Vacate` says where it gives the
  stream away, `Dispatch` where an idle stream takes a ready worker. The
  progress loop is a ULT of the primary stream, so a completion (`Complete`)
  needs that stream idle. `NextOffset` and `Holds` map this state to
  `TransferRing`.
* **`BwBenchmark`** extends `TransferRing` with both ranks' `main`,
  `run_benchmark` and the handlers, the buffers with one pattern value per
  offset, and the resources `main` sets up and releases. The transfer phase is
  the abstract ring, which `BwTransfer` implements. `running` is the ULT that
  owns the server's primary stream.
* **`GpuBw`** extends `BwBenchmark` with what `gpu-margo-p2p-bw.cu` adds: the
  ranks whose buffer is on the GPU (`onGpu`, chosen initially from what `-j`,
  `-k` or neither allow; the empty set is `margo-p2p-bw` itself), their staging
  areas (`host`), and each `cudaMemcpy` as an action between fill or check and
  transfer (`CopyInClient`, `CopyOutServer` up to `bytes_to_check`, ...).
  Registered buffers, requests and release are `BwBenchmark`'s variables, so
  that module is its abstract specification (`RefinesBenchmark`). `Refuse`
  is the registration with uninitialized `bulk_attr` on a host rank: it may
  succeed or end the job.
* **`VectorRegions`** has the options and the regions of `margo-p2p-vector.c`
  as operators, with the offset its workers leave and the bytes it checks. The
  rest of that program is `margo-p2p-bw` with a ring of one transfer: its
  transfer phase is `BwTransfer` with `BufSize = XferSize`, its run control
  `BwBenchmark` with `Slots = 1` and `MmapBuffer = FALSE`. It has no run of its
  own: the theorems about both modules hold for every number of slots.
* **`NoopService`** covers the counting servers of `margo-p2p-latency`,
  `margo-calls-from-pthreads` and the Margo half of `margo-plus-non-margo`.
  `program` and `timed` (`-T`) are chosen initially and fixed: they decide how
  many clients call, where handlers run (`HandlersRun`) and whether a measured
  call may run out of time (`GiveUp`), which ends the client. `Abort` is the
  end of the client of `margo-plus-non-margo` by its Mercury half.
* **`MercuryHalf`** is `lib-nm.c`: on either side a thread (`thread[s]`) and
  its progress loop (`loop[s]`), a Mercury context, the client's one handle
  (`forward` says where its forward is) and the condition variable with its
  spurious wakeups. A request reaches the server's context while there is one
  (`Deliver`); one that finds none, or is inside when it is destroyed, may stay
  unanswered (`"lost"`) or complete with an error (`"failed"`; `Lose`). Of the
  latter the callback's assertion makes an end (`CallbackFails`), after which
  the client's process does nothing (`Alive`). What an MPI launcher does to the
  other rank when one aborts is left out.
* **`LatencyStats`** is `bench_routine_print` as operators on an array.
  Medians and quartiles are kept doubled, so that they stay integers.
* **`NoopPrograms`** composes the three: the latency client measures its calls
  (`Measure`), main of `margo-plus-non-margo` creates the Mercury thread before
  its own calls or its own wait, joins it, and finalizes Margo. A failed forward
  ends the margo calls of the same process (`ClientAborts`).
* **`EventualBench`** is `abt-eventual-bench.c` and, with a future of one
  compartment for the eventual, `abt-future-bench.c`. `running` is the ULT on
  the only stream; `Run`, `RunSetter` dispatch where it is idle, `Expire` ends
  a sleep. Main is a thread like the others at the barrier (`Arrive`).
* **`SsgSeparateGroup`** is `theta/separate-ssg.qsub` with the two programs it
  starts. `OpenFile` and `WriteFile` are the two steps of `ssg_group_id_store`.
* **`RegionQueue`** is the abstract specification of the writing benchmarks:
  the regions of a pool are handed out in order, atomically, each to one
  worker (`Hand`), which writes it (`Put`). Nothing wraps.
* **`RegionWriters`** is `run_benchmark` and `bench_worker` of `bake-p2p-bw`
  (one pool, the target) and `pmdk-bw` (several pools, dealt to the workers in
  turn). `pc[w]` walks through the worker: `Acquire` the pool's lock, test the
  offset under it (`Draw` or `Leave`), advance it and unlock (`Bump`), `Write`.
  Any worker may step at any time, which covers both bake's one stream and
  pmdk's several; since nothing blocks between lock and unlock, a lock is
  never held by a suspended worker and streams need not be modelled.
  A write that fails (`Fail`: no room in the pool, or a target that refuses)
  ends the process in whatever state its other workers are. `my_off` is bake's
  `this_buffer`; pmdk's workers keep no offset, for them it is a history.
  `XferSize >= 1` is assumed though `parse_args` does not ask for it: with
  `-x 0` the loop never ends.
* **`BakeBench`** extends `RegionQueue` with `bake-p2p-bw`'s server and its
  clients, which are the pools. `ranks`, the clients of the job, and `slow`,
  whether set-up may outlast their sleep of three seconds, are chosen
  initially and fixed. Handlers run on Margo's progress thread, in parallel
  with `main`: `RespondStop` and `Signal` of `bench_stop_ult` interleave with
  everything. A held region is a write under way; a request that finds no
  target is `Refused` and ends its client by the assertion on the return code.
* **`*_proofs`** modules hold the theorems about the module they are named
  for. **`MC*`** modules only give the names TLC needs; `MCBwTransfer` also has
  TLC evaluate the division into regions on all sizes up to 12.

Composition: `BwTransfer` implements `TransferRing`, on which `BwBenchmark` is
built, which `GpuBw` extends and implements. `RegionWriters` implements
`RegionQueue`, on which `BakeBench` is built. `NoopPrograms` is built on
`NoopService`, `MercuryHalf` and `LatencyStats`: its steps are theirs, joined
where `main` joins them. That it and `BakeBench` keep to the modules they are
built on holds by this construction and is not listed as a result; where an
implementation is (`RefinesRing`, `RefinesQueue`, `RefinesBenchmark`), the
detailed module has state and steps of its own.

## 3. Runs

`pass` runs are expected to finish without an error, `violation` runs to show
the disagreement that the finding in `PROJECT.json` quotes.

| Run | Shows | Bounds |
|---|---|---|
| `bw_shared` | With `-T 0`, handler, progress loop and three workers on one stream: the lock never blocks the stream, in every state before the response somebody can go on (`NeverStuck`), the handler ends | 2 slots and a partial one, 3 rounds and more: the ring wraps and an offset is redrawn |
| `bw_dedicated` | With `-T 2` two workers run in parallel: transfers stay inside, no hole, the checked prefix was moved, byte count, refinement of `TransferRing` | 3 workers on 2 streams so that one must queue; 3 slots, 4 rounds and more |
| `bw_benchmark` | Warm-up and measured round, for every place of the two buffers: assertions, on registered and on staged copies, buffer ownership, set-up and release order, termination; staging implements `margo-p2p-bw` | 2 workers, 2 slots, at most 3 transfers per phase: none, part of, or all of the buffer is moved, or an offset twice; none, either or both ranks on the GPU |
| `bw_no_pause` | *violation*: only the client's 100 ms pause orders its PUSH behind the server's fill | as above |
| `bw_mmap` | *violation*: with `-m` the client unmaps a heap buffer | as above |
| `noop` | The three no-op programs whole: the server leaves when, and only when, all calls were serviced; the Mercury half is torn down in order with nothing in flight, and both sides end unless a forward was lost or failed, which may leave the server waiting for the client's margo calls (`MixedEnds`); the statistics are in order | 3 clients; 6 calls each, 1 of them warm-up, so that 5 are measured, with the values 1, 2, 3 (ties and any order); 3 forwards |
| `noop_lost_signal` | *violation*: with a progress thread all calls may be serviced before the eventual exists | 3 clients, 1 call each |
| `regions` | Every region written by one worker, none left out, the printed total off by the excess of the last regions only, everyone ends unless a write fails, refinement of `RegionQueue` | 4 workers on 2 pools, so that two compete for each lock; 5 bytes in regions of 2, so 3 regions per pool and the last one partial, and a pool runs out with a worker holding nothing. Pools without a worker are in the theorem only |
| `bake` | The server outlives the work of the client that stops it; one client that sleeps long enough is served, and ends; after a slow set-up the one other end is a main left waiting (`AloneFinishes`) | 1 or 2 clients, 2 workers and 2 regions each, set-up fast or slow |
| `bake_clients` | *violation*: the first of two clients to finish ends the server under the other | as above |
| `eventual` | Start time, setters, release of the arguments, the count of operations, termination | 3 ULTs, so that the barrier fills in several orders and two setters overlap; up to 2 rounds each, so that a setter of the first round could meet the second |
| `ssg_partial_file` | *violation*: the script starts the attacher between open and write of the group file | one creator, one attacher |

`MaxMoves` and `MaxTakes` in `margo-p2p-bw`'s models and `MaxOps` in
`EventualBench` are the only bounds that the code does not have; they stop a
worker from starting another round, which the clock may do at any time anyway. Past one wrap of the ring the state repeats up to the counters.

`CHECK_DEADLOCK FALSE` appears where the programs end: the last state has no
successor. The liveness properties and the proved absence of deadlock
(section 4, The end of each program) are what excludes a stop before that.

**Fairness.** Weak fairness of every actor, for these reasons: the duration
passes; the network completes what was posted (Mercury's promise); a stream
that is not idle executes its ULT, and an idle one serves a FIFO pool. Nothing
is assumed of the locks: `Acquire` is a worker's step like any other, and it
is the other workers' leaving that makes a lock free for good. In `BakeBench`
a failing call (`Refused`) is not fair, since nothing promises it, nor in
`RegionWriters` a failing write (`Fail`); neither are in the no-op programs a
timeout (`GiveUp`), a loss (`Lose`) or a spurious wakeup. The callback of a
forward that has failed is: the progress thread runs it like any other. In `GpuBw` fairness holds of every actor until a registration is
refused, as the job then ends. Strong
fairness is not used. Safety runs with large state spaces use `Spec`.

**Pause.** `PauseOutlastsSend` states the one timing assumption of
margo-p2p-bw: the server's response send completes within the client's pause.
`bw_benchmark` assumes it, `bw_no_pause` drops it.

## 4. Proofs

### The transfer phase

`BwTransfer_proofs` proves, for every number of workers and streams, all sizes
and every bound, from the assumption `BwAssumption` (what `parse_args` accepts):

| Theorem | Property | Needs |
|---|---|---|
| `TypeCorrect` | `TypeOK` | |
| `HolderNeverSuspended` | `HolderRuns` | `LockInv`, `RunInv` |
| `ReportedBytesCorrect` | `BytesAccounted` | `JoinInv`, `SumInv` |
| `TransfersStayInside` | `TransferAccepted`, if `XferFits` | `OffsetInv` |
| `CheckedPrefixMoved` | `PrefixMoved`, if `XferFits` | `JoinInv`, `OffsetInv`, `CoverInv`, `SumInv` |
| `ImplementsRing` | `RefinesRing`, if `XferFits` | `LockInv`, `OffsetInv` |
| `SomebodyCanGoOn` | `NeverStuck`, if `XferFits` | `LockInv`, `RunInv`, `StreamInv`, `TransfersStayInside` |

`XferFits == XferSize <= BufSize` is what `parse_args` fails to demand; without
it the last four do not hold (see Findings).

The inductive invariant is the conjunction of `TypeOK` and

* `JoinInv`: workers are created and joined in index order, so all joined ones
  are done; without it nothing says that no transfer is in flight at the end.
* `LockInv`: the mutex names exactly the worker inside the critical section.
* `RunInv`: between the loop test and the transfer a worker occupies a stream.
* `OffsetInv`: the next ticket and every held offset are multiples of the
  transfer size below `Slots * XferSize`, and until the first wrap the next
  ticket is `taken * XferSize`. This is where the arithmetic of the wrap is.
* `CoverInv`: each of the first `taken` slots was moved or is being moved.
* `SumInv`: there is a function of partial sums of the per-worker credits
  (bytes counted plus the transfer not yet counted) that ends in
  `XferSize * taken` and passes through `out`. Partial sums as a witness avoid
  a recursive sum, about which nothing could be proved by induction here.

### A whole run of margo-p2p-bw

`BwBenchmark_proofs` proves, for every number of workers, slots and rounds,
from `BenchmarkAssumption`:

| Theorem | Property | Needs |
|---|---|---|
| `TypeCorrect` | `TypeOK` | `SequenceInv` |
| `HandlersFindSetUp` | `ServesWhenReady` | `EsInv`, `ReadyInv` |
| `BuffersOwned` | `BufferOwnership`, if `PauseOutlastsSend` | `SequenceInv`, `HoldInv`, `PauseInv` |
| `ReleaseAfterUse` | `NoUseAfterRelease`, if `PauseOutlastsSend` | `SequenceInv`, `ShutdownInv` |
| `ServerAssertHolds`, `ClientAssertHolds` | `ServerAssert`, `ClientAssert`, if `PauseOutlastsSend` | all but `ReadyInv`, and `TicketInv`, `SourceInv`, `CopyInv`, `CheckedInv` |
| `HeapGivenBack` | `ReleasedAsAllocated`, if not `MmapBuffer` | |

`HeapGivenBack` is the other side of the finding of `bw_mmap`: without `-m`
each rank releases what it allocated.

* `EsInv`: who has the primary ES. That `main` has it until it waits is all
  that keeps an early request from finding nothing set up.
* `SequenceInv`: requests are made one after the other, earlier ones were
  answered, later ones do not exist, and where the client is agrees with it.
* `HoldInv`: an offset is held only while the current request is in transfer.
* `PauseInv`: the handler of a PULL is past its send when the PUSH is sent, and
  over when the PUSH is handled, because handlers share a stream. This is
  where the pause enters; without it the handler may still verify and fill.
* `ShutdownInv`: `main` wakes only behind the last handler, and then every
  handler that uses the buffer is over.
* `TicketInv`: `Covered` of `TransferRing`, and where the ring has not wrapped
  the next ticket is `taken * Step`. With no offset held it makes the checked
  prefix a subset of `moved`.
* `SourceInv`, `CopyInv`, `CheckedInv`: what a transfer reads does not change
  under it, what it wrote is the pattern, and what is checked stays as written
  until it is checked. The server's fill at the end of a PULL stands until the
  PUSH is answered; that a PULL's handler may still be in it when the PUSH is
  transferred is what `PauseInv` excludes.

### The GPU program

`GpuBw_proofs` extends `BwBenchmark_proofs`. `ImplementsBenchmark`
(`RefinesBenchmark`) shows that every step is one of `BwBenchmark` or leaves its
variables alone; it needs `FillInv`, that a staging area copied in holds the
pattern of its rank in full. All theorems about `BwBenchmark` therefore hold of
it, and `StagedAssertsHold` (`StagedAsserts`, if `PauseOutlastsSend`) carries the
two pattern assertions over to the staged copies with `ServerCopied` and
`ClientCopied`: what was copied out is still what the registered buffer holds
when it is checked. `GpuTypeCorrect` proves `GpuTypeOK`.

### Vectors

`VectorRegions_proofs` proves for all sizes that an accepted vector begins at
0, is contiguous and ends at the transfer size (`RegionsTile`), that every byte
is in exactly one region (`EveryByteOnce`), and, from `TransfersStayInside`,
that with a buffer of one transfer every transfer starts at 0
(`VectorFromBeginning`), as the comment in `margo-p2p-vector.c` wants.
`RingOfOne` shows that `BwTransfer`'s offset and checked bytes then are those of
`margo-p2p-vector.c`, so that the theorems about `BwTransfer` and `BwBenchmark`
are about that program too.

### The no-op programs

`NoopPrograms_proofs` proves, for any number of clients, calls and forwards:

| Theorem | Property | Argument |
|---|---|---|
| `LeavesAfterService` | `LeavesWhenServiced` | `CountInv`: handlers that counted or are about to are as many as the calls that were answered, a set of pairs (client, number) inside `Callers \X 1..Iters`; at `Total` they are all of them |
| `TypeCorrect` | `ProgramTypeOK` | `CountInv` bounds `serviced`, `MeasureInv` the index |
| `HandleIdleWhenDestroyed` | `HandleIdle` | `ForwardInv`: only the last callback does not forward again |
| `TornDown` | `TornDownInOrder` | `ContextInv`, `FinalInv` |
| `StatisticsInOrder` | | for four and more values the sort exists, is ascending, and the brackets ascend inside the array; the counting behind `Sort` uses well-founded induction on the values |
| `StatisticsCorrect` | `StatisticsOrdered` | the two before, with `MeasureInv` |

### The eventual benchmark

`EventualBench_proofs` proves, for any number of ULTs, `TypeCorrect` (`TypeOK`),
`StartBeforeWork` (`StartTimeTaken`), `SetterFindsItsEventual`
(`SetterFindsEventual`) and `FreedAfterUse` (`NothingOutlivesArguments`). The
barrier needs a cardinality: if it opens, `main` is among those it held
(`OpensWithMain`), and `main` took the start time on its way there
(`BarrierInv`). `SetterInv` ties a setter to a waiting creator, and `MainInv`
says what main has created or joined. `RateCountsEverySet` (`EverySetCounted`)
keeps partial sums over the ULTs as a witness (`SumInv`): main's total is one of
them, all sets are the last, and a set raises those beyond its ULT, which
`MainInv` says main has not joined.

### Workers and regions

`RegionWriters_proofs` proves, for every number of workers and pools and all
sizes, from `WritersAssumption`: `TypeCorrect` (`TypeOK`), `EveryRegionWritten`
(`AllWritten`), `RegionsHaveOneWriter` (`OneWriter`) and `ImplementsQueue`
(`RefinesQueue`). The inductive invariant joins `TypeOK` with `CreateInv` and
`JoinInv` (workers are created and joined in index order), `LockInv` (the
mutex names the worker inside), `DrawInv` (the offset a worker tested is still
the pool's when it advances it), `BehindInv` (what was handed out is a region
behind the offset), `CoverInv` (what is behind was handed out), `OnceInv` (to
one worker) and `LeaveInv` (workers leave only a pool that is used up).
`ReportedIsWritten` (`ReportedTotal`) says for all numbers and sizes how the
printed total relates to what was written: it leaves out what the last region
of each pool has beyond the total (`Excess`) and counts pools without a worker.
What was written is `Served \X Regions`; a bijection with an interval counts
the regions (`RegionCount`), and `PoolCounts` splits the pools into those with
and without a worker. So the total is exact when it is whole regions and there
are as many workers as pools, neither of which the programs check.

### The Bake server

`BakeBench_proofs` proves, for every number of clients, workers and regions,
from `BakeAssumption`: `TypeCorrect` (`TypeOK`), `ServerOutlivesWork`
(`DownAfterWork`) and `SingleClientServed` (`AloneServed`). That every client
has a worker, which `BakeAssumption` asks for, is what `parse_args` checks at
bake-p2p-bw.c:342. `RegionsWrittenOnce` carries `OneWriter` over to the job,
refused requests included. The invariant joins
`TypeOK` with `QueueInv` (as `BehindInv` and `CoverInv`), `JoinedInv` (a client
asks for the stop when its workers hold nothing), `SignalInv` (behind the
signal stands a client that was answered) and `RestInv` (a client that sleeps
long enough finds the target attached).

The parts of each invariant hold in TLC's runs as well as in the proofs.

### The end of each program

Liveness needs fairness and ENABLED, which are out of the prover's reach. What
is proved instead, of every program and for all values of the constants, are the
two facts from which its termination follows:

1. **Somebody can go on.** In every reachable state that is not an end, some
   step is possible. The guards are spelled out (`CanStep`, `CanServe`, ...) in
   place of ENABLED; they were compared with ENABLED of their actions by TLC
   in the states of the runs. A timeout, a loss, a spurious wakeup and the
   end of the duration do not count as such a step, nor does a failing write. The end of a sleep does,
   and in `BakeBench` the refusal of a request that finds no target, being the
   only thing that can happen to it.
2. **Nothing goes round.** Each actor has a stage that grows with its program
   counter, and counters that are bounded; every step raises one of them and
   lowers none before it.

So a run ends after finitely many steps if only a step that can be taken is
taken. That last part, and so the liveness properties as such
(`Termination`, `GpuTermination`, `ServiceEnds`, `MixedEnds`, `AloneFinishes`),
are only model-checked.

| Module | Somebody can go on | Nothing goes round | An end is |
|---|---|---|---|
| `BwTransfer_proofs` | `SomebodyCanGoOn`, if `XferFits` | `PhaseWindsDown`, once the duration has passed | the handler responds |
| `BwBenchmark_proofs` | `SomebodyCanGoOn` | `RunWindsDown` | both ranks have left |
| `GpuBw_proofs` | `GpuSomebodyCanGoOn` | `GpuRunWindsDown` | that, or a registration was refused |
| `RegionWriters_proofs` | `SomebodyCanGoOn` | `WritersWindDown` | main has reported, or a write failed |
| `EventualBench_proofs` | `SomebodyCanGoOn` | `ProgramWindsDown`, once the duration has passed | main has left |
| `BakeBench_proofs` | `SomebodyCanGoOn` | `JobWindsDown` | main has left, every client is done or was refused; if `slow`, also: all clients are, and main is left waiting |
| `NoopPrograms_proofs` | `SomebodyCanGoOn` | `ServiceWindsDown` | server and clients have finished, or a client was ended by a call that timed out or by its Mercury half, or the pthreads program lost its signal |
| `NoopPrograms_proofs` | `MixedCanGoOn` | `AllWindDown`, but for spurious wakeups | both sides are finalized, or the server is and a forward was never answered or ended the client (`BothThrough`); or the server waits for the calls of a client so ended (`ServerForsaken`) |

Before the duration has passed the workers of `BwTransfer` and the ULTs of
`EventualBench` do go round, as they are meant to. The arguments behind the
first column differ:

* `BwTransfer`: a ULT that spins on the lock of a shared stream would be the
  end of it; the holder runs (`RunInv`), so on one stream nobody spins on a
  lock that is taken. A worker that sleeps in a transfer needs the primary
  stream idle, which it is when the handler is in its join.
* `BwBenchmark`: the client waits for an answer, so that request has a handler;
  that handler or the transfer's workers can step, or main has the stream and
  has not begun to wait. When the last request is over the eventual is set
  (`StopInv`). None of this depends on the pause, so with too short a
  sleep a rank may find the wrong pattern, but none waits for ever.
* `RegionWriters`: the mutex names a worker that is inside (`LockInv`) and does
  not wait there.
* `EventualBench`: as long as the barrier is closed one of those it waits for
  has not arrived (`PhaseInv`); a blocked ULT has a setter on its way
  (`SetterInv`).
* `BakeBench`: a client whose stop was answered has told main, or its handler is
  about to (`ToldInv`). If the set-up is slower than the clients' sleep, a
  client may be refused or a signal may come before main has the eventual for
  it, and main is left waiting: the end that `slow` adds.
* `NoopPrograms`: a waiting client has its request or its answer under way, and
  where handlers share main's stream none counts itself before the eventual
  exists (`WaitInv`). `SignalReachesMain` says so on its own: the signal that
  `noop_lost_signal` shows lost can be lost in `margo-calls-from-pthreads`
  only. In the Mercury half a client that blocks has a forward under way, and a
  progress loop ends only after its thread told it to (`WakeupInv`), so no
  wakeup is lost and no join waits for a loop that will not look. A client is
  ended only by a forward that failed (`AbortInv`), and then the server of
  `margo-plus-non-margo` can be short of calls, and of nothing else.

Not proved besides liveness: that the spelled-out guards are ENABLED of
their actions, and `SsgSeparateGroup`, which has no constants, so that its run
already covers every instance.

## 5. Findings

Shown by a run:

1. `bw_no_pause`: margo-p2p-bw.c:594. The order of the server's fill and the
   client's next request rests on a sleep.
2. `bw_mmap`: margo-p2p-bw.c:322. The client gives a `calloc` buffer to
   `munmap`, against the comment at line 131.
3. `noop_lost_signal`: margo-calls-from-pthreads.c:170. The eventual is created
   after the clients were released, and a signal before that is lost.
4. `bake_clients`: bake-p2p-bw.c:378. The first client's stop request ends the
   server; the comment at line 90 says "1 server, N clients" and `main` accepts
   them, while the file header and the usage text speak of one client and of
   exactly two processes.
5. `ssg_partial_file`: theta/separate-ssg.qsub:25. The existence of the group
   file says nothing of its content.

Met while modelling, and left as conditions of theorems and properties:

* margo-p2p-bw.c:404 accepts `-x` above `-X`; the assertion after the first bulk
  transfer would end the server (`XferFits`).
* bake-p2p-bw.c:451-457: the loop test does not look at the end of a region.
  When the total is not a whole number of regions, the last write reads behind
  `g_buffer`, which has `total_mem_size` bytes, and more is written than the
  report says. `ReportedTotal` states the difference (`Excess`), and the run
  `regions` has such a total.
* pmdk-bw.c:282 multiplies by the number of pools whether or not a worker was
  given one; `ReportedTotal` and `ReportedIsWritten` state the difference.
* lib-nm.c:84: a forward that completes with an error ends the client and with
  it the margo calls its server counts on; the server then waits for ever
  (`ServerForsaken`).
* margo-p2p-latency.c:397-419 averages the two upper elements where it should
  take the middle one, and takes one where it should average two. With two or
  three measurements the columns need not be in the order of the header, with
  one the second bracket is behind the array. `StatisticsOrdered` and
  `StatisticsInOrder` therefore start at four.
* margo-p2p-vector.c:406 divides by `vector_len` before anything excludes 0
  (`VectorAccepted`).
* gpu-margo-p2p-bw.cu:617 and main leave `bulk_attr` uninitialized on a rank
  without a GPU buffer (`Refuse`).

## 6. Not modelled

* `polaris/process-results.sh`: it filters the text of finished output files,
  from which the models abstract. Its two assumptions on that text are listed
  as hazards.
* `node-microbench`: timing loops around library calls, without state that
  lasts or anything that interacts.
* Job, build and plot scripts, autotools, continuous integration: straight-line
  scripts and configuration.
* Everywhere: wording of output, option syntax, CPU time, transport options.
