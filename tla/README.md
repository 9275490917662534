# mp_sched in TLA+

mp_sched schedules container workloads: `mp-controller` processes put tasks
into a PostgreSQL table, `mp-worker` processes claim them, decide whether a
slot is free, start containers, stop them on request, and watch how they end.
The processes share nothing but the database and the Docker engine. This
directory models that scheduler, what it tells its clients and what it logs,
checks the models with TLC and proves most of the safety properties with TLAPS.
Paths below are relative to the repository (`src/` in `PROJECT.json`).

## 1. The system

| Part (code) | State it keeps | Operations | Modelled in |
|---|---|---|---|
| admission policy (`internal/scheduler/admit.go`) | none | `Admit` | `Admission` |
| task table (`internal/taskrepo`, `internal/model`, `internal/recordrepo`) | rows of `tasks`, `stop_records` | one SQL statement per method | `TaskTable` |
| controller (`internal/controller`, the posting handlers of `internal/api`) | none but a restart under way | enqueue, stop, restart | `Controller` |
| claim loop and pipeline (`internal/worker/runner.go`, `internal/pipeline`) | the task in hand and what has been read about it | claim, admit, run, stop, record | `Worker` |
| admitted sweeper, runtime sweeper (`internal/worker`) | a listing | fail stuck rows; stop and fail overdue workloads | `Sweepers` |
| reconciler, orphan reaper (`internal/reconciler`) | a listing, a verdict, a goroutine per orphan | `Tick`, `TickOrphanReap` | `Reconciler` |
| docker provider, k8s stub (`internal/provider`) | containers (in the engine) | check, run, status, stop | `Runtime` |
| GPU slots (`internal/provider/docker/gpuslots.go`) | none | per-device accounting | `GpuSlots` |
| processes (`cmd/`) | which loops run | start, die | `Scheduler` |
| callbacks (`internal/callback`, `Pipeline.fire`) | none: a call under way | read the row again, send event and row | `Callbacks` |
| log loop and final flush (`internal/telemetry/docker_mon.go`) | the time of the last look per container | fetch, insert, collect the last lines | `LogCollection` |
| log batcher (`internal/telemetry/logger.go`) | a buffer of rows | add, flush, drain | `LogBatcher` |
| ClickHouse queries, API views, config, migration, payload parsing | | | not modelled |

How they interact. A controller inserts a `pending` row. A worker's loop locks
the oldest pending row (`FOR UPDATE SKIP LOCKED`), marks it `processing` and
dispatches it. A start goes through the admission transaction (count, policy,
GPU check, compare-and-set to `admitted`) or back to `pending`; then the
provider is asked to check and run it, and `UpdateRuntime` writes `running` and
the `runtime_ref`. A stop is a row too: it reads its target, stops the container
by the ref it has read, marks the target `stopped`, itself `succeeded`, and
writes an audit row. Meanwhile the reconciler of every process lists the rows
that occupy a slot, asks for the phase of each container and writes the final
status; the sweepers fail what takes too long; the reaper stops containers
whose row is final. Most status writes are unconditional: the writer does not
look at what the row says now. Whoever writes a status then reads the row again and
sends it to the business application, waiting for the answer; whoever stops a
container or writes its end asks the engine for its last log lines. The processes'
own log goes through a batcher into ClickHouse.

What makes this hard, and what correct means for each part:

* **Admission** reads counts that other workers are about to change. By how
  much can the cap, the slow cap, the reserve for fast tasks and the GPU slots be
  exceeded? (`SlotBound`, `SlowBound`, `FastReserve`, `GpuBound`)
* **Claiming** must give a row to one worker and never lose it
  (`ExclusiveClaim`, `ProcessingHeld`, `NoRequeue`, `EveryRequestAnswered`).
* **Starting** takes minutes, during which sweepers and stops act on the row;
  processes die. A container must be created once, from nothing, and be
  accounted for (`LaunchFresh`, `ContainersAccounted`, `OrphansReaped`).
* **Stopping and restarting** act on copies of rows (`StopEffective`,
  `RestartReplaces`, `AuditAgrees`).
* **Background loops** write from listings; all the same each row must have one
  life, which never goes back (`OwnInv`, `ReaperSpares`, `LivesAsPromised`).
* **Callbacks** of several loops overtake each other, and their body is read after
  the write; the application must hear the end that counts (`FinalTold`,
  `StopAnswersAgree`).
* **Log lines** are fetched by time, from containers that others remove
  (`NothingSkipped`, `EndOfLogKept`), and **log rows** are put back when an insert fails
  (`KeptInOrder`, `PipePromise`, `EveryRowArrives`).
* **GPU accounting** counts per device; what it counts should be what fits
  (`LetsInWhatFits`, `AttachesEachDeviceOnce`, `RemainingPredictsEntry`).

The full list of hazards, each at its line and with its properties, is
`hazards` in `PROJECT.json`.

## 2. Modules

```
Admission   GpuSlots   TaskTable
    |          |        |     \
    |          |     Runtime   Controller
    |          |     |     \        |
    +-------- Worker  Sweepers      |
                |        |          |
                |    Reconciler     |
                +------- Scheduler -+---- Callbacks, LogCollection
                            |
              SchedulerInvariants    Claims
                            |          |
      LifeCycle <--- Implementation    |
                            |          |
                        MCScheduler ---+
                            |
               MCCallbacks, MCLogCollection

GpuSlots <- GpuHost        LogPipe <- LogBatcher <- MCLogBatcher

Proofs:
SchedulerInvariants <- OwnershipProofs <- LifeCycleProofs (with Implementation)
                                       <- LogCollectionProofs (with LogCollection)
                                       <- AuditProofs <- CallbackProofs (with Callbacks)
                                                      <- SlotProofs (with GpuProofs, Claims)
GpuHost <- GpuProofs       LogBatcher <- LogBatcherProofs
```

* `Admission`: `Admit(request, total, slow)` with the three limits as constants
  that may be any integers; `MaxTotal`, `MaxSlow`, `MinFree` are the limits
  after the clamping in the code.
* `GpuSlots`: `gpu_ids` is a sequence in which an id stands once per slot; the
  operators keep the names of the Go functions. The map of counts is a function on
  devices, an error is FALSE. `GpuHost` is one host whose tasks come and go, to state
  what the counting stands for.
* `TaskTable`: `status[t]`, `req[t]` (the columns no statement changes:
  operation, class, provider, GPU, target), `runtimeRef[t]` (non-empty?),
  `stopRecord[t]`. Queries are sets of task ids, statements are actions. A task
  id stands for the position in `ORDER BY created_at`; rows may be inserted in
  any order of ids, because two controllers have two clocks.
* `Runtime`: `container[t]` is the container of task `t` (there is at most one:
  its name is made of the task id). `Phase`, `StopOK`, `StopError` are the
  provider calls, `ContainerExit` the workload's end, possibly with AutoRemove.
* `Worker`: `pc[w]` names the statement or call that worker `w` makes next,
  `cur[w]` its task, `total[w]` and `seenRef[w]` what it has read. Every statement
  after which somebody else may act is a step: lock and commit of the claim; count,
  policy (which reads the slow count), GPU check and compare-and-set of the
  admission; check, create, start, `UpdateRuntime`; for a stop, reading the target,
  stopping, marking, finishing, auditing (`audit` after success, `auditfail` after a
  failure: the ok of the record is a literal of the path). `DbError` fails any of the
  statements (`StatementFails`), or loses the answer to a write that is done
  (`AnswerLost`); `CrashWorker` loses everything the process knew.
* `Controller`: `Enqueue`, `EnqueueStopForTarget`, and restart as one insert
  (finished task) or two inserts with a gap (live task); `restarts` holds the
  ids the restart answers.
* `Sweepers`, `Reconciler`: per process a listing, the item in hand and the step
  it is at; for the reaper, per process and row, the state of the goroutine.
* `Scheduler`: composes them, states fairness and all properties.
  `Workers` have a claim loop; `Processes`, a subset, also have background loops
  in this run (an instance with `Processes` smaller is one whose operators have
  disabled some loops; it keeps TLC's state space small). The admitted sweeper
  is one action for all processes, since it keeps nothing between two statements.
* `SchedulerInvariants`: the inductive strengthenings (`OwnInv`, `SlotInv`,
  `SlowInv`, `FastInv`, `GPUInv`, `AuditInv`, `HeldInv`, `SoloInv`).
* `LifeCycle`: what a client may rely on, of one request. A start is queued, then
  launching (admitted, in the hands of a worker), then live or over (live at once where
  the worker does not hear that it has admitted the row); a stop is queued, then over; a
  request gets a container only while launching, and never a second one. `Implementation` maps the scheduler's state to it, for every task at once:
  `StageOf(t)` needs the row and whether some worker is still starting the task, for
  while one is, the row may say admitted, failed, stopped and running in turn.
* `Callbacks`: `due[s]` is what sender `s` (a claim loop, a reconciler, a runtime
  sweeper) has still to send, `told[t]` the ends the application has heard of `t`.
  A loop's step and the events it causes are one action, reading the row for the
  body is another, the answer a third; the loop goes on after the last answer.
* `LogCollection`: lines are numbered per container; `since[w][t]` is `sinceByID`,
  `look[w]` a round of `runLogLoop` (the time it began, what it has still to
  ask, its batch), `lost[t]` the lines that were asked for and did not arrive, `owed[s]`
  the row whose last lines caller `s` of `FinalFlushDockerLogs` is about to collect.
* `LogBatcher`: `buf`, `closed`, the mutex with its holder and the rows it
  inserts; `main` and `flusher` are the two goroutines that end with the process.
  `LogPipe` is the promise it keeps: rows arrive in order, in stretches without a
  gap; a stretch may arrive twice.
* `Claims`: statements of the repository's documents and tests that the code does
  not keep with several workers or with crashes; section 5 has when it does.

Abstractions, and why they are sound for what is checked:

* Time is absent: a row may or may not be over a limit at any sweep, a watch may
  last for any number of looks.
* Reads of columns nobody can have changed since the last step are merged with
  it: in `Dispatch` and at the start of `executeStart` the row is `processing`,
  which only its holder writes (`HoldsTask` of `OwnInv`); `Repo.Get` after the
  admission reads only constant columns. An error of such a read is part of
  `DbError`. The controller's read of the row it acts on is merged with its
  insert, which copies constant columns only; a live task may have ended since.
* A row whose copy has no ref, or is of the k8s stub, has phase unknown, which
  has no effect: the reconciler's listing keeps the others only.
* What ResourceCheck or the making of a container refuses is open for every
  docker task.
* Callbacks and log collection change no state of `Scheduler`; they only take time
  between two of its steps. `Callbacks` and `LogCollection` add them to it.
* `Callbacks` keeps the events that announce an end. The others (pending,
  processing, admitted, running) carry no promise and only delay their sender. A call
  that fails is not repeated by the code, so the module is about an application that
  answers; crashes and database errors are left out of it, and so is the
  admitted sweeper, which sends nothing.
* In `LogCollection` a time is the number of lines written by then. `Losses` says what
  may fail: an insert of the log loop, a read (which then gives nothing, or the lines
  before some line, for `StdCopy`'s error is dropped; a line the answer breaks off in
  counts as not read), or either of them in the last fetch, which gives up silently at
  every step. `Scan` is what the scanner makes of what was read: it gives nothing more of
  a stream from a line of over 1 MiB on. There are no crashes. The statistics loop, which
  remembers nothing, is left out.
* In `LogBatcher` an insert that reports an error, or whose process dies, may or may
  not have been done. A row that comes after `drain` is dropped, by design.
* The fast count of the admission transaction is read and never used.
* READ COMMITTED: each statement sees what is committed when it runs. The code
  sets no isolation level (`internal/database/db.go`).
* UUIDs do not collide; a target that names no row is `UnknownTask`.

## 3. What TLC checks

`CHECK_DEADLOCK FALSE` everywhere: when all the tasks of the bound are done, nothing
is left to do.

| Run | Bounds | Shows |
|---|---|---|
| `faults` | 2 workers, 3 tasks: starts, stops of the right and wrong row, provider and id; 1 slot; crashes, database and engine errors, admitted sweeper | `SlotBound`, `ExclusiveClaim`, `LaunchFresh`, `SlotInv` |
| `faults_loops` | 2 workers, 2 tasks, all loops of one process, all faults, AutoRemove | `TypeOK`, `OwnInv`, `AuditAgrees`, `ReaperSpares`, `NoRequeue`, `LivesAsPromised` (refinement of `LifeCycle`) |
| `slow_gpu` | 2 workers, 3 start tasks of every class and provider; 3 slots, 1 slow, 1 device with 1 slot; admitted sweeper | `SlowBound`, `GpuBound` |
| `one_worker` | 1 worker, 3 tasks, slow ones and fast ones with a GPU, stops and restarts of anything, sweepers and reconciler, no faults; 3 slots, 1 reserved for fast tasks, 1 device with 1 slot | `FastReserve`, `ProcessingHeld`, `ContainersAccounted`, `StopEffective`, `RestartReplaces`, `OnlyGpuRefused` |
| `answers` | 2 workers, 2 tasks, 1 slot, stop calls, reconciler, runtime sweeper and reaper of one process, callbacks; `ToldSpec` | `FinalTold`, `StopAnswersAgree`; under fairness `EveryRequestAnswered`, `OrphansReaped` |
| `logs` | 1 worker with all loops, 1 start and 1 stop request, up to 3 lines, of which the first is too long and the third on stderr, reads and inserts of the log loop that fail, first tail of 1 line and last flush of 2 | `EndOfLogKept`, `NothingSkipped` |
| `log_batcher` | 2 rows, batch of 2, up to 4 rows logged, inserts that are done and report an error up to 7 rows in the table; `FairSpec` | `KeptInOrder`, `PipePromise`, `EveryRowArrives` |
| `gpu_slots` | every list of up to 5 entries over 2 devices and a blank, 4 tasks | `LetsInWhatFits`, `AttachesEachDeviceOnce`, `RemainingPredictsEntry` |

Why these bounds. The races are between two workers, or a worker and one
background loop; with one slot two workers already exceed the cap by the one
task that `SlotBound` allows (`claim_cap` shows the bound is reached), and the
third task is the one that must be kept out. In `one_worker` three tasks are a
stop, its target and the clone of a restart, or two GPU tasks for one slot and a third
that wants none. Two tasks are enough for a start,
the stop that races it, and the loops that act on either. The proofs of section 5
cover every safety property of every run for any number of tasks, lines, rows and
devices and, where the property is not one of a single worker or process, for any number of
those. For `NothingSkipped` two lines suffice (one asked for, the next one not); the third
is behind the long line on the other stream, which the scanner does give. In `log_batcher` a batch and the rows behind it are in
flight at once with four rows; the bound of the table stops an insert from being done
and put back for ever.

Fairness. `ToldFairness` (`Callbacks`): weak fairness of each worker's claim loop, of
each process's reconciler and of each reaper goroutine, each including the calls it
waits for: they are Go loops that sleep for a bounded time between two rounds and never
stop while the process lives, and the HTTP client has a timeout. A sweep that has begun
goes on, but no row need ever be found overdue. A workload that occupies a slot ends at
some time; without that a full system stays full: a refused task goes back to the head
of the queue, so that a stop behind it may not be reached before some workload ends. A
workload whose row is final may run for ever, so that only the reaper removes an orphan.
Nothing is assumed of clients. `EveryRequestAnswered` and `OrphansReaped` are checked
without faults: after a crash they do not hold (see below). `Fairness` (`LogBatcher`):
the ticker ticks, an insert ends (it has a timeout of 8 seconds), and the table is not
out of order for ever: strong fairness of `InsertDone`, because each failed attempt ends
the chance of that attempt to succeed.

Every property has a mutant of the code (`mutants` in `PROJECT.json`, defined next
to the definition it changes), with which TLC finds it violated.

## 4. Where the code departs from its documents

Each of the first four is a run whose counterexample is found by TLC, of a property of
`Claims` or `MCLogCollection`.

* `claim_cap`, `GlobalCap` ("总并发不超过 MaxConcurrentRunning",
  `internal/scheduler/admit.go:21`). Two workers, one slot: both claim, both count
  zero, both admit. What does hold is `SlotBound`: one row too many per
  additional worker, at any time.
* `claim_stop`, `StopRequestStops` (`docs/ARCHITECTURE.md:97`). Two workers: one
  starts a task and has not written the ref, the other stops it: nothing to stop, the
  request succeeds and is recorded ok, and the container starts. With one
  worker the two cannot overlap, and `StopEffective` holds.
* `claim_device`, `DeviceCap` (`docs/CONFIG.md:125`). One worker dies after
  `ContainerStart` and before `UpdateRuntime`; the admitted sweeper fails the row; its
  container, to which no ref leads, runs on next to the one of the next task on
  the same device slot.
* `claim_logs`, `StopKeepsLog` (`docs/CONFIG.md:174`). The last lines of a stopped
  task are collected after `Stop` has removed its container, so what was written
  since the last look of the log loop is lost. Tick, which collects before it
  writes the status of a container that has ended, does keep them (`EndOfLogKept`).

Met while modelling, and part of the models without a run of their own:

* A task is admitted, its Run is slow, the admitted sweeper fails it, Run returns
  and `UpdateRuntime` makes the failed row running (终态, `docs/ARCHITECTURE.md:93`).
  This is why a launching row of `LifeCycle` may say anything, and only a row that
  its worker has let go of is over for good.
* A crash, or a failed statement, right after the claim leaves a row in
  processing, at which no sweeper looks (`docs/ARCHITECTURE.md:95`). Without these
  faults every such row is in a worker's hands (`ProcessingHeld`).
* The admitted sweeper writes an end and sends no callback
  (`docs/ARCHITECTURE.md:77`); a callback that fails is not sent again.
* The log loop moves the time of the next fetch on before it knows that the lines have
  arrived, so that these are never asked for again (`lost` in `LogCollection`): those of
  a batch that could not be inserted (`docker_mon.go:296`), the rest of an answer that
  breaks off, for `StdCopy`'s error is dropped (`docker_mon.go:284`; the limit of 60
  seconds is one for all containers of a round), and the rest of a stream behind a line
  of more than 1 MiB, for the scanner's `Err` is not looked at (`docker_mon.go:57`).
  `docs/CONFIG.md:173` says 之后按时间增量 (incremental by time from then on), and
  `docs/API.md:313` has lines in the table after one successful fetch; neither speaks of
  these gaps. What can be said is that all gaps come from there: nothing is skipped by
  what is asked for (`NothingSkipped`), and without such losses there are no gaps
  (`WithoutLossesNoGap`).
* `docs/ARCHITECTURE.md:145` says that the `device_ids` sent to Docker may contain
  repeated ids (可含重复 id). They cannot: `ResolveNVIDIADeviceIDsForAttach` gives each
  device once (`AttachesEachDeviceOnce`, `AttachIsEachDevice`), as `docs/CONFIG.md:125`
  and `docs/ARCHITECTURE.md:138` say.
* The comment at `internal/controller/http.go:62` says that who does not want to wait in
  the queue may stop the task. Such a stop fails: `executeStop` takes admitted and running
  targets only (`Stoppable`; `pipeline.go:244`), and a single worker does not even come to
  it before its target, which is older, has been admitted.
* A write that is done and reported as failed leaves a row its worker gives up: admitted
  without anyone starting it, until the sweeper fails it, or a stop request that is
  succeeded without audit row (`AnswerLost`).
* A `main` that ends by `os.Exit(1)` does not run the deferred drain of the log
  batcher; what was in the buffer is lost (`Exit` of `LogBatcher`).

## 5. What is proved

The theorems about the scheduler are of `Spec`, for every value of the constants that
satisfies the assumptions: finite sets of workers and tasks, integer limits, `Processes`
a subset of `Workers`, any set of faults. Some need more, and the table says so: a
theorem that holds for *one worker*, for *one process* or *without faults* names that as
a hypothesis, and `claim_cap`, `claim_stop` and `claim_device` show what happens without
it. Those about callbacks are of `ToldSpec`, without crashes, database errors and the
admitted sweeper, as `Callbacks` assumes; those about log lines of `LogSpec`, without
crashes, database and engine errors, as `LogCollection` assumes. Those about the log batcher are of its `Spec`, for
any rows, any positive batch size and any failures; those about the GPU functions of
`HostSpec`, for any list of devices and any tasks. No fairness is used. Each invariant
was checked by TLC before it was proved.

| Theorem | Module | |
|---|---|---|
| `TypeCorrect` | `OwnershipProofs` | `[]TypeOK` |
| `Ownership` | `OwnershipProofs` | `[]OwnInv` |
| `ClaimsAreExclusive`, `LaunchesAreFresh` | `OwnershipProofs` | `[]ExclusiveClaim`, `[]LaunchFresh` |
| `NothingIsRequeued`, `ReaperSparesLive` | `OwnershipProofs` | `NoRequeue`, `ReaperSpares` |
| `SlotsCommitted`, `SlotsBounded` | `SlotProofs` | `[]SlotInv`, `[]SlotBound` |
| `OneWorkerKeepsCap` | `SlotProofs` | one worker: `[]GlobalCap`, the cap exactly |
| `SlowTasksBounded`, `FastKeepReserve` | `SlotProofs` | `[]SlowBound`, `[]FastReserve` |
| `GPUSlotsBounded` | `SlotProofs` | `[]GpuBound` |
| `OneWorkerKeepsDevices` | `SlotProofs` | one worker, no faults: `[]DeviceCap` |
| `OneWorkerRefusesOnlyGpu` | `SlotProofs` | one worker: `OnlyGpuRefused` |
| `AuditTrailAgrees` | `AuditProofs` | `[]AuditAgrees` |
| `NothingIsLost` | `AuditProofs` | no crashes, no database errors: `[]ProcessingHeld` |
| `ContainersAreAccounted`, `StopsAreEffective` | `AuditProofs` | one worker, no faults: `[]ContainersAccounted`, `[]StopEffective` |
| `RestartsReplace` | `AuditProofs` | one worker, no faults: `[]RestartReplaces` |
| `EndsAreTold`, `StopAnswersAreSound` | `CallbackProofs` | `[]FinalTold`, `[]StopAnswersAgree` |
| `EndsAreKept` | `LogCollectionProofs` | no last fetch fails: `[]EndOfLogKept` |
| `OneProcessSkipsNothing` | `LogCollectionProofs` | one process: `[]NothingSkipped` |
| `WithoutLossesNoGap` | `LogCollectionProofs` | one process, nothing fails, no line too long: no gap in table and batch |
| `LifeInvariance` | `LifeCycleProofs` | `[]LifeInv` |
| `TaskImplementsLife`, `SchedulerImplementsLives` | `LifeCycleProofs` | `Spec => Life(t)!Spec` for a task; `LivesAsPromised`, all at once |
| `RowsKeptInOrder`, `BatcherImplementsPipe` | `LogBatcherProofs` | `[]KeptInOrder`; `PipePromise`, the refinement of `LogPipe` |
| `CountingIsPlacing`, `AttachIsEachDevice`, `RemainingIsTrue` | `GpuProofs` | `[]LetsInWhatFits`, `[]AttachesEachDeviceOnce`, `[]RemainingPredictsEntry` |

**Types.** `TypeOK` alone is not inductive: the clone of a restart copies
`req[r.stop].target`'s columns, which is well typed only if that target is a task. The
proof carries `RestartsKnown` along, one step per action.

**Ownership.** None of the safety properties is inductive: nearly every writer ignores
what the row says, so they hold only because of *who* can still be holding a copy.
`OwnInv` says so:

* `HoldsTask`: a worker's step tells the state of its row (deciding: `processing`;
  starting: past the queue; stopping: a stop request in `processing`; auditing: one that
  says `succeeded`, or `failed` if that could be written, according to the path).
* `Settled(t)`: row `t` is a start past the queue and nobody is starting it. Such
  a row only ever moves among admitted, running and the final states, and a
  settled row that is final stays final.
* `CopiesSettled`: a row has a ref only when settled, so everything listed by ref
  (reconciler, sweeper, reaper) or stopped by ref is of settled rows; what the
  reaper watches is settled and final.
* `ContainersFresh`: containers belong to rows past the queue, and a start has none
  before its create.

The proof is in terms of effects: each step of a worker is shown to change its own
memory and its own row only, or a settled target in an allowed way (`RowsEffect`,
`MemoryEffect`, `ContainersEffect`, `StepOwn`), and one lemma shows that such a
step keeps every conjunct. The background loops have the same treatment. The
properties then follow from one step and `OwnInv`.

**Slots.** `Committed` is the set of rows that occupy a slot together with the tasks of
the workers that have counted a free slot and have not finished starting (`Granted`). A
new member joins only when a worker's count is taken, and then the occupied rows are
fewer than the cap, while each other worker adds at most one; so `Committed` never
exceeds the cap plus the other workers (`SlotInv`). The task whose row is failed and
made running again is in the set all along, which is why the bound survives it.

**Slow tasks and the reserve.** The same argument twice, with sets of slow tasks. The
slow cap is compared with the slow rows at the moment the policy is applied, so what
joins is promised from then on (`SlowInv`). The reserve is compared with the total that
was counted one statement earlier, so a slow worker that has counted fewer rows than the
limit is in its set already (`FastInv`). A limit of zero admits no slow task at all,
however many workers race. Both are carried together and rest on `OwnInv`.

**GPU slots.** Again the set of rows that occupy a slot and of those promised one
(`GPUCommitted`), but the limit is that of the host that checks, and hosts may have
different lists. So `GPUInv` keeps a witness: the last worker to have found room has
counted all the rows, and each other worker adds at most the one promise that is not a
row yet (`RoomOn`). Between two successful checks the set only shrinks. The limit is per
device, of a function that counts entries of a list; of it the proof needs no more than
that its values are numbers, and that the check compares every one of them with the
number of tasks, the candidate included (`GPUCountEach` of `GpuProofs`).
`OneWorkerRefusesOnlyGpu` follows: a single host's occupied slots are within its own
list, so that the check has no reason to refuse a task without a GPU. With unequal hosts
it has, see section 6.

**GPU accounting.** The functions are about the entries of a list picked in order
(`Picked` of `GpuSlots`): the non-blank ones, the first of each id. What `Picked`
returns is proved without induction, from the rank of a position among the picked ones,
a cardinality: ranks grow (`RankGrows`) and each is taken (`RankOnto`), so
`PickedKeeps`. Hence a container is given every device once, in order (`AttachList`),
each GPU task takes one slot of each device (`NeedsOfTasks`), and the check is a
comparison of two cardinalities (`GPUCountEach`), which is what placing tasks on
separate entries comes down to (`PlacesByCounting`).

**Audit.** `AuditAgrees` is not inductive: a step on a request that has a record would
break it. `AuditInv` adds that once the record is there nobody holds the request;
records are written in the last step, with the ok of the path taken, and by `OwnInv` that
step tells what the row says, for nobody but a holder writes the row of a stop request. `HeldInv` says who has to write a row in processing, and that a stop
which reaches its record has written its row.

**One worker.** With one worker and no faults the docs' stronger promises hold, and
`SoloInv` says why, on top of `OwnInv`, `AuditInv` and `HeldInv`. A container that is
alive has a ref in its row or is being started, and its row occupies a slot or is being
started (`ContainersKnown`): no step fails between `ContainerStart` and `UpdateRuntime`.
A loop or a worker about to write an end has seen that the container does not live
(`LoopsSawEnd`, `WorkerSawEnd`); that cannot change any more, since a `Dead` task is
settled and only a start makes a container live (`WorkDead`, `AdvanceDead`). A stop that finds no ref
finds a task nobody is starting, for the only worker is busy with the stop: this is the
step at which `StopEffective` needs the one worker. For a restart, the order of ids
decides (`RestartInOrder`): the worker takes the clone only when it has finished the
older stop. `DeviceCap` then follows from `ContainersKnown` and `GPUInv`.

**Callbacks.** `ToldSpec` implies `Spec`, so ownership, audit and `ProcessingHeld` carry
over. `AnswerInv` adds two things. The end a final row tells of has been heard, or is on
its way (its body still unread, or read since), or is the next thing a worker says:
between the marking of a target and the end of the stop request that marked it, the
event is known only from the worker's place (`ToBeSaid`). Whoever writes an end fires in
the same step or is such a worker (`WorkEnds`, `TickEnds`, `SweepEnds`), and a sender
takes its next step only when it has sent everything. And an answer to a stop comes
after its audit row, from which time on row and record are fixed (`SoundKept`), so what
is read for the body agrees.

**Log lines.** `LogSpec` implies `Spec`. A container that has been seen to end writes
nothing more, so its last lines are fixed once it is `Dead`; `EndInv` says that whoever
owes the last lines of a task owes those of a dead one, and that a reconciler about to
write `succeeded` has collected them or owes them, in which case it collects them first.
This holds for any number of workers and processes, but a last fetch that fails is not
repeated, hence the hypothesis. `GapInv` is for the gaps: behind any line that was asked
for (stored, lost or in the batch), everything is, up to the time the next round asks
from. Every fetch asks for a suffix of what has been written, whatever it gets of it. A
round of the loop asks from where the last one began, or takes a first tail; a final
flush takes a tail of a dead container and moves no time, so that whatever line it begins
with, nothing is missing behind it (`GapSuffix`). A container without an entry in
`sinceByID` is the special case: only a final flush can have asked for its lines, and
then to its end. With two processes a line one asked for says nothing of what the other
asks for, hence *one process*. What is asked for is stored, in the batch or lost, and
where nothing fails and no line is too long nothing gets lost (`NothingLost`), so that
there is no gap (`WithoutLossesNoGap`).

**Life cycle.** Each step is classified by what it does to a row (`RowMoveLives`) and to
a container (`ContainerMoveLives`); per action it remains to show which rows and
containers it touches (`WorkRows`, `LaunchMoves`, `BackgroundMoves`). The rows the
background loops write are settled (`OwnInv`), hence live or over; the row a worker
starts is launching, where anything goes. `StartsCreated` excludes that a container is
started which somebody has touched since its creation: nobody else can, for no ref leads
to it yet.

**Log batcher.** `BatcherInv`: the batch under way followed by the buffer is the end of
what was accepted, in order, and nobody adds to the buffer while a batch is under way. A
row accepted is appended to both sides, a failed batch goes back in front, an insert
done takes it off (`InHand`, `Together`, `OneMore` about `SubSeq`). An insert then adds
the stretch behind `Upto` to the table, as `LogPipe` has it.

## 6. Only model-checked, and not modelled

Checked by TLC only: the liveness properties `EveryRequestAnswered`, `OrphansReaped` and
`EveryRowArrives`, for TLAPS has no reasoning about fairness and ENABLED here. Every
other property of every passing run is a theorem. The four properties of section 4 are
refuted by TLC; under hypotheses three of them are theorems: `OneWorkerKeepsCap`,
`OneWorkerKeepsDevices` and, for `StopRequestStops`, which says what `StopEffective` says,
`StopsAreEffective`.

Not modelled, and why:

* Payload and resource parsing (`startparams.go`, `hostresource.go`, quantities): text
  to numbers, then a refusal; `Runtime` lets the check refuse any docker task.
* ClickHouse tables and queries, the read-only API, views: SQL text and mapping of
  results, no state that a property depends on.
* Configuration and migration: defaults and DDL; the values that decide something are
  constants, any value of which is allowed.
* Callbacks that fail, crashes and database errors in `Callbacks`; crashes and engine
  errors in `LogCollection`: what then remains of the promises is a loss that section 4
  names, and none of the properties is stated for it.
* Unequal hosts. `HostGPUIDs` and `AllowedProviders` are per worker, but all workers
  share one docker engine in the model. A host without `gpu_ids` refuses every docker
  task while a GPU task of another host runs (`gpuslots.go:147`); that this takes two
  hosts is `OnlyGpuRefused`, but there is no run with two.
* The engine's own failures beyond what a call may answer and leave behind; a database
  that loses committed data.

## 7. Plan

Order of work; 1 to 10 and 12 are done.

1. `TaskTable`, `Admission`, `Runtime`, `Worker`: claim, admission, start, stop.
2. `Sweepers`, `Reconciler`, `Controller`, composed in `Scheduler`; runs with and
   without faults.
3. `GpuSlots` against placement.
4. `Claims`: documents against code.
5. Proofs: types, ownership, slots.
6. `Callbacks`: the ends of a task as its client hears them.
7. `LogBatcher`: no loss and no reordering while inserts fail.
8. `LogCollection`: the log loop and the final flush against the removal of containers.
9. `LifeCycle`, shown to be implemented by TLC and by TLAPS.
10. Proofs of `SlowBound`, `FastReserve`, `AuditAgrees`, `ProcessingHeld`, and of
    `FinalTold` and `StopAnswersAgree`, whose specification extends `Spec`.
11. Hosts with engines of their own, other `gpu_ids` and `allowed_providers`.
12. Proofs of `GpuBound`, of the one-worker properties, of `EndOfLogKept`,
    `NothingSkipped` and of the GPU functions.
13. Proofs that remain: what of the properties of `LogCollection` and `Callbacks` holds when
    processes crash, and the safety properties of `LifeCycle` and `LogPipe` themselves, which
    the scheduler and the batcher inherit.
