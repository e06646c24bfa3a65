# A model of robotsim

robotsim runs scheduling experiments on a simulated robot. A scheduler decides one window of tasks at a time, a
Gazebo world that is paused between windows advances by a fixed number of physics steps per window, worker processes
confined by a cgroup stand for the tasks, and six JSONL files record what happened. This directory holds TLA+ models
of that program, the TLC runs that check them on small instances, and TLAPS proofs of what matters most for all
instances. Paths below are relative to the repository; `rs/` stands for `src/runtime_scheduler/runtime_scheduler/`.

## The system

| component | state it keeps | operations | talks to |
|---|---|---|---|
| `SteppedExperimentLoop` (`rs/stepped_loop.py`) | `window_idx`, the open window's timestamp | `run` | stepper, sampler, generator, policy, adapter, sink, cycle source |
| `SimStepper` (`src/infra/gazebo/sim_stepper.py`) | `_latest_stats` | `step`, `sim_time_us`, `_on_stats`, `close` | Gazebo, by a request and by a subscription whose callback is on a transport thread |
| `TraceSink` (`src/telemetry/telemetry/trace_sink.py`) | six append-only files | `write` | the file system |
| policy (`rs/policy_core.py`, `rs/task_catalog.py`) | none | `plan_critical_first_fifo` | - |
| `PoissonLocalToolGenerator` (`rs/workload_generator.py`) | random state, `_sequence` | `next_arrivals` | - |
| `ExecutionAdapter` (`rs/execution_adapter.py`) | none | `execute_window` | `/cmd_vel`, worker manager |
| `WorkerManager`, `VeeRuntimeEnforcer` (`rs/worker_manager.py`, `rs/vee_runtime_enforcer.py`) | `_task_pid_map`; the cgroup | `ensure_workers`, `resume_task`, `stop_task`, `attach_pid` | the operating system |
| `controller_cycle_metrics_publisher` (`src/robot_control/scripts/`) | last clock, next expected start and sequence number per controller | clock callback, timer callback | `/clock`, `/controller_cycle_metrics` |
| `TopicControllerCycleSource`, `ControllerCycleAggregator` (`rs/controller_cycle_*.py`) | a deque of records | `drain_window`, `aggregate_window` | the topic |
| `E2ERunner` (`rs/e2e_runner.py`) | two children, the summary | `run`, `_graceful_shutdown`, `_finalize`; Ctrl-C in any of them | the simulation and scheduler processes |
| experiment set-up and fallback (`rs/main.py`, `rs/experiment_id.py`) | the offline marker, the ROS context, open nodes | `run_stepped_experiment`, `run_experiment`, `main` | everything above |
| Scheduler API (`rs/scheduler_api/`) | latest version per task; digest and result per command | `push_task_snapshot`, `accept`, `merge_node_state`, `validate_sync_command` | a task system and callers; not wired to the loop yet |
| `SimpleScheduler` demonstration (`rs/scheduler_api/simple_scheduler.py`) | a coordinator of its own, a result file | `run_mvp_once` | the classes of the scheduler API |
| `HybridModeTrigger` (`rs/mode_trigger.py`) | window of the last raise | `decide` | no caller yet |
| configuration (`rs/config.py`) and VEE start-up script (`scripts/vee/`) | none; the cgroup's limits | `load_config`; `enforce_startup` runs the script | `main()`, before and during the set-up |
| `RealResourceSampler` (`src/telemetry/telemetry/real_resource_sampler.py`) | last counters and when they were read | `sample` | `/proc`, the cgroup, `nvidia-smi`; called once a window by the loop |
| trace analysis (`src/analysis/analyze_trace.py`) | none | `analyze_trace` | three of the six files, in a process of its own |
| launch files, robot description | none | | Gazebo, ros2_control |

What makes it hard:

* *Interleaving.* The clock the loop reads is written by a transport thread; the cycle publisher fires on wall-clock
  time and measures simulated time; the children of the supervisor exit whenever they like.
* *Timeouts and lost requests.* `step()` gives up after five seconds and does not say so, and does not look at the
  result of its request, so Gazebo may owe steps from windows long counted.
* *Partial failure.* Spawning, attaching, publishing, sampling or writing may raise in the middle of a window; SIGTERM
  skips the `finally`.
* *Stale state.* The pid map outlives the processes; a clock that has received nothing reads 0; the offline marker is a
  module global.
* *Observers.* A report may be made of a trace that is still being written, or that ends in the middle of a line; the
  sampler's rates rest on counters that go back and on reads that fail.
* *Unreliable delivery.* Task snapshots arrive late, twice or out of order; commands are retried and their ids used again.
* *Bounded buffers.* The topic keeps 100 messages and a drain takes 8.
* *Liveness.* The loop ends by simulated time and the supervisor by its scheduler: both may wait for a dead simulator.

What makes each part correct: the *loop and stepper* keep simulated time and decided windows in step with each other
(neither runs ahead of the other, whatever is lost); the *sink's* six files agree with each other at every moment; the
*adapter and the worker manager* have one confined worker per task, in the state the plan asked for, and the robot
driven for the most critical running task; the *cycle pipeline* counts each cycle once and calls late exactly what is;
the *supervisor* leaves nothing running and tells the truth about it; *main()* never mixes the two kinds of experiment and
closes what it opened, and a *configuration* that cannot be run, or a confinement that is required and not there, leaves
no window behind; the *observers* charge nothing twice and name no window that was whole before they looked; the *scheduler API* goes by the newest it was told and answers a retried command as before; the *mode trigger* keeps its cooldown. `PROJECT.json` lists the hazards line by line with
the properties that would catch each.

## The modules

### WindowLog and SteppedExperiment

`WindowLog` is the promise of a step-locked experiment in a dozen lines: decide a window when the credit of the earlier
ones is spent, advance on credit only, finish when the duration has been simulated, or be cut short at any moment. It goes
on (`GoesOn`) as long as nothing cuts it short; the credit of a window whose request was never sent is never spent.

`SteppedExperiment` is the program: `run_stepped_experiment`, the loop, the stepper and the sink, with the parts of Gazebo
they rely on as external actions. `pc` walks through a window in the order of `stepped_loop.py:55-101`: `CheckTime` and
`Stamp` are the two separate reads of the clock (lines 55 and 56); `Write(k)` is one `sink.write`; `ExecuteWindow` is the
call of the adapter; `StepRequest`, `StepDone` and `StepTimeout` are the request, the end of the poll loop and the
deadline of `SimStepper.step`; `Raise` (a call that raises, the request included, or Ctrl-C, between any two steps), `Close`
and `Killed` are the ways out. `OnStats` is the callback on the transport
thread: messages arrive in order, some never, at any moment. `ExecuteStep` and `FreeRun` are Gazebo.

Abstractions: time is counted in physics steps, so `sim_time_us() < duration_us` is a comparison of naturals; a file is
the sequence of its rows, a row is its window number and timestamp; `task_events` and `controller_cycle_samples`, which
get several rows per window in consecutive writes, have one row per window here (a crash between two of them is a crash
before or after that one as far as the properties can tell). An outcome carries no time of its own; its `ts` is that of
the plan it names. A request that fails (`StepRequest` without new steps) and an abandoned wait share the bound
`MaxTimeouts`.

### WorkerPool and WorkerExecution

`WorkerPool` is the promise about the tasks' processes, whatever the sequence of windows: a task gets one worker, once; it
is confined before the next one is started; only a confined one is stopped and resumed; a dead one is never replaced.

`WorkerExecution` is the program: one window's effect on robot and processes. `BeginWindow` takes the arrivals in order, appends the controllers as the
loop does, orders them by `PlanCriticalFirstFifo` (an order of the positions in which each comes before every other it
is `Before`, as `sorted` with the code's key does) and hands the plan to `execute_window`, whose phases follow the code:
`EnsureKnown`/`Spawn`/`Attach` per task, `EnsureDone`, `PublishVelocity`, `SignalTask` per task, `EndWindow`; `CallRaises`
is an exception of `Popen`, the cgroup write or the publisher. The built-in policy decides RUN for every task, but the
adapter also executes other decisions, so `Decisions` is a constant: {RUN} for the program as it is, {RUN, STOP} for
whatever policy the adapter may be given. The operating system is external: `Die` turns a worker into a zombie, the next
`Popen` of the scheduler (`Spawn`, or the sampler's `nvidia-smi`, which is part of `BeginWindow`) reaps the zombies of earlier ones, a reaped pid may be given to an unrelated process (`Reuse`) or to a later
worker. The velocity is represented by the lane it is mapped from.
`StateOf` maps its state to that of the pool: a task with an entry in the pid map, or whose process has just been spawned,
has a worker, which is the living process spawned for it or gone. The stale entries of the map, and the processes that
got a worker's pid, do not show in the pool: a signal sent by one task's entry to another task's worker is a signal to that
one.

### ControllerCycles

Publisher, topic, source and aggregator around a stepped clock. `PublishCycleMetrics` is the timer callback: one record per
controller, with the clipped start, the projected end and the unclipped expectation of the code. `KeepLast` is the topic's
history. `DrainWindow` takes up to `SpinBudget` of the messages that are there, splits what it has by `IsReady`, flags by
`IsLate`, and appends the row with its counts. `Tick` and `OpenWindow` are the step at the window's end and the start of
the next one. It is a step that was waited for: windows whose step was abandoned, a clock that starts above 0 and a world
that runs free are `SteppedExperiment`'s and not followed here. Two variables are history only: `counted` (which record was counted in which window) and `lost`. The deque
of the source is a set of records here: they are told apart by controller and number, each drain goes through all of them,
and the rows that come of it are sorted before anything is read from them. `ControllerSample` builds a row with its counts
and its `Percentile`s: the cycles in the order of their lengths (`ByLength`, which is `sorted`) and the nearest rank of the
code; `Sample` has one for each of the aggregator's `KnownControllers` even if nothing arrived, and none for a controller
it does not know.
Without a source (`sourced` is false) `DefaultWindow` writes the rows of `DefaultRecords`, the one cycle per controller the
loop makes up itself. Publisher and loop each have a period of their own (`Period`, a parameter of the ROS node that the
launch file leaves at 20 ms, and `WindowLength`, which is `window_ms`, 50 ms in the configuration in the repository). Execution
times, which come from the machine's own clock, take the way of the periods and are
left out.

### E2ERunner

The supervisor between its blocking calls, and two children that run beside it. `phase` is the place in `run()`,
`target` the child `_graceful_shutdown` is at. `CallRaises` and `WriteRaises` are the exceptions of `Popen`, the
readiness check and the summary file; `WriteRaises` inside the `try` finalizes a second time as the code does. A
scheduler completes only while the simulation lives, which is what `SteppedExperiment` says of the loop. `Interrupt` is
Ctrl-C: a `KeyboardInterrupt` is no `Exception`, so it leaves `run()` from wherever it is, without `_finalize` and without
stopping what runs; what a terminal does to the children themselves is their own exit. `summary` is what this run wrote:
the path is the caller's to choose (the only callers are tests, with a directory of their own), and a `run_summary.json` that
was there before is not looked at by the code and not part of the model.

### ApiPromise and SchedulerApi

`ApiPromise` is what callers may rely on: what is known of a task only gets newer, and what a command id stands for is
settled once.

`SchedulerApi` is `ObservationProcessor`, `merge_node_state`, `validate_sync_command` and `CommandCoordinator`, called by a
task system and by callers nobody synchronises. `Publish` (external) sends numbered snapshots, upwards per task and none
after a terminal state (the code defines that state as terminal but cannot enforce it; `EndedTasksHoldNothing` rests on it); `PushTaskSnapshot` may be
called with any of them at any time, again and again, which is delay, duplication, loss and reordering in one. `Refuse`,
`Register`, `Conflict` and `Repeat` are the four ways through validation and `accept()`, in the order in which
`run_mvp_once` calls the two. `ObservationProcessor` keeps version numbers only; `view` is the snapshot its subscriber
keeps when `accepted` is true, and what the merge is called with. A payload is what its canonical JSON tells apart,
plus a `form` that it does not (the order of the keys): `Digest` drops the form. SHA-256 is taken to be injective.
`delivered` and `replies` are history. References to edges are left out: no code merges them.

### MainProgram

`main()`, as often as it is called. `pc` walks through `run_stepped_experiment` in the order of `main.py:229-306`: the import
of the stepper's module, the configuration and the experiment id, the three resources, the loop, the three calls of the
clean-up. `missing` says what an installation lacks; `ImportFails` is the `ImportError` main() catches, at whichever of the
three places that import (`CmdVelPublisher` and `SimStepper` import in their constructors), `SetupRaises` any other
exception, and `NoSource` the one that `main.py:282` catches. `open` holds what has been constructed and not closed, `context`
the run whose `rclpy.init()` is in effect: each of the two ROS users initialises it if it is down and shuts it down only if it
did so itself. `OpenFallback`, `FallbackWindow`, `FallbackDone` and `FallbackRaises` are `run_experiment` inside the
`try ... finally` that resets the marker. Whether the process survives an exception of `main()` is up to its caller (the
tests call it in one process, the supervisor starts a new one): `NewProcess` may or may not happen in between. The stepped
loop is `SteppedExperiment`; here a window of it leaves rows and nothing else. One controller stands for the two of the
catalogue. `ended` is history, and rows carry the number of the call that wrote them, which the files do not.

### RunSetup

What `MainProgram` leaves open: which file `load_config()` reads and what it returns. `LoadConfig` is that function over the
entries the set-up depends on (`File`): a missing section or key, an empty one or a wrong kind is refused at once; ranges
are not looked at, and are refused where they bite: in the constructors of generator and stepper (`ConstructorsRefuse`), in
the loop (`LoopRefuses`) or in the fallback. `Truth` is `bool()`: the text "false" counts as true. `Accepted` restricts the
steps of `MainProgram` to those the configuration lets happen; the steps that raise are `MainProgram`'s. `Configure` with
`StartupPasses` or `StartupRaises` is `enforce_startup()`, which runs the script with no arguments (so the `vee.cpu` and
`vee.memory` entries of the file never reach it) and raises unless it returns 0; the script stops at the first step that
fails, and what it wrote before stays in the cgroup, beyond the process. The fallback does not look at
`enforcement_required`. How many windows the fallback writes follows the constants of the instance and not the file's
`window_ms`; no property speaks of the number. `RunSetup` implements `MainProgram` (theorem `Implements`).

### TraceAnalysis, ResourceSampler and ObservedExperiment

`ObservedExperiment` is `SteppedExperiment`, the whole of its `Next`, with two observers. `ResourceSampler` is the part of
`RealResourceSampler` that remembers: `SampleRead` is one read of a cumulative counter, `SampleFails` one that raised,
`Kernel_*` what happens to the counter and the clock in between; a counter goes back to 0 when the cgroup is made anew, and
to anything below when one interface of several goes away. CPU time and network bytes are two meters of one shape that
share nothing, so `meter` picks one. A rate is represented by its product with the interval, which is what it says was
used. The loop samples where it takes the timestamp (`StampAndSample`).

`TraceAnalysis` is `analyze_trace.py`, in a process of its own, started at any moment of the run or after it. It sees files
where the loop's model has rows: `LineBegins` is the part of `TraceSink.write` up to a flush within the record (the file
exists, its last line may be torn), `LineEnds` the rest; whatever ends the run between the two, an exception or SIGTERM,
leaves the file like that. `Analyze` insists on the three files, `ReadFile` reads them in the order of `_build_task_flow`,
`ReadFails` is `json.loads()` raising at a torn line, and `Anomalies` are the windows where a stage counts more than the one
before. `begun` is history.

### SimpleScheduler, ModeTrigger and ControlPlane

`SimpleScheduler` is `run_mvp_once()`: an instance of `SchedulerApi` with a coordinator of its own, driven through the calls
in the order of the code (`Calls`): per node a lifecycle command and a quota, then the probe of the conflict. The default
quotas of the nodes are not validated by `NodeSpec`, so the validation may raise in the middle. Of the demonstration's nodes
the camera, an optional reference of high priority, is stopped: the merge goes by activation only. `ModeTrigger` is `decide()`
under a caller that asks once a window and may begin a new experiment with the same trigger. `ControlPlane` puts them
beside the API. They share no variable, so a behaviour moves one `part` only, and the run's states are the sum and not the
product of the parts'.

## The runs

| run | instance | shows |
|---|---|---|
| `SteppedLockstep.cfg` | the whole `ObservedNext` (`MCSpec`); paused world at 0, 5 ms windows of 2 ms steps (rounded down to 2 steps), 6 steps long, every step answered, any call may raise, the process may be killed, every record may be torn; a sample a window, with 3 units of use and 3 of time, or an analysis, again and again, at any moment of the run and after it | `CoversDuration`: the windows decided by a run that ends by itself are exactly those that cover the duration. `StillWorld`: the world does not move while a window is decided. `ImplementsWindowLog`: safety and liveness of `WindowLog`, with the clock for `now`, the outcome file for `log` and the way the loop was left for `state`. `SamplesAccount`: nothing is charged twice. `AnomalyNeedsRace`: only a window whose row came between the start and the end of the analysis can be called an anomaly, so none on a trace nobody writes any more, however its run ended |
| `SteppedFaults.cfg` | both launch modes, the world at 0 or 1 at the start, 5 steps long, two abandoned waits or lost requests, any call may raise, the process may be killed | `AlignedTrace`, `TimestampsOrdered`: the files agree and never go back. `AdvanceNeedsPlan`, `WindowNeedsTime`, `BoundedBacklog`: simulated time and decided windows keep to each other within the abandoned waits. `RunEnds`: the loop ends |
| `SteppedRaiseDoc.cfg` | any call may raise | *violation*: a window of task events that exists in no other file |
| `Workers.cfg` | one controller, up to two tools, three windows, three pids, two deaths, every decision | `OneWorkerPerTask`: no task ever has two workers alive. `RememberedIsConfined`: a worker the manager knows is in the cgroup. `WorkersAccumulate`: the program ends no worker, and only an exception between `Popen` and the map loses sight of one. `DrivenByMostCritical`: the velocity is that of a critical task if one runs. `PlanIsInEffect`: after the window each living process is as the last action that names it decided, shared pids included. `ImplementsPool`: the refinement of `WorkerPool` |
| `WorkersSignalDoc.cfg` | the same, every decision RUN | *violation*: a signal that reached nobody is not recorded |
| `Cycles.cfg` | two controllers, one unknown to the aggregator, with or without a source, four windows, four timer fires, a topic of depth 4, 3 messages per drain | `CyclesConserved`: each cycle is counted once, waiting or known to be lost. `Attribution`: late is exactly what ended before the window. `RowsDescribeCycles`: counts and percentiles of each row are those of its cycles. `OnTimeIsBoundaryOrProjected`, `CyclesEvenlySpaced`: what the timestamps can mean |
| `CyclesLateDoc.cfg` | room for everything | *violation*: a late record is counted in the window that drains it |
| `E2E.cfg` | every call may raise, either child may exit or ignore SIGTERM, Ctrl-C at any moment | `NothingLeftRunning`: once finalized, nothing runs. `ExperimentUninterrupted`: a scheduler is told to stop only when its simulation is gone, and the simulation only when no scheduler runs. `SummaryIsTrue`: reason, status and codes are what happened; the one reason that may hide a success is that of an exception after it. `ReturnsOrHangs`: the run ends, or waits for a scheduler whose simulation is gone |
| `E2ECrashDoc.cfg` | only the simulation may crash | *violation*: the runner does not notice |
| `Api.cfg` | two tasks (one critical) of two snapshots each, a core node and two others, two command ids, five payloads of which two mean the same and one is out of bounds, three different answers; default quotas in and out of bounds; a cooldown of two in experiments of five windows | `EffectiveIsNewest`, `EndedTasksHoldNothing`: the merge speaks for the newest snapshot of each task. `OneAnswerPerCommand`, `ConflictIsJustified`: retries get the first answer, conflicts have a cause. `ImplementsPromise`: the refinement of `ApiPromise`. `ResultIsWhole`: a result file stands for a command and a quota of every node. `CooldownHolds`: no cooldown is cut short, and only a trigger used before lengthens one |
| `Main.cfg` | `SetupSpec`; two calls within two seconds, every subset of the packages missing, any call may raise, nine kinds of configuration file | `OneModePerRun`, `MarkerScoped`: simulated and offline windows never mix. `OpenPublisherHasContext`, `LeftOpenForAReason`: what stays open is usable and explained. `EventIdsUnique`. `RefusedConfigTracesNothing`: a configuration that cannot be run leaves no row. `ConfinedIfRequired`: a run that requires it is under limits its own script wrote |
| `MainIdsDoc.cfg` | the offline experiment twice, nothing raises | *violation*: two outcomes of one window under one experiment id |

The bounds are named constants. The stepped runs need three windows at most: one to be abandoned, one to be charged
with its late steps, one to see that the account is right again; `MaxTimeouts = 2` lets a lost request and an
abandoned wait combine. `FreeRunCap` stops an unpaused world just below the duration plus a window. Workers need three
windows (spawn, die, be reused and signalled) and three pids for three tasks, so that a fourth worker can only have a
reaped one. The cycle run has windows of one and a half cycles, more records than the topic has room for and more
messages than one drain takes; the values of the code (100 and 8) differ only in how long that takes. Two versions
suffice for the API because acceptance compares a snapshot with one number; three answers, because its properties
relate two replies and a refusal may come before or between them. Two calls of `main()` are what one call can do to
the next; a third meets nothing the second did not. The configuration files are one that is sound and one for each way
of being otherwise. Three units of use and of time let a read fail, fall on the instant of the one before, and meet a
counter that went back, wholly or in part, in any order with two successful ones. The two observers share no variable and no property
reads both, so a behaviour of the run has one of them: `MCOneObserver` lets the sampler's counters move only while nobody
has analysed the trace, and the run's states are a sum and not a product. The theorems are about both at once, and about
abandoned waits and free-running worlds beside them, which in the runs are `SteppedFaults.cfg`'s. Three windows let the three
files differ by a row in any way the loop can leave them, and an analysis straddle a window; it may be repeated at will. A cooldown of two
windows has a middle, and five windows hold a second raise after its end. Pids are symmetric and nothing distinguishes
them, hence the symmetry set in the worker runs: their properties are invariants and a refinement whose states name no pid. Deadlock is checked everywhere but in
`Api.cfg`, whose demonstration ends: elsewhere a finished program stutters in `Terminated`.

Fairness. (`ObservedSpec` assumes the same as `Spec`, and nothing of sampler, kernel and analysis.) The loop is a
sequential program (`WF(Progress)`), its deadline comes (`WF(StepTimeout)`), Gazebo executes what it accepted and
keeps publishing (`WF(ExecuteStep)`, `WF(OnStats)`). Nothing is assumed of `FreeRun`, of failures, or of a request
being accepted. `RunEnds` is therefore a statement about a living simulator: one that stops publishing leaves the loop
going round for ever, one window per five seconds, which is the hazard at `stepped_loop.py:55`, and why
`ReturnsOrHangs` has a second disjunct. The bound `MaxTimeouts` is in the guard of `StepTimeout`, so a wait beyond it
can only end by success; a request can be lost only while the bound leaves a timeout to recover from it. In
`E2ERunner` the runner's own steps are weakly fair; `ReadyTimeout` is strongly fair because it is enabled each time
around the readiness loop only; a scheduler with a living simulation completes. Nothing is assumed of a child that was
asked to terminate.

### Disagreements between code and documents

The five violation runs are described under "findings" in `PROJECT.json`, with the line of the code and of the design
document each. In short: an exception in the middle of a window orphans its task events; a signal that was not delivered
is reported as success; a late record is counted in the window that drains it and not in its own; a simulation that
crashes under a running scheduler goes unnoticed; two experiments within one second share an id and its files.

## The proofs

Eight modules are checked by tlapm, for every value of the constants that satisfies the named assumptions:
`SteppedExperimentProofs`, `ObservedExperimentProofs`, `WorkerExecutionProofs`, `ControllerCyclesProofs`,
`E2ERunnerProofs`, `ControlPlaneProofs`, `MainProgramProofs` and `RunSetupProofs`. The assumptions are `StepAssumption` (a window is at least one
physics step: `run()` and `SimStepper` refuse anything else), `RunAssumption` (naturals and sets of naturals),
`TaskAssumption`, `DecisionAssumption` and `BoundAssumption` (no tool is a controller, RUN can be decided, pids are finitely
many), `TimeAssumption` (periods, steps and the topic's depth are positive, a step is no longer than a window; the
aggregator knows controllers of the publisher only), `CooldownAssumption` (what the trigger's constructor accepts),
`DemoAssumption` (the demonstration has each node of the registry once, its defaults are naturals), `FlagAssumption`, `ApiAssumption`, `NullAssumption` (what stands for no entry is neither a snapshot nor the meaning of a
command), `MainAssumption` and `FilesAssumption` (what an entry of a configuration file can be, ranges not restricted). No
bound of a run is used.

* `TypeCorrect`, by one case per action. The notable ones are the appends to the files.
* `PhysicsNeedsPlan` (`AdvanceNeedsPlan`). The property is not inductive: it says nothing of whether the newest outcome has
  been spent. `AdvanceInv` adds that between the write of an outcome and the request of its steps there is a whole step's
  credit left; then `Write("outcome")` earns what `StepRequest` spends, and every other step leaves debt and credit alone.
* `WindowsCostTime` (`WindowNeedsTime`). `ChargeInv` adds that the target waited for already accounts for the open window;
  `SimTimeGrows` shows that the clock the loop reads never goes back while it is open, whichever thread moves it.
* `TraceAligned` (`AlignedTrace`). `AlignedInv` ties the number of rows of each file to the window counter and to the
  position of `pc` in the window's order, and the newest rows to the open timestamp. `WriteRows` (what an append does),
  `WriteAtPosition` (a file is written at its place) and `AlignedWrite` carry the proof; once the loop is closing only
  the alignment itself is kept.
* `TimesOrdered` (`TimestampsOrdered`). `TimesInv`: no row is younger than the open timestamp and that is not ahead of the
  clock.
* `BacklogBounded` (`BoundedBacklog`) follows from the three invariants together while the process runs, and from the
  conservation of executed plus queued steps once it is closed.
* `WorldIsStill` (`StillWorld`), `DurationCovered` (`CoversDuration`) and `ImplementsAbstract`, of the nominal experiment
  (time 0, paused, every wait answered). `ClockIsSpent` is the argument of all three: credit bounds Gazebo's clock from
  above, the windows counted bound what the loop has seen of it from below, and what is seen is not ahead of what is, so
  that while a window is decided the three are one time and nothing is queued. `CoverInv` adds that a window is begun
  before the end only; `RefineInv`, that the open timestamp is that time. `WorldIsStill` needs no more than a start at 0:
  a paused world and no abandoned wait are premises of the property itself. `ImplementsAbstract` is the safety half of
  `ImplementsWindowLog`, one case per action of the abstract experiment and the rest stuttering; it holds of runs that raise
  or are killed as well, whose windows and steps up to there, and the steps still queued then, are `WindowLog`'s.
* `ObserversChangeNothing`: a step of the observed experiment, timeouts, exceptions, kills and torn records among them, is one
  of the experiment or leaves it alone, so that the theorems about `Spec` are theorems about the program with its observers.
  `SamplesAccounted` strengthens the bound on what was charged by what the counter has grown by since the last
  read. `AnomaliesNeedRace` rests on `AlignedInv`, which holds at every moment and after every end of the run: the files an
  analysis began with were in the order of the window, a file only grows until it is read, and each contributes one row to
  each window it has; a file with a torn line contributes none, for the analysis ends there.
* `OneWorker`, `Confined`, `Accumulated`, `Driven` and `InEffect`, of the workers. The invariant ties the pid map to the
  owners of the processes, with the one worker that is spawned and not yet mapped as the exception each of them has to
  carry; `Accumulated` counts the dead from the tasks that ever had a worker. `InEffect` follows the loop over the plan: the
  process a position names is as decided there until a later position names it too, whoever owns it. `Driven` needs that an order by criticality
  puts the first RUN action of a critical task before all others, and `LeastPosition`, that there is a first one.
* `NothingLeft`, `SchedulerLeftAlone`, `KillComesLast`, `SummaryTrue` and the supervisor's type correctness. `Inv` says,
  for each place in `_finalize`, which children have been dealt with; that a child is launched once and before anything
  is concluded; that exit codes are final; and that the reason set is borne out by what has become of the children
  (`BornOut`), which no later exit can undo.
* `MergeOfNewest` (`EffectiveIsNewest`) and `EndedIsFinal`. The invariant says that `view` holds, for each task that has
  been heard of, the delivered snapshot with the version in `latest`, that no delivered one is newer, and that versions
  are not used twice and end with a terminal state; then what is kept and the newest of what came are the same set.
* `OneAnswer`, `ConflictHasCause` and `PromiseKept`. Every reply is tied to the entry of its id: an accepted one says what
  the id stands for, a conflict says that it stands for something else, and an entry is never replaced.
* `NothingLeft` and `ContextIsThere`. `OpenInv` says which resources the current call may hold at each place of `main()`
  and that what older calls left has a reason; `OwnerInv`, that the context in effect is no younger than any open
  publisher, so that the run which shuts it down is the last to have one.
* `OneMode` and `MarkerInScope`. `ModeInv` binds the rows of the current call to its place: none during the set-up,
  where every `ImportError` comes from, and one kind after it.

* `IdsUnique` (`EventIdsUnique`). Ids are numbered by the generator's sequence, so the invariant bounds every number in the
  file by the current one; a window's rows are the tasks it numbers anew and the controllers, which its window names.
* `Implements`, `RefusedTracesNothing` and `Confined` of the configured set-up. `ConfigInv` says what has been found out about
  the configuration at each place of the call, `RowsInv` that no row of the call is there before enough is known, and `LimitInv`
  that a script which returned 0 has written all it should, for this call.

* `PoolKept` (`ImplementsPool`). `PoolInv` adds to the workers' invariant that what is in the cgroup lives and is not the
  process being attached, and what is known of that one. `WorkerStates` then says what `StateOf` is for every task with a
  living worker, and each step changes the state of one task or of none: `SignalTask` that of the process's owner, which need
  not be the task it went by, `Attach` none if the process died before.
* `AttributionHolds`, `RowsDescribe`, `OnTimeProjected`, `Spacing` and `NoCycleVanishes`, of the cycles, from `CyclesInv`:
  the clock stands on the first microsecond of the window that is drained (`TimeInv`); a record's number places its start
  exactly in the history of its controller (`RecordInv`, which gives the spacing by a multiplication, whatever the clock and
  the timer did); controller and number name one record and no number is skipped (`NamedInv`); a record is in one of
  topic, source, rows and what the topic dropped (`PlacesInv`); and what each row was made of (`CountInv`, `TotalInv`). The
  number of records of a controller is that of its publications because they are in bijection. That the rows of a
  window can be put in order at all (`SortExists`, without which `ByLength` would mean nothing) is an induction, and the
  prover has none over an operator: it is made by a least counterexample instead, which `LeastNat` gets from the
  well-foundedness of strict inclusion. `PercentileIsNearestRank` and `MaxIsLast` are about any such order, so that
  it does not matter which one `CHOOSE` takes.
* `PlaneImplementsApi` makes every theorem about the API one about the plane. `CooldownKept` (`CooldownHolds`):
  `TriggerInv` ties the memory of the trigger to the newest raise of the experiment. Its hypothesis is that the cooldown does
  not reach back from the first window to the start value -10^9 of `_last_raise_window` (`NeverRaised`), which the code
  takes for a raise long ago: a cooldown of more than 10^9 + 1 windows would begin with the experiment.
* `ResultStands` (`ResultIsWhole`), for any list of nodes and any defaults: `DemoInv` says that every call made so far has its
  answer in the demonstration's own coordinator; `CallIds` that the commands of different calls have different ids except
  the two probes, so that no answer is overwritten; a result is written after the last call only.

Only model-checked: liveness (`RunEnds`, `ReturnsOrHangs`) and with it the fairness half of `ImplementsWindowLog`, which
are out of the prover's reach. Every other property of a passing run is stated by a theorem. The type
invariants (the theorems `TypeCorrect`) are proved and not run.

## Plan

Done, in this order: `SteppedExperiment` with `WindowLog` (the heart of the system), its proofs, `WorkerExecution`,
`ControllerCycles`, `E2ERunner` and its proofs, `SchedulerApi` with `ApiPromise` and `MainProgram`, each with its proofs; then
`ObservedExperiment`, `RunSetup` and `ControlPlane` around them, Ctrl-C, the aggregator's statistics, and the proofs about
workers, ids, configuration, observers and the nominal experiment; then `WorkerPool` and the proofs about cycles, the
demonstration and the mode trigger. Left:

1. The supervisor's children as a composition of `E2ERunner` with the loop, so that `SchedulerCompletes` becomes a consequence
   of `RunEnds` instead of an assumption, and the step part of that composition as a theorem.
2. The premises of the trace analysis (what `begun` records) as an abstract specification of a reader beside an appending
   writer, of which `ObservedExperiment` is one implementation.

New questions take the place of weaker ones in the runs there are: a run of a composed system should replace two runs
of its parts where it shows the same.

## Not modelled

The schema check (`schema_contract.py`: that a write may raise is modelled, the lists of keys are not), the Poisson sampling
(any number of arrivals up to the cap), memory and GPU figures of the sampler (passed on as read; `resource_sampler.py` adds
keys), the wording of the trace report, `VeeAdapter` (the text of the four writes, without a caller) and the scripts that
build the VEE, launch files, URDF and worlds, references of tasks to edges (no code merges them), and `run_once_for_test` (one
window of `run_experiment`'s code). What the terminal's Ctrl-C does to the children is their exit at any moment. None of
these has state or an order of its own.
