--------------------------- MODULE WorkerExecution ---------------------------
(***************************************************************************)
(* What one window does to the robot and to the worker processes:          *)
(* plan_critical_first_fifo orders the tasks, ExecutionAdapter ensures the *)
(* workers, publishes one velocity and signals every task, WorkerManager   *)
(* spawns and remembers them, VeeRuntimeEnforcer puts them in the cgroup.  *)
(* The operating system (external) runs beside: processes die, a dead child *)
(* stays a zombie until the next Popen in the scheduler reaps it, and its  *)
(* pid is reused.                                                          *)
(***************************************************************************)
EXTENDS Naturals, Sequences, SequencesExt, FiniteSetsExt

CONSTANTS
  Controllers, \* CONTROLLER_TASK_IDS, a sequence
  Tools,       \* the local-tool tasks in the order they will arrive, a sequence
  Decisions,   \* what a policy may decide; the built-in one only says "RUN"
  Pids,        \* bound: the process ids of the machine
  MaxWindows, MaxArrivals, MaxDeaths, \* bounds
  NULL

Critical == ToSet(Controllers)
Tasks    == Critical \cup ToSet(Tools)
Lanes    == {"CRITICAL_LANE", "CPU_LANE"}

ASSUME TaskAssumption == Critical \cap ToSet(Tools) = {} /\ NULL \notin Pids \cup Tasks
ASSUME DecisionAssumption == "RUN" \in Decisions
ASSUME BoundAssumption ==
  /\ Controllers \in Seq(Critical) /\ Tools \in Seq(ToSet(Tools))
  /\ IsFiniteSet(Pids) /\ MaxArrivals \in Nat

VARIABLES
  phase,    \* where execute_window is
  plan,     \* task_actions of the window
  i,        \* position in the loop over them
  newPid,   \* pid spawned but not yet attached and mapped
  taskPid,  \* _task_pid_map; entries are never removed
  cmdVel,   \* what the last Twist of the window was mapped from
  missed,   \* tasks whose signal returned False in this window
  windows, arrived,
  proc,     \* the OS: state of each pid
  owner,    \* the task each pid was last spawned for
  cgroup,   \* pids confined by the VEE cgroup
  deaths

adapter == <<phase, plan, i, newPid, cmdVel, missed, windows, arrived>>
machine == <<proc, owner, cgroup, deaths>>
vars    == <<adapter, taskPid, machine>>

Live(p) == proc[p] \in {"running", "stopped"}
Mapped(t) == taskPid[t] # NULL

Init ==
  /\ phase = "idle" /\ plan = <<>> /\ i = 1 /\ newPid = NULL
  /\ taskPid = [t \in Tasks |-> NULL]
  /\ cmdVel = "none" /\ missed = {} /\ windows = 0 /\ arrived = 0
  /\ proc = [p \in Pids |-> "free"] /\ owner = [p \in Pids |-> NULL]
  /\ cgroup = {} /\ deaths = 0

-----------------------------------------------------------------------------
(* The policy *)

LaneOf(t) == IF t \in Critical THEN "CRITICAL_LANE" ELSE "CPU_LANE"

\* critical_actions + cpu_actions, each of them in the order of the tasks.
Before_Fifo(tasks, j, k) == j < k
Before(tasks, j, k) ==
  IF LaneOf(tasks[j]) = LaneOf(tasks[k]) THEN j < k ELSE LaneOf(tasks[j]) = "CRITICAL_LANE"

\* The positions of the tasks in the order of the plan; there is only one.
PlanCriticalFirstFifo(tasks) ==
  {order \in [1 .. Len(tasks) -> 1 .. Len(tasks)] :
     \A j, k \in 1 .. Len(tasks) : j < k => Before(tasks, order[j], order[k])}

\* A Popen first reaps the zombies that earlier Popen objects left behind.
Reaped == [p \in Pids |-> IF proc[p] = "zombie" THEN "free" ELSE proc[p]]

\* The sampler runs nvidia-smi, by a Popen; then the loop's tasks, the new arrivals
\* before the controllers' periodic ones, are planned and handed to execute_window.
BeginWindow ==
  /\ phase = "idle" /\ windows < MaxWindows
  /\ \E n \in 0 .. MaxArrivals, d \in [Tasks -> Decisions] :
       LET tasks == SubSeq(Tools, arrived + 1, arrived + n) \o Controllers
       IN  /\ arrived + n <= Len(Tools)
           /\ \A t \in Tasks \ ToSet(tasks) : d[t] = "RUN" \* irrelevant entries
           /\ arrived' = arrived + n
           /\ \E order \in PlanCriticalFirstFifo(tasks) :
                plan' = [k \in 1 .. Len(tasks) |->
                           [task |-> tasks[order[k]], decision |-> d[tasks[order[k]]]]]
  /\ phase' = "ensure" /\ i' = 1 /\ missed' = {} /\ proc' = Reaped
  /\ UNCHANGED <<newPid, taskPid, cmdVel, windows, owner, cgroup, deaths>>

-----------------------------------------------------------------------------
(* WorkerManager.ensure_workers, with VeeRuntimeEnforcer.attach_pid *)

More == i <= Len(plan)
Task == plan[i].task
Advance(p) == i' = i + 1 /\ phase' = p

\* if task_id in self._task_pid_map: continue
Known_Never(t) == FALSE
Known_Living(t) == Mapped(t) /\ Live(taskPid[t])
Known(t) == Mapped(t)

EnsureKnown ==
  /\ phase = "ensure" /\ More /\ Known(Task)
  /\ Advance("ensure")
  /\ UNCHANGED <<plan, newPid, cmdVel, missed, windows, arrived, taskPid, machine>>

\* Popen, which reaps too, forks; the worker busy-loops from its first instruction.
Spawn ==
  /\ phase = "ensure" /\ More /\ ~Known(Task)
  /\ \E p \in Pids :
       /\ Reaped[p] = "free"
       /\ proc' = [Reaped EXCEPT ![p] = "running"]
       /\ owner' = [owner EXCEPT ![p] = Task]
       /\ newPid' = p
  /\ phase' = "attach"
  /\ UNCHANGED <<plan, i, cmdVel, missed, windows, arrived, taskPid, cgroup, deaths>>

\* Writing the pid to cgroup.procs; of a process already dead it has no effect.
Attach_MapOnly ==
  /\ phase = "attach"
  /\ taskPid' = [taskPid EXCEPT ![Task] = newPid]
  /\ newPid' = NULL /\ Advance("ensure")
  /\ UNCHANGED <<plan, cmdVel, missed, windows, arrived, machine>>
Attach ==
  /\ phase = "attach"
  /\ cgroup' = IF Live(newPid) THEN cgroup \cup {newPid} ELSE cgroup
  /\ taskPid' = [taskPid EXCEPT ![Task] = newPid]
  /\ newPid' = NULL /\ Advance("ensure")
  /\ UNCHANGED <<plan, cmdVel, missed, windows, arrived, proc, owner, deaths>>

\* Popen, the cgroup write or the publisher raises: the exception leaves
\* execute_window and the experiment, whatever was spawned stays.
CallRaises_Skip ==
  /\ phase = "attach"
  /\ newPid' = NULL /\ Advance("ensure")
  /\ UNCHANGED <<plan, cmdVel, missed, windows, arrived, taskPid, machine>>
CallRaises ==
  /\ \/ phase = "ensure" /\ More /\ ~Known(Task)
     \/ phase \in {"attach", "publish"}
  /\ phase' = "failed"
  /\ UNCHANGED <<plan, i, newPid, cmdVel, missed, windows, arrived, taskPid, machine>>

EnsureDone ==
  /\ phase = "ensure" /\ ~More
  /\ phase' = "publish" /\ i' = 1
  /\ UNCHANGED <<plan, newPid, cmdVel, missed, windows, arrived, taskPid, machine>>

-----------------------------------------------------------------------------
(* ExecutionAdapter *)

IsRunAction(a) == a.decision = "RUN"
NormalizeLane_Raw(lane) == lane
NormalizeLane(lane) == IF lane = "CRITICAL_LANE" THEN "critical" ELSE "high"

\* The velocity follows the first RUN action's lane, or is zero.
PublishVelocity ==
  /\ phase = "publish"
  /\ LET run == {k \in 1 .. Len(plan) : IsRunAction(plan[k])}
     IN  cmdVel' = IF run = {} THEN "stop" ELSE NormalizeLane(LaneOf(plan[Min(run)].task))
  /\ phase' = "signal"
  /\ UNCHANGED <<plan, i, newPid, missed, windows, arrived, taskPid, machine>>

\* os.kill(pid, SIGCONT or SIGSTOP): a zombie accepts it without effect, a pid
\* nobody has makes it return False, which the adapter ignores.
StateAfter(a) == IF IsRunAction(a) THEN "running" ELSE "stopped"

SignalTask_Backwards ==
  /\ phase = "signal" /\ More
  /\ LET a == plan[Len(plan) + 1 - i]
         p == taskPid[a.task]
     IN  proc' = IF Mapped(a.task) /\ Live(p) THEN [proc EXCEPT ![p] = StateAfter(a)] ELSE proc
  /\ Advance("signal")
  /\ UNCHANGED <<plan, newPid, cmdVel, missed, windows, arrived, taskPid, owner, cgroup, deaths>>
SignalTask ==
  /\ phase = "signal" /\ More
  /\ LET p == taskPid[Task]
     IN  /\ proc' = IF Mapped(Task) /\ Live(p) THEN [proc EXCEPT ![p] = StateAfter(plan[i])] ELSE proc
         /\ missed' = IF ~Mapped(Task) \/ proc[p] = "free" THEN missed \cup {Task} ELSE missed
  /\ Advance("signal")
  /\ UNCHANGED <<plan, newPid, cmdVel, windows, arrived, taskPid, owner, cgroup, deaths>>

EndWindow ==
  /\ phase = "signal" /\ ~More
  /\ phase' = "idle" /\ windows' = windows + 1
  /\ UNCHANGED <<plan, i, newPid, cmdVel, missed, arrived, taskPid, machine>>

-----------------------------------------------------------------------------
(* The operating system *)

\* A worker dies, e.g. out of the memory its cgroup allows.
Die(p) ==
  /\ Live(p) /\ deaths < MaxDeaths
  /\ proc' = [proc EXCEPT ![p] = "zombie"]
  /\ cgroup' = cgroup \ {p}
  /\ deaths' = deaths + 1
  /\ UNCHANGED <<adapter, taskPid, owner>>

\* An unrelated process gets the pid of a worker that died and was reaped.
Reuse(p) ==
  /\ proc[p] = "free" /\ owner[p] # NULL
  /\ proc' = [proc EXCEPT ![p] = "foreign"]
  /\ owner' = [owner EXCEPT ![p] = NULL]
  /\ UNCHANGED <<adapter, taskPid, cgroup, deaths>>

Terminated ==
  /\ phase = "failed" \/ (phase = "idle" /\ windows = MaxWindows)
  /\ UNCHANGED vars

Next ==
  \/ BeginWindow \/ EnsureKnown \/ Spawn \/ Attach \/ CallRaises \/ EnsureDone
  \/ PublishVelocity \/ SignalTask \/ EndWindow
  \/ \E p \in Pids : Die(p) \/ Reuse(p)
  \/ Terminated

Spec == Init /\ [][Next]_vars

-----------------------------------------------------------------------------
(* Properties *)

TypeOK ==
  /\ phase \in {"idle", "ensure", "attach", "publish", "signal", "failed"}
  /\ plan \in Seq([task : Tasks, decision : Decisions])
  /\ i \in Nat \ {0}
  /\ newPid \in Pids \cup {NULL}
  /\ taskPid \in [Tasks -> Pids \cup {NULL}]
  /\ cmdVel \in {"none", "stop", "critical", "high"}
  /\ missed \subseteq Tasks
  /\ proc \in [Pids -> {"free", "running", "stopped", "zombie", "foreign"}]
  /\ owner \in [Pids -> Tasks \cup {NULL}]
  /\ cgroup \subseteq Pids
  /\ windows \in Nat /\ arrived \in Nat /\ deaths \in Nat

\* Own(t): the pid the manager remembers for t still is the process it spawned.
Own(t) == Mapped(t) /\ Live(taskPid[t]) /\ owner[taskPid[t]] = t

\* A task has one worker: whatever dies, raises or is reused, no two living
\* processes were spawned for the same task.
OneWorkerPerTask ==
  \A p, q \in Pids : Live(p) /\ Live(q) /\ owner[p] = owner[q] => p = q

\* No worker the manager remembers runs outside the VEE cgroup: it is attached
\* before it is remembered, so before any window can resume it.
RememberedIsConfined == \A t \in Tasks : Own(t) => taskPid[t] \in cgroup

\* Workers add up over the whole experiment: every task that ever arrived has one
\* for good, nothing in the program ends a worker, and a living one the manager
\* does not know of is the one being attached, or what an exception of that very
\* step left behind: at most one, and the experiment is over.
WorkersAccumulate ==
  /\ Cardinality({p \in Pids : Live(p)}) + deaths
       = Cardinality({t \in Tasks : Mapped(t)}) + (IF newPid = NULL THEN 0 ELSE 1)
  /\ \A p \in Pids : Live(p) /\ ~(\E t \in Tasks : taskPid[t] = p /\ owner[p] = t) =>
       p = newPid /\ phase \in {"attach", "failed"}

\* The robot is driven for the most critical task that runs, and stands still
\* exactly when nothing runs: the policy's order and the adapter's choice of the
\* first RUN action agree.
DrivenByMostCritical ==
  phase = "signal" =>
    LET running == {plan[k].task : k \in {k \in 1 .. Len(plan) : IsRunAction(plan[k])}}
    IN  cmdVel = IF running = {} THEN "stop"
                 ELSE IF running \cap Critical # {} THEN "critical" ELSE "high"

\* At the end of a window every living process the plan's tasks name is in the
\* state of the last action of the plan that names it, also where a pid was used
\* again and two tasks name one process: no earlier signal outlives a later one,
\* and whatever died or was spawned during the window, none is left over from the
\* window before.
PlanIsInEffect ==
  phase = "idle" =>
    \A k \in 1 .. Len(plan) :
      LET p == taskPid[plan[k].task]
      IN  /\ Mapped(plan[k].task) /\ Live(p)
          /\ \A l \in 1 .. Len(plan) : k < l => taskPid[plan[l].task] # p
          => proc[p] = IF IsRunAction(plan[k]) THEN "running" ELSE "stopped"

\* Seen from outside, the manager, the enforcer and the operating system are the
\* pool of WorkerPool: whatever raises, dies or gets a used pid, a task has one
\* worker, once, none is signalled before it is confined, and a signal for one
\* task that reaches another's worker changes that one only.
Spawned(t) == Mapped(t) \/ (newPid # NULL /\ Task = t)
WorkersOf(t) == {p \in Pids : Live(p) /\ owner[p] = t}
StateOf(t) ==
  IF ~Spawned(t) THEN "none"
  ELSE IF WorkersOf(t) = {} THEN "gone"
  ELSE LET p == CHOOSE p \in WorkersOf(t) : TRUE
       IN  IF p \in cgroup THEN proc[p] ELSE "loose"
Pool == INSTANCE WorkerPool WITH worker <- [t \in Tasks |-> StateOf(t)]
ImplementsPool == Pool!Spec

\* Execution design: a signal that could not be sent is recorded in the window's
\* outcome; the outcome of this code has room for success only.
SignalFailuresRecorded == phase = "idle" => missed = {}
=============================================================================
