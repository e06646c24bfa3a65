------------------------ MODULE WorkerExecutionProofs ------------------------
(***************************************************************************)
(* Theorems about one window's effect: one confined worker per task, never *)
(* fewer workers than tasks that arrived, the robot driven for the most    *)
(* critical running task and the plan in effect, however many tasks,       *)
(* processes and windows there are and whatever dies or raises.            *)
(***************************************************************************)
EXTENDS WorkerExecution, FiniteSetTheorems, WellFoundedInduction, TLAPS

Actions == [task : Tasks, decision : Decisions]

\* What planning guarantees: critical tasks first.
PlanInv ==
  \A j, k \in 1 .. Len(plan) :
    j < k /\ plan[k].task \in Critical => plan[j].task \in Critical

\* A living worker is the one its task remembers, or the one being attached.
PidInv ==
  /\ phase \notin {"attach", "failed"} => newPid = NULL
  /\ phase = "attach" =>
       /\ More /\ newPid \in Pids /\ Task \in Tasks /\ ~Mapped(Task)
       /\ owner[newPid] = Task /\ proc[newPid] # "free"
  /\ \A p \in Pids : Live(p) =>
       /\ owner[p] \in Tasks
       /\ taskPid[owner[p]] = p \/ (p = newPid /\ taskPid[owner[p]] = NULL)

-----------------------------------------------------------------------------
(* The plan *)

LEMMA TaskTypes ==
  /\ Controllers \in Seq(Tasks) /\ Tools \in Seq(Tasks)
  /\ Critical \subseteq Tasks /\ ToSet(Tools) \subseteq Tasks
<1>1. Critical \subseteq Tasks /\ ToSet(Tools) \subseteq Tasks
  BY DEF Tasks
<1>2. Controllers \in Seq(Critical) /\ Tools \in Seq(ToSet(Tools))
  BY BoundAssumption
<1> HIDE DEF Tasks, Critical
<1>3. Controllers \in Seq(Tasks)
  BY <1>1, <1>2
<1>4. Tools \in Seq(Tasks)
  BY <1>1, <1>2
<1> QED
  BY <1>1, <1>3, <1>4

\* The tasks of a window are a sequence of tasks.
LEMMA TasksOfWindow ==
  ASSUME NEW from \in Nat, NEW n \in Nat, from + n <= Len(Tools)
  PROVE  SubSeq(Tools, from + 1, from + n) \o Controllers \in Seq(Tasks)
<1>1. Tools \in Seq(Tasks) /\ Controllers \in Seq(Tasks)
  BY TaskTypes
<1>2. SubSeq(Tools, from + 1, from + n) \in Seq(Tasks)
  BY <1>1
<1> QED
  BY <1>1, <1>2

LEMMA PlanOfWindow ==
  ASSUME TypeOK, BeginWindow
  PROVE  plan' \in Seq(Actions) /\ PlanInv' /\ arrived' \in Nat
<1>1. PICK n \in 0 .. MaxArrivals, d \in [Tasks -> Decisions] :
        LET tasks == SubSeq(Tools, arrived + 1, arrived + n) \o Controllers
        IN  /\ arrived + n <= Len(Tools)
            /\ arrived' = arrived + n
            /\ \E order \in PlanCriticalFirstFifo(tasks) :
                 plan' = [k \in 1 .. Len(tasks) |->
                            [task |-> tasks[order[k]], decision |-> d[tasks[order[k]]]]]
  BY DEF BeginWindow
<1> DEFINE tasks == SubSeq(Tools, arrived + 1, arrived + n) \o Controllers
<1>2. arrived \in Nat /\ n \in Nat /\ arrived + n <= Len(Tools) /\ arrived' = arrived + n
  BY <1>1, BoundAssumption DEF TypeOK
<1>3. tasks \in Seq(Tasks)
  BY <1>2, TasksOfWindow
<1>4. PICK order \in PlanCriticalFirstFifo(tasks) :
        plan' = [k \in 1 .. Len(tasks) |->
                   [task |-> tasks[order[k]], decision |-> d[tasks[order[k]]]]]
  BY <1>1
<1> HIDE DEF tasks
<1>5. /\ order \in [1 .. Len(tasks) -> 1 .. Len(tasks)]
      /\ \A j, k \in 1 .. Len(tasks) : j < k => Before(tasks, order[j], order[k])
  BY DEF PlanCriticalFirstFifo
<1>6. \A k \in 1 .. Len(tasks) : tasks[order[k]] \in Tasks /\ d[tasks[order[k]]] \in Decisions
  <2>1. \A k \in 1 .. Len(tasks) : tasks[order[k]] \in Tasks
    BY <1>3, <1>5
  <2>2. d \in [Tasks -> Decisions]
    OBVIOUS
  <2> QED
    BY <2>1, <2>2
<1>7. plan' \in [1 .. Len(tasks) -> Actions] /\ Len(tasks) \in Nat
  BY <1>3, <1>4, <1>6 DEF Actions
<1>8. plan' \in Seq(Actions) /\ Len(plan') = Len(tasks)
  BY <1>7
<1>9. \A k \in 1 .. Len(plan') :
        plan'[k].task = tasks[order[k]] /\ plan'[k].decision = d[tasks[order[k]]]
  BY <1>4, <1>8
<1>10. ASSUME NEW j \in 1 .. Len(plan'), NEW k \in 1 .. Len(plan'),
              j < k, plan'[k].task \in Critical
       PROVE  plan'[j].task \in Critical
  <2>1. Before(tasks, order[j], order[k]) /\ tasks[order[k]] \in Critical
    BY <1>5, <1>8, <1>9, <1>10
  <2>2. tasks[order[j]] \in Critical
    BY <2>1 DEF Before, LaneOf
  <2> QED
    BY <1>9, <2>2
<1> QED
  BY <1>2, <1>8, <1>9, <1>10 DEF PlanInv

-----------------------------------------------------------------------------
(* Types *)

LEMMA TypeInit == Init => TypeOK
BY DEF Init, TypeOK

\* The task the loop over the plan is at.
LEMMA TaskOfPlan == TypeOK /\ More => Task \in Tasks /\ plan[i] \in Actions
<1> SUFFICES ASSUME TypeOK, More PROVE Task \in Tasks /\ plan[i] \in Actions
  OBVIOUS
<1>1. plan \in Seq(Actions) /\ i \in 1 .. Len(plan)
  BY DEF TypeOK, More, Actions
<1>2. plan[i] \in Actions
  BY <1>1
<1> QED
  BY <1>2 DEF Task, Actions

\* Reaping touches no living process.
LEMMA ReapedLive ==
  ASSUME TypeOK, proc' = Reaped
  PROVE  \A p \in Pids : (Live(p)' <=> Live(p)) /\ (Live(p) => proc'[p] = proc[p])
BY DEF TypeOK, Reaped, Live

LEMMA TypeStep == TypeOK /\ PidInv /\ [Next]_vars => TypeOK'
<1> SUFFICES ASSUME TypeOK, PidInv, [Next]_vars PROVE TypeOK'
  OBVIOUS
<1>0. /\ phase \in {"idle", "ensure", "attach", "publish", "signal", "failed"}
      /\ plan \in Seq(Actions) /\ i \in Nat \ {0} /\ newPid \in Pids \cup {NULL}
      /\ taskPid \in [Tasks -> Pids \cup {NULL}]
      /\ cmdVel \in {"none", "stop", "critical", "high"} /\ missed \subseteq Tasks
      /\ proc \in [Pids -> {"free", "running", "stopped", "zombie", "foreign"}]
      /\ owner \in [Pids -> Tasks \cup {NULL}] /\ cgroup \subseteq Pids
      /\ windows \in Nat /\ arrived \in Nat /\ deaths \in Nat
  BY DEF TypeOK, Actions
<1> USE <1>0 DEF Actions
<1>1. CASE BeginWindow
  <2>1. plan' \in Seq(Actions) /\ arrived' \in Nat
    BY <1>1, PlanOfWindow
  <2>2. /\ phase' = "ensure" /\ i' = 1 /\ missed' = {} /\ proc' = Reaped
        /\ UNCHANGED <<newPid, taskPid, cmdVel, windows, owner, cgroup, deaths>>
    BY <1>1 DEF BeginWindow
  <2>3. proc' \in [Pids -> {"free", "running", "stopped", "zombie", "foreign"}]
    BY <2>2 DEF Reaped
  <2> QED
    BY <2>1, <2>2, <2>3 DEF TypeOK
<1>2. CASE EnsureKnown \/ EnsureDone \/ EndWindow \/ CallRaises
  BY <1>2 DEF EnsureKnown, EnsureDone, EndWindow, CallRaises, Advance, TypeOK, machine
<1>3. CASE Spawn
  <2>1. PICK p \in Pids : /\ proc' = [Reaped EXCEPT ![p] = "running"]
                          /\ owner' = [owner EXCEPT ![p] = Task]
                          /\ newPid' = p
    BY <1>3 DEF Spawn
  <2>2. Task \in Tasks
    BY <1>3, TaskOfPlan DEF Spawn
  <2>3. proc' \in [Pids -> {"free", "running", "stopped", "zombie", "foreign"}]
    BY <2>1 DEF Reaped
  <2>4. owner' \in [Pids -> Tasks \cup {NULL}] /\ newPid' \in Pids \cup {NULL}
    BY <2>1, <2>2
  <2> QED
    BY <1>3, <2>3, <2>4 DEF Spawn, TypeOK
<1>4. CASE Attach
  <2>1. taskPid' \in [Tasks -> Pids \cup {NULL}] /\ newPid' = NULL
    BY <1>4 DEF Attach
  <2>2. cgroup' \subseteq Pids
    BY <1>4 DEF Attach, PidInv
  <2> QED
    BY <1>4, <2>1, <2>2 DEF Attach, Advance, TypeOK
<1>5. CASE PublishVelocity
  BY <1>5 DEF PublishVelocity, NormalizeLane, TypeOK, machine
<1>6. CASE SignalTask
  <2>1. Task \in Tasks
    BY <1>6, TaskOfPlan DEF SignalTask
  <2>2. proc' \in [Pids -> {"free", "running", "stopped", "zombie", "foreign"}]
    BY <1>6 DEF SignalTask, StateAfter
  <2> QED
    BY <1>6, <2>1, <2>2 DEF SignalTask, Advance, TypeOK
<1>7. ASSUME NEW p \in Pids, Die(p) \/ Reuse(p) PROVE TypeOK'
  BY <1>7 DEF Die, Reuse, TypeOK, adapter
<1>8. CASE Terminated \/ UNCHANGED vars
  BY <1>8 DEF Terminated, vars, adapter, machine, TypeOK
<1> QED
  BY <1>1, <1>2, <1>3, <1>4, <1>5, <1>6, <1>7, <1>8 DEF Next

-----------------------------------------------------------------------------
(* The workers *)

LEMMA PidInit == Init => PidInv
BY DEF Init, PidInv, Live

\* Only Spawn makes a worker, Attach remembers it, and nothing forgets one.
LEMMA PidStep == TypeOK /\ PidInv /\ [Next]_vars => PidInv'
<1> SUFFICES ASSUME TypeOK, PidInv, [Next]_vars PROVE PidInv'
  OBVIOUS
<1>0. /\ newPid \in Pids \cup {NULL} /\ NULL \notin Pids \cup Tasks
      /\ taskPid \in [Tasks -> Pids \cup {NULL}]
      /\ proc \in [Pids -> {"free", "running", "stopped", "zombie", "foreign"}]
      /\ owner \in [Pids -> Tasks \cup {NULL}]
  BY TaskAssumption DEF TypeOK
<1>1. ASSUME UNCHANGED <<taskPid, owner, newPid>>, \A p \in Pids : Live(p)' => Live(p),
             phase # "attach", phase' # "attach", phase' = "failed" \/ newPid = NULL
      PROVE  PidInv'
  BY <1>1 DEF PidInv
<1>2. CASE BeginWindow \/ EnsureKnown \/ EnsureDone \/ EndWindow
  <2>1. /\ phase \notin {"attach", "failed"} /\ phase' \notin {"attach", "failed"}
        /\ UNCHANGED <<taskPid, owner, newPid>> /\ proc' \in {proc, Reaped}
    BY <1>2 DEF BeginWindow, EnsureKnown, EnsureDone, EndWindow, Advance, machine
  <2>2. \A p \in Pids : Live(p)' => Live(p)
    BY <2>1, ReapedLive DEF Live
  <2> QED
    BY <1>1, <2>1, <2>2 DEF PidInv
<1>3. CASE Spawn
  <2>1. PICK p \in Pids : /\ Reaped[p] = "free"
                          /\ proc' = [Reaped EXCEPT ![p] = "running"]
                          /\ owner' = [owner EXCEPT ![p] = Task]
                          /\ newPid' = p
    BY <1>3 DEF Spawn
  <2>2. /\ phase = "ensure" /\ phase' = "attach" /\ More /\ ~Mapped(Task) /\ Task \in Tasks
        /\ UNCHANGED <<plan, i, taskPid>> /\ newPid = NULL
    BY <1>3, TaskOfPlan DEF Spawn, Known, PidInv
  <2>3. ASSUME NEW q \in Pids, q # p, Live(q)' PROVE Live(q) /\ owner'[q] = owner[q]
    BY <1>0, <2>1, <2>3 DEF Live, Reaped
  <2>4. owner'[p] = Task
    BY <1>0, <2>1, <2>2
  <2>5. ASSUME NEW q \in Pids, Live(q)'
        PROVE  /\ owner'[q] \in Tasks
               /\ taskPid'[owner'[q]] = q \/ (q = newPid' /\ taskPid'[owner'[q]] = NULL)
    BY <1>0, <2>1, <2>2, <2>3, <2>4, <2>5 DEF PidInv, Mapped
  <2>6. (More /\ Task \in Tasks /\ ~Mapped(Task) /\ owner[newPid] = Task /\ proc[newPid] # "free")'
    BY <1>0, <2>1, <2>2, <2>4 DEF More, Task, Mapped, Reaped
  <2> QED
    BY <2>1, <2>2, <2>5, <2>6 DEF PidInv
<1>4. CASE Attach
  <2>1. /\ phase = "attach" /\ phase' = "ensure" /\ newPid' = NULL /\ UNCHANGED <<proc, owner>>
        /\ taskPid' = [taskPid EXCEPT ![Task] = newPid]
    BY <1>4 DEF Attach, Advance
  <2>2. newPid \in Pids /\ Task \in Tasks /\ taskPid[Task] = NULL /\ owner[newPid] = Task
    BY <2>1 DEF PidInv, Mapped
  <2>3. ASSUME NEW q \in Pids, Live(q)' PROVE owner'[q] \in Tasks /\ taskPid'[owner'[q]] = q
    <3>1. Live(q)
      BY <2>1, <2>3 DEF Live
    <3>2. CASE q = newPid
      BY <1>0, <2>1, <2>2, <3>2
    <3>3. CASE q # newPid
      <4>1. owner[q] \in Tasks /\ taskPid[owner[q]] = q
        BY <3>1, <3>3 DEF PidInv
      <4> QED
        BY <1>0, <2>1, <2>2, <4>1
    <3> QED
      BY <3>2, <3>3
  <2> QED
    BY <2>1, <2>3 DEF PidInv
<1>5. CASE CallRaises
  BY <1>5 DEF CallRaises, PidInv, Live, machine
<1>6. CASE PublishVelocity
  BY <1>1, <1>6 DEF PublishVelocity, PidInv, Live, machine
<1>7. CASE SignalTask
  <2>1. /\ phase = "signal" /\ phase' = "signal" /\ UNCHANGED <<taskPid, owner, newPid>>
        /\ proc' = IF Mapped(Task) /\ Live(taskPid[Task])
                     THEN [proc EXCEPT ![taskPid[Task]] = StateAfter(plan[i])] ELSE proc
    BY <1>7 DEF SignalTask, Advance
  <2>2. \A p \in Pids : Live(p)' => Live(p)
    BY <1>0, <2>1 DEF Live
  <2> QED
    BY <1>1, <2>1, <2>2 DEF PidInv
<1>8. ASSUME NEW p \in Pids, Die(p) PROVE PidInv'
  <2>1. UNCHANGED <<phase, plan, i, newPid, taskPid, owner>> /\ proc' = [proc EXCEPT ![p] = "zombie"]
    BY <1>8 DEF Die, adapter
  <2>2. \A q \in Pids : Live(q)' => Live(q) /\ owner'[q] = owner[q]
    BY <1>0, <2>1 DEF Live
  <2> QED
    BY <1>0, <2>1, <2>2 DEF PidInv, More, Task, Mapped
<1>9. ASSUME NEW p \in Pids, Reuse(p) PROVE PidInv'
  <2>1. /\ UNCHANGED <<phase, plan, i, newPid, taskPid>> /\ proc[p] = "free"
        /\ proc' = [proc EXCEPT ![p] = "foreign"] /\ owner' = [owner EXCEPT ![p] = NULL]
    BY <1>9 DEF Reuse, adapter
  <2>2. \A q \in Pids : Live(q)' => Live(q) /\ q # p /\ owner'[q] = owner[q]
    BY <1>0, <2>1 DEF Live
  <2>3. phase = "attach" => newPid # p
    BY <2>1 DEF PidInv
  <2> QED
    BY <1>0, <2>1, <2>2, <2>3 DEF PidInv, More, Task, Mapped
<1>10. CASE Terminated \/ UNCHANGED vars
  BY <1>10 DEF Terminated, vars, adapter, machine, PidInv, More, Task, Mapped, Live
<1> QED
  BY <1>2, <1>3, <1>4, <1>5, <1>6, <1>7, <1>8, <1>9, <1>10 DEF Next

\* What is remembered was attached, and only its death takes a worker out again.
LEMMA ConfinedStep ==
  TypeOK /\ PidInv /\ RememberedIsConfined /\ [Next]_vars => RememberedIsConfined'
<1> SUFFICES ASSUME TypeOK, PidInv, RememberedIsConfined, [Next]_vars,
                    NEW t \in Tasks, Own(t)'
             PROVE  taskPid'[t] \in cgroup'
  BY DEF RememberedIsConfined
<1>0. /\ NULL \notin Pids \cup Tasks /\ taskPid \in [Tasks -> Pids \cup {NULL}]
      /\ proc \in [Pids -> {"free", "running", "stopped", "zombie", "foreign"}]
      /\ owner \in [Pids -> Tasks \cup {NULL}]
      /\ (Own(t) => taskPid[t] \in cgroup)
  BY TaskAssumption DEF TypeOK, RememberedIsConfined
<1>2. CASE BeginWindow \/ EnsureKnown \/ EnsureDone \/ EndWindow \/ CallRaises \/ PublishVelocity
           \/ Terminated \/ UNCHANGED vars
  <2>1. UNCHANGED <<taskPid, owner, cgroup>> /\ proc' \in {proc, Reaped}
    BY <1>2
    DEF BeginWindow, EnsureKnown, EnsureDone, EndWindow, CallRaises, PublishVelocity, Terminated,
        vars, machine
  <2>2. Own(t)
    BY <1>0, <2>1, ReapedLive DEF Own, Mapped, Live
  <2> QED
    BY <1>0, <2>1, <2>2
<1>3. CASE Spawn
  <2>1. PICK p \in Pids : /\ Reaped[p] = "free"
                          /\ proc' = [Reaped EXCEPT ![p] = "running"]
                          /\ owner' = [owner EXCEPT ![p] = Task]
                          /\ newPid' = p
    BY <1>3 DEF Spawn
  <2>2. ~Mapped(Task) /\ Task \in Tasks /\ UNCHANGED <<taskPid, cgroup>>
    BY <1>3, TaskOfPlan DEF Spawn, Known
  <2>3. taskPid[t] \in Pids /\ taskPid[t] # p
    BY <1>0, <2>1, <2>2 DEF Own, Mapped
  <2>4. Own(t)
    BY <1>0, <2>1, <2>2, <2>3 DEF Own, Mapped, Live, Reaped
  <2> QED
    BY <1>0, <2>2, <2>4
<1>4. CASE Attach
  <2>1. /\ phase = "attach" /\ UNCHANGED <<proc, owner>>
        /\ taskPid' = [taskPid EXCEPT ![Task] = newPid]
        /\ cgroup' = IF Live(newPid) THEN cgroup \cup {newPid} ELSE cgroup
    BY <1>4 DEF Attach
  <2>2. CASE t = Task
    BY <1>0, <2>1, <2>2 DEF Own, Live, PidInv
  <2>3. CASE t # Task
    BY <1>0, <2>1, <2>3 DEF Own, Mapped, Live
  <2> QED
    BY <2>2, <2>3
<1>5. CASE SignalTask
  <2>1. /\ UNCHANGED <<taskPid, owner, cgroup>>
        /\ proc' = IF Mapped(Task) /\ Live(taskPid[Task])
                     THEN [proc EXCEPT ![taskPid[Task]] = StateAfter(plan[i])] ELSE proc
    BY <1>5 DEF SignalTask
  <2>2. Own(t)
    BY <1>0, <2>1 DEF Own, Mapped, Live
  <2> QED
    BY <1>0, <2>1, <2>2
<1>6. ASSUME NEW p \in Pids, Die(p) \/ Reuse(p) PROVE taskPid'[t] \in cgroup'
  <2>1. /\ UNCHANGED taskPid
        /\ \/ proc' = [proc EXCEPT ![p] = "zombie"] /\ cgroup' = cgroup \ {p} /\ owner' = owner
           \/ /\ proc' = [proc EXCEPT ![p] = "foreign"] /\ cgroup' = cgroup
              /\ owner' = [owner EXCEPT ![p] = NULL]
    BY <1>6 DEF Die, Reuse
  <2>2. taskPid[t] \in Pids /\ taskPid[t] # p
    BY <1>0, <2>1 DEF Own, Mapped, Live
  <2>3. Own(t)
    BY <1>0, <2>1, <2>2 DEF Own, Mapped, Live
  <2> QED
    BY <1>0, <2>1, <2>2, <2>3
<1> QED
  BY <1>2, <1>3, <1>4, <1>5, <1>6 DEF Next

Inv == TypeOK /\ PidInv /\ RememberedIsConfined

LEMMA InvInit == Init => Inv
<1>1. Init => RememberedIsConfined
  BY DEF Init, RememberedIsConfined, Own, Mapped
<1> QED
  BY <1>1, TypeInit, PidInit DEF Inv

LEMMA InvStep == Inv /\ [Next]_vars => Inv'
BY TypeStep, PidStep, ConfinedStep DEF Inv

\* Type correctness: pids, tasks, lanes and process states stay in their types.
THEOREM TypeCorrect == Spec => []TypeOK
<1>1. Inv => TypeOK
  BY DEF Inv
<1> QED
  BY <1>1, InvInit, InvStep, PTL DEF Spec

\* No two living processes were ever spawned for one task.
THEOREM OneWorker == Spec => []OneWorkerPerTask
<1>1. Inv => OneWorkerPerTask
  <2> SUFFICES ASSUME Inv, NEW p \in Pids, NEW q \in Pids, Live(p), Live(q), owner[p] = owner[q]
               PROVE  p = q
    BY DEF OneWorkerPerTask
  <2> QED
    BY TaskAssumption DEF Inv, PidInv
<1> QED
  BY <1>1, InvInit, InvStep, PTL DEF Spec

\* A remembered worker that lives is in the cgroup of the VEE.
THEOREM Confined == Spec => []RememberedIsConfined
<1>1. Inv => RememberedIsConfined
  BY DEF Inv
<1> QED
  BY <1>1, InvInit, InvStep, PTL DEF Spec

-----------------------------------------------------------------------------
(* How many workers there are *)

LiveWorkers == {p \in Pids : Live(p)}
Remembered  == {t \in Tasks : Mapped(t)}

AccountInv ==
  Cardinality(LiveWorkers) + deaths = Cardinality(Remembered) + (IF newPid = NULL THEN 0 ELSE 1)

LEMMA FiniteRange == ASSUME NEW S, NEW s \in Seq(S) PROVE IsFiniteSet(ToSet(s))
<1>1. s \in Surjection(1 .. Len(s), ToSet(s))
  BY DEF Surjection, ToSet
<1>2. IsFiniteSet(1 .. Len(s))
  BY FS_Interval
<1> QED
  BY <1>1, <1>2, FS_Surjection

LEMMA FiniteSets == IsFiniteSet(LiveWorkers) /\ IsFiniteSet(Remembered)
<1>1. IsFiniteSet(Critical) /\ IsFiniteSet(ToSet(Tools))
  BY FiniteRange, BoundAssumption DEF Critical
<1>2. IsFiniteSet(Tasks)
  BY <1>1, FS_Union DEF Tasks
<1> QED
  BY <1>2, FS_Subset, BoundAssumption DEF LiveWorkers, Remembered

LEMMA AccountInit == Init => AccountInv
<1> SUFFICES ASSUME Init PROVE AccountInv
  OBVIOUS
<1>1. LiveWorkers = {} /\ Remembered = {} /\ deaths = 0 /\ newPid = NULL
  BY DEF Init, LiveWorkers, Remembered, Live, Mapped
<1> QED
  BY <1>1, FS_EmptySet DEF AccountInv

\* A spawn adds a worker and what is being attached, an attachment turns that into
\* a task remembered, a death moves a worker to the dead; nothing else counts.
LEMMA AccountStep == Inv /\ AccountInv /\ [Next]_vars => AccountInv'
<1> SUFFICES ASSUME Inv, AccountInv, [Next]_vars PROVE AccountInv'
  OBVIOUS
<1>0. /\ PidInv /\ TypeOK /\ NULL \notin Pids \cup Tasks /\ deaths \in Nat
      /\ taskPid \in [Tasks -> Pids \cup {NULL}]
      /\ proc \in [Pids -> {"free", "running", "stopped", "zombie", "foreign"}]
  BY TaskAssumption DEF Inv, TypeOK
<1>1. /\ IsFiniteSet(LiveWorkers) /\ IsFiniteSet(Remembered)
      /\ Cardinality(LiveWorkers) \in Nat /\ Cardinality(Remembered) \in Nat
  BY FiniteSets, FS_CardinalityType
<1>2. ASSUME UNCHANGED <<taskPid, newPid, deaths>>, LiveWorkers' = LiveWorkers
      PROVE  AccountInv'
  <2>1. Remembered' = Remembered
    BY <1>2 DEF Remembered, Mapped
  <2> QED
    BY <1>2, <2>1 DEF AccountInv
<1>3. CASE BeginWindow \/ EnsureKnown \/ EnsureDone \/ EndWindow \/ CallRaises \/ PublishVelocity
           \/ Terminated \/ UNCHANGED vars
  <2>1. UNCHANGED <<taskPid, newPid, deaths>> /\ proc' \in {proc, Reaped}
    BY <1>3
    DEF BeginWindow, EnsureKnown, EnsureDone, EndWindow, CallRaises, PublishVelocity, Terminated,
        vars, machine, adapter
  <2>2. \A p \in Pids : Live(p)' <=> Live(p)
    BY <1>0, <2>1, ReapedLive DEF Live
  <2> QED
    BY <1>2, <2>1, <2>2 DEF LiveWorkers
<1>4. CASE Spawn
  <2>1. PICK p \in Pids : Reaped[p] = "free" /\ proc' = [Reaped EXCEPT ![p] = "running"] /\ newPid' = p
    BY <1>4 DEF Spawn
  <2>2. newPid = NULL /\ newPid' # NULL /\ UNCHANGED <<taskPid, deaths>>
    BY <1>0, <1>4, <2>1 DEF Spawn, PidInv
  <2>3. p \notin LiveWorkers /\ LiveWorkers' = LiveWorkers \cup {p}
    BY <1>0, <2>1 DEF LiveWorkers, Live, Reaped
  <2>4. Cardinality(LiveWorkers') = Cardinality(LiveWorkers) + 1
    BY <1>1, <2>3, FS_AddElement
  <2>5. Remembered' = Remembered
    BY <2>2 DEF Remembered, Mapped
  <2> QED
    BY <1>0, <1>1, <2>2, <2>4, <2>5 DEF AccountInv
<1>5. CASE Attach
  <2>1. /\ newPid' = NULL /\ UNCHANGED <<proc, deaths>>
        /\ taskPid' = [taskPid EXCEPT ![Task] = newPid]
        /\ newPid \in Pids /\ Task \in Tasks /\ ~Mapped(Task)
    BY <1>0, <1>5 DEF Attach, PidInv
  <2>2. Task \notin Remembered /\ Remembered' = Remembered \cup {Task}
    BY <1>0, <2>1 DEF Remembered, Mapped
  <2>3. Cardinality(Remembered') = Cardinality(Remembered) + 1
    BY <1>1, <2>2, FS_AddElement
  <2>4. LiveWorkers' = LiveWorkers
    BY <2>1 DEF LiveWorkers, Live
  <2> QED
    BY <1>0, <1>1, <2>1, <2>3, <2>4 DEF AccountInv
<1>6. CASE SignalTask
  <2>1. /\ UNCHANGED <<taskPid, newPid, deaths>>
        /\ proc' = IF Mapped(Task) /\ Live(taskPid[Task])
                     THEN [proc EXCEPT ![taskPid[Task]] = StateAfter(plan[i])] ELSE proc
    BY <1>6 DEF SignalTask
  <2>2. \A p \in Pids : Live(p)' <=> Live(p)
    BY <1>0, <2>1 DEF Live, StateAfter
  <2> QED
    BY <1>2, <2>1, <2>2 DEF LiveWorkers
<1>7. ASSUME NEW p \in Pids, Die(p) PROVE AccountInv'
  <2>1. /\ Live(p) /\ proc' = [proc EXCEPT ![p] = "zombie"] /\ deaths' = deaths + 1
        /\ UNCHANGED <<taskPid, newPid>>
    BY <1>7 DEF Die, adapter
  <2>2. p \in LiveWorkers /\ LiveWorkers' = LiveWorkers \ {p}
    BY <1>0, <2>1 DEF LiveWorkers, Live
  <2>3. Cardinality(LiveWorkers') = Cardinality(LiveWorkers) - 1
    BY <1>1, <2>2, FS_RemoveElement
  <2>4. Remembered' = Remembered
    BY <2>1 DEF Remembered, Mapped
  <2> QED
    BY <1>0, <1>1, <2>1, <2>3, <2>4 DEF AccountInv
<1>8. ASSUME NEW p \in Pids, Reuse(p) PROVE AccountInv'
  <2>1. /\ proc[p] = "free" /\ proc' = [proc EXCEPT ![p] = "foreign"]
        /\ UNCHANGED <<taskPid, newPid, deaths>>
    BY <1>8 DEF Reuse, adapter
  <2>2. LiveWorkers' = LiveWorkers
    BY <1>0, <2>1 DEF LiveWorkers, Live
  <2> QED
    BY <1>2, <2>1, <2>2
<1> QED
  BY <1>3, <1>4, <1>5, <1>6, <1>7, <1>8 DEF Next

\* Every task that arrived has had a worker, and the program never ends one.
THEOREM Accumulated == Spec => []WorkersAccumulate
<1>1. Inv /\ AccountInv => WorkersAccumulate
  <2> SUFFICES ASSUME Inv, AccountInv PROVE WorkersAccumulate
    OBVIOUS
  <2>1. ASSUME NEW p \in Pids, Live(p), ~(\E t \in Tasks : taskPid[t] = p /\ owner[p] = t)
        PROVE  p = newPid /\ phase \in {"attach", "failed"}
    BY <2>1, TaskAssumption DEF Inv, PidInv
  <2> QED
    BY <2>1 DEF WorkersAccumulate, AccountInv, LiveWorkers, Remembered
<1>2. Inv /\ AccountInv /\ [Next]_vars => (Inv /\ AccountInv)'
  BY InvStep, AccountStep
<1> QED
  BY <1>1, <1>2, InvInit, AccountInit, PTL DEF Spec

-----------------------------------------------------------------------------
(* The plan and the processes *)

LEMMA PlanInit == Init => PlanInv
BY DEF Init, PlanInv

LEMMA PlanStep == TypeOK /\ PlanInv /\ [Next]_vars => PlanInv'
<1> SUFFICES ASSUME TypeOK, PlanInv, [Next]_vars PROVE PlanInv'
  OBVIOUS
<1>1. CASE BeginWindow
  BY <1>1, PlanOfWindow
<1>2. CASE plan' = plan
  BY <1>2 DEF PlanInv
<1>3. CASE EnsureKnown \/ Spawn \/ Attach \/ CallRaises \/ EnsureDone \/ PublishVelocity
           \/ SignalTask \/ EndWindow
  BY <1>2, <1>3
  DEF EnsureKnown, Spawn, Attach, CallRaises, EnsureDone, PublishVelocity, SignalTask, EndWindow
<1>4. CASE (\E p \in Pids : Die(p) \/ Reuse(p)) \/ Terminated \/ UNCHANGED vars
  BY <1>2, <1>4 DEF Die, Reuse, Terminated, vars, adapter
<1> QED
  BY <1>1, <1>3, <1>4 DEF Next

\* The least of some positions.
LEMMA LeastPosition ==
  ASSUME NEW T, T \subseteq Nat, T # {}
  PROVE  Min(T) \in T /\ \A y \in T : Min(T) <= y
<1> DEFINE R == {ss \in Nat \X Nat : ss[1] < ss[2]}
<1>1. R = OpToRel(<, Nat)
  BY Zenon DEF OpToRel
<1>2. IsWellFoundedOn(R, Nat)
  BY <1>1, NatLessThanWellFounded
<1>3. \A x, y \in T : y < x => <<y, x>> \in R
  OBVIOUS
<1> HIDE DEF R
<1>4. PICK x \in T : \A y \in T : ~ (<<y, x>> \in R)
  BY <1>2, WFMin
<1>5. \A y \in T : ~ (y < x)
  BY <1>3, <1>4
<1>6. \A y \in T : x <= y
  BY <1>5
<1> QED
  BY <1>6 DEF Min

\* The first action that runs is critical if any is.
LEMMA DrivenStep ==
  TypeOK /\ PlanInv /\ DrivenByMostCritical /\ [Next]_vars => DrivenByMostCritical'
<1> SUFFICES ASSUME TypeOK, PlanInv, DrivenByMostCritical, [Next]_vars PROVE DrivenByMostCritical'
  OBVIOUS
<1>1. CASE PublishVelocity
  <2> DEFINE run == {k \in 1 .. Len(plan) : IsRunAction(plan[k])}
             running == {plan[k].task : k \in run}
  <2>1. /\ cmdVel' = IF run = {} THEN "stop" ELSE NormalizeLane(LaneOf(plan[Min(run)].task))
        /\ plan' = plan
    BY <1>1 DEF PublishVelocity
  <2>2. ASSUME run # {}
        PROVE  LaneOf(plan[Min(run)].task)
                 = IF running \cap Critical # {} THEN "CRITICAL_LANE" ELSE "CPU_LANE"
    <3>1. run \subseteq Nat
      BY DEF TypeOK
    <3> DEFINE first == Min(run)
    <3>2. first \in run /\ \A k \in run : first <= k
      BY <2>2, <3>1, LeastPosition
    <3> HIDE DEF first
    <3>3. ASSUME NEW k \in run, plan[k].task \in Critical PROVE plan[first].task \in Critical
      <4>1. first \in 1 .. Len(plan) /\ k \in 1 .. Len(plan) /\ (first = k \/ first < k)
        BY <3>1, <3>2
      <4> QED
        BY <3>3, <4>1 DEF PlanInv
    <3>4. running \cap Critical # {} <=> plan[first].task \in Critical
      BY <3>2, <3>3
    <3> QED
      BY <3>4 DEF LaneOf, first
  <2>3. cmdVel' = IF running = {} THEN "stop"
                  ELSE IF running \cap Critical # {} THEN "critical" ELSE "high"
    BY <2>1, <2>2 DEF NormalizeLane
  <2>4. running' = running
    BY <2>1 DEF IsRunAction
  <2> QED
    BY <2>3, <2>4 DEF DrivenByMostCritical
<1>2. CASE UNCHANGED <<plan, cmdVel>> /\ phase' = "signal" /\ phase = "signal"
  BY <1>2 DEF DrivenByMostCritical, IsRunAction
<1>3. CASE phase' # "signal"
  BY <1>3 DEF DrivenByMostCritical
<1>4. CASE BeginWindow \/ EnsureKnown \/ Spawn \/ Attach \/ CallRaises \/ EnsureDone \/ EndWindow
  BY <1>3, <1>4
  DEF BeginWindow, EnsureKnown, Spawn, Attach, CallRaises, EnsureDone, EndWindow, Advance
<1>5. CASE SignalTask
  BY <1>2, <1>5 DEF SignalTask, Advance
<1>6. CASE (\E p \in Pids : Die(p) \/ Reuse(p)) \/ Terminated \/ UNCHANGED vars
  BY <1>2, <1>3, <1>6 DEF Die, Reuse, Terminated, vars, adapter
<1> QED
  BY <1>1, <1>4, <1>5, <1>6 DEF Next

\* The process named by the plan's position k is in the state decided there, unless
\* a later position before n names it too.
Effect(k, n) ==
  LET p == taskPid[plan[k].task]
  IN  /\ Mapped(plan[k].task) /\ Live(p)
      /\ \A l \in 1 .. Len(plan) : k < l /\ l < n => taskPid[plan[l].task] # p
      => proc[p] = IF IsRunAction(plan[k]) THEN "running" ELSE "stopped"

\* What has been signalled in this window is in effect, and between two windows
\* that is the whole plan.
EffectInv ==
  /\ phase = "publish" => i = 1
  /\ \A k \in 1 .. Len(plan) : phase = "signal" /\ k < i => Effect(k, i)
  /\ \A k \in 1 .. Len(plan) : phase = "idle" => Effect(k, Len(plan) + 1)

LEMMA EffectInit == Init => EffectInv
BY DEF Init, EffectInv

\* A signal sets the state of one process, and the earlier positions that name it
\* are excused from then on; what dies is nobody's worker any more.
LEMMA EffectStep == Inv /\ EffectInv /\ [Next]_vars => EffectInv'
<1> SUFFICES ASSUME Inv, EffectInv, [Next]_vars PROVE EffectInv'
  OBVIOUS
<1>0. /\ TypeOK /\ NULL \notin Pids \cup Tasks /\ taskPid \in [Tasks -> Pids \cup {NULL}]
      /\ proc \in [Pids -> {"free", "running", "stopped", "zombie", "foreign"}]
      /\ owner \in [Pids -> Tasks \cup {NULL}] /\ plan \in Seq(Actions) /\ i \in Nat
  BY TaskAssumption DEF Inv, TypeOK, Actions
<1>1. CASE BeginWindow \/ EnsureKnown \/ Spawn \/ Attach \/ CallRaises
  BY <1>1 DEF BeginWindow, EnsureKnown, Spawn, Attach, CallRaises, Advance, EffectInv
<1>2. CASE EnsureDone
  BY <1>2 DEF EnsureDone, EffectInv
<1>3. CASE PublishVelocity
  <2>1. phase' = "signal" /\ i' = 1
    BY <1>3 DEF PublishVelocity, EffectInv
  <2> QED
    BY <2>1 DEF EffectInv
<1>4. CASE SignalTask
  <2>1. /\ phase = "signal" /\ phase' = "signal" /\ More /\ i' = i + 1
        /\ UNCHANGED <<plan, taskPid, owner>>
        /\ proc' = IF Mapped(Task) /\ Live(taskPid[Task])
                     THEN [proc EXCEPT ![taskPid[Task]] = StateAfter(plan[i])] ELSE proc
    BY <1>4 DEF SignalTask, Advance
  <2>2. i \in 1 .. Len(plan) /\ Task \in Tasks /\ Task = plan[i].task
    BY <1>0, <2>1, TaskOfPlan DEF More, Task, TypeOK
  <2>3. \A p \in Pids : Live(p)' <=> Live(p)
    BY <1>0, <2>1 DEF Live, StateAfter
  <2>4. ASSUME NEW k \in 1 .. Len(plan), k < i + 1, NEW p \in Pids,
               p = taskPid[plan[k].task], Live(p),
               \A l \in 1 .. Len(plan) : k < l /\ l < i + 1 => taskPid[plan[l].task] # p
        PROVE  proc'[p] = IF IsRunAction(plan[k]) THEN "running" ELSE "stopped"
    <3>1. CASE k = i
      <4>1. taskPid[Task] = p /\ Mapped(Task)
        BY <1>0, <2>2, <2>4, <3>1 DEF Mapped
      <4>2. proc'[p] = StateAfter(plan[i])
        BY <1>0, <2>1, <2>4, <4>1
      <4> QED
        BY <3>1, <4>2 DEF StateAfter
    <3>2. CASE k # i
      <4>1. k < i /\ taskPid[Task] # p
        BY <1>0, <2>2, <2>4, <3>2
      <4>2. proc'[p] = proc[p]
        BY <1>0, <2>1, <2>4, <4>1
      <4>3. Effect(k, i)
        BY <2>1, <4>1 DEF EffectInv
      <4>4. \A l \in 1 .. Len(plan) : k < l /\ l < i => taskPid[plan[l].task] # p
        BY <1>0, <2>4
      <4>5. Mapped(plan[k].task)
        BY <1>0, <2>4 DEF Mapped
      <4> QED
        BY <2>4, <4>2, <4>3, <4>4, <4>5 DEF Effect
    <3> QED
      BY <3>1, <3>2
  <2>5. ASSUME NEW k \in 1 .. Len(plan), k < i + 1 PROVE Effect(k, i)'
    <3>0. plan[k] \in Actions
      BY <1>0
    <3>1. plan[k].task \in Tasks /\ plan' = plan /\ taskPid' = taskPid /\ i' = i + 1
      BY <2>1, <3>0 DEF Actions
    <3>2. ASSUME Mapped(plan[k].task), NEW p, p = taskPid[plan[k].task], Live(p)',
                 \A l \in 1 .. Len(plan) : k < l /\ l < i + 1 => taskPid[plan[l].task] # p
          PROVE  proc'[p] = IF IsRunAction(plan[k]) THEN "running" ELSE "stopped"
      <4>1. p \in Pids
        BY <1>0, <3>1, <3>2 DEF Mapped
      <4> QED
        BY <2>3, <2>4, <2>5, <3>2, <4>1
    <3> QED
      BY <3>1, <3>2 DEF Effect, IsRunAction, Mapped
  <2> QED
    BY <2>1, <2>5 DEF EffectInv
<1>5. CASE EndWindow
  <2>1. /\ phase = "signal" /\ phase' = "idle" /\ ~More
        /\ UNCHANGED <<plan, taskPid, owner, proc>>
    BY <1>5 DEF EndWindow, machine
  <2>2. \A k \in 1 .. Len(plan) : k < i /\ k < Len(plan) + 1
    BY <1>0, <2>1 DEF More
  <2>3. \A k \in 1 .. Len(plan) : Effect(k, i)
    BY <2>1, <2>2 DEF EffectInv
  <2>4. \A k \in 1 .. Len(plan) : Effect(k, Len(plan) + 1)
    BY <2>2, <2>3 DEF Effect
  <2> QED
    BY <2>1, <2>4 DEF EffectInv, Effect, Mapped, Live, IsRunAction
<1>6. ASSUME NEW p \in Pids, Die(p) \/ Reuse(p) PROVE EffectInv'
  <2>1. /\ UNCHANGED <<phase, plan, i, taskPid>>
        /\ \/ proc' = [proc EXCEPT ![p] = "zombie"]
           \/ proc' = [proc EXCEPT ![p] = "foreign"]
    BY <1>6 DEF Die, Reuse, adapter
  <2>2. \A q \in Pids : Live(q)' => Live(q) /\ proc'[q] = proc[q]
    BY <1>0, <2>1 DEF Live
  <2>3. ASSUME NEW k \in 1 .. Len(plan), NEW n \in {i, Len(plan) + 1}, Effect(k, n)
        PROVE  /\ n = i => Effect(k, i)'
               /\ n = Len(plan) + 1 => Effect(k, Len(plan) + 1)'
    <3>0. plan[k] \in Actions
      BY <1>0
    <3>1. plan[k].task \in Tasks
      BY <3>0 DEF Actions
    <3>2. taskPid[plan[k].task] \in Pids \/ ~Mapped(plan[k].task)
      BY <1>0, <3>1 DEF Mapped
    <3> QED
      BY <2>1, <2>2, <2>3, <3>2 DEF Effect, IsRunAction, Mapped
  <2> QED
    BY <2>1, <2>3 DEF EffectInv
<1>7. CASE Terminated \/ UNCHANGED vars
  BY <1>7
  DEF Terminated, vars, adapter, machine, EffectInv, Effect, Mapped, Live, IsRunAction
<1> QED
  BY <1>1, <1>2, <1>3, <1>4, <1>5, <1>6, <1>7 DEF Next

WindowInv == Inv /\ PlanInv /\ EffectInv /\ DrivenByMostCritical

LEMMA WindowInit == Init => WindowInv
<1>1. Init => DrivenByMostCritical
  BY DEF Init, DrivenByMostCritical
<1> QED
  BY <1>1, InvInit, PlanInit, EffectInit DEF WindowInv

LEMMA WindowStep == WindowInv /\ [Next]_vars => WindowInv'
BY InvStep, PlanStep, EffectStep, DrivenStep DEF WindowInv, Inv

\* The robot is driven for the most critical task that runs.
THEOREM Driven == Spec => []DrivenByMostCritical
<1>1. WindowInv => DrivenByMostCritical
  BY DEF WindowInv
<1> QED
  BY <1>1, WindowInit, WindowStep, PTL DEF Spec

\* After a window every living process the plan names does what the last action of
\* the plan that names it decided, whether or not tasks share a pid.
THEOREM InEffect == Spec => []PlanIsInEffect
<1>1. WindowInv => PlanIsInEffect
  <2> SUFFICES ASSUME WindowInv, phase = "idle" PROVE PlanIsInEffect
    BY DEF PlanIsInEffect
  <2>1. \A k \in 1 .. Len(plan) : Effect(k, Len(plan) + 1) /\ k < Len(plan) + 1
    BY DEF WindowInv, EffectInv, Inv, TypeOK
  <2> QED
    BY <2>1 DEF Effect, PlanIsInEffect
<1> QED
  BY <1>1, WindowInit, WindowStep, PTL DEF Spec

-----------------------------------------------------------------------------
(* The pool *)

W == [t \in Tasks |-> StateOf(t)]

\* Who is confined lives and is not the one being attached, which is the first
\* worker of the task the loop is at.
PoolInv ==
  /\ \A p \in cgroup : Live(p) /\ p # newPid
  /\ newPid # NULL =>
       /\ Task \in Tasks /\ ~Mapped(Task) /\ owner[newPid] = Task
       /\ proc[newPid] \in {"running", "zombie"}

\* The state of a task with a living worker is that of the worker, and every
\* worker is confined but the one being attached.
WorkerStates ==
  \A t \in Tasks : \A p \in WorkersOf(t) :
    /\ Spawned(t) /\ WorkersOf(t) = {p} /\ (p \in cgroup <=> p # newPid)
    /\ StateOf(t) = IF p = newPid THEN "loose" ELSE proc[p]

LEMMA PoolInit == Init => PoolInv
BY DEF Init, PoolInv

LEMMA PoolStep == Inv /\ PoolInv /\ [Next]_vars => PoolInv'
<1> SUFFICES ASSUME Inv, PoolInv, [Next]_vars PROVE PoolInv'
  OBVIOUS
<1>0. /\ TypeOK /\ PidInv /\ NULL \notin Pids \cup Tasks /\ cgroup \subseteq Pids
      /\ newPid \in Pids \cup {NULL} /\ taskPid \in [Tasks -> Pids \cup {NULL}]
      /\ proc \in [Pids -> {"free", "running", "stopped", "zombie", "foreign"}]
      /\ owner \in [Pids -> Tasks \cup {NULL}]
  BY TaskAssumption DEF Inv, TypeOK
<1>1. CASE BeginWindow \/ EnsureKnown \/ EnsureDone \/ EndWindow \/ PublishVelocity
  <2>1. /\ phase \notin {"attach", "failed"}
        /\ UNCHANGED <<newPid, taskPid, owner, cgroup>> /\ proc' \in {proc, Reaped}
    BY <1>1 DEF BeginWindow, EnsureKnown, EnsureDone, EndWindow, PublishVelocity, machine
  <2>2. newPid = NULL /\ \A p \in Pids : Live(p) => Live(p)'
    BY <1>0, <2>1, ReapedLive DEF PidInv, Live
  <2> QED
    BY <1>0, <2>1, <2>2 DEF PoolInv
<1>2. CASE CallRaises \/ Terminated \/ UNCHANGED vars
  <2>1. UNCHANGED <<plan, i, newPid, taskPid, proc, owner, cgroup>>
    BY <1>2 DEF CallRaises, Terminated, vars, adapter, machine
  <2> QED
    BY <2>1 DEF PoolInv, Live, Task, Mapped
<1>3. CASE Spawn
  <2>1. PICK p \in Pids : /\ Reaped[p] = "free" /\ proc' = [Reaped EXCEPT ![p] = "running"]
                          /\ owner' = [owner EXCEPT ![p] = Task] /\ newPid' = p
    BY <1>3 DEF Spawn
  <2>2. ~Mapped(Task) /\ Task \in Tasks /\ UNCHANGED <<plan, i, taskPid, cgroup>>
    BY <1>0, <1>3, TaskOfPlan DEF Spawn, Known
  <2>3. \A q \in cgroup : Live(q)' /\ q # p
    BY <1>0, <2>1 DEF PoolInv, Live, Reaped
  <2>4. (Task \in Tasks /\ ~Mapped(Task) /\ owner[newPid] = Task /\ proc[newPid] = "running")'
    BY <1>0, <2>1, <2>2 DEF Task, Mapped, Reaped
  <2> QED
    BY <2>1, <2>2, <2>3, <2>4 DEF PoolInv
<1>4. CASE Attach
  <2>1. /\ phase = "attach" /\ newPid' = NULL /\ proc' = proc
        /\ cgroup' = IF Live(newPid) THEN cgroup \cup {newPid} ELSE cgroup
    BY <1>4 DEF Attach
  <2>2. newPid \in Pids
    BY <1>0, <2>1 DEF PidInv
  <2>3. \A q \in cgroup' : Live(q)' /\ q # newPid'
    BY <1>0, <2>1, <2>2 DEF PoolInv, Live
  <2> QED
    BY <2>1, <2>3 DEF PoolInv
<1>5. CASE SignalTask
  <2>1. /\ UNCHANGED <<newPid, taskPid, owner, cgroup>> /\ newPid = NULL
        /\ proc' = IF Mapped(Task) /\ Live(taskPid[Task])
                     THEN [proc EXCEPT ![taskPid[Task]] = StateAfter(plan[i])] ELSE proc
    BY <1>0, <1>5 DEF SignalTask, PidInv
  <2>2. \A p \in Pids : Live(p) => Live(p)'
    BY <1>0, <2>1 DEF Live, StateAfter
  <2> QED
    BY <1>0, <2>1, <2>2 DEF PoolInv
<1>6. ASSUME NEW p \in Pids, Die(p) PROVE PoolInv'
  <2>1. /\ UNCHANGED <<plan, i, newPid, taskPid, owner>> /\ proc' = [proc EXCEPT ![p] = "zombie"]
        /\ cgroup' = cgroup \ {p}
    BY <1>6 DEF Die, adapter
  <2>2. \A q \in cgroup' : Live(q)' /\ q # newPid
    BY <1>0, <2>1 DEF PoolInv, Live
  <2>3. newPid # NULL => proc'[newPid] \in {"running", "zombie"}
    BY <1>0, <2>1 DEF PoolInv
  <2> QED
    BY <2>1, <2>2, <2>3 DEF PoolInv, Task, Mapped
<1>7. ASSUME NEW p \in Pids, Reuse(p) PROVE PoolInv'
  <2>1. /\ UNCHANGED <<plan, i, newPid, taskPid, cgroup>> /\ proc' = [proc EXCEPT ![p] = "foreign"]
        /\ proc[p] = "free" /\ owner' = [owner EXCEPT ![p] = NULL]
    BY <1>7 DEF Reuse, adapter
  <2>2. \A q \in cgroup' : Live(q)' /\ q # newPid
    BY <1>0, <2>1 DEF PoolInv, Live
  <2>3. newPid # NULL => newPid # p /\ proc'[newPid] = proc[newPid] /\ owner'[newPid] = owner[newPid]
    BY <1>0, <2>1 DEF PoolInv
  <2> QED
    BY <2>1, <2>2, <2>3 DEF PoolInv, Task, Mapped
<1> QED
  BY <1>1, <1>2, <1>3, <1>4, <1>5, <1>6, <1>7 DEF Next

LEMMA StatesOfWorkers == Inv /\ PoolInv => WorkerStates
<1> SUFFICES ASSUME Inv, PoolInv, NEW t \in Tasks, NEW p \in WorkersOf(t)
             PROVE  /\ Spawned(t) /\ WorkersOf(t) = {p} /\ (p \in cgroup <=> p # newPid)
                    /\ StateOf(t) = IF p = newPid THEN "loose" ELSE proc[p]
  BY DEF WorkerStates
<1>1. NULL \notin Pids /\ p \in Pids /\ Live(p) /\ owner[p] = t
  BY TaskAssumption DEF WorkersOf
<1>2. taskPid[t] = p \/ (p = newPid /\ taskPid[t] = NULL)
  BY <1>1 DEF Inv, PidInv
<1>3. Spawned(t)
  BY <1>1, <1>2 DEF Spawned, Mapped, PoolInv
<1>4. WorkersOf(t) = {p}
  <2> SUFFICES ASSUME NEW q \in WorkersOf(t) PROVE q = p
    OBVIOUS
  <2>1. q \in Pids /\ (taskPid[t] = q \/ (q = newPid /\ taskPid[t] = NULL))
    BY DEF Inv, PidInv, WorkersOf
  <2> QED
    BY <1>1, <1>2, <2>1
<1>5. p \in cgroup <=> p # newPid
  <2>1. ASSUME p # newPid PROVE p \in cgroup
    <3>1. Own(t) /\ taskPid[t] = p
      BY <1>1, <1>2, <2>1 DEF Own, Mapped
    <3> QED
      BY <3>1 DEF Inv, RememberedIsConfined
  <2> QED
    BY <2>1 DEF PoolInv
<1>6. (CHOOSE q \in WorkersOf(t) : TRUE) = p
  BY <1>4
<1> QED
  BY <1>3, <1>4, <1>5, <1>6 DEF StateOf

\* A task keeps its state if its worker keeps pid, state and confinement.
LEMMA SameState ==
  ASSUME NEW t \in Tasks, Spawned(t)' <=> Spawned(t), WorkersOf(t)' = WorkersOf(t),
         \A p \in WorkersOf(t) : proc'[p] = proc[p] /\ (p \in cgroup' <=> p \in cgroup)
  PROVE  StateOf(t)' = StateOf(t)
<1> DEFINE q == CHOOSE p \in WorkersOf(t) : TRUE
<1>1. CASE WorkersOf(t) = {}
  BY <1>1 DEF StateOf
<1>2. CASE WorkersOf(t) # {}
  <2>1. q \in WorkersOf(t)
    BY <1>2
  <2>2. proc'[q] = proc[q] /\ (q \in cgroup' <=> q \in cgroup)
    BY <2>1
  <2>3. (CHOOSE p \in WorkersOf(t) : TRUE)' = q
    OBVIOUS
  <2> QED
    BY <1>2, <2>2, <2>3 DEF StateOf
<1> QED
  BY <1>1, <1>2

\* All tasks but one keep their state.
LEMMA PoolMoves ==
  ASSUME NEW u \in Tasks, \A t \in Tasks \ {u} : StateOf(t)' = StateOf(t)
  PROVE  W' = [W EXCEPT ![u] = StateOf(u)']
BY DEF W

LEMMA PoolNext ==
  Inv /\ PoolInv /\ WorkerStates /\ WorkerStates' /\ PoolInv' /\ [Next]_vars => [Pool!Next]_W
<1> SUFFICES ASSUME Inv, PoolInv, WorkerStates, WorkerStates', PoolInv', [Next]_vars
             PROVE  [Pool!Next]_W
  OBVIOUS
<1>0. /\ TypeOK /\ PidInv /\ NULL \notin Pids \cup Tasks /\ cgroup \subseteq Pids
      /\ newPid \in Pids \cup {NULL} /\ taskPid \in [Tasks -> Pids \cup {NULL}]
      /\ proc \in [Pids -> {"free", "running", "stopped", "zombie", "foreign"}]
      /\ owner \in [Pids -> Tasks \cup {NULL}]
  BY TaskAssumption DEF Inv, TypeOK
<1>1. ASSUME UNCHANGED <<newPid, taskPid, owner, cgroup>>, proc' \in {proc, Reaped},
             newPid = NULL \/ UNCHANGED <<plan, i>>
      PROVE  W' = W
  <2>0. \A p \in Pids : (Live(p)' <=> Live(p)) /\ (Live(p) => proc'[p] = proc[p])
    BY <1>0, <1>1, ReapedLive DEF Live
  <2>1. \A t \in Tasks : (Spawned(t)' <=> Spawned(t)) /\ WorkersOf(t)' = WorkersOf(t)
    BY <1>1, <2>0 DEF Spawned, Mapped, Task, WorkersOf
  <2>2. \A t \in Tasks : StateOf(t)' = StateOf(t)
    <3>1. \A t \in Tasks : \A p \in WorkersOf(t) : proc'[p] = proc[p]
      BY <2>0 DEF WorkersOf
    <3> QED
      BY <1>1, <2>1, <3>1, SameState
  <2> QED
    BY <2>2 DEF W
<1>2. CASE BeginWindow \/ EnsureKnown \/ EnsureDone \/ EndWindow \/ PublishVelocity
  <2>1. /\ phase \notin {"attach", "failed"}
        /\ UNCHANGED <<newPid, taskPid, owner, cgroup>> /\ proc' \in {proc, Reaped}
    BY <1>2 DEF BeginWindow, EnsureKnown, EnsureDone, EndWindow, PublishVelocity, machine
  <2> QED
    BY <1>0, <1>1, <2>1 DEF PidInv
<1>3. CASE CallRaises \/ Terminated \/ UNCHANGED vars
  <2>1. UNCHANGED <<plan, i, newPid, taskPid, proc, owner, cgroup>>
    BY <1>3 DEF CallRaises, Terminated, vars, adapter, machine
  <2> QED
    BY <1>1, <2>1
<1>4. CASE Spawn
  <2>1. PICK p \in Pids : /\ Reaped[p] = "free" /\ proc' = [Reaped EXCEPT ![p] = "running"]
                          /\ owner' = [owner EXCEPT ![p] = Task] /\ newPid' = p
    BY <1>4 DEF Spawn
  <2>2. /\ ~Mapped(Task) /\ Task \in Tasks /\ UNCHANGED <<plan, i, taskPid, cgroup>>
        /\ newPid = NULL /\ newPid' # NULL
    BY <1>0, <1>4, <2>1, TaskOfPlan DEF Spawn, Known, PidInv
  <2>3. PICK u \in Tasks : u = Task
    BY <2>2
  <2>4. Task' = u
    BY <2>2, <2>3 DEF Task
  <2>5. \A q \in Pids : q # p => (Live(q)' <=> Live(q)) /\ owner'[q] = owner[q] /\ (Live(q) => proc'[q] = proc[q])
    BY <1>0, <2>1 DEF Live, Reaped
  <2>6. ~Live(p) /\ Live(p)' /\ owner'[p] = u
    BY <1>0, <2>1, <2>3 DEF Live, Reaped
  <2>7. ASSUME NEW t \in Tasks \ {u} PROVE StateOf(t)' = StateOf(t)
    <3>1. Spawned(t)' <=> Spawned(t)
      BY <2>2, <2>3, <2>4 DEF Spawned, Mapped
    <3>2. WorkersOf(t)' = WorkersOf(t) /\ p \notin WorkersOf(t)
      BY <2>5, <2>6 DEF WorkersOf
    <3>3. \A q \in WorkersOf(t) : proc'[q] = proc[q] /\ (q \in cgroup' <=> q \in cgroup)
      BY <2>2, <2>5, <3>2 DEF WorkersOf
    <3> QED
      BY <3>1, <3>2, <3>3, SameState
  <2>8. StateOf(u) = "none"
    BY <2>2, <2>3 DEF StateOf, Spawned, Mapped
  <2>9. StateOf(u)' = "loose"
    <3>1. p \in WorkersOf(u)'
      BY <2>6 DEF WorkersOf
    <3> QED
      BY <2>1, <3>1 DEF WorkerStates
  <2>10. ASSUME NEW t \in Tasks PROVE StateOf(t) # "loose"
    <3>1. CASE WorkersOf(t) = {}
      BY <3>1 DEF StateOf
    <3>2. ASSUME NEW q \in WorkersOf(t) PROVE StateOf(t) # "loose"
      <4>1. q # newPid /\ proc[q] # "loose" /\ StateOf(t) = IF q = newPid THEN "loose" ELSE proc[q]
        BY <1>0, <2>2, <3>2 DEF WorkersOf, WorkerStates
      <4> QED
        BY <4>1
    <3> QED
      BY <3>1, <3>2
  <2>11. Pool!Start(u)
    <3>1. W' = [W EXCEPT ![u] = "loose"]
      BY <2>7, <2>9, PoolMoves
    <3> QED
      BY <2>8, <2>10, <3>1 DEF Pool!Start, W
  <2> QED
    BY <2>11 DEF Pool!Next
<1>5. CASE Attach
  <2>1. /\ phase = "attach" /\ newPid' = NULL /\ UNCHANGED <<proc, owner>>
        /\ cgroup' = IF Live(newPid) THEN cgroup \cup {newPid} ELSE cgroup
        /\ taskPid' = [taskPid EXCEPT ![Task] = newPid]
    BY <1>5 DEF Attach
  <2>2. newPid \in Pids /\ Task \in Tasks /\ ~Mapped(Task) /\ owner[newPid] = Task
        /\ proc[newPid] \in {"running", "zombie"}
    BY <1>0, <2>1 DEF PidInv, PoolInv
  <2>3. PICK u \in Tasks : u = Task
    BY <2>2
  <2>4. taskPid'[u] = newPid /\ \A t \in Tasks \ {u} : taskPid'[t] = taskPid[t]
    BY <1>0, <2>1, <2>3
  <2>5. \A t \in Tasks : WorkersOf(t)' = WorkersOf(t)
    BY <2>1 DEF WorkersOf, Live
  <2>6. ASSUME NEW t \in Tasks \ {u} PROVE StateOf(t)' = StateOf(t)
    <3>1. Spawned(t)' <=> Spawned(t)
      BY <2>1, <2>3, <2>4 DEF Spawned, Mapped
    <3>2. newPid \notin WorkersOf(t)
      BY <2>2, <2>3 DEF WorkersOf
    <3>3. \A q \in WorkersOf(t) : proc'[q] = proc[q] /\ (q \in cgroup' <=> q \in cgroup)
      BY <2>1, <3>2
    <3> QED
      BY <2>5, <3>1, <3>3, SameState
  <2>7. W' = [W EXCEPT ![u] = StateOf(u)']
    BY <2>6, PoolMoves
  <2>8. CASE Live(newPid)
    <3>1. newPid \in WorkersOf(u) /\ newPid \in WorkersOf(u)' /\ proc[newPid] = "running"
      BY <2>2, <2>3, <2>5, <2>8 DEF WorkersOf, Live
    <3>2. StateOf(u) = "loose"
      BY <3>1 DEF WorkerStates
    <3>3. StateOf(u)' = "running"
      <4>1. PICK p : p = newPid
        OBVIOUS
      <4>2. p \in WorkersOf(u)' /\ p # newPid' /\ proc'[p] = "running"
        BY <1>0, <2>1, <2>2, <3>1, <4>1
      <4> QED
        BY <4>2 DEF WorkerStates
    <3>4. Pool!Confine(u)
      BY <2>7, <3>2, <3>3 DEF Pool!Confine, W
    <3> QED
      BY <3>4 DEF Pool!Next
  <2>9. CASE ~Live(newPid)
    <3>1. WorkersOf(u) = {}
      BY <1>0, <2>2, <2>3, <2>9 DEF WorkersOf, PidInv, Mapped
    <3>2. StateOf(u) = "gone"
      BY <1>0, <2>2, <2>3, <3>1 DEF StateOf, Spawned
    <3>3. StateOf(u)' = "gone"
      BY <1>0, <2>2, <2>4, <2>5, <3>1 DEF StateOf, Spawned, Mapped
    <3>4. \A t \in Tasks : StateOf(t)' = StateOf(t)
      BY <2>6, <3>2, <3>3
    <3> QED
      BY <3>4 DEF W
  <2> QED
    BY <2>8, <2>9
<1>6. CASE SignalTask
  <2>1. /\ UNCHANGED <<newPid, taskPid, owner, cgroup>> /\ newPid = NULL
        /\ proc' = IF Mapped(Task) /\ Live(taskPid[Task])
                     THEN [proc EXCEPT ![taskPid[Task]] = StateAfter(plan[i])] ELSE proc
    BY <1>0, <1>6 DEF SignalTask, PidInv
  <2>2. Task \in Tasks
    BY <1>0, <1>6, TaskOfPlan DEF SignalTask
  <2>3. CASE ~(Mapped(Task) /\ Live(taskPid[Task]))
    BY <1>1, <2>1, <2>3
  <2>4. CASE Mapped(Task) /\ Live(taskPid[Task])
    <3>1. PICK p \in Pids : p = taskPid[Task]
      BY <1>0, <2>2, <2>4 DEF Mapped
    <3>2. PICK state \in {"running", "stopped"} : state = StateAfter(plan[i])
      BY DEF StateAfter
    <3>3. proc' = [proc EXCEPT ![p] = state] /\ Live(p)
      BY <2>1, <2>4, <3>1, <3>2
    <3>4. PICK u \in Tasks : u = owner[p]
      BY <1>0, <3>3 DEF PidInv
    <3>5. \A q \in Pids : (Live(q)' <=> Live(q)) /\ (q # p => proc'[q] = proc[q])
      BY <1>0, <3>3 DEF Live
    <3>6. \A t \in Tasks : WorkersOf(t)' = WorkersOf(t) /\ (Spawned(t)' <=> Spawned(t))
      BY <2>1, <3>5 DEF WorkersOf, Spawned, Mapped
    <3>7. ASSUME NEW t \in Tasks \ {u} PROVE StateOf(t)' = StateOf(t)
      <4>1. \A q \in WorkersOf(t) : proc'[q] = proc[q] /\ (q \in cgroup' <=> q \in cgroup)
        BY <2>1, <3>4, <3>5 DEF WorkersOf
      <4> QED
        BY <3>6, <4>1, SameState
    <3>8. p \in WorkersOf(u) /\ p \in WorkersOf(u)'
      BY <3>3, <3>4, <3>6 DEF WorkersOf
    <3>9. p # newPid /\ p # newPid'
      BY <1>0, <2>1
    <3>10. StateOf(u) \in {"running", "stopped"}
      BY <3>3, <3>8, <3>9 DEF WorkerStates, Live
    <3>11. StateOf(u)' = state
      <4>1. proc'[p] = state
        BY <1>0, <3>3
      <4> QED
        BY <3>8, <3>9, <4>1 DEF WorkerStates
    <3>12. Pool!Signal(u, state)
      <4>1. W' = [W EXCEPT ![u] = state]
        BY <3>7, <3>11, PoolMoves
      <4> QED
        BY <3>10, <4>1 DEF Pool!Signal, W
    <3> QED
      BY <3>12 DEF Pool!Next
  <2> QED
    BY <2>3, <2>4
<1>7. ASSUME NEW p \in Pids, Die(p) PROVE Pool!Next
  <2>1. /\ UNCHANGED <<plan, i, newPid, taskPid, owner>> /\ proc' = [proc EXCEPT ![p] = "zombie"]
        /\ cgroup' = cgroup \ {p} /\ Live(p)
    BY <1>7 DEF Die, adapter
  <2>2. PICK u \in Tasks : u = owner[p]
    BY <1>0, <2>1 DEF PidInv
  <2>3. \A q \in Pids : (Live(q)' <=> Live(q) /\ q # p) /\ (q # p => proc'[q] = proc[q])
    BY <1>0, <2>1 DEF Live
  <2>4. \A t \in Tasks : Spawned(t)' <=> Spawned(t)
    BY <2>1 DEF Spawned, Mapped, Task
  <2>5. ASSUME NEW t \in Tasks \ {u} PROVE StateOf(t)' = StateOf(t)
    <3>1. p \notin WorkersOf(t) /\ WorkersOf(t)' = WorkersOf(t)
      BY <2>1, <2>2, <2>3 DEF WorkersOf
    <3>2. \A q \in WorkersOf(t) : proc'[q] = proc[q] /\ (q \in cgroup' <=> q \in cgroup)
      BY <2>1, <2>3, <3>1 DEF WorkersOf
    <3> QED
      BY <2>4, <3>1, <3>2, SameState
  <2>6. p \in WorkersOf(u)
    BY <2>1, <2>2 DEF WorkersOf
  <2>7. Spawned(u) /\ WorkersOf(u) = {p} /\ StateOf(u) \in {"loose", "running", "stopped"}
    BY <2>1, <2>6 DEF WorkerStates, Live
  <2>8. WorkersOf(u)' = {}
    BY <2>1, <2>3, <2>7 DEF WorkersOf
  <2>9. StateOf(u)' = "gone"
    BY <2>4, <2>7, <2>8 DEF StateOf
  <2>10. Pool!Die(u)
    <3>1. W' = [W EXCEPT ![u] = "gone"]
      BY <2>5, <2>9, PoolMoves
    <3> QED
      BY <2>7, <3>1 DEF Pool!Die, W
  <2> QED
    BY <2>10 DEF Pool!Next
<1>8. ASSUME NEW p \in Pids, Reuse(p) PROVE W' = W
  <2>1. /\ UNCHANGED <<plan, i, newPid, taskPid, cgroup>> /\ proc' = [proc EXCEPT ![p] = "foreign"]
        /\ proc[p] = "free" /\ owner' = [owner EXCEPT ![p] = NULL]
    BY <1>8 DEF Reuse, adapter
  <2>2. \A q \in Pids : (Live(q)' <=> Live(q)) /\ (Live(q) => q # p)
                        /\ (q # p => proc'[q] = proc[q] /\ owner'[q] = owner[q])
    BY <1>0, <2>1 DEF Live
  <2>3. ASSUME NEW t \in Tasks PROVE StateOf(t)' = StateOf(t)
    <3>1. WorkersOf(t)' = WorkersOf(t)
      BY <2>2 DEF WorkersOf
    <3>2. Spawned(t)' <=> Spawned(t)
      BY <2>1 DEF Spawned, Mapped, Task
    <3>3. \A q \in WorkersOf(t) : proc'[q] = proc[q] /\ (q \in cgroup' <=> q \in cgroup)
      BY <2>1, <2>2 DEF WorkersOf
    <3> QED
      BY <3>1, <3>2, <3>3, SameState
  <2> QED
    BY <2>3 DEF W
<1> QED
  BY <1>2, <1>3, <1>4, <1>5, <1>6, <1>7, <1>8 DEF Next

\* Whatever raises, dies or gets a used pid, the manager, the enforcer and the
\* operating system together do what WorkerPool allows.
THEOREM PoolKept == Spec => ImplementsPool
<1>1. Init => Pool!Init
  <2> SUFFICES ASSUME Init PROVE Pool!Init
    OBVIOUS
  <2>1. \A t \in Tasks : StateOf(t) = "none"
    BY DEF Init, StateOf, Spawned, Mapped
  <2> QED
    BY <2>1 DEF Pool!Init
<1>2. Inv /\ PoolInv /\ [Next]_vars => Inv' /\ PoolInv'
  BY InvStep, PoolStep
<1>3. Inv /\ PoolInv /\ WorkerStates /\ WorkerStates' /\ PoolInv' /\ [Next]_vars
        => [Pool!Next]_([t \in Tasks |-> StateOf(t)])
  BY PoolNext DEF W
<1> QED
  BY <1>1, <1>2, <1>3, InvInit, PoolInit, StatesOfWorkers, PTL DEF Spec, ImplementsPool, Pool!Spec
=============================================================================
