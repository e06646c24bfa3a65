---------------------------- MODULE E2ERunnerProofs ----------------------------
(***************************************************************************)
(* Theorems about the supervisor: what it leaves behind and what it writes *)
(* down, whatever raises, crashes or ignores its signals.                  *)
(***************************************************************************)
EXTENDS E2ERunner, TLAPS

Phases == {"launchSim", "poll", "check", "launchScheduler", "wait", "term", "grace",
           "kill", "summary", "returned", "raised", "interrupted"}
Launching == {"launchSim", "poll", "check", "launchScheduler", "wait"}

Stopped(p) == Alive(p) => p \in killed

\* Where run() is tells which children have been dealt with; an interrupted run
\* tells nothing.
ShutdownInv ==
  /\ phase \in Launching => asked = {} /\ killed = {}
  /\ phase \notin Launching \cup {"interrupted"} => ~Alive("scheduler")
  /\ phase \in {"grace", "kill"} => target \in asked
  /\ phase \in {"summary", "returned", "raised"} => Stopped("sim")

\* A child is launched once, before anything is concluded or stopped.
LaunchInv ==
  /\ phase \in Launching => status = "failed"
  /\ phase = "launchSim" => proc["sim"] = "none"
  /\ phase \in {"launchSim", "poll", "check", "launchScheduler"} => proc["scheduler"] = "none"
  /\ phase \in Launching \ {"launchSim"} => proc["sim"] # "none"
  /\ phase = "wait" => proc["scheduler"] # "none"

\* A child has an exit code once it has exited and not before.
CodeInv == \A p \in Procs : proc[p] = "exited" <=> code[p] # NULL

\* Success was concluded from the scheduler's exit, which is final.
SuccessInv == status = "success" => proc["scheduler"] = "exited" /\ code["scheduler"] = 0

\* The reason is set once the launching is over, to one that holds; an exception
\* that replaces it says nothing of the children.
ReasonInv ==
  /\ phase \notin Launching \cup {"interrupted"} => BornOut(reason)
  /\ reason = "completed" => status = "success"
  /\ status = "success" => reason \in {"completed", "runner_exception"}

Inv ==
  /\ TypeOK
  /\ ShutdownInv
  /\ LaunchInv
  /\ ExperimentUninterrupted
  /\ CodeInv
  /\ SuccessInv
  /\ ReasonInv

\* The actions by what they change: the runner's moves, and a child's exit.
LEMMA TypeOKStep == TypeOK /\ [Next]_vars => TypeOK'
<1> SUFFICES ASSUME TypeOK, [Next]_vars PROVE TypeOK'
  OBVIOUS
<1> USE FlagAssumption DEF TypeOK, Procs
<1>1. ASSUME NEW p \in Procs, Launch(p) PROVE TypeOK'
  BY <1>1 DEF Launch
<1>2. CASE ReadyTimeout \/ SimExitedEarly \/ SimAlive \/ CheckReady
  BY <1>2 DEF ReadyTimeout, SimExitedEarly, SimAlive, CheckReady, Finalize, children
<1>3. CASE WaitDone \/ CallRaises
  BY <1>3 DEF WaitDone, CallRaises, Finalize, children
<1>4. CASE TargetGone \/ Terminate \/ Kill \/ GraceTimeout
  BY <1>4 DEF TargetGone, Terminate, Kill, GraceTimeout, NextTarget, children
<1>5. CASE WriteSummary \/ WriteRaises \/ Interrupt
  BY <1>5 DEF WriteSummary, WriteRaises, Interrupt, Finalize, children
<1>6. ASSUME NEW p \in Procs, NEW c \in Nat, Exit(p, c) PROVE TypeOK'
  BY <1>6 DEF Exit, Alive, runner
<1>7. CASE UNCHANGED vars
  BY <1>7 DEF vars, runner, children
<1> QED
  BY <1>1, <1>2, <1>3, <1>4, <1>5, <1>6, <1>7
  DEF Next, RunnerStep, SimCrashes, SchedulerCompletes, SchedulerFails, DiesOfTerm, DiesOfKill,
      Terminated

LEMMA InvInit == Init => Inv
BY FlagAssumption
DEF Init, Inv, TypeOK, Procs, ShutdownInv, LaunchInv, ExperimentUninterrupted, CodeInv,
    SuccessInv, ReasonInv, BornOut, Launching

\* An exit only ever helps: fewer children are alive and the code is the exit's.
LEMMA InvExit ==
  ASSUME Inv, TypeOK', NEW p \in Procs, NEW c \in Nat, Exit(p, c)
  PROVE  Inv'
<1>1. /\ proc[p] = "running" /\ proc'[p] = "exited" /\ code'[p] = c /\ c # NULL
      /\ \A q \in Procs \ {p} : proc'[q] = proc[q] /\ code'[q] = code[q]
      /\ UNCHANGED <<phase, target, status, asked, killed>>
  BY FlagAssumption DEF Exit, Alive, Inv, TypeOK, runner
<1>2. \A q \in Procs : Alive(q)' => Alive(q)
  BY <1>1 DEF Alive
<1>3. ShutdownInv' /\ LaunchInv' /\ ExperimentUninterrupted'
  BY <1>1, <1>2 DEF Alive, Inv, ShutdownInv, LaunchInv, ExperimentUninterrupted, Stopped,
     Procs, TypeOK
<1>4. CodeInv'
  BY <1>1 DEF Inv, CodeInv
<1>5. SuccessInv'
  BY <1>1 DEF Inv, SuccessInv, Procs
<1>6. ReasonInv'
  <2>1. code[p] = NULL /\ reason' = reason
    BY <1>1, Zenon DEF Inv, CodeInv, Exit, runner
  <2>2. \A why : BornOut(why) => BornOut(why)'
    BY <1>1, <2>1, FlagAssumption DEF BornOut, Procs
  <2> QED
    BY <1>1, <2>1, <2>2 DEF Inv, ReasonInv
<1> QED
  BY <1>3, <1>4, <1>5, <1>6 DEF Inv

\* Every step of the runner and of its children keeps the invariant.
LEMMA InvStep == Inv /\ [Next]_vars => Inv'
<1> SUFFICES ASSUME Inv, [Next]_vars PROVE Inv'
  OBVIOUS
<1>0. TypeOK /\ TypeOK'
  BY TypeOKStep DEF Inv
<1> USE DEF Launching, Procs
<1>1. ASSUME NEW p \in Procs, Launch(p) PROVE Inv'
  <2>1. /\ phase \in {"launchSim", "launchScheduler"} /\ phase' \in {"poll", "wait"}
        /\ proc' = [proc EXCEPT ![p] = "running"]
        /\ UNCHANGED <<asked, killed, status, code>>
    BY <1>1 DEF Launch
  <2>2. asked = {} /\ killed = {} /\ status = "failed" /\ proc[p] = "none"
    BY <1>1, <2>1 DEF Launch, Inv, ShutdownInv, LaunchInv
  <2>3. ShutdownInv' /\ ExperimentUninterrupted' /\ SuccessInv' /\ ReasonInv'
    BY <1>1, <2>1, <2>2 DEF Launch, ShutdownInv, ExperimentUninterrupted, SuccessInv, Inv, ReasonInv
  <2>4. LaunchInv'
    BY <1>0, <1>1, <2>1, <2>2 DEF Launch, Inv, LaunchInv, TypeOK
  <2>5. CodeInv'
    BY <1>0, <2>1, <2>2 DEF Inv, CodeInv, TypeOK
  <2> QED
    BY <1>0, <2>3, <2>4, <2>5 DEF Inv
<1>2. CASE ReadyTimeout \/ SimExitedEarly \/ SimAlive \/ CheckReady \/ CallRaises
  BY <1>0, <1>2
  DEF TypeOK, ReadyTimeout, SimExitedEarly, SimAlive, CheckReady, CallRaises, Finalize,
      children, Inv, ShutdownInv, LaunchInv, ExperimentUninterrupted, CodeInv,
      SuccessInv, ReasonInv, BornOut, Stopped, Alive
<1>3. CASE WaitDone
  BY <1>0, <1>3, FlagAssumption
  DEF WaitDone, Finalize, children, TypeOK,
      Inv, ShutdownInv, LaunchInv, ExperimentUninterrupted, CodeInv,
      SuccessInv, ReasonInv, BornOut, Stopped, Alive
<1>4. CASE TargetGone
  BY <1>0, <1>4
  DEF TargetGone, NextTarget, children, TypeOK,
      Inv, ShutdownInv, LaunchInv, ExperimentUninterrupted, CodeInv,
      SuccessInv, ReasonInv, BornOut, Stopped, Alive
<1>5. CASE Terminate
  BY <1>0, <1>5
  DEF Terminate, TypeOK, Inv, ShutdownInv, LaunchInv, ExperimentUninterrupted, CodeInv,
      SuccessInv, ReasonInv, BornOut, Stopped, Alive
<1>6. CASE GraceTimeout
  BY <1>0, <1>6
  DEF GraceTimeout, children, Inv, ShutdownInv, LaunchInv, ExperimentUninterrupted, CodeInv,
      SuccessInv, ReasonInv, BornOut, Stopped, Alive
<1>7. CASE Kill
  BY <1>0, <1>7
  DEF Kill, NextTarget, TypeOK, Inv, ShutdownInv, LaunchInv, ExperimentUninterrupted, CodeInv,
      SuccessInv, ReasonInv, BornOut, Stopped, Alive
<1>8. CASE WriteSummary \/ WriteRaises \/ Interrupt
  BY <1>0, <1>8
  DEF WriteSummary, WriteRaises, Interrupt, Finalize, children, Inv, ShutdownInv, LaunchInv,
      ExperimentUninterrupted, CodeInv,
      SuccessInv, ReasonInv, BornOut, Stopped, Alive
<1>9. ASSUME NEW p \in Procs, NEW c \in Nat, Exit(p, c) PROVE Inv'
  BY <1>0, <1>9, InvExit
<1>10. CASE UNCHANGED vars
  BY <1>0, <1>10
  DEF vars, runner, children, Inv, ShutdownInv, LaunchInv, ExperimentUninterrupted, CodeInv,
      SuccessInv, ReasonInv, BornOut, Stopped, Alive
<1> QED
  BY <1>1, <1>2, <1>3, <1>4, <1>5, <1>6, <1>7, <1>8, <1>9, <1>10
  DEF Next, RunnerStep, SimCrashes, SchedulerCompletes, SchedulerFails, DiesOfTerm, DiesOfKill,
      Terminated

\* Type correctness of the runner and of what it knows of its children.
THEOREM TypeCorrect == Spec => []TypeOK
<1>1. Init => TypeOK
  BY InvInit DEF Inv
<1> QED
  BY <1>1, TypeOKStep, PTL DEF Spec

\* A scheduler is told to stop only when its simulation is gone, and the simulation
\* only when no scheduler runs.
THEOREM SchedulerLeftAlone == Spec => []ExperimentUninterrupted
<1>1. Inv => ExperimentUninterrupted
  BY DEF Inv
<1> QED
  BY <1>1, InvInit, InvStep, PTL DEF Spec

\* Only a child that was asked to terminate is killed, in the step that finds its
\* grace period over.
THEOREM KillComesLast == Spec => KillIsLastResort
<1>1. ASSUME Inv, [Next]_vars
      PROVE  [\A p \in killed' \ killed : p \in asked /\ p = target /\ phase = "kill"]_vars
  <2>1. CASE Kill
    <3>1. killed' \ killed \subseteq {target} /\ phase = "kill"
      BY <2>1 DEF Kill
    <3>2. target \in asked
      BY <1>1, <3>1 DEF Inv, ShutdownInv
    <3> QED
      BY <3>1, <3>2
  <2>2. CASE killed' = killed
    BY <2>2
  <2> QED
    BY <1>1, <2>1, <2>2
    DEF Next, RunnerStep, SimCrashes, SchedulerCompletes, SchedulerFails, DiesOfTerm, DiesOfKill,
        Terminated, Launch, ReadyTimeout, SimExitedEarly, SimAlive, CheckReady, WaitDone,
        CallRaises, TargetGone, Terminate, GraceTimeout, WriteSummary, WriteRaises, Interrupt, Exit,
        children, vars
<1> QED
  BY <1>1, InvInit, InvStep, PTL DEF Spec, KillIsLastResort

-----------------------------------------------------------------------------
(* The summary *)

\* The summary is written by the last step of run(), when every child is accounted
\* for; what it says stays true because exits are final.
SummaryInv ==
  /\ Inv
  /\ summary # NULL => phase \in {"returned", "interrupted"} /\ \A p \in Procs : Stopped(p)
  /\ SummaryIsTrue

LEMMA SummaryInvStep == SummaryInv /\ [Next]_vars => SummaryInv'
<1> SUFFICES ASSUME SummaryInv, [Next]_vars PROVE SummaryInv'
  OBVIOUS
<1>0. Inv /\ Inv'
  BY InvStep DEF SummaryInv
<1>1. CASE summary' = Written /\ (WriteSummary \/ (Interrupt /\ phase = "summary"))
  <2>1. /\ phase = "summary" /\ phase' \in {"returned", "interrupted"}
        /\ UNCHANGED <<code, proc, killed>>
        /\ summary' = [status |-> status, reason |-> reason, codes |-> code]
    BY <1>1 DEF WriteSummary, Interrupt, Written, children
  <2>2. summary'.status = status /\ summary'.codes = code /\ summary'.reason = reason
    BY <2>1
  <2>3. \A p \in Procs : code[p] = NULL => proc[p] = "none" \/ p \in killed
    BY <1>0, <2>1 DEF Inv, TypeOK, CodeInv, ShutdownInv, Stopped, Alive, Procs, Launching
  <2>4. status = "success" => code["scheduler"] = 0
    BY <1>0 DEF Inv, SuccessInv
  <2>5. /\ BornOut(reason)' /\ (reason = "completed" => status = "success")
        /\ status = "success" => reason \in {"completed", "runner_exception"}
        /\ reason' = reason
    BY <1>0, <1>1, <2>1 DEF Inv, ReasonInv, BornOut, Launching, WriteSummary, Interrupt
  <2>6. SummaryIsTrue'
    BY <2>1, <2>2, <2>3, <2>4, <2>5 DEF SummaryIsTrue, BornOut
  <2>7. \A p \in Procs : Stopped(p)'
    BY <1>0, <2>1 DEF Inv, ShutdownInv, Stopped, Alive, Procs, Launching
  <2> QED
    BY <1>0, <2>1, <2>6, <2>7 DEF SummaryInv
<1>2. ASSUME NEW p \in Procs, NEW c \in Nat, Exit(p, c) PROVE SummaryInv'
  <2>1. /\ proc[p] = "running" /\ code[p] = NULL
        /\ \A q \in Procs \ {p} : proc'[q] = proc[q] /\ code'[q] = code[q]
        /\ UNCHANGED <<phase, summary, killed>>
    BY <1>0, <1>2 DEF Exit, Alive, Inv, TypeOK, CodeInv, runner
  <2>4. proc'[p] # "running"
    BY <1>0, <1>2 DEF Exit, Inv, TypeOK
  <2>5. \A q \in Procs : Stopped(q) => Stopped(q)'
    BY <2>1, <2>4 DEF Stopped, Alive
  <2>2. CASE summary = NULL
    BY <1>0, <2>1, <2>2 DEF SummaryInv, SummaryIsTrue
  <2>3. CASE summary # NULL
    <3>1. summary.codes[p] = NULL
      BY <2>1, <2>3 DEF SummaryInv, SummaryIsTrue
    <3>2. p \in killed
      BY <2>1, <2>3, <3>1 DEF SummaryInv, SummaryIsTrue
    <3>3. summary.status = "success" => code'["scheduler"] = 0
      BY <1>0, <2>1, <2>3, <3>1, FlagAssumption
      DEF SummaryInv, SummaryIsTrue, Procs
    <3>4. BornOut(summary.reason)'
      BY <2>1, <2>3, FlagAssumption DEF SummaryInv, SummaryIsTrue, BornOut, Procs
    <3> QED
      BY <1>0, <2>1, <2>3, <2>5, <3>1, <3>2, <3>3, <3>4 DEF SummaryInv, SummaryIsTrue
  <2> QED
    BY <2>2, <2>3
<1>3. CASE UNCHANGED <<phase, summary, proc, code, killed>>
  BY <1>0, <1>3 DEF SummaryInv, SummaryIsTrue, BornOut, Stopped, Alive
<1>4. CASE ~Ended /\ summary' = summary
  BY <1>0, <1>4 DEF SummaryInv, SummaryIsTrue, Ended
<1>5. CASE WriteSummary
  BY <1>1, <1>5 DEF WriteSummary
<1>6. CASE Interrupt
  BY <1>1, <1>4, <1>6 DEF Interrupt
<1> QED
  BY <1>2, <1>3, <1>4, <1>5, <1>6
  DEF Next, RunnerStep, SimCrashes, SchedulerCompletes, SchedulerFails, DiesOfTerm, DiesOfKill,
      Terminated, Ended, Launch, ReadyTimeout, SimExitedEarly, SimAlive, CheckReady, WaitDone,
      CallRaises, TargetGone, Terminate, Kill, GraceTimeout, WriteRaises, vars, runner, children,
      Procs

\* Whatever ended the run, no child is left running that was not killed, except by
\* an interrupt, and never beside a summary.
THEOREM NothingLeft == Spec => []NothingLeftRunning
<1>1. Init => SummaryInv
  BY InvInit DEF SummaryInv, SummaryIsTrue, Init
<1>2. SummaryInv => NothingLeftRunning
  BY DEF SummaryInv, Inv, ShutdownInv, NothingLeftRunning, Stopped, Procs, Launching
<1> QED
  BY <1>1, <1>2, SummaryInvStep, PTL DEF Spec

\* run_summary.json never claims a success that was not nor a reason that does not
\* hold, and leaves an exit code out only for a child never started or killed at the
\* very end.
THEOREM SummaryTrue == Spec => []SummaryIsTrue
<1>1. Init => SummaryInv
  BY InvInit DEF SummaryInv, SummaryIsTrue, Init
<1>2. SummaryInv => SummaryIsTrue
  BY DEF SummaryInv
<1> QED
  BY <1>1, <1>2, SummaryInvStep, PTL DEF Spec
=============================================================================
