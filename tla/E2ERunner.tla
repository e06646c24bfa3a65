------------------------------ MODULE E2ERunner ------------------------------
(***************************************************************************)
(* The supervisor E2ERunner.run(): it launches the simulation, waits until *)
(* it is ready, launches the scheduler, waits for it, and on every path    *)
(* stops what it started and writes run_summary.json.  The two children    *)
(* run beside it and may exit at any moment.  The scheduler is             *)
(* SteppedExperiment's loop: it completes only while the simulation lives. *)
(***************************************************************************)
EXTENDS Naturals

CONSTANTS
  CallsMayRaise, \* Popen, readiness_check and the summary write may raise, Ctrl-C may come
  SimMayCrash,   \* the simulation may exit by itself
  NULL

ASSUME FlagAssumption == CallsMayRaise \in BOOLEAN /\ SimMayCrash \in BOOLEAN
                         /\ NULL \notin Nat

Procs == {"sim", "scheduler"}

VARIABLES
  phase,    \* where run() is
  target,   \* the process _graceful_shutdown is at
  reason,   \* summary["reason"]
  status,   \* summary["status"]
  inExcept, \* run() is in its except clause
  summary,  \* what this run wrote to run_summary.json, NULL before it did
  proc, code,    \* the children: not started, running, exited; exit code
  asked, killed  \* children that were sent SIGTERM, SIGKILL

runner   == <<phase, target, reason, status, inExcept>>
children == <<proc, code, asked, killed>>
vars     == <<runner, summary, children>>

Init ==
  /\ phase = "launchSim" /\ target = "scheduler"
  /\ reason = "unknown" /\ status = "failed" /\ inExcept = FALSE
  /\ summary = NULL
  /\ proc = [p \in Procs |-> "none"] /\ code = [p \in Procs |-> NULL]
  /\ asked = {} /\ killed = {}

Alive(p) == proc[p] = "running"

-----------------------------------------------------------------------------
(* run() *)

\* return self._finalize(...): the scheduler is shut down first.
Finalize(why) == phase' = "term" /\ target' = "scheduler" /\ reason' = why

Launch(p) ==
  /\ phase = IF p = "sim" THEN "launchSim" ELSE "launchScheduler"
  /\ proc' = [proc EXCEPT ![p] = "running"]
  /\ phase' = IF p = "sim" THEN "poll" ELSE "wait"
  /\ UNCHANGED <<target, reason, status, inExcept, summary, code, asked, killed>>

\* The head of the readiness loop finds its deadline passed.
ReadyTimeout ==
  /\ phase = "poll"
  /\ Finalize("readiness_timeout")
  /\ UNCHANGED <<status, inExcept, summary, children>>

SimExitedEarly ==
  /\ phase = "poll" /\ ~Alive("sim")
  /\ Finalize("sim_launch_exited_before_ready")
  /\ UNCHANGED <<status, inExcept, summary, children>>

SimAlive ==
  /\ phase = "poll" /\ Alive("sim")
  /\ phase' = "check"
  /\ UNCHANGED <<target, reason, status, inExcept, summary, children>>

\* readiness_check(), which may answer either way, or sleep and try again.
CheckReady ==
  /\ phase = "check"
  /\ phase' \in {"launchScheduler", "poll"}
  /\ UNCHANGED <<target, reason, status, inExcept, summary, children>>

\* scheduler_proc.wait() returned; nothing looks at the simulation meanwhile.
WaitDone_AnyCode ==
  /\ phase = "wait" /\ ~Alive("scheduler")
  /\ status' = "success" /\ Finalize("completed")
  /\ UNCHANGED <<inExcept, summary, children>>
WaitDone_Impatient ==
  /\ phase = "wait"
  /\ status' = status /\ Finalize("scheduler_failed")
  /\ UNCHANGED <<inExcept, summary, children>>
WaitDone ==
  /\ phase = "wait" /\ ~Alive("scheduler")
  /\ IF code["scheduler"] = 0
       THEN status' = "success" /\ Finalize("completed")
       ELSE status' = status /\ Finalize("scheduler_failed")
  /\ UNCHANGED <<inExcept, summary, children>>

CallRaises ==
  /\ CallsMayRaise
  /\ phase \in {"launchSim", "check", "launchScheduler"}
  /\ Finalize("runner_exception") /\ inExcept' = TRUE
  /\ UNCHANGED <<status, summary, children>>

-----------------------------------------------------------------------------
(* _graceful_shutdown(), for the scheduler and then for the simulation *)

NextTarget_Cleared == target' = NULL /\ phase' = "summary"
NextTarget ==
  IF target = "scheduler" THEN target' = "sim" /\ phase' = "term"
                          ELSE target' = target /\ phase' = "summary"

\* Nothing to stop, or poll() finds it gone before or after the SIGTERM.
TargetGone ==
  /\ phase \in {"term", "grace", "kill"} /\ ~Alive(target)
  /\ NextTarget
  /\ UNCHANGED <<reason, status, inExcept, summary, children>>

Terminate_Kills ==
  /\ phase = "term" /\ Alive(target)
  /\ killed' = killed \cup {target}
  /\ phase' = "grace"
  /\ UNCHANGED <<target, reason, status, inExcept, summary, proc, code, asked>>
Terminate ==
  /\ phase = "term" /\ Alive(target)
  /\ asked' = asked \cup {target}
  /\ phase' = "grace"
  /\ UNCHANGED <<target, reason, status, inExcept, summary, proc, code, killed>>

GraceTimeout_GivesUp ==
  /\ phase = "grace"
  /\ NextTarget
  /\ UNCHANGED <<reason, status, inExcept, summary, children>>
GraceTimeout_Never == FALSE
\* The deadline of terminate_timeout_sec passed; poll once more, then kill.
GraceTimeout ==
  /\ phase = "grace"
  /\ phase' = "kill"
  /\ UNCHANGED <<target, reason, status, inExcept, summary, children>>

\* kill(), with no wait() after it.
Kill ==
  /\ phase = "kill" /\ Alive(target)
  /\ killed' = killed \cup {target}
  /\ NextTarget
  /\ UNCHANGED <<reason, status, inExcept, summary, proc, code, asked>>

-----------------------------------------------------------------------------
(* _finalize() after the shutdowns *)

\* poll() of each child that was started; NULL for one that has not exited.
Written == [status |-> status, reason |-> reason, codes |-> code]

WriteSummary ==
  /\ phase = "summary"
  /\ summary' = Written /\ phase' = "returned"
  /\ UNCHANGED <<target, reason, status, inExcept, children>>

\* The write raises.  Inside the try that leads to the except clause, which
\* finalizes again; inside the except clause run() raises.
WriteRaises ==
  /\ CallsMayRaise /\ phase = "summary"
  /\ IF inExcept
       THEN phase' = "raised" /\ UNCHANGED <<target, reason, inExcept>>
       ELSE Finalize("runner_exception") /\ inExcept' = TRUE
  /\ UNCHANGED <<status, summary, children>>

Ended == phase \in {"returned", "raised", "interrupted"}

Interrupt_Finalizes ==
  /\ CallsMayRaise /\ ~Ended
  /\ phase' = "returned" /\ summary' = Written
  /\ UNCHANGED <<target, reason, status, inExcept, children>>
\* KeyboardInterrupt is no Exception: it leaves run() at once, past the except
\* clause, with both children as they are; the summary is written or it is not (a
\* file that is only opened says nothing).
Interrupt ==
  /\ CallsMayRaise /\ ~Ended
  /\ phase' = "interrupted"
  /\ summary' = summary \/ (phase = "summary" /\ summary' = Written)
  /\ UNCHANGED <<target, reason, status, inExcept, children>>

-----------------------------------------------------------------------------
(* The children *)

Exit(p, c) ==
  /\ Alive(p)
  /\ proc' = [proc EXCEPT ![p] = "exited"] /\ code' = [code EXCEPT ![p] = c]
  /\ UNCHANGED <<runner, summary, asked, killed>>

SimCrashes == SimMayCrash /\ Exit("sim", 1)
SchedulerCompletes == Alive("sim") /\ Exit("scheduler", 0)
SchedulerFails == Exit("scheduler", 1)
DiesOfTerm(p) == p \in asked /\ Exit(p, 15)
DiesOfKill(p) == p \in killed /\ Exit(p, 9)

-----------------------------------------------------------------------------

RunnerStep ==
  \/ \E p \in Procs : Launch(p)
  \/ SimExitedEarly \/ SimAlive \/ CheckReady \/ WaitDone \/ CallRaises
  \/ TargetGone \/ Terminate \/ Kill \/ WriteSummary \/ WriteRaises

Terminated == Ended /\ UNCHANGED vars

Next ==
  \/ RunnerStep \/ ReadyTimeout \/ GraceTimeout \/ Interrupt
  \/ SimCrashes \/ SchedulerCompletes \/ SchedulerFails
  \/ \E p \in Procs : DiesOfTerm(p) \/ DiesOfKill(p)
  \/ Terminated

\* The runner is sequential code, its deadlines come (the readiness deadline is
\* looked at every time around its loop), and a scheduler whose simulation lives
\* gets to its end.  Nothing is assumed of a child that was asked to terminate.
Spec == /\ Init /\ [][Next]_vars
        /\ WF_vars(RunnerStep) /\ SF_vars(ReadyTimeout) /\ WF_vars(GraceTimeout)
        /\ WF_vars(SchedulerCompletes)

-----------------------------------------------------------------------------
(* Properties *)

TypeOK ==
  /\ phase \in {"launchSim", "poll", "check", "launchScheduler", "wait", "term",
                "grace", "kill", "summary", "returned", "raised", "interrupted"}
  /\ target \in Procs /\ inExcept \in BOOLEAN /\ status \in {"failed", "success"}
  /\ proc \in [Procs -> {"none", "running", "exited"}]
  /\ code \in [Procs -> Nat \cup {NULL}]
  /\ asked \subseteq Procs /\ killed \subseteq Procs

\* Whatever ended the run, and even when the summary could not be written, no
\* child is left running that was not killed; an interrupt may leave both, but
\* then there is no summary, and whoever finds one can rely on it.
NothingLeftRunning ==
  phase \in {"returned", "raised"} \/ summary # NULL =>
    \A p \in Procs : Alive(p) => p \in killed

\* SIGKILL is the last resort: only a child that was asked to terminate and has
\* outlived the grace period gets it.
KillIsLastResort ==
  [][\A p \in killed' \ killed : p \in asked /\ p = target /\ phase = "kill"]_vars

\* The world outlives the experiment: a scheduler is told to stop only when its
\* simulation is gone, and the simulation only when no scheduler runs, whatever
\* raises, times out or exits on the way there.
ExperimentUninterrupted ==
  /\ "scheduler" \in asked => proc["sim"] = "exited"
  /\ "sim" \in asked => ~Alive("scheduler")

\* What has become of the children bears a reason out; runner_exception says nothing
\* of them.
BornOut(why) ==
  /\ why # "unknown"
  /\ why = "completed" => code["scheduler"] = 0
  /\ why = "scheduler_failed" => code["scheduler"] \notin {0, NULL}
  /\ why \in {"readiness_timeout", "sim_launch_exited_before_ready"} => proc["scheduler"] = "none"
  /\ why = "sim_launch_exited_before_ready" => proc["sim"] = "exited"

\* The summary tells the truth, for good: its reason is what happened; it says
\* success for a scheduler that exited with 0 and no other, under the reason
\* "completed" or under that of an exception which came after the scheduler's exit
\* and replaced it; and it leaves an exit code out only for a child never started
\* or killed at the very end.
SummaryIsTrue ==
  summary # NULL =>
    /\ BornOut(summary.reason)
    /\ summary.reason = "completed" => summary.status = "success"
    /\ summary.status = "success" =>
         code["scheduler"] = 0 /\ summary.reason \in {"completed", "runner_exception"}
    /\ \A p \in Procs :
         IF summary.codes[p] = NULL THEN proc[p] = "none" \/ p \in killed
                                    ELSE summary.codes[p] = code[p]

\* run() comes to its end, however the children behave, unless it is left waiting
\* for a scheduler whose simulation is gone.
ReturnsOrHangs == <>Ended \/ <>[](phase = "wait" /\ ~Alive("sim") /\ Alive("scheduler"))

\* Observability design: the abnormal exit of either critical child makes the
\* runner terminate everything.
CrashEndsRun == phase = "wait" /\ ~Alive("sim") ~> Ended
=============================================================================
