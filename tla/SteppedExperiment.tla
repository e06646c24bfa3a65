-------------------------- MODULE SteppedExperiment --------------------------
(***************************************************************************)
(* run_stepped_experiment(): the window loop of SteppedExperimentLoop, the *)
(* SimStepper it drives Gazebo with, the trace files it appends to, and    *)
(* the parts of Gazebo it relies on (external).  Three parties interleave: *)
(* the loop, the transport thread that delivers WorldStatistics, and the   *)
(* simulator.  Time is counted in physics steps of PhysicsMs milliseconds. *)
(***************************************************************************)
EXTENDS Naturals, Sequences

CONSTANTS
  WindowMs, PhysicsMs, \* scheduler.window_ms, sim.physics_step_ms
  DurationSteps,       \* experiment.duration_sec, in physics steps
  StartTimes,          \* simulated times Gazebo may be at when the loop starts
  GuiModes,            \* launch gui:=: FALSE starts paused, TRUE free running
  FreeRunCap,          \* bound: an unpaused world stops by itself here
  MaxTimeouts,         \* bound: how often step() gives up waiting
  MayFail,             \* whether a call may raise and the process be killed
  NULL                 \* no WorldStatistics received

NSteps == WindowMs \div PhysicsMs

ASSUME StepAssumption ==
  /\ WindowMs \in Nat /\ PhysicsMs \in Nat \ {0}
  /\ NSteps \in Nat \ {0}     \* run() and SimStepper refuse the rest
ASSUME RunAssumption ==
  /\ DurationSteps \in Nat /\ FreeRunCap \in Nat /\ MaxTimeouts \in Nat
  /\ StartTimes \subseteq Nat /\ GuiModes \subseteq BOOLEAN
  /\ MayFail \in BOOLEAN /\ NULL \notin Nat

\* The writes of one window; task_events and controller_cycle_samples get
\* several rows at once, which one row stands for.  An outcome names its plan and
\* carries no time of its own: its ts is the generated_at_us of that plan.
Kinds == {"task_events", "window_observation", "plan", "outcome",
          "resource_samples", "controller_cycle_samples"}

Points == Kinds \cup
  {"check", "stamp", "execute", "request", "poll", "closing", "closed"}

VARIABLES
  pc,         \* where the loop is
  windowIdx,  \* window_idx
  timestamp,  \* timestamp_us of the open window
  target,     \* target_us of the step being waited for
  exit,       \* how the loop was left
  timeouts,   \* how many calls of step() gave up
  latest,     \* _latest_stats
  trace,      \* kind -> rows appended to its file
  simTime, pending, \* Gazebo: current time, requested steps not yet executed
  origin, freeRunning

loopVars  == <<pc, windowIdx, timestamp, target, exit, timeouts, trace>>
worldVars == <<simTime, pending>>
setup     == <<origin, freeRunning>>
vars      == <<loopVars, latest, worldVars, setup>>

Row == [window : Nat \ {0}, ts : Nat]

Init ==
  /\ pc = "check" /\ exit = "none"
  /\ windowIdx = 0 /\ timestamp = 0 /\ target = 0 /\ timeouts = 0
  /\ latest = NULL
  /\ trace = [k \in Kinds |-> <<>>]
  /\ origin \in StartTimes /\ simTime = origin
  /\ freeRunning \in GuiModes /\ pending = 0

-----------------------------------------------------------------------------
(* SimStepper *)

\* sim_time_us(): 0 until the first message arrives.
SimTimeUs == IF latest = NULL THEN 0 ELSE latest

StepTarget_Short(before) == before + NSteps - 1
StepTarget(before) == before + NSteps

\* _on_stats, on the transport thread: messages come in order, some are never
\* seen, and the newest seen replaces the one before.
OnStats_Stale ==
  /\ pc # "closed"
  /\ \E t \in origin .. simTime : latest' = t
  /\ UNCHANGED <<loopVars, worldVars, setup>>
OnStats ==
  /\ pc # "closed"
  /\ \E t \in (IF latest = NULL THEN origin ELSE latest + 1) .. simTime : latest' = t
  /\ UNCHANGED <<loopVars, worldVars, setup>>

-----------------------------------------------------------------------------
(* The window loop *)

\* The order run() goes through a window in.
After(p) == CASE p = "stamp" -> "task_events"
  [] p = "task_events" -> "execute"
  [] p = "execute" -> "window_observation"
  [] p = "window_observation" -> "plan"
  [] p = "plan" -> "outcome"
  [] p = "outcome" -> "resource_samples"
  [] p = "resource_samples" -> "controller_cycle_samples"
  [] p = "controller_cycle_samples" -> "request"

\* while sim_time_us() < duration_us
CheckTime_OneMore ==
  /\ pc = "check"
  /\ IF SimTimeUs <= DurationSteps
       THEN pc' = "stamp" /\ UNCHANGED exit
       ELSE pc' = "closing" /\ exit' = "completed"
  /\ UNCHANGED <<windowIdx, timestamp, target, timeouts, trace, latest, worldVars, setup>>
CheckTime ==
  /\ pc = "check"
  /\ IF SimTimeUs < DurationSteps
       THEN pc' = "stamp" /\ UNCHANGED exit
       ELSE pc' = "closing" /\ exit' = "completed"
  /\ UNCHANGED <<windowIdx, timestamp, target, timeouts, trace, latest, worldVars, setup>>

\* timestamp_us = sim_time_us(): a second read, a message may have come between.
Stamp ==
  /\ pc = "stamp"
  /\ timestamp' = SimTimeUs
  /\ pc' = After(pc)
  /\ UNCHANGED <<windowIdx, target, exit, timeouts, trace, latest, worldVars, setup>>

\* The record of the open window.
TheRow_ZeroBased == [window |-> windowIdx, ts |-> timestamp]
TheRow_FreshTime == [window |-> windowIdx + 1, ts |-> SimTimeUs]
TheRow == [window |-> windowIdx + 1, ts |-> timestamp]

\* sink.write(kind, ...): appends one line to the kind's file.
Write(k) ==
  /\ pc = k
  /\ trace' = [trace EXCEPT ![k] = Append(@, TheRow)]
  /\ pc' = After(pc)
  /\ UNCHANGED <<windowIdx, timestamp, target, exit, timeouts, latest, worldVars, setup>>

\* execute_window() returned; what it did to workers is WorkerExecution's.
ExecuteWindow ==
  /\ pc = "execute"
  /\ pc' = After(pc)
  /\ UNCHANGED <<windowIdx, timestamp, target, exit, timeouts, trace, latest, worldVars, setup>>

\* step(): read the time, send the request.  Its result is ignored, so a
\* request that failed leaves the loop waiting for steps nobody will take.
StepRequest_Resent ==
  /\ pc = "request"
  /\ target' = StepTarget(SimTimeUs)
  /\ pending' = pending + 2 * NSteps
  /\ pc' = "poll"
  /\ UNCHANGED <<windowIdx, timestamp, exit, timeouts, trace, latest, simTime, setup>>
StepRequest ==
  /\ pc = "request"
  /\ target' = StepTarget(SimTimeUs)
  /\ \/ pending' = pending + NSteps
     \/ timeouts < MaxTimeouts /\ UNCHANGED pending
  /\ pc' = "poll"
  /\ UNCHANGED <<windowIdx, timestamp, exit, timeouts, trace, latest, simTime, setup>>

\* The poll loop saw the target, step() returned, window_idx += 1.
StepDone ==
  /\ pc = "poll"
  /\ SimTimeUs >= target
  /\ windowIdx' = windowIdx + 1
  /\ pc' = "check"
  /\ UNCHANGED <<timestamp, target, exit, timeouts, trace, latest, worldVars, setup>>

StepTimeout_NoDeadline == FALSE
\* The five-second deadline passed: step() returns as if it had succeeded.
StepTimeout ==
  /\ pc = "poll"
  /\ SimTimeUs < target
  /\ timeouts < MaxTimeouts
  /\ timeouts' = timeouts + 1
  /\ windowIdx' = windowIdx + 1
  /\ pc' = "check"
  /\ UNCHANGED <<timestamp, target, exit, trace, latest, worldVars, setup>>

\* next_arrivals(), execute_window(), a write, the drain or the request raises, or
\* Ctrl-C does, between any two steps.
Raise ==
  /\ MayFail
  /\ pc \notin {"closing", "closed"}
  /\ pc' = "closing" /\ exit' = "raised"
  /\ UNCHANGED <<windowIdx, timestamp, target, timeouts, trace, latest, worldVars, setup>>

\* finally: stepper.close(), ...
Close ==
  /\ pc = "closing"
  /\ pc' = "closed"
  /\ latest' = NULL
  /\ UNCHANGED <<windowIdx, timestamp, target, exit, timeouts, trace, worldVars, setup>>

\* The supervisor's SIGTERM: Python dies at once, without the finally.
Killed ==
  /\ MayFail
  /\ pc # "closed"
  /\ pc' = "closed" /\ exit' = "killed"
  /\ UNCHANGED <<windowIdx, timestamp, target, timeouts, trace, latest, worldVars, setup>>

-----------------------------------------------------------------------------
(* Gazebo, as far as the loop relies on it *)

ExecuteStep ==
  /\ pending > 0
  /\ simTime' = simTime + 1 /\ pending' = pending - 1
  /\ UNCHANGED <<loopVars, latest, setup>>

FreeRun ==
  /\ freeRunning
  /\ pending = 0
  /\ simTime < FreeRunCap
  /\ simTime' = simTime + 1
  /\ UNCHANGED <<pending, loopVars, latest, setup>>

-----------------------------------------------------------------------------

Progress == CheckTime \/ Stamp \/ (\E k \in Kinds : Write(k)) \/ ExecuteWindow
            \/ StepRequest \/ StepDone \/ Close
Terminated == pc = "closed" /\ UNCHANGED vars

Next == Progress \/ StepTimeout \/ Raise \/ Killed \/ OnStats
        \/ ExecuteStep \/ FreeRun \/ Terminated

\* The loop is a sequential program, its deadline comes, Gazebo executes what
\* it accepted and keeps publishing its clock.
Fairness == /\ WF_vars(Progress) /\ WF_vars(StepTimeout)
            /\ WF_vars(OnStats) /\ WF_vars(ExecuteStep)

Spec == Init /\ [][Next]_vars /\ Fairness

-----------------------------------------------------------------------------
(* Properties *)

Windows(k) == Len(trace[k])
Deciding == pc \in Kinds \cup {"execute"}

\* Every variable has its type, and every file holds well-formed rows.
TypeOK ==
  /\ pc \in Points
  /\ exit \in {"none", "completed", "raised", "killed"}
  /\ windowIdx \in Nat /\ timestamp \in Nat /\ target \in Nat /\ timeouts \in Nat
  /\ simTime \in Nat /\ pending \in Nat /\ origin \in Nat
  /\ latest \in Nat \cup {NULL}
  /\ freeRunning \in BOOLEAN
  /\ trace \in [Kinds -> Seq(Row)]

\* The cardinality rules of the trace contract, at every moment and whatever
\* kills the run: a row of any file is the only one of its window there, the
\* windows are consecutive from 1, a file later in the window's order is never
\* ahead of an earlier one nor more than one row behind, and the rows of one
\* window carry the same timestamp in every file.
Order == <<"task_events", "window_observation", "plan", "outcome",
           "resource_samples", "controller_cycle_samples">>
AlignedTrace ==
  /\ \A k \in Kinds : \A n \in 1 .. Windows(k) : trace[k][n].window = n
  /\ \A i, j \in 1 .. 6 : i < j =>
       Windows(Order[j]) <= Windows(Order[i]) /\ Windows(Order[i]) <= Windows(Order[j]) + 1
  /\ \A k, l \in Kinds : \A n \in 1 .. Windows(k) :
       n <= Windows(l) => trace[k][n].ts = trace[l][n].ts

\* In a paused world every physics step is one that a completed window paid for:
\* even with lost requests, abandoned waits and exceptions, simulated time and
\* the steps still queued stay within NSteps per outcome written.
AdvanceNeedsPlan ==
  ~freeRunning => simTime + pending <= origin + NSteps * Windows("outcome")

\* The converse: no window is ever charged twice against the same stretch of
\* simulated time, except those whose wait was abandoned.
WindowNeedsTime ==
  pc # "closed" => NSteps * windowIdx <= SimTimeUs + NSteps * timeouts

\* A late world is late by at most the abandoned steps: what Gazebo has been
\* asked for beyond what the loop has seen is one step, plus one for every wait
\* that was given up.
BoundedBacklog ==
  ~freeRunning /\ latest # NULL =>
    simTime + pending <= latest + origin + NSteps * (timeouts + 1)

\* The timestamps of a file never go back, although the reader and the writer of
\* the clock are different threads.
TimestampsOrdered ==
  \A k \in Kinds : \A i \in 2 .. Windows(k) : trace[k][i - 1].ts <= trace[k][i].ts

\* While the scheduler decides a window in a paused world where no wait was ever
\* abandoned, the world does not move.
StillWorld == [][Deciding /\ ~freeRunning /\ timeouts = 0 => simTime' = simTime]_vars

\* A run that ends by itself has decided exactly the windows that cover the
\* duration, one per NSteps of simulated time.
CoversDuration ==
  exit = "completed" =>
    /\ NSteps * Windows("outcome") >= DurationSteps
    /\ NSteps * Windows("outcome") < DurationSteps + NSteps
    /\ \A k \in Kinds : Windows(k) = Windows("outcome")

\* Unless it is killed or fails, the run ends, however the messages are delayed.
RunEnds == <>(pc = "closed")

\* The trace contract: the window of a task event is one that exists in the
\* experiment once the run is over, even if a call of the loop raised.
TaskEventsHaveWindow ==
  pc = "closed" /\ exit # "killed" => Windows("task_events") <= Windows("window_observation")

\* The abstract experiment, seen through the outcome file and Gazebo's clock.
Abstract == INSTANCE WindowLog WITH
  now <- simTime,
  log <- [i \in 1 .. Windows("outcome") |-> trace["outcome"][i].ts],
  state <- CASE exit = "none" -> "running"
             [] exit = "completed" -> "finished"
             [] exit \in {"raised", "killed"} -> "cut"
ImplementsWindowLog == Abstract!Spec
=============================================================================
