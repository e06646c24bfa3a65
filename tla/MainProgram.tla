----------------------------- MODULE MainProgram -----------------------------
(***************************************************************************)
(* main(): the set-up of the stepped experiment, its clean-up, and the     *)
(* offline experiment it falls back to when an import fails.  main() may   *)
(* be called again in the same process or by a new one, soon enough for    *)
(* two experiments to get the same id.  The stepped loop itself is         *)
(* SteppedExperiment; here it only leaves rows behind.                     *)
(***************************************************************************)
EXTENDS Naturals, Sequences

CONSTANTS
  Duration, WindowLength, \* configured, in the same unit
  MaxArrivals,            \* max_arrivals_per_window
  CallsMayRaise,          \* constructors, writes and closes may raise
  MaxRuns,                \* bound: calls of main()
  MaxClock,               \* bound: seconds that pass
  MaxSteppedWindows       \* bound: windows of the stepped loop

ASSUME MainAssumption ==
  /\ Duration \in Nat \ {0} /\ WindowLength \in Nat \ {0} /\ MaxArrivals \in Nat
  /\ CallsMayRaise \in BOOLEAN
  /\ MaxRuns \in Nat /\ MaxClock \in Nat /\ MaxSteppedWindows \in Nat

\* What an installation may lack: this repository's gazebo package, ROS, gz.
Packages == {"package", "ros", "gz"}
Resources == {"publisher", "stepper", "source"}
Setup == {"import", "configure", "publisher", "stepper", "source"}
Phases == {"idle", "loop", "closeStepper", "closePublisher", "closeSource",
           "fallback", "windows"} \cup Setup

VARIABLES
  missing,     \* packages that are not installed
  clock,       \* wall clock in seconds
  run,         \* calls of main() so far; the current one
  pc,
  experiment,  \* experiment_id of the current sink: the second it was made in
  open,        \* resources of this process not closed yet, with their run
  context,     \* the rclpy context: down (0) or the run that initialised it
  marker,      \* _OFFLINE_FALLBACK_EXECUTION_MARKER is set
  window,      \* windows the current experiment has decided
  sequence,    \* the generator's _sequence
  ended,       \* history: how each finished run ended
  events,      \* rows of task_events, in the order they were written
  outcomes     \* rows of outcome

process == <<open, context, marker>>
trace   == <<events, outcomes>>
vars    == <<missing, clock, run, pc, experiment, process, window, sequence, ended, trace>>

Init ==
  /\ missing \in SUBSET Packages
  /\ clock = 1 /\ run = 0 /\ pc = "idle" /\ experiment = 0
  /\ open = {} /\ context = 0 /\ marker = FALSE
  /\ window = 0 /\ sequence = 0 /\ ended = <<>>
  /\ events = <<>> /\ outcomes = <<>>

Tick ==
  /\ clock < MaxClock
  /\ clock' = clock + 1
  /\ UNCHANGED <<missing, run, pc, experiment, process, window, sequence, ended, trace>>

Main ==
  /\ pc = "idle" /\ run < MaxRuns
  /\ run' = run + 1 /\ pc' = "import"
  /\ UNCHANGED <<missing, clock, experiment, process, window, sequence, ended, trace>>

\* The process ends with everything it holds, another one starts.
NewProcess ==
  /\ pc = "idle"
  /\ open' = {} /\ context' = 0 /\ marker' = FALSE
  /\ UNCHANGED <<missing, clock, run, pc, experiment, window, sequence, ended, trace>>

End(how) == pc' = "idle" /\ ended' = Append(ended, how)

-----------------------------------------------------------------------------
(* run_stepped_experiment(): set-up *)

Needs(phase) ==
  CASE phase = "import" -> "package" [] phase = "publisher" -> "ros"
    [] phase = "stepper" -> "gz"     [] OTHER -> "nothing"

\* main() catches ImportError, sets the marker and calls run_experiment().
Fallback == pc' = "fallback" /\ marker' = TRUE

ImportFails ==
  /\ pc \in Setup /\ Needs(pc) \in missing
  /\ Fallback
  /\ UNCHANGED <<missing, clock, run, experiment, open, context, window, sequence, ended, trace>>

ImportStepper ==
  /\ pc = "import" /\ Needs(pc) \notin missing
  /\ pc' = "configure"
  /\ UNCHANGED <<missing, clock, run, experiment, process, window, sequence, ended, trace>>

\* The GPU environment, the experiment's directory, the VEE's start-up script.
Configure ==
  /\ pc = "configure"
  /\ experiment' = clock /\ window' = 0 /\ sequence' = 0 /\ pc' = "publisher"
  /\ UNCHANGED <<missing, clock, run, process, ended, trace>>

\* CmdVelPublisher() and TopicControllerCycleSource(): rclpy.init() unless ok().
Opened(r) ==
  /\ open' = open \cup {<<r, run>>}
  /\ context' = IF r # "stepper" /\ context = 0 THEN run ELSE context

Open ==
  /\ pc \in Resources /\ Needs(pc) \notin missing
  /\ Opened(pc)
  /\ pc' = CASE pc = "publisher" -> "stepper" [] pc = "stepper" -> "source"
             [] pc = "source" -> "loop"
  /\ UNCHANGED <<missing, clock, run, experiment, marker, window, sequence, ended, trace>>

\* The exception of the source is caught: the loop runs without one.
NoSource ==
  /\ CallsMayRaise /\ pc = "source"
  /\ pc' = "loop"
  /\ UNCHANGED <<missing, clock, run, experiment, process, window, sequence, ended, trace>>

\* Any other exception leaves main(); nothing opened so far is closed, and rclpy
\* may have been initialised before the publisher's node could not be made.
SetupRaises ==
  /\ CallsMayRaise /\ pc \in Setup
  /\ context' = context \/ (pc = "publisher" /\ context = 0 /\ context' = run)
  /\ End("setup")
  /\ UNCHANGED <<missing, clock, run, experiment, open, marker, window, sequence, trace>>

-----------------------------------------------------------------------------
(* Rows *)

Event(mode, w, task) ==
  [experiment |-> experiment, run |-> run, mode |-> mode, window |-> w, task |-> task]

\* f"evt-{window_id}-{task_id}"
EventId_TaskOnly(e) == <<e.task>>
EventId(e) == <<e.window, e.task>>

\* The window's arrivals first, then its controller.
WindowEvents(mode, w, tools) ==
  Append([i \in 1..Len(tools) |-> Event(mode, w, <<"tool", tools[i]>>)],
         Event(mode, w, <<"controller", 1>>))

Outcome(mode, w) ==
  [experiment |-> experiment, run |-> run, mode |-> mode, window |-> w, marked |-> marker]

NextArrivals(n) == [i \in 1..n |-> sequence + i]

-----------------------------------------------------------------------------
(* loop.run() and the finally clause *)

LoopWindow ==
  /\ pc = "loop" /\ window < MaxSteppedWindows
  /\ \E n \in 0..MaxArrivals :
       /\ events' = events \o WindowEvents("stepped", window + 1, NextArrivals(n))
       /\ sequence' = sequence + n
  /\ outcomes' = Append(outcomes, Outcome("stepped", window + 1))
  /\ window' = window + 1
  /\ UNCHANGED <<missing, clock, run, pc, experiment, process, ended>>

\* run() returns or raises, the clean-up is the same.
LoopLeft_NoFinally ==
  /\ pc = "loop"
  /\ \/ pc' = "closeStepper" /\ ended' = ended
     \/ CallsMayRaise /\ End("loop")
  /\ UNCHANGED <<missing, clock, run, experiment, process, window, sequence, trace>>
LoopLeft ==
  /\ pc = "loop"
  /\ pc' = "closeStepper"
  /\ UNCHANGED <<missing, clock, run, experiment, process, window, sequence, ended, trace>>

CloseStepper ==
  /\ pc = "closeStepper"
  /\ open' = open \ {<<"stepper", run>>} /\ pc' = "closePublisher"
  /\ UNCHANGED <<missing, clock, run, experiment, context, marker, window, sequence, ended, trace>>

\* Only the publisher that initialised the context shuts it down.
ContextAfterClose_Always == 0
ContextAfterClose == IF context = run THEN 0 ELSE context

ClosePublisher ==
  /\ pc = "closePublisher"
  /\ open' = open \ {<<"publisher", run>>} /\ context' = ContextAfterClose
  /\ pc' = "closeSource"
  /\ UNCHANGED <<missing, clock, run, experiment, marker, window, sequence, ended, trace>>

CloseSource_FallsBack ==
  /\ pc = "closeSource"
  /\ open' = open \ {<<"source", run>>}
  /\ \/ End("loop") /\ UNCHANGED marker
     \/ Fallback /\ UNCHANGED ended
  /\ UNCHANGED <<missing, clock, run, experiment, context, window, sequence, trace>>
CloseSource ==
  /\ pc = "closeSource"
  /\ open' = open \ {<<"source", run>>}
  /\ End("loop")
  /\ UNCHANGED <<missing, clock, run, experiment, context, marker, window, sequence, trace>>

\* destroy_node() raises: what is after it in the finally clause is not closed.
CloseRaises ==
  /\ CallsMayRaise /\ pc \in {"closePublisher", "closeSource"}
  /\ End("close")
  /\ UNCHANGED <<missing, clock, run, experiment, process, window, sequence, trace>>

-----------------------------------------------------------------------------
(* run_experiment(): no simulator, no pace *)

OpenFallback ==
  /\ pc = "fallback"
  /\ experiment' = clock /\ window' = 0 /\ sequence' = 0 /\ pc' = "windows"
  /\ UNCHANGED <<missing, clock, run, process, ended, trace>>

TotalWindows == IF Duration \div WindowLength > 1 THEN Duration \div WindowLength ELSE 1

\* The first window gets a task although the generator had none.
Tools(n) == IF window = 0 /\ n = 0 THEN <<1>> ELSE NextArrivals(n)

FallbackWindow_OneMore ==
  /\ pc = "windows" /\ window <= TotalWindows
  /\ window' = window + 1
  /\ UNCHANGED <<missing, clock, run, pc, experiment, process, sequence, ended, trace>>
FallbackWindow ==
  /\ pc = "windows" /\ window < TotalWindows
  /\ \E n \in 0..MaxArrivals :
       /\ events' = events \o WindowEvents("fallback", window + 1, Tools(n))
       /\ sequence' = sequence + n
  /\ outcomes' = Append(outcomes, Outcome("fallback", window + 1))
  /\ window' = window + 1
  /\ UNCHANGED <<missing, clock, run, pc, experiment, process, ended>>

FallbackDone ==
  /\ pc = "windows" /\ window = TotalWindows
  /\ marker' = FALSE
  /\ End("fallback")
  /\ UNCHANGED <<missing, clock, run, experiment, open, context, window, sequence, trace>>

\* A write raises: before the window's events, or between them and the outcome.
FallbackRaises_KeepsMarker ==
  /\ CallsMayRaise /\ pc \in {"fallback", "windows"}
  /\ marker' = marker
  /\ End("fallback")
  /\ UNCHANGED <<missing, clock, run, experiment, open, context, window, sequence, trace>>
FallbackRaises ==
  /\ CallsMayRaise /\ pc \in {"fallback", "windows"}
  /\ marker' = FALSE
  /\ \/ events' = events
     \/ /\ pc = "windows" /\ window < TotalWindows
        /\ \E n \in 0..MaxArrivals :
             events' = events \o WindowEvents("fallback", window + 1, Tools(n))
  /\ End("fallback")
  /\ UNCHANGED <<missing, clock, run, experiment, open, context, window, sequence, outcomes>>

-----------------------------------------------------------------------------

Terminated == pc = "idle" /\ run = MaxRuns /\ UNCHANGED vars

Next ==
  \/ Tick \/ Main \/ NewProcess
  \/ ImportFails \/ ImportStepper \/ Configure \/ Open \/ NoSource \/ SetupRaises
  \/ LoopWindow \/ LoopLeft \/ CloseStepper \/ ClosePublisher \/ CloseSource \/ CloseRaises
  \/ OpenFallback \/ FallbackWindow \/ FallbackDone \/ FallbackRaises
  \/ Terminated

Spec == Init /\ [][Next]_vars

-----------------------------------------------------------------------------
(* Properties *)

TypeOK ==
  /\ missing \subseteq Packages /\ clock \in Nat /\ pc \in Phases
  /\ run \in Nat /\ experiment \in 0..clock /\ context \in 0..run
  /\ open \subseteq Resources \X (1..run)
  /\ marker \in BOOLEAN /\ window \in Nat /\ sequence \in Nat
  /\ pc = "windows" => window <= TotalWindows
  /\ Len(ended) = IF pc = "idle" THEN run ELSE run - 1

\* The fallback is never a second attempt: a call of main() that has traced or
\* driven anything with the simulator traces nothing offline, and the other way.
OneModePerRun ==
  \A i, j \in DOMAIN outcomes :
    outcomes[i].run = outcomes[j].run => outcomes[i].mode = outcomes[j].mode

\* The global marker is set exactly while main() is in its fallback, so that an
\* outcome says offline_fallback if and only if no simulator was behind it.
MarkerScoped ==
  /\ marker <=> pc \in {"fallback", "windows"}
  /\ \A i \in DOMAIN outcomes : outcomes[i].marked <=> outcomes[i].mode = "fallback"

\* Nobody shuts the ROS context down under a publisher that is still open, not
\* even under one that an earlier call of main() has left behind.
OpenPublisherHasContext == (\E r \in 1..run : <<"publisher", r>> \in open) => context # 0

\* What a finished call of main() leaves open comes from a set-up or a clean-up
\* that raised, or is the publisher of a run that then found gz missing: however
\* the loop itself ends, nothing is left.
LeftOpenForAReason ==
  pc = "idle" => \A x \in open :
    \/ ended[x[2]] = "setup"
    \/ ended[x[2]] = "close" /\ x[1] # "stepper"
    \/ ended[x[2]] = "fallback" /\ x[1] = "publisher" /\ "gz" \in missing

\* Within one experiment's run no two events have the same id, although the first
\* window of the fallback may use a task id that the generator uses again.
EventIdsUnique ==
  \A i, j \in DOMAIN events :
    events[i].run = events[j].run /\ EventId(events[i]) = EventId(events[j]) => i = j

\* Trace design: under one experiment_id there is exactly one outcome per window.
OneOutcomePerWindow ==
  \A i, j \in DOMAIN outcomes :
    /\ outcomes[i].experiment = outcomes[j].experiment
    /\ outcomes[i].window = outcomes[j].window
    => i = j
=============================================================================
