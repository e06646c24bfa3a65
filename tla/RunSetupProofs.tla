---------------------------- MODULE RunSetupProofs ----------------------------
(***************************************************************************)
(* Theorems about the configured set-up: it implements MainProgram, so that*)
(* what is proved of main() holds for every configuration file; a refused  *)
(* configuration traces nothing; and a run drives the simulator only under *)
(* the limits it requires.                                                 *)
(***************************************************************************)
EXTENDS RunSetup, MainProgramProofs

\* RunSetup adds the configuration and the cgroup to main(), and takes nothing
\* away: each of its steps is one of MainProgram.
LEMMA StepImplements == SetupNext => [Next]_vars
<1> USE DEF Next
<1>1. Load => Next
  BY DEF Load
<1>2. Accepted => Next
  BY DEF Accepted
<1>3. Unconfigured => Next
  BY DEF Unconfigured
<1>4. ConfiguredRaise => Next
  BY DEF ConfiguredRaise
<1> QED
  BY <1>1, <1>2, <1>3, <1>4 DEF SetupNext

\* Whatever main() guarantees, it guarantees for every configuration.
THEOREM Implements == SetupSpec => Spec
<1>1. SetupInit => Init
  BY DEF SetupInit
<1>2. [SetupNext]_<<vars, setupVars>> => [Next]_vars
  BY StepImplements
<1> QED
  BY <1>1, <1>2, PTL DEF SetupSpec, Spec

-----------------------------------------------------------------------------
(* What a call of main() has to show for its configuration *)

Files == [window_ms : Int, physics_step_ms : Int, enforcement_required : BOOLEAN]

\* Past each place that refuses a value, the value is one it does not refuse.
ConfigInv ==
  /\ config \in Files \cup {Refused}
  /\ pc \notin {"idle", "import"} => config # Refused
  /\ pc \in {"source", "loop"} => ~ConstructorsRefuse
  /\ pc = "windows" => config.window_ms > 0

\* From the start-up script to the end of the loop the limits are this call's own.
LimitInv ==
  /\ limits \in [LimitFiles -> 0..run]
  /\ \A f \in LimitFiles : limits[f] = run /\ run > 0 => config.enforcement_required
  /\ pc \in {"publisher", "stepper", "source", "loop"} /\ config.enforcement_required
       => \A f \in LimitFiles : limits[f] = run

\* Rows of earlier calls, and rows the configuration of this one allows.
Allowed(rows) == {row \in rows : row.run <= run /\ (row.run = run => Usable(row.mode))}

RowsInv ==
  /\ sequence \in Nat
  /\ events \in Seq(Allowed(EventRows)) /\ outcomes \in Seq(Allowed(OutcomeRows))

SetupInv == ConfigInv /\ LimitInv /\ RowsInv /\ ConfinedIfRequired

LEMMA SetupInvInit == SetupInit => SetupInv
<1> SUFFICES ASSUME SetupInit PROVE SetupInv
  OBVIOUS
<1>1. /\ pc = "idle" /\ run = 0 /\ config = Refused /\ limits = [f \in LimitFiles |-> 0]
      /\ sequence = 0 /\ events = <<>> /\ outcomes = <<>>
  BY DEF SetupInit, Init
<1>2. ConfigInv /\ LimitInv /\ RowsInv
  BY <1>1 DEF ConfigInv, LimitInv, RowsInv
<1>3. ConfinedIfRequired
  BY <1>1 DEF ConfinedIfRequired
<1> QED
  BY <1>2, <1>3 DEF SetupInv

\* load_config() lets numbers through and nothing else.
LEMMA LoadConfigReturns ==
  ASSUME NEW file \in ConfigFiles
  PROVE  LoadConfig(file) \in Files \cup {Refused}
<1>1. CASE WellFormed(file)
  BY <1>1 DEF WellFormed, LoadConfig, Files, Truth
<1>2. CASE ~WellFormed(file)
  BY <1>2 DEF LoadConfig
<1> QED
  BY <1>1, <1>2

-----------------------------------------------------------------------------
(* The configuration and the limits *)

LEMMA ConfigStep == ConfigInv /\ ProgressInv /\ [SetupNext]_<<vars, setupVars>> => ConfigInv'
<1> SUFFICES ASSUME ConfigInv, ProgressInv, [SetupNext]_<<vars, setupVars>> PROVE ConfigInv'
  OBVIOUS
<1>1. CASE Load
  <2>1. PICK file \in ConfigFiles : config' = LoadConfig(file)
    BY <1>1 DEF Load
  <2>2. pc' = "import"
    BY <1>1 DEF Load, Main
  <2> QED
    BY <2>1, <2>2, LoadConfigReturns DEF ConfigInv
<1>2. CASE Accepted /\ UNCHANGED setupVars
  <2> USE DEF ConfigInv, setupVars, ConstructorsRefuse
  <2>1. ~Refuses /\ config' = config
    BY <1>2 DEF Accepted
  <2>2. CASE ImportFails \/ ImportStepper
    BY <2>1, <2>2 DEF ImportFails, ImportStepper, Fallback, Refuses, Setup
  <2>3. CASE Open \/ NoSource
    BY <2>1, <2>3 DEF Open, NoSource, Refuses, Resources
  <2>4. CASE LoopWindow \/ FallbackWindow \/ FallbackDone
    BY <2>1, <2>4 DEF LoopWindow, FallbackWindow, FallbackDone, End
  <2>5. CASE OpenFallback
    BY <2>1, <2>5 DEF OpenFallback, Refuses, Files
  <2> QED
    BY <1>2, <2>2, <2>3, <2>4, <2>5 DEF Accepted
<1>3. CASE Unconfigured /\ UNCHANGED setupVars
  BY <1>3
  DEF Unconfigured, ConfigInv, setupVars, ConstructorsRefuse, Tick, NewProcess, LoopLeft,
      CloseStepper, ClosePublisher, CloseSource, CloseRaises, FallbackRaises, End
<1>4. CASE (Terminated /\ UNCHANGED setupVars) \/ UNCHANGED <<vars, setupVars>>
  BY <1>4 DEF Terminated, ConfigInv, setupVars, ConstructorsRefuse, vars
<1>5. CASE Configure /\ UNCHANGED config
  BY <1>5 DEF Configure, ConfigInv
<1>6. CASE ConfiguredRaise /\ UNCHANGED config
  BY <1>6 DEF ConfiguredRaise, SetupRaises, End, ConfigInv
<1> QED
  BY <1>1, <1>2, <1>3, <1>4, <1>5, <1>6 DEF SetupNext

\* Every limit is written by the script or not at all.
LEMMA ScriptComplete == ASSUME ScriptRan(Len(Script)) PROVE limits' = [f \in LimitFiles |-> run]
<1>1. \A f \in LimitFiles : \E i \in 1..Len(Script) : Script[i] = f
  <2>1. Len(Script) = 6 /\ Script[2] = "cpuset.cpus" /\ Script[3] = "cpu.max"
        /\ Script[4] = "memory.high" /\ Script[5] = "memory.max"
    BY DEF Script
  <2> QED
    BY <2>1 DEF LimitFiles
<1> QED
  BY <1>1 DEF ScriptRan

LEMMA LimitStep == LimitInv /\ ProgressInv /\ [SetupNext]_<<vars, setupVars>> => LimitInv'
<1> SUFFICES ASSUME LimitInv, ProgressInv, [SetupNext]_<<vars, setupVars>> PROVE LimitInv'
  OBVIOUS
<1>0. run \in Nat
  BY DEF ProgressInv
<1>1. CASE Load
  BY <1>0, <1>1 DEF Load, Main, LimitInv
<1>2. CASE Accepted /\ UNCHANGED setupVars
  <2> USE DEF LimitInv, setupVars
  <2>1. CASE ImportFails \/ ImportStepper \/ Open \/ NoSource
    BY <1>2, <2>1 DEF ImportFails, ImportStepper, Open, NoSource, Fallback, Needs, Resources
  <2>2. CASE LoopWindow \/ OpenFallback \/ FallbackWindow \/ FallbackDone
    BY <1>2, <2>2 DEF LoopWindow, OpenFallback, FallbackWindow, FallbackDone, End
  <2> QED
    BY <1>2, <2>1, <2>2 DEF Accepted
<1>3. CASE Unconfigured /\ UNCHANGED setupVars
  BY <1>3
  DEF Unconfigured, LimitInv, setupVars, Tick, NewProcess, LoopLeft,
      CloseStepper, ClosePublisher, CloseSource, CloseRaises, FallbackRaises, End
<1>4. CASE (Terminated /\ UNCHANGED setupVars) \/ UNCHANGED <<vars, setupVars>>
  BY <1>4 DEF Terminated, LimitInv, setupVars, vars
<1>5. CASE Configure /\ StartupPasses /\ UNCHANGED config
  <2>1. run' = run /\ config' = config
    BY <1>5 DEF Configure
  <2>2. CASE config.enforcement_required
    <3>1. limits' = [f \in LimitFiles |-> run]
      BY <1>5, <2>2, ScriptComplete DEF StartupPasses
    <3> QED
      BY <1>0, <2>1, <2>2, <3>1 DEF LimitInv
  <2>3. CASE ~config.enforcement_required
    BY <1>5, <2>1, <2>3 DEF StartupPasses, LimitInv
  <2> QED
    BY <2>2, <2>3
<1>6. CASE ConfiguredRaise /\ UNCHANGED config
  <2>1. run' = run /\ config' = config /\ pc' = "idle"
    BY <1>6 DEF ConfiguredRaise, SetupRaises, End
  <2>2. UNCHANGED limits
        \/ (config.enforcement_required /\ \E done \in 0..(Len(Script) - 1) : ScriptRan(done))
    BY <1>6 DEF ConfiguredRaise, StartupRaises
  <2>3. CASE UNCHANGED limits
    BY <2>1, <2>3 DEF LimitInv
  <2>4. CASE config.enforcement_required /\ \E done \in 0..(Len(Script) - 1) : ScriptRan(done)
    BY <1>0, <2>1, <2>4 DEF LimitInv, ScriptRan
  <2> QED
    BY <2>2, <2>3, <2>4
<1> QED
  BY <1>1, <1>2, <1>3, <1>4, <1>5, <1>6 DEF SetupNext

-----------------------------------------------------------------------------
(* The rows *)

\* What a window adds is allowed if its mode is.
LEMMA EventsAllowed ==
  ASSUME ProgressInv, RowTypes, NEW mode \in {"stepped", "fallback"}, Usable(mode),
         NEW tools, Numbered(tools)
  PROVE  WindowEvents(mode, window + 1, tools) \in Seq(Allowed(EventRows))
<1> DEFINE added == WindowEvents(mode, window + 1, tools)
<1>1. added \in Seq(EventRows) /\ \A i \in DOMAIN added : added[i].run = run /\ added[i].mode = mode
  BY EventsOfWindow
<1> HIDE DEF added
<1>2. ASSUME NEW i \in 1..Len(added) PROVE added[i] \in Allowed(EventRows)
  <2>1. added[i] \in EventRows /\ added[i].run = run /\ added[i].mode = mode
    BY <1>1
  <2> QED
    BY <2>1 DEF Allowed, ProgressInv
<1>3. Len(added) \in Nat /\ added \in [1..Len(added) -> Allowed(EventRows)]
  BY <1>1, <1>2
<1> QED
  BY <1>3 DEF added

\* A window adds nothing but allowed rows, and a new call makes every row an old one.
LEMMA RowsStep ==
  ASSUME RowsInv, ConfigInv, ProgressInv, RowTypes, [SetupNext]_<<vars, setupVars>>
  PROVE  RowsInv'
<1>0. /\ run \in Nat /\ sequence \in Nat /\ MaxArrivals \in Nat
      /\ events \in Seq(Allowed(EventRows)) /\ outcomes \in Seq(Allowed(OutcomeRows))
  BY MainAssumption DEF ProgressInv, RowsInv
<1>1. ASSUME UNCHANGED <<run, config, events, outcomes>>, sequence' \in Nat PROVE RowsInv'
  BY <1>0, <1>1 DEF RowsInv, Allowed, Usable, NSteps
<1>2. ASSUME UNCHANGED <<run, config>>, sequence' \in Nat,
             NEW mode \in {"stepped", "fallback"}, Usable(mode),
             NEW tools, Numbered(tools), events' = events \o WindowEvents(mode, window + 1, tools),
             outcomes' \in {outcomes, Append(outcomes, Outcome(mode, window + 1))}
      PROVE  RowsInv'
  <2>1. WindowEvents(mode, window + 1, tools) \in Seq(Allowed(EventRows))
    BY <1>2, EventsAllowed
  <2>2. events' \in Seq(Allowed(EventRows))
    <3> DEFINE added == WindowEvents(mode, window + 1, tools)
    <3>1. added \in Seq(Allowed(EventRows)) /\ events' = events \o added
      BY <1>2, <2>1
    <3> HIDE DEF added
    <3> QED
      BY <1>0, <3>1
  <2>3. Outcome(mode, window + 1) \in Allowed(OutcomeRows)
    BY <1>0, <1>2 DEF Outcome, OutcomeRows, Allowed, RowTypes
  <2>4. outcomes' \in Seq(Allowed(OutcomeRows))
    <3> DEFINE row == Outcome(mode, window + 1)
               old == Allowed(OutcomeRows)
    <3>1. row \in old /\ outcomes \in Seq(old) /\ outcomes' \in {outcomes, Append(outcomes, row)}
      BY <1>0, <1>2, <2>3
    <3> HIDE DEF row, old
    <3>2. outcomes' \in Seq(old)
      BY <3>1
    <3> QED
      BY <3>2 DEF old
  <2>5. Allowed(EventRows)' = Allowed(EventRows) /\ Allowed(OutcomeRows)' = Allowed(OutcomeRows)
    BY <1>2 DEF Allowed, Usable, NSteps
  <2>6. events' \in Seq(Allowed(EventRows)') /\ outcomes' \in Seq(Allowed(OutcomeRows)')
    BY <2>2, <2>4, <2>5
  <2> QED
    BY <1>2, <2>6 DEF RowsInv
<1>3. CASE Load
  <2>1. run' = run + 1 /\ UNCHANGED <<sequence, events, outcomes>>
    BY <1>3 DEF Load, Main, trace
  <2>2. Allowed(EventRows) \subseteq Allowed(EventRows)'
    BY <1>0, <2>1 DEF Allowed, EventRows
  <2>3. Allowed(OutcomeRows) \subseteq Allowed(OutcomeRows)'
    BY <1>0, <2>1 DEF Allowed, OutcomeRows
  <2> QED
    BY <1>0, <2>1, <2>2, <2>3 DEF RowsInv
<1>4. CASE Accepted /\ UNCHANGED setupVars
  <2>1. ~Refuses /\ config' = config
    BY <1>4 DEF Accepted, setupVars
  <2>2. CASE ImportFails \/ ImportStepper \/ Open \/ NoSource \/ OpenFallback \/ FallbackDone
    BY <1>0, <1>1, <2>1, <2>2
    DEF ImportFails, ImportStepper, Open, NoSource, OpenFallback, FallbackDone, trace
  <2>3. CASE LoopWindow
    <3>1. pc = "loop" /\ run' = run /\ outcomes' = Append(outcomes, Outcome("stepped", window + 1))
      BY <2>3 DEF LoopWindow
    <3>2. PICK n \in 0..MaxArrivals :
            /\ events' = events \o WindowEvents("stepped", window + 1, NextArrivals(n))
            /\ sequence' = sequence + n
      BY <2>3 DEF LoopWindow
    <3>3. Usable("stepped")
      BY <2>1, <3>1 DEF ConfigInv, Refuses, LoopRefuses, ConstructorsRefuse, Usable, Files, NSteps
    <3>4. n \in Nat /\ Numbered(NextArrivals(n))
      BY <1>0, ToolsAreNumbered
    <3>5. sequence' \in Nat
      BY <1>0, <3>2, <3>4
    <3> HIDE DEF WindowEvents, NextArrivals, Outcome, Usable
    <3> QED
      BY <1>2, <2>1, <3>1, <3>2, <3>3, <3>4, <3>5
  <2>4. CASE FallbackWindow
    <3>1. pc = "windows" /\ run' = run /\ outcomes' = Append(outcomes, Outcome("fallback", window + 1))
      BY <2>4 DEF FallbackWindow
    <3>2. PICK n \in 0..MaxArrivals :
            /\ events' = events \o WindowEvents("fallback", window + 1, Tools(n))
            /\ sequence' = sequence + n
      BY <2>4 DEF FallbackWindow
    <3>3. Usable("fallback")
      BY <3>1 DEF ConfigInv, Usable
    <3>4. n \in Nat /\ Numbered(Tools(n))
      BY <1>0, ToolsAreNumbered
    <3>5. sequence' \in Nat
      BY <1>0, <3>2, <3>4
    <3> HIDE DEF WindowEvents, Tools, Outcome, Usable
    <3> QED
      BY <1>2, <2>1, <3>1, <3>2, <3>3, <3>4, <3>5
  <2> QED
    BY <1>4, <2>2, <2>3, <2>4 DEF Accepted
<1>5. CASE Unconfigured /\ UNCHANGED setupVars
  <2>1. config' = config
    BY <1>5 DEF setupVars
  <2>2. CASE Tick \/ NewProcess \/ LoopLeft \/ CloseStepper \/ ClosePublisher \/ CloseSource
             \/ CloseRaises
    BY <1>0, <1>1, <2>1, <2>2
    DEF Tick, NewProcess, LoopLeft, CloseStepper, ClosePublisher, CloseSource, CloseRaises, trace
  <2>3. CASE FallbackRaises
    <3>1. run' = run /\ sequence' = sequence /\ outcomes' = outcomes
      BY <2>3 DEF FallbackRaises
    <3>2. CASE events' = events
      BY <1>0, <1>1, <2>1, <3>1, <3>2
    <3>3. CASE pc = "windows" /\ \E n \in 0..MaxArrivals :
                 events' = events \o WindowEvents("fallback", window + 1, Tools(n))
      <4>1. PICK n \in 0..MaxArrivals :
              events' = events \o WindowEvents("fallback", window + 1, Tools(n))
        BY <3>3
      <4>2. Usable("fallback")
        BY <3>3 DEF ConfigInv, Usable
      <4>3. n \in Nat /\ Numbered(Tools(n))
        BY <1>0, ToolsAreNumbered
      <4> HIDE DEF WindowEvents, Tools, Outcome, Usable
      <4> QED
        BY <1>0, <1>2, <2>1, <3>1, <4>1, <4>2, <4>3
    <3> QED
      BY <2>3, <3>2, <3>3 DEF FallbackRaises
  <2> QED
    BY <1>5, <2>2, <2>3 DEF Unconfigured
<1>6. CASE (Terminated /\ UNCHANGED setupVars) \/ UNCHANGED <<vars, setupVars>>
  BY <1>0, <1>1, <1>6 DEF Terminated, vars, setupVars, trace
<1>7. CASE (Configure \/ ConfiguredRaise) /\ UNCHANGED config
  BY <1>0, <1>1, <1>7 DEF Configure, ConfiguredRaise, SetupRaises, trace
<1> QED
  BY <1>3, <1>4, <1>5, <1>6, <1>7 DEF SetupNext

\* A stepped row is written between the script and the end of the loop, and the
\* limits that are this call's stay so until the next call.
LEMMA ConfinedStep ==
  ASSUME RowsInv, LimitInv, ProgressInv, RowTypes, ConfinedIfRequired, LimitInv', RowsInv',
         ProgressInv', [SetupNext]_<<vars, setupVars>>
  PROVE  ConfinedIfRequired'
<1>1. \A f \in LimitFiles : limits'[f] = run' /\ run' > 0 => config'.enforcement_required
  BY DEF LimitInv
<1>2. run \in Nat /\ outcomes \in Seq(Allowed(OutcomeRows))
      /\ \A i \in DOMAIN outcomes : outcomes[i].run <= run /\ outcomes[i].run \in Nat
  <2>1. run \in Nat /\ outcomes \in Seq(Allowed(OutcomeRows))
    BY DEF ProgressInv, RowsInv
  <2>2. ASSUME NEW i \in DOMAIN outcomes PROVE outcomes[i].run <= run /\ outcomes[i].run \in Nat
    <3>1. outcomes[i] \in Allowed(OutcomeRows)
      BY <2>1
    <3> QED
      BY <3>1 DEF Allowed, OutcomeRows
  <2> QED
    BY <2>1, <2>2
<1>3. ASSUME UNCHANGED <<run, config, outcomes>>,
             \A f \in LimitFiles : limits[f] = run => limits'[f] = run
      PROVE  ConfinedIfRequired'
  BY <1>1, <1>3 DEF ConfinedIfRequired
<1>4. CASE Load
  <2>1. run' = run + 1 /\ outcomes' = outcomes
    BY <1>4 DEF Load, Main, trace
  <2> QED
    BY <1>1, <1>2, <2>1 DEF ConfinedIfRequired
<1>5. ASSUME UNCHANGED <<run, config, limits>>, NEW mode,
             outcomes' = Append(outcomes, Outcome(mode, window + 1)),
             mode = "stepped" /\ config.enforcement_required => \A f \in LimitFiles : limits[f] = run
      PROVE  ConfinedIfRequired'
  <2>1. Outcome(mode, window + 1).mode = mode
    BY DEF Outcome
  <2>2. \A i \in DOMAIN outcomes' :
          \/ outcomes'[i] = Outcome(mode, window + 1)
          \/ i \in DOMAIN outcomes /\ outcomes'[i] = outcomes[i]
    <3> HIDE DEF Outcome
    <3> QED
      BY <1>2, <1>5
  <2> HIDE DEF Outcome
  <2> QED
    BY <1>1, <1>5, <2>1, <2>2 DEF ConfinedIfRequired
<1>6. CASE LoopWindow /\ UNCHANGED setupVars
  <2>1. /\ pc = "loop" /\ outcomes' = Append(outcomes, Outcome("stepped", window + 1))
        /\ UNCHANGED <<run, config, limits>>
    BY <1>6 DEF LoopWindow, setupVars
  <2>2. config.enforcement_required => \A f \in LimitFiles : limits[f] = run
    BY <2>1 DEF LimitInv
  <2> HIDE DEF Outcome
  <2> QED
    BY <1>5, <2>1, <2>2
<1>7. CASE FallbackWindow /\ UNCHANGED setupVars
  <2>1. /\ outcomes' = Append(outcomes, Outcome("fallback", window + 1))
        /\ UNCHANGED <<run, config, limits>>
    BY <1>7 DEF FallbackWindow, setupVars
  <2> HIDE DEF Outcome
  <2> QED
    BY <1>5, <2>1
<1>8. CASE (ImportFails \/ ImportStepper \/ Open \/ NoSource \/ OpenFallback \/ FallbackDone)
           /\ UNCHANGED setupVars
  BY <1>3, <1>8
  DEF ImportFails, ImportStepper, Open, NoSource, OpenFallback, FallbackDone, trace, setupVars
<1>9. CASE Unconfigured /\ UNCHANGED setupVars
  BY <1>3, <1>9
  DEF Unconfigured, Tick, NewProcess, LoopLeft, CloseStepper, ClosePublisher, CloseSource,
      CloseRaises, FallbackRaises, trace, setupVars
<1>10. CASE (Terminated /\ UNCHANGED setupVars) \/ UNCHANGED <<vars, setupVars>>
  BY <1>3, <1>10 DEF Terminated, vars, setupVars, trace
<1>11. ASSUME NEW done, ScriptRan(done), UNCHANGED <<run, config, outcomes>>
       PROVE  ConfinedIfRequired'
  <2>1. \A f \in LimitFiles : limits[f] = run => limits'[f] = run
    BY <1>11 DEF ScriptRan
  <2> QED
    BY <1>3, <1>11, <2>1
<1>12. CASE Configure /\ StartupPasses /\ UNCHANGED config
  <2>1. UNCHANGED <<run, config, outcomes>>
    BY <1>12 DEF Configure, trace
  <2> QED
    BY <1>3, <1>11, <1>12, <2>1 DEF StartupPasses
<1>13. CASE ConfiguredRaise /\ UNCHANGED config
  <2>1. UNCHANGED <<run, config, outcomes>>
    BY <1>13 DEF ConfiguredRaise, SetupRaises, trace
  <2>2. UNCHANGED limits \/ \E done \in 0..(Len(Script) - 1) : ScriptRan(done)
    BY <1>13 DEF ConfiguredRaise, StartupRaises
  <2> QED
    BY <1>3, <1>11, <2>1, <2>2
<1> QED
  BY <1>4, <1>6, <1>7, <1>8, <1>9, <1>10, <1>12, <1>13 DEF SetupNext, Accepted

-----------------------------------------------------------------------------

\* Everything together, with what main() keeps by itself.
Invs == Inv /\ TraceInv /\ SetupInv

LEMMA InvsInit == SetupInit => Invs
BY InvInit, TraceInit, SetupInvInit DEF SetupInit, Invs

LEMMA InvsStep == Invs /\ [SetupNext]_<<vars, setupVars>> => Invs'
<1> SUFFICES ASSUME Invs, [SetupNext]_<<vars, setupVars>> PROVE Invs'
  OBVIOUS
<1>1. [Next]_vars
  BY StepImplements
<1>2. Inv' /\ TraceInv'
  BY <1>1, InvStep, TraceStep DEF Invs, Inv
<1>3. ProgressInv /\ RowTypes /\ ProgressInv'
  BY <1>2 DEF Invs, Inv, TraceInv
<1>4. ConfigInv' /\ LimitInv' /\ RowsInv'
  BY <1>3, ConfigStep, LimitStep, RowsStep DEF Invs, SetupInv
<1>5. ConfinedIfRequired'
  BY <1>3, <1>4, ConfinedStep DEF Invs, SetupInv
<1> QED
  BY <1>2, <1>4, <1>5 DEF Invs, SetupInv

\* A configuration that cannot be run leaves no row, whatever is installed.
THEOREM RefusedTracesNothing == SetupSpec => []RefusedConfigTracesNothing
<1>1. Invs => RefusedConfigTracesNothing
  <2> SUFFICES ASSUME Invs PROVE RefusedConfigTracesNothing
    OBVIOUS
  <2>1. events \in Seq(Allowed(EventRows)) /\ outcomes \in Seq(Allowed(OutcomeRows))
    BY DEF Invs, SetupInv, RowsInv
  <2>2. \A i \in DOMAIN events : events[i] \in Allowed(EventRows)
    BY <2>1
  <2>3. \A i \in DOMAIN outcomes : outcomes[i] \in Allowed(OutcomeRows)
    BY <2>1
  <2> QED
    BY <2>2, <2>3 DEF Allowed, RefusedConfigTracesNothing
<1> QED
  BY <1>1, InvsInit, InvsStep, PTL DEF SetupSpec

\* A run that requires its limits has them before it drives the simulator.
THEOREM Confined == SetupSpec => []ConfinedIfRequired
<1>1. Invs => ConfinedIfRequired
  BY DEF Invs, SetupInv
<1> QED
  BY <1>1, InvsInit, InvsStep, PTL DEF SetupSpec
=============================================================================
