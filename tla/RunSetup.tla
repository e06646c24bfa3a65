------------------------------- MODULE RunSetup -------------------------------
(***************************************************************************)
(* What MainProgram leaves open about the set-up of a run: the configuration*)
(* file load_config() reads, the places where its values are refused, which *)
(* are spread over the set-up, and the start-up script of the VEE with the  *)
(* cgroup files it writes (external).  The cgroup outlives the process.     *)
(***************************************************************************)
EXTENDS MainProgram, Integers

CONSTANTS
  ConfigFiles,      \* the files CONFIG_PATH may be, see File
  Absent, Null,     \* an entry that is not there, an empty one
  Text,             \* a string, or anything else of the wrong kind
  Refused           \* what load_config() returns when it raises

\* The entries a run's set-up tells apart.  `sections` is the root, the required
\* sections and the required keys not listed here: all there, or not.
File == [sections : BOOLEAN, sim : {"mapping", Absent, Null, Text},
         window_ms : Int \cup {Absent, Null}, physics_step_ms : Int \cup {Absent, Null},
         enforcement_required : BOOLEAN \cup {Absent, Null, Text}]

ASSUME FilesAssumption ==
  /\ CallsMayRaise      \* a refused file makes main() raise
  /\ ConfigFiles \subseteq File

VARIABLES
  config,   \* what load_config() returned to the current call of main()
  limits    \* cgroup file -> the last call of main() whose script wrote it, or 0

setupVars == <<config, limits>>

\* apply_runtime_constraints.sh, line by line; the last step checks a path.
Script == <<"mkdir", "cpuset.cpus", "cpu.max", "memory.high", "memory.max", "HAMI_CORE_LIB">>
LimitFiles == {"cpuset.cpus", "cpu.max", "memory.high", "memory.max"}

SetupInit ==
  /\ Init
  /\ config = Refused
  /\ limits = [f \in LimitFiles |-> 0]

-----------------------------------------------------------------------------
(* load_config() *)

DefaultPhysicsStepMs == 1

\* sim is optional, and so is each of its keys; an empty key is not the same.
SimStep(file) ==
  IF file.sim \in {Absent, Null} \/ file.physics_step_ms = Absent
    THEN DefaultPhysicsStepMs ELSE file.physics_step_ms

\* bool(): a quoted "false" counts as true.
Truth(value) == value \notin {FALSE, Null}

\* Types are checked, by _require_mapping, _require_key and int(); ranges are not.
WellFormed(file) ==
  /\ file.sections /\ file.sim # Text
  /\ file.window_ms \in Int /\ SimStep(file) \in Int
  /\ file.enforcement_required # Absent

LoadConfig(file) ==
  IF WellFormed(file)
    THEN [window_ms |-> file.window_ms, physics_step_ms |-> SimStep(file),
          enforcement_required |-> Truth(file.enforcement_required)]
    ELSE Refused

-----------------------------------------------------------------------------
(* Where a value is refused *)

NSteps == config.window_ms \div config.physics_step_ms

\* The generator (which refuses negative arrivals too), then SimStepper, before it
\* looks for gz.
ConstructorsRefuse == config.window_ms <= 0 \/ config.physics_step_ms <= 0

LoopRefuses_Negative == NSteps < 0
LoopRefuses == NSteps <= 0

Refuses ==
  CASE pc = "import"   -> config = Refused
    [] pc = "stepper"  -> ConstructorsRefuse
    [] pc = "loop"     -> LoopRefuses
    [] pc = "fallback" -> config.window_ms <= 0
    [] OTHER -> FALSE

-----------------------------------------------------------------------------
(* The start-up script *)

\* set -e: the script stops at the first step that fails.
ScriptRan(done) ==
  limits' = [f \in LimitFiles |->
               IF \E i \in 1..done : Script[i] = f THEN run ELSE limits[f]]

\* if enforcement_required: enforce_startup(), which raises unless the script
\* returns 0.
StartupPasses_AnyCode ==
  IF config.enforcement_required
    THEN \E done \in 0..Len(Script) : ScriptRan(done)
    ELSE UNCHANGED limits
StartupPasses ==
  IF config.enforcement_required THEN ScriptRan(Len(Script)) ELSE UNCHANGED limits
StartupRaises ==
  \/ UNCHANGED limits
  \/ config.enforcement_required /\ \E done \in 0..(Len(Script) - 1) : ScriptRan(done)

-----------------------------------------------------------------------------
(* main() with all that *)

Load == Main /\ (\E file \in ConfigFiles : config' = LoadConfig(file)) /\ UNCHANGED limits

Accepted ==
  /\ ~Refuses
  /\ ImportFails \/ ImportStepper \/ Open \/ NoSource
     \/ LoopWindow \/ OpenFallback \/ FallbackWindow \/ FallbackDone

\* The rest does not depend on the configuration; where it is refused the call is
\* left by SetupRaises, LoopLeft or FallbackRaises, the only steps that remain.
Unconfigured == Tick \/ NewProcess
  \/ LoopLeft \/ CloseStepper \/ ClosePublisher \/ CloseSource \/ CloseRaises
  \/ FallbackRaises

ConfiguredRaise ==
  /\ SetupRaises
  /\ IF pc = "configure" THEN StartupRaises ELSE UNCHANGED limits

SetupNext ==
  \/ Load
  \/ (Accepted \/ Unconfigured \/ Terminated) /\ UNCHANGED setupVars
  \/ Configure /\ StartupPasses /\ UNCHANGED config
  \/ ConfiguredRaise /\ UNCHANGED config

SetupSpec == SetupInit /\ [][SetupNext]_<<vars, setupVars>>

-----------------------------------------------------------------------------
(* Properties *)

\* The values the mode of a window needs, refused or not.
Usable(mode) ==
  /\ config # Refused /\ config.window_ms > 0
  /\ mode = "stepped" => config.physics_step_ms > 0 /\ NSteps > 0

\* A configuration no experiment can be run with traces nothing, although
\* load_config() lets every number through and the three places that refuse one
\* come after the directory is made and the publisher is open.
RefusedConfigTracesNothing ==
  /\ \A i \in DOMAIN events : events[i].run = run => Usable(events[i].mode)
  /\ \A i \in DOMAIN outcomes : outcomes[i].run = run => Usable(outcomes[i].mode)

\* A run that requires enforcement drives the simulator only under limits its own
\* script wrote, all four of them; and one that does not leaves the cgroup alone.
ConfinedIfRequired ==
  /\ \A i \in DOMAIN outcomes :
       outcomes[i].run = run /\ outcomes[i].mode = "stepped" /\ config.enforcement_required
         => \A f \in LimitFiles : limits[f] = run
  /\ \A f \in LimitFiles : limits[f] = run /\ run > 0 => config.enforcement_required
=============================================================================
