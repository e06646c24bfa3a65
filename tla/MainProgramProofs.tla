--------------------------- MODULE MainProgramProofs ---------------------------
(***************************************************************************)
(* Theorems about main(): what its calls leave open, which of them trace   *)
(* what, and who may shut the ROS context down, however many calls there   *)
(* are and whatever raises.                                                *)
(***************************************************************************)
EXTENDS MainProgram, TLAPS

\* What the current call of main() may hold, by where it is.
MayHold(phase) ==
  CASE phase = "stepper" -> {"publisher"}
    [] phase = "source" -> {"publisher", "stepper"}
    [] phase \in {"loop", "closeStepper"} -> Resources
    [] phase = "closePublisher" -> {"publisher", "source"}
    [] phase = "closeSource" -> {"source"}
    [] phase \in {"fallback", "windows"} -> IF "gz" \in missing THEN {"publisher"} ELSE {}
    [] OTHER -> {}

Reason(x) ==
  \/ ended[x[2]] = "setup"
  \/ ended[x[2]] = "close" /\ x[1] # "stepper"
  \/ ended[x[2]] = "fallback" /\ x[1] = "publisher" /\ "gz" \in missing

\* A call in progress has not ended; the calls before it have.
ProgressInv ==
  /\ run \in Nat /\ pc \in Phases /\ (pc # "idle" => run > 0)
  /\ missing \subseteq Packages
  /\ ended \in Seq({"setup", "close", "loop", "fallback"})
  /\ Len(ended) = IF pc = "idle" THEN run ELSE run - 1

\* Every open resource belongs to the current call and its phase, or has a reason.
OpenInv ==
  /\ open \subseteq Resources \X (1..run)
  /\ \A x \in open : IF x[2] = run /\ pc # "idle" THEN x[1] \in MayHold(pc) ELSE Reason(x)

\* The context was initialised no later than any publisher that is still open.
OwnerInv ==
  /\ context \in 0..run
  /\ \A r \in 1..run : <<"publisher", r>> \in open => context # 0 /\ context <= r

Inv == ProgressInv /\ OpenInv /\ OwnerInv

LEMMA InvInit == Init => Inv
BY DEF Init, Inv, ProgressInv, OpenInv, OwnerInv, Phases

\* A step that is neither the end of a call nor its beginning keeps the accounts.
LEMMA ProgressStep == ProgressInv /\ [Next]_vars => ProgressInv'
<1> SUFFICES ASSUME ProgressInv, [Next]_vars PROVE ProgressInv'
  OBVIOUS
<1> USE DEF ProgressInv, Phases, Setup, Resources
<1>1. CASE UNCHANGED <<run, ended, missing>> /\ pc # "idle" /\ pc' \in Phases \ {"idle"}
  BY <1>1
<1>2. CASE UNCHANGED <<run, ended, missing, pc>>
  BY <1>2
<1>3. CASE Main
  BY <1>3 DEF Main
<1>4. ASSUME NEW how \in {"setup", "close", "loop", "fallback"}, End(how), UNCHANGED <<run, missing>>,
             pc # "idle"
      PROVE  ProgressInv'
  BY <1>4 DEF End
<1>5. CASE Tick \/ NewProcess \/ LoopWindow \/ FallbackWindow \/ Terminated \/ UNCHANGED vars
  BY <1>2, <1>5 DEF Tick, NewProcess, LoopWindow, FallbackWindow, Terminated, vars
<1>6. CASE ImportFails \/ ImportStepper \/ Configure \/ Open \/ NoSource \/ LoopLeft
           \/ CloseStepper \/ ClosePublisher \/ OpenFallback
  BY <1>1, <1>6
  DEF ImportFails, ImportStepper, Configure, Open, NoSource, LoopLeft, CloseStepper,
      ClosePublisher, OpenFallback, Fallback
<1>7. CASE SetupRaises \/ CloseSource \/ CloseRaises \/ FallbackDone \/ FallbackRaises
  BY <1>4, <1>7 DEF SetupRaises, CloseSource, CloseRaises, FallbackDone, FallbackRaises
<1> QED
  BY <1>3, <1>5, <1>6, <1>7 DEF Next

\* Who is open, action by action; what has ended stays ended.
LEMMA OpenStep == ProgressInv /\ OpenInv /\ [Next]_vars => OpenInv'
<1> SUFFICES ASSUME ProgressInv, OpenInv, [Next]_vars PROVE OpenInv'
  OBVIOUS
<1>0. /\ run \in Nat /\ pc \in Phases /\ (pc # "idle" => run > 0)
      /\ missing \subseteq Packages
      /\ Len(ended) = IF pc = "idle" THEN run ELSE run - 1
      /\ ended \in Seq({"setup", "close", "loop", "fallback"})
      /\ open \subseteq Resources \X (1..run)
      /\ \A x \in open : IF x[2] = run /\ pc # "idle" THEN x[1] \in MayHold(pc) ELSE Reason(x)
  BY DEF ProgressInv, OpenInv
<1>1. ASSUME pc # "idle", pc' # "idle", UNCHANGED <<run, ended, missing>>,
             open' \subseteq open \cup (Resources \X {run}),
             \A x \in open' : x[2] = run => x[1] \in MayHold(pc)'
      PROVE  OpenInv'
  <2>1. open' \subseteq Resources \X (1..run')
    BY <1>0, <1>1
  <2>2. ASSUME NEW x \in open', x[2] # run' PROVE Reason(x)'
    <3>1. x \in open
      BY <1>1, <2>2
    <3> QED
      BY <1>0, <1>1, <2>2, <3>1 DEF Reason
  <2>3. ASSUME NEW x \in open', x[2] = run' PROVE x[1] \in MayHold(pc)'
    BY <1>1, <2>3
  <2> QED
    BY <1>1, <2>1, <2>2, <2>3, Zenon DEF OpenInv
<1>2. ASSUME NEW how, pc # "idle", End(how), UNCHANGED <<run, missing>>, open' \subseteq open,
             \A x \in open' : x[2] = run =>
               \/ how = "setup"
               \/ how = "close" /\ x[1] # "stepper"
               \/ how = "fallback" /\ x[1] = "publisher" /\ "gz" \in missing
      PROVE  OpenInv'
  <2>1. pc' = "idle" /\ ended' = Append(ended, how) /\ run > 0
    BY <1>0, <1>2 DEF End
  <2>2. ended'[run] = how /\ \A r \in 1..run : r # run => ended'[r] = ended[r]
    BY <1>0, <1>2, <2>1
  <2> QED
    BY <1>0, <1>2, <2>1, <2>2 DEF OpenInv, Reason
<1>3. CASE UNCHANGED <<run, ended, missing, open, pc>>
  BY <1>0, <1>3 DEF OpenInv, Reason, MayHold
<1>4. CASE Main
  BY <1>0, <1>4 DEF Main, process, OpenInv, Reason, MayHold
<1>5. CASE NewProcess
  BY <1>0, <1>5 DEF NewProcess, OpenInv
<1>6. CASE ImportFails
  <2>1. /\ pc \in Setup /\ Needs(pc) \in missing /\ pc' = "fallback"
        /\ UNCHANGED <<run, ended, missing, open>>
    BY <1>6 DEF ImportFails, Fallback
  <2>2. pc # "idle"
    BY <2>1 DEF Setup
  <2>3. ASSUME NEW x \in open, x[2] = run PROVE x[1] \in MayHold("fallback")
    <3>1. x[1] \in MayHold(pc)
      BY <1>0, <2>2, <2>3
    <3>2. CASE pc = "stepper"
      BY <2>1, <3>1, <3>2 DEF Needs, MayHold
    <3>3. CASE pc = "source"
      BY <1>0, <2>1, <3>3 DEF Needs, Packages
    <3>4. CASE pc \in {"import", "configure", "publisher"}
      BY <3>1, <3>4 DEF MayHold
    <3> QED
      BY <2>1, <3>2, <3>3, <3>4 DEF Setup
  <2>4. \A x \in open' : x[2] = run => x[1] \in MayHold(pc)'
    BY <2>1, <2>3 DEF MayHold
  <2> QED
    BY <1>1, <2>1, <2>2, <2>4
<1>7. CASE ImportStepper \/ Configure
  BY <1>0, <1>1, <1>7 DEF ImportStepper, Configure, process, MayHold
<1>8. CASE Open
  <2>1. pc \in Resources /\ open' = open \cup {<<pc, run>>} /\ UNCHANGED <<run, ended, missing>>
    BY <1>8 DEF Open, Opened
  <2>2. pc' = IF pc = "publisher" THEN "stepper" ELSE IF pc = "stepper" THEN "source" ELSE "loop"
    BY <1>8, <2>1 DEF Open, Resources
  <2>3. \A x \in open' : x[2] = run => x[1] \in MayHold(pc)'
    BY <1>0, <2>1, <2>2 DEF Resources, MayHold
  <2> QED
    BY <1>1, <2>1, <2>2, <2>3 DEF Resources
<1>9. CASE NoSource \/ LoopLeft \/ OpenFallback
  BY <1>0, <1>1, <1>9 DEF NoSource, LoopLeft, OpenFallback, process, MayHold, Resources
<1>10. CASE SetupRaises
  BY <1>0, <1>2, <1>10 DEF SetupRaises, Setup
<1>11. CASE CloseStepper
  <2>1. pc = "closeStepper" /\ pc' = "closePublisher" /\ open' = open \ {<<"stepper", run>>}
        /\ UNCHANGED <<run, ended, missing>>
    BY <1>11 DEF CloseStepper
  <2>2. ASSUME NEW x \in open', x[2] = run PROVE x[1] \in {"publisher", "source"}
    BY <1>0, <2>1, <2>2 DEF Resources
  <2> QED
    BY <1>1, <2>1, <2>2 DEF MayHold
<1>12. CASE ClosePublisher
  <2>1. pc = "closePublisher" /\ pc' = "closeSource" /\ open' = open \ {<<"publisher", run>>}
        /\ UNCHANGED <<run, ended, missing>>
    BY <1>12 DEF ClosePublisher
  <2>2. ASSUME NEW x \in open', x[2] = run PROVE x[1] = "source"
    BY <1>0, <2>1, <2>2 DEF Resources, MayHold
  <2> QED
    BY <1>1, <2>1, <2>2 DEF MayHold
<1>13. CASE CloseSource
  <2>1. pc = "closeSource" /\ open' = open \ {<<"source", run>>} /\ End("loop")
        /\ UNCHANGED <<run, missing>>
    BY <1>13 DEF CloseSource
  <2>2. ASSUME NEW x \in open' PROVE x[2] # run
    BY <1>0, <2>1, <2>2 DEF Resources, MayHold
  <2> QED
    BY <1>2, <2>1, <2>2
<1>14. CASE CloseRaises
  BY <1>0, <1>2, <1>14 DEF CloseRaises, process, MayHold
<1>15. CASE FallbackDone \/ FallbackRaises
  BY <1>0, <1>2, <1>15 DEF FallbackDone, FallbackRaises, MayHold
<1>16. CASE Tick \/ LoopWindow \/ FallbackWindow \/ Terminated \/ UNCHANGED vars
  BY <1>3, <1>16 DEF Tick, LoopWindow, FallbackWindow, Terminated, vars, process
<1> QED
  BY <1>4, <1>5, <1>6, <1>7, <1>8, <1>9, <1>10, <1>11, <1>12, <1>13, <1>14, <1>15, <1>16 DEF Next

\* Only the owner shuts the context down, and then no publisher is left that used it.
LEMMA OwnerStep == Inv /\ [Next]_vars => OwnerInv'
<1> SUFFICES ASSUME Inv, [Next]_vars PROVE OwnerInv'
  OBVIOUS
<1>0. /\ run \in Nat /\ (pc # "idle" => run > 0) /\ context \in 0..run
      /\ open \subseteq Resources \X (1..run)
      /\ \A r \in 1..run : <<"publisher", r>> \in open => context # 0 /\ context <= r
  BY DEF Inv, ProgressInv, OpenInv, OwnerInv
<1>1. CASE UNCHANGED <<run, context>> /\ open' \subseteq open \cup ({"stepper", "source"} \X {run})
  BY <1>0, <1>1 DEF OwnerInv
<1>2. CASE Main
  BY <1>0, <1>2 DEF Main, process, OwnerInv
<1>3. CASE NewProcess
  BY <1>0, <1>3 DEF NewProcess, OwnerInv
<1>4. CASE Open
  <2>1. /\ pc \in Resources /\ open' = open \cup {<<pc, run>>} /\ run' = run /\ run > 0
        /\ context' = IF pc # "stepper" /\ context = 0 THEN run ELSE context
    BY <1>0, <1>4 DEF Open, Opened, Resources
  <2>2. context' \in 0..run
    BY <1>0, <2>1
  <2>3. ASSUME NEW r \in 1..run, <<"publisher", r>> \in open' PROVE context' # 0 /\ context' <= r
    <3>1. CASE <<"publisher", r>> \in open
      BY <1>0, <2>1, <3>1
    <3>2. CASE <<"publisher", r>> = <<pc, run>>
      BY <1>0, <2>1, <3>2
    <3> QED
      BY <2>1, <2>3, <3>1, <3>2
  <2> QED
    BY <2>1, <2>2, <2>3 DEF OwnerInv
<1>5. CASE SetupRaises
  <2>1. run' = run /\ open' = open /\ run > 0
        /\ (context' = context \/ (context = 0 /\ context' = run))
    BY <1>0, <1>5 DEF SetupRaises, Setup
  <2> QED
    BY <1>0, <2>1 DEF OwnerInv
<1>6. CASE ClosePublisher
  <2>1. run' = run /\ open' = open \ {<<"publisher", run>>}
        /\ context' = IF context = run THEN 0 ELSE context
    BY <1>6 DEF ClosePublisher, ContextAfterClose
  <2> QED
    BY <1>0, <2>1 DEF OwnerInv
<1>7. CASE Tick \/ ImportFails \/ ImportStepper \/ Configure \/ NoSource \/ LoopWindow \/ LoopLeft
           \/ CloseStepper \/ CloseSource \/ CloseRaises
  BY <1>1, <1>7
  DEF Tick, ImportFails, ImportStepper, Configure, NoSource, LoopWindow, LoopLeft, CloseStepper,
      CloseSource, CloseRaises, process
<1>8. CASE OpenFallback \/ FallbackWindow \/ FallbackDone \/ FallbackRaises \/ Terminated
           \/ UNCHANGED vars
  BY <1>1, <1>8
  DEF OpenFallback, FallbackWindow, FallbackDone, FallbackRaises, Terminated, vars, process
<1> QED
  BY <1>2, <1>3, <1>4, <1>5, <1>6, <1>7, <1>8 DEF Next

LEMMA InvStep == Inv /\ [Next]_vars => Inv'
BY ProgressStep, OpenStep, OwnerStep DEF Inv

\* However the loop of a call ends, nothing of that call is left open.
THEOREM NothingLeft == Spec => []LeftOpenForAReason
<1>1. Inv => LeftOpenForAReason
  BY DEF Inv, OpenInv, LeftOpenForAReason, Reason
<1> QED
  BY <1>1, InvInit, InvStep, PTL DEF Spec

\* The context is never shut down under an open publisher, whoever left it open.
THEOREM ContextIsThere == Spec => []OpenPublisherHasContext
<1>1. Inv => OpenPublisherHasContext
  BY DEF Inv, OwnerInv, OpenPublisherHasContext
<1> QED
  BY <1>1, InvInit, InvStep, PTL DEF Spec
-----------------------------------------------------------------------------
\* What the current call traces, by where it is.
Mode(phase) ==
  CASE phase \in {"loop", "closeStepper", "closePublisher", "closeSource"} -> "stepped"
    [] phase = "windows" -> "fallback"
    [] OTHER -> "none"

OutcomeRows ==
  [experiment : Nat, run : Nat, mode : {"stepped", "fallback"}, window : Nat, marked : BOOLEAN]

RowTypes ==
  /\ experiment \in Nat /\ window \in Nat /\ clock \in Nat /\ marker \in BOOLEAN
  /\ outcomes \in Seq(OutcomeRows)

\* No row comes from a call that has not begun, and the current call has written
\* rows of one mode only, none before it knows which.
ModeInv ==
  \A i \in DOMAIN outcomes :
    /\ outcomes[i].run <= run
    /\ outcomes[i].run = run /\ pc # "idle" => outcomes[i].mode = Mode(pc)

TraceInv == RowTypes /\ ModeInv /\ MarkerScoped /\ OneModePerRun

LEMMA TraceInit == Init => TraceInv
<1> SUFFICES ASSUME Init PROVE TraceInv
  OBVIOUS
<1>1. outcomes = <<>> /\ DOMAIN outcomes = {} /\ marker = FALSE /\ pc = "idle"
  BY DEF Init
<1>2. RowTypes
  <2>1. experiment = 0 /\ window = 0 /\ clock = 1
    BY DEF Init
  <2>2. <<>> \in Seq(OutcomeRows)
    OBVIOUS
  <2> QED
    BY <1>1, <2>1, <2>2 DEF RowTypes
<1>3. ModeInv /\ MarkerScoped /\ OneModePerRun
  BY <1>1 DEF ModeInv, MarkerScoped, OneModePerRun
<1> QED
  BY <1>2, <1>3 DEF TraceInv

LEMMA RowTypesStep == ProgressInv /\ RowTypes /\ [Next]_vars => RowTypes'
<1> SUFFICES ASSUME ProgressInv, RowTypes, [Next]_vars PROVE RowTypes'
  OBVIOUS
<1> USE DEF RowTypes
<1>1. CASE UNCHANGED <<experiment, window, clock, outcomes>> /\ marker' \in BOOLEAN
  BY <1>1
<1>2. ASSUME NEW mode \in {"stepped", "fallback"}, outcomes' = Append(outcomes, Outcome(mode, window + 1)),
             window' = window + 1, UNCHANGED <<experiment, clock, marker>>
      PROVE  RowTypes'
  <2>1. Outcome(mode, window + 1) \in OutcomeRows
    BY DEF Outcome, OutcomeRows, ProgressInv
  <2> QED
    BY <1>2, <2>1
<1>3. CASE LoopWindow \/ FallbackWindow
  BY <1>2, <1>3 DEF LoopWindow, FallbackWindow, process
<1>4. CASE Tick \/ Configure \/ OpenFallback
  BY <1>4 DEF Tick, Configure, OpenFallback, process, trace
<1>5. CASE Main \/ NewProcess \/ ImportFails \/ ImportStepper \/ Open \/ NoSource \/ SetupRaises
           \/ LoopLeft \/ CloseStepper \/ ClosePublisher \/ CloseSource \/ CloseRaises
  BY <1>1, <1>5
  DEF Main, NewProcess, ImportFails, ImportStepper, Open, NoSource, SetupRaises, LoopLeft,
      CloseStepper, ClosePublisher, CloseSource, CloseRaises, Fallback, process, trace
<1>6. CASE FallbackDone \/ FallbackRaises \/ Terminated \/ UNCHANGED vars
  BY <1>1, <1>6 DEF FallbackDone, FallbackRaises, Terminated, vars, process, trace
<1> QED
  BY <1>3, <1>4, <1>5, <1>6 DEF Next

\* Every action either adds a row of the mode its phase is bound to, or leaves the
\* rows alone and moves only from one phase to another that is bound to the same.
LEMMA TraceStep == ProgressInv /\ TraceInv /\ [Next]_vars => TraceInv'
<1> SUFFICES ASSUME ProgressInv, TraceInv, [Next]_vars PROVE TraceInv'
  OBVIOUS
<1>0. /\ run \in Nat /\ pc \in Phases
      /\ outcomes \in Seq(OutcomeRows) /\ ModeInv /\ OneModePerRun
      /\ marker <=> pc \in {"fallback", "windows"}
      /\ \A i \in DOMAIN outcomes : outcomes[i].marked <=> outcomes[i].mode = "fallback"
      /\ \A i \in DOMAIN outcomes : outcomes[i].run \in Nat /\ outcomes[i].mode # "none"
  <2>1. outcomes \in Seq(OutcomeRows)
    BY DEF TraceInv, RowTypes
  <2>2. ASSUME NEW i \in DOMAIN outcomes
        PROVE  outcomes[i].run \in Nat /\ outcomes[i].mode # "none"
    <3>1. outcomes[i] \in OutcomeRows
      BY <2>1
    <3> QED
      BY <3>1 DEF OutcomeRows
  <2> QED
    BY <2>1, <2>2 DEF ProgressInv, TraceInv, MarkerScoped
<1>1. RowTypes'
  BY RowTypesStep DEF TraceInv
<1>2. ASSUME UNCHANGED outcomes, marker' <=> pc' \in {"fallback", "windows"},
             \/ run' = run + 1
             \/ run' = run /\ pc' = "idle"
             \/ run' = run /\ pc # "idle" /\ Mode(pc) \in {"none", Mode(pc)'}
             \/ run' = run /\ UNCHANGED pc
      PROVE  TraceInv'
  <2>1. OneModePerRun' /\ MarkerScoped'
    BY <1>0, <1>2 DEF OneModePerRun, MarkerScoped
  <2>2. ModeInv'
    BY <1>0, <1>2 DEF ModeInv, Mode
  <2> QED
    BY <1>1, <2>1, <2>2 DEF TraceInv
<1>3. ASSUME NEW mode \in {"stepped", "fallback"}, outcomes' = Append(outcomes, Outcome(mode, window + 1)),
             UNCHANGED <<run, pc, marker>>, pc # "idle", mode = Mode(pc)
      PROVE  TraceInv'
  <2> DEFINE row == Outcome(mode, window + 1)
  <2>1. row.run = run /\ row.mode = mode /\ row.marked = marker
    BY DEF Outcome
  <2>2. marker <=> mode = "fallback"
    BY <1>0, <1>3 DEF Mode
  <2>3. row \in OutcomeRows
    BY <1>0 DEF Outcome, OutcomeRows, TraceInv, RowTypes
  <2> HIDE DEF row
  <2>4. \A i \in DOMAIN outcomes' :
          outcomes'[i] = row \/ (i \in DOMAIN outcomes /\ outcomes'[i] = outcomes[i])
    BY <1>0, <1>3, <2>3 DEF row
  <2>5. ModeInv'
    BY <1>0, <1>3, <2>1, <2>4 DEF ModeInv, Mode
  <2>6. OneModePerRun'
    BY <1>0, <1>3, <2>1, <2>4 DEF ModeInv, OneModePerRun
  <2>7. MarkerScoped'
    BY <1>0, <1>3, <2>1, <2>2, <2>4 DEF MarkerScoped
  <2> QED
    BY <1>1, <2>5, <2>6, <2>7 DEF TraceInv
<1>4. CASE LoopWindow
  BY <1>3, <1>4 DEF LoopWindow, Mode, process
<1>5. CASE FallbackWindow
  BY <1>3, <1>5 DEF FallbackWindow, Mode, process
<1>6. CASE Main \/ Tick \/ NewProcess \/ Terminated \/ UNCHANGED vars
  BY <1>0, <1>2, <1>6 DEF Main, Tick, NewProcess, Terminated, vars, process, trace
<1>7. CASE ImportFails \/ ImportStepper \/ Configure \/ Open \/ NoSource
  <2>1. pc \in Setup /\ UNCHANGED <<outcomes, run>>
        /\ \/ pc' = "fallback" /\ marker'
           \/ marker' = marker /\ pc' \in {"configure", "publisher", "stepper", "source", "loop"}
    BY <1>7 DEF ImportFails, ImportStepper, Configure, Open, NoSource, Fallback, Setup, Resources,
                process, trace
  <2>2. pc # "idle" /\ Mode(pc) = "none" /\ ~marker
    BY <1>0, <2>1 DEF Setup, Mode
  <2> QED
    BY <1>2, <2>1, <2>2
<1>8. CASE LoopLeft \/ CloseStepper \/ ClosePublisher
  BY <1>0, <1>2, <1>8 DEF LoopLeft, CloseStepper, ClosePublisher, Mode, process, trace
<1>9. CASE SetupRaises \/ CloseSource \/ CloseRaises \/ FallbackDone \/ FallbackRaises
  BY <1>0, <1>2, <1>9
  DEF SetupRaises, CloseSource, CloseRaises, FallbackDone, FallbackRaises, End, Setup, process, trace
<1>10. CASE OpenFallback
  BY <1>0, <1>2, <1>10 DEF OpenFallback, Mode, process, trace
<1> QED
  BY <1>4, <1>5, <1>6, <1>7, <1>8, <1>9, <1>10 DEF Next

\* A call of main() traces the simulator or the fallback, never both.
THEOREM OneMode == Spec => []OneModePerRun
<1>1. Inv /\ TraceInv => OneModePerRun
  BY DEF TraceInv
<1>2. Inv /\ TraceInv /\ [Next]_vars => (Inv /\ TraceInv)'
  BY InvStep, TraceStep DEF Inv
<1> QED
  BY <1>1, <1>2, InvInit, TraceInit, PTL DEF Spec

\* The marker is set in the fallback only, and so are its outcomes.
THEOREM MarkerInScope == Spec => []MarkerScoped
<1>1. Inv /\ TraceInv => MarkerScoped
  BY DEF TraceInv
<1>2. Inv /\ TraceInv /\ [Next]_vars => (Inv /\ TraceInv)'
  BY InvStep, TraceStep DEF Inv
<1> QED
  BY <1>1, <1>2, InvInit, TraceInit, PTL DEF Spec
-----------------------------------------------------------------------------
\* What TypeOK adds to the invariants above.
RestInv ==
  /\ experiment <= clock /\ sequence \in Nat
  /\ pc = "windows" => window <= TotalWindows

LEMMA RestInit == Init => RestInv
BY DEF Init, RestInv

LEMMA RestStep == RowTypes /\ RestInv /\ [Next]_vars => RestInv'
<1> SUFFICES ASSUME RowTypes, RestInv, [Next]_vars PROVE RestInv'
  OBVIOUS
<1>0. /\ experiment \in Nat /\ clock \in Nat /\ window \in Nat /\ sequence \in Nat
      /\ experiment <= clock /\ (pc = "windows" => window <= TotalWindows)
  BY DEF RowTypes, RestInv
<1>1. TotalWindows \in Nat
  BY MainAssumption DEF TotalWindows
<1> USE DEF RestInv, TotalWindows
<1>2. CASE Tick \/ Configure \/ OpenFallback
  BY <1>0, <1>1, <1>2 DEF Tick, Configure, OpenFallback
<1>3. CASE LoopWindow
  <2>1. PICK n \in 0..MaxArrivals : sequence' = sequence + n
    BY <1>3 DEF LoopWindow
  <2> QED
    BY <1>0, <1>3, <2>1, MainAssumption DEF LoopWindow
<1>4. CASE FallbackWindow
  <2>1. PICK n \in 0..MaxArrivals : sequence' = sequence + n
    BY <1>4 DEF FallbackWindow
  <2>2. window' = window + 1 /\ window < TotalWindows /\ UNCHANGED <<pc, experiment, clock>>
    BY <1>4 DEF FallbackWindow
  <2> QED
    BY <1>0, <1>1, <2>1, <2>2, MainAssumption
<1>5. CASE Main \/ NewProcess \/ ImportFails \/ ImportStepper \/ Open \/ NoSource \/ SetupRaises
           \/ LoopLeft \/ CloseStepper \/ ClosePublisher \/ CloseSource \/ CloseRaises
  <2>1. UNCHANGED <<experiment, clock, sequence, window>> /\ pc' # "windows"
    BY <1>5
    DEF Main, NewProcess, ImportFails, ImportStepper, Open, NoSource, SetupRaises, LoopLeft,
        CloseStepper, ClosePublisher, CloseSource, CloseRaises, Fallback, End, Resources
  <2> QED
    BY <1>0, <2>1
<1>6. CASE FallbackDone \/ FallbackRaises \/ Terminated \/ UNCHANGED vars
  BY <1>0, <1>6 DEF FallbackDone, FallbackRaises, Terminated, End, vars
<1> QED
  BY <1>2, <1>3, <1>4, <1>5, <1>6 DEF Next

\* Type correctness: counters, resources and the marker stay in their types.
THEOREM TypeCorrect == Spec => []TypeOK
<1>1. Init => Inv /\ TraceInv /\ RestInv
  BY InvInit, TraceInit, RestInit
<1>2. Inv /\ TraceInv /\ RestInv /\ [Next]_vars => (Inv /\ TraceInv /\ RestInv)'
  BY InvStep, TraceStep, RestStep DEF Inv, TraceInv
<1>3. Inv /\ TraceInv /\ RestInv => TypeOK
  <2> SUFFICES ASSUME Inv, TraceInv, RestInv PROVE TypeOK
    OBVIOUS
  <2>1. experiment \in Nat /\ clock \in Nat /\ experiment <= clock /\ marker \in BOOLEAN
        /\ window \in Nat /\ sequence \in Nat /\ (pc = "windows" => window <= TotalWindows)
    BY DEF TraceInv, RowTypes, RestInv
  <2>2. /\ missing \subseteq Packages /\ pc \in Phases /\ run \in Nat /\ context \in 0..run
        /\ open \subseteq Resources \X (1..run)
        /\ Len(ended) = IF pc = "idle" THEN run ELSE run - 1
    BY DEF Inv, ProgressInv, OpenInv, OwnerInv
  <2>3. experiment \in 0..clock
    BY <2>1
  <2> QED
    BY <2>1, <2>2, <2>3, Zenon DEF TypeOK
<1> QED
  BY <1>1, <1>2, <1>3, PTL DEF Spec
-----------------------------------------------------------------------------
(* Event ids *)

Tasks == {"tool", "controller"} \X Nat
EventRows ==
  [experiment : Nat, run : Nat, mode : {"stepped", "fallback"}, window : Nat, task : Tasks]

\* A call that has written events has left its set-up behind, and with it the places
\* where the windows are counted from the start.
EventInv ==
  /\ sequence \in Nat /\ events \in Seq(EventRows)
  /\ \A i \in DOMAIN events :
       /\ events[i].run <= run
       /\ events[i].run = run /\ pc # "idle" => Mode(pc) # "none" /\ events[i].window <= window

\* The arrivals of a window are numbered, and no number is used twice.
Numbered(tools) == tools \in Seq(Nat) /\ \A i, j \in DOMAIN tools : tools[i] = tools[j] => i = j

LEMMA ToolsAreNumbered ==
  ASSUME NEW n \in Nat, sequence \in Nat
  PROVE  Numbered(NextArrivals(n)) /\ Numbered(Tools(n))
<1>1. Numbered(NextArrivals(n))
  <2>1. NextArrivals(n) \in [1..n -> Nat] /\ \A i \in 1..n : NextArrivals(n)[i] = sequence + i
    BY DEF NextArrivals
  <2> QED
    BY <2>1 DEF Numbered
<1>2. Numbered(<<1>>)
  BY DEF Numbered
<1> QED
  BY <1>1, <1>2 DEF Tools

\* What a task of an event says.
LEMMA TasksDiffer ==
  /\ \A m \in Nat : <<"tool", m>> # <<"controller", 1>>
  /\ \A m, n \in Nat : <<"tool", m>> = <<"tool", n>> => m = n
OBVIOUS

\* Two sequences of rows, one behind the other.
LEMMA Concatenated ==
  ASSUME NEW S, NEW s \in Seq(S), NEW t \in Seq(S)
  PROVE  /\ s \o t \in Seq(S) /\ Len(s \o t) = Len(s) + Len(t)
         /\ \A i \in 1..Len(s) : (s \o t)[i] = s[i]
         /\ \A i \in 1..(Len(s) + Len(t)) : i > Len(s) => (s \o t)[i] = t[i - Len(s)]
OBVIOUS

\* One window's events are the current call's, and their ids differ.
LEMMA EventsOfWindow ==
  ASSUME ProgressInv, RowTypes, NEW mode \in {"stepped", "fallback"}, NEW tools, Numbered(tools)
  PROVE  LET added == WindowEvents(mode, window + 1, tools)
         IN  /\ added \in Seq(EventRows)
             /\ \A i \in DOMAIN added :
                  added[i].run = run /\ added[i].mode = mode /\ added[i].window = window + 1
             /\ \A i, j \in DOMAIN added : EventId(added[i]) = EventId(added[j]) => i = j
<1> DEFINE toolEvents == [i \in 1..Len(tools) |-> Event(mode, window + 1, <<"tool", tools[i]>>)]
           last == Event(mode, window + 1, <<"controller", 1>>)
           added == WindowEvents(mode, window + 1, tools)
<1>1. /\ tools \in Seq(Nat) /\ Len(tools) \in Nat /\ DOMAIN tools = 1..Len(tools)
      /\ \A i, j \in 1..Len(tools) : tools[i] = tools[j] => i = j
  BY DEF Numbered
<1>2. ASSUME NEW task \in Tasks
      PROVE  /\ Event(mode, window + 1, task) \in EventRows
             /\ Event(mode, window + 1, task).run = run
             /\ Event(mode, window + 1, task).mode = mode
             /\ Event(mode, window + 1, task).window = window + 1
             /\ Event(mode, window + 1, task).task = task
  BY <1>2 DEF Event, EventRows, ProgressInv, RowTypes
<1>3. <<"controller", 1>> \in Tasks /\ \A i \in 1..Len(tools) : <<"tool", tools[i]>> \in Tasks
  BY <1>1 DEF Tasks
<1>4. toolEvents \in Seq(EventRows) /\ Len(toolEvents) = Len(tools)
  <2>1. toolEvents \in [1..Len(tools) -> EventRows]
    BY <1>2, <1>3
  <2>2. Len(tools) \in Nat
    BY <1>1
  <2> HIDE DEF toolEvents
  <2> QED
    BY <2>1, <2>2
<1>5. last \in EventRows
  BY <1>2, <1>3
<1>6. added = Append(toolEvents, last)
  BY DEF WindowEvents
<1>7. /\ added \in Seq(EventRows) /\ DOMAIN added = 1..(Len(tools) + 1)
      /\ \A i \in 1..Len(tools) : added[i] = toolEvents[i]
      /\ added[Len(tools) + 1] = last
  <2> HIDE DEF added, toolEvents, last
  <2> QED
    BY <1>1, <1>4, <1>5, <1>6
<1>8. \A i \in 1..Len(tools) : added[i] = Event(mode, window + 1, <<"tool", tools[i]>>)
  BY <1>7
<1> HIDE DEF added, toolEvents
<1>9. ASSUME NEW i \in DOMAIN added
      PROVE  /\ added[i].run = run /\ added[i].mode = mode /\ added[i].window = window + 1
             /\ added[i].task = IF i <= Len(tools) THEN <<"tool", tools[i]>> ELSE <<"controller", 1>>
  <2>1. CASE i \in 1..Len(tools)
    <3> DEFINE task == <<"tool", tools[i]>>
    <3>1. task \in Tasks /\ added[i] = Event(mode, window + 1, task) /\ i <= Len(tools)
      BY <1>1, <1>3, <1>8, <2>1
    <3> HIDE DEF task
    <3>2. /\ added[i].run = run /\ added[i].mode = mode /\ added[i].window = window + 1
          /\ added[i].task = task
      BY <1>2, <3>1
    <3> QED
      BY <3>1, <3>2 DEF task
  <2>2. CASE i = Len(tools) + 1
    BY <1>1, <1>2, <1>3, <1>7, <2>2
  <2> QED
    BY <1>1, <1>7, <2>1, <2>2
<1>10. ASSUME NEW i \in DOMAIN added, NEW j \in DOMAIN added, added[i].task = added[j].task
       PROVE  i = j
  <2>1. i \in 1..(Len(tools) + 1) /\ j \in 1..(Len(tools) + 1)
    BY <1>7
  <2>2. ASSUME NEW k \in DOMAIN added, NEW l \in DOMAIN added, added[k].task = added[l].task,
               k <= Len(tools)
        PROVE  l <= Len(tools) /\ tools[k] = tools[l]
    <3>1. added[k].task = <<"tool", tools[k]>>
      BY <1>9, <2>2
    <3>2. CASE ~(l <= Len(tools))
      <4>1. added[l].task = <<"controller", 1>>
        BY <1>9, <2>2, <3>2
      <4>2. tools[k] \in Nat
        BY <1>1, <1>7, <2>2
      <4> QED
        BY <2>2, <3>1, <4>1, <4>2, TasksDiffer
    <3>3. CASE l <= Len(tools)
      <4>1. added[l].task = <<"tool", tools[l]>>
        BY <1>9, <3>3
      <4>2. k \in 1..Len(tools) /\ l \in 1..Len(tools)
        BY <1>1, <1>7, <2>2, <3>3
      <4>3. tools[k] \in Nat /\ tools[l] \in Nat
        BY <1>1, <4>2
      <4> QED
        BY <2>2, <3>1, <3>3, <4>1, <4>3, TasksDiffer
    <3> QED
      BY <3>2, <3>3
  <2>3. CASE i <= Len(tools)
    <3>1. j <= Len(tools) /\ tools[i] = tools[j]
      BY <1>10, <2>2, <2>3
    <3> QED
      BY <1>1, <2>1, <2>3, <3>1
  <2>4. CASE j <= Len(tools)
    <3>1. i <= Len(tools) /\ tools[i] = tools[j]
      BY <1>10, <2>2, <2>4
    <3> QED
      BY <1>1, <2>1, <2>4, <3>1
  <2> QED
    BY <1>1, <2>1, <2>3, <2>4
<1>11. \A i, j \in DOMAIN added : EventId(added[i]) = EventId(added[j]) => i = j
  BY <1>10 DEF EventId
<1> QED
  BY <1>7, <1>9, <1>11 DEF added

\* Appending the events of a window that is later than all of the call's others.
LEMMA EventsAppended ==
  ASSUME ProgressInv, RowTypes, EventInv, EventIdsUnique, pc \in {"loop", "windows"},
         NEW mode \in {"stepped", "fallback"}, NEW tools, Numbered(tools),
         events' = events \o WindowEvents(mode, window + 1, tools)
  PROVE  /\ events' \in Seq(EventRows) /\ EventIdsUnique'
         /\ \A i \in DOMAIN events' :
              events'[i].run <= run /\ (events'[i].run = run => events'[i].window <= window + 1)
<1> DEFINE added == WindowEvents(mode, window + 1, tools)
<1>1. /\ added \in Seq(EventRows)
      /\ \A i \in DOMAIN added : added[i].run = run /\ added[i].window = window + 1
      /\ \A i, j \in DOMAIN added : EventId(added[i]) = EventId(added[j]) => i = j
  BY EventsOfWindow
<1>2. events' = events \o added /\ events \in Seq(EventRows) /\ run \in Nat /\ window \in Nat
  BY DEF EventInv, ProgressInv, RowTypes
<1> HIDE DEF added
<1>3. ASSUME NEW i \in DOMAIN events PROVE events[i].window \in Nat /\ events[i].run \in Nat
  <2>1. events[i] \in EventRows
    BY <1>2
  <2> QED
    BY <2>1 DEF EventRows
<1>4. \A i \in DOMAIN events :
        events[i].run <= run /\ (events[i].run = run => events[i].window <= window)
  BY DEF EventInv
<1>5. /\ added \in Seq(EventRows) /\ events \in Seq(EventRows)
      /\ events' = events \o added /\ events' \in Seq(EventRows)
  <2>1. added \in Seq(EventRows) /\ events \in Seq(EventRows) /\ events' = events \o added
    BY <1>1, <1>2
  <2> QED
    BY <2>1, Concatenated
<1>6. /\ DOMAIN events = 1..Len(events) /\ DOMAIN added = 1..Len(added)
      /\ Len(events) \in Nat /\ Len(added) \in Nat
      /\ DOMAIN events' = 1..(Len(events) + Len(added))
      /\ \A i \in DOMAIN events : events'[i] = events[i]
      /\ \A i \in DOMAIN events' : i > Len(events) =>
           i - Len(events) \in DOMAIN added /\ events'[i] = added[i - Len(events)]
  <2>1. /\ DOMAIN events = 1..Len(events) /\ DOMAIN added = 1..Len(added)
        /\ Len(events) \in Nat /\ Len(added) \in Nat /\ DOMAIN events' = 1..Len(events')
    BY <1>5
  <2> DEFINE both == events \o added
  <2>2. /\ Len(both) = Len(events) + Len(added)
        /\ \A i \in 1..Len(events) : both[i] = events[i]
        /\ \A i \in 1..(Len(events) + Len(added)) :
             i > Len(events) => both[i] = added[i - Len(events)]
    BY <1>5, Concatenated
  <2>3. events' = both
    BY <1>5
  <2> HIDE DEF both
  <2>4. /\ Len(events') = Len(events) + Len(added)
        /\ \A i \in 1..Len(events) : events'[i] = events[i]
        /\ \A i \in 1..(Len(events) + Len(added)) :
             i > Len(events) => events'[i] = added[i - Len(events)]
    BY <2>2, <2>3
  <2>5. DOMAIN events' = 1..(Len(events) + Len(added))
    BY <2>1, <2>4
  <2>6. \A i \in DOMAIN events' : i > Len(events) => i - Len(events) \in DOMAIN added
    BY <2>1, <2>5
  <2> QED
    BY <2>1, <2>4, <2>5, <2>6
<1>7. ASSUME NEW i \in DOMAIN events', NEW j \in DOMAIN events', events'[i].run = events'[j].run,
             events'[i].window = events'[j].window, events'[i].task = events'[j].task
      PROVE  i = j
  <2>1. CASE i <= Len(events) /\ j <= Len(events)
    <3>1. i \in DOMAIN events /\ j \in DOMAIN events
      BY <1>6, <2>1
    <3> QED
      BY <1>6, <1>7, <3>1 DEF EventIdsUnique, EventId
  <2>2. CASE i > Len(events) /\ j > Len(events)
    <3>1. i - Len(events) = j - Len(events)
      BY <1>1, <1>6, <1>7, <2>2 DEF EventId
    <3> QED
      BY <1>6, <3>1
  <2>3. ASSUME NEW k \in DOMAIN events', NEW l \in DOMAIN events', k <= Len(events), l > Len(events),
               events'[k].run = events'[l].run
        PROVE  events'[k].window # events'[l].window
    <3>1. k \in DOMAIN events
      BY <1>6, <2>3
    <3>2. events[k].window <= window /\ events[k].window \in Nat
      BY <1>1, <1>3, <1>4, <1>6, <2>3, <3>1
    <3> QED
      BY <1>1, <1>2, <1>6, <2>3, <3>1, <3>2
  <2>4. CASE i <= Len(events) /\ j > Len(events)
    BY <1>7, <2>3, <2>4
  <2>5. CASE j <= Len(events) /\ i > Len(events)
    BY <1>7, <2>3, <2>5
  <2> QED
    BY <1>6, <2>1, <2>2, <2>4, <2>5
<1>8. EventIdsUnique'
  BY <1>7 DEF EventIdsUnique, EventId
<1>9. ASSUME NEW i \in DOMAIN events'
      PROVE  events'[i].run <= run /\ (events'[i].run = run => events'[i].window <= window + 1)
  <2>1. CASE i \in DOMAIN events
    BY <1>2, <1>3, <1>4, <1>6, <2>1
  <2>2. CASE i > Len(events)
    BY <1>1, <1>2, <1>6, <2>2
  <2> QED
    BY <1>6, <2>1, <2>2
<1> QED
  BY <1>5, <1>8, <1>9

LEMMA EventInit == Init => EventInv /\ EventIdsUnique
<1> SUFFICES ASSUME Init PROVE EventInv /\ EventIdsUnique
  OBVIOUS
<1>1. events = <<>> /\ sequence = 0
  BY DEF Init
<1> QED
  BY <1>1 DEF EventInv, EventIdsUnique

LEMMA EventStep ==
  ProgressInv /\ RowTypes /\ EventInv /\ EventIdsUnique /\ [Next]_vars => (EventInv /\ EventIdsUnique)'
<1> SUFFICES ASSUME ProgressInv, RowTypes, EventInv, EventIdsUnique, [Next]_vars
             PROVE  (EventInv /\ EventIdsUnique)'
  OBVIOUS
<1>0. /\ run \in Nat /\ pc \in Phases /\ window \in Nat /\ sequence \in Nat /\ MaxArrivals \in Nat
      /\ events \in Seq(EventRows)
      /\ \A i \in DOMAIN events :
           /\ events[i].run <= run /\ events[i].run \in Nat
           /\ events[i].run = run /\ pc # "idle" => Mode(pc) # "none" /\ events[i].window <= window
  <2>1. ASSUME NEW i \in DOMAIN events PROVE events[i].run \in Nat
    <3>1. events \in Seq(EventRows)
      BY DEF EventInv
    <3>2. events[i] \in EventRows
      BY <3>1
    <3> QED
      BY <3>2 DEF EventRows
  <2> QED
    BY <2>1, MainAssumption DEF ProgressInv, RowTypes, EventInv
<1>1. ASSUME UNCHANGED <<events, sequence>>,
             \/ run' = run + 1
             \/ run' = run /\ pc' = "idle"
             \/ run' = run /\ pc # "idle" /\ Mode(pc) = "none"
             \/ run' = run /\ pc # "idle" /\ Mode(pc)' # "none" /\ window' = window
             \/ UNCHANGED <<run, pc, window>>
      PROVE  (EventInv /\ EventIdsUnique)'
  <2>1. EventIdsUnique'
    BY <1>1 DEF EventIdsUnique
  <2>2. EventInv'
    BY <1>0, <1>1 DEF EventInv, Mode
  <2> QED
    BY <2>1, <2>2
<1>2. CASE Configure \/ OpenFallback
  <2>1. /\ pc \in {"configure", "fallback"} /\ sequence' = 0 /\ UNCHANGED <<run, events>>
    BY <1>2 DEF Configure, OpenFallback, trace
  <2>2. EventIdsUnique'
    BY <2>1 DEF EventIdsUnique
  <2>3. EventInv'
    BY <1>0, <2>1 DEF EventInv, Mode
  <2> QED
    BY <2>2, <2>3
<1>3. CASE LoopWindow
  <2>1. PICK n \in 0..MaxArrivals :
          /\ events' = events \o WindowEvents("stepped", window + 1, NextArrivals(n))
          /\ sequence' = sequence + n
    BY <1>3 DEF LoopWindow
  <2>2. pc = "loop" /\ pc' = pc /\ run' = run /\ window' = window + 1
    BY <1>3 DEF LoopWindow
  <2>3. n \in Nat /\ sequence' \in Nat /\ Numbered(NextArrivals(n))
    BY <1>0, <2>1, ToolsAreNumbered
  <2> HIDE DEF WindowEvents, NextArrivals, Numbered
  <2>4. /\ events' \in Seq(EventRows) /\ EventIdsUnique'
        /\ \A i \in DOMAIN events' :
             events'[i].run <= run /\ (events'[i].run = run => events'[i].window <= window + 1)
    BY <2>1, <2>2, <2>3, EventsAppended
  <2> QED
    BY <2>2, <2>3, <2>4 DEF EventInv, Mode
<1>4. CASE FallbackWindow
  <2>1. PICK n \in 0..MaxArrivals :
          /\ events' = events \o WindowEvents("fallback", window + 1, Tools(n))
          /\ sequence' = sequence + n
    BY <1>4 DEF FallbackWindow
  <2>2. pc = "windows" /\ pc' = pc /\ run' = run /\ window' = window + 1
    BY <1>4 DEF FallbackWindow
  <2>3. n \in Nat /\ sequence' \in Nat /\ Numbered(Tools(n))
    BY <1>0, <2>1, ToolsAreNumbered
  <2>4. /\ events' \in Seq(EventRows) /\ EventIdsUnique'
        /\ \A i \in DOMAIN events' :
             events'[i].run <= run /\ (events'[i].run = run => events'[i].window <= window + 1)
    BY <2>1, <2>2, <2>3, EventsAppended
  <2> QED
    BY <2>2, <2>3, <2>4 DEF EventInv, Mode
<1>5. CASE FallbackRaises
  <2>1. run' = run /\ sequence' = sequence /\ pc' = "idle"
    BY <1>5 DEF FallbackRaises, End
  <2>2. CASE events' = events
    BY <1>1, <2>1, <2>2
  <2>3. CASE pc = "windows" /\ \E n \in 0..MaxArrivals :
               events' = events \o WindowEvents("fallback", window + 1, Tools(n))
    <3>1. PICK n \in 0..MaxArrivals :
            events' = events \o WindowEvents("fallback", window + 1, Tools(n))
      BY <2>3
    <3>2. n \in Nat /\ Numbered(Tools(n))
      BY <1>0, ToolsAreNumbered
    <3>3. /\ events' \in Seq(EventRows) /\ EventIdsUnique'
          /\ \A i \in DOMAIN events' : events'[i].run <= run
      BY <2>3, <3>1, <3>2, EventsAppended
    <3> QED
      BY <1>0, <2>1, <3>3 DEF EventInv
  <2> QED
    BY <1>5, <2>2, <2>3 DEF FallbackRaises
<1>6. CASE Main \/ SetupRaises \/ CloseSource \/ CloseRaises \/ FallbackDone
  BY <1>1, <1>6 DEF Main, SetupRaises, CloseSource, CloseRaises, FallbackDone, End, trace
<1>7. CASE ImportFails \/ ImportStepper \/ Open \/ NoSource
  <2>1. pc \in Setup /\ UNCHANGED <<run, events, sequence>>
    BY <1>7 DEF ImportFails, ImportStepper, Open, NoSource, Setup, Resources, trace
  <2>2. pc # "idle" /\ Mode(pc) = "none"
    BY <2>1 DEF Setup, Mode
  <2> QED
    BY <1>1, <2>1, <2>2
<1>8. CASE LoopLeft \/ CloseStepper \/ ClosePublisher
  BY <1>1, <1>8 DEF LoopLeft, CloseStepper, ClosePublisher, Mode, trace
<1>9. CASE Tick \/ NewProcess \/ Terminated \/ UNCHANGED vars
  BY <1>1, <1>9 DEF Tick, NewProcess, Terminated, vars, trace
<1> QED
  BY <1>2, <1>3, <1>4, <1>5, <1>6, <1>7, <1>8, <1>9 DEF Next

\* No two events of one call have the same id, however many windows and arrivals.
THEOREM IdsUnique == Spec => []EventIdsUnique
<1>1. Init => Inv /\ TraceInv /\ EventInv /\ EventIdsUnique
  BY InvInit, TraceInit, EventInit
<1>2. Inv /\ TraceInv /\ EventInv /\ EventIdsUnique /\ [Next]_vars
        => (Inv /\ TraceInv /\ EventInv /\ EventIdsUnique)'
  BY InvStep, TraceStep, EventStep DEF Inv, TraceInv
<1> QED
  BY <1>1, <1>2, PTL DEF Spec
=============================================================================
