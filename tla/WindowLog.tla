------------------------------ MODULE WindowLog ------------------------------
(***************************************************************************)
(* What a step-locked experiment promises, with no mention of threads,     *)
(* messages or files: physics advances only on credit, a window is decided *)
(* only when the credit of the previous ones is spent, and the run is over *)
(* once the duration has been simulated, unless it is cut short.  Time is  *)
(* counted in physics steps.                                               *)
(***************************************************************************)
EXTENDS Naturals, Sequences

CONSTANTS NSteps,       \* physics steps granted by one decided window
          DurationSteps \* length of the experiment

VARIABLES now,  \* simulated time
          log,  \* the timestamps of the decided windows, in order
          state \* "running", "finished" or "cut"

vars == <<now, log, state>>

Init == now = 0 /\ log = <<>> /\ state = "running"

Granted == NSteps * Len(log)

Decide ==
  /\ state = "running"
  /\ now = Granted
  /\ now < DurationSteps
  /\ log' = Append(log, now)
  /\ UNCHANGED <<now, state>>

\* Credit once granted may still be spent when the run is over.
Advance ==
  /\ now < Granted
  /\ now' = now + 1
  /\ UNCHANGED <<log, state>>

Finish ==
  /\ state = "running"
  /\ now = Granted
  /\ now >= DurationSteps
  /\ state' = "finished"
  /\ UNCHANGED <<now, log>>

\* It fails or is killed, at the latest while it cleans up.
CutShort ==
  /\ state # "cut"
  /\ state' = "cut"
  /\ UNCHANGED <<now, log>>

Next == Decide \/ Advance \/ Finish \/ CutShort

\* As long as nothing cuts it short the experiment goes on; the credit of one that
\* was cut short may never have reached the simulator.
GoesOn == state = "running" /\ (Decide \/ Advance \/ Finish)

Spec == Init /\ [][Next]_vars /\ WF_vars(GoesOn)
=============================================================================
