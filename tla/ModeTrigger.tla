----------------------------- MODULE ModeTrigger -----------------------------
(***************************************************************************)
(* HybridModeTrigger, and the caller it waits for (external): one that     *)
(* asks once a window, and may start an experiment anew with the trigger   *)
(* it has.                                                                 *)
(***************************************************************************)
EXTENDS Integers

CONSTANTS CooldownWindows, MaxWindow \* trigger.cooldown_windows; bound: windows

MODES == {"NORMAL", "CONSERVATIVE", "DEGRADED", "EMERGENCY"}
Requests == MODES \cup {"unknown"}

ASSUME CooldownAssumption == CooldownWindows \in Nat   \* __init__ refuses the rest

VARIABLES
  lastRaise,  \* _last_raise_window
  asked,      \* the window of the last call, 0 before the first
  requested, mode,     \* what the scheduler asked for in it, what it got
  raises,     \* history: the windows of this experiment with a raise
  restarted   \* history: the caller's window index has gone back

triggerVars == <<lastRaise, asked, requested, mode, raises, restarted>>

\* -(10**9): far enough back for any cooldown anyone would configure.
NeverRaised == -1000000000

TriggerInit ==
  /\ lastRaise = NeverRaised
  /\ asked = 0 /\ requested = "NORMAL" /\ mode = "NORMAL"
  /\ raises = {} /\ restarted = FALSE

Honoured(request) == IF request \in MODES THEN request ELSE "NORMAL"

CoolingDown_Longer(w) == w - lastRaise <= CooldownWindows
CoolingDown(w) == w - lastRaise < CooldownWindows

Decide(w, raise, request) ==
  /\ lastRaise' = IF raise THEN w ELSE lastRaise
  /\ mode' = IF raise \/ CoolingDown(w) THEN "CONSERVATIVE" ELSE Honoured(request)
  /\ asked' = w /\ requested' = request
  /\ raises' = IF raise THEN raises \cup {w} ELSE raises
  /\ UNCHANGED restarted

NextWindow ==
  /\ asked < MaxWindow
  /\ \E raise \in BOOLEAN, request \in Requests : Decide(asked + 1, raise, request)

Restart ==
  /\ asked > 0
  /\ asked' = 0 /\ raises' = {} /\ restarted' = TRUE
  /\ requested' = "NORMAL" /\ mode' = "NORMAL"
  /\ UNCHANGED lastRaise

TriggerNext == NextWindow \/ Restart

\* A raise keeps the mode CONSERVATIVE for the windows of the cooldown, even when
\* the trigger remembers a raise of an experiment that went further; only such a
\* memory makes it CONSERVATIVE longer than that, and none does after the first
\* raise of the new experiment.
CooldownHolds ==
  asked > 0 =>
    LET cooling == \E r \in raises : asked - r < CooldownWindows \/ r = asked
    IN /\ cooling => mode = "CONSERVATIVE"
       /\ ~cooling /\ (~restarted \/ raises # {}) => mode = Honoured(requested)
=============================================================================
