----------------------------- MODULE ApiPromise -----------------------------
(***************************************************************************)
(* What the scheduler API promises to those who call it, however often and *)
(* in whatever order their calls arrive: what is known of a task only gets *)
(* newer, and what a command id stands for is settled once.                *)
(***************************************************************************)
EXTENDS Naturals

CONSTANTS Tasks, Versions, CommandIds, Meanings, NULL

VARIABLES newest,  \* version known of each task, 0 for none
          settled  \* what each command id stands for, NULL before it is used

vars == <<newest, settled>>

Init == newest = [t \in Tasks |-> 0] /\ settled = [id \in CommandIds |-> NULL]

Learn(t, version) ==
  /\ version > newest[t]
  /\ newest' = [newest EXCEPT ![t] = version]
  /\ UNCHANGED settled

Settle(id, meaning) ==
  /\ settled[id] = NULL
  /\ settled' = [settled EXCEPT ![id] = meaning]
  /\ UNCHANGED newest

Next ==
  \/ \E t \in Tasks, version \in Versions : Learn(t, version)
  \/ \E id \in CommandIds, meaning \in Meanings : Settle(id, meaning)

Spec == Init /\ [][Next]_vars
=============================================================================
