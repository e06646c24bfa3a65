----------------------------- MODULE ControlPlane -----------------------------
(***************************************************************************)
(* The parts of the control plane that are built and not yet wired to each *)
(* other: the API objects with their callers, the demonstration run of the *)
(* scheduler, and the mode trigger.  They share nothing, so a behaviour is *)
(* one of `part`.                                                          *)
(***************************************************************************)
EXTENDS SimpleScheduler, ModeTrigger

VARIABLE part

planeVars == <<vars, demoVars, triggerVars, part>>

PlaneInit ==
  /\ Init /\ DemoInit /\ TriggerInit
  /\ part \in {"api", "demo", "trigger"}
  /\ part # "demo" => quota = CHOOSE q \in [Nodes -> QuotaDefaults] : TRUE

PlaneNext ==
  /\ UNCHANGED part
  /\ \/ part = "api" /\ Next /\ UNCHANGED <<demoVars, triggerVars>>
     \/ part = "demo" /\ DemoNext /\ UNCHANGED <<vars, triggerVars>>
     \/ part = "trigger" /\ TriggerNext /\ UNCHANGED <<vars, demoVars>>

PlaneSpec == PlaneInit /\ [][PlaneNext]_planeVars
=============================================================================
