--------------------------- MODULE MCSchedulerApi ---------------------------
(* Instances of ControlPlane for TLC. *)
EXTENDS ControlPlane

CONSTANTS critical, elastic, camera, detector, bridge

MCTasks == {critical, elastic}
MCCritical == {critical}
MCNodes == {camera, detector, bridge}
MCCore == {bridge}
MCStates == {"running", "completed"}

Ref(n, activation, priority) == [node |-> n, activation |-> activation, priority |-> priority]

\* A task that needs the detector, and one that could do without either node but
\* then wants the detector fast.
MCRefSets ==
  {{Ref(detector, "required", NULL)},
   {Ref(detector, "optional", "high"), Ref(bridge, "optional", NULL)}}

MCBounds == [n \in MCNodes |-> 1..2]

Command(command, value, form) ==
  [command |-> command, target |-> detector, value |-> value, form |-> form]

\* Starting and stopping a node, a quota sent in two forms, a quota out of bounds.
MCPayloads ==
  {Command("start_node", 0, 0), Command("stop_node", 0, 0),
   Command("set_cpu_quota", 1, 0), Command("set_cpu_quota", 1, 1),
   Command("set_cpu_quota", 3, 0)}

\* fake_nodes.py.
MCNodeSpecs == <<camera, detector, bridge>>
MCDemoSnapshot ==
  [task |-> critical, version |-> 1, state |-> "running", critical |-> TRUE,
   refs |-> {Ref(detector, "required", NULL), Ref(camera, "optional", NULL)}]
=============================================================================
