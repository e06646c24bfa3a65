--------------------------- MODULE SimpleScheduler ---------------------------
(***************************************************************************)
(* run_mvp_once(): one window of the control plane with a coordinator of   *)
(* its own.  It merges one task's snapshot for each node, sends the node a *)
(* start or stop command and its quota, then probes the coordinator with   *)
(* two different commands under one id, and writes a result file.          *)
(***************************************************************************)
EXTENDS SchedulerApi, Sequences

CONSTANTS
  NodeSpecs,      \* build_fake_node_specs(): the nodes in order
  QuotaDefaults,  \* default quotas a NodeSpec may carry; nothing checks them
  ProbeNode,      \* object_detector
  DemoSnapshot    \* build_demo_task_snapshot()

\* The nodes of the registry, each once.
ASSUME DemoAssumption ==
  /\ NodeSpecs \in Seq(Nodes)
  /\ \A i, j \in 1..Len(NodeSpecs) : NodeSpecs[i] = NodeSpecs[j] => i = j
  /\ \A n \in Nodes : \E i \in 1..Len(NodeSpecs) : NodeSpecs[i] = n
  /\ ProbeNode \in Nodes /\ QuotaDefaults \subseteq Nat
  /\ NULL \notin {"start_node", "stop_node", "set_cpu_quota"} \X Nodes \X Nat

VARIABLES
  quota,        \* node -> its default quota
  call,         \* the coordinator call that comes next
  demoSeen, demoKeys, demoReplies, \* the coordinator's tables, the answers
  result        \* "none", "written", or "raised" by ApiError

coordinator == <<demoSeen, demoKeys, demoReplies>>
demoVars    == <<quota, call, coordinator, result>>

DemoIds == (Nodes \X {"start_node", "stop_node", "set-cpu"}) \cup {<<ProbeNode, "probe">>}

Coordinator == INSTANCE SchedulerApi WITH
  CommandIds <- DemoIds, MaxReplies <- Cardinality(DemoIds),
  seen <- demoSeen, keys <- demoKeys, replies <- demoReplies

DemoInit ==
  /\ quota \in [Nodes -> QuotaDefaults]
  /\ call = 1 /\ result = "none"
  /\ demoSeen = [id \in DemoIds |-> NULL] /\ demoKeys = [id \in DemoIds |-> NULL]
  /\ demoReplies = {}

Lifecycle(n) ==
  IF MergeNodeState(n, {DemoSnapshot}).activation = "required" THEN "start_node" ELSE "stop_node"

ToNode(command, n, value) == [command |-> command, target |-> n, value |-> value, form |-> 0]

\* f"cmd-{node_id}-set-cpu"
QuotaId_NodeOnly(n) == <<n, Lifecycle(n)>>
QuotaId(n) == <<n, "set-cpu">>

NodeCalls(n) ==
  << [id |-> <<n, Lifecycle(n)>>, payload |-> ToNode(Lifecycle(n), n, 0)],
     [id |-> QuotaId(n), payload |-> ToNode("set_cpu_quota", n, quota[n])] >>

Probes ==
  << [id |-> <<ProbeNode, "probe">>, payload |-> ToNode("start_node", ProbeNode, 0)],
     [id |-> <<ProbeNode, "probe">>, payload |-> ToNode("stop_node", ProbeNode, 0)] >>

Calls == [i \in 1..(2 * Len(NodeSpecs) + 2) |->
            IF i <= 2 * Len(NodeSpecs)
              THEN NodeCalls(NodeSpecs[(i + 1) \div 2])[IF i % 2 = 1 THEN 1 ELSE 2]
              ELSE Probes[i - 2 * Len(NodeSpecs)]]

Accept ==
  /\ result = "none" /\ call <= Len(Calls)
  /\ LET id == Calls[call].id
         p == Calls[call].payload
     IN Coordinator!Register(id, p) \/ Coordinator!Conflict(id, p) \/ Coordinator!Repeat(id, p)
  /\ call' = call + 1
  /\ UNCHANGED <<quota, result>>

\* validate_sync_command() raises before the quota is sent: the commands accepted
\* so far stand, and there is no file.
Invalid ==
  /\ result = "none" /\ call <= Len(Calls)
  /\ Coordinator!Refuse(Calls[call].id, Calls[call].payload)
  /\ result' = "raised"
  /\ UNCHANGED <<quota, call>>

WriteResult ==
  /\ result = "none" /\ call > Len(Calls)
  /\ result' = "written"
  /\ UNCHANGED <<quota, call, coordinator>>

DemoNext == Accept \/ Invalid \/ WriteResult

\* A result file stands for a coordinator that accepted, for every node, the one
\* lifecycle command its merged state calls for and a quota within its bounds,
\* and that refused nothing but the probe; without a file, an earlier node may
\* have its commands while a later one has none.
ResultIsWhole ==
  result = "written" =>
    /\ \A n \in Nodes : \A command \in {"start_node", "stop_node"} :
         (\E r \in demoReplies : r.id = <<n, command>> /\ r.accepted) <=> command = Lifecycle(n)
    /\ \A n \in Nodes : \E r \in demoReplies :
         r.accepted /\ r.payload.command = "set_cpu_quota" /\ r.payload.target = n
         /\ r.payload.value \in QuotaBounds[n]
    /\ \A r \in demoReplies : ~r.accepted <=> (r.payload = Probes[2].payload /\ r.id[2] = "probe")
=============================================================================
