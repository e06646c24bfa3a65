---------------------------- MODULE SchedulerApi ----------------------------
(***************************************************************************)
(* The scheduler's API objects and whoever calls them.  The task system    *)
(* publishes snapshots of its tasks, which reach ObservationProcessor late,*)
(* twice, out of order or never; merge_node_state says what the accepted   *)
(* ones ask of a node; callers send commands to CommandCoordinator, retry  *)
(* them and use an id again for something else.                            *)
(***************************************************************************)
EXTENDS Naturals, FiniteSets

CONSTANTS
  Tasks, CriticalTasks,
  MaxVersion,         \* bound: newest version the task system publishes
  PublishedStates,    \* task states that occur
  RefSets,            \* sets of node references that occur
  Nodes,
  CoreNodes,          \* nodes with core_always_on
  HighNodes,          \* nodes whose default_priority is high
  QuotaBounds,        \* for each node, the quotas within its bounds
  CommandIds,
  Payloads,           \* commands that callers send
  MaxReplies,         \* bound: different replies callers get
  NULL

TaskState   == {"pending", "running", "completed", "failed", "cancelled"}
NodeRef     == [node : Nodes, activation : {"required", "optional"},
                priority : {"high", "normal", NULL}]
\* `form` is what the canonical JSON of a payload leaves out: the order of keys.
Payload     == [command : {"start_node", "stop_node", "set_cpu_quota"},
                target : Nodes, value : Nat, form : Nat]

ASSUME ApiAssumption ==
  /\ CriticalTasks \subseteq Tasks /\ MaxVersion \in Nat /\ MaxReplies \in Nat
  /\ PublishedStates \subseteq TaskState
  /\ RefSets \subseteq SUBSET NodeRef
  /\ CoreNodes \subseteq Nodes /\ HighNodes \subseteq Nodes
  /\ QuotaBounds \in [Nodes -> SUBSET Nat] /\ Payloads \subseteq Payload

\* A TaskSnapshot refuses a version that is not positive.
TaskSnapshot == [task : Tasks, version : 1..MaxVersion, state : PublishedStates,
                 critical : BOOLEAN, refs : RefSets]

\* What the canonical JSON of a payload keeps, and so what its digest tells apart.
Digest(p) == <<p.command, p.target, p.value>>
Meanings == {Digest(p) : p \in Payloads}

ASSUME NullAssumption == NULL \notin TaskSnapshot \cup Meanings \cup {"CONFLICT"}

VARIABLES
  published, \* snapshots the task system has sent
  delivered, \* history: those that push_task_snapshot was called with
  latest,    \* _latest_versions, 0 where there is no entry
  view,      \* per task, the last accepted snapshot, as its subscriber keeps it
  seen,      \* _seen_payload_digest_by_command_id, NULL where there is no entry
  keys,      \* _result_key_by_command_id
  replies    \* history: what callers were answered

observation == <<published, delivered, latest, view>>
control     == <<seen, keys, replies>>
vars        == <<observation, control>>

Init ==
  /\ published = {} /\ delivered = {}
  /\ latest = [t \in Tasks |-> 0] /\ view = [t \in Tasks |-> NULL]
  /\ seen = [id \in CommandIds |-> NULL] /\ keys = [id \in CommandIds |-> NULL]
  /\ replies = {}

HasEnded(s) == s.state \in {"completed", "failed", "cancelled"}

\* A task system numbers its snapshots upwards and is done with a task once the
\* task is in a terminal state.
Publish(s) ==
  /\ s.critical = (s.task \in CriticalTasks)
  /\ \A p \in published : p.task = s.task => p.version < s.version /\ ~HasEnded(p)
  /\ published' = published \cup {s}
  /\ UNCHANGED <<delivered, latest, view, control>>

-----------------------------------------------------------------------------
(* merge_node_state() *)

IsActive_NotFailed(s) == s.state \notin {"failed", "cancelled"}
IsActive(s) == s.state \in {"pending", "running"}

Requires(s, n) ==
  IsActive(s) /\ \E r \in s.refs : r.node = n /\ r.activation = "required"

\* A reference without a priority of its own has that of the task's criticality.
Raises(s, n) ==
  IsActive(s) /\ \E r \in s.refs :
    r.node = n /\ (r.priority = "high" \/ (r.priority = NULL /\ s.critical))

\* A core node is required whatever the tasks say, and keeps its own priority.
MergeNodeState(n, snapshots) ==
  LET ByTask == IF n \in CoreNodes THEN {} ELSE snapshots
  IN [activation |-> IF n \in CoreNodes \/ \E s \in ByTask : Requires(s, n)
                       THEN "required" ELSE "optional",
      priority   |-> IF n \in HighNodes \/ \E s \in ByTask : Raises(s, n)
                       THEN "high" ELSE "normal"]

-----------------------------------------------------------------------------
(* ObservationProcessor.push_task_snapshot(), for any snapshot ever sent *)

IsStale_Duplicate(s) == s.version = latest[s.task]
IsStale(s) == s.version <= latest[s.task]

PushTaskSnapshot(s) ==
  /\ s \in published
  /\ delivered' = delivered \cup {s}
  /\ IF IsStale(s)
       THEN UNCHANGED <<latest, view>>
       ELSE /\ latest' = [latest EXCEPT ![s.task] = s.version]
            /\ view' = [view EXCEPT ![s.task] = s]
  /\ UNCHANGED <<published, control>>

-----------------------------------------------------------------------------
(* validate_sync_command() and CommandCoordinator.accept() *)

OutOfBounds(p) == p.command = "set_cpu_quota" /\ p.value \notin QuotaBounds[p.target]

Reply(id, p, accepted, key, error) ==
  [id |-> id, payload |-> p, accepted |-> accepted, key |-> key, error |-> error]

Answer(r) == replies' = replies \cup {r} /\ Cardinality(replies') <= MaxReplies

\* The caller validates first; ApiError goes to it and accept() is not called.
Refuse_Registers(id, p) ==
  /\ OutOfBounds(p)
  /\ seen' = [seen EXCEPT ![id] = IF seen[id] = NULL THEN Digest(p) ELSE seen[id]]
  /\ Answer(Reply(id, p, FALSE, NULL, "INVALID_ARG"))
  /\ UNCHANGED <<observation, keys>>
Refuse(id, p) ==
  /\ OutOfBounds(p)
  /\ Answer(Reply(id, p, FALSE, NULL, "INVALID_ARG"))
  /\ UNCHANGED <<observation, seen, keys>>

Register(id, p) ==
  /\ ~OutOfBounds(p) /\ seen[id] = NULL
  /\ seen' = [seen EXCEPT ![id] = Digest(p)]
  /\ keys' = [keys EXCEPT ![id] = Digest(p)]
  /\ Answer(Reply(id, p, TRUE, Digest(p), NULL))
  /\ UNCHANGED observation

Conflict_Replaces(id, p) ==
  /\ ~OutOfBounds(p) /\ seen[id] # NULL /\ seen[id] # Digest(p)
  /\ seen' = [seen EXCEPT ![id] = Digest(p)]
  /\ Answer(Reply(id, p, FALSE, NULL, "CONFLICT"))
  /\ UNCHANGED <<observation, keys>>
Conflict(id, p) ==
  /\ ~OutOfBounds(p) /\ seen[id] # NULL /\ seen[id] # Digest(p)
  /\ Answer(Reply(id, p, FALSE, NULL, "CONFLICT"))
  /\ UNCHANGED <<observation, seen, keys>>

Repeat(id, p) ==
  /\ ~OutOfBounds(p) /\ seen[id] = Digest(p)
  /\ Answer(Reply(id, p, TRUE, keys[id], NULL))
  /\ UNCHANGED <<observation, seen, keys>>

Next ==
  \/ \E s \in TaskSnapshot : Publish(s) \/ PushTaskSnapshot(s)
  \/ \E id \in CommandIds, p \in Payloads :
       Refuse(id, p) \/ Register(id, p) \/ Conflict(id, p) \/ Repeat(id, p)

Spec == Init /\ [][Next]_vars

-----------------------------------------------------------------------------
(* Properties *)

TypeOK ==
  /\ published \subseteq TaskSnapshot /\ delivered \subseteq published
  /\ latest \in [Tasks -> 0..MaxVersion]
  /\ view \in [Tasks -> TaskSnapshot \cup {NULL}]
  /\ seen \in [CommandIds -> Meanings \cup {NULL}] /\ keys = seen
  /\ \A r \in replies : r.id \in CommandIds /\ r.payload \in Payloads

\* What the merge says of a node is what the newest delivered snapshots say, in
\* whatever order and however often they came: a node is kept for a task only
\* while nothing newer has told that the task needs it no more, and no task that
\* needs it is forgotten.
Newest == {s \in delivered : \A d \in delivered : d.task = s.task => d.version <= s.version}
View == {view[t] : t \in {u \in Tasks : view[u] # NULL}}
EffectiveIsNewest == \A n \in Nodes : MergeNodeState(n, View) = MergeNodeState(n, Newest)

\* A task that is known to have ended never holds a node again, whatever late
\* snapshots of it still arrive.
EndedTasksHoldNothing ==
  \A d \in delivered : HasEnded(d) =>
    \A n \in Nodes : ~Requires(view[d.task], n) /\ ~Raises(view[d.task], n)

\* A command sent again gets the answer it got before, and an id that stands for
\* one command is never accepted for another.
OneAnswerPerCommand ==
  \A r, q \in replies : r.id = q.id =>
    /\ Digest(r.payload) = Digest(q.payload) =>
         r.accepted = q.accepted /\ r.key = q.key /\ r.error = q.error
    /\ r.accepted /\ q.accepted => Digest(r.payload) = Digest(q.payload)

\* A conflict is always with a command that was accepted: nothing that was
\* refused uses up its id.
ConflictIsJustified ==
  \A r \in replies : r.error = "CONFLICT" =>
    \E q \in replies : q.id = r.id /\ q.accepted /\ Digest(q.payload) # Digest(r.payload)

\* The API keeps its promise.
Promise == INSTANCE ApiPromise WITH Versions <- 1..MaxVersion, newest <- latest, settled <- seen
ImplementsPromise == Promise!Spec
=============================================================================
