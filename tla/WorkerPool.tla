----------------------------- MODULE WorkerPool -----------------------------
(***************************************************************************)
(* What the worker manager promises of the tasks' processes, with no       *)
(* mention of pids, plans or phases: a task gets one worker, once, and     *)
(* after its death no other; a worker is confined before the next one is   *)
(* started, and only a confined one is stopped and resumed.                *)
(***************************************************************************)
CONSTANT Tasks

VARIABLE worker \* of each task: "none", "loose", "running", "stopped" or "gone"

Init == worker = [t \in Tasks |-> "none"]

\* At most one worker is outside the cgroup: the newest.
Start(t) ==
  /\ worker[t] = "none" /\ \A u \in Tasks : worker[u] # "loose"
  /\ worker' = [worker EXCEPT ![t] = "loose"]

Confine(t) == worker[t] = "loose" /\ worker' = [worker EXCEPT ![t] = "running"]

Signal(t, state) ==
  /\ worker[t] \in {"running", "stopped"}
  /\ worker' = [worker EXCEPT ![t] = state]

\* Whenever it likes, for good.
Die(t) ==
  /\ worker[t] \in {"loose", "running", "stopped"}
  /\ worker' = [worker EXCEPT ![t] = "gone"]

Next ==
  \E t \in Tasks :
    \/ Start(t) \/ Confine(t) \/ Die(t)
    \/ \E state \in {"running", "stopped"} : Signal(t, state)

Spec == Init /\ [][Next]_worker
=============================================================================
