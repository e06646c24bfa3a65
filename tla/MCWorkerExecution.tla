-------------------------- MODULE MCWorkerExecution --------------------------
(* Instances of WorkerExecution for TLC. *)
EXTENDS WorkerExecution, TLC
CONSTANTS c1, c2, l1, l2
MCControllers == <<c1, c2>>
MCOneController == <<c1>>
MCTools == <<l1, l2>>
MCRunOnly == {"RUN"}
MCBoth == {"RUN", "STOP"}
MCSymmetry == Permutations(Pids)
=============================================================================
