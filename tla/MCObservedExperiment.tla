------------------------ MODULE MCObservedExperiment -------------------------
(* Instances of ObservedExperiment for TLC. *)
EXTENDS ObservedExperiment
MCPaused == {FALSE}
MCFresh == {0}

\* Bound: the sampler's counters move only in behaviours where nobody analyses the
\* trace.  The two observers share no variable, and no property reads both.
MCOneObserver == reading = "idle" \/ (wall = 0 /\ used = 0)
MCSpec ==
  ObservedInit /\ [][ObservedNext /\ MCOneObserver']_observedVars /\ Fairness
=============================================================================
