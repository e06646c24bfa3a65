-------------------------- MODULE ObservedExperiment -------------------------
(***************************************************************************)
(* The window loop with its two observers: the resource sampler it calls   *)
(* once a window, and a trace analysis that another process may start at   *)
(* any moment of the run and after it.                                     *)
(***************************************************************************)
EXTENDS TraceAnalysis, ResourceSampler

observedVars == <<vars, fileVars, analysisVars, samplerVars>>

ObservedInit == Init /\ AnalysisInit /\ SamplerInit

\* raw_sample = self._sampler.sample() right after the timestamp is taken.
StampAndSample == Stamp /\ Sample

\* Everything else the loop, Gazebo and its transport thread do.
Unobserved ==
  \/ CheckTime \/ ExecuteWindow \/ StepRequest \/ StepDone \/ StepTimeout
  \/ Raise \/ Close \/ Killed
  \/ OnStats \/ ExecuteStep \/ FreeRun \/ Terminated

ObservedNext ==
  \/ StampAndSample /\ UNCHANGED <<fileVars, analysisVars>>
  \/ Unobserved /\ UNCHANGED <<fileVars, analysisVars, samplerVars>>
  \/ (\E k \in Kinds : LineBegins(k) \/ LineEnds(k)) /\ UNCHANGED samplerVars
  \/ AnalysisNext /\ UNCHANGED samplerVars
  \/ pc # "closed" /\ KernelNext /\ UNCHANGED <<vars, fileVars, analysisVars>>

ObservedSpec == ObservedInit /\ [][ObservedNext]_observedVars /\ Fairness
=============================================================================
