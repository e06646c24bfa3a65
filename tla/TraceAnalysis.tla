---------------------------- MODULE TraceAnalysis ----------------------------
(***************************************************************************)
(* analyze_trace.py: the report on the task flow of one trace, computed    *)
(* from three of its files, which another process may still be writing or  *)
(* may have left in the middle of a line.  A row stands for all the records *)
(* of its window in that file, and is there once the last of them is; of a *)
(* window's events already there before that, none are counted.            *)
(***************************************************************************)
EXTENDS SteppedExperiment, FiniteSets

VARIABLES
  created,  \* the files that exist
  torn,     \* the files whose last line is a part of one
  reading,  \* where analyze_trace() is
  begun,    \* history: the files as they were when the analysis began
  seen      \* what _read_jsonl() returned for each file read so far

fileVars     == <<created, torn>>
analysisVars == <<reading, begun, seen>>

\* TRACE_FILES: the files the tool insists on; controller cycles are not its
\* business.
TraceFiles == Kinds \ {"controller_cycle_samples"}

AnalysisInit ==
  /\ created = {} /\ torn = {} /\ reading = "idle"
  /\ begun = [k \in Kinds |-> <<>>] /\ seen = [k \in Kinds |-> <<>>]

-----------------------------------------------------------------------------
(* TraceSink.write() as another process sees it *)

\* open() has created the file, and the buffer may have been flushed within the
\* record; a loop that raises or is killed here leaves it at that.
LineBegins(k) ==
  /\ pc = k
  /\ created' = created \cup {k} /\ torn' \in {torn, torn \cup {k}}
  /\ UNCHANGED <<vars, analysisVars>>

LineEnds(k) ==
  /\ Write(k)
  /\ created' = created \cup {k} /\ torn' = torn \ {k}
  /\ UNCHANGED analysisVars

-----------------------------------------------------------------------------
(* analyze_trace() *)

Missing == TraceFiles \ created

\* It refuses a directory that lacks a file (main() again later is a new analysis).
Analyze ==
  /\ reading \in {"idle", "refused", "failed", "report"}
  /\ reading' = IF Missing = {} THEN "task_events" ELSE "refused"
  /\ begun' = IF Missing = {} THEN trace ELSE begun
  /\ seen' = [k \in Kinds |-> <<>>]
  /\ UNCHANGED <<vars, fileVars>>

\* _build_task_flow(): the three files are read one after the other.
AfterFile(k) == CASE k = "task_events" -> "plan"
  [] k = "plan" -> "outcome"
  [] k = "outcome" -> "report"

ReadFile ==
  /\ reading \in {"task_events", "plan", "outcome"} \ torn
  /\ seen' = [seen EXCEPT ![reading] = trace[reading]]
  /\ reading' = AfterFile(reading)
  /\ UNCHANGED <<begun, vars, fileVars>>

\* json.loads() of a part of a line raises: no report.
ReadFails ==
  /\ reading \in {"task_events", "plan", "outcome"} \cap torn
  /\ reading' = "failed"
  /\ UNCHANGED <<begun, seen, vars, fileVars>>

AnalysisNext == Analyze \/ ReadFile \/ ReadFails

\* by_window: what a file contributes to a window.
Flow(k, w) == Cardinality({n \in 1 .. Len(seen[k]) : seen[k][n].window = w})
ByWindow == UNION {{seen[k][n].window : n \in 1 .. Len(seen[k])} : k \in Kinds}

\* _find_anomalies(): the windows where a stage counts more than the one before.
Anomalies_Equal(earlier, later) ==
  {w \in ByWindow : Flow(later, w) >= Flow(earlier, w)}
Anomalies(earlier, later) ==
  {w \in ByWindow : Flow(later, w) > Flow(earlier, w)}

\* A window is reported as planned without arrivals, or completed without a
\* plan, only when its row was appended between the start of the analysis and the
\* reading of that file: the report on a trace that was final by then has no
\* anomaly, whether the run completed, raised or was killed between two writes or
\* within one, and a live one has none in the windows it started with.
AnomalyNeedsRace ==
  reading = "report" =>
    \A stage \in {<<"task_events", "plan">>, <<"plan", "outcome">>} :
      Anomalies(stage[1], stage[2])
        \subseteq Len(begun[stage[2]]) + 1 .. Windows(stage[2])
=============================================================================
