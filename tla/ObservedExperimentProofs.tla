----------------------- MODULE ObservedExperimentProofs -----------------------
(***************************************************************************)
(* Theorems about the observed experiment, whatever ends it: the observers *)
(* change nothing, the samples account for what was used, and a report     *)
(* names only windows that were written while it was made.                 *)
(***************************************************************************)
EXTENDS ObservedExperiment, SteppedExperimentProofs, FiniteSetTheorems

-----------------------------------------------------------------------------
(* The observers change nothing of the experiment. *)

\* Sampling, analysing, a record that is half in its file and what the kernel does
\* are steps of the experiment or leave all of it alone.
LEMMA ObservedStep == [ObservedNext]_observedVars => [Next]_vars
BY DEF ObservedNext, observedVars, StampAndSample, Unobserved, LineBegins, LineEnds,
   AnalysisNext, Analyze, ReadFile, ReadFails, Next, Progress

\* The observed run, with timeouts, exceptions, kills and a world that runs free, is
\* a run of the window loop with all of those: whatever the sampler reads or fails
\* to read, and whenever an analysis reads, refuses or fails.  So what is proved of
\* Spec holds of the program that has both observers.
THEOREM ObserversChangeNothing == ObservedSpec => Spec
<1>1. ObservedInit => Init
  BY DEF ObservedInit
<1> QED
  BY <1>1, ObservedStep, PTL DEF ObservedSpec, Spec

-----------------------------------------------------------------------------
(* The samples account for what was used. *)

\* SamplesAccount bounds what has been charged; a sample adds to it what the
\* counter has grown by, so that this too must still be uncharged.
SampleInv ==
  /\ meter \in {"cpu", "net"} /\ gaps \in BOOLEAN
  /\ counter \in Nat /\ wall \in Nat /\ prev \in Nat /\ prevWall \in Nat
  /\ used \in Nat /\ charged \in Nat
  /\ prevWall <= wall
  /\ charged + Delta <= used
  /\ meter = "cpu" => charged <= prevWall
  /\ meter = "net" /\ ~gaps => charged = prev /\ prev <= counter

LEMMA SampleInvInit == SamplerInit => SampleInv
<1> SUFFICES ASSUME SamplerInit PROVE SampleInv
  OBVIOUS
<1>1. meter \in {"cpu", "net"} /\ gaps \in BOOLEAN
  BY DEF SamplerInit
<1>2. /\ counter \in Nat /\ used = counter /\ wall = 0 /\ prev = 0 /\ prevWall = 0
      /\ charged = 0
  BY DEF SamplerInit
<1> QED
  BY <1>1, <1>2 DEF SampleInv, Delta

\* A read charges at most the delta, and at most the interval to the CPU.
LEMMA ChargeBounded ==
  ASSUME NEW delta \in Nat, NEW interval \in Nat
  PROVE  /\ Charge(delta, interval) \in Nat
         /\ Charge(delta, interval) <= delta
         /\ meter = "cpu" => Charge(delta, interval) <= interval
         /\ meter # "cpu" /\ interval # 0 => Charge(delta, interval) = delta
BY DEF Charge, Less

LEMMA SampleInvRead == SampleInv /\ SampleRead => SampleInv'
<1> SUFFICES ASSUME SampleInv, SampleRead PROVE SampleInv'
  OBVIOUS
<1> DEFINE interval == wall - prevWall
           charge == Charge(Delta, interval)
<1>1. Delta \in Nat /\ interval \in Nat
  BY DEF SampleInv, Delta
<1>2. /\ charge \in Nat /\ charge <= Delta
      /\ meter = "cpu" => charge <= interval
      /\ meter # "cpu" /\ interval # 0 => charge = Delta
  BY <1>1, ChargeBounded
<1>3. /\ charged' = charged + charge /\ prev' = counter /\ prevWall' = wall
      /\ gaps' = (gaps \/ counter < prev \/ wall = prevWall)
      /\ UNCHANGED <<meter, counter, wall, used>>
  BY DEF SampleRead
<1>4. Delta' = 0
  BY <1>3 DEF Delta, SampleInv
<1>5. meter = "cpu" => charged + charge <= wall
  BY <1>2 DEF SampleInv
<1>6. meter = "net" /\ ~gaps' => charged + charge = counter
  <2> SUFFICES ASSUME meter = "net", ~gaps' PROVE charged + charge = counter
    OBVIOUS
  <2>0. ~gaps /\ ~(counter < prev) /\ wall # prevWall
    BY <1>3, Zenon
  <2>1. prev <= counter /\ interval # 0 /\ charged = prev
    BY <2>0 DEF SampleInv
  <2>2. charge = Delta /\ Delta = counter - prev
    BY <1>2, <2>1 DEF Delta, SampleInv
  <2> QED
    BY <2>1, <2>2 DEF SampleInv
<1> HIDE DEF interval, charge
<1> QED
  BY <1>1, <1>2, <1>3, <1>4, <1>5, <1>6 DEF SampleInv

\* Neither a sample that fails nor anything the kernel does breaks the account.
LEMMA SampleInvStep == SampleInv /\ [ObservedNext]_observedVars => SampleInv'
<1> SUFFICES ASSUME SampleInv, [ObservedNext]_observedVars PROVE SampleInv'
  OBVIOUS
<1>1. CASE SampleRead
  BY <1>1, SampleInvRead
<1>2. CASE UNCHANGED samplerVars
  BY <1>2 DEF samplerVars, SampleInv, Delta
<1>3. CASE Kernel_Uses
  BY <1>3 DEF Kernel_Uses, SampleInv, Delta
<1>4. CASE Kernel_Elapses
  BY <1>4 DEF Kernel_Elapses, SampleInv, Delta
<1>5. CASE Kernel_Resets
  BY <1>5 DEF Kernel_Resets, SampleInv, Delta
<1> QED
  BY <1>1, <1>2, <1>3, <1>4, <1>5
  DEF ObservedNext, observedVars, StampAndSample, Sample, SampleFails, KernelNext,
      samplerVars

\* Whatever reads fail, however the counter is reset and the reads are spaced,
\* the samples charge nothing twice and no CPU time that has not passed.
THEOREM SamplesAccounted == ObservedSpec => []SamplesAccount
<1>1. ObservedInit => SampleInv
  BY SampleInvInit DEF ObservedInit
<1>2. SampleInv => SamplesAccount
  BY DEF SampleInv, SamplesAccount, Delta
<1> QED
  BY <1>1, <1>2, SampleInvStep, PTL DEF ObservedSpec

-----------------------------------------------------------------------------
(* A report names only windows that were written while it was made. *)

\* The files an analysis has read when it is at this point.
FilesRead(point) ==
  {k \in {"task_events", "plan", "outcome"} :
     \/ point = "report"
     \/ point = "outcome" /\ k # "outcome"
     \/ point = "plan" /\ k = "task_events"}

\* A file only grows, so that one read later has at least the rows it began with;
\* what it began with was aligned, and so is every file it read by itself.
Readings == {"idle", "refused", "failed", "report", "task_events", "plan", "outcome"}
ReadInv ==
  /\ AlignedInv
  /\ reading \in Readings
  /\ begun \in [Kinds -> Seq(Row)] /\ seen \in [Kinds -> Seq(Row)]
  /\ \A k \in Kinds : Len(begun[k]) <= Windows(k) /\ Len(seen[k]) <= Windows(k)
  /\ \A k \in Kinds : \A n \in 1 .. Len(seen[k]) : seen[k][n].window = n
  /\ Len(begun["plan"]) <= Len(begun["task_events"])
  /\ Len(begun["outcome"]) <= Len(begun["plan"])
  /\ \A k \in FilesRead(reading) : Len(begun[k]) <= Len(seen[k])

LEMMA ReadInvInit == ObservedInit => ReadInv
<1> SUFFICES ASSUME ObservedInit PROVE ReadInv
  OBVIOUS
<1>1. AlignedInv /\ TypeOK
  BY AlignedInvInit DEF ObservedInit, AlignedInv
<1>2. \A k \in Kinds : /\ begun[k] = <<>> /\ seen[k] = <<>>
                       /\ Len(begun[k]) = 0 /\ Len(seen[k]) = 0
  BY DEF ObservedInit, AnalysisInit
<1>3. begun \in [Kinds -> Seq(Row)] /\ seen \in [Kinds -> Seq(Row)] /\ reading = "idle"
  BY DEF ObservedInit, AnalysisInit
<1>4. \A k \in Kinds : Windows(k) \in Nat
  BY <1>1, WindowsIsNat
<1>5. FilesRead(reading) = {}
  BY <1>3 DEF FilesRead
<1> QED
  BY <1>1, <1>2, <1>3, <1>4, <1>5 DEF ReadInv, Readings, Kinds

\* No step of the experiment shortens a file.
LEMMA FilesGrow ==
  TypeOK /\ [Next]_vars => \A k \in Kinds : Windows(k) <= Windows(k)'
<1> SUFFICES ASSUME TypeOK, [Next]_vars, NEW k \in Kinds PROVE Windows(k) <= Windows(k)'
  OBVIOUS
<1>0. Windows(k) \in Nat
  BY WindowsIsNat
<1>1. ASSUME NEW l \in Kinds, Write(l) PROVE Windows(k) <= Windows(k)'
  BY <1>0, <1>1, WriteGrows
<1>2. CASE trace' = trace
  BY <1>0, <1>2 DEF Windows
<1> QED
  BY <1>1, <1>2 DEF Next, Progress, Terminated, CheckTime, Stamp, ExecuteWindow, StepRequest,
     StepDone, StepTimeout, Raise, Close, Killed, OnStats, ExecuteStep, FreeRun, vars, loopVars

\* The order of the three files in which a window goes through them.
LEMMA FlowOrder ==
  AlignedTrace => /\ Windows("plan") <= Windows("task_events")
                  /\ Windows("outcome") <= Windows("plan")
<1>1. Order[1] = "task_events" /\ Order[3] = "plan" /\ Order[4] = "outcome"
  BY DEF Order
<1> QED
  BY <1>1 DEF AlignedTrace

LEMMA ReadInvAnalyze == ReadInv /\ Analyze => ReadInv'
<1> SUFFICES ASSUME ReadInv, Analyze PROVE ReadInv'
  OBVIOUS
<1>0. AlignedInv /\ AlignedInv' /\ TypeOK
  BY AlignedInvStep DEF ReadInv, AlignedInv, Analyze
<1>1. trace \in [Kinds -> Seq(Row)] /\ trace' = trace /\ \A k \in Kinds : Windows(k)' = Windows(k)
  BY <1>0 DEF TypeOK, vars, loopVars, Windows, Analyze
<1>2. seen' = [k \in Kinds |-> <<>>] /\ FilesRead(reading') = {}
  BY DEF Analyze, FilesRead
<1>3. \A k \in Kinds : Len(seen'[k]) = 0 /\ seen'[k] \in Seq(Row) /\ Len(seen'[k]) <= Windows(k)'
  BY <1>0, <1>1, <1>2, WindowsIsNat
<1>4. CASE begun' = trace
  <2>1. \A k \in Kinds : Len(begun'[k]) = Windows(k) /\ Windows(k) <= Windows(k)'
    BY <1>0, <1>1, <1>4, WindowsIsNat DEF Windows
  <2>2. "task_events" \in Kinds /\ "plan" \in Kinds /\ "outcome" \in Kinds
    BY DEF Kinds
  <2>3. /\ Len(begun'["plan"]) <= Len(begun'["task_events"])
        /\ Len(begun'["outcome"]) <= Len(begun'["plan"])
    BY <1>0, <2>1, <2>2, FlowOrder DEF AlignedInv
  <2>4. reading' \in Readings
    BY DEF Analyze, Readings
  <2>5. seen' \in [Kinds -> Seq(Row)] /\ \A k \in Kinds : 1 .. Len(seen'[k]) = {}
    BY <1>2, <1>3
  <2> QED
    BY <1>0, <1>1, <1>2, <1>3, <1>4, <2>1, <2>3, <2>4, <2>5 DEF ReadInv
<1>5. CASE begun' = begun
  <2>1. reading' \in Readings
    BY DEF Analyze, Readings
  <2>2. seen' \in [Kinds -> Seq(Row)] /\ \A k \in Kinds : 1 .. Len(seen'[k]) = {}
    BY <1>2, <1>3
  <2> QED
    BY <1>0, <1>1, <1>2, <1>3, <1>5, <2>1, <2>2 DEF ReadInv
<1> QED
  BY <1>4, <1>5 DEF Analyze

LEMMA ReadInvReadFile == ReadInv /\ ReadFile => ReadInv'
<1> SUFFICES ASSUME ReadInv, ReadFile PROVE ReadInv'
  OBVIOUS
<1>0. AlignedInv /\ AlignedInv' /\ TypeOK
  BY AlignedInvStep DEF ReadInv, AlignedInv, ReadFile
<1>1. trace \in [Kinds -> Seq(Row)] /\ \A k \in Kinds : Windows(k)' = Windows(k)
  BY <1>0 DEF TypeOK, vars, loopVars, Windows, ReadFile
<1>2. reading \in Kinds /\ begun' = begun /\ seen' = [seen EXCEPT ![reading] = trace[reading]]
  BY DEF ReadFile, Kinds
<1>3. /\ seen'[reading] = trace[reading]
      /\ \A k \in Kinds \ {reading} : seen'[k] = seen[k]
      /\ seen' \in [Kinds -> Seq(Row)]
  BY <1>1, <1>2 DEF ReadInv
<1>4. Len(begun[reading]) <= Len(seen'[reading])
  BY <1>2, <1>3 DEF ReadInv, Windows
<1>5. FilesRead(reading') = FilesRead(reading) \cup {reading}
  BY DEF ReadFile, AfterFile, FilesRead
<1>6. \A k \in FilesRead(reading') : Len(begun'[k]) <= Len(seen'[k])
  <2> SUFFICES ASSUME NEW k \in FilesRead(reading') PROVE Len(begun'[k]) <= Len(seen'[k])
    OBVIOUS
  <2>1. CASE k = reading
    BY <1>2, <1>4, <2>1
  <2>2. CASE k # reading
    <3>1. k \in FilesRead(reading) /\ k \in Kinds
      BY <1>5, <2>2 DEF FilesRead, Kinds
    <3> QED
      BY <1>2, <1>3, <2>2, <3>1 DEF ReadInv
  <2> QED
    BY <2>1, <2>2
<1>7. \A k \in Kinds : \A n \in 1 .. Len(seen'[k]) : seen'[k][n].window = n
  BY <1>0, <1>2, <1>3 DEF ReadInv, AlignedInv, AlignedTrace, Windows
<1>8. \A k \in Kinds : Len(begun'[k]) <= Windows(k)' /\ Len(seen'[k]) <= Windows(k)'
  BY <1>0, <1>1, <1>2, <1>3, WindowsIsNat DEF ReadInv, Windows
<1>9. reading' \in Readings
  BY DEF ReadFile, AfterFile, Readings
<1> QED
  BY <1>0, <1>1, <1>2, <1>3, <1>6, <1>7, <1>8, <1>9 DEF ReadInv

\* Every step of the observed experiment keeps it.
LEMMA ReadInvStep == ReadInv /\ [ObservedNext]_observedVars => ReadInv'
<1> SUFFICES ASSUME ReadInv, [ObservedNext]_observedVars PROVE ReadInv'
  OBVIOUS
<1>1. CASE UNCHANGED analysisVars
  <2>1. AlignedInv /\ AlignedInv' /\ TypeOK
    BY ObservedStep, AlignedInvStep DEF ReadInv, AlignedInv
  <2>2. \A k \in Kinds : Windows(k) <= Windows(k)' /\ Windows(k) \in Nat /\ Windows(k)' \in Nat
    BY <2>1, ObservedStep, FilesGrow, WindowsIsNat DEF AlignedInv, TypeOK, Windows
  <2>3. \A k \in Kinds : /\ Len(begun[k]) \in Nat /\ Len(begun[k]) <= Windows(k)
                         /\ Len(seen[k]) \in Nat /\ Len(seen[k]) <= Windows(k)
    BY DEF ReadInv
  <2>4. \A k \in Kinds : Len(begun[k]) <= Windows(k)' /\ Len(seen[k]) <= Windows(k)'
    BY <2>2, <2>3
  <2> QED
    BY <1>1, <2>1, <2>4 DEF ReadInv, analysisVars
<1>2. CASE ReadFails
  <2>1. reading' = "failed" /\ UNCHANGED <<begun, seen, trace>>
    BY <1>2 DEF ReadFails, vars, loopVars
  <2>2. AlignedInv' /\ FilesRead(reading') = {} /\ reading' \in Readings
    BY <1>2, <2>1, AlignedInvStep DEF ReadFails, ReadInv, FilesRead, Readings
  <2> QED
    BY <2>1, <2>2 DEF ReadInv, Windows
<1>3. CASE Analyze \/ ReadFile
  BY <1>3, ReadInvAnalyze, ReadInvReadFile
<1> QED
  BY <1>1, <1>2, <1>3
  DEF ObservedNext, observedVars, StampAndSample, LineBegins, LineEnds, AnalysisNext

\* A file contributes one row to each of the windows it holds.
LEMMA FlowOfFile ==
  ASSUME ReadInv, NEW k \in Kinds, NEW w
  PROVE  Flow(k, w) = IF w \in 1 .. Len(seen[k]) THEN 1 ELSE 0
<1> DEFINE rows == {n \in 1 .. Len(seen[k]) : seen[k][n].window = w}
<1>1. rows = IF w \in 1 .. Len(seen[k]) THEN {w} ELSE {}
  BY DEF ReadInv
<1> QED
  BY <1>1, FS_Singleton, FS_EmptySet DEF Flow

\* The two comparisons _find_anomalies makes, of a stage and the next.
LEMMA AnomalyIsNew ==
  ASSUME ReadInv, NEW k \in Kinds, NEW l \in Kinds,
         Len(begun[k]) <= Len(seen[k]), Len(begun[l]) <= Len(begun[k]),
         NEW w \in Anomalies(k, l)
  PROVE  w \in Len(begun[l]) + 1 .. Windows(l)
<1>1. w \notin 1 .. Len(seen[k]) /\ w \in 1 .. Len(seen[l])
  BY FlowOfFile DEF Anomalies
<1>2. Len(seen[k]) \in Nat /\ Len(seen[l]) \in Nat /\ Len(begun[k]) \in Nat /\ Len(begun[l]) \in Nat
  BY DEF ReadInv
<1>3. Windows(l) \in Nat /\ Len(seen[l]) <= Windows(l)
  BY WindowsIsNat DEF ReadInv, AlignedInv
<1> QED
  BY <1>1, <1>2, <1>3

\* The report on a trace that is being written names, for a stage that counts
\* more than the one before it, only windows whose row came between the start of
\* the analysis and the end of it.  A trace nobody writes any more has none, although
\* the run may have raised between two writes or been killed within one: then the
\* tool reports nothing or stops at the torn line.
THEOREM AnomaliesNeedRace == ObservedSpec => []AnomalyNeedsRace
<1>1. ReadInv => AnomalyNeedsRace
  <2> SUFFICES ASSUME ReadInv, reading = "report",
                      NEW stage \in {<<"task_events", "plan">>, <<"plan", "outcome">>},
                      NEW w \in Anomalies(stage[1], stage[2])
               PROVE  w \in Len(begun[stage[2]]) + 1 .. Windows(stage[2])
    BY DEF AnomalyNeedsRace
  <2>1. "task_events" \in Kinds /\ "plan" \in Kinds /\ "outcome" \in Kinds
    BY DEF Kinds
  <2>2. \A k \in {"task_events", "plan", "outcome"} : Len(begun[k]) <= Len(seen[k])
    BY DEF ReadInv, FilesRead
  <2>3. /\ Len(begun["plan"]) <= Len(begun["task_events"])
        /\ Len(begun["outcome"]) <= Len(begun["plan"])
    BY DEF ReadInv
  <2>4. CASE stage = <<"task_events", "plan">>
    BY <2>1, <2>2, <2>3, <2>4, AnomalyIsNew
  <2>5. CASE stage = <<"plan", "outcome">>
    BY <2>1, <2>2, <2>3, <2>5, AnomalyIsNew
  <2> QED
    BY <2>4, <2>5
<1> QED
  BY <1>1, ReadInvInit, ReadInvStep, PTL DEF ObservedSpec
=============================================================================
