--------------------------- MODULE ControllerCycles ---------------------------
(***************************************************************************)
(* How controller cycles reach the trace.  controller_cycle_metrics_publisher *)
(* follows /clock and publishes one record per controller whenever its wall- *)
(* clock timer fires; the topic keeps the newest messages only; the window  *)
(* loop drains the topic at the start of a window, TopicControllerCycleSource *)
(* keeps the records of later windows, and ControllerCycleAggregator counts  *)
(* the others per controller.  The world is stepped: the simulated clock    *)
(* stands while a window is decided.                                         *)
(***************************************************************************)
EXTENDS Integers, Sequences, FiniteSets, SequencesExt, FiniteSetsExt

CONSTANTS
  Controllers, \* controller_names of the publisher
  KnownControllers, \* those of the aggregator
  Period,      \* period_target_us of the publisher: how long a cycle should take
  WindowLength, \* period_target_us of the loop: window_ms, whatever the publisher's
  StepLength,  \* simulated time one call of step() advances by
  Depth,       \* history depth of the topic
  SpinBudget,  \* spin_once calls of one drain
  MaxFires, MaxWindows, \* bounds
  NULL

ASSUME TimeAssumption ==
  /\ Period \in Nat \ {0} /\ WindowLength \in Nat \ {0} /\ StepLength \in 1 .. WindowLength
  /\ Depth \in Nat \ {0} /\ SpinBudget \in Nat
  /\ IsFiniteSet(Controllers) /\ KnownControllers \subseteq Controllers
  /\ NULL \notin Int

VARIABLES
  clock,             \* Gazebo's simulated time
  phase, ts, window, \* the loop: "drain" or "step", timestamp_us, window number
  lastClock, expected, seq, fires, \* the publisher
  topic,             \* messages the subscription holds, oldest first
  sourced,           \* the loop has a TopicControllerCycleSource
  queue,             \* the source's deque; the order of its records decides nothing
  samples,           \* rows written: per window, controller -> its sample
  counted,           \* history: which record was counted in which window
  lost               \* history: records the topic dropped

publisher == <<lastClock, expected, seq, fires>>
loop      == <<phase, ts, window>>
sink      == <<queue, samples, counted>>
vars      == <<clock, loop, publisher, topic, sourced, sink, lost>>

\* "at" is history: the clock the publisher knew when it published the record.
Record == [name : Controllers, seq : Nat \ {0}, start : Nat, end : Nat,
           lateStart : BOOLEAN, lateFinish : BOOLEAN, at : Nat]

Init ==
  /\ clock = 0 /\ phase = "drain" /\ ts = 0 /\ window = 1
  /\ lastClock = 0 /\ expected = [c \in Controllers |-> NULL]
  /\ seq = [c \in Controllers |-> 0] /\ fires = 0
  /\ sourced \in BOOLEAN /\ topic = <<>> /\ queue = {} /\ samples = <<>> /\ counted = {} /\ lost = {}

-----------------------------------------------------------------------------
(* controller_cycle_metrics_publisher *)

OnClock ==
  /\ \E t \in lastClock + 1 .. clock : lastClock' = t
  /\ UNCHANGED <<clock, loop, expected, seq, fires, topic, sourced, sink, lost>>

ExpectedStart(c) == IF expected[c] = NULL THEN lastClock - Period ELSE expected[c]
\* A controller's cycle begins where it was expected to and ends now, or a
\* period later when the clock has not got there.
CycleEnd(start) == Max({lastClock, start + Period})
NewRecord(c) ==
  LET e == ExpectedStart(c)
      start == Max({0, e})
      end == CycleEnd(start)
  IN  [name |-> c, seq |-> seq[c] + 1, start |-> start, end |-> end,
       lateStart |-> start > e, lateFinish |-> end > e + Period, at |-> lastClock]

\* KEEP_LAST: the oldest messages make room for the newest.
KeepLast(s) == IF Len(s) <= Depth THEN s ELSE SubSeq(s, Len(s) - Depth + 1, Len(s))
Overflow(s) == ToSet(SubSeq(s, 1, Len(s) - Depth))

NextExpected_Now(c) == lastClock
NextExpected(c) == ExpectedStart(c) + Period

PublishCycleMetrics ==
  /\ fires < MaxFires /\ lastClock > 0
  /\ LET sent == topic \o SetToSeq({NewRecord(c) : c \in Controllers})
     IN  topic' = KeepLast(sent) /\ lost' = lost \cup Overflow(sent)
  /\ seq' = [c \in Controllers |-> seq[c] + 1]
  /\ expected' = [c \in Controllers |-> NextExpected(c)]
  /\ fires' = fires + 1
  /\ UNCHANGED <<clock, loop, lastClock, sourced, sink>>

-----------------------------------------------------------------------------
(* TopicControllerCycleSource and ControllerCycleAggregator *)

\* A record of a window already over is late, one of this window is due.
IsLate_OnBoundary(r) == r.end <= ts
IsLate_Unflagged(r) == FALSE
IsLate(r) == r.end < ts
IsReady(r) == r.end < ts + WindowLength

\* _percentile(): the nearest rank, of no values 0.
Rank_Down(n, percent) == (percent * n) \div 100
Rank(n, percent) == (percent * n + 99) \div 100
Length(r) == r.end - r.start
\* sorted(): the rows, shortest period first.
ByLength(rows) ==
  CHOOSE s \in [1 .. Cardinality(rows) -> rows] :
    IsInjective(s) /\ \A i, j \in DOMAIN s : i < j => Length(s[i]) <= Length(s[j])
Percentile(rows, percent) ==
  LET n == Cardinality(rows)
  IN  IF n = 0 THEN 0 ELSE Length(ByLength(rows)[Max({1, Min({Rank(n, percent), n})})])

\* One controller's row; execution times, which the clock of the machine decides,
\* go the way of the periods.
ControllerSample(rows) ==
  [cycles |-> Cardinality(rows),
   p50 |-> Percentile(rows, 50), p95 |-> Percentile(rows, 95),
   max |-> Max({Length(r) : r \in rows} \cup {0}),
   lateStart |-> Cardinality({r \in rows : r.lateStart}),
   lateFinish |-> Cardinality({r \in rows : r.lateFinish}),
   late |-> Cardinality({r \in rows : IsLate(r)})]

\* A row for every controller the aggregator knows, and for any other it meets.
Sample(ready) ==
  [c \in KnownControllers \cup {r.name : r \in ready} |->
     ControllerSample({r \in ready : r.name = c})]

TopicLeft(n) == SubSeq(topic, n + 1, Len(topic))
QueueLeft_All(arrived) == arrived
QueueLeft(arrived) == {r \in arrived : ~IsReady(r)}

\* At most SpinBudget messages are taken, those that have arrived by then.
DrainWindow ==
  /\ phase = "drain" /\ sourced
  /\ \E n \in 0 .. Min({SpinBudget, Len(topic)}) :
       LET arrived == queue \cup ToSet(SubSeq(topic, 1, n))
           ready   == {r \in arrived : IsReady(r)}
       IN  /\ topic' = TopicLeft(n)
           /\ queue' = QueueLeft(arrived)
           /\ samples' = Append(samples, Sample(ready))
           /\ counted' = counted \cup
                {[rec |-> r, window |-> window, ts |-> ts, late |-> IsLate(r)] : r \in ready}
  /\ phase' = "step"
  /\ UNCHANGED <<clock, ts, window, publisher, sourced, lost>>

\* build_default_controller_cycle_records(): without a source, one perfect cycle
\* for each known controller.
DefaultRecords ==
  {[name |-> c, start |-> ts, end |-> ts + WindowLength,
    lateStart |-> FALSE, lateFinish |-> FALSE] : c \in KnownControllers}

DefaultWindow ==
  /\ phase = "drain" /\ ~sourced
  /\ samples' = Append(samples, Sample(DefaultRecords))
  /\ phase' = "step"
  /\ UNCHANGED <<clock, ts, window, publisher, topic, sourced, queue, counted, lost>>

-----------------------------------------------------------------------------
(* The stepped world and the loop around the drain *)

Tick ==
  /\ phase = "step" /\ clock < ts + StepLength
  /\ clock' = clock + 1
  /\ UNCHANGED <<loop, publisher, topic, sourced, sink, lost>>

OpenWindow ==
  /\ phase = "step" /\ clock = ts + StepLength /\ window < MaxWindows
  /\ phase' = "drain" /\ ts' = clock /\ window' = window + 1
  /\ UNCHANGED <<clock, publisher, topic, sourced, sink, lost>>

Terminated ==
  /\ phase = "step" /\ clock = ts + StepLength /\ window = MaxWindows
  /\ UNCHANGED vars

Next == OnClock \/ PublishCycleMetrics \/ DrainWindow \/ DefaultWindow \/ Tick \/ OpenWindow \/ Terminated

Spec == Init /\ [][Next]_vars

-----------------------------------------------------------------------------
(* Properties *)

TypeOK ==
  /\ clock \in Nat /\ ts \in Nat /\ window \in Nat \ {0} /\ phase \in {"drain", "step"}
  /\ lastClock \in Nat /\ fires \in Nat
  /\ expected \in [Controllers -> Int \cup {NULL}] /\ seq \in [Controllers -> Nat]
  /\ topic \in Seq(Record) /\ Len(topic) <= Depth
  /\ queue \subseteq Record
  /\ \A w \in DOMAIN samples : KnownControllers \subseteq DOMAIN samples[w]
  /\ counted \subseteq [rec : Record, window : Nat, ts : Nat, late : BOOLEAN]
  /\ lost \subseteq Record

\* The sum of the cycle counts of c's rows: of as many places as they count.
Cycles(w, c) == IF c \in DOMAIN samples[w] THEN samples[w][c].cycles ELSE 0
Total(c) == Cardinality(UNION {{w} \X (1 .. Cycles(w, c)) : w \in DOMAIN samples})
Of(records, c) == {r \in records : r.name = c}

\* No cycle is counted twice and none vanishes silently: of every controller's
\* published cycles, each is in one row's cycle_count, or still held by the
\* source or the topic, or was pushed out of a full topic.
CyclesConserved ==
  sourced => \A c \in Controllers :
    Total(c) + Cardinality(Of(queue, c)) + Cardinality({k \in DOMAIN topic : topic[k].name = c})
      + Cardinality(Of(lost, c)) = seq[c]

\* The window a cycle end lies in, counted from the start of the experiment.
WindowOf(end) == end \div StepLength + 1

\* A record is flagged late exactly when the window its end lies in was over
\* before the one that counts it, however long it was under way, and otherwise
\* it is counted in the very window its end lies in.
Attribution ==
  \A e \in counted :
    /\ e.late <=> WindowOf(e.rec.end) < e.window
    /\ ~e.late /\ StepLength = WindowLength => WindowOf(e.rec.end) = e.window

\* Every row describes exactly the cycles its window counted: its percentiles
\* are periods that occurred, the least with so many percent at or below them,
\* its flags are counted once each, late are those of earlier windows, and a row without cycles is all zeros.  A
\* loop without a source reports one perfect cycle per controller instead.
Rows(w, c) == {e.rec : e \in {x \in counted : x.window = w /\ x.rec.name = c}}
Within(rows, length) == Cardinality({r \in rows : Length(r) <= length})
IsPercentile(v, percent, rows) ==
  /\ 100 * Within(rows, v) >= percent * Cardinality(rows)
  /\ 100 * Within(rows, v - 1) < percent * Cardinality(rows)
Describes(s, rows, w) ==
  /\ s.cycles = Cardinality(rows)
  /\ s.late = Cardinality({r \in rows : WindowOf(r.end) < w})
  /\ s.lateStart = Cardinality({r \in rows : r.lateStart})
  /\ s.lateFinish = Cardinality({r \in rows : r.lateFinish})
  /\ IF rows = {} THEN s.p50 = 0 /\ s.p95 = 0 /\ s.max = 0
     ELSE IsPercentile(s.p50, 50, rows) /\ IsPercentile(s.p95, 95, rows)
          /\ IsPercentile(s.max, 100, rows)
RowsDescribeCycles ==
  \A w \in DOMAIN samples :
    IF sourced
      THEN \A c \in DOMAIN samples[w] : Describes(samples[w][c], Rows(w, c), w)
      ELSE \A c \in DOMAIN samples[w] :
             /\ c \in KnownControllers /\ samples[w][c].cycles = 1 /\ samples[w][c].late = 0
             /\ samples[w][c].p50 = WindowLength /\ samples[w][c].max = WindowLength

\* In a stepped world the clock stands while a window is drained, so a cycle
\* measured by the clock inside a window is never counted on time: an on-time
\* record ended on the boundary, or its end was projected ahead of the clock.
OnTimeIsBoundaryOrProjected ==
  \A e \in counted : ~e.late => e.rec.end = e.ts \/ e.rec.end > e.rec.at

\* The cycles of a controller follow each other without gap or overlap of their
\* starts, and none is reported shorter than the period, however irregularly
\* timer and clock fire.
AllRecords == ToSet(topic) \cup queue \cup {e.rec : e \in counted} \cup lost
CyclesEvenlySpaced ==
  \A r, s \in AllRecords :
    /\ r.end - r.start >= Period
    /\ r.name = s.name /\ r.start > 0 /\ s.seq > r.seq =>
         s.start = r.start + Period * (s.seq - r.seq)

\* Observability design: a late record is counted in the window it belongs to.
LateCountedInItsWindow ==
  \A e \in counted : WindowOf(e.rec.end) = e.window
=============================================================================
