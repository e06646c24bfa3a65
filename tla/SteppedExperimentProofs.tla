----------------------- MODULE SteppedExperimentProofs -----------------------
(***************************************************************************)
(* Theorems about SteppedExperiment, for every window and physics period,  *)
(* duration, launch mode, number of abandoned waits and failures: how far  *)
(* simulated time and decided windows may part, that the trace files stay  *)
(* aligned and their timestamps in order, and what the nominal experiment, *)
(* a paused world that starts at time 0, implements.                       *)
(***************************************************************************)
EXTENDS SteppedExperiment, SequenceTheorems, TLAPS

\* The quotient window_ms // physics_step_ms is a positive number of steps.
LEMMA NStepsPositive == NSteps \in Nat /\ NSteps >= 1
BY StepAssumption

\* sim_time_us() is a natural number, 0 before the first message.
LEMMA SimTimeIsNat == TypeOK => SimTimeUs \in Nat
BY DEF TypeOK, SimTimeUs

\* The row written for the open window is well formed.
LEMMA TheRowIsRow == TypeOK => TheRow \in Row
BY DEF TypeOK, TheRow, Row

\* Leaving a point of a window leads to a point of the loop.
LEMMA AfterIsPoint ==
  \A p \in Kinds \cup {"stamp", "execute"} : After(p) \in Points
BY DEF After, Points, Kinds

\* Every action keeps the types.
LEMMA TypeOKStep == TypeOK /\ [Next]_vars => TypeOK'
<1> SUFFICES ASSUME TypeOK, [Next]_vars PROVE TypeOK'
  OBVIOUS
<1> USE NStepsPositive
<1>1. CASE CheckTime
  BY <1>1 DEF TypeOK, CheckTime, Points, worldVars, setup
<1>2. CASE Stamp
  BY <1>2, SimTimeIsNat, AfterIsPoint DEF TypeOK, Stamp, worldVars, setup
<1>3. ASSUME NEW k \in Kinds, Write(k) PROVE TypeOK'
  <2>1. After(pc) \in Points
    BY <1>3, AfterIsPoint DEF Write
  <2>2. Append(trace[k], TheRow) \in Seq(Row)
    BY TheRowIsRow DEF TypeOK
  <2>3. trace' \in [Kinds -> Seq(Row)]
    BY <1>3, <2>2 DEF Write, TypeOK
  <2> QED
    BY <1>3, <2>1, <2>3 DEF TypeOK, Write, worldVars, setup
<1>4. CASE ExecuteWindow
  BY <1>4, AfterIsPoint DEF TypeOK, ExecuteWindow, worldVars, setup
<1>5. CASE StepRequest
  BY <1>5, SimTimeIsNat DEF TypeOK, StepRequest, StepTarget, Points, setup
<1>6. CASE StepDone
  BY <1>6 DEF TypeOK, StepDone, Points, worldVars, setup
<1>7. CASE Close
  BY <1>7 DEF TypeOK, Close, Points, worldVars, setup
<1>8. CASE StepTimeout
  BY <1>8 DEF TypeOK, StepTimeout, Points, worldVars, setup
<1>9. CASE Raise
  BY <1>9 DEF TypeOK, Raise, Points, worldVars, setup
<1>10. CASE Killed
  BY <1>10 DEF TypeOK, Killed, Points, worldVars, setup
<1>11. CASE OnStats
  <2>1. PICK t \in (IF latest = NULL THEN origin ELSE latest + 1) .. simTime : latest' = t
    BY <1>11 DEF OnStats
  <2>2. latest' \in Nat
    BY <2>1 DEF TypeOK
  <2> QED
    BY <1>11, <2>2 DEF TypeOK, OnStats, loopVars, worldVars, setup
<1>12. CASE ExecuteStep
  BY <1>12 DEF TypeOK, ExecuteStep, loopVars, setup
<1>13. CASE FreeRun
  BY <1>13 DEF TypeOK, FreeRun, loopVars, setup
<1>14. CASE UNCHANGED vars
  BY <1>14 DEF TypeOK, vars, loopVars, worldVars, setup
<1> QED
  BY <1>1, <1>2, <1>3, <1>4, <1>5, <1>6, <1>7, <1>8, <1>9, <1>10, <1>11, <1>12,
     <1>13, <1>14 DEF Next, Progress, Terminated

\* The files start empty and every variable starts in its type.
LEMMA TypeOKInit == Init => TypeOK
BY RunAssumption DEF Init, TypeOK, Points

\* Type correctness of the loop, the stepper and the trace files.
THEOREM TypeCorrect == Spec => []TypeOK
<1> QED BY TypeOKInit, TypeOKStep, PTL DEF Spec

-----------------------------------------------------------------------------
(* A paused world moves only on steps that a completed window paid for. *)

\* The points between the write of the outcome and the request of its steps:
\* there the newest outcome has not been spent yet.
Unspent == {"resource_samples", "controller_cycle_samples", "request"}

Debt == simTime + pending
Credit == origin + NSteps * Windows("outcome")

\* AdvanceNeedsPlan says nothing of where the loop is; to be preserved by
\* StepRequest it needs a whole step of credit left at the points before it.
AdvanceInv ==
  /\ TypeOK
  /\ AdvanceNeedsPlan
  /\ ~freeRunning /\ pc \in Unspent => Debt + NSteps <= Credit

LEMMA AdvanceInvInit == Init => AdvanceInv
<1> SUFFICES ASSUME Init PROVE AdvanceInv
  OBVIOUS
<1>1. Windows("outcome") = 0
  BY DEF Init, Windows, Kinds
<1> QED
  BY <1>1, TypeOKInit, NStepsPositive
  DEF Init, AdvanceInv, AdvanceNeedsPlan, TypeOK, Unspent

\* The number of rows of a file is a natural number.
LEMMA WindowsIsNat == TypeOK => \A k \in Kinds : Windows(k) \in Nat
BY DEF TypeOK, Windows

\* A write adds one row to its file and none to another.
LEMMA WriteGrows ==
  ASSUME TypeOK, NEW k \in Kinds, Write(k), NEW l \in Kinds
  PROVE  Windows(l)' = IF l = k THEN Windows(l) + 1 ELSE Windows(l)
<1>1. trace[k] \in Seq(Row)
  BY DEF TypeOK
<1>2. Len(Append(trace[k], TheRow)) = Len(trace[k]) + 1
  BY <1>1, TheRowIsRow
<1> QED
  BY <1>2 DEF Write, Windows, TypeOK

\* No action lets a paused world run ahead of the windows that paid for it.
LEMMA AdvanceInvStep == AdvanceInv /\ [Next]_vars => AdvanceInv'
<1> SUFFICES ASSUME AdvanceInv, [Next]_vars PROVE AdvanceInv'
  OBVIOUS
<1>0. TypeOK /\ TypeOK'
  BY TypeOKStep DEF AdvanceInv
<1> DEFINE n == Windows("outcome")
<1>a. n \in Nat /\ NSteps \in Nat /\ simTime \in Nat /\ pending \in Nat /\ origin \in Nat
  BY <1>0, WindowsIsNat, NStepsPositive DEF TypeOK, Kinds
<1>b. NSteps * (n + 1) = NSteps * n + NSteps
  BY <1>a
<1>c. ASSUME UNCHANGED <<trace, worldVars, setup>>, pc' \in Unspent => pc \in Unspent
      PROVE AdvanceInv'
  BY <1>0, <1>c DEF AdvanceInv, AdvanceNeedsPlan, Windows, Debt, Credit, worldVars, setup
<1>1. CASE CheckTime
  BY <1>1, <1>c DEF CheckTime, Unspent
<1>2. CASE Stamp
  BY <1>2, <1>c DEF Stamp, After, Unspent
<1>3. ASSUME NEW k \in Kinds, Write(k) PROVE AdvanceInv'
  <2>1. CASE k = "outcome"
    <3>1. Windows("outcome")' = n + 1
      BY <1>0, <1>3, <2>1, WriteGrows
    <3>2. UNCHANGED <<simTime, pending, origin, freeRunning>>
      BY <1>3 DEF Write, worldVars, setup
    <3> QED
      BY <1>0, <1>a, <1>b, <3>1, <3>2 DEF AdvanceInv, AdvanceNeedsPlan, Debt, Credit
  <2>2. CASE k # "outcome"
    <3>1. Windows("outcome")' = n
      BY <1>0, <1>3, <2>2, WriteGrows DEF Kinds
    <3>2. UNCHANGED <<simTime, pending, origin, freeRunning>>
      BY <1>3 DEF Write, worldVars, setup
    <3>3. pc' \in Unspent => pc \in Unspent
      BY <1>3, <2>2 DEF Write, After, Unspent, Kinds
    <3> QED
      BY <1>0, <3>1, <3>2, <3>3 DEF AdvanceInv, AdvanceNeedsPlan, Debt, Credit
  <2> QED
    BY <2>1, <2>2
<1>4. CASE ExecuteWindow
  BY <1>4, <1>c DEF ExecuteWindow, After, Unspent
<1>5. CASE StepRequest
  <2>1. pc \in Unspent /\ pc' \notin Unspent
    BY <1>5 DEF StepRequest, Unspent
  <2>2. (Debt' = Debt \/ Debt' = Debt + NSteps) /\ UNCHANGED <<trace, origin, freeRunning>>
    BY <1>5, <1>a DEF StepRequest, Debt, setup
  <2>3. Credit' = Credit
    BY <2>2 DEF Credit, Windows
  <2>4. Debt \in Nat /\ Credit \in Nat
    <3>1. NSteps * n \in Nat
      BY <1>a
    <3> QED
      BY <1>a, <3>1 DEF Debt, Credit
  <2>5. ~freeRunning' => Debt' <= Credit'
    BY <1>a, <2>1, <2>2, <2>3, <2>4 DEF AdvanceInv
  <2> QED
    BY <1>0, <2>1, <2>5 DEF AdvanceInv, AdvanceNeedsPlan, Debt, Credit
<1>6. CASE StepDone
  BY <1>6, <1>c DEF StepDone, Unspent
<1>7. CASE Close
  BY <1>7, <1>c DEF Close, Unspent
<1>8. CASE StepTimeout
  BY <1>8, <1>c DEF StepTimeout, Unspent
<1>9. CASE Raise
  BY <1>9, <1>c DEF Raise, Unspent
<1>10. CASE Killed
  BY <1>10, <1>c DEF Killed, Unspent
<1>11. CASE OnStats
  BY <1>11, <1>c DEF OnStats, loopVars
<1>12. CASE ExecuteStep
  <2>1. Debt' = Debt /\ UNCHANGED <<pc, trace, origin, freeRunning>>
    BY <1>12, <1>a DEF ExecuteStep, Debt, loopVars, setup
  <2> QED
    BY <1>0, <2>1 DEF AdvanceInv, AdvanceNeedsPlan, Debt, Credit, Windows
<1>13. CASE FreeRun
  BY <1>0, <1>13 DEF FreeRun, AdvanceInv, AdvanceNeedsPlan, setup
<1>14. CASE UNCHANGED vars
  BY <1>14, <1>c DEF vars, loopVars
<1> QED
  BY <1>1, <1>2, <1>3, <1>4, <1>5, <1>6, <1>7, <1>8, <1>9, <1>10, <1>11, <1>12,
     <1>13, <1>14 DEF Next, Progress, Terminated

\* Every physics step of a paused world was paid for by a decided window, for
\* every step size and whatever is lost, abandoned, raised or killed.
THEOREM PhysicsNeedsPlan == Spec => []AdvanceNeedsPlan
<1>1. AdvanceInv => AdvanceNeedsPlan
  BY DEF AdvanceInv
<1> QED
  BY <1>1, AdvanceInvInit, AdvanceInvStep, PTL DEF Spec

-----------------------------------------------------------------------------
(* A window is never charged twice against the same simulated time. *)

Seen == SimTimeUs + NSteps * timeouts
Spent == NSteps * windowIdx

\* While step() waits, its target already accounts for the window being paid.
ChargeInv ==
  /\ TypeOK
  /\ WindowNeedsTime
  /\ pc = "poll" => Spent + NSteps <= target + NSteps * timeouts

LEMMA ChargeInvInit == Init => ChargeInv
<1> SUFFICES ASSUME Init PROVE ChargeInv
  OBVIOUS
<1>1. windowIdx = 0 /\ timeouts = 0 /\ SimTimeUs = 0 /\ pc = "check"
  BY DEF Init, SimTimeUs
<1>2. NSteps * windowIdx = 0 /\ NSteps * timeouts = 0
  BY <1>1, NStepsPositive
<1> QED
  BY <1>1, <1>2, TypeOKInit DEF ChargeInv, WindowNeedsTime

\* What the loop reads as the current time never goes back while it is open.
LEMMA SimTimeGrows ==
  TypeOK /\ [Next]_vars /\ pc' # "closed" => SimTimeUs <= SimTimeUs' /\ SimTimeUs' \in Nat
<1> SUFFICES ASSUME TypeOK, [Next]_vars, pc' # "closed"
             PROVE  SimTimeUs <= SimTimeUs' /\ SimTimeUs' \in Nat
  OBVIOUS
<1>1. SimTimeUs \in Nat
  BY SimTimeIsNat
<1>2. CASE OnStats
  <2>1. PICK t \in (IF latest = NULL THEN origin ELSE latest + 1) .. simTime : latest' = t
    BY <1>2 DEF OnStats
  <2>2. t \in Nat /\ t # NULL
    BY <2>1, RunAssumption DEF TypeOK
  <2>3. SimTimeUs' = t
    BY <2>1, <2>2 DEF SimTimeUs
  <2>4. SimTimeUs <= t
    <3>1. CASE latest = NULL
      BY <3>1, <2>2 DEF SimTimeUs
    <3>2. CASE latest # NULL
      BY <3>2, <2>1 DEF SimTimeUs, TypeOK
    <3> QED
      BY <3>1, <3>2
  <2> QED
    BY <2>2, <2>3, <2>4
<1>3. CASE latest' = latest
  BY <1>1, <1>3 DEF SimTimeUs
<1> QED
  BY <1>2, <1>3 DEF Next, Progress, Terminated, CheckTime, Stamp, Write, ExecuteWindow,
     StepRequest, StepDone, StepTimeout, Raise, Close, Killed, ExecuteStep, FreeRun, vars

\* Every step of the loop or of its environment keeps the account.
LEMMA ChargeInvStep == ChargeInv /\ [Next]_vars => ChargeInv'
<1> SUFFICES ASSUME ChargeInv, [Next]_vars PROVE ChargeInv'
  OBVIOUS
<1>0. TypeOK /\ TypeOK'
  BY TypeOKStep DEF ChargeInv
<1>a. /\ windowIdx \in Nat /\ timeouts \in Nat /\ target \in Nat
      /\ NSteps \in Nat /\ SimTimeUs \in Nat
  BY <1>0, NStepsPositive, SimTimeIsNat DEF TypeOK
<1>b. /\ NSteps * (windowIdx + 1) = Spent + NSteps
      /\ NSteps * (timeouts + 1) = NSteps * timeouts + NSteps
      /\ Spent \in Nat /\ NSteps * timeouts \in Nat
  BY <1>a DEF Spent
<1>c. CASE pc' = "closed"
  BY <1>0, <1>c DEF ChargeInv, WindowNeedsTime
<1>d. ASSUME pc' # "closed" PROVE SimTimeUs <= SimTimeUs' /\ SimTimeUs' \in Nat
  BY <1>0, <1>d, SimTimeGrows
<1>e. ASSUME pc # "closed", pc' # "closed", UNCHANGED <<windowIdx, timeouts, target>>,
             pc' = "poll" => pc = "poll"
      PROVE  ChargeInv'
  <2>1. Spent <= SimTimeUs + NSteps * timeouts
    BY <1>e DEF ChargeInv, WindowNeedsTime, Spent
  <2>2. Spent' = Spent /\ (NSteps * timeouts)' = NSteps * timeouts
    BY <1>e DEF Spent
  <2>3. Spent <= SimTimeUs' + NSteps * timeouts
    BY <2>1, <1>a, <1>b, <1>d, <1>e
  <2>4. WindowNeedsTime'
    BY <2>2, <2>3, <1>e DEF WindowNeedsTime, Spent
  <2>5. pc' = "poll" => Spent + NSteps <= target + NSteps * timeouts
    BY <1>e DEF ChargeInv
  <2> QED
    BY <1>0, <1>e, <2>2, <2>4, <2>5 DEF ChargeInv
<1>1. CASE CheckTime
  BY <1>1, <1>e DEF CheckTime
<1>2. CASE Stamp
  BY <1>2, <1>e DEF Stamp, After
<1>3. ASSUME NEW k \in Kinds, Write(k) PROVE ChargeInv'
  BY <1>3, <1>e DEF Write, After, Kinds
<1>4. CASE ExecuteWindow
  BY <1>4, <1>e DEF ExecuteWindow, After
<1>5. CASE StepRequest
  <2>1. target' = SimTimeUs + NSteps /\ UNCHANGED <<windowIdx, timeouts, latest>>
    BY <1>5 DEF StepRequest, StepTarget
  <2>2. Spent <= SimTimeUs + NSteps * timeouts
    BY <1>5 DEF ChargeInv, WindowNeedsTime, Spent, StepRequest
  <2>3. SimTimeUs' = SimTimeUs /\ Spent' = Spent /\ (NSteps * timeouts)' = NSteps * timeouts
    BY <2>1 DEF SimTimeUs, Spent
  <2>4. WindowNeedsTime'
    BY <2>2, <2>3 DEF WindowNeedsTime, Spent
  <2>5. Spent + NSteps <= target' + NSteps * timeouts
    BY <1>a, <1>b, <2>1, <2>2
  <2> QED
    BY <1>0, <2>3, <2>4, <2>5 DEF ChargeInv
<1>6. CASE StepDone
  <2>1. pc = "poll" /\ pc' = "check" /\ SimTimeUs >= target
        /\ windowIdx' = windowIdx + 1 /\ UNCHANGED <<timeouts, latest>>
    BY <1>6 DEF StepDone
  <2>2. Spent + NSteps <= target + NSteps * timeouts
    BY <2>1 DEF ChargeInv
  <2>3. Spent + NSteps <= SimTimeUs + NSteps * timeouts
    BY <2>1, <2>2, <1>a, <1>b
  <2>4. SimTimeUs' = SimTimeUs /\ (NSteps * windowIdx)' = Spent + NSteps
        /\ (NSteps * timeouts)' = NSteps * timeouts
    BY <2>1, <1>b DEF SimTimeUs
  <2> QED
    BY <1>0, <2>1, <2>3, <2>4 DEF ChargeInv, WindowNeedsTime
<1>7. CASE Close
  BY <1>7, <1>c DEF Close
<1>8. CASE StepTimeout
  <2>1. pc = "poll" /\ pc' = "check" /\ timeouts' = timeouts + 1
        /\ windowIdx' = windowIdx + 1 /\ latest' = latest
    BY <1>8 DEF StepTimeout
  <2>2. Spent <= SimTimeUs + NSteps * timeouts
    BY <2>1 DEF ChargeInv, WindowNeedsTime, Spent
  <2>3. SimTimeUs' = SimTimeUs /\ (NSteps * windowIdx)' = Spent + NSteps
        /\ (NSteps * timeouts)' = NSteps * timeouts + NSteps
    BY <2>1, <1>b DEF SimTimeUs
  <2>4. Spent + NSteps <= SimTimeUs + (NSteps * timeouts + NSteps)
    BY <2>2, <1>a, <1>b
  <2> QED
    BY <1>0, <2>1, <2>3, <2>4 DEF ChargeInv, WindowNeedsTime
<1>9. CASE Raise
  BY <1>9, <1>e DEF Raise, Kinds
<1>10. CASE Killed
  BY <1>10, <1>c DEF Killed
<1>11. CASE UNCHANGED loopVars
  BY <1>11, <1>c, <1>e DEF loopVars
<1> QED
  BY <1>1, <1>2, <1>3, <1>4, <1>5, <1>6, <1>7, <1>8, <1>9, <1>10, <1>11
  DEF Next, Progress, Terminated, OnStats, ExecuteStep, FreeRun, vars

\* As long as the loop is open, simulated time covers every window it has counted
\* but those whose wait was abandoned.
THEOREM WindowsCostTime == Spec => []WindowNeedsTime
<1>1. ChargeInv => WindowNeedsTime
  BY DEF ChargeInv
<1> QED
  BY <1>1, ChargeInvInit, ChargeInvStep, PTL DEF Spec

-----------------------------------------------------------------------------
(* The trace files *)

Open == pc \notin {"closing", "closed"}

\* The position in Order of the next file of the open window to be written; past
\* the last one when all of them have been.
Position ==
  CASE pc \in {"check", "stamp", "task_events"} -> 1
    [] pc \in {"execute", "window_observation"} -> 2
    [] pc = "plan" -> 3
    [] pc = "outcome" -> 4
    [] pc = "resource_samples" -> 5
    [] pc = "controller_cycle_samples" -> 6
    [] pc \in {"request", "poll"} -> 7

\* Has the file at this position of Order got the open window's row already?
Has(i) == i < Position

\* AlignedTrace, with what ties the files to the window counter and the row of
\* the open window to its timestamp while the loop is open.
AlignedInv ==
  /\ TypeOK
  /\ AlignedTrace
  /\ Open => \A i \in 1 .. 6 :
       /\ Windows(Order[i]) = IF Has(i) THEN windowIdx + 1 ELSE windowIdx
       /\ Has(i) => trace[Order[i]][windowIdx + 1].ts = timestamp

\* The order names every file.
LEMMA OrderIsKinds ==
  /\ \A i \in 1 .. 6 : Order[i] \in Kinds
  /\ \A k \in Kinds : \E i \in 1 .. 6 : k = Order[i]
  /\ \A i, j \in 1 .. 6 : Order[i] = Order[j] => i = j
<1>1. /\ Order[1] = "task_events" /\ Order[2] = "window_observation" /\ Order[3] = "plan"
      /\ Order[4] = "outcome" /\ Order[5] = "resource_samples"
      /\ Order[6] = "controller_cycle_samples"
  BY DEF Order
<1>2. \A i \in 1 .. 6 : i = 1 \/ i = 2 \/ i = 3 \/ i = 4 \/ i = 5 \/ i = 6
  OBVIOUS
<1> QED
  BY <1>1, <1>2 DEF Kinds

\* A write adds the row of the open window at the end of its file and changes
\* nothing else of any file.
LEMMA WriteRows ==
  ASSUME TypeOK, NEW k \in Kinds, Write(k)
  PROVE  /\ Windows(k)' = Windows(k) + 1
         /\ trace'[k][Windows(k) + 1] = TheRow
         /\ \A n \in 1 .. Windows(k) : trace'[k][n] = trace[k][n]
         /\ \A l \in Kinds \ {k} : trace'[l] = trace[l] /\ Windows(l)' = Windows(l)
<1>1. trace[k] \in Seq(Row) /\ TheRow \in Row
  BY TheRowIsRow DEF TypeOK
<1>2. trace' = [trace EXCEPT ![k] = Append(trace[k], TheRow)]
  BY DEF Write
<1>3. trace'[k] = Append(trace[k], TheRow)
  BY <1>2 DEF TypeOK
<1>4. \A l \in Kinds \ {k} : trace'[l] = trace[l]
  BY <1>2 DEF TypeOK
<1>5. /\ Len(Append(trace[k], TheRow)) = Len(trace[k]) + 1
      /\ Append(trace[k], TheRow)[Len(trace[k]) + 1] = TheRow
      /\ \A n \in 1 .. Len(trace[k]) : Append(trace[k], TheRow)[n] = trace[k][n]
  BY <1>1
<1> QED
  BY <1>3, <1>4, <1>5 DEF Windows

\* The write of a kind happens at its place in the order.
LEMMA WriteAtPosition ==
  ASSUME TypeOK, NEW m \in 1 .. 6, Write(Order[m])
  PROVE  Open /\ Open' /\ Position = m /\ Position' = m + 1
<1>1. /\ Order[1] = "task_events" /\ Order[2] = "window_observation" /\ Order[3] = "plan"
      /\ Order[4] = "outcome" /\ Order[5] = "resource_samples"
      /\ Order[6] = "controller_cycle_samples"
  BY DEF Order
<1>2. pc = Order[m] /\ pc' = After(Order[m])
  BY DEF Write
<1>3. CASE m = 1 BY <1>1, <1>2, <1>3 DEF After, Position, Open
<1>4. CASE m = 2 BY <1>1, <1>2, <1>4 DEF After, Position, Open
<1>5. CASE m = 3 BY <1>1, <1>2, <1>5 DEF After, Position, Open
<1>6. CASE m = 4 BY <1>1, <1>2, <1>6 DEF After, Position, Open
<1>7. CASE m = 5 BY <1>1, <1>2, <1>7 DEF After, Position, Open
<1>8. CASE m = 6 BY <1>1, <1>2, <1>8 DEF After, Position, Open
<1> QED
  BY <1>3, <1>4, <1>5, <1>6, <1>7, <1>8

LEMMA AlignedInvInit == Init => AlignedInv
<1> SUFFICES ASSUME Init PROVE AlignedInv
  OBVIOUS
<1>1. \A k \in Kinds : Windows(k) = 0
  BY DEF Init, Windows
<1>2. Position = 1 /\ windowIdx = 0
  BY DEF Init, Position
<1> QED
  BY <1>1, <1>2, TypeOKInit, OrderIsKinds DEF AlignedInv, AlignedTrace, Has

\* The heart of the proof: the write of one file keeps all six aligned.
LEMMA AlignedWrite ==
  ASSUME AlignedInv, NEW m \in 1 .. 6, Write(Order[m]), TypeOK'
  PROVE  AlignedInv'
<1> DEFINE k == Order[m]
<1>1. k \in Kinds /\ TypeOK
  BY OrderIsKinds DEF AlignedInv
<1>2. Open /\ Open' /\ Position = m /\ Position' = m + 1
  BY <1>1, WriteAtPosition
<1>3. windowIdx \in Nat /\ windowIdx' = windowIdx /\ timestamp' = timestamp
  BY <1>1 DEF TypeOK, Write
<1>4. Windows(k) = windowIdx
  BY <1>2 DEF AlignedInv, Has
<1>5. /\ Windows(k)' = windowIdx + 1
      /\ trace'[k][windowIdx + 1] = [window |-> windowIdx + 1, ts |-> timestamp]
      /\ \A n \in 1 .. windowIdx : trace'[k][n] = trace[k][n]
      /\ \A l \in Kinds \ {k} : trace'[l] = trace[l] /\ Windows(l)' = Windows(l)
  BY <1>1, <1>4, WriteRows DEF TheRow
<1>6. \A i \in 1 .. 6 :
        /\ Windows(Order[i])' = IF i < m + 1 THEN windowIdx + 1 ELSE windowIdx
        /\ i < m + 1 => trace'[Order[i]][windowIdx + 1].ts = timestamp
  <2> SUFFICES ASSUME NEW i \in 1 .. 6
               PROVE  /\ Windows(Order[i])' = IF i < m + 1 THEN windowIdx + 1 ELSE windowIdx
                      /\ i < m + 1 => trace'[Order[i]][windowIdx + 1].ts = timestamp
    OBVIOUS
  <2>1. CASE i = m
    BY <1>5, <2>1
  <2>2. CASE i # m
    <3>1. Order[i] \in Kinds \ {k}
      BY <2>2, OrderIsKinds
    <3>2. i < m + 1 <=> i < m
      BY <2>2
    <3>3. /\ Windows(Order[i]) = IF i < m THEN windowIdx + 1 ELSE windowIdx
          /\ i < m => trace[Order[i]][windowIdx + 1].ts = timestamp
      BY <1>2 DEF AlignedInv, Has
    <3> QED
      BY <1>5, <3>1, <3>2, <3>3
  <2> QED
    BY <2>1, <2>2
<1>7. \A l \in Kinds : \A n \in 1 .. Windows(l)' : trace'[l][n].window = n
  <2> SUFFICES ASSUME NEW l \in Kinds, NEW n \in 1 .. Windows(l)'
               PROVE  trace'[l][n].window = n
    OBVIOUS
  <2>1. CASE l = k /\ n = windowIdx + 1
    BY <1>5, <2>1
  <2>2. CASE l = k /\ n # windowIdx + 1
    <3>1. n \in 1 .. windowIdx
      BY <1>3, <1>5, <2>2
    <3> QED
      BY <1>1, <1>4, <1>5, <2>2, <3>1 DEF AlignedInv, AlignedTrace
  <2>3. CASE l # k
    BY <1>5, <2>3 DEF AlignedInv, AlignedTrace
  <2> QED
    BY <2>1, <2>2, <2>3
<1>8. \A l, o \in Kinds : \A n \in 1 .. Windows(l)' :
        n <= Windows(o)' => trace'[l][n].ts = trace'[o][n].ts
  <2> SUFFICES ASSUME NEW l \in Kinds, NEW o \in Kinds,
                      NEW n \in 1 .. Windows(l)', n <= Windows(o)'
               PROVE  trace'[l][n].ts = trace'[o][n].ts
    OBVIOUS
  <2>1. PICK i \in 1 .. 6 : l = Order[i]
    BY OrderIsKinds
  <2>2. PICK j \in 1 .. 6 : o = Order[j]
    BY OrderIsKinds
  <2>3. CASE n = windowIdx + 1
    <3>1. i < m + 1 /\ j < m + 1
      BY <1>3, <1>6, <2>1, <2>2, <2>3
    <3> QED
      BY <1>6, <2>1, <2>2, <2>3, <3>1
  <2>4. CASE n # windowIdx + 1
    <3>1. n \in 1 .. windowIdx
      BY <1>3, <1>6, <2>1, <2>4
    <3>2. n \in 1 .. Windows(l) /\ n <= Windows(o)
      BY <1>2, <1>3, <2>1, <2>2, <3>1 DEF AlignedInv, Has
    <3>3. trace'[l][n] = trace[l][n] /\ trace'[o][n] = trace[o][n]
      BY <1>5, <3>1
    <3> QED
      BY <3>2, <3>3 DEF AlignedInv, AlignedTrace
  <2> QED
    BY <2>3, <2>4
<1>9. \A i, j \in 1 .. 6 : i < j =>
        Windows(Order[j])' <= Windows(Order[i])' /\ Windows(Order[i])' <= Windows(Order[j])' + 1
  BY <1>3, <1>6
<1>10. AlignedTrace'
  BY <1>7, <1>8, <1>9 DEF AlignedTrace
<1> QED
  BY <1>2, <1>3, <1>6, <1>10 DEF AlignedInv, Has

\* A step that writes no file keeps the files aligned if it moves the window
\* counter, the timestamp and the position consistently.
LEMMA AlignedKeep ==
  ASSUME AlignedInv, TypeOK', trace' = trace,
         Open' => /\ Open
                  /\ \A i \in 1 .. 6 : IF Has(i)' THEN Has(i) /\ windowIdx' = windowIdx
                                                   /\ timestamp' = timestamp
                                      ELSE windowIdx' = IF Has(i) THEN windowIdx + 1
                                                                  ELSE windowIdx
  PROVE  AlignedInv'
<1>1. AlignedTrace'
  BY DEF AlignedInv, AlignedTrace, Windows
<1>2. ASSUME Open', NEW i \in 1 .. 6
      PROVE  /\ Windows(Order[i])' = IF Has(i)' THEN windowIdx' + 1 ELSE windowIdx'
             /\ Has(i)' => trace'[Order[i]][windowIdx' + 1].ts = timestamp'
  <2>1. /\ Windows(Order[i])' = IF Has(i) THEN windowIdx + 1 ELSE windowIdx
        /\ Has(i) => trace[Order[i]][windowIdx + 1].ts = timestamp
    BY <1>2 DEF AlignedInv, Windows
  <2>2. CASE Has(i)'
    BY <1>2, <2>1, <2>2
  <2>3. CASE ~Has(i)'
    BY <1>2, <2>1, <2>3
  <2> QED
    BY <2>2, <2>3
<1> QED
  BY <1>1, <1>2 DEF AlignedInv

\* Every step keeps the files aligned.
LEMMA AlignedInvStep == AlignedInv /\ [Next]_vars => AlignedInv'
<1> SUFFICES ASSUME AlignedInv, [Next]_vars PROVE AlignedInv'
  OBVIOUS
<1>0. TypeOK /\ TypeOK'
  BY TypeOKStep DEF AlignedInv
<1>a. CASE trace' = trace /\ ~Open'
  BY <1>0, <1>a, AlignedKeep
<1>b. ASSUME Open, trace' = trace, windowIdx' = windowIdx,
             Position' = Position, \A i \in 1 .. 6 : Has(i) => timestamp' = timestamp
      PROVE  AlignedInv'
  <2>1. \A i \in 1 .. 6 : Has(i)' <=> Has(i)
    BY <1>b DEF Has
  <2> QED
    BY <1>0, <1>b, <2>1, AlignedKeep
<1>1. CASE CheckTime
  <2>1. CASE pc' = "stamp"
    BY <1>1, <2>1, <1>b DEF CheckTime, Open, Position
  <2>2. CASE pc' = "closing"
    BY <1>1, <2>2, <1>a DEF CheckTime, Open
  <2> QED
    BY <1>1, <2>1, <2>2 DEF CheckTime
<1>2. CASE Stamp
  <2>1. /\ Open /\ trace' = trace /\ windowIdx' = windowIdx
        /\ Position = 1 /\ Position' = 1
    BY <1>2 DEF Stamp, After, Open, Position
  <2>2. \A i \in 1 .. 6 : ~Has(i)
    BY <2>1 DEF Has
  <2> QED
    BY <2>1, <2>2, <1>b
<1>3. ASSUME NEW k \in Kinds, Write(k) PROVE AlignedInv'
  <2>1. PICK m \in 1 .. 6 : k = Order[m]
    BY OrderIsKinds
  <2>2. Write(Order[m])
    BY <1>3, <2>1
  <2> QED
    BY <1>0, <2>2, AlignedWrite
<1>4. CASE ExecuteWindow
  BY <1>4, <1>b DEF ExecuteWindow, After, Open, Position
<1>5. CASE StepRequest
  BY <1>5, <1>b DEF StepRequest, Open, Position
<1>6. CASE StepDone \/ StepTimeout
  <2>1. /\ Open /\ trace' = trace /\ windowIdx' = windowIdx + 1
        /\ Position = 7 /\ Position' = 1
    BY <1>6 DEF StepDone, StepTimeout, Open, Position
  <2>2. \A i \in 1 .. 6 : Has(i) /\ ~Has(i)'
    BY <2>1 DEF Has
  <2> QED
    BY <1>0, <2>1, <2>2, AlignedKeep
<1>7. CASE Close
  BY <1>7, <1>a DEF Close, Open
<1>8. CASE Raise
  BY <1>8, <1>a DEF Raise, Open
<1>9. CASE Killed
  BY <1>9, <1>a DEF Killed, Open
<1>10. CASE UNCHANGED loopVars
  <2>1. CASE Open
    BY <1>10, <2>1, <1>b DEF loopVars, Position
  <2>2. CASE ~Open
    BY <1>10, <2>2, <1>a DEF loopVars, Open
  <2> QED
    BY <2>1, <2>2
<1> QED
  BY <1>1, <1>2, <1>3, <1>4, <1>5, <1>6, <1>7, <1>8, <1>9, <1>10
  DEF Next, Progress, Terminated, OnStats, ExecuteStep, FreeRun, vars

\* The trace contract holds of the files at every moment of every run: one row
\* per window and file, in order, with one timestamp per window, wherever a call
\* raises or the process is killed.
THEOREM TraceAligned == Spec => []AlignedTrace
<1>1. AlignedInv => AlignedTrace
  BY DEF AlignedInv
<1> QED
  BY <1>1, AlignedInvInit, AlignedInvStep, PTL DEF Spec

-----------------------------------------------------------------------------
(* The timestamps of every file never go back. *)

\* TimestampsOrdered is not inductive alone: a new row must not be older than the
\* last one, which the open window's timestamp, read from a clock that only
\* grows, guarantees.
TimesInv ==
  /\ TypeOK
  /\ TimestampsOrdered
  /\ \A k \in Kinds : \A n \in 1 .. Windows(k) : trace[k][n].ts <= timestamp
  /\ pc # "closed" => timestamp <= SimTimeUs

LEMMA TimesInvInit == Init => TimesInv
<1> SUFFICES ASSUME Init PROVE TimesInv
  OBVIOUS
<1>1. \A k \in Kinds : Windows(k) = 0
  BY DEF Init, Windows
<1>2. timestamp = 0 /\ SimTimeUs = 0
  BY DEF Init, SimTimeUs
<1> QED
  BY <1>1, <1>2, TypeOKInit DEF TimesInv, TimestampsOrdered

\* The write of a file adds a row as young as any.
LEMMA TimesWrite ==
  ASSUME TimesInv, NEW k \in Kinds, Write(k), TypeOK'
  PROVE  TimesInv'
<1>1. TypeOK /\ Windows(k) \in Nat
  BY WindowsIsNat DEF TimesInv
<1>2. /\ Windows(k)' = Windows(k) + 1
      /\ trace'[k][Windows(k) + 1].ts = timestamp
      /\ \A n \in 1 .. Windows(k) : trace'[k][n] = trace[k][n]
      /\ \A l \in Kinds \ {k} : trace'[l] = trace[l] /\ Windows(l)' = Windows(l)
  BY <1>1, WriteRows DEF TheRow
<1>3. timestamp \in Nat /\ timestamp' = timestamp /\ SimTimeUs' = SimTimeUs /\ pc # "closed"
  BY <1>1 DEF Write, SimTimeUs, Kinds, TypeOK
<1>4. \A l \in Kinds : \A n \in 1 .. Windows(l)' :
        trace'[l][n].ts <= timestamp /\ (l = k /\ n = Windows(k) + 1 => trace'[l][n].ts = timestamp)
  <2> SUFFICES ASSUME NEW l \in Kinds, NEW n \in 1 .. Windows(l)'
               PROVE  /\ trace'[l][n].ts <= timestamp
                      /\ l = k /\ n = Windows(k) + 1 => trace'[l][n].ts = timestamp
    OBVIOUS
  <2>1. CASE l = k /\ n = Windows(k) + 1
    BY <1>2, <1>3, <2>1
  <2>2. CASE l = k /\ n # Windows(k) + 1
    <3>1. n \in 1 .. Windows(k)
      BY <1>1, <1>2, <2>2
    <3> QED
      BY <1>2, <2>2, <3>1 DEF TimesInv
  <2>3. CASE l # k
    BY <1>2, <2>3 DEF TimesInv
  <2> QED
    BY <2>1, <2>2, <2>3
<1>5. \A l \in Kinds : \A i \in 2 .. Windows(l)' : trace'[l][i - 1].ts <= trace'[l][i].ts
  <2> SUFFICES ASSUME NEW l \in Kinds, NEW i \in 2 .. Windows(l)'
               PROVE  trace'[l][i - 1].ts <= trace'[l][i].ts
    OBVIOUS
  <2>1. CASE l = k /\ i = Windows(k) + 1
    <3>1. i - 1 \in 1 .. Windows(l)' /\ i \in 1 .. Windows(l)'
      BY <1>1, <1>2, <2>1
    <3> QED
      BY <1>4, <2>1, <3>1
  <2>2. CASE l = k /\ i # Windows(k) + 1
    <3>1. i \in 2 .. Windows(k) /\ i \in 1 .. Windows(k) /\ i - 1 \in 1 .. Windows(k)
      BY <1>1, <1>2, <2>2
    <3> QED
      BY <1>2, <2>2, <3>1 DEF TimesInv, TimestampsOrdered
  <2>3. CASE l # k
    BY <1>2, <2>3 DEF TimesInv, TimestampsOrdered
  <2> QED
    BY <2>1, <2>2, <2>3
<1>6. TimestampsOrdered'
  BY <1>5 DEF TimestampsOrdered
<1> QED
  BY <1>3, <1>4, <1>6 DEF TimesInv

\* Every step keeps the files in order and the open timestamp behind the clock.
LEMMA TimesInvStep == TimesInv /\ [Next]_vars => TimesInv'
<1> SUFFICES ASSUME TimesInv, [Next]_vars PROVE TimesInv'
  OBVIOUS
<1>0. TypeOK /\ TypeOK'
  BY TypeOKStep DEF TimesInv
<1>a. ASSUME trace' = trace, pc' # "closed" => pc # "closed",
             timestamp' = timestamp
      PROVE  TimesInv'
  <2>1. \A k \in Kinds : Windows(k)' = Windows(k)
    BY <1>a DEF Windows
  <2>2. TimestampsOrdered'
    BY <1>a DEF TimesInv, TimestampsOrdered, Windows
  <2>3. pc' # "closed" => timestamp' <= SimTimeUs'
    <3> SUFFICES ASSUME pc' # "closed" PROVE timestamp <= SimTimeUs'
      BY <1>a
    <3>1. SimTimeUs <= SimTimeUs' /\ SimTimeUs' \in Nat /\ SimTimeUs \in Nat
      BY <1>0, SimTimeGrows, SimTimeIsNat
    <3> QED
      BY <1>0, <1>a, <3>1 DEF TimesInv, TypeOK
  <2> QED
    BY <1>0, <1>a, <2>1, <2>2, <2>3 DEF TimesInv
<1>1. CASE Stamp
  <2>1. /\ trace' = trace /\ timestamp' = SimTimeUs /\ SimTimeUs' = SimTimeUs
        /\ timestamp <= SimTimeUs /\ timestamp \in Nat /\ SimTimeUs \in Nat
    BY <1>0, <1>1, SimTimeIsNat DEF Stamp, SimTimeUs, TimesInv, TypeOK
  <2>2. \A k \in Kinds : \A n \in 1 .. Windows(k) : trace[k][n].ts <= SimTimeUs
    <3> SUFFICES ASSUME NEW k \in Kinds, NEW n \in 1 .. Windows(k)
                 PROVE  trace[k][n].ts <= SimTimeUs
      OBVIOUS
    <3>1. trace[k][n] \in Row
      BY <1>0 DEF TypeOK, Windows
    <3>2. trace[k][n].ts \in Nat /\ trace[k][n].ts <= timestamp
      BY <3>1 DEF Row, TimesInv
    <3> QED
      BY <2>1, <3>2
  <2>3. TimestampsOrdered'
    BY <2>1 DEF TimesInv, TimestampsOrdered, Windows
  <2> QED
    BY <1>0, <2>1, <2>2, <2>3 DEF TimesInv, Windows
<1>2. ASSUME NEW k \in Kinds, Write(k) PROVE TimesInv'
  BY <1>0, <1>2, TimesWrite
<1>3. CASE CheckTime
  BY <1>3, <1>a DEF CheckTime
<1>4. CASE ExecuteWindow \/ StepRequest \/ StepDone \/ StepTimeout
  BY <1>4, <1>a DEF ExecuteWindow, StepRequest, StepDone, StepTimeout
<1>5. CASE Close \/ Raise \/ Killed
  BY <1>5, <1>a DEF Close, Raise, Killed, Kinds
<1>6. CASE UNCHANGED loopVars
  BY <1>6, <1>a DEF loopVars
<1> QED
  BY <1>1, <1>2, <1>3, <1>4, <1>5, <1>6
  DEF Next, Progress, Terminated, OnStats, ExecuteStep, FreeRun, vars

\* The rows of every file are in the order of their timestamps, although another
\* thread moves the clock between any two reads of it.
THEOREM TimesOrdered == Spec => []TimestampsOrdered
<1>1. TimesInv => TimestampsOrdered
  BY DEF TimesInv
<1> QED
  BY <1>1, TimesInvInit, TimesInvStep, PTL DEF Spec

-----------------------------------------------------------------------------
(* What Gazebo has been asked for beyond what the loop has seen is bounded. *)

\* While the loop is not closed the bound follows from the invariants above and
\* from this one: the outcomes written are the windows counted and perhaps one
\* more.  Once it is closed nothing is asked for and nothing is seen any more.
CountInv == AlignedInv /\ Windows("outcome") <= windowIdx + 1
BacklogInv == AdvanceInv /\ ChargeInv /\ CountInv /\ BoundedBacklog

LEMMA CountInvInit == Init => CountInv
<1> SUFFICES ASSUME Init PROVE CountInv
  OBVIOUS
<1>1. Windows("outcome") = 0 /\ windowIdx = 0
  BY DEF Init, Windows, Kinds
<1> QED
  BY <1>1, AlignedInvInit DEF CountInv

LEMMA CountInvStep == CountInv /\ [Next]_vars => CountInv'
<1> SUFFICES ASSUME CountInv, [Next]_vars PROVE CountInv'
  OBVIOUS
<1>0. AlignedInv /\ AlignedInv'
  BY AlignedInvStep DEF CountInv
<1>1. CASE Open'
  <2>1. Order[4] = "outcome" /\ 4 \in 1 .. 6
    BY DEF Order
  <2>2. Windows("outcome")' = windowIdx' \/ Windows("outcome")' = windowIdx' + 1
    BY <1>0, <1>1, <2>1 DEF AlignedInv
  <2>3. windowIdx' \in Nat
    BY <1>0 DEF AlignedInv, TypeOK
  <2> QED
    BY <1>0, <2>2, <2>3 DEF CountInv
<1>2. CASE ~Open'
  <2>1. trace' = trace /\ windowIdx' = windowIdx
    BY <1>2 DEF Next, Progress, Terminated, CheckTime, Stamp, Write, ExecuteWindow, StepRequest,
       StepDone, StepTimeout, Raise, Close, Killed, OnStats, ExecuteStep, FreeRun, After,
       Open, Kinds, vars, loopVars
  <2> QED
    BY <1>0, <2>1 DEF CountInv, Windows
<1> QED
  BY <1>1, <1>2

LEMMA BacklogNotClosed ==
  AdvanceInv /\ ChargeInv /\ CountInv /\ pc # "closed" => BoundedBacklog
<1> SUFFICES ASSUME AdvanceInv, ChargeInv, CountInv, pc # "closed", ~freeRunning, latest # NULL
             PROVE  simTime + pending <= latest + origin + NSteps * (timeouts + 1)
  BY DEF BoundedBacklog
<1>1. /\ simTime \in Nat /\ pending \in Nat /\ origin \in Nat /\ latest \in Nat
      /\ timeouts \in Nat /\ windowIdx \in Nat /\ NSteps \in Nat /\ Windows("outcome") \in Nat
  BY NStepsPositive, WindowsIsNat DEF AdvanceInv, TypeOK, Kinds
<1>2. simTime + pending <= origin + NSteps * Windows("outcome")
  BY DEF AdvanceInv, AdvanceNeedsPlan
<1>3. NSteps * windowIdx <= latest + NSteps * timeouts
  BY DEF ChargeInv, WindowNeedsTime, SimTimeUs
<1>4. NSteps * Windows("outcome") <= NSteps * windowIdx + NSteps
  <2>1. Windows("outcome") <= windowIdx + 1
    BY DEF CountInv
  <2> QED
    BY <1>1, <2>1
<1>5. NSteps * (timeouts + 1) = NSteps * timeouts + NSteps
  BY <1>1
<1>6. NSteps * Windows("outcome") \in Nat /\ NSteps * windowIdx \in Nat /\ NSteps * timeouts \in Nat
  BY <1>1
<1> QED
  BY <1>1, <1>2, <1>3, <1>4, <1>5, <1>6

\* The same of the state after a step.
LEMMA BacklogNotClosedNext ==
  (AdvanceInv /\ ChargeInv /\ CountInv /\ pc # "closed")' => BoundedBacklog'
BY BacklogNotClosed, PTL

\* Every step keeps the bound.
LEMMA BacklogInvStep == BacklogInv /\ [Next]_vars => BacklogInv'
<1> SUFFICES ASSUME BacklogInv, [Next]_vars PROVE BacklogInv'
  OBVIOUS
<1>1. AdvanceInv' /\ ChargeInv' /\ CountInv'
  BY AdvanceInvStep, ChargeInvStep, CountInvStep DEF BacklogInv
<1>2. CASE pc' # "closed"
  BY <1>1, <1>2, BacklogNotClosedNext DEF BacklogInv
<1>3. CASE pc' = "closed"
  <2>0. TypeOK /\ BoundedBacklog
    BY DEF BacklogInv, AdvanceInv
  <2>1. CASE Close
    BY <1>1, <2>1 DEF Close, BacklogInv, BoundedBacklog
  <2>2. CASE UNCHANGED <<simTime, pending, latest, origin, freeRunning, timeouts>>
    BY <1>1, <2>0, <2>2 DEF BacklogInv, BoundedBacklog
  <2>3. CASE ExecuteStep
    <3>1. (simTime + pending)' = simTime + pending
      BY <2>0, <2>3 DEF ExecuteStep, TypeOK
    <3> QED
      BY <1>1, <2>0, <2>3, <3>1 DEF ExecuteStep, BacklogInv, BoundedBacklog, loopVars, setup
  <2>4. CASE FreeRun
    BY <1>1, <2>4 DEF FreeRun, BacklogInv, BoundedBacklog, setup
  <2> QED
    BY <1>3, <2>1, <2>2, <2>3, <2>4
    DEF Next, Progress, Terminated, CheckTime, Stamp, Write, ExecuteWindow, StepRequest,
        StepDone, StepTimeout, Raise, Killed, OnStats, After, Kinds, vars, loopVars,
        worldVars, setup
<1> QED
  BY <1>2, <1>3

\* In a paused world Gazebo is never asked for more, beyond what the loop has
\* seen of it, than one step and one for every wait that was given up.
THEOREM BacklogBounded == Spec => []BoundedBacklog
<1>1. Init => BacklogInv
  <2> SUFFICES ASSUME Init PROVE BacklogInv
    OBVIOUS
  <2>1. BoundedBacklog
    BY DEF Init, BoundedBacklog
  <2> QED
    BY <2>1, AdvanceInvInit, ChargeInvInit, CountInvInit DEF BacklogInv
<1>2. BacklogInv => BoundedBacklog
  BY DEF BacklogInv
<1> QED
  BY <1>1, <1>2, BacklogInvStep, PTL DEF Spec

-----------------------------------------------------------------------------
(* The nominal experiment: a paused world at time 0. *)

\* Where the outcome of the open window has been written.
Decided == Unspent \cup {"poll"}

\* What has been seen of the clock is behind it, and time and windows pay for
\* each other as long as no wait is abandoned.
StillInv ==
  /\ AdvanceInv /\ ChargeInv /\ CountInv
  /\ origin = 0
  /\ latest # NULL => latest <= simTime

LEMMA StillInvInit == StartTimes = {0} => (Init => StillInv)
<1> SUFFICES ASSUME StartTimes = {0}, Init PROVE StillInv
  OBVIOUS
<1>1. origin = 0 /\ latest = NULL
  BY DEF Init
<1> QED
  BY <1>1, AdvanceInvInit, ChargeInvInit, CountInvInit DEF StillInv

LEMMA StillInvStep == StillInv /\ [Next]_vars => StillInv'
<1> SUFFICES ASSUME StillInv, [Next]_vars PROVE StillInv'
  OBVIOUS
<1>1. AdvanceInv' /\ ChargeInv' /\ CountInv'
  BY AdvanceInvStep, ChargeInvStep, CountInvStep DEF StillInv
<1>2. origin' = origin
  BY DEF Next, Progress, Terminated, CheckTime, Stamp, Write, ExecuteWindow, StepRequest,
     StepDone, StepTimeout, Raise, Close, Killed, OnStats, ExecuteStep, FreeRun, vars,
     setup
<1>3. latest' # NULL => latest' <= simTime'
  <2>0. simTime \in Nat /\ simTime' \in Nat /\ latest \in Nat \cup {NULL} /\ origin \in Nat
    BY <1>1 DEF StillInv, AdvanceInv, TypeOK
  <2>1. CASE OnStats
    <3>1. PICK t \in (IF latest = NULL THEN origin ELSE latest + 1) .. simTime : latest' = t
      BY <2>1 DEF OnStats
    <3>2. simTime' = simTime
      BY <2>1 DEF OnStats, worldVars
    <3> QED
      BY <2>0, <3>1, <3>2
  <2>2. CASE latest' = NULL
    BY <2>2
  <2>3. CASE latest' = latest /\ (simTime' = simTime \/ simTime' = simTime + 1)
    BY <2>0, <2>3 DEF StillInv
  <2> QED
    BY <2>1, <2>2, <2>3
    DEF Next, Progress, Terminated, CheckTime, Stamp, Write, ExecuteWindow, StepRequest,
        StepDone, StepTimeout, Raise, Close, Killed, ExecuteStep, FreeRun, vars, worldVars
<1> QED
  BY <1>1, <1>2, <1>3 DEF StillInv

\* Before the outcome of the open window is written there are as many outcomes as
\* windows counted, and no step is paid for but not yet seen: the clock the loop
\* last saw, Gazebo's own and the credit spent are the same time.
LEMMA ClockIsSpent ==
  ASSUME StillInv, ~freeRunning, timeouts = 0, Open, pc \notin Decided
  PROVE  /\ Windows("outcome") = windowIdx
         /\ pending = 0
         /\ simTime = NSteps * windowIdx
         /\ SimTimeUs = NSteps * windowIdx
<1>1. /\ TypeOK /\ simTime \in Nat /\ pending \in Nat /\ origin = 0 /\ SimTimeUs \in Nat
      /\ windowIdx \in Nat /\ NSteps \in Nat
  BY NStepsPositive, SimTimeIsNat DEF StillInv, AdvanceInv, TypeOK
<1>2. Windows("outcome") = windowIdx
  <2>1. Order[4] = "outcome" /\ 4 \in 1 .. 6
    BY DEF Order
  <2>2. ~Has(4)
    BY <1>1 DEF Has, Position, Open, Decided, Unspent, TypeOK, Points, Kinds
  <2> QED
    BY <2>1, <2>2 DEF StillInv, CountInv, AlignedInv
<1>3. simTime + pending <= NSteps * windowIdx
  <2>1. NSteps * windowIdx \in Nat
    BY <1>1
  <2>2. simTime + pending <= origin + NSteps * windowIdx
    BY <1>2 DEF StillInv, AdvanceInv, AdvanceNeedsPlan
  <2> QED
    BY <1>1, <2>1, <2>2
<1>4. NSteps * windowIdx <= SimTimeUs
  <2>1. NSteps * timeouts = 0 /\ NSteps * windowIdx \in Nat
    BY <1>1
  <2>2. NSteps * windowIdx <= SimTimeUs + NSteps * timeouts
    BY DEF StillInv, ChargeInv, WindowNeedsTime, Open
  <2> QED
    BY <1>1, <2>1, <2>2
<1>5. SimTimeUs <= simTime
  BY <1>1 DEF StillInv, SimTimeUs, TypeOK
<1>6. NSteps * windowIdx \in Nat
  BY <1>1
<1> QED
  BY <1>1, <1>2, <1>3, <1>4, <1>5, <1>6

\* Once it is written, and until its steps are requested, nothing is queued either.
LEMMA NothingQueued ==
  ASSUME StillInv, ~freeRunning, timeouts = 0, Deciding
  PROVE  pending = 0
<1>1. CASE pc \notin Decided
  <2>1. Open
    BY DEF Deciding, Open, Kinds
  <2> QED
    BY <1>1, <2>1, ClockIsSpent
<1>2. CASE pc \in Decided
  <2>1. pc \in Unspent /\ pc # "closed" /\ Open
    BY <1>2 DEF Decided, Unspent, Deciding, Kinds, Open
  <2>2. /\ TypeOK /\ simTime \in Nat /\ pending \in Nat /\ origin = 0 /\ SimTimeUs \in Nat
        /\ windowIdx \in Nat /\ NSteps \in Nat /\ Windows("outcome") \in Nat
    BY NStepsPositive, SimTimeIsNat, WindowsIsNat DEF StillInv, AdvanceInv, TypeOK, Kinds
  <2>3. simTime + pending + NSteps <= NSteps * Windows("outcome")
    <3>1. NSteps * Windows("outcome") \in Nat
      BY <2>2
    <3>2. simTime + pending + NSteps <= origin + NSteps * Windows("outcome")
      BY <2>1 DEF StillInv, AdvanceInv, Debt, Credit
    <3> QED
      BY <2>2, <3>1, <3>2
  <2>4. NSteps * Windows("outcome") <= NSteps * windowIdx + NSteps
    <3>1. Windows("outcome") <= windowIdx + 1
      BY DEF StillInv, CountInv
    <3> QED
      BY <2>2, <3>1
  <2>5. NSteps * windowIdx <= SimTimeUs
    <3>1. NSteps * timeouts = 0 /\ NSteps * windowIdx \in Nat
      BY <2>2
    <3>2. NSteps * windowIdx <= SimTimeUs + NSteps * timeouts
      BY <2>1 DEF StillInv, ChargeInv, WindowNeedsTime
    <3> QED
      BY <2>2, <3>1, <3>2
  <2>6. SimTimeUs <= simTime
    BY <2>2 DEF StillInv, SimTimeUs, TypeOK
  <2>7. NSteps * windowIdx \in Nat /\ NSteps * Windows("outcome") \in Nat
    BY <2>2
  <2> QED
    BY <2>2, <2>3, <2>4, <2>5, <2>6, <2>7
<1> QED
  BY <1>1, <1>2

\* Policy, workers and samplers decide a window on a world that does not move
\* under them, for every window size and every delay of the messages.
THEOREM WorldIsStill == StartTimes = {0} => (Spec => StillWorld)
<1>1. StillInv /\ [Next]_vars =>
        [Deciding /\ ~freeRunning /\ timeouts = 0 => simTime' = simTime]_vars
  <2> SUFFICES ASSUME StillInv, Next, Deciding, ~freeRunning, timeouts = 0
               PROVE  simTime' = simTime
    BY DEF vars, worldVars
  <2>1. pending = 0
    BY NothingQueued
  <2> QED
    BY <2>1 DEF Next, Progress, Terminated, CheckTime, Stamp, Write, ExecuteWindow, StepRequest,
       StepDone, StepTimeout, Raise, Close, Killed, OnStats, ExecuteStep, FreeRun, vars, worldVars
<1> QED
  BY <1>1, StillInvInit, StillInvStep, PTL DEF Spec, StillWorld

\* The launch of the experiment as it is meant: fresh, paused, and every wait
\* answered.
Nominal == StartTimes = {0} /\ GuiModes = {FALSE} /\ MaxTimeouts = 0

\* A run covers its duration because a window is only begun before its end and
\* the loop is only left, by itself, after it; while it is in the loop nothing has
\* ended it.
CoverInv ==
  /\ StillInv
  /\ ~freeRunning /\ timeouts = 0 /\ MaxTimeouts = 0
  /\ Open => exit = "none"
  /\ pc = "check" => NSteps * windowIdx < DurationSteps + NSteps
  /\ Open /\ pc # "check" => NSteps * windowIdx < DurationSteps
  /\ CoversDuration

LEMMA CoverInvInit == Nominal => (Init => CoverInv)
<1> SUFFICES ASSUME Nominal, Init PROVE CoverInv
  OBVIOUS
<1>1. StillInv
  BY StillInvInit DEF Nominal
<1>2. ~freeRunning /\ timeouts = 0 /\ MaxTimeouts = 0
      /\ exit = "none" /\ pc = "check" /\ windowIdx = 0
  BY DEF Init, Nominal
<1>3. NSteps * windowIdx < DurationSteps + NSteps
  BY <1>2, NStepsPositive, RunAssumption
<1> QED
  BY <1>1, <1>2, <1>3 DEF CoverInv, CoversDuration

\* When the check ends the loop the windows cover the duration, and when it does
\* not the next one still begins before its end.
LEMMA CoverCheck == CoverInv /\ CheckTime /\ StillInv' => CoverInv'
<1> SUFFICES ASSUME CoverInv, CheckTime, StillInv' PROVE CoverInv'
  OBVIOUS
<1>1. pc = "check" /\ Open /\ pc \notin Decided /\ StillInv
  BY DEF CheckTime, Open, Decided, Unspent, CoverInv
<1>2. Windows("outcome") = windowIdx /\ SimTimeUs = NSteps * windowIdx
  BY <1>1, ClockIsSpent DEF CoverInv
<1>3. \A k \in Kinds : Windows(k) = windowIdx
  <2> SUFFICES ASSUME NEW k \in Kinds PROVE Windows(k) = windowIdx
    OBVIOUS
  <2>1. PICK i \in 1 .. 6 : k = Order[i]
    BY OrderIsKinds
  <2>2. ~Has(i)
    BY <1>1 DEF Has, Position
  <2> QED
    BY <1>1, <2>1, <2>2 DEF StillInv, CountInv, AlignedInv
<1>4. /\ UNCHANGED <<freeRunning, timeouts, windowIdx>>
      /\ \A k \in Kinds : Windows(k)' = Windows(k)
  BY DEF CheckTime, setup, Windows
<1>5. CASE pc' = "stamp"
  <2>1. SimTimeUs < DurationSteps /\ exit' = exit /\ exit = "none"
    BY <1>1, <1>5 DEF CheckTime, CoverInv
  <2> QED
    BY <1>2, <1>4, <1>5, <2>1 DEF CoverInv, CoversDuration
<1>6. CASE pc' = "closing"
  <2>1. ~(SimTimeUs < DurationSteps) /\ ~Open' /\ pc' # "check"
    BY <1>6 DEF CheckTime, Open
  <2>2. NSteps * windowIdx < DurationSteps + NSteps
    BY <1>1 DEF CoverInv
  <2>3. "outcome" \in Kinds /\ windowIdx \in Nat /\ NSteps \in Nat /\ DurationSteps \in Nat
        /\ NSteps * windowIdx \in Nat
    BY NStepsPositive, RunAssumption DEF Kinds, CoverInv, StillInv, AdvanceInv, TypeOK
  <2>4. CoversDuration'
    <3>1. \A k \in Kinds : Windows(k)' = windowIdx
      BY <1>3, <1>4
    <3>2. NSteps * windowIdx >= DurationSteps
      BY <1>2, <2>1, <2>3
    <3> QED
      BY <2>2, <2>3, <3>1, <3>2 DEF CoversDuration
  <2> QED
    BY <1>4, <2>1, <2>4 DEF CoverInv
<1> QED
  BY <1>5, <1>6 DEF CheckTime

\* Every step of the loop keeps it.
LEMMA CoverInvStep == CoverInv /\ [Next]_vars => CoverInv'
<1> SUFFICES ASSUME CoverInv, [Next]_vars PROVE CoverInv'
  OBVIOUS
<1>0. StillInv /\ StillInv' /\ windowIdx \in Nat /\ NSteps \in Nat /\ DurationSteps \in Nat
  BY StillInvStep, NStepsPositive, RunAssumption DEF CoverInv, StillInv, AdvanceInv, TypeOK
<1>a. ASSUME UNCHANGED <<freeRunning, timeouts, windowIdx, exit>>, exit = "completed" => trace' = trace,
             Open' => Open, pc' = "check" => pc = "check",
             Open' /\ pc' # "check" => pc # "check"
      PROVE  CoverInv'
  <2>1. (NSteps * windowIdx)' = NSteps * windowIdx
    BY <1>a
  <2>2. CoversDuration'
    BY <1>a DEF CoverInv, CoversDuration, Windows
  <2> QED
    BY <1>0, <1>a, <2>1, <2>2 DEF CoverInv
<1>1. CASE CheckTime
  BY <1>0, <1>1, CoverCheck
<1>2. CASE Stamp \/ ExecuteWindow \/ StepRequest \/ (\E k \in Kinds : Write(k))
  <2>1. Open /\ Open' /\ pc # "check" /\ pc' # "check" /\ exit = "none"
    BY <1>2 DEF Stamp, ExecuteWindow, StepRequest, Write, After, Kinds, Open, CoverInv
  <2>2. UNCHANGED <<freeRunning, timeouts, windowIdx, exit>>
    BY <1>2 DEF Stamp, ExecuteWindow, StepRequest, Write, setup
  <2> QED
    BY <1>a, <2>1, <2>2
<1>3. CASE StepDone
  <2>1. Open /\ pc # "check" /\ exit = "none" /\ exit' = exit /\ pc' = "check"
        /\ UNCHANGED <<freeRunning, timeouts>> /\ windowIdx' = windowIdx + 1
    BY <1>3 DEF StepDone, Open, CoverInv, setup
  <2>2. NSteps * windowIdx < DurationSteps /\ NSteps * (windowIdx + 1) = NSteps * windowIdx + NSteps
        /\ NSteps * windowIdx \in Nat
    BY <1>0, <2>1 DEF CoverInv
  <2>3. NSteps * (windowIdx + 1) < DurationSteps + NSteps
    BY <1>0, <2>2
  <2> QED
    BY <1>0, <2>1, <2>3 DEF CoverInv, CoversDuration
<1>4. CASE StepTimeout
  BY <1>4 DEF StepTimeout, CoverInv
<1>5. CASE Close
  <2>1. ~Open' /\ pc' # "check" /\ ~Open /\ trace' = trace
        /\ UNCHANGED <<freeRunning, timeouts, windowIdx, exit>>
    BY <1>5 DEF Close, Open, setup
  <2> QED
    BY <1>a, <2>1
<1>6. CASE Raise \/ Killed
  <2>1. ~Open' /\ pc' # "check" /\ exit' # "completed" /\ UNCHANGED <<freeRunning, timeouts>>
    BY <1>6 DEF Raise, Killed, Open, setup
  <2> QED
    BY <1>0, <2>1 DEF CoverInv, CoversDuration
<1>7. CASE UNCHANGED <<loopVars, freeRunning>>
  BY <1>7, <1>a DEF loopVars, Open
<1> QED
  BY <1>1, <1>2, <1>3, <1>4, <1>5, <1>6, <1>7
  DEF Next, Progress, Terminated, OnStats, ExecuteStep, FreeRun, vars, setup

\* A nominal run that ends by itself has decided exactly the windows that cover
\* the duration, whatever the duration and the step are and however late the
\* messages are.
THEOREM DurationCovered == Nominal => (Spec => []CoversDuration)
<1>1. CoverInv => CoversDuration
  BY DEF CoverInv
<1> QED
  BY <1>1, CoverInvInit, CoverInvStep, PTL DEF Spec

-----------------------------------------------------------------------------
(* The nominal experiment is the abstract one, however it is cut short. *)

\* What the abstract experiment calls its log.
Log == [i \in 1 .. Windows("outcome") |-> trace["outcome"][i].ts]

\* Between the timestamp of a window and its outcome.
Stamped == {"task_events", "execute", "window_observation", "plan", "outcome"}

\* CoverInv, with the timestamp of the open window, which is the time of the
\* world it is decided in.
RefineInv ==
  /\ CoverInv
  /\ pc \in Stamped => timestamp = NSteps * windowIdx

LEMMA RefineInvInit == Nominal => (Init => RefineInv)
BY CoverInvInit DEF RefineInv, Init, Stamped

LEMMA RefineInvStep == RefineInv /\ [Next]_vars => RefineInv'
<1> SUFFICES ASSUME RefineInv, [Next]_vars PROVE RefineInv'
  OBVIOUS
<1>0. CoverInv /\ CoverInv'
  BY CoverInvStep DEF RefineInv
<1>1. CASE Stamp
  <2>1. StillInv /\ ~freeRunning /\ timeouts = 0 /\ Open /\ pc \notin Decided
    BY <1>0, <1>1 DEF CoverInv, Stamp, Open, Decided, Unspent
  <2>2. timestamp' = NSteps * windowIdx /\ windowIdx' = windowIdx
    BY <1>1, <2>1, ClockIsSpent DEF Stamp
  <2> QED
    BY <1>0, <2>2 DEF RefineInv
<1>2. CASE pc' \in Stamped => pc \in Stamped /\ UNCHANGED <<timestamp, windowIdx>>
  BY <1>0, <1>2 DEF RefineInv
<1> QED
  BY <1>1, <1>2
  DEF Next, Progress, Terminated, CheckTime, Write, ExecuteWindow, StepRequest, StepDone,
      StepTimeout, Raise, Close, Killed, OnStats, ExecuteStep, FreeRun, After, Stamped,
      Kinds, vars, loopVars

\* The log is a sequence, as long as the outcome file.
LogShape ==
  /\ Log \in Seq(Nat) /\ Len(Log) = Windows("outcome")
  /\ \A i \in 1 .. Windows("outcome") : Log[i] = trace["outcome"][i].ts

LEMMA LogIsSequence == TypeOK => LogShape
<1> SUFFICES ASSUME TypeOK PROVE LogShape
  OBVIOUS
<1>1. trace["outcome"] \in Seq(Row) /\ Windows("outcome") \in Nat
  BY WindowsIsNat DEF TypeOK, Kinds
<1>2. \A i \in 1 .. Windows("outcome") : trace["outcome"][i].ts \in Nat
  <2> SUFFICES ASSUME NEW i \in 1 .. Windows("outcome") PROVE trace["outcome"][i].ts \in Nat
    OBVIOUS
  <2>1. trace["outcome"][i] \in Row
    BY <1>1 DEF Windows
  <2> QED
    BY <2>1 DEF Row
<1>3. /\ Log \in [1 .. Windows("outcome") -> Nat]
      /\ \A i \in 1 .. Windows("outcome") : Log[i] = trace["outcome"][i].ts
  BY <1>2 DEF Log
<1>4. Log \in Seq(Nat)
  BY <1>1, <1>3, SeqDef
<1>5. Len(Log) = Windows("outcome")
  <2>1. DOMAIN Log = 1 .. Windows("outcome")
    BY <1>3
  <2>2. DOMAIN Log = 1 .. Len(Log) /\ Len(Log) \in Nat
    BY <1>4, LenProperties
  <2> QED
    BY <1>1, <2>1, <2>2
<1> QED
  BY <1>3, <1>4, <1>5 DEF LogShape

\* The same of the state after a step.
LEMMA LogIsSequenceNext == TypeOK' => LogShape'
BY LogIsSequence, PTL

\* The write of an outcome adds its window's time to the log.
LEMMA LogGrows ==
  ASSUME TypeOK, TypeOK', Write("outcome")
  PROVE  Log' = Append(Log, timestamp)
<1> DEFINE n == Windows("outcome")
<1>1. "outcome" \in Kinds /\ n \in Nat /\ timestamp \in Nat
  BY WindowsIsNat DEF Kinds, TypeOK
<1>2. /\ Windows("outcome")' = n + 1
      /\ trace'["outcome"][n + 1] = TheRow
      /\ \A i \in 1 .. n : trace'["outcome"][i] = trace["outcome"][i]
  BY <1>1, WriteRows
<1>3. /\ Log \in Seq(Nat) /\ Len(Log) = n
      /\ \A i \in 1 .. n : Log[i] = trace["outcome"][i].ts
  BY LogIsSequence DEF LogShape
<1>4. /\ Log' \in Seq(Nat) /\ Len(Log') = n + 1
      /\ \A i \in 1 .. n + 1 : Log'[i] = trace'["outcome"][i].ts
  BY <1>2, LogIsSequenceNext DEF LogShape
<1> HIDE DEF n
<1>5. /\ Append(Log, timestamp) \in Seq(Nat) /\ Len(Append(Log, timestamp)) = n + 1
      /\ \A i \in 1 .. n : Append(Log, timestamp)[i] = Log[i]
      /\ Append(Log, timestamp)[n + 1] = timestamp
  BY <1>1, <1>3
<1>6. \A i \in 1 .. n + 1 : Log'[i] = Append(Log, timestamp)[i]
  <2> SUFFICES ASSUME NEW i \in 1 .. n + 1 PROVE Log'[i] = Append(Log, timestamp)[i]
    OBVIOUS
  <2>1. CASE i = n + 1
    BY <1>2, <1>4, <1>5, <2>1 DEF TheRow
  <2>2. CASE i # n + 1
    <3>1. i \in 1 .. n
      BY <1>1, <2>2
    <3> QED
      BY <1>2, <1>3, <1>4, <1>5, <3>1
  <2> QED
    BY <2>1, <2>2
<1> QED
  BY <1>4, <1>5, <1>6, SeqEqual

\* The log stands still when the outcome file does.
LEMMA LogKept ==
  ASSUME trace'["outcome"] = trace["outcome"]
  PROVE  Log' = Log /\ Windows("outcome")' = Windows("outcome")
BY DEF Log, Windows

\* Every step of the nominal experiment is one of the abstract experiment's: the
\* check that ends the loop finishes it, the write of an outcome decides a window,
\* a physics step advances it, an exception or a kill cuts it short, and the rest
\* it does not see.
LEMMA StepRefines == RefineInv /\ [Next]_vars => [Abstract!Next]_(Abstract!vars)
<1> SUFFICES ASSUME RefineInv, [Next]_vars PROVE [Abstract!Next]_(Abstract!vars)
  OBVIOUS
<1>0. /\ CoverInv /\ StillInv /\ TypeOK /\ TypeOK' /\ ~freeRunning /\ timeouts = 0
      /\ MaxTimeouts = 0
  BY TypeOKStep DEF RefineInv, CoverInv, StillInv, AdvanceInv
<1>a. /\ Len(Log) = Windows("outcome") /\ Windows("outcome") \in Nat /\ NSteps \in Nat
      /\ windowIdx \in Nat /\ simTime \in Nat /\ pending \in Nat /\ DurationSteps \in Nat
      /\ NSteps * windowIdx \in Nat /\ NSteps * Windows("outcome") \in Nat
  <2>1. Len(Log) = Windows("outcome") /\ Windows("outcome") \in Nat /\ NSteps \in Nat
    BY <1>0, LogIsSequence, WindowsIsNat, NStepsPositive DEF LogShape, Kinds
  <2>2. windowIdx \in Nat /\ simTime \in Nat /\ pending \in Nat /\ DurationSteps \in Nat
    BY <1>0, RunAssumption DEF TypeOK
  <2> QED
    BY <2>1, <2>2
<1>b. ASSUME trace'["outcome"] = trace["outcome"], simTime' = simTime,
             exit' = exit
      PROVE  UNCHANGED Abstract!vars
  BY <1>b, LogKept DEF Abstract!vars, Log
<1>1. CASE CheckTime
  <2>1. Open /\ pc \notin Decided /\ exit = "none" /\ pc = "check"
    BY <1>0, <1>1 DEF CheckTime, Open, Decided, Unspent, CoverInv
  <2>2. /\ Windows("outcome") = windowIdx /\ simTime = NSteps * windowIdx
        /\ SimTimeUs = NSteps * windowIdx
    BY <1>0, <2>1, ClockIsSpent
  <2>3. simTime' = simTime /\ trace' = trace
    BY <1>1 DEF CheckTime, worldVars
  <2>4. CASE exit' = exit
    BY <1>b, <2>3, <2>4
  <2>5. CASE ~(SimTimeUs < DurationSteps) /\ exit' = "completed"
    <3>1. Log' = Log
      BY <2>3, LogKept
    <3> QED
      BY <1>a, <2>1, <2>2, <2>3, <2>5, <3>1
      DEF Abstract!Next, Abstract!Finish, Abstract!Granted, Log
  <2> QED
    BY <1>1, <2>4, <2>5 DEF CheckTime
<1>2. CASE Write("outcome")
  <2>1. /\ Open /\ pc \notin Decided /\ exit = "none" /\ exit' = exit /\ pc # "check"
        /\ pc \in Stamped /\ simTime' = simTime
    BY <1>0, <1>2 DEF Write, Open, Decided, Unspent, CoverInv, Stamped, worldVars
  <2>2. Windows("outcome") = windowIdx /\ simTime = NSteps * windowIdx
    BY <1>0, <2>1, ClockIsSpent
  <2>3. timestamp = simTime /\ simTime < DurationSteps
    BY <1>0, <2>1, <2>2 DEF RefineInv, CoverInv
  <2>4. Log' = Append(Log, simTime)
    BY <1>0, <1>2, <2>3, LogGrows
  <2> QED
    BY <1>a, <2>1, <2>2, <2>3, <2>4 DEF Abstract!Next, Abstract!Decide, Abstract!Granted, Log
<1>3. ASSUME NEW k \in Kinds, Write(k), k # "outcome" PROVE UNCHANGED Abstract!vars
  <2>1. trace'["outcome"] = trace["outcome"] /\ simTime' = simTime /\ exit' = exit
    BY <1>0, <1>3, WriteRows DEF Write, worldVars, Kinds
  <2> QED
    BY <1>b, <2>1
<1>4. CASE ExecuteStep
  <2>1. /\ pending > 0 /\ simTime' = simTime + 1 /\ trace' = trace /\ exit' = exit
    BY <1>4 DEF ExecuteStep, loopVars
  <2>2. simTime + pending <= 0 + NSteps * Windows("outcome")
    BY <1>0 DEF StillInv, AdvanceInv, AdvanceNeedsPlan
  <2>3. simTime < NSteps * Windows("outcome")
    BY <1>a, <2>1, <2>2
  <2>4. Log' = Log
    BY <2>1, LogKept
  <2> QED
    BY <1>a, <2>1, <2>3, <2>4 DEF Abstract!Next, Abstract!Advance, Abstract!Granted, Log
<1>5. CASE Stamp \/ ExecuteWindow \/ StepRequest \/ StepDone \/ Close \/ OnStats
           \/ Terminated \/ UNCHANGED vars
  <2>1. trace' = trace /\ simTime' = simTime /\ exit' = exit
    BY <1>5 DEF Stamp, ExecuteWindow, StepRequest, StepDone, Close, OnStats, Terminated,
       vars, loopVars, worldVars
  <2> QED
    BY <1>b, <2>1
<1>6. CASE Raise \/ Killed
  <2>1. trace' = trace /\ simTime' = simTime /\ exit' \in {"raised", "killed"}
    BY <1>6 DEF Raise, Killed, worldVars
  <2>2. Log' = Log
    BY <2>1, LogKept
  <2>3. CASE exit \in {"none", "completed"}
    BY <2>1, <2>2, <2>3 DEF Abstract!Next, Abstract!CutShort, Log
  <2>4. CASE exit \in {"raised", "killed"}
    BY <2>1, <2>2, <2>4 DEF Abstract!vars, Log
  <2> QED
    BY <1>0, <2>3, <2>4 DEF TypeOK
<1>7. ~StepTimeout /\ ~FreeRun
  BY <1>0 DEF StepTimeout, FreeRun
<1> QED
  BY <1>1, <1>2, <1>3, <1>4, <1>5, <1>6, <1>7 DEF Next, Progress

\* A nominal run is a run of the abstract experiment, one that raises or is killed
\* anywhere included: the safety part of ImplementsWindowLog, for every duration
\* and step.
THEOREM ImplementsAbstract ==
  Nominal => (Spec => Abstract!Init /\ [][Abstract!Next]_(Abstract!vars))
<1>1. Nominal /\ Init => Abstract!Init
  <2> SUFFICES ASSUME Nominal, Init PROVE Abstract!Init
    OBVIOUS
  <2>1. simTime = 0 /\ exit = "none"
    BY DEF Init, Nominal
  <2>2. Windows("outcome") = 0 /\ TypeOK
    BY TypeOKInit DEF Init, Windows, Kinds
  <2>3. Log = <<>>
    BY <2>2, LogIsSequence, EmptySeq DEF LogShape
  <2> QED
    BY <2>1, <2>3 DEF Abstract!Init, Log
<1> QED
  BY <1>1, RefineInvInit, RefineInvStep, StepRefines, PTL DEF Spec
=============================================================================
