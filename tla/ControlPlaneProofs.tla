--------------------------- MODULE ControlPlaneProofs ---------------------------
(***************************************************************************)
(* Theorems about the control plane: the API objects for any number of     *)
(* tasks, snapshots, callers and retries, delivered in any order and any   *)
(* number of times; the demonstration run over any registry of nodes; the  *)
(* mode trigger with any cooldown.                                         *)
(***************************************************************************)
EXTENDS ControlPlane, TLAPS

\* The task system's side: a version is used once and the last one is terminal.
PublishedInv ==
  \A p, q \in published : p.task = q.task =>
    /\ p.version = q.version => p = q
    /\ HasEnded(p) => q.version <= p.version

\* The accepted snapshot of a task is the newest that was delivered.
ObservationInv ==
  /\ PublishedInv
  /\ \A t \in Tasks : view[t] # NULL =>
       view[t] \in delivered /\ view[t].task = t /\ view[t].version = latest[t]
  /\ \A d \in delivered : view[d.task] # NULL /\ d.version <= latest[d.task]
  /\ \A t \in Tasks : view[t] = NULL => latest[t] = 0

\* Every answer ever given is the answer the registry would give now, and what is
\* registered was answered.
Consistent(r) ==
  \/ /\ ~OutOfBounds(r.payload) /\ seen[r.id] = Digest(r.payload)
     /\ r.accepted = TRUE /\ r.key = Digest(r.payload) /\ r.error = NULL
  \/ /\ ~OutOfBounds(r.payload) /\ seen[r.id] \notin {NULL, Digest(r.payload)}
     /\ r.accepted = FALSE /\ r.key = NULL /\ r.error = "CONFLICT"
  \/ /\ OutOfBounds(r.payload)
     /\ r.accepted = FALSE /\ r.key = NULL /\ r.error = "INVALID_ARG"
ControlInv ==
  /\ \A r \in replies : Consistent(r)
  /\ \A id \in CommandIds : seen[id] # NULL =>
       \E q \in replies : q.id = id /\ q.accepted = TRUE /\ Digest(q.payload) = seen[id]

Inv == TypeOK /\ ObservationInv /\ ControlInv

LEMMA SnapshotFields ==
  ASSUME NEW s \in TaskSnapshot
  PROVE  /\ s.task \in Tasks /\ s.version \in 1..MaxVersion /\ s.version \in Nat
         /\ s.state \in TaskState /\ s # NULL
BY ApiAssumption, NullAssumption DEF TaskSnapshot

LEMMA TypeOKStep == TypeOK /\ [Next]_vars => TypeOK'
<1> SUFFICES ASSUME TypeOK, [Next]_vars PROVE TypeOK'
  OBVIOUS
<1> USE DEF TypeOK
<1>1. ASSUME NEW s \in TaskSnapshot, Publish(s) PROVE TypeOK'
  BY <1>1 DEF Publish, control
<1>2. ASSUME NEW s \in TaskSnapshot, PushTaskSnapshot(s) PROVE TypeOK'
  <2>1. s.task \in Tasks /\ s.version \in 0..MaxVersion
    BY SnapshotFields, ApiAssumption
  <2>2. latest' \in [Tasks -> 0..MaxVersion] /\ view' \in [Tasks -> TaskSnapshot \cup {NULL}]
    BY <1>2, <2>1 DEF PushTaskSnapshot
  <2> QED
    BY <1>2, <2>2 DEF PushTaskSnapshot, control
<1>3. ASSUME NEW id \in CommandIds, NEW p \in Payloads,
             Refuse(id, p) \/ Register(id, p) \/ Conflict(id, p) \/ Repeat(id, p)
      PROVE  TypeOK'
  <2>1. Digest(p) \in Meanings
    BY DEF Meanings
  <2>2. \E a, k, e : replies' = replies \cup {Reply(id, p, a, k, e)}
    BY <1>3 DEF Refuse, Register, Conflict, Repeat, Answer
  <2>3. \A r \in replies' : r.id \in CommandIds /\ r.payload \in Payloads
    BY <2>2 DEF Reply
  <2>4. seen' \in [CommandIds -> Meanings \cup {NULL}] /\ keys' = seen'
    BY <1>3, <2>1 DEF Refuse, Register, Conflict, Repeat
  <2>5. UNCHANGED observation
    BY <1>3 DEF Refuse, Register, Conflict, Repeat
  <2> QED
    BY <2>3, <2>4, <2>5 DEF observation
<1>4. CASE UNCHANGED vars
  BY <1>4 DEF vars, observation, control
<1> QED
  BY <1>1, <1>2, <1>3, <1>4 DEF Next

LEMMA InvInit == Init => Inv
BY ApiAssumption DEF Init, Inv, TypeOK, ObservationInv, PublishedInv, ControlInv

\* What is published stays published in order, whatever is delivered.
LEMMA PublishKeeps ==
  ASSUME Inv, NEW s \in TaskSnapshot, Publish(s)
  PROVE  ObservationInv'
<1>1. PublishedInv'
  <2> SUFFICES ASSUME NEW p \in published', NEW q \in published', p.task = q.task
               PROVE  (p.version = q.version => p = q) /\ (HasEnded(p) => q.version <= p.version)
    BY DEF PublishedInv
  <2>1. p \in TaskSnapshot /\ q \in TaskSnapshot
    BY DEF Publish, Inv, TypeOK
  <2>2. p.version \in Nat /\ q.version \in Nat
    BY <2>1, SnapshotFields
  <2>3. CASE p \in published /\ q \in published
    BY <2>3 DEF Inv, ObservationInv, PublishedInv
  <2>4. CASE p = s /\ q \in published
    BY <2>2, <2>4 DEF Publish
  <2>5. CASE p \in published /\ q = s
    BY <2>2, <2>5 DEF Publish
  <2> QED
    BY <2>2, <2>3, <2>4, <2>5 DEF Publish
<1> QED
  BY <1>1 DEF Publish, Inv, ObservationInv

\* A late or repeated delivery changes nothing, a newer one replaces the view.
LEMMA PushKeeps ==
  ASSUME Inv, NEW s \in TaskSnapshot, PushTaskSnapshot(s)
  PROVE  ObservationInv'
<1>1. /\ s.task \in Tasks /\ s.version \in Nat /\ s.version > 0 /\ s # NULL
      /\ delivered' = delivered \cup {s} /\ published' = published
  BY SnapshotFields, ApiAssumption DEF PushTaskSnapshot
<1>2. /\ latest \in [Tasks -> Nat] /\ view \in [Tasks -> TaskSnapshot \cup {NULL}]
      /\ \A d \in delivered : d.task \in Tasks /\ d.version \in Nat
  BY SnapshotFields, ApiAssumption DEF Inv, TypeOK
<1>3. PublishedInv'
  BY <1>1 DEF Inv, ObservationInv, PublishedInv
<1>4. CASE IsStale(s)
  <2>1. latest' = latest /\ view' = view /\ s.version <= latest[s.task]
    BY <1>4 DEF PushTaskSnapshot, IsStale
  <2>2. view[s.task] # NULL
    BY <1>1, <1>2, <2>1 DEF Inv, ObservationInv
  <2> QED
    BY <1>1, <1>3, <2>1, <2>2 DEF Inv, ObservationInv
<1>5. CASE ~IsStale(s)
  <2>1. /\ latest' = [latest EXCEPT ![s.task] = s.version]
        /\ view' = [view EXCEPT ![s.task] = s]
        /\ s.version > latest[s.task]
    BY <1>1, <1>2, <1>5 DEF PushTaskSnapshot, IsStale
  <2>2. \A t \in Tasks : view'[t] # NULL =>
          view'[t] \in delivered' /\ view'[t].task = t /\ view'[t].version = latest'[t]
    BY <1>1, <1>2, <2>1 DEF Inv, ObservationInv
  <2>3. \A d \in delivered' : view'[d.task] # NULL /\ d.version <= latest'[d.task]
    BY <1>1, <1>2, <2>1 DEF Inv, ObservationInv
  <2>4. \A t \in Tasks : view'[t] = NULL => latest'[t] = 0
    BY <1>1, <1>2, <2>1 DEF Inv, ObservationInv
  <2> QED
    BY <1>3, <2>2, <2>3, <2>4 DEF ObservationInv
<1> QED
  BY <1>4, <1>5

\* An answer stays right when what it depends on stays as it is.
LEMMA AnswerKeeps ==
  ASSUME Inv, NEW id \in CommandIds, NEW p \in Payloads,
         Refuse(id, p) \/ Register(id, p) \/ Conflict(id, p) \/ Repeat(id, p)
  PROVE  ControlInv'
<1>1. Digest(p) # NULL /\ seen \in [CommandIds -> Meanings \cup {NULL}] /\ keys = seen
  BY NullAssumption DEF Meanings, Inv, TypeOK
<1>2. \A r \in replies : r.id \in CommandIds /\ Consistent(r)
  BY DEF Inv, TypeOK, ControlInv
<1>3. CASE Register(id, p)
  <2> DEFINE new == Reply(id, p, TRUE, Digest(p), NULL)
  <2>1. /\ ~OutOfBounds(p) /\ seen[id] = NULL
        /\ seen' = [seen EXCEPT ![id] = Digest(p)] /\ replies' = replies \cup {new}
    BY <1>3 DEF Register, Answer
  <2>2. seen'[id] = Digest(p) /\ \A i \in CommandIds : i # id => seen'[i] = seen[i]
    BY <1>1, <2>1
  <2>3. /\ new.id = id /\ new.payload = p /\ new.accepted = TRUE
        /\ new.key = Digest(p) /\ new.error = NULL
    BY DEF Reply
  <2>4. Consistent(new)'
    BY <2>1, <2>2, <2>3 DEF Consistent
  <2>5. ASSUME NEW r \in replies PROVE Consistent(r)'
    <3>1. CASE r.id # id
      BY <1>2, <2>2, <3>1 DEF Consistent
    <3>2. CASE r.id = id
      <4>0. Digest(r.payload) # NULL
        BY <2>5, NullAssumption DEF Inv, TypeOK, Meanings
      <4>1. OutOfBounds(r.payload) /\ r.accepted = FALSE /\ r.key = NULL /\ r.error = "INVALID_ARG"
        BY <1>2, <2>1, <2>5, <3>2, <4>0 DEF Consistent
      <4> QED
        BY <4>1 DEF Consistent
    <3> QED
      BY <3>1, <3>2
  <2>6. ASSUME NEW i \in CommandIds, seen'[i] # NULL
        PROVE  \E q \in replies' : q.id = i /\ q.accepted = TRUE /\ Digest(q.payload) = seen'[i]
    <3>1. CASE i = id
      <4>1. new \in replies' /\ new.id = i /\ new.accepted = TRUE /\ Digest(new.payload) = seen'[i]
        BY <2>1, <2>2, <2>3, <3>1
      <4> QED
        BY <4>1
    <3>2. CASE i # id
      <4>1. \E q \in replies : q.id = i /\ q.accepted = TRUE /\ Digest(q.payload) = seen[i]
        BY <2>2, <2>6, <3>2 DEF Inv, ControlInv
      <4> QED
        BY <2>1, <2>2, <3>2, <4>1
    <3> QED
      BY <3>1, <3>2
  <2> QED
    BY <2>1, <2>4, <2>5, <2>6 DEF ControlInv
<1>4. CASE Refuse(id, p) \/ Conflict(id, p) \/ Repeat(id, p)
  <2>1. seen' = seen
    BY <1>4 DEF Refuse, Conflict, Repeat
  <2>2. PICK r : replies' = replies \cup {r} /\ Consistent(r)
    <3>1. CASE Refuse(id, p)
      <4>1. Consistent(Reply(id, p, FALSE, NULL, "INVALID_ARG"))
        BY <3>1 DEF Refuse, Consistent, Reply
      <4> QED
        BY <3>1, <4>1 DEF Refuse, Answer
    <3>2. CASE Conflict(id, p)
      <4>1. Consistent(Reply(id, p, FALSE, NULL, "CONFLICT"))
        BY <3>2 DEF Conflict, Consistent, Reply
      <4> QED
        BY <3>2, <4>1 DEF Conflict, Answer
    <3>3. CASE Repeat(id, p)
      <4>1. Consistent(Reply(id, p, TRUE, keys[id], NULL))
        BY <1>1, <3>3 DEF Repeat, Consistent, Reply
      <4> QED
        BY <3>3, <4>1 DEF Repeat, Answer
    <3> QED
      BY <1>4, <3>1, <3>2, <3>3
  <2>3. \A q \in replies' : Consistent(q)'
    BY <1>2, <2>1, <2>2 DEF Consistent
  <2>4. \A i \in CommandIds : seen'[i] # NULL =>
          \E q \in replies' : q.id = i /\ q.accepted = TRUE /\ Digest(q.payload) = seen'[i]
    BY <2>1, <2>2 DEF Inv, ControlInv
  <2> QED
    BY <2>3, <2>4 DEF ControlInv
<1> QED
  BY <1>3, <1>4

\* Every step of the callers, the channel and the API objects keeps the invariant.
LEMMA InvStep == Inv /\ [Next]_vars => Inv'
<1> SUFFICES ASSUME Inv, [Next]_vars PROVE Inv'
  OBVIOUS
<1>0. TypeOK'
  BY TypeOKStep DEF Inv
<1>1. ASSUME NEW s \in TaskSnapshot, Publish(s) \/ PushTaskSnapshot(s) PROVE Inv'
  <2>1. ObservationInv'
    BY <1>1, PublishKeeps, PushKeeps
  <2>2. UNCHANGED control
    BY <1>1 DEF Publish, PushTaskSnapshot
  <2>3. ControlInv'
    BY <2>2 DEF control, Inv, ControlInv, Consistent
  <2> QED
    BY <1>0, <2>1, <2>3 DEF Inv
<1>2. ASSUME NEW id \in CommandIds, NEW p \in Payloads,
             Refuse(id, p) \/ Register(id, p) \/ Conflict(id, p) \/ Repeat(id, p)
      PROVE  Inv'
  <2>1. UNCHANGED observation
    BY <1>2 DEF Refuse, Register, Conflict, Repeat
  <2>2. ObservationInv'
    BY <2>1 DEF observation, Inv, ObservationInv, PublishedInv
  <2> QED
    BY <1>0, <1>2, <2>2, AnswerKeeps DEF Inv
<1>3. CASE UNCHANGED vars
  BY <1>0, <1>3
  DEF vars, observation, control, Inv, ObservationInv, PublishedInv, ControlInv, Consistent
<1> QED
  BY <1>1, <1>2, <1>3 DEF Next

-----------------------------------------------------------------------------
(* Observation *)

\* Type correctness of the API objects and of what their callers keep.
THEOREM TypeCorrect == Spec => []TypeOK
<1>1. Inv => TypeOK
  BY DEF Inv
<1> QED
  BY <1>1, InvInit, InvStep, PTL DEF Spec

\* The accepted snapshots are exactly the newest ones delivered.
LEMMA ViewIsNewest == ASSUME Inv PROVE View = Newest
<1>1. /\ \A d \in delivered : d.task \in Tasks /\ d.version \in Nat /\ d \in published
      /\ latest \in [Tasks -> Nat]
  BY SnapshotFields, ApiAssumption DEF Inv, TypeOK
<1>2. ASSUME NEW s \in View PROVE s \in Newest
  <2>1. PICK t \in Tasks : view[t] # NULL /\ s = view[t]
    BY <1>2 DEF View
  <2>2. s \in delivered /\ s.task = t /\ s.version = latest[t]
    BY <2>1 DEF Inv, ObservationInv
  <2> QED
    BY <2>2 DEF Newest, Inv, ObservationInv
<1>3. ASSUME NEW s \in Newest PROVE s \in View
  <2>1. /\ s \in delivered /\ s.task \in Tasks /\ view[s.task] # NULL
        /\ s.version <= latest[s.task]
    BY <1>1, <1>3 DEF Newest, Inv, ObservationInv
  <2> DEFINE v == view[s.task]
  <2>2. v \in delivered /\ v.task = s.task /\ v.version = latest[s.task]
    BY <2>1 DEF Inv, ObservationInv
  <2>3. v.version <= s.version
    BY <1>3, <2>2 DEF Newest
  <2>4. v.version = s.version
    BY <1>1, <2>1, <2>2, <2>3
  <2>5. v = s
    BY <1>1, <2>1, <2>2, <2>4 DEF Inv, ObservationInv, PublishedInv
  <2> QED
    BY <2>1, <2>5 DEF View
<1> QED
  BY <1>2, <1>3

\* What the merge asks of a node is what the newest delivered snapshots ask of it,
\* in whatever order and however often they were delivered.
THEOREM MergeOfNewest == Spec => []EffectiveIsNewest
<1>1. Inv => EffectiveIsNewest
  BY ViewIsNewest DEF EffectiveIsNewest
<1> QED
  BY <1>1, InvInit, InvStep, PTL DEF Spec

\* No late snapshot of a task that is known to have ended holds or raises a node.
THEOREM EndedIsFinal == Spec => []EndedTasksHoldNothing
<1>1. ASSUME Inv, NEW d \in delivered, HasEnded(d), NEW n \in Nodes
      PROVE  ~Requires(view[d.task], n) /\ ~Raises(view[d.task], n)
  <2> DEFINE v == view[d.task]
  <2>1. d.task \in Tasks /\ d.version \in Nat /\ d \in published
    BY <1>1, SnapshotFields DEF Inv, TypeOK
  <2>2. v # NULL /\ d.version <= latest[d.task]
    BY <1>1 DEF Inv, ObservationInv
  <2>3. v \in delivered /\ v.task = d.task /\ v.version = latest[d.task]
    BY <1>1, <2>1, <2>2 DEF Inv, ObservationInv
  <2>4. v \in published /\ v.version \in Nat
    BY <1>1, <2>3, SnapshotFields DEF Inv, TypeOK
  <2>5. v.version <= d.version
    BY <1>1, <2>1, <2>3, <2>4 DEF Inv, ObservationInv, PublishedInv
  <2>6. v = d
    BY <1>1, <2>1, <2>2, <2>3, <2>4, <2>5 DEF Inv, ObservationInv, PublishedInv
  <2> QED
    BY <1>1, <2>6 DEF HasEnded, Requires, Raises, IsActive
<1>2. Inv => EndedTasksHoldNothing
  BY <1>1 DEF EndedTasksHoldNothing
<1> QED
  BY <1>2, InvInit, InvStep, PTL DEF Spec

-----------------------------------------------------------------------------
(* Control *)

LEMMA SameDigestSameBounds ==
  ASSUME NEW p, NEW q, Digest(p) = Digest(q)
  PROVE  OutOfBounds(p) <=> OutOfBounds(q)
BY DEF Digest, OutOfBounds

\* A retried command gets the answer it got before, and an id that stands for one
\* command is never accepted for another.
THEOREM OneAnswer == Spec => []OneAnswerPerCommand
<1>1. ASSUME Inv, NEW r \in replies, NEW q \in replies, r.id = q.id
      PROVE  /\ Digest(r.payload) = Digest(q.payload) =>
                   r.accepted = q.accepted /\ r.key = q.key /\ r.error = q.error
             /\ r.accepted /\ q.accepted => Digest(r.payload) = Digest(q.payload)
  <2>1. Consistent(r) /\ Consistent(q)
    BY <1>1 DEF Inv, ControlInv
  <2>2. Digest(r.payload) = Digest(q.payload) => (OutOfBounds(r.payload) <=> OutOfBounds(q.payload))
    BY SameDigestSameBounds
  <2> QED
    BY <1>1, <2>1, <2>2 DEF Consistent
<1>2. Inv => OneAnswerPerCommand
  BY <1>1 DEF OneAnswerPerCommand
<1> QED
  BY <1>2, InvInit, InvStep, PTL DEF Spec

\* A conflict is with a command that was accepted: a refused one leaves its id free.
THEOREM ConflictHasCause == Spec => []ConflictIsJustified
<1>1. ASSUME Inv, NEW r \in replies, r.error = "CONFLICT"
      PROVE  \E q \in replies : q.id = r.id /\ q.accepted /\ Digest(q.payload) # Digest(r.payload)
  <2>1. r.id \in CommandIds /\ Consistent(r)
    BY <1>1 DEF Inv, TypeOK, ControlInv
  <2>2. seen[r.id] # NULL /\ seen[r.id] # Digest(r.payload)
    BY <1>1, <2>1, NullAssumption DEF Consistent
  <2>3. PICK q \in replies : q.id = r.id /\ q.accepted = TRUE /\ Digest(q.payload) = seen[r.id]
    BY <1>1, <2>1, <2>2 DEF Inv, ControlInv
  <2> QED
    BY <2>2, <2>3
<1>2. Inv => ConflictIsJustified
  BY <1>1 DEF ConflictIsJustified
<1> QED
  BY <1>2, InvInit, InvStep, PTL DEF Spec

-----------------------------------------------------------------------------
(* The promise *)

\* However calls are repeated, delayed or reordered, the API implements the
\* registers of ApiPromise: versions only grow, an id is settled once.
THEOREM PromiseKept == Spec => ImplementsPromise
<1>1. Init => Promise!Init
  BY DEF Init, Promise!Init
<1>2. ASSUME Inv, [Next]_vars PROVE [Promise!Next]_Promise!vars
  <2>1. ASSUME NEW s \in TaskSnapshot, PushTaskSnapshot(s), ~IsStale(s)
        PROVE  Promise!Learn(s.task, s.version) /\ s.task \in Tasks /\ s.version \in 1..MaxVersion
    <3>1. s.task \in Tasks /\ s.version \in 1..MaxVersion /\ s.version \in Nat
      BY SnapshotFields
    <3>2. latest[s.task] \in Nat
      BY <1>2, <3>1, ApiAssumption DEF Inv, TypeOK
    <3> QED
      BY <2>1, <3>1, <3>2 DEF PushTaskSnapshot, IsStale, Promise!Learn, control
  <2>2. ASSUME NEW id \in CommandIds, NEW p \in Payloads, Register(id, p)
        PROVE  Promise!Settle(id, Digest(p)) /\ Digest(p) \in Meanings
    BY <2>2 DEF Register, Promise!Settle, Meanings, observation
  <2>3. CASE UNCHANGED <<latest, seen>>
    BY <2>3 DEF Promise!vars
  <2> QED
    BY <1>2, <2>1, <2>2, <2>3
    DEF Next, Promise!Next, Publish, PushTaskSnapshot, Refuse, Conflict, Repeat, vars,
        observation, control
<1> QED
  BY <1>1, <1>2, InvInit, InvStep, PTL DEF Spec, ImplementsPromise, Promise!Spec

-----------------------------------------------------------------------------
(* The plane: its parts share nothing *)

\* Whatever part runs, the API objects do only what SchedulerApi lets them, and so
\* every theorem about Spec holds of the plane.
THEOREM PlaneImplementsApi == PlaneSpec => Spec
<1>1. PlaneInit => Init
  BY DEF PlaneInit
<1>2. [PlaneNext]_planeVars => [Next]_vars
  BY DEF PlaneNext, planeVars
<1> QED
  BY <1>1, <1>2, PTL DEF PlaneSpec, Spec

-----------------------------------------------------------------------------
(* HybridModeTrigger *)

\* The trigger remembers the last raise of this experiment, if there was one; the
\* mode it gave is that of its memory and of the window.
TriggerInv ==
  /\ asked \in Nat /\ lastRaise \in Int /\ raises \subseteq 1..asked
  /\ raises # {} => lastRaise \in raises
  /\ \A r \in raises : r <= lastRaise
  /\ raises = {} /\ ~restarted => lastRaise = NeverRaised
  /\ asked > 0 =>
       mode = IF asked \in raises \/ CoolingDown(asked) THEN "CONSERVATIVE" ELSE Honoured(requested)

LEMMA DecideKeeps ==
  ASSUME TriggerInv, NEW raise \in BOOLEAN, NEW request, Decide(asked + 1, raise, request)
  PROVE  TriggerInv'
<1>1. /\ asked \in Nat /\ lastRaise \in Int /\ raises \subseteq 1..asked
      /\ asked' = asked + 1 /\ requested' = request /\ restarted' = restarted
      /\ asked + 1 \notin raises
  BY DEF Decide, TriggerInv
<1>2. CASE raise
  <2>1. lastRaise' = asked + 1 /\ raises' = raises \cup {asked + 1} /\ mode' = "CONSERVATIVE"
    BY <1>2 DEF Decide
  <2> QED
    BY <1>1, <2>1 DEF TriggerInv
<1>3. CASE ~raise
  <2>1. /\ lastRaise' = lastRaise /\ raises' = raises
        /\ mode' = IF CoolingDown(asked + 1) THEN "CONSERVATIVE" ELSE Honoured(request)
    BY <1>3 DEF Decide
  <2>2. CoolingDown(asked)' <=> CoolingDown(asked + 1)
    BY <1>1, <2>1 DEF CoolingDown
  <2>3. Honoured(requested)' = Honoured(request)
    BY <1>1 DEF Honoured
  <2>4. mode' = IF (asked \in raises)' \/ CoolingDown(asked)' THEN "CONSERVATIVE" ELSE Honoured(requested)'
    BY <1>1, <2>1, <2>2, <2>3
  <2> QED
    BY <1>1, <2>1, <2>4 DEF TriggerInv
<1> QED
  BY <1>2, <1>3

LEMMA TriggerStep == TriggerInv /\ [PlaneNext]_planeVars => TriggerInv'
<1> SUFFICES ASSUME TriggerInv, [PlaneNext]_planeVars PROVE TriggerInv'
  OBVIOUS
<1>1. CASE UNCHANGED triggerVars
  BY <1>1 DEF triggerVars, TriggerInv, CoolingDown, Honoured
<1>2. CASE NextWindow
  BY <1>2, DecideKeeps DEF NextWindow
<1>3. CASE Restart
  BY <1>3 DEF Restart, TriggerInv
<1> QED
  BY <1>1, <1>2, <1>3 DEF PlaneNext, planeVars, TriggerNext

\* A raise keeps the mode CONSERVATIVE for its cooldown, however the caller goes on,
\* and no other mode is withheld longer than that unless by the memory of an earlier
\* experiment.  The start value counts as a raise long ago: with a cooldown that
\* reaches back to it the first windows would be CONSERVATIVE too.
THEOREM CooldownKept ==
  ASSUME CooldownWindows <= 1 - NeverRaised
  PROVE  PlaneSpec => []CooldownHolds
<1>1. PlaneInit => TriggerInv
  BY DEF PlaneInit, TriggerInit, TriggerInv, NeverRaised
<1>2. TriggerInv => CooldownHolds
  <2> SUFFICES ASSUME TriggerInv, asked > 0
               PROVE  LET cooling == \E r \in raises : asked - r < CooldownWindows \/ r = asked
                      IN /\ cooling => mode = "CONSERVATIVE"
                         /\ ~cooling /\ (~restarted \/ raises # {}) => mode = Honoured(requested)
    BY DEF CooldownHolds
  <2>1. /\ asked \in Nat /\ lastRaise \in Int /\ CooldownWindows \in Nat /\ raises \subseteq Int
        /\ mode = IF asked \in raises \/ CoolingDown(asked) THEN "CONSERVATIVE" ELSE Honoured(requested)
    BY CooldownAssumption DEF TriggerInv
  <2>2. ASSUME NEW r \in raises, asked - r < CooldownWindows \/ r = asked
        PROVE  mode = "CONSERVATIVE"
    BY <2>1, <2>2 DEF TriggerInv, CoolingDown
  <2>3. ASSUME \A r \in raises : ~(asked - r < CooldownWindows \/ r = asked),
               ~restarted \/ raises # {}
        PROVE  mode = Honoured(requested)
    BY <2>1, <2>3 DEF TriggerInv, CoolingDown, NeverRaised
  <2> QED
    BY <2>2, <2>3
<1> QED
  BY <1>1, <1>2, TriggerStep, PTL DEF PlaneSpec

-----------------------------------------------------------------------------
(* run_mvp_once() *)

NodeCount == Len(NodeSpecs)
LastCall == 2 * NodeCount + 2

\* The calls, node by node, and the two probes.
LEMMA CallsAre ==
  /\ NodeCount \in Nat /\ Len(Calls) = LastCall /\ DOMAIN Calls = 1..LastCall
  /\ \A k \in 1..NodeCount : /\ NodeSpecs[k] \in Nodes
                     /\ Calls[2 * k - 1] = NodeCalls(NodeSpecs[k])[1]
                     /\ Calls[2 * k] = NodeCalls(NodeSpecs[k])[2]
  /\ Calls[LastCall - 1] = Probes[1] /\ Calls[LastCall] = Probes[2]
<1>1. NodeCount \in Nat /\ \A k \in 1..NodeCount : NodeSpecs[k] \in Nodes
  BY DemoAssumption DEF NodeCount
<1>2. Len(Calls) = LastCall /\ DOMAIN Calls = 1..LastCall
  BY <1>1 DEF Calls, NodeCount, LastCall
<1>3. ASSUME NEW k \in 1..NodeCount
      PROVE  /\ Calls[2 * k - 1] = NodeCalls(NodeSpecs[k])[1]
             /\ Calls[2 * k] = NodeCalls(NodeSpecs[k])[2]
  <2>1. /\ 2 * k - 1 \in 1..(2 * NodeCount) /\ 2 * k \in 1..(2 * NodeCount)
        /\ (2 * k) % 2 = 0 /\ (2 * k - 1) % 2 = 1
        /\ (2 * k - 1 + 1) \div 2 = k /\ (2 * k + 1) \div 2 = k
    BY <1>1
  <2> QED
    BY <1>1, <2>1 DEF Calls, NodeCount
<1>4. Calls[LastCall - 1] = Probes[1] /\ Calls[LastCall] = Probes[2]
  BY <1>1 DEF Calls, NodeCount, LastCall
<1> QED
  BY <1>1, <1>2, <1>3, <1>4

\* Each is a lifecycle command, a quota or a probe.
LEMMA CallKinds ==
  ASSUME NEW i \in 1..LastCall
  PROVE  \/ \E k \in 1..NodeCount : i = 2 * k - 1 \/ i = 2 * k
         \/ i \in {LastCall - 1, LastCall}
<1>1. NodeCount \in Nat
  BY CallsAre
<1>2. CASE i <= 2 * NodeCount /\ i % 2 = 1
  <2>1. (i + 1) \div 2 \in 1..NodeCount /\ i = 2 * ((i + 1) \div 2) - 1
    BY <1>1, <1>2 DEF LastCall
  <2> QED
    BY <2>1
<1>3. CASE i <= 2 * NodeCount /\ i % 2 = 0
  <2>1. i \div 2 \in 1..NodeCount /\ i = 2 * (i \div 2)
    BY <1>1, <1>3 DEF LastCall
  <2> QED
    BY <2>1
<1> QED
  BY <1>1, <1>2, <1>3 DEF LastCall

LEMMA NodeCallFields ==
  ASSUME NEW n \in Nodes
  PROVE  /\ NodeCalls(n)[1].id = <<n, Lifecycle(n)>>
         /\ NodeCalls(n)[1].payload.command = Lifecycle(n)
         /\ NodeCalls(n)[2].id = <<n, "set-cpu">>
         /\ NodeCalls(n)[2].payload.command = "set_cpu_quota"
         /\ NodeCalls(n)[2].payload.target = n
         /\ Lifecycle(n) \in {"start_node", "stop_node"}
BY DEF NodeCalls, ToNode, QuotaId, Lifecycle

LEMMA ProbeFields ==
  /\ Probes[1].id = <<ProbeNode, "probe">> /\ Probes[2].id = <<ProbeNode, "probe">>
  /\ Probes[1].payload # Probes[2].payload
  /\ Digest(Probes[1].payload) # Digest(Probes[2].payload)
BY DEF Probes, ToNode, Digest

\* No two calls but the probes have one id.
LEMMA CallIds ==
  ASSUME NEW i \in 1..LastCall, NEW j \in 1..LastCall, i < j, Calls[i].id = Calls[j].id
  PROVE  i = LastCall - 1 /\ j = LastCall
<1>0. \A k, l \in 1..NodeCount : NodeSpecs[k] = NodeSpecs[l] => k = l
  BY DemoAssumption DEF NodeCount
<1>1. ASSUME NEW k \in 1..NodeCount
      PROVE  /\ Calls[2 * k - 1].id = <<NodeSpecs[k], Lifecycle(NodeSpecs[k])>>
             /\ Calls[2 * k].id = <<NodeSpecs[k], "set-cpu">>
             /\ Lifecycle(NodeSpecs[k]) \in {"start_node", "stop_node"}
  BY CallsAre, NodeCallFields
<1>2. Calls[LastCall - 1].id = <<ProbeNode, "probe">> /\ Calls[LastCall].id = <<ProbeNode, "probe">>
  BY CallsAre, ProbeFields
<1>3. ASSUME NEW k \in 1..NodeCount, i = 2 * k - 1 \/ i = 2 * k PROVE FALSE
  <2>1. ASSUME NEW l \in 1..NodeCount, j = 2 * l - 1 \/ j = 2 * l PROVE FALSE
    <3>1. NodeSpecs[k] = NodeSpecs[l]
      BY <1>1, <1>3, <2>1
    <3>2. k = l
      BY <1>0, <3>1
    <3>3. i = 2 * k - 1 /\ j = 2 * k
      BY <1>3, <2>1, <3>2
    <3> QED
      BY <1>1, <3>3
  <2>2. CASE j \in {LastCall - 1, LastCall}
    BY <1>1, <1>2, <1>3, <2>2
  <2> QED
    BY <2>1, <2>2, CallKinds
<1>4. i \in {LastCall - 1, LastCall}
  BY <1>3, CallKinds
<1>5. NodeCount \in Nat
  BY CallsAre
<1> QED
  BY <1>4, <1>5 DEF LastCall

LEMMA DigestNotNull ==
  \A c \in {"start_node", "stop_node", "set_cpu_quota"}, n \in Nodes, v \in Nat : <<c, n, v>> # NULL
BY DemoAssumption

LEMMA CallDigests ==
  ASSUME quota \in [Nodes -> QuotaDefaults], NEW i \in 1..LastCall
  PROVE  Digest(Calls[i].payload) # NULL /\ Calls[i].id \in DemoIds
<1>1. ASSUME NEW k \in 1..NodeCount, i = 2 * k - 1 \/ i = 2 * k
      PROVE  Digest(Calls[i].payload) # NULL /\ Calls[i].id \in DemoIds
  <2>1. /\ NodeSpecs[k] \in Nodes /\ quota[NodeSpecs[k]] \in Nat
        /\ Calls[2 * k - 1] = NodeCalls(NodeSpecs[k])[1] /\ Calls[2 * k] = NodeCalls(NodeSpecs[k])[2]
    BY CallsAre, DemoAssumption
  <2>2. CASE i = 2 * k - 1
    BY <2>1, <2>2, DigestNotNull DEF NodeCalls, ToNode, Digest, Lifecycle, DemoIds
  <2>3. CASE i = 2 * k
    BY <2>1, <2>3, DigestNotNull DEF NodeCalls, ToNode, Digest, QuotaId, DemoIds
  <2> QED
    BY <1>1, <2>2, <2>3
<1>2. CASE i \in {LastCall - 1, LastCall}
  BY <1>2, CallsAre, DemoAssumption DEF Probes, ToNode, Digest, DemoIds
<1> QED
  BY <1>1, <1>2, CallKinds

\* The answer to call i: all but the last are accepted.
Answers(r, i) ==
  /\ r.id = Calls[i].id /\ r.payload = Calls[i].payload
  /\ i < LastCall => r.accepted = TRUE
  /\ i = LastCall => r.accepted = FALSE

\* The first n calls have their answers: all accepted but the second probe, each
\* id standing for the first command sent with it.
Answered(n) ==
  /\ \A i \in 1..n : \E r \in demoReplies : Answers(r, i)
  /\ \A i \in 1..n : i < LastCall =>
       demoSeen[Calls[i].id] = Digest(Calls[i].payload) /\ ~OutOfBounds(Calls[i].payload)
  /\ \A r \in demoReplies : \E i \in 1..n : Answers(r, i)
  /\ \A id \in DemoIds : demoSeen[id] # NULL => \E i \in 1..n : Calls[i].id = id

\* As long as nothing was refused, the calls made so far have their answers.
DemoInv ==
  /\ quota \in [Nodes -> QuotaDefaults]
  /\ call \in 1..(LastCall + 1)
  /\ result = "written" => call > LastCall
  /\ demoSeen \in [DemoIds -> {demoSeen[id] : id \in DemoIds}]
  /\ result # "raised" => Answered(call - 1)

LEMMA CallsKept == quota' = quota => Calls' = Calls
BY DEF Calls, NodeCalls, QuotaId, Probes, Lifecycle, ToNode

\* A command under a new id is registered, the second probe meets a conflict.
LEMMA AcceptKeeps == ASSUME DemoInv, Accept PROVE DemoInv'
<1>0. PICK n \in 1..LastCall : n = call
  BY CallsAre DEF Accept, DemoInv, LastCall
<1> DEFINE id == Calls[n].id
           p == Calls[n].payload
<1>1. /\ n = call /\ result = "none" /\ result' = "none" /\ call' = n + 1
      /\ quota' = quota /\ LastCall \in Nat /\ LastCall' = LastCall /\ Calls' = Calls
      /\ Answered(n - 1)
  BY <1>0, CallsAre, CallsKept DEF Accept, DemoInv, LastCall, NodeCount
<1>2. Digest(p) # NULL /\ id \in DemoIds
  BY CallDigests DEF DemoInv
<1>3. \A i : i \in 1..n <=> i = n \/ i \in 1..(n - 1)
  BY <1>1
<1>4. ASSUME Answered(n)', demoSeen' \in [DemoIds -> {demoSeen'[i] : i \in DemoIds}]
      PROVE  DemoInv'
  BY <1>1, <1>4 DEF DemoInv
<1>5. CASE n < LastCall
  <2>1. \A i \in 1..(n - 1) : Calls[i].id # id
    BY <1>1, <1>5, CallIds
  <2>2. demoSeen[id] = NULL
    BY <1>1, <1>2, <2>1 DEF Answered
  <2>3. Coordinator!Register(id, p)
    BY <1>1, <1>2, <2>2 DEF Accept, Coordinator!Conflict, Coordinator!Repeat, Coordinator!Digest, Digest
  <2> DEFINE new == Reply(id, p, TRUE, Digest(p), NULL)
  <2>4. /\ ~OutOfBounds(p) /\ demoSeen' = [demoSeen EXCEPT ![id] = Digest(p)]
        /\ demoReplies' = demoReplies \cup {new}
    BY <2>3 DEF Coordinator!Register, Coordinator!OutOfBounds, Coordinator!Answer,
       Coordinator!Reply, Coordinator!Digest, OutOfBounds, Reply, Digest
  <2>5. Answers(new, n)
    BY <1>5 DEF Reply, Answers
  <2>6. /\ demoSeen'[id] = Digest(p) /\ \A i \in DemoIds : i # id => demoSeen'[i] = demoSeen[i]
        /\ demoSeen' \in [DemoIds -> {demoSeen'[i] : i \in DemoIds}]
    BY <1>2, <2>4 DEF DemoInv
  <2>7. \A i \in 1..(n - 1) : Calls[i].id \in DemoIds
    BY <1>1, CallDigests DEF DemoInv
  <2>8. ASSUME NEW i \in 1..n
        PROVE  /\ \E r \in demoReplies' : Answers(r, i)
               /\ demoSeen'[Calls[i].id] = Digest(Calls[i].payload)
               /\ ~OutOfBounds(Calls[i].payload)
    <3>1. CASE i = n
      BY <2>4, <2>5, <2>6, <3>1
    <3>2. CASE i \in 1..(n - 1)
      <4>1. /\ \E r \in demoReplies : Answers(r, i)
            /\ demoSeen[Calls[i].id] = Digest(Calls[i].payload) /\ ~OutOfBounds(Calls[i].payload)
        BY <1>1, <1>5, <3>2 DEF Answered
      <4>2. demoSeen'[Calls[i].id] = demoSeen[Calls[i].id]
        BY <2>1, <2>6, <2>7, <3>2
      <4> QED
        BY <2>4, <4>1, <4>2
    <3> QED
      BY <1>3, <3>1, <3>2
  <2>9. ASSUME NEW r \in demoReplies' PROVE \E i \in 1..n : Answers(r, i)
    <3>1. CASE r = new
      BY <1>3, <2>5, <3>1
    <3>2. CASE r \in demoReplies
      BY <1>1, <1>3, <3>2 DEF Answered
    <3> QED
      BY <2>4, <3>1, <3>2
  <2>10. ASSUME NEW i \in DemoIds, demoSeen'[i] # NULL
         PROVE  \E j \in 1..n : Calls[j].id = i
    BY <1>1, <1>3, <2>6, <2>10 DEF Answered
  <2>11. Answered(n)'
    <3>1. \A r, i : Answers(r, i)' <=> Answers(r, i)
      BY <1>1 DEF Answers
    <3>2. \A i \in 1..n : \E r \in demoReplies' : Answers(r, i)'
      BY <2>8, <3>1
    <3>3. \A r \in demoReplies' : \E i \in 1..n : Answers(r, i)'
      BY <2>9, <3>1
    <3> QED
      BY <1>1, <2>8, <2>10, <3>2, <3>3 DEF Answered
  <2> QED
    BY <1>4, <2>6, <2>11
<1>6. CASE n = LastCall
  <2>1. LastCall - 1 \in 1..(n - 1) /\ Calls[LastCall - 1].id = id /\ p = Probes[2].payload
        /\ Calls[LastCall - 1] = Probes[1]
    BY <1>6, CallsAre, ProbeFields DEF LastCall
  <2>2. demoSeen[id] = Digest(Probes[1].payload)
    BY <1>1, <1>6, <2>1 DEF Answered
  <2>3. demoSeen[id] # NULL /\ demoSeen[id] # Digest(p)
    <3>1. Digest(Calls[LastCall - 1].payload) # NULL
      BY <1>6, <2>1, CallDigests DEF DemoInv
    <3> QED
      BY <2>1, <2>2, <3>1, ProbeFields
  <2>4. Coordinator!Conflict(id, p)
    BY <1>1, <2>3 DEF Accept, Coordinator!Register, Coordinator!Repeat, Coordinator!Digest, Digest
  <2> DEFINE new == Reply(id, p, FALSE, NULL, "CONFLICT")
  <2>5. demoSeen' = demoSeen /\ demoReplies' = demoReplies \cup {new}
    BY <2>4 DEF Coordinator!Conflict, Coordinator!Answer, Coordinator!Reply, Reply
  <2>6. Answers(new, n)
    BY <1>1, <1>6 DEF Reply, Answers
  <2>7. ASSUME NEW i \in 1..n
        PROVE  /\ \E r \in demoReplies' : Answers(r, i)
               /\ i < LastCall => demoSeen'[Calls[i].id] = Digest(Calls[i].payload)
                              /\ ~OutOfBounds(Calls[i].payload)
    <3>1. CASE i = n
      <4>1. new \in demoReplies' /\ Answers(new, i)
        BY <2>5, <2>6, <3>1
      <4>2. ~(i < LastCall)
        BY <1>1, <1>6, <3>1
      <4> QED
        BY <4>1, <4>2
    <3>2. CASE i \in 1..(n - 1)
      BY <1>1, <2>5, <3>2 DEF Answered
    <3> QED
      BY <1>3, <3>1, <3>2
  <2>8. ASSUME NEW r \in demoReplies' PROVE \E i \in 1..n : Answers(r, i)
    <3>1. CASE r = new
      BY <1>3, <2>6, <3>1
    <3>2. CASE r \in demoReplies
      BY <1>1, <1>3, <3>2 DEF Answered
    <3> QED
      BY <2>5, <3>1, <3>2
  <2>9. \A i \in DemoIds : demoSeen'[i] # NULL => \E j \in 1..n : Calls[j].id = i
    BY <1>1, <1>3, <2>5 DEF Answered
  <2>10. Answered(n)'
    <3>1. \A r, i : Answers(r, i)' <=> Answers(r, i)
      BY <1>1 DEF Answers
    <3>2. \A i \in 1..n : \E r \in demoReplies' : Answers(r, i)'
      BY <2>7, <3>1
    <3>3. \A r \in demoReplies' : \E i \in 1..n : Answers(r, i)'
      BY <2>8, <3>1
    <3> QED
      BY <1>1, <2>7, <2>9, <3>2, <3>3 DEF Answered
  <2> QED
    BY <1>4, <2>5, <2>10 DEF DemoInv
<1> QED
  BY <1>1, <1>5, <1>6

LEMMA DemoStep == DemoInv /\ [PlaneNext]_planeVars => DemoInv'
<1> SUFFICES ASSUME DemoInv, [PlaneNext]_planeVars PROVE DemoInv'
  OBVIOUS
<1>1. CASE UNCHANGED demoVars
  BY <1>1, CallsKept DEF demoVars, coordinator, DemoInv, Answered, Answers, LastCall, NodeCount, OutOfBounds
<1>2. CASE Accept
  BY <1>2, AcceptKeeps
<1>3. CASE Invalid
  BY <1>3 DEF Invalid, Coordinator!Refuse, DemoInv
<1>4. CASE WriteResult
  <2>1. result # "raised" /\ result' = "written" /\ call > LastCall /\ UNCHANGED <<quota, call, coordinator>>
    BY <1>4, CallsAre DEF WriteResult
  <2> QED
    BY <2>1, CallsKept DEF coordinator, DemoInv, Answered, Answers, LastCall, NodeCount, OutOfBounds
<1> QED
  BY <1>1, <1>2, <1>3, <1>4 DEF PlaneNext, planeVars, DemoNext

\* A result file stands for exactly one lifecycle command and one quota within its
\* bounds for every node of the registry, and one refusal, of the second probe.
THEOREM ResultStands == PlaneSpec => []ResultIsWhole
<1>1. PlaneInit => DemoInv
  BY CallsAre DEF PlaneInit, DemoInit, DemoInv, Answered, LastCall
<1>2. ASSUME DemoInv, result = "written"
      PROVE  /\ \A n \in Nodes : \A command \in {"start_node", "stop_node"} :
                  (\E r \in demoReplies : r.id = <<n, command>> /\ r.accepted) <=> command = Lifecycle(n)
             /\ \A n \in Nodes : \E r \in demoReplies :
                  r.accepted /\ r.payload.command = "set_cpu_quota" /\ r.payload.target = n
                  /\ r.payload.value \in QuotaBounds[n]
             /\ \A r \in demoReplies : ~r.accepted <=> (r.payload = Probes[2].payload /\ r.id[2] = "probe")
  <2>0. NodeCount \in Nat /\ LastCall = 2 * NodeCount + 2
    BY CallsAre DEF LastCall
  <2>1. /\ \A i \in 1..LastCall :
             /\ \E r \in demoReplies : Answers(r, i)
             /\ i < LastCall => ~OutOfBounds(Calls[i].payload)
        /\ \A r \in demoReplies : \E i \in 1..LastCall : Answers(r, i)
    BY <1>2, <2>0 DEF DemoInv, Answered
  <2>2. ASSUME NEW k \in 1..NodeCount
        PROVE  /\ Calls[2 * k - 1].id = <<NodeSpecs[k], Lifecycle(NodeSpecs[k])>>
               /\ Calls[2 * k].id = <<NodeSpecs[k], "set-cpu">>
               /\ Lifecycle(NodeSpecs[k]) \in {"start_node", "stop_node"}
               /\ 2 * k - 1 \in 1..LastCall /\ 2 * k \in 1..LastCall /\ 2 * k < LastCall
    BY <2>0, CallsAre, NodeCallFields
  <2>3. /\ Calls[LastCall - 1].id = <<ProbeNode, "probe">> /\ Calls[LastCall].id = <<ProbeNode, "probe">>
        /\ Calls[LastCall - 1] = Probes[1] /\ Calls[LastCall] = Probes[2]
    BY CallsAre, ProbeFields
  <2>4. ASSUME NEW n \in Nodes PROVE \E k \in 1..NodeCount : NodeSpecs[k] = n
    BY DemoAssumption DEF NodeCount
  <2>5. ASSUME NEW n \in Nodes, NEW command \in {"start_node", "stop_node"}
        PROVE  (\E r \in demoReplies : r.id = <<n, command>> /\ r.accepted) <=> command = Lifecycle(n)
    <3>1. ASSUME NEW r \in demoReplies, r.id = <<n, command>> PROVE command = Lifecycle(n)
      <4>1. PICK i \in 1..LastCall : Calls[i].id = <<n, command>>
        BY <2>1, <3>1 DEF Answers
      <4>2. i \notin {LastCall - 1, LastCall}
        BY <2>3, <4>1
      <4>3. PICK k \in 1..NodeCount : i = 2 * k - 1 \/ i = 2 * k
        BY <4>2, CallKinds
      <4> QED
        BY <2>2, <4>1, <4>3
    <3>2. ASSUME command = Lifecycle(n)
          PROVE  \E r \in demoReplies : r.id = <<n, command>> /\ r.accepted
      <4>1. PICK k \in 1..NodeCount : NodeSpecs[k] = n
        BY <2>4
      <4>2. 2 * k - 1 \in 1..LastCall /\ 2 * k - 1 < LastCall /\ Calls[2 * k - 1].id = <<n, command>>
        BY <2>0, <2>2, <3>2, <4>1
      <4> QED
        BY <2>1, <4>2 DEF Answers
    <3> QED
      BY <3>1, <3>2
  <2>6. ASSUME NEW n \in Nodes
        PROVE  \E r \in demoReplies :
                 r.accepted /\ r.payload.command = "set_cpu_quota" /\ r.payload.target = n
                 /\ r.payload.value \in QuotaBounds[n]
    <3>1. PICK k \in 1..NodeCount : NodeSpecs[k] = n
      BY <2>4
    <3>2. /\ Calls[2 * k].payload.command = "set_cpu_quota" /\ Calls[2 * k].payload.target = n
          /\ 2 * k \in 1..LastCall /\ 2 * k < LastCall
      BY <2>2, <3>1, CallsAre, NodeCallFields
    <3>3. Calls[2 * k].payload.value \in QuotaBounds[n]
      BY <2>1, <3>2 DEF OutOfBounds
    <3>4. PICK r \in demoReplies : r.payload = Calls[2 * k].payload /\ r.accepted = TRUE
      BY <2>1, <3>2 DEF Answers
    <3> QED
      BY <3>2, <3>3, <3>4
  <2>7. ASSUME NEW r \in demoReplies
        PROVE  ~r.accepted <=> (r.payload = Probes[2].payload /\ r.id[2] = "probe")
    <3>1. PICK i \in 1..LastCall : Answers(r, i)
      BY <2>1
    <3>2. CASE i = LastCall
      BY <2>0, <2>3, <3>1, <3>2 DEF Answers
    <3>3. CASE i = LastCall - 1
      BY <2>0, <2>3, <3>1, <3>3, ProbeFields DEF Answers
    <3>4. ASSUME NEW k \in 1..NodeCount, i = 2 * k - 1 \/ i = 2 * k
          PROVE  r.accepted /\ r.id[2] # "probe"
      <4>0. i < LastCall /\ Calls[i].id \in Nodes \X {"start_node", "stop_node", "set-cpu"}
        <5>1. NodeSpecs[k] \in Nodes
          BY CallsAre
        <5>2. i < LastCall
          BY <2>0, <3>4
        <5>3. Calls[i].id \in {<<NodeSpecs[k], Lifecycle(NodeSpecs[k])>>, <<NodeSpecs[k], "set-cpu">>}
          BY <2>2, <3>4
        <5>4. Lifecycle(NodeSpecs[k]) \in {"start_node", "stop_node"}
          BY <2>2
        <5> QED
          BY <5>1, <5>2, <5>3, <5>4
      <4>1. i < LastCall /\ Calls[i].id[2] # "probe"
        BY <4>0
      <4>2. r.accepted = TRUE /\ r.id = Calls[i].id
        BY <3>1, <4>1 DEF Answers
      <4> QED
        BY <4>1, <4>2
    <3> QED
      BY <3>2, <3>3, <3>4, CallKinds
  <2> QED
    BY <2>5, <2>6, <2>7
<1>3. DemoInv => ResultIsWhole
  BY <1>2 DEF ResultIsWhole
<1> QED
  BY <1>1, <1>3, DemoStep, PTL DEF PlaneSpec
=============================================================================
