--------------------------- MODULE RunStore_proof ---------------------------
(* Proofs about RunStore, for any number of pushes, refs, faults, crashes. *)
EXTENDS RunStore, TLAPS

USE NullAssumption, OutcomeAssumption, BoundsAssumption

-----------------------------------------------------------------------------
(* Rows *)

\* The UPDATE for queued rows keeps the type of a row and fills the outcome
\* columns if they are NULL.
LEMMA CloseFields ==
  ASSUME NEW x \in Row, NEW t \in Nat, NEW o \in Outcomes \cup {Null}
  PROVE  /\ Close(x, t, o) \in Row
         /\ Close(x, t, o).created = x.created
         /\ Close(x, t, o).dispatched = x.dispatched
         /\ Close(x, t, o).resolved = Coalesce(x.resolved, t)
         /\ Close(x, t, o).outcome = Coalesce(x.outcome, o)
BY DEF Row, Time, Close, Coalesce

\* The UPDATE of resolve, cancel and reconcile fills all three columns, each
\* only if it is NULL.
LEMMA StampFields ==
  ASSUME NEW x \in Row, NEW t \in Nat, NEW o \in Outcomes \cup {Null}
  PROVE  /\ Stamp(x, t, o) \in Row
         /\ Stamp(x, t, o).created = x.created
         /\ Stamp(x, t, o).dispatched = Coalesce(x.dispatched, t)
         /\ Stamp(x, t, o).resolved = Coalesce(x.resolved, t)
         /\ Stamp(x, t, o).outcome = Coalesce(x.outcome, o)
BY DEF Row, Time, Stamp, Close, Coalesce

\* The UPDATE of the endpoint replaces the dispatch time and nothing else.
LEMMA MarkFields ==
  ASSUME NEW x \in Row, NEW t \in Nat
  PROVE  /\ MarkDispatched(x, t) \in Row
         /\ MarkDispatched(x, t).created = x.created
         /\ MarkDispatched(x, t).dispatched = t
         /\ MarkDispatched(x, t).resolved = x.resolved
         /\ MarkDispatched(x, t).outcome = x.outcome
BY DEF Row, Time, MarkDispatched

-----------------------------------------------------------------------------
(* Type correctness *)

\* A statement over S stores rows and nothing else.
LEMMA WriteType ==
  ASSUME NEW S \in SUBSET Runs, NEW new, \A r \in S : new[r] \in Row,
         row \in [Runs -> Row], Write(S, new)
  PROVE  row' \in [Runs -> Row]
BY DEF Write

\* execute knows three outcomes.
LEMMA VerdictType ==
  ASSUME NEW ok \in BOOLEAN, NEW finished
  PROVE  VerdictOf(ok, finished) \in {"succeeded", "failed-pipeline", "failed-internal"}
BY DEF VerdictOf

\* Every step keeps the types.
LEMMA TypeStep == TypeOK /\ [Next]_vars => TypeOK'
<1> SUFFICES ASSUME TypeOK, [Next]_vars PROVE TypeOK'
  OBVIOUS
<1> USE DEF TypeOK, Outcomes
<1>1. CASE Tick
  BY <1>1 DEF Tick, handlerVars, workerVars, apiVars, historyVars
<1>2. CASE Startup
  <2>1. CASE Bind
    BY <2>1 DEF Bind, ServerStates, handlerVars, workerVars, apiVars, historyVars
  <2>2. CASE Reconcile
    <3>1. \A r \in Orphans : Orphaned(r) \in Row
      BY StampFields DEF Orphans, Orphaned
    <3>2. row' \in [Runs -> Row]
      BY <2>2, <3>1, WriteType DEF Reconcile, Orphans
    <3> QED
      BY <2>2, <3>2 DEF Reconcile, ServerStates, handlerVars, workerVars, apiVars,
           historyVars
  <2>3. CASE Serve
    BY <2>3 DEF Serve, ServerStates, handlerVars, workerVars, apiVars, historyVars
  <2> QED
    BY <1>2, <2>1, <2>2, <2>3 DEF Startup
<1>3. CASE Crash
  BY <1>3 DEF Crash, ServerStates, PushStates, Ended, WorkerStates, historyVars
<1>4. ASSUME NEW r \in Runs, Accept(r) PROVE TypeOK'
  BY <1>4 DEF Accept, Step, PushStates, workerVars, apiVars
<1>5. ASSUME NEW r \in Runs, Handler(r) PROVE TypeOK'
  <2>1. CASE NoPipeline(r)
    BY <2>1 DEF NoPipeline, Step, PushStates, Ended, workerVars, apiVars, historyVars
  <2>2. CASE BeginCreate(r)
    BY <2>2 DEF BeginCreate, Step, PushStates, workerVars, apiVars, historyVars
  <2>3. CASE SelectActive(r)
    BY <2>3 DEF SelectActive, ActiveOf, Step, PushStates, workerVars, apiVars,
         historyVars
  <2>4. CASE CancelActive(r)
    <3>1. PICK q \in todo[r] :
            LET new == [x \in {q} |-> Stamp(row[q], now[r], "superseded")]
            IN  \/ /\ Passes({q}, new)
                   /\ Write({q}, new)
                   /\ todo' = [todo EXCEPT ![r] = @ \ {q}]
                   /\ Step(r, "cancelActive", "cancelActive")
                \/ /\ ~Passes({q}, new)
                   /\ todo' = [todo EXCEPT ![r] = {}]
                   /\ Step(r, "cancelActive", "done")
                   /\ UNCHANGED row
      BY <2>4 DEF CancelActive
    <3>2. q \in Runs /\ Stamp(row[q], now[r], "superseded") \in Row
      BY StampFields
    <3>3. row' \in [Runs -> Row]
      BY <3>1, <3>2, WriteType
    <3>4. pc' \in [Runs -> PushStates] /\ todo' \in [Runs -> SUBSET Runs]
      BY <3>1 DEF Step, PushStates, Ended
    <3> QED
      BY <2>4, <3>3, <3>4 DEF CancelActive, workerVars, apiVars, historyVars
  <2>5. CASE ActiveCancelled(r)
    BY <2>5 DEF ActiveCancelled, Step, PushStates, workerVars, apiVars, historyVars
  <2>6. CASE CancelQueued(r)
    <3>1. \A q \in QueuedOf(r) : Close(row[q], now[r], "superseded") \in Row
      BY CloseFields DEF QueuedOf
    <3>2. row' \in [Runs -> Row]
      BY <2>6, <3>1, WriteType DEF CancelQueued, QueuedOf
    <3> QED
      BY <2>6, <3>2 DEF CancelQueued, Step, PushStates, Ended, workerVars, apiVars,
           historyVars
  <2>7. CASE InsertRow(r)
    <3>1. Inserted \in Row
      BY DEF Inserted, NoRow, Row, Time
    <3> QED
      BY <2>7, <3>1 DEF InsertRow, Step, PushStates, workerVars, apiVars, historyVars
  <2>8. CASE Launch(r)
    BY <2>8 DEF Launch, Step, PushStates, WorkerStates, apiVars, historyVars
  <2>9. CASE Judge(r)
    BY <2>9, VerdictType DEF Judge, Fault, Step, PushStates, Reports, workerVars,
         apiVars, historyVars
  <2>10. CASE Resolve(r)
    <3>1. Stamp(row[r], now[r], verdict[r]) \in Row
      BY StampFields, ZenonT(60)
    <3>2. row' \in [Runs -> Row]
      BY <2>10, <3>1, WriteType DEF Resolve
    <3> QED
      BY <2>10, <3>2 DEF Resolve, Step, PushStates, Ended, workerVars, apiVars,
           historyVars
  <2> QED
    BY <1>5, <2>1, <2>2, <2>3, <2>4, <2>5, <2>6, <2>7, <2>8, <2>9, <2>10 DEF Handler
<1>6. ASSUME NEW r \in Runs, HandlerFails(r) PROVE TypeOK'
  BY <1>6 DEF HandlerFails, Fault, Step, PushStates, Ended, workerVars, apiVars,
       historyVars
<1>7. ASSUME NEW r \in Runs, Api(r) \/ ApiFails(r) PROVE TypeOK'
  <2>1. CASE ApiSelect(r)
    BY <2>1 DEF ApiSelect, Answer, WorkerStates, handlerVars, workerVars, historyVars
  <2>2. CASE ApiStamp(r)
    BY <2>2 DEF ApiStamp, handlerVars, workerVars, historyVars
  <2>3. CASE ApiUpdate(r)
    <3>1. MarkDispatched(row[r], apiNow[r]) \in Row
      BY MarkFields
    <3>2. row' \in [Runs -> Row]
      BY <2>3, <3>1, WriteType DEF ApiUpdate
    <3> QED
      BY <2>3, <3>2 DEF ApiUpdate, Answer, WorkerStates, handlerVars, workerVars,
           historyVars
  <2>4. CASE ApiFails(r)
    BY <2>4 DEF ApiFails, Fault, Answer, WorkerStates, handlerVars, workerVars,
         historyVars
  <2> QED
    BY <1>7, <2>1, <2>2, <2>3, <2>4 DEF Api
<1>8. ASSUME NEW r \in Runs, GiveUp(r) \/ Exit(r) PROVE TypeOK'
  BY <1>8 DEF GiveUp, Exit, Fault, WorkerStates, handlerVars, apiVars, historyVars
<1>9. CASE UNCHANGED vars
  BY <1>9 DEF vars, handlerVars, workerVars, apiVars, historyVars
<1> QED
  BY <1>1, <1>2, <1>3, <1>4, <1>5, <1>6, <1>7, <1>8, <1>9 DEF Next

\* The empty table has the right types.
LEMMA TypeInit == Init => TypeOK
BY DEF Init, TypeOK, NoRow, Row, Time, ServerStates, PushStates, WorkerStates,
       Reports, Aborted

\* Every variable keeps its type.
THEOREM TypeCorrect == Spec => []TypeOK
BY TypeInit, TypeStep, PTL DEF Spec

-----------------------------------------------------------------------------
(* How a step writes rows *)

\* The rows of S gain the columns they lack, at time t with outcome o.
Fills(S, t, o) ==
  /\ S \subseteq Runs
  /\ \A q \in Runs \ S : row'[q] = row[q]
  /\ \A q \in S :
       /\ Exists(q) /\ Checks(row'[q])
       /\ row'[q].created = row[q].created
       /\ row'[q].dispatched \in {row[q].dispatched, Coalesce(row[q].dispatched, t)}
       /\ row'[q].resolved = Coalesce(row[q].resolved, t)
       /\ row'[q].outcome = Coalesce(row[q].outcome, o)

\* The types of what statements read, from the invariant.
LEMMA TypedValues ==
  ASSUME IInv
  PROVE  /\ row \in [Runs -> Row] /\ clock \in Nat
         /\ \A r \in Runs : /\ row[r] \in Row /\ now[r] \in Nat /\ apiNow[r] \in Nat
                           /\ verdict[r] \in Outcomes \cup {Null}
         /\ "superseded" \in Outcomes \cup {Null}
         /\ "failed-orphaned" \in Outcomes \cup {Null}
BY DEF IInv, TypeOK, Outcomes

\* cancel_existing, active rows: the row it stamps was dispatched before.
LEMMA CancelActiveWrites ==
  ASSUME IInv, NEW r \in Runs, CancelActive(r)
  PROVE  /\ UNCHANGED row \/ \E q \in todo[r] : Fills({q}, now[r], "superseded")
         /\ todo'[r] \subseteq todo[r]
         /\ pc[r] = "cancelActive" /\ pc'[r] \in {"cancelActive", "done"}
         /\ pc'[r] = "cancelActive" =>
              \E q \in todo[r] : Fills({q}, now[r], "superseded") /\ todo'[r] = todo[r] \ {q}
         /\ \A q \in Runs \ {r} : todo'[q] = todo[q] /\ pc'[q] = pc[q]
<1>1. PICK q \in todo[r] :
        LET new == [x \in {q} |-> Stamp(row[q], now[r], "superseded")]
        IN  \/ /\ Passes({q}, new)
               /\ Write({q}, new)
               /\ todo' = [todo EXCEPT ![r] = @ \ {q}]
               /\ Step(r, "cancelActive", "cancelActive")
            \/ /\ ~Passes({q}, new)
               /\ todo' = [todo EXCEPT ![r] = {}]
               /\ Step(r, "cancelActive", "done")
               /\ UNCHANGED row
  BY DEF CancelActive
<1>2. UNCHANGED row \/ Fills({q}, now[r], "superseded")
  <2>1. q \in Runs /\ row[q].dispatched # Null /\ Exists(q)
    BY DEF IInv, TypeOK, RowsHaveHandlers, RowsConsistent, NoRow
  <2>2. ASSUME Checks(Stamp(row[q], now[r], "superseded")),
               row' = [x \in Runs |-> IF x = q THEN Stamp(row[q], now[r], "superseded")
                                       ELSE row[x]]
        PROVE  Fills({q}, now[r], "superseded")
    BY <2>1, <2>2, TypedValues, StampFields DEF Fills
  <2> QED
    BY <1>1, <2>1, <2>2 DEF Passes, Write
<1>3. pc[r] = "cancelActive" /\ pc \in [Runs -> PushStates] /\ todo \in [Runs -> SUBSET Runs]
  BY <1>1 DEF Step, IInv, TypeOK
<1>4. /\ pc'[r] \in {"cancelActive", "done"} /\ todo'[r] \subseteq todo[r]
      /\ \A q2 \in Runs \ {r} : todo'[q2] = todo[q2] /\ pc'[q2] = pc[q2]
  BY <1>1, <1>3 DEF Step
<1>5. pc'[r] = "cancelActive" =>
        Fills({q}, now[r], "superseded") /\ todo'[r] = todo[r] \ {q}
  <2>1. q \in Runs /\ row[q].dispatched # Null /\ Exists(q)
    BY DEF IInv, TypeOK, RowsHaveHandlers, RowsConsistent, NoRow
  <2>2. ASSUME Checks(Stamp(row[q], now[r], "superseded")),
               row' = [x \in Runs |-> IF x = q THEN Stamp(row[q], now[r], "superseded")
                                       ELSE row[x]]
        PROVE  Fills({q}, now[r], "superseded")
    BY <2>1, <2>2, TypedValues, StampFields DEF Fills
  <2> QED
    BY <1>1, <1>3, <2>1, <2>2 DEF Passes, Write, Step
<1> QED
  BY <1>1, <1>2, <1>3, <1>4, <1>5

\* cancel_existing, queued rows: they stay undispatched.
LEMMA CancelQueuedWrites ==
  ASSUME IInv, NEW r \in Runs, CancelQueued(r)
  PROVE  UNCHANGED row \/ Fills(QueuedOf(r), now[r], "superseded")
<1>1. \A q \in QueuedOf(r) : q \in Runs /\ Exists(q)
  BY DEF QueuedOf, Queued
<1>2. ASSUME \A q \in QueuedOf(r) : Checks(Close(row[q], now[r], "superseded")),
             row' = [q \in Runs |-> IF q \in QueuedOf(r)
                       THEN Close(row[q], now[r], "superseded") ELSE row[q]]
      PROVE  Fills(QueuedOf(r), now[r], "superseded")
  <2>1. \A q \in QueuedOf(r) :
          LET new == Close(row[q], now[r], "superseded")
          IN  /\ row'[q] = new /\ Checks(new) /\ new.created = row[q].created
              /\ new.dispatched = row[q].dispatched
              /\ new.resolved = Coalesce(row[q].resolved, now[r])
              /\ new.outcome = Coalesce(row[q].outcome, "superseded")
    BY <1>1, <1>2, TypedValues, CloseFields, SMTT(60)
  <2> QED
    BY <1>1, <1>2, <2>1 DEF Fills
<1> QED
  BY <1>2 DEF CancelQueued, Passes, Write

\* resolve: the row of the handler is filled with its verdict, or a CHECK
\* refuses the statement.
LEMMA ResolveWrites ==
  ASSUME IInv, NEW r \in Runs, Resolve(r)
  PROVE  UNCHANGED row \/ Fills({r}, now[r], verdict[r])
<1>1. Exists(r)
  BY DEF Resolve, Step, IInv, RowsHaveHandlers
<1>2. ASSUME Checks(Stamp(row[r], now[r], verdict[r])),
             row' = [x \in Runs |-> IF x = r THEN Stamp(row[r], now[r], verdict[r])
                                     ELSE row[x]]
      PROVE  Fills({r}, now[r], verdict[r])
  BY <1>1, <1>2, TypedValues, StampFields DEF Fills
<1> QED
  BY <1>2 DEF Resolve, Passes, Write

\* reconcile_orphans: every unresolved row is filled and ends up dispatched, or
\* a CHECK refuses the statement and the server goes down.
LEMMA ReconcileWrites ==
  ASSUME IInv, Reconcile
  PROVE  \/ UNCHANGED row /\ server' = "down"
         \/ /\ Fills(Orphans, clock, "failed-orphaned") /\ server' = "listening"
            /\ \A q \in Orphans : row'[q].dispatched # Null
<1>1. \A q \in Orphans : q \in Runs /\ Exists(q)
  BY DEF Orphans
<1>2. ASSUME \A q \in Orphans : Checks(Orphaned(q)),
             row' = [q \in Runs |-> IF q \in Orphans THEN Orphaned(q) ELSE row[q]]
      PROVE  /\ Fills(Orphans, clock, "failed-orphaned")
             /\ \A q \in Orphans : row'[q].dispatched # Null
  <2>1. \A q \in Orphans : Orphaned(q) = Stamp(row[q], clock, "failed-orphaned")
    BY DEF Orphaned
  <2>2. \A q \in Orphans : row'[q].dispatched = Coalesce(row[q].dispatched, clock)
    BY <1>1, <1>2, <2>1, TypedValues, StampFields
  <2>3. \A q \in Orphans : row'[q].dispatched # Null
    BY <2>2, TypedValues DEF Coalesce
  <2>4. Fills(Orphans, clock, "failed-orphaned")
    BY <1>1, <1>2, <2>1, TypedValues, StampFields DEF Fills
  <2> QED
    BY <2>3, <2>4
<1> QED
  BY <1>2 DEF Reconcile, Passes, Write

\* The endpoint: only the dispatch time of an existing row changes.
LEMMA ApiUpdateWrites ==
  ASSUME IInv, NEW r \in Runs, ApiUpdate(r)
  PROVE  \/ UNCHANGED row /\ Answer(r, FALSE)
         \/ /\ Exists(r) /\ Checks(row'[r]) /\ Answer(r, TRUE)
            /\ \A q \in Runs \ {r} : row'[q] = row[q]
            /\ row'[r].created = row[r].created
            /\ row'[r].dispatched = apiNow[r]
            /\ row'[r].resolved = row[r].resolved
            /\ row'[r].outcome = row[r].outcome
<1>1. Exists(r)
  BY DEF ApiUpdate, IInv, RowsHaveHandlers
<1>2. ASSUME row' = [x \in Runs |-> IF x = r THEN MarkDispatched(row[r], apiNow[r])
                                     ELSE row[x]]
      PROVE  /\ \A q \in Runs \ {r} : row'[q] = row[q]
             /\ row'[r] = MarkDispatched(row[r], apiNow[r])
             /\ row'[r].created = row[r].created
             /\ row'[r].dispatched = apiNow[r]
             /\ row'[r].resolved = row[r].resolved
             /\ row'[r].outcome = row[r].outcome
  BY <1>2, TypedValues, MarkFields
<1> QED
  BY <1>1, <1>2 DEF ApiUpdate, Passes, Write

-----------------------------------------------------------------------------
(* The inductive invariant *)

\* What a statement over S owes the invariant: the rows stay consistent, no run
\* comes or goes, none is undispatched, and only runs of S get the outcome.
KeepsRuns(S, o) ==
  /\ RowsConsistent' /\ NoFutureTimes'
  /\ \A q \in Runs :
       /\ (row'[q].created # Null) <=> Exists(q)
       /\ row[q].dispatched # Null => row'[q].dispatched # Null
       /\ row'[q].outcome # row[q].outcome => q \in S /\ row'[q].outcome = o

\* A statement that only fills columns, at a time already past, owes nothing.
LEMMA FillsKeepsRuns ==
  ASSUME IInv, TypeOK', NEW S, NEW t \in Nat, NEW o \in Outcomes, t <= clock,
         Fills(S, t, o), UNCHANGED <<clock, now, apiNow>>
  PROVE  KeepsRuns(S, o)
<1> USE DEF Fills, Coalesce, IInv, TypeOK, Row, Time
<1>1. RowsConsistent'
  BY DEF RowsConsistent, Exists
<1>2. NoFutureTimes'
  BY DEF NoFutureTimes
<1>3. ASSUME NEW q \in Runs
      PROVE  /\ (row'[q].created # Null) <=> Exists(q)
             /\ row[q].dispatched # Null => row'[q].dispatched # Null
             /\ row'[q].outcome # row[q].outcome => q \in S /\ row'[q].outcome = o
  BY DEF Exists
<1> QED
  BY <1>1, <1>2, <1>3 DEF KeepsRuns

\* Neither does a step that writes no row and moves no clock.
LEMMA NoWriteKeepsRuns ==
  ASSUME IInv, NEW S, NEW o, UNCHANGED <<row, clock, now, apiNow>>
  PROVE  KeepsRuns(S, o)
BY DEF IInv, RowsConsistent, NoFutureTimes, Exists, KeepsRuns

\* Superseding one selected run keeps the invariant, also when that run was
\* resolved since the SELECT.
LEMMA CancelActiveInv ==
  ASSUME IInv, TypeOK', NEW r \in Runs, CancelActive(r)
  PROVE  IInv'
<1>1. UNCHANGED <<clock, server, now, verdict, worker, report, api, apiNow>>
  BY DEF CancelActive, workerVars, apiVars
<1>2. KeepsRuns(Runs, "superseded")
  <2>1. ASSUME NEW q \in todo[r], Fills({q}, now[r], "superseded")
        PROVE  KeepsRuns({q}, "superseded") /\ q \in Runs
    <3>1. now[r] \in Nat /\ now[r] <= clock /\ "superseded" \in Outcomes /\ q \in Runs
      BY DEF IInv, TypeOK, NoFutureTimes, Outcomes
    <3> QED
      BY <1>1, <2>1, <3>1, FillsKeepsRuns
  <2>2. CASE UNCHANGED row
    BY <1>1, <2>2, NoWriteKeepsRuns
  <2> QED
    BY <2>1, <2>2, CancelActiveWrites DEF KeepsRuns
<1>3. /\ todo'[r] \subseteq todo[r]
      /\ pc[r] = "cancelActive" /\ pc'[r] \in {"cancelActive", "done"}
      /\ \A q \in Runs \ {r} : todo'[q] = todo[q] /\ pc'[q] = pc[q]
  BY CancelActiveWrites
<1>4. RowsHaveHandlers'
  BY <1>1, <1>2, <1>3, SMTT(60)
     DEF KeepsRuns, Exists, IInv, TypeOK, RowsHaveHandlers, BeforeInsert
<1>5. VerdictsKnown' /\ VerdictIsEarned'
  BY <1>1, <1>2, <1>3 DEF KeepsRuns, IInv, VerdictsKnown, VerdictIsEarned
<1>6. StartsQuiet'
  BY <1>1, <1>2, <1>3 DEF KeepsRuns, IInv, StartsQuiet
<1> QED
  BY <1>2, <1>4, <1>5, <1>6 DEF IInv, KeepsRuns

\* Superseding the queued rows of a ref keeps the invariant.
LEMMA CancelQueuedInv ==
  ASSUME IInv, TypeOK', NEW r \in Runs, CancelQueued(r)
  PROVE  IInv'
<1>1. UNCHANGED <<clock, server, now, todo, verdict, worker, report, api, apiNow>>
  BY DEF CancelQueued, workerVars, apiVars
<1>2. CASE UNCHANGED row
  BY <1>1, <1>2 DEF CancelQueued, Step, IInv, TypeOK, RowsConsistent, NoFutureTimes, RowsHaveHandlers, VerdictsKnown,
     StartsQuiet, VerdictIsEarned, BeforeInsert, Exists, Reports, Row, Time, NoRow,
     Checks, Ended
<1>3. CASE Fills(QueuedOf(r), now[r], "superseded")
  <2>1. now[r] \in Nat /\ now[r] <= clock /\ "superseded" \in Outcomes
    BY DEF IInv, TypeOK, NoFutureTimes, Outcomes
  <2>2. KeepsRuns(QueuedOf(r), "superseded")
    BY <1>1, <1>3, <2>1, FillsKeepsRuns
  <2>3. RowsHaveHandlers'
    BY <1>1, <2>2 DEF KeepsRuns, Exists, CancelQueued, Step, IInv, TypeOK, RowsHaveHandlers, BeforeInsert
  <2>4. VerdictsKnown'
    BY <1>1, <2>2 DEF KeepsRuns, Exists, CancelQueued, Step, IInv, TypeOK, VerdictsKnown
  <2>5. VerdictIsEarned'
    BY <1>1, <2>2 DEF KeepsRuns, Exists, CancelQueued, Step, IInv, TypeOK, VerdictsKnown, VerdictIsEarned
  <2>6. StartsQuiet'
    BY <1>1, <2>2 DEF KeepsRuns, Exists, CancelQueued, Step, IInv, TypeOK, StartsQuiet
  <2> QED
    BY <2>2, <2>3, <2>4, <2>5, <2>6 DEF IInv, KeepsRuns
<1> QED
  BY <1>2, <1>3, CancelQueuedWrites

\* Recording a verdict keeps the invariant: only the row of the handler
\* changes, and what it gains is what quire-ci reported.
LEMMA ResolveInv ==
  ASSUME IInv, TypeOK', NEW r \in Runs, Resolve(r)
  PROVE  IInv'
<1>1. /\ UNCHANGED <<clock, server, now, todo, verdict, worker, report, api, apiNow>>
      /\ pc[r] = "resolve" /\ pc' = [pc EXCEPT ![r] = "done"]
  BY DEF Resolve, Step, workerVars, apiVars
<1>2. CASE UNCHANGED row
  BY <1>1, <1>2 DEF IInv, TypeOK, RowsConsistent, NoFutureTimes, RowsHaveHandlers, VerdictsKnown,
     StartsQuiet, VerdictIsEarned, BeforeInsert, Exists, Reports, Row, Time, NoRow,
     Checks, Ended
<1>3. CASE Fills({r}, now[r], verdict[r])
  <2>1. /\ now[r] \in Nat /\ now[r] <= clock
        /\ verdict[r] \in {"succeeded", "failed-pipeline", "failed-internal"}
    BY <1>1 DEF IInv, TypeOK, NoFutureTimes, VerdictsKnown
  <2>2. KeepsRuns({r}, verdict[r])
    BY <1>1, <1>3, <2>1, FillsKeepsRuns DEF Outcomes
  <2>3. RowsHaveHandlers'
    BY <1>1, <2>1, <2>2 DEF KeepsRuns, Exists, IInv, TypeOK, RowsHaveHandlers, BeforeInsert
  <2>4. VerdictsKnown'
    BY <1>1, <2>1, <2>2 DEF KeepsRuns, Exists, IInv, TypeOK, VerdictsKnown
  <2>5. VerdictIsEarned'
    BY <1>1, <2>1, <2>2 DEF KeepsRuns, Exists, IInv, TypeOK, VerdictsKnown, VerdictIsEarned
  <2>6. StartsQuiet'
    BY <1>1, <2>1, <2>2 DEF KeepsRuns, Exists, IInv, TypeOK, StartsQuiet
  <2> QED
    BY <2>2, <2>3, <2>4, <2>5, <2>6 DEF IInv, KeepsRuns
<1> QED
  BY <1>2, <1>3, ResolveWrites

\* Reconciliation keeps the invariant: no task runs and no request is open.
LEMMA ReconcileInv ==
  ASSUME IInv, TypeOK', Reconcile
  PROVE  IInv'
<1>1. /\ UNCHANGED <<clock, pc, now, todo, verdict, worker, report, api, apiNow>>
      /\ server = "bound"
  BY DEF Reconcile, handlerVars, workerVars, apiVars
<1>2. CASE UNCHANGED row /\ server' = "down"
  BY <1>1, <1>2 DEF IInv, TypeOK, RowsConsistent, NoFutureTimes, RowsHaveHandlers, VerdictsKnown,
     StartsQuiet, VerdictIsEarned, BeforeInsert, Exists, Reports, Row, Time, NoRow,
     Checks, Ended
<1>3. CASE /\ Fills(Orphans, clock, "failed-orphaned") /\ server' = "listening"
           /\ \A q \in Orphans : row'[q].dispatched # Null
  <2>1. clock \in Nat /\ clock <= clock /\ "failed-orphaned" \in Outcomes
    BY DEF IInv, TypeOK, Outcomes
  <2>2. KeepsRuns(Orphans, "failed-orphaned")
    BY <1>1, <1>3, <2>1, FillsKeepsRuns
  <2>3. RowsHaveHandlers'
    BY <1>1, <1>3, <2>2 DEF KeepsRuns, Exists, IInv, TypeOK, RowsHaveHandlers, BeforeInsert
  <2>4. VerdictsKnown'
    BY <1>1, <1>3, <2>2 DEF KeepsRuns, Exists, IInv, TypeOK, VerdictsKnown
  <2>5. VerdictIsEarned'
    BY <1>1, <1>3, <2>2 DEF KeepsRuns, Exists, IInv, TypeOK, VerdictsKnown, VerdictIsEarned
  <2>6. StartsQuiet'
    BY <1>1, <1>3, <2>2 DEF KeepsRuns, Exists, IInv, TypeOK, StartsQuiet
  <2> QED
    BY <2>2, <2>3, <2>4, <2>5, <2>6 DEF IInv, KeepsRuns
<1> QED
  BY <1>2, <1>3, ReconcileWrites

\* Marking a run dispatched keeps the invariant, although the statement looks
\* at neither dispatched_at nor resolved_at.
LEMMA ApiUpdateInv ==
  ASSUME IInv, TypeOK', NEW r \in Runs, ApiUpdate(r)
  PROVE  IInv'
<1>1. /\ UNCHANGED <<clock, server, pc, now, todo, verdict, report, apiNow>>
      /\ api' = [api EXCEPT ![r] = "none"] /\ api[r] = "stamped"
  BY DEF ApiUpdate, Answer, handlerVars, workerVars
<1>2. CASE UNCHANGED row /\ Answer(r, FALSE)
  BY <1>1, <1>2 DEF Answer, workerVars, IInv, TypeOK, RowsConsistent, NoFutureTimes, RowsHaveHandlers, VerdictsKnown,
     StartsQuiet, VerdictIsEarned, BeforeInsert, Exists, Reports, Row, Time, NoRow,
     Checks, Ended
<1>3. CASE /\ Exists(r) /\ Checks(row'[r]) /\ Answer(r, TRUE)
           /\ \A q \in Runs \ {r} : row'[q] = row[q]
           /\ row'[r].created = row[r].created
           /\ row'[r].dispatched = apiNow[r]
           /\ row'[r].resolved = row[r].resolved
           /\ row'[r].outcome = row[r].outcome
  <2>1. RowsConsistent' /\ NoFutureTimes'
    BY <1>1, <1>3 DEF IInv, TypeOK, RowsConsistent, NoFutureTimes, Exists
  <2>2. \A q \in Runs :
          /\ (row'[q].created # Null) <=> Exists(q)
          /\ row[q].dispatched # Null => row'[q].dispatched # Null
          /\ row'[q].outcome = row[q].outcome
    BY <1>1, <1>3 DEF IInv, TypeOK, Exists
  <2>3. row'[r].dispatched # Null
    BY <1>3 DEF IInv, TypeOK
  <2>4. /\ report' = report /\ worker[r] # "none"
        /\ \A q \in Runs \ {r} : worker'[q] = worker[q]
        /\ worker'[r] # worker[r] => worker[r] = "boot" /\ worker'[r] = "running"
    <3>1. worker[r] # "none"
      BY <1>1 DEF IInv, RowsHaveHandlers
    <3> QED
      BY <1>3, <3>1 DEF Answer, workerVars, IInv, TypeOK
  <2>5. \A q \in Runs : api'[q] \in {api[q], "none"}
    BY <1>1 DEF IInv, TypeOK
  <2>6. RowsHaveHandlers'
    BY <1>1, <2>2, <2>4, <2>5 DEF Exists, IInv, RowsHaveHandlers, BeforeInsert
  <2>7. VerdictsKnown' /\ VerdictIsEarned'
    BY <1>1, <2>2, <2>3, <2>4 DEF IInv, VerdictsKnown, VerdictIsEarned
  <2>8. StartsQuiet'
    BY <1>1, <2>2, <2>5 DEF IInv, StartsQuiet
  <2> QED
    BY <2>1, <2>6, <2>7, <2>8 DEF IInv
<1> QED
  BY <1>2, <1>3, ApiUpdateWrites

\* Inserting a row keeps the invariant: nothing refers to the run before it.
LEMMA InsertRowInv ==
  ASSUME IInv, TypeOK', NEW r \in Runs, InsertRow(r)
  PROVE  IInv'
<1>1. /\ Inserted.created = clock /\ Inserted.dispatched = Null
      /\ Inserted.resolved = Null /\ Inserted.outcome = Null
  BY DEF Inserted, NoRow
<1> QED
  BY <1>1
  DEF InsertRow, Step, workerVars, apiVars, IInv, TypeOK, RowsConsistent, NoFutureTimes, RowsHaveHandlers, VerdictsKnown,
     StartsQuiet, VerdictIsEarned, BeforeInsert, Exists, Reports, Row, Time, NoRow,
     Checks, Ended

\* Steps of the server and the clock that write no row.
LEMMA ServerInv ==
  ASSUME IInv, TypeOK',
         Tick \/ Bind \/ Serve \/ Crash
  PROVE  IInv'
<1> USE DEF IInv, TypeOK, RowsConsistent, NoFutureTimes, RowsHaveHandlers,
            VerdictsKnown, StartsQuiet, VerdictIsEarned, BeforeInsert, Exists,
            Reports, Row, Time, NoRow, Checks, Ended, handlerVars, workerVars,
            apiVars
<1>1. CASE Tick
  BY <1>1 DEF Tick
<1>2. CASE Bind
  BY <1>2 DEF Bind
<1>3. CASE Serve
  BY <1>3 DEF Serve
<1>4. CASE Crash
  BY <1>4 DEF Crash
<1> QED
  BY <1>1, <1>2, <1>3, <1>4

\* Steps of a handler that write no row.
LEMMA HandlerInv ==
  ASSUME IInv, TypeOK', NEW r \in Runs,
         Accept(r) \/ NoPipeline(r) \/ BeginCreate(r) \/ SelectActive(r) \/ ActiveCancelled(r) \/ Launch(r) \/ Judge(r) \/ HandlerFails(r)
  PROVE  IInv'
<1> USE DEF IInv, TypeOK, RowsConsistent, NoFutureTimes, RowsHaveHandlers,
            VerdictsKnown, StartsQuiet, VerdictIsEarned, BeforeInsert, Exists,
            Reports, Row, Time, NoRow, Checks, Ended, handlerVars, workerVars,
            apiVars
<1>1. CASE Accept(r)
  BY <1>1 DEF Accept, Listening, Step
<1>2. CASE NoPipeline(r)
  BY <1>2 DEF NoPipeline, Step
<1>3. CASE BeginCreate(r)
  BY <1>3 DEF BeginCreate, Step
<1>4. CASE SelectActive(r)
  BY <1>4 DEF SelectActive, Step, ActiveOf, Active
<1>5. CASE ActiveCancelled(r)
  BY <1>5 DEF ActiveCancelled, Step
<1>6. CASE Launch(r)
  BY <1>6 DEF Launch, Step
<1>7. CASE Judge(r)
  BY <1>7 DEF Judge, Fault, Step, VerdictOf
<1>8. CASE HandlerFails(r)
  BY <1>8 DEF HandlerFails, Fault, Step
<1> QED
  BY <1>1, <1>2, <1>3, <1>4, <1>5, <1>6, <1>7, <1>8

\* Steps of the endpoint and of quire-ci that write no row.
LEMMA WorkerInv ==
  ASSUME IInv, TypeOK', NEW r \in Runs,
         ApiSelect(r) \/ ApiStamp(r) \/ ApiFails(r) \/ GiveUp(r) \/ Exit(r)
  PROVE  IInv'
<1> USE DEF IInv, TypeOK, RowsConsistent, NoFutureTimes, RowsHaveHandlers,
            VerdictsKnown, StartsQuiet, VerdictIsEarned, BeforeInsert, Exists,
            Reports, Row, Time, NoRow, Checks, Ended, handlerVars, workerVars,
            apiVars
<1>1. CASE ApiSelect(r)
  BY <1>1 DEF ApiSelect, Answer, Unasked
<1>2. CASE ApiStamp(r)
  BY <1>2 DEF ApiStamp
<1>3. CASE ApiFails(r)
  BY <1>3 DEF ApiFails, Fault, Answer
<1>4. CASE GiveUp(r)
  BY <1>4 DEF GiveUp, Fault
<1>5. CASE Exit(r)
  BY <1>5 DEF Exit
<1> QED
  BY <1>1, <1>2, <1>3, <1>4, <1>5

\* The invariant holds of the empty table.
LEMMA InvInit == Init => IInv
BY TypeInit
DEF Init, IInv, RowsConsistent, NoFutureTimes, RowsHaveHandlers, VerdictsKnown,
    StartsQuiet, VerdictIsEarned, BeforeInsert, Exists, NoRow, Aborted

\* Every step keeps the invariant.
LEMMA InvStep == IInv /\ [Next]_vars => IInv'
<1> SUFFICES ASSUME IInv, [Next]_vars PROVE IInv'
  OBVIOUS
<1>1. TypeOK'
  BY TypeStep DEF IInv
<1>2. CASE Tick \/ Startup \/ Crash
  BY <1>1, <1>2, ServerInv, ReconcileInv DEF Startup
<1>3. ASSUME NEW r \in Runs, Accept(r) \/ Handler(r) \/ HandlerFails(r)
      PROVE  IInv'
  BY <1>1, <1>3, HandlerInv, CancelActiveInv, CancelQueuedInv, InsertRowInv,
     ResolveInv
  DEF Handler
<1>4. ASSUME NEW r \in Runs, Api(r) \/ ApiFails(r) \/ GiveUp(r) \/ Exit(r)
      PROVE  IInv'
  BY <1>1, <1>4, WorkerInv, ApiUpdateInv DEF Api
<1>5. CASE UNCHANGED vars
  BY <1>1, <1>5
  DEF vars, handlerVars, workerVars, apiVars, IInv, RowsConsistent, NoFutureTimes,
      RowsHaveHandlers, VerdictsKnown, StartsQuiet, VerdictIsEarned, Exists
<1> QED
  BY <1>2, <1>3, <1>4, <1>5 DEF Next

\* The rows, the clocks and the handlers stay consistent with each other in
\* every reachable state, whatever interleaves, fails or crashes.
THEOREM Invariance == Spec => []IInv
BY InvInit, InvStep, PTL DEF Spec

\* A verdict in the table is the one quire-ci earned.
THEOREM VerdictsEarned == Spec => []VerdictIsEarned
<1>1. IInv => VerdictIsEarned
  BY DEF IInv
<1> QED
  BY <1>1, Invariance, PTL

\* Reconciliation at startup cannot fail a CHECK on what it finds.
THEOREM RestartNeverRefused == Spec => []RestartIsNeverRefused
<1>1. IInv => RestartIsNeverRefused
  <2> SUFFICES ASSUME IInv, NEW r \in Orphans
               PROVE  Checks(Orphaned(r))
    BY DEF RestartIsNeverRefused
  <2>1. r \in Runs /\ row[r] \in Row /\ Checks(row[r])
    BY DEF IInv, TypeOK, RowsConsistent, Orphans
  <2>2. /\ Orphaned(r).created = row[r].created
        /\ Orphaned(r).dispatched = Coalesce(row[r].dispatched, clock)
        /\ Orphaned(r).resolved = Coalesce(row[r].resolved, clock)
        /\ Orphaned(r).outcome = Coalesce(row[r].outcome, "failed-orphaned")
    BY <2>1, TypedValues, StampFields DEF Orphaned
  <2>3. /\ row[r].created # Null /\ row[r].created <= clock
        /\ row[r].dispatched # Null => row[r].dispatched <= clock
        /\ row[r].resolved = Null
    BY <2>1 DEF Orphans, Exists, Resolved, IInv, NoFutureTimes
  <2> QED
    BY <2>1, <2>2, <2>3, TypedValues DEF Checks, Coalesce, Row, Time
<1> QED
  BY <1>1, Invariance, PTL

-----------------------------------------------------------------------------
(* What steps may never do *)

\* Only six kinds of steps write rows.
LEMMA RowWriters ==
  ASSUME [Next]_vars
  PROVE  \/ UNCHANGED row
         \/ Reconcile
         \/ \E r \in Runs : \/ CancelActive(r) \/ CancelQueued(r) \/ InsertRow(r)
                            \/ Resolve(r) \/ ApiUpdate(r)
<1>1. CASE Tick \/ Startup \/ Crash
  BY <1>1 DEF Tick, Startup, Bind, Serve, Crash
<1>2. ASSUME NEW r \in Runs, Accept(r) \/ Handler(r) \/ HandlerFails(r)
      PROVE  \/ UNCHANGED row
             \/ CancelActive(r) \/ CancelQueued(r) \/ InsertRow(r) \/ Resolve(r)
  BY <1>2 DEF Accept, Handler, NoPipeline, BeginCreate, SelectActive, ActiveCancelled,
              Launch, Judge, HandlerFails
<1>3. ASSUME NEW r \in Runs, Api(r) \/ ApiFails(r) \/ GiveUp(r) \/ Exit(r)
      PROVE  UNCHANGED row \/ ApiUpdate(r)
  BY <1>3 DEF Api, ApiSelect, ApiStamp, ApiFails, GiveUp, Exit
<1>4. CASE UNCHANGED vars
  BY <1>4 DEF vars
<1> QED
  BY <1>1, <1>2, <1>3, <1>4 DEF Next

\* Those steps seen from the table: rows are filled, one is marked dispatched,
\* or one is inserted.
LEMMA RowSteps ==
  ASSUME IInv, [Next]_vars
  PROVE  \/ UNCHANGED row
         \/ \E S \in SUBSET Runs, t \in Nat, o \in {"superseded", "failed-orphaned"} :
              Fills(S, t, o)
         \/ \E r \in Runs : /\ pc[r] = "resolve" /\ UNCHANGED report
                            /\ \E t \in Nat : Fills({r}, t, verdict[r])
         \/ \E r \in Runs, t \in Nat :
              /\ \A q \in Runs \ {r} : row'[q] = row[q]
              /\ row'[r].created = row[r].created /\ row'[r].dispatched = t
              /\ row'[r].resolved = row[r].resolved
              /\ row'[r].outcome = row[r].outcome
         \/ \E r \in Runs : ~Exists(r) /\ row' = [row EXCEPT ![r] = Inserted]
<1>1. CASE UNCHANGED row
  BY <1>1
<1>2. CASE Reconcile
  <2>1. Orphans \in SUBSET Runs /\ clock \in Nat
    BY TypedValues DEF Orphans
  <2> QED
    BY <1>2, <2>1, ReconcileWrites
<1>3. ASSUME NEW r \in Runs, CancelActive(r)
      PROVE  \/ UNCHANGED row
             \/ \E q \in Runs, t \in Nat : Fills({q}, t, "superseded")
  <2>1. todo[r] \subseteq Runs /\ now[r] \in Nat
    BY DEF IInv, TypeOK
  <2> QED
    BY <1>3, <2>1, CancelActiveWrites
<1>4. ASSUME NEW r \in Runs, CancelQueued(r)
      PROVE  \/ UNCHANGED row
             \/ \E S \in SUBSET Runs, t \in Nat : Fills(S, t, "superseded")
  <2>1. QueuedOf(r) \in SUBSET Runs /\ now[r] \in Nat
    BY TypedValues DEF QueuedOf
  <2> QED
    BY <1>4, <2>1, CancelQueuedWrites
<1>5. ASSUME NEW r \in Runs, InsertRow(r)
      PROVE  ~Exists(r) /\ row' = [row EXCEPT ![r] = Inserted]
  BY <1>5 DEF InsertRow, Step, IInv, RowsHaveHandlers, BeforeInsert
<1>6. ASSUME NEW r \in Runs, Resolve(r)
      PROVE  \/ UNCHANGED row
             \/ /\ pc[r] = "resolve" /\ UNCHANGED report
                /\ \E t \in Nat : Fills({r}, t, verdict[r])
  BY <1>6, TypedValues, ResolveWrites DEF Resolve, Step, workerVars
<1>7. ASSUME NEW r \in Runs, ApiUpdate(r)
      PROVE  \/ UNCHANGED row
             \/ \E t \in Nat :
                  /\ \A q \in Runs \ {r} : row'[q] = row[q]
                  /\ row'[r].created = row[r].created /\ row'[r].dispatched = t
                  /\ row'[r].resolved = row[r].resolved
                  /\ row'[r].outcome = row[r].outcome
  BY <1>7, TypedValues, ApiUpdateWrites
<1> QED
  BY <1>1, <1>2, <1>3, <1>4, <1>5, <1>6, <1>7, RowWriters

\* A recorded outcome is never replaced, by whichever writer comes later.
THEOREM OutcomesFinal == Spec => OutcomeIsFinal
<1> DEFINE Final == \A r \in Runs : Resolved(r) =>
                       /\ row'[r].resolved = row[r].resolved
                       /\ row'[r].outcome = row[r].outcome
<1>1. IInv /\ [Next]_vars => Final
  <2> SUFFICES ASSUME IInv, [Next]_vars, NEW r \in Runs, Resolved(r)
               PROVE  /\ row'[r].resolved = row[r].resolved
                      /\ row'[r].outcome = row[r].outcome
    OBVIOUS
  <2>1. row[r].resolved # Null /\ row[r].outcome # Null /\ Exists(r)
    BY DEF Resolved, IInv, RowsConsistent, Checks, NoRow
  <2>2. ASSUME NEW S, NEW t, NEW o, Fills(S, t, o)
        PROVE  /\ row'[r].resolved = row[r].resolved
               /\ row'[r].outcome = row[r].outcome
    BY <2>1, <2>2 DEF Fills, Coalesce
  <2>3. ASSUME NEW q \in Runs, ~Exists(q), row' = [row EXCEPT ![q] = Inserted]
        PROVE  row'[r] = row[r]
    BY <2>1, <2>3, TypedValues
  <2> QED
    BY <2>2, <2>3, RowSteps
<1> QED
  BY <1>1, Invariance, PTL DEF Spec, OutcomeIsFinal

-----------------------------------------------------------------------------
(* The table implements the lifecycle *)

\* Filling columns at time t ends the unresolved runs of S with outcome o, and
\* a reader of the table sees nothing else happen.
LEMMA FillsStage ==
  ASSUME IInv, NEW S, NEW t \in Nat, NEW o \in Outcomes, Fills(S, t, o),
         NEW q \in Runs
  PROVE  Stage(q)' = IF q \in S /\ Stage(q) \in Lifecycle!Live THEN o ELSE Stage(q)
<1>1. row[q] \in Row /\ t # Null /\ o # Null
  BY TypedValues DEF Outcomes
<1>2. CASE q \notin S
  BY <1>2 DEF Fills, Stage, Exists, Resolved, Active
<1>3. CASE q \in S /\ ~Resolved(q)
  <2>1. row[q].resolved = Null /\ row[q].outcome = Null /\ Exists(q)
    BY <1>3 DEF Fills, Resolved, IInv, RowsConsistent, Checks
  <2>2. row'[q].created # Null /\ row'[q].resolved = t /\ row'[q].outcome = o
    BY <1>3, <2>1 DEF Fills, Coalesce, Exists
  <2> QED
    BY <1>1, <1>3, <2>1, <2>2 DEF Stage, Exists, Resolved, Active, Lifecycle!Live
<1>4. CASE q \in S /\ Resolved(q)
  <2>1. /\ row[q].resolved # Null /\ Exists(q)
        /\ row[q].outcome \in Outcomes /\ row[q].outcome # Null
    BY <1>1, <1>4 DEF Fills, Resolved, IInv, RowsConsistent, Checks, Row
  <2>2. /\ row'[q].created = row[q].created /\ row'[q].resolved = row[q].resolved
        /\ row'[q].outcome = row[q].outcome
    BY <1>1, <1>4, <2>1 DEF Fills, Coalesce
  <2> QED
    BY <2>1, <2>2 DEF Stage, Exists, Resolved, Active, Lifecycle!Live, Outcomes
<1> QED
  BY <1>2, <1>3, <1>4

\* A run still open has no outcome yet; an open run that was dispatched is
\* active.
LEMMA OpenStage ==
  ASSUME NEW q \in Runs, Exists(q), ~Resolved(q)
  PROVE  Stage(q) = IF row[q].dispatched # Null THEN "active" ELSE "queued"
BY DEF Stage, Exists, Resolved, Active

\* Each step of the server is one step of the lifecycle, or none.
LEMMA LifecycleStep ==
  ASSUME IInv, [Next]_vars
  PROVE  [Lifecycle!Next]_(Lifecycle!vars)
<1> SUFFICES Lifecycle!Next \/ UNCHANGED stages
  BY DEF Lifecycle!vars
<1>1. CASE UNCHANGED row
  <2>1. \A q \in Runs : Stage(q)' = Stage(q)
    BY <1>1 DEF Stage, Exists, Resolved, Active
  <2> QED
    BY <2>1 DEF stages
<1>2. ASSUME NEW S \in SUBSET Runs, NEW t \in Nat,
             NEW o \in {"superseded", "failed-orphaned"}, Fills(S, t, o)
      PROVE  Lifecycle!Next
  <2> DEFINE T == {q \in S : Stage(q) \in Lifecycle!Live}
  <2>1. \A q \in Runs : Stage(q)' = IF q \in T THEN o ELSE Stage(q)
    BY <1>2, FillsStage DEF Outcomes
  <2>2. Lifecycle!Abandon(T, o)
    BY <2>1 DEF Lifecycle!Abandon, stages
  <2> QED
    BY <2>2 DEF Lifecycle!Next
<1>3. ASSUME NEW r \in Runs, NEW t \in Nat, pc[r] = "resolve",
             Fills({r}, t, verdict[r])
      PROVE  Lifecycle!Next \/ UNCHANGED stages
  <2>1. verdict[r] \in Lifecycle!Verdicts /\ verdict[r] \in Outcomes
    BY <1>3 DEF IInv, VerdictsKnown, Lifecycle!Verdicts, Outcomes
  <2>2. \A q \in Runs :
          Stage(q)' = IF q = r /\ Stage(q) \in Lifecycle!Live THEN verdict[r] ELSE Stage(q)
    BY <1>3, <2>1, FillsStage
  <2>3. CASE Stage(r) \notin Lifecycle!Live
    BY <2>2, <2>3 DEF stages
  <2>4. CASE Stage(r) \in Lifecycle!Live
    <3>1. Stage(r) = "active" \/ verdict[r] = "failed-internal"
      <4>1. Exists(r) /\ ~Resolved(r)
        BY <2>4 DEF Stage, Lifecycle!Live, IInv, TypeOK, Row, Outcomes, RowsConsistent,
                    Checks, Resolved
      <4>2. verdict[r] # "failed-internal" => row[r].dispatched # Null
        BY <1>3 DEF IInv, VerdictsKnown
      <4> QED
        BY <4>1, <4>2, OpenStage
    <3>2. stages' = [stages EXCEPT ![r] = verdict[r]]
      BY <2>2, <2>4 DEF stages
    <3>3. Lifecycle!Judge(r, verdict[r])
      BY <2>4, <3>1, <3>2 DEF Lifecycle!Judge, Lifecycle!Live, stages
    <3> QED
      BY <2>1, <3>3 DEF Lifecycle!Next
  <2> QED
    BY <2>3, <2>4
<1>4. ASSUME NEW r \in Runs, NEW t \in Nat,
             \A q \in Runs \ {r} : row'[q] = row[q],
             row'[r].created = row[r].created, row'[r].dispatched = t,
             row'[r].resolved = row[r].resolved, row'[r].outcome = row[r].outcome
      PROVE  Lifecycle!Next \/ UNCHANGED stages
  <2>1. \A q \in Runs \ {r} : Stage(q)' = Stage(q)
    BY <1>4 DEF Stage, Exists, Resolved, Active
  <2>2. Stage(r)' = IF Stage(r) = "queued" THEN "active" ELSE Stage(r)
    <3>1. t # Null /\ (Resolved(r) => Exists(r) /\ row[r].outcome # "queued")
      BY SMTT(60) DEF IInv, TypeOK, Row, Outcomes, RowsConsistent, Checks, NoRow, Resolved,
             Exists
    <3>2. /\ Exists(r)' <=> Exists(r)
          /\ Resolved(r)' <=> Resolved(r)
          /\ Exists(r) /\ ~Resolved(r) => Active(r)'
      BY <1>4, <3>1 DEF Exists, Resolved, Active
    <3> QED
      BY <1>4, <3>1, <3>2 DEF Stage, Active
  <2>3. CASE Stage(r) = "queued"
    <3>1. stages' = [stages EXCEPT ![r] = "active"]
      BY <2>1, <2>2, <2>3 DEF stages
    <3>2. Lifecycle!Dispatch(r)
      BY <2>3, <3>1 DEF Lifecycle!Dispatch, stages
    <3> QED
      BY <3>2 DEF Lifecycle!Next
  <2>4. CASE Stage(r) # "queued"
    BY <2>1, <2>2, <2>4 DEF stages
  <2> QED
    BY <2>3, <2>4
<1>5. ASSUME NEW r \in Runs, ~Exists(r), row' = [row EXCEPT ![r] = Inserted]
      PROVE  Lifecycle!Next
  <2>1. \A q \in Runs \ {r} : row'[q] = row[q]
    BY <1>5, TypedValues
  <2>2. row'[r] = Inserted
    BY <1>5, TypedValues
  <2>3. \A q \in Runs \ {r} : Stage(q)' = Stage(q)
    BY <2>1 DEF Stage, Exists, Resolved, Active
  <2>4. Stage(r) = "absent" /\ Stage(r)' = "queued"
    BY <1>5, <2>2, TypedValues DEF Stage, Exists, Resolved, Active, Inserted, NoRow
  <2>5. stages' = [stages EXCEPT ![r] = "queued"]
    BY <2>3, <2>4 DEF stages
  <2>6. Lifecycle!Create(r)
    BY <2>4, <2>5 DEF Lifecycle!Create, stages
  <2> QED
    BY <2>6 DEF Lifecycle!Next
<1> QED
  BY <1>1, <1>2, <1>3, <1>4, <1>5, RowSteps

\* Whatever the handlers, the endpoint and restarts do to the rows, a reader
\* sees every run go through the lifecycle of docs/CI-STATE.md.
THEOREM LifecycleImplemented == Spec => ImplementsLifecycle
<1>1. Init => Lifecycle!Init
  BY DEF Init, Lifecycle!Init, stages, Stage, Exists, NoRow
<1>2. IInv /\ [Next]_vars => [Lifecycle!Next]_(Lifecycle!vars)
  BY LifecycleStep
<1> QED
  BY <1>1, <1>2, Invariance, PTL DEF Spec, Lifecycle!Spec, ImplementsLifecycle

-----------------------------------------------------------------------------
(* Orphans *)

\* A quire-ci that outlived its server starts no pipeline for a run that
\* reconciliation has already closed.
THEOREM OrphansStayOut == Spec => OrphansNeverStart
<1> DEFINE Never == \A r \in Runs :
       worker[r] = "boot" /\ worker'[r] = "running"
         => row[r].outcome # "failed-orphaned"
<1>1. IInv /\ [Next]_vars => Never
  <2> SUFFICES ASSUME IInv, [Next]_vars, NEW r \in Runs,
                      worker[r] = "boot", worker'[r] = "running"
               PROVE  row[r].outcome # "failed-orphaned"
    OBVIOUS
  <2> USE DEF IInv, TypeOK
  <2>1. ApiUpdate(r)
    <3>1. CASE Tick \/ Startup \/ Crash
      BY <3>1 DEF Tick, Startup, Bind, Reconcile, Serve, Crash, workerVars
    <3>2. ASSUME NEW q \in Runs, Accept(q) \/ Handler(q) \/ HandlerFails(q)
          PROVE  FALSE
      BY <3>2 DEF Accept, Handler, NoPipeline, BeginCreate, SelectActive,
           ActiveCancelled, CancelActive, CancelQueued, InsertRow, Resolve,
           Launch, Judge, HandlerFails, workerVars
    <3>3. ASSUME NEW q \in Runs, Api(q) \/ ApiFails(q) \/ GiveUp(q) \/ Exit(q)
          PROVE  ApiUpdate(r)
      BY <3>3 DEF Api, ApiSelect, ApiStamp, ApiUpdate, ApiFails, GiveUp, Exit, Answer,
           workerVars
    <3>4. CASE UNCHANGED vars
      BY <3>4 DEF vars
    <3> QED
      BY <3>1, <3>2, <3>3, <3>4 DEF Next
  <2>2. api[r] # "none"
    BY <2>1 DEF ApiUpdate
  <2> QED
    BY <2>2 DEF StartsQuiet
<1> QED
  BY <1>1, Invariance, PTL DEF Spec, OrphansNeverStart

\* Reconciliation never closes a run that a handler of this server still
\* works on: at that point every handler with a row has ended.
THEOREM HandlersKeepRuns == Spec => OrphansHaveNoHandler
<1> DEFINE Keeps == \A r \in Runs :
       row[r].outcome # "failed-orphaned" /\ row'[r].outcome = "failed-orphaned"
         => pc[r] = "done"
<1>1. IInv /\ [Next]_vars => Keeps
  <2> SUFFICES ASSUME IInv, [Next]_vars, NEW r \in Runs,
                      row[r].outcome # "failed-orphaned",
                      row'[r].outcome = "failed-orphaned"
               PROVE  pc[r] = "done"
    OBVIOUS
  <2>1. ASSUME NEW S, NEW t \in Nat, NEW o, Fills(S, t, o), o # "failed-orphaned"
        PROVE  FALSE
    BY <2>1 DEF Fills, Coalesce
  <2>2. ASSUME NEW q \in Runs, CancelActive(q)
        PROVE  FALSE
    BY <2>1, <2>2, CancelActiveWrites, TypedValues
  <2>3. ASSUME NEW q \in Runs, CancelQueued(q)
        PROVE  FALSE
    BY <2>1, <2>3, CancelQueuedWrites, TypedValues
  <2>4. ASSUME NEW q \in Runs, InsertRow(q)
        PROVE  FALSE
    BY <2>4, TypedValues DEF InsertRow, Inserted, NoRow
  <2>5. ASSUME NEW q \in Runs, Resolve(q)
        PROVE  FALSE
    <3>1. verdict[q] # "failed-orphaned"
      BY <2>5 DEF Resolve, Step, IInv, VerdictsKnown
    <3> QED
      BY <2>1, <2>5, <3>1, ResolveWrites, TypedValues
  <2>6. ASSUME NEW q \in Runs, ApiUpdate(q)
        PROVE  FALSE
    BY <2>6, ApiUpdateWrites
  <2>7. Reconcile
    BY <2>2, <2>3, <2>4, <2>5, <2>6, RowWriters
  <2>8. server = "bound" /\ Exists(r)
    BY <2>7, ReconcileWrites DEF Reconcile, Fills
  <2> QED
    BY <2>8 DEF IInv, StartsQuiet, RowsHaveHandlers, BeforeInsert
<1> QED
  BY <1>1, Invariance, PTL DEF Spec, OrphansHaveNoHandler

-----------------------------------------------------------------------------
(* Superseding *)

\* What a handler selected to cancel belongs to the ref of its own push.
OwnRef == \A r \in Runs : \A q \in todo[r] : SameRef(q, r)

\* Only the SELECT adds to the list, everything else shortens or clears it.
LEMMA OwnRefStep == IInv /\ OwnRef /\ [Next]_vars => OwnRef'
<1> SUFFICES ASSUME IInv, OwnRef, [Next]_vars
             PROVE  OwnRef'
  OBVIOUS
<1>1. todo \in [Runs -> SUBSET Runs]
  BY DEF IInv, TypeOK
<1>2. CASE UNCHANGED todo
  BY <1>2 DEF OwnRef
<1>3. ASSUME NEW r \in Runs, SelectActive(r)
      PROVE  OwnRef'
  BY <1>1, <1>3 DEF SelectActive, ActiveOf, OwnRef
<1>4. ASSUME NEW r \in Runs, CancelActive(r)
      PROVE  OwnRef'
  BY <1>4, CancelActiveWrites DEF OwnRef
<1>5. ASSUME NEW r \in Runs, HandlerFails(r)
      PROVE  OwnRef'
  BY <1>1, <1>5 DEF HandlerFails, OwnRef
<1>6. CASE Crash
  BY <1>6 DEF Crash, OwnRef
<1>7. CASE Tick \/ Startup \/ UNCHANGED vars
  BY <1>2, <1>7 DEF Tick, Startup, Bind, Reconcile, Serve, vars, handlerVars
<1>8. ASSUME NEW r \in Runs,
             Accept(r) \/ (Handler(r) /\ ~SelectActive(r) /\ ~CancelActive(r))
      PROVE  OwnRef'
  BY <1>2, <1>8 DEF Accept, Handler, NoPipeline, BeginCreate, ActiveCancelled,
       CancelQueued, InsertRow, Launch, Judge, Resolve
<1>9. ASSUME NEW r \in Runs, Api(r) \/ ApiFails(r) \/ GiveUp(r) \/ Exit(r)
      PROVE  OwnRef'
  BY <1>2, <1>9 DEF Api, ApiSelect, ApiStamp, ApiUpdate, ApiFails, GiveUp, Exit,
       handlerVars
<1> QED
  BY <1>3, <1>4, <1>5, <1>6, <1>7, <1>8, <1>9 DEF Next

\* A run is superseded only by a handler of another push to its own ref
\* (cancel_existing): what the SELECT of the active ids returned is still of
\* that ref when the UPDATEs come, and the handler has no row of its own yet.
THEOREM SupersededByRef == Spec => SupersededByItsRef
<1> DEFINE ByRef == \A r \in Runs :
       row[r].outcome # "superseded" /\ row'[r].outcome = "superseded" =>
         \E q \in Runs \ {r} :
           SameRef(q, r) /\ pc[q] \in {"cancelActive", "cancelQueued"}
<1>1. IInv /\ OwnRef /\ [Next]_vars => ByRef
  <2> SUFFICES ASSUME IInv, OwnRef, [Next]_vars, NEW r \in Runs,
                      row[r].outcome # "superseded",
                      row'[r].outcome = "superseded"
               PROVE  \E q \in Runs \ {r} :
                        SameRef(q, r) /\ pc[q] \in {"cancelActive", "cancelQueued"}
    OBVIOUS
  <2> DEFINE Goal == \E q \in Runs \ {r} :
               SameRef(q, r) /\ pc[q] \in {"cancelActive", "cancelQueued"}
  <2>1. ASSUME NEW S, NEW t \in Nat, NEW o, Fills(S, t, o)
        PROVE  r \in S /\ o = "superseded" /\ Exists(r)
    BY <2>1 DEF Fills, Coalesce
  <2>2. ASSUME NEW q \in Runs, CancelActive(q)
        PROVE  Goal
    <3>1. PICK x \in todo[q] : Fills({x}, now[q], "superseded")
      BY <2>2, CancelActiveWrites
    <3>2. r = x /\ Exists(r) /\ pc[q] = "cancelActive"
      <4>1. now[q] \in Nat /\ pc[q] = "cancelActive"
        BY <2>2, TypedValues, CancelActiveWrites
      <4>2. r \in {x} /\ Exists(r)
        BY <2>1, <3>1, <4>1
      <4> QED
        BY <4>1, <4>2
    <3>3. SameRef(q, r) /\ q # r
      BY <3>1, <3>2 DEF OwnRef, SameRef, IInv, RowsHaveHandlers, BeforeInsert
    <3> QED
      BY <3>2, <3>3
  <2>3. ASSUME NEW q \in Runs, CancelQueued(q)
        PROVE  Goal
    <3>1. Fills(QueuedOf(q), now[q], "superseded")
      BY <2>3, CancelQueuedWrites
    <3>2. r \in QueuedOf(q) /\ Exists(r) /\ pc[q] = "cancelQueued"
      BY <2>1, <2>3, <3>1, TypedValues DEF CancelQueued, Step
    <3>3. SameRef(q, r) /\ q # r
      BY <3>2 DEF QueuedOf, SameRef, IInv, RowsHaveHandlers, BeforeInsert
    <3> QED
      BY <3>2, <3>3
  <2>4. ASSUME NEW q \in Runs, InsertRow(q)
        PROVE  FALSE
    BY <2>4, TypedValues DEF InsertRow, Inserted, NoRow
  <2>5. ASSUME NEW q \in Runs, Resolve(q)
        PROVE  FALSE
    <3>1. verdict[q] # "superseded"
      BY <2>5 DEF Resolve, Step, IInv, VerdictsKnown
    <3> QED
      BY <2>1, <2>5, <3>1, ResolveWrites, TypedValues
  <2>6. ASSUME NEW q \in Runs, ApiUpdate(q)
        PROVE  FALSE
    BY <2>6, ApiUpdateWrites
  <2>7. CASE Reconcile
    BY <2>1, <2>7, ReconcileWrites, TypedValues
  <2> QED
    BY <2>2, <2>3, <2>4, <2>5, <2>6, <2>7, RowWriters
<1>2. Init => OwnRef
  BY DEF Init, OwnRef
<1> QED
  BY <1>1, <1>2, OwnRefStep, Invariance, PTL DEF Spec, SupersededByItsRef

-----------------------------------------------------------------------------
(* Settling *)

\* A handler that has ended stays so, whatever else happens.
LEMMA EndedStays ==
  ASSUME IInv, [Next]_vars, NEW r \in Runs, pc[r] \in Ended
  PROVE  pc'[r] \in Ended
<1> USE DEF Ended, IInv, TypeOK, Step
<1>1. CASE Tick \/ Startup \/ Crash \/ UNCHANGED vars
  BY <1>1 DEF Tick, Startup, Bind, Reconcile, Serve, Crash, vars, handlerVars
<1>2. ASSUME NEW q \in Runs, Accept(q) \/ Handler(q) \/ HandlerFails(q)
      PROVE  pc'[r] \in Ended
  <2>1. CASE Accept(q)
    BY <2>1 DEF Accept
  <2>2. CASE HandlerFails(q)
    BY <2>2 DEF HandlerFails
  <2>3. CASE CancelActive(q)
    BY <2>3, CancelActiveWrites
  <2>4. CASE Handler(q) /\ ~CancelActive(q)
    BY <2>4 DEF Handler, NoPipeline, BeginCreate, SelectActive, ActiveCancelled,
         CancelQueued, InsertRow, Launch, Judge, Resolve
  <2> QED
    BY <1>2, <2>1, <2>2, <2>3, <2>4
<1>3. ASSUME NEW q \in Runs, Api(q) \/ ApiFails(q) \/ GiveUp(q) \/ Exit(q)
      PROVE  pc'[r] \in Ended
  BY <1>3 DEF Api, ApiSelect, ApiStamp, ApiUpdate, ApiFails, GiveUp, Exit, handlerVars
<1> QED
  BY <1>1, <1>2, <1>3 DEF Next

\* Only the INSERT brings a live run; a queued one becomes active by the
\* endpoint's UPDATE.
LEMMA LiveMoves ==
  ASSUME IInv, [Next]_vars, NEW r \in Runs, ~InsertRow(r)
  PROVE  /\ Exists(r)' => Exists(r)
         /\ Queued(r)' => Queued(r)
         /\ Active(r)' => Active(r) \/ (Queued(r) /\ api[r] = "stamped")
<1> DEFINE Goal == /\ Exists(r)' => Exists(r)
                   /\ Queued(r)' => Queued(r)
                   /\ Active(r)' => Active(r) \/ (Queued(r) /\ api[r] = "stamped")
<1> USE DEF Exists, Queued, Active
<1>1. CASE UNCHANGED row
  BY <1>1
<1>2. ASSUME NEW S, NEW t \in Nat, NEW o, Fills(S, t, o)
      PROVE  Goal
  <2>1. r \in S => row'[r].resolved # Null
    BY <1>2 DEF Fills, Coalesce
  <2>2. r \notin S => row'[r] = row[r]
    BY <1>2 DEF Fills
  <2>3. r \in S => row[r].created # Null
    BY <1>2 DEF Fills
  <2> QED
    BY <2>1, <2>2, <2>3
<1>3. CASE Reconcile
  BY <1>1, <1>2, <1>3, ReconcileWrites, TypedValues
<1>4. ASSUME NEW q \in Runs, CancelActive(q)
      PROVE  Goal
  BY <1>1, <1>2, <1>4, CancelActiveWrites, TypedValues
<1>5. ASSUME NEW q \in Runs, CancelQueued(q)
      PROVE  Goal
  BY <1>1, <1>2, <1>5, CancelQueuedWrites, TypedValues
<1>6. ASSUME NEW q \in Runs, Resolve(q)
      PROVE  Goal
  BY <1>1, <1>2, <1>6, ResolveWrites, TypedValues
<1>7. ASSUME NEW q \in Runs, InsertRow(q)
      PROVE  Goal
  <2>1. q # r
    BY <1>7
  <2>2. row'[r] = row[r]
    BY <1>7, <2>1, TypedValues DEF InsertRow
  <2> QED
    BY <2>2
<1>8. ASSUME NEW q \in Runs, ApiUpdate(q)
      PROVE  Goal
  <2>1. CASE q = r
    <3>1. api[r] = "stamped" /\ apiNow[r] # Null
      BY <1>8, <2>1, TypedValues DEF ApiUpdate
    <3>2. CASE UNCHANGED row
      BY <3>2, <1>1
    <3>3. CASE /\ row'[r].created = row[r].created
               /\ row'[r].dispatched = apiNow[r]
               /\ row'[r].resolved = row[r].resolved
      BY <3>1, <3>3
    <3> QED
      BY <1>8, <2>1, <3>2, <3>3, ApiUpdateWrites
  <2>2. CASE q # r
    <3>1. row'[r] = row[r] \/ UNCHANGED row
      BY <1>8, <2>2, ApiUpdateWrites
    <3> QED
      BY <3>1
  <2> QED
    BY <2>1, <2>2
<1> QED
  BY <1>1, <1>3, <1>4, <1>5, <1>6, <1>7, <1>8, RowWriters

\* Nobody asks for a queued run without a handler: its handler ended before it
\* had a quire-ci, or after that had exited, or with an earlier server, whose
\* runs were reconciled.
LEMMA NobodyAsksStep == IInv /\ NobodyAsks /\ [Next]_vars => NobodyAsks'
<1> SUFFICES ASSUME IInv, NobodyAsks, [Next]_vars, NEW r \in Runs
             PROVE  /\ pc'[r] = "resolve" => worker'[r] = "exited"
                    /\ server' \in {"listening", "up"} /\ pc'[r] \in Ended /\ Queued(r)'
                         => worker'[r] # "boot"
  BY DEF NobodyAsks
<1> DEFINE Goal == /\ pc'[r] = "resolve" => worker'[r] = "exited"
                   /\ server' \in {"listening", "up"} /\ pc'[r] \in Ended /\ Queued(r)'
                        => worker'[r] # "boot"
<1>1. /\ pc[r] = "resolve" => worker[r] = "exited"
      /\ server \in {"listening", "up"} /\ pc[r] \in Ended /\ Queued(r)
           => worker[r] # "boot"
      /\ pc \in [Runs -> PushStates] /\ worker \in [Runs -> WorkerStates]
  BY DEF NobodyAsks, IInv, TypeOK
<1>2. ~InsertRow(r) => (Queued(r)' => Queued(r))
  BY LiveMoves
<1>3. Exists(r)' /\ ~InsertRow(r) => Exists(r)
  BY LiveMoves
<1> USE DEF Ended, Step
<1>4. CASE Tick \/ Bind \/ Serve \/ UNCHANGED vars
  <2>1. UNCHANGED <<row, pc, worker>>
    BY <1>4 DEF Tick, Bind, Serve, vars, handlerVars, workerVars
  <2>2. server' \in {"listening", "up"} => server \in {"listening", "up"}
    BY <1>4 DEF Tick, Bind, Serve, vars
  <2> QED
    BY <1>1, <2>1, <2>2 DEF Queued, Exists
<1>5. CASE Reconcile
  <2>1. server' = "listening" => ~Queued(r)'
    BY <1>5, ReconcileWrites, TypedValues DEF Fills, Orphans, Queued, Exists, Resolved,
         Coalesce
  <2>2. server' \in {"listening", "down"} /\ UNCHANGED <<pc, worker>>
    BY <1>5 DEF Reconcile, handlerVars, workerVars
  <2> QED
    BY <1>1, <2>1, <2>2
<1>6. CASE Crash
  BY <1>6 DEF Crash
<1>7. ASSUME NEW q \in Runs, Accept(q) \/ Handler(q) \/ HandlerFails(q)
      PROVE  Goal
  <2>1. CASE q # r
    <3>1. /\ pc'[r] = pc[r]
          /\ worker'[r] = worker[r]
          /\ server' = server
      <4>1. CASE CancelActive(q)
        BY <1>1, <2>1, <4>1, CancelActiveWrites DEF CancelActive, workerVars
      <4> QED
        BY <1>1, <1>7, <2>1, <4>1 DEF Accept, HandlerFails, Handler, NoPipeline,
             BeginCreate, SelectActive, ActiveCancelled, CancelQueued, InsertRow, Launch,
             Judge, Resolve, workerVars
    <3>2. ~InsertRow(r)
      BY <1>1, <3>1 DEF InsertRow
    <3> QED
      BY <1>1, <1>2, <3>1, <3>2
  <2>2. CASE q = r
    <3>1. CASE Accept(r) \/ BeginCreate(r) \/ SelectActive(r) \/ ActiveCancelled(r)
                 \/ InsertRow(r) \/ Launch(r)
      BY <1>1, <3>1 DEF Accept, BeginCreate, SelectActive, ActiveCancelled, InsertRow,
           Launch
    <3>2. CASE NoPipeline(r) \/ CancelActive(r) \/ CancelQueued(r)
      <4>1. pc[r] \in BeforeInsert /\ pc'[r] # "resolve"
        BY <1>1, <3>2, CancelActiveWrites DEF NoPipeline, CancelQueued, BeforeInsert
      <4>2. ~Exists(r) /\ ~InsertRow(r)
        BY <3>2, <4>1 DEF IInv, RowsHaveHandlers, NoPipeline, CancelActive, CancelQueued,
             InsertRow
      <4> QED
        BY <1>3, <4>1, <4>2 DEF Queued
    <3>3. CASE Judge(r)
      BY <1>1, <3>3 DEF Judge, workerVars
    <3>4. CASE Resolve(r)
      BY <1>1, <3>4 DEF Resolve, workerVars
    <3>5. CASE HandlerFails(r)
      <4>1. pc[r] \in {"select", "cancelActive", "cancelQueued", "insert", "launch",
                       "resolve"} /\ pc'[r] = "done" /\ UNCHANGED <<worker, row>>
        BY <1>1, <3>5 DEF HandlerFails, workerVars
      <4>2. pc[r] \in BeforeInsert => ~Exists(r)
        BY DEF IInv, RowsHaveHandlers
      <4>3. pc[r] \in {"launch", "resolve"} => worker[r] \in {"none", "exited"}
        BY <1>1 DEF IInv, RowsHaveHandlers
      <4> QED
        BY <4>1, <4>2, <4>3 DEF Queued, Exists, BeforeInsert
    <3> QED
      BY <1>7, <2>2, <3>1, <3>2, <3>3, <3>4, <3>5 DEF Handler
  <2> QED
    BY <2>1, <2>2
<1>8. ASSUME NEW q \in Runs, Api(q) \/ ApiFails(q) \/ GiveUp(q) \/ Exit(q)
      PROVE  Goal
  <2>1. /\ UNCHANGED <<pc, server>>
        /\ worker'[r] = worker[r] \/ worker'[r] = "exited"
           \/ (worker[r] = "boot" /\ worker'[r] = "running")
    BY <1>1, <1>8 DEF Api, ApiSelect, ApiStamp, ApiUpdate, ApiFails, GiveUp, Exit, Answer,
         handlerVars, workerVars
  <2>2. ~InsertRow(r)
    BY <1>1, <2>1 DEF InsertRow
  <2> QED
    BY <1>1, <1>2, <2>1, <2>2
<1> QED
  BY <1>4, <1>5, <1>6, <1>7, <1>8 DEF Next, Startup

\* What a handler was told of the others when it was accepted stays with it.
LEMMA SettledMoves ==
  ASSUME IInv, [Next]_vars, NEW q \in Runs
  PROVE  \/ Accept(q)
         \/ settled'[q] = settled[q]
<1>1. settled \in [Runs -> SUBSET Runs]
  BY DEF IInv, TypeOK
<1>2. CASE UNCHANGED settled
  BY <1>2
<1>3. ASSUME NEW p \in Runs, Accept(p)
      PROVE  Accept(q) \/ settled'[q] = settled[q]
  BY <1>1, <1>3 DEF Accept
<1>4. CASE Tick \/ Startup \/ Crash \/ UNCHANGED vars
  BY <1>2, <1>4 DEF Tick, Startup, Bind, Reconcile, Serve, Crash, vars, historyVars
<1>5. ASSUME NEW p \in Runs, Handler(p) \/ HandlerFails(p)
      PROVE  UNCHANGED settled
  BY <1>5 DEF Handler, NoPipeline, BeginCreate, SelectActive, CancelActive,
       ActiveCancelled, CancelQueued, InsertRow, Launch, Judge, Resolve, HandlerFails,
       historyVars
<1>6. ASSUME NEW p \in Runs, Api(p) \/ ApiFails(p) \/ GiveUp(p) \/ Exit(p)
      PROVE  UNCHANGED settled
  BY <1>6 DEF Api, ApiSelect, ApiStamp, ApiUpdate, ApiFails, GiveUp, Exit, historyVars
<1> QED
  BY <1>2, <1>3, <1>4, <1>5, <1>6 DEF Next

\* Where a handler can come from when it cancels or inserts, and that its list
\* changes only by itself.
LEMMA CancelMoves ==
  ASSUME IInv, [Next]_vars, NEW q \in Runs
  PROVE  /\ pc'[q] = "cancelActive" =>
              SelectActive(q) \/ CancelActive(q)
              \/ (pc[q] = "cancelActive" /\ todo'[q] = todo[q])
         /\ pc'[q] = "cancelQueued" => ActiveCancelled(q) \/ pc[q] = "cancelQueued"
         /\ pc'[q] = "insert" => CancelQueued(q) \/ pc[q] = "insert"
         /\ pc'[q] \in {"source", "select", "cancelActive", "cancelQueued"} =>
              Accept(q) \/ pc[q] \in {"source", "select", "cancelActive", "cancelQueued"}
<1> DEFINE Goal ==
      /\ pc'[q] = "cancelActive" =>
           SelectActive(q) \/ CancelActive(q)
           \/ (pc[q] = "cancelActive" /\ todo'[q] = todo[q])
      /\ pc'[q] = "cancelQueued" => ActiveCancelled(q) \/ pc[q] = "cancelQueued"
      /\ pc'[q] = "insert" => CancelQueued(q) \/ pc[q] = "insert"
      /\ pc'[q] \in {"source", "select", "cancelActive", "cancelQueued"} =>
           Accept(q) \/ pc[q] \in {"source", "select", "cancelActive", "cancelQueued"}
<1>1. pc \in [Runs -> PushStates] /\ todo \in [Runs -> SUBSET Runs]
  BY DEF IInv, TypeOK
<1>2. CASE UNCHANGED <<pc, todo>>
  BY <1>2
<1>3. CASE Crash
  BY <1>1, <1>3 DEF Crash, Ended
<1>4. CASE Tick \/ Startup \/ UNCHANGED vars
  BY <1>2, <1>4 DEF Tick, Startup, Bind, Reconcile, Serve, vars, handlerVars
<1>5. ASSUME NEW p \in Runs, Handler(p) \/ HandlerFails(p) \/ Accept(p)
      PROVE  Goal
  <2>1. CASE p # q
    <3>1. CASE CancelActive(p)
      BY <2>1, <3>1, CancelActiveWrites
    <3> QED
      BY <1>1, <1>5, <2>1, <3>1 DEF Accept, HandlerFails, Handler, NoPipeline,
           BeginCreate, SelectActive, ActiveCancelled, CancelQueued, InsertRow, Launch,
           Judge, Resolve, Step
  <2>2. CASE p = q
    <3>1. CASE CancelActive(q)
      BY <3>1, CancelActiveWrites
    <3> QED
      BY <1>1, <1>5, <2>2, <3>1 DEF Accept, HandlerFails, Handler, NoPipeline,
           BeginCreate, SelectActive, ActiveCancelled, CancelQueued, InsertRow, Launch,
           Judge, Resolve, Step
  <2> QED
    BY <2>1, <2>2
<1>6. ASSUME NEW p \in Runs, Api(p) \/ ApiFails(p) \/ GiveUp(p) \/ Exit(p)
      PROVE  Goal
  BY <1>2, <1>6 DEF Api, ApiSelect, ApiStamp, ApiUpdate, ApiFails, GiveUp, Exit,
       handlerVars
<1> QED
  BY <1>2, <1>3, <1>4, <1>5, <1>6 DEF Next

\* Every step keeps the list and what it leaves out.
LEMMA SettledStep ==
  IInv /\ NobodyAsks /\ SettledRuns /\ [Next]_vars => SettledRuns'
<1> SUFFICES ASSUME IInv, NobodyAsks, SettledRuns, [Next]_vars,
                    NEW q \in Runs, NEW r \in settled'[q]
             PROVE  /\ pc'[r] \in Ended
                    /\ pc'[q] \in {"source", "select", "cancelActive", "cancelQueued"}
                         /\ Queued(r)' => api'[r] = "none"
                    /\ pc'[q] = "cancelActive" /\ SameRef(r, q) /\ Active(r)'
                         => r \in todo'[q]
                    /\ pc'[q] = "cancelQueued" /\ SameRef(r, q) => ~Active(r)'
  BY DEF SettledRuns, SameRef
<1>1. CASE Accept(q)
  <2>1. r \in Runs /\ Settled(r) /\ pc'[q] = "source" /\ UNCHANGED <<api, row>>
    BY <1>1 DEF Accept, Step, apiVars, IInv, TypeOK
  <2>2. pc'[r] \in Ended
    BY <2>1, EndedStays DEF Settled
  <2> QED
    BY <2>1, <2>2 DEF Settled
<1>2. CASE ~Accept(q)
  <2>1. r \in settled[q] /\ r \in Runs
    BY <1>2, SettledMoves DEF IInv, TypeOK
  <2>2. pc[r] \in Ended /\ pc'[r] \in Ended
    BY <2>1, EndedStays DEF SettledRuns
  <2>3. /\ Exists(r)' => Exists(r)
        /\ Queued(r)' => Queued(r)
        /\ Active(r)' => Active(r) \/ (Queued(r) /\ api[r] = "stamped")
    BY <2>1, <2>2, LiveMoves DEF InsertRow, Step, Ended
  <2>4. ASSUME Queued(r), api[r] = "none" PROVE api'[r] = "none"
    <3>1. api \in [Runs -> {"none", "selected", "stamped"}]
      BY DEF IInv, TypeOK
    <3>2. ~ApiSelect(r)
      BY <2>1, <2>2, <2>4 DEF NobodyAsks, ApiSelect, Unasked
    <3>3. CASE UNCHANGED api
      BY <2>4, <3>3
    <3>4. CASE Crash
      BY <2>1, <3>4 DEF Crash
    <3>5. CASE Tick \/ Startup \/ UNCHANGED vars
      BY <3>3, <3>5 DEF Tick, Startup, Bind, Reconcile, Serve, vars, apiVars
    <3>6. ASSUME NEW p \in Runs, Accept(p) \/ Handler(p) \/ HandlerFails(p)
          PROVE  UNCHANGED api
      BY <3>6 DEF Accept, Handler, NoPipeline, BeginCreate, SelectActive, CancelActive,
           ActiveCancelled, CancelQueued, InsertRow, Launch, Judge, Resolve, HandlerFails,
           apiVars
    <3>7. ASSUME NEW p \in Runs, Api(p) \/ ApiFails(p) \/ GiveUp(p) \/ Exit(p)
          PROVE  api'[r] = "none"
      BY <2>1, <2>4, <3>1, <3>2, <3>7 DEF Api, ApiSelect, ApiStamp, ApiUpdate, ApiFails,
           GiveUp, Exit, apiVars
    <3> QED
      BY <3>3, <3>4, <3>5, <3>6, <3>7 DEF Next
  <2>5. pc'[q] \in {"source", "select", "cancelActive", "cancelQueued"} /\ Queued(r)'
          => api'[r] = "none"
    BY <1>2, <2>1, <2>3, <2>4, CancelMoves DEF SettledRuns
  <2>6. pc[q] \in {"source", "select", "cancelActive", "cancelQueued"} /\ Active(r)'
          => Active(r)
    BY <2>1, <2>3 DEF SettledRuns
  <2>7. ASSUME pc'[q] = "cancelActive", SameRef(r, q), Active(r)'
        PROVE  r \in todo'[q]
    <3>1. CASE SelectActive(q)
      <4>1. pc[q] = "select" /\ todo'[q] = ActiveOf(q)
        BY <3>1 DEF SelectActive, Step, IInv, TypeOK
      <4> QED
        BY <2>1, <2>6, <2>7, <4>1 DEF ActiveOf
    <3>2. CASE CancelActive(q)
      <4>1. PICK x \in todo[q] : /\ Fills({x}, now[q], "superseded")
                                 /\ todo'[q] = todo[q] \ {x}
        BY <2>7, <3>2, CancelActiveWrites
      <4>2. pc[q] = "cancelActive"
        BY <3>2, CancelActiveWrites
      <4>3. r \in todo[q]
        BY <2>1, <2>6, <2>7, <4>2 DEF SettledRuns
      <4>4. x \in Runs /\ row'[x].resolved # Null
        BY <4>1, TypedValues DEF Fills, Coalesce
      <4> QED
        BY <2>7, <4>1, <4>3, <4>4 DEF Active
    <3>3. CASE pc[q] = "cancelActive" /\ todo'[q] = todo[q]
      BY <2>1, <2>6, <2>7, <3>3 DEF SettledRuns
    <3> QED
      BY <2>7, <3>1, <3>2, <3>3, CancelMoves
  <2>8. ASSUME pc'[q] = "cancelQueued", SameRef(r, q)
        PROVE  ~Active(r)'
    <3>1. CASE ActiveCancelled(q)
      <4>1. pc[q] = "cancelActive" /\ todo[q] = {}
        BY <3>1 DEF ActiveCancelled, Step
      <4> QED
        BY <2>1, <2>6, <2>8, <4>1 DEF SettledRuns
    <3>2. CASE pc[q] = "cancelQueued"
      BY <2>1, <2>6, <2>8, <3>2 DEF SettledRuns
    <3> QED
      BY <2>8, <3>1, <3>2, CancelMoves
  <2> QED
    BY <2>2, <2>5, <2>7, <2>8
<1> QED
  BY <1>1, <1>2

\* Pushes handled one after the other leave at most one live run per ref: a
\* handler that inserts has ended every run of its ref whose own handler was
\* over when its push was accepted (cancel_existing and Runs::create).
THEOREM PushesSettle == Spec => []CancelSettlesFinished
<1> DEFINE All == NobodyAsks /\ SettledRuns /\ CancelSettlesFinished
<1>1. IInv /\ All /\ [Next]_vars => CancelSettlesFinished'
  <2> SUFFICES ASSUME IInv, All, [Next]_vars, NEW q \in Runs,
                      pc'[q] = "insert" \/ Exists(q)',
                      NEW r \in settled'[q], SameRef(r, q)
               PROVE  ~Live(r)'
    BY DEF CancelSettlesFinished, SameRef
  <2>1. ~Accept(q)
    <3>1. ASSUME Accept(q) PROVE FALSE
      <4>1. pc[q] = "idle" /\ pc'[q] = "source" /\ UNCHANGED row
        BY <3>1 DEF Accept, Step, IInv, TypeOK
      <4>2. ~Exists(q)'
        BY <4>1 DEF IInv, RowsHaveHandlers, BeforeInsert, Exists
      <4> QED
        BY <4>1, <4>2
    <3> QED
      BY <3>1
  <2>2. r \in settled[q] /\ r \in Runs
    BY <2>1, SettledMoves DEF IInv, TypeOK
  <2>3. pc[r] \in Ended
    BY <2>2 DEF SettledRuns
  <2>4. /\ Exists(r)' => Exists(r)
        /\ Queued(r)' => Queued(r)
        /\ Active(r)' => Active(r) \/ (Queued(r) /\ api[r] = "stamped")
    BY <2>2, <2>3, LiveMoves DEF InsertRow, Step, Ended
  <2>5. CASE Exists(q) \/ pc[q] = "insert"
    BY <2>2, <2>4, <2>5 DEF CancelSettlesFinished, Live
  <2>6. CASE ~Exists(q) /\ pc[q] # "insert"
    <3>1. ~InsertRow(q) /\ CancelQueued(q)
      BY <2>6, LiveMoves, CancelMoves DEF InsertRow, Step
    <3>2. pc[q] = "cancelQueued"
      BY <3>1 DEF CancelQueued, Step
    <3>3. ~Active(r) /\ (Queued(r) => api[r] = "none")
      BY <2>2, <3>2 DEF SettledRuns
    <3>4. ~Active(r)'
      BY <2>4, <3>3
    <3>5. ~Queued(r)'
      <4>1. pc'[q] = "insert"
        BY <2>6, <3>1, LiveMoves
      <4>2. /\ Passes(QueuedOf(q), [x \in QueuedOf(q) |-> Close(row[x], now[q], "superseded")])
            /\ Write(QueuedOf(q), [x \in QueuedOf(q) |-> Close(row[x], now[q], "superseded")])
        BY <3>1, <4>1 DEF CancelQueued, Step, IInv, TypeOK
      <4>3. Queued(r) => r \in QueuedOf(q)
        BY <2>2 DEF QueuedOf
      <4>4. r \in QueuedOf(q) => row'[r] = Close(row[r], now[q], "superseded")
        BY <2>2, <4>2 DEF Write
      <4>5. Close(row[r], now[q], "superseded").resolved # Null
        <5>1. row[r] \in Row /\ now[q] \in Nat /\ "superseded" \in Outcomes \cup {Null}
          BY <2>2, TypedValues
        <5>2. Close(row[r], now[q], "superseded").resolved = Coalesce(row[r].resolved, now[q])
          BY <5>1, CloseFields
        <5> QED
          BY <5>1, <5>2 DEF Coalesce
      <4> QED
        BY <2>4, <4>3, <4>4, <4>5 DEF Queued
    <3> QED
      BY <3>4, <3>5 DEF Live
  <2> QED
    BY <2>5, <2>6
<1>2. Init => All
  BY DEF Init, NobodyAsks, SettledRuns, CancelSettlesFinished, Exists, NoRow, Ended
<1>3. IInv /\ All /\ [Next]_vars => All'
  BY <1>1, NobodyAsksStep, SettledStep
<1> QED
  BY <1>2, <1>3, Invariance, PTL DEF Spec
-----------------------------------------------------------------------------
(* What is left open *)

\* A row that is open after a step was open before it, and only the endpoint
\* wrote it.
LEMMA OpenRows ==
  ASSUME IInv, [Next]_vars, NEW r \in Runs, ~InsertRow(r), Exists(r)', ~Resolved(r)'
  PROVE  Exists(r) /\ ~Resolved(r) /\ (row'[r] = row[r] \/ ApiUpdate(r))
<1> DEFINE Goal == Exists(r) /\ ~Resolved(r) /\ (row'[r] = row[r] \/ ApiUpdate(r))
<1> USE DEF Exists, Resolved
<1>1. CASE UNCHANGED row
  BY <1>1
<1>2. ASSUME NEW S, NEW t \in Nat, NEW o, Fills(S, t, o)
      PROVE  Goal
  <2>1. r \notin S
    BY <1>2 DEF Fills, Coalesce
  <2>2. row'[r] = row[r]
    BY <1>2, <2>1 DEF Fills
  <2> QED
    BY <2>2
<1>3. CASE Reconcile
  BY <1>1, <1>2, <1>3, ReconcileWrites, TypedValues
<1>4. ASSUME NEW q \in Runs, CancelActive(q)
      PROVE  Goal
  BY <1>1, <1>2, <1>4, CancelActiveWrites, TypedValues
<1>5. ASSUME NEW q \in Runs, CancelQueued(q)
      PROVE  Goal
  BY <1>1, <1>2, <1>5, CancelQueuedWrites, TypedValues
<1>6. ASSUME NEW q \in Runs, Resolve(q)
      PROVE  Goal
  BY <1>1, <1>2, <1>6, ResolveWrites, TypedValues
<1>7. ASSUME NEW q \in Runs, InsertRow(q)
      PROVE  Goal
  <2>1. q # r
    BY <1>7
  <2>2. row'[r] = row[r]
    BY <1>7, <2>1, TypedValues DEF InsertRow
  <2> QED
    BY <2>2
<1>8. ASSUME NEW q \in Runs, ApiUpdate(q)
      PROVE  Goal
  <2>1. CASE q = r
    <3>1. \/ UNCHANGED row
          \/ row'[r].created = row[r].created /\ row'[r].resolved = row[r].resolved
      BY <1>8, <2>1, ApiUpdateWrites
    <3>2. CASE UNCHANGED row
      BY <1>1, <3>2
    <3>3. CASE row'[r].created = row[r].created /\ row'[r].resolved = row[r].resolved
      BY <1>8, <2>1, <3>3
    <3> QED
      BY <3>1, <3>2, <3>3
  <2>2. CASE q # r
    <3>1. row'[r] = row[r] \/ UNCHANGED row
      BY <1>8, <2>2, ApiUpdateWrites
    <3> QED
      BY <3>1
  <2> QED
    BY <2>1, <2>2
<1> QED
  BY <1>1, <1>3, <1>4, <1>5, <1>6, <1>7, <1>8, RowWriters

\* A quire-ci that has exited stays so, faults are never forgotten, and a
\* server that accepts pushes did so before or has just reconciled.
LEMMA Lasting ==
  ASSUME IInv, [Next]_vars, NEW r \in Runs
  PROVE  /\ worker[r] = "exited" => worker'[r] = "exited"
         /\ faults' = 0 => faults = 0
         /\ server' \in {"listening", "up"} =>
              (server \in {"listening", "up"} /\ ~Crash) \/ Reconcile
<1> DEFINE Goal == /\ worker[r] = "exited" => worker'[r] = "exited"
                   /\ faults' = 0 => faults = 0
                   /\ server' \in {"listening", "up"} =>
                        (server \in {"listening", "up"} /\ ~Crash) \/ Reconcile
<1>1. /\ worker \in [Runs -> WorkerStates] /\ faults \in Nat
      /\ \A q \in Runs : pc[q] = "launch" => worker[q] = "none"
  BY DEF IInv, TypeOK, RowsHaveHandlers
<1>2. CASE Tick \/ Startup \/ Crash \/ UNCHANGED vars
  <2>1. CASE Crash
    BY <1>1, <2>1 DEF Crash
  <2>2. CASE Tick \/ Startup \/ UNCHANGED vars
    BY <2>2 DEF Tick, Startup, Bind, Serve, Reconcile, Crash, vars, workerVars
  <2> QED
    BY <1>2, <2>1, <2>2
<1>3. ASSUME NEW q \in Runs, Accept(q) \/ Handler(q) \/ HandlerFails(q)
      PROVE  Goal
  <2>1. server' = server
    BY <1>3 DEF Accept, Handler, HandlerFails, NoPipeline, BeginCreate, SelectActive,
         CancelActive, ActiveCancelled, CancelQueued, InsertRow, Launch, Judge, Resolve
  <2>2. worker[r] = "exited" => worker'[r] = "exited"
    BY <1>1, <1>3 DEF Accept, Handler, HandlerFails, NoPipeline, BeginCreate,
         SelectActive, CancelActive, ActiveCancelled, CancelQueued, InsertRow, Launch,
         Judge, Resolve, Step, workerVars
  <2>3. faults' = faults \/ faults' = faults + 1
    BY <1>3 DEF Accept, Handler, HandlerFails, Fault, NoPipeline, BeginCreate,
         SelectActive, CancelActive, ActiveCancelled, CancelQueued, InsertRow, Launch,
         Judge, Resolve
  <2>4. server' \in {"listening", "up"} => ~Crash
    BY DEF Crash
  <2> QED
    BY <1>1, <2>1, <2>2, <2>3, <2>4
<1>4. ASSUME NEW q \in Runs, Api(q) \/ ApiFails(q) \/ GiveUp(q) \/ Exit(q)
      PROVE  Goal
  <2>1. server' = server
    BY <1>4 DEF Api, ApiSelect, ApiStamp, ApiUpdate, ApiFails, GiveUp, Exit
  <2>2. worker[r] = "exited" => worker'[r] = "exited"
    BY <1>1, <1>4 DEF Api, ApiSelect, ApiStamp, ApiUpdate, ApiFails, GiveUp, Exit,
         Answer, workerVars
  <2>3. faults' = faults \/ faults' = faults + 1
    BY <1>4 DEF Api, ApiSelect, ApiStamp, ApiUpdate, ApiFails, GiveUp, Exit, Fault
  <2>4. server' \in {"listening", "up"} => ~Crash
    BY DEF Crash
  <2> QED
    BY <1>1, <2>1, <2>2, <2>3, <2>4
<1> QED
  BY <1>2, <1>3, <1>4 DEF Next

\* A handler moves by its own steps or dies with the server, and holds on to
\* the time it read meanwhile.
LEMMA HandlerMoves ==
  ASSUME IInv, [Next]_vars, NEW r \in Runs
  PROVE  \/ pc'[r] = pc[r] /\ now'[r] = now[r]
         \/ Accept(r) \/ Handler(r) \/ HandlerFails(r) \/ Crash
<1>1. pc \in [Runs -> PushStates] /\ now \in [Runs -> Nat]
  BY DEF IInv, TypeOK
<1>2. CASE Tick \/ Startup \/ UNCHANGED vars
  BY <1>2 DEF Tick, Startup, Bind, Reconcile, Serve, vars, handlerVars
<1>3. ASSUME NEW q \in Runs, Accept(q) \/ Handler(q) \/ HandlerFails(q), q # r
      PROVE  pc'[r] = pc[r] /\ now'[r] = now[r]
  <2>1. CASE CancelActive(q)
    BY <1>3, <2>1, CancelActiveWrites DEF CancelActive
  <2> QED
    BY <1>1, <1>3, <2>1 DEF Accept, HandlerFails, Handler, NoPipeline, BeginCreate,
         SelectActive, ActiveCancelled, CancelQueued, InsertRow, Launch, Judge, Resolve,
         Step
<1>4. ASSUME NEW q \in Runs, Api(q) \/ ApiFails(q) \/ GiveUp(q) \/ Exit(q)
      PROVE  pc'[r] = pc[r] /\ now'[r] = now[r]
  BY <1>4 DEF Api, ApiSelect, ApiStamp, ApiUpdate, ApiFails, GiveUp, Exit, handlerVars
<1> QED
  BY <1>2, <1>3, <1>4 DEF Next

\* A request gets past its SELECT only if the row is undispatched.
LEMMA RequestMoves ==
  ASSUME IInv, [Next]_vars, NEW r \in Runs, api'[r] # "none"
  PROVE  \/ api[r] # "none" /\ ~ApiUpdate(r)
         \/ row'[r].dispatched = Null
<1>1. api \in [Runs -> {"none", "selected", "stamped"}]
  BY DEF IInv, TypeOK
<1>2. ~ApiUpdate(r)
  BY <1>1 DEF ApiUpdate
<1>3. CASE Tick \/ Startup \/ Crash \/ UNCHANGED vars
  BY <1>2, <1>3 DEF Tick, Startup, Bind, Reconcile, Serve, Crash, vars, apiVars
<1>4. ASSUME NEW q \in Runs, Accept(q) \/ Handler(q) \/ HandlerFails(q)
      PROVE  api' = api
  BY <1>4 DEF Accept, HandlerFails, Handler, NoPipeline, BeginCreate, SelectActive,
       CancelActive, ActiveCancelled, CancelQueued, InsertRow, Launch, Judge, Resolve,
       apiVars
<1>5. ASSUME NEW q \in Runs, Api(q) \/ ApiFails(q) \/ GiveUp(q) \/ Exit(q)
      PROVE  api[r] # "none" \/ row'[r].dispatched = Null
  <2>1. CASE ApiSelect(q)
    BY <1>1, <2>1 DEF ApiSelect
  <2>2. CASE ApiStamp(q) \/ ApiUpdate(q) \/ ApiFails(q) \/ GiveUp(q) \/ Exit(q)
    BY <1>1, <2>2 DEF ApiStamp, ApiUpdate, ApiFails, GiveUp, Exit, apiVars
  <2> QED
    BY <1>5, <2>1, <2>2 DEF Api
<1> QED
  BY <1>2, <1>3, <1>4, <1>5 DEF Next

\* A request that is under way is the first, and a verdict comes after the row.
LEMMA RequestsStep == IInv /\ RequestsAreFirst /\ [Next]_vars => RequestsAreFirst'
<1> SUFFICES ASSUME IInv, RequestsAreFirst, [Next]_vars, NEW r \in Runs
             PROVE  /\ api'[r] # "none" /\ ~Resolved(r)' => row'[r].dispatched = Null
                    /\ pc'[r] = "resolve" =>
                         worker'[r] = "exited" /\ row'[r].created <= now'[r]
  BY DEF RequestsAreFirst
<1>1. IInv' /\ pc \in [Runs -> PushStates] /\ now \in [Runs -> Nat]
  BY InvStep DEF IInv, TypeOK
<1>2. ASSUME api'[r] # "none", ~Resolved(r)'
      PROVE  row'[r].dispatched = Null
  <2>1. CASE api[r] # "none" /\ ~ApiUpdate(r)
    <3>1. Exists(r) /\ pc[r] \notin BeforeInsert
      BY <2>1 DEF IInv, RowsHaveHandlers
    <3>2. ~InsertRow(r)
      BY <3>1 DEF InsertRow, Step, BeforeInsert
    <3>3. CASE Exists(r)'
      <4>1. ~Resolved(r) /\ row'[r] = row[r]
        BY <1>2, <2>1, <3>2, <3>3, OpenRows
      <4> QED
        BY <2>1, <4>1 DEF RequestsAreFirst
    <3>4. CASE ~Exists(r)'
      BY <1>1, <3>4 DEF IInv, RowsConsistent, NoRow
    <3> QED
      BY <3>3, <3>4
  <2> QED
    BY <1>2, <2>1, RequestMoves
<1>3. ASSUME pc'[r] = "resolve"
      PROVE  worker'[r] = "exited" /\ row'[r].created <= now'[r]
  <2>1. CASE pc'[r] = pc[r] /\ now'[r] = now[r]
    <3>1. worker[r] = "exited" /\ row[r].created <= now[r] /\ Exists(r)
      BY <1>3, <2>1 DEF RequestsAreFirst, IInv, RowsHaveHandlers
    <3>2. row'[r].created = row[r].created
      BY <3>1, RowSteps, TypedValues DEF Fills, Exists
    <3> QED
      BY <2>1, <3>1, <3>2, Lasting
  <2>2. CASE Accept(r) \/ Handler(r) \/ HandlerFails(r)
    <3>1. Judge(r)
      <4>1. ~CancelActive(r)
        BY <1>3, CancelActiveWrites
      <4> QED
        BY <1>1, <1>3, <2>2, <4>1 DEF Accept, Handler, HandlerFails, NoPipeline,
             BeginCreate, SelectActive, ActiveCancelled, CancelQueued, InsertRow, Launch,
             Resolve, Step
    <3>2. worker'[r] = "exited" /\ row' = row /\ now'[r] = clock /\ pc[r] = "wait"
      BY <1>1, <3>1 DEF Judge, Step, workerVars
    <3>3. row[r].created <= clock
      BY <3>2 DEF IInv, NoFutureTimes, RowsHaveHandlers, Exists
    <3> QED
      BY <3>2, <3>3
  <2>3. CASE Crash
    BY <1>1, <1>3, <2>3 DEF Crash
  <2> QED
    BY <2>1, <2>2, <2>3, HandlerMoves
<1> QED
  BY <1>2, <1>3

\* The statement of resolve, on a row that is still open, is refused for one
\* reason only: the row was dispatched after the handler read the clock.
LEMMA RefusedVerdict ==
  ASSUME IInv, RequestsAreFirst, NEW r \in Runs, Resolve(r), ~Resolved(r)'
  PROVE  /\ row' = row /\ row[r].dispatched # Null /\ row[r].dispatched > now[r]
         /\ worker[r] = "exited"
<1>1. /\ pc[r] = "resolve" /\ Exists(r) /\ Checks(row[r])
      /\ worker[r] = "exited" /\ row[r].created <= now[r]
      /\ verdict[r] \in {"failed-internal", "succeeded", "failed-pipeline"}
      /\ row[r] \in Row /\ now[r] \in Nat /\ verdict[r] \in Outcomes \cup {Null}
  BY TypedValues
  DEF Resolve, Step, IInv, RowsHaveHandlers, RowsConsistent, VerdictsKnown,
      RequestsAreFirst
<1>2. UNCHANGED row
  BY <1>1, ResolveWrites DEF Fills, Coalesce, Resolved
<1>3. row[r].resolved = Null /\ row[r].outcome = Null
  BY <1>1, <1>2 DEF Resolved, Checks
<1> DEFINE new == Stamp(row[r], now[r], verdict[r])
<1>4. /\ new.created = row[r].created
      /\ new.dispatched = Coalesce(row[r].dispatched, now[r])
      /\ new.resolved = now[r] /\ new.outcome = verdict[r]
  BY <1>1, <1>3, StampFields DEF Coalesce
<1>5. ~Checks(new)
  <2>1. ASSUME Checks(new) PROVE FALSE
    <3>1. row' = [x \in Runs |-> IF x = r THEN new ELSE row[x]]
      BY <2>1 DEF Resolve, Passes, Write
    <3>2. row'[r].resolved = now[r]
      BY <1>4, <3>1
    <3> QED
      BY <1>1, <1>2, <1>3, <3>2
  <2> QED
    BY <2>1
<1> HIDE DEF new
<1>6. verdict[r] # Null /\ verdict[r] \in Outcomes
  BY <1>1 DEF Outcomes
<1>7. row[r].dispatched # Null /\ row[r].dispatched > now[r]
  BY <1>1, <1>4, <1>5, <1>6 DEF Checks, Coalesce, Row, Time, Exists
<1> QED
  BY <1>1, <1>2, <1>7

\* As long as nothing has failed, a run that no handler of this server works on
\* has its outcome: its handler ended by recording it (run.rs execute, resolve)
\* or died with a server whose orphans were reconciled (reconcile_orphans).
\* The one exception is a verdict refused because of a late stamp.
THEOREM NothingIsLeftOpen == Spec => []NothingLeftOpen
<1>1. IInv /\ RequestsAreFirst /\ NothingLeftOpen /\ [Next]_vars => NothingLeftOpen'
  <2> SUFFICES ASSUME IInv, RequestsAreFirst, NothingLeftOpen, [Next]_vars,
                      faults' = 0, server' \in {"listening", "up"},
                      NEW r \in Runs, pc'[r] \in Ended, Live(r)'
               PROVE  StampedLate(r)'
    BY DEF NothingLeftOpen
  <2>1. Exists(r)' /\ ~Resolved(r)'
    BY DEF Live, Queued, Active, Resolved
  <2>2. ~Reconcile
    <3>1. ASSUME Reconcile PROVE FALSE
      <4>1. Fills(Orphans, clock, "failed-orphaned")
        BY <3>1, ReconcileWrites
      <4>2. r \in Orphans => Resolved(r)'
        BY <4>1, TypedValues DEF Fills, Coalesce, Resolved
      <4>3. r \notin Orphans => row'[r] = row[r]
        BY <4>1 DEF Fills
      <4> QED
        BY <2>1, <4>2, <4>3 DEF Orphans, Exists, Resolved
    <3> QED
      BY <3>1
  <2>3. faults = 0 /\ server \in {"listening", "up"} /\ ~Crash
    BY <2>2, Lasting
  <2>4. pc \in [Runs -> PushStates] /\ faults \in Nat
    BY DEF IInv, TypeOK
  <2>5. CASE pc'[r] = pc[r] /\ now'[r] = now[r]
    <3>1. ~InsertRow(r)
      BY <2>5 DEF InsertRow, Step, Ended
    <3>2. Exists(r) /\ ~Resolved(r) /\ (row'[r] = row[r] \/ ApiUpdate(r))
      BY <2>1, <3>1, OpenRows
    <3>3. StampedLate(r)
      BY <2>3, <2>5, <3>2 DEF NothingLeftOpen, Live, Queued, Active, Resolved
    <3>4. ~ApiUpdate(r)
      BY <3>2, <3>3 DEF StampedLate, RequestsAreFirst, ApiUpdate
    <3> QED
      BY <2>5, <3>2, <3>3, <3>4, Lasting DEF StampedLate
  <2>6. CASE Accept(r) \/ Handler(r) \/ HandlerFails(r)
    <3>1. pc[r] \notin Ended
      BY <2>6 DEF Accept, Handler, HandlerFails, NoPipeline, BeginCreate, SelectActive,
           CancelActive, ActiveCancelled, CancelQueued, InsertRow, Launch, Judge, Resolve,
           Step, Ended
    <3>2. ~HandlerFails(r)
      BY <2>3, <2>4 DEF HandlerFails, Fault
    <3>3. CASE NoPipeline(r) \/ CancelActive(r) \/ CancelQueued(r)
      <4>1. pc[r] \in BeforeInsert /\ pc[r] # "insert"
        BY <3>3, CancelActiveWrites DEF NoPipeline, CancelQueued, Step, BeforeInsert
      <4>2. ~Exists(r) /\ ~InsertRow(r)
        BY <4>1 DEF IInv, RowsHaveHandlers, InsertRow, Step
      <4> QED
        BY <2>1, <4>2, OpenRows
    <3>4. CASE Resolve(r)
      <4>1. /\ row' = row /\ row[r].dispatched # Null /\ row[r].dispatched > now[r]
            /\ worker[r] = "exited"
        BY <2>1, <3>4, RefusedVerdict
      <4>2. pc'[r] = "done" /\ now' = now
        BY <2>4, <3>4 DEF Resolve, Step
      <4> QED
        BY <4>1, <4>2, Lasting DEF StampedLate
    <3>5. CASE \/ Accept(r) \/ BeginCreate(r) \/ SelectActive(r) \/ ActiveCancelled(r)
               \/ InsertRow(r) \/ Launch(r) \/ Judge(r)
      BY <2>4, <3>5 DEF Accept, BeginCreate, SelectActive, ActiveCancelled, InsertRow,
           Launch, Judge, Step, Ended
    <3> QED
      BY <2>6, <3>2, <3>3, <3>4, <3>5 DEF Handler
  <2> QED
    BY <2>3, <2>5, <2>6, HandlerMoves
<1>2. Init => RequestsAreFirst /\ NothingLeftOpen
  BY DEF Init, RequestsAreFirst, NothingLeftOpen
<1> QED
  BY <1>1, <1>2, RequestsStep, Invariance, PTL DEF Spec
=============================================================================
