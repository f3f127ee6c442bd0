------------------------------ MODULE RunStore ------------------------------
(***************************************************************************)
(* The life of CI runs in quire-server: rows of the SQLite table `runs`    *)
(* (quire-server/migrations/0010_outcome_schema.sql) and everyone who      *)
(* writes them.                                                            *)
(*                                                                         *)
(*   - one push handler per updated ref (server.rs, ci/mod.rs, ci/run.rs): *)
(*     a tokio task that cancels the existing runs of its ref, inserts its *)
(*     own, launches quire-ci, waits for it and records the outcome;       *)
(*   - one quire-ci process per run, seen from the server: it asks for its *)
(*     bootstrap, runs the pipeline and exits;                             *)
(*   - the bootstrap endpoint (web/api.rs), which marks a run dispatched;  *)
(*   - the startup of the server, which reconciles orphaned runs.          *)
(*                                                                         *)
(* Every SQL statement is one atomic step, because no connection opens a   *)
(* transaction; whatever the code reads before a statement (the clock, a   *)
(* SELECT) is kept in a local variable until the statement uses it.        *)
(* A run is named by the updated ref of the push it belongs to, so `Runs`  *)
(* is also the set of handlers.                                            *)
(***************************************************************************)
EXTENDS Naturals, FiniteSets

CONSTANTS
  Runs,        \* one per updated ref of each push event
  RefOf,       \* the (repo, ref) each of them belongs to
  Null,        \* SQL NULL
  Threads,     \* worker threads of the server's tokio runtime
  MaxTime,     \* bound on the clock, in milliseconds
  MaxFaults,   \* bound on failing statements, file operations and timeouts
  MaxCrashes   \* bound on deaths of the server

ASSUME NullAssumption == Null \notin Nat
ASSUME OutcomeAssumption ==
  Null \notin {"succeeded", "failed-pipeline", "failed-internal",
               "failed-orphaned", "superseded"}
ASSUME ThreadsAssumption == Threads \in Nat \ {0}
ASSUME BoundsAssumption ==
  MaxTime \in Nat /\ MaxFaults \in Nat /\ MaxCrashes \in Nat

VARIABLES
  clock,     \* wall clock shared by every process of the host
  row,       \* the table `runs`: row[r].created = Null when there is no row
  server,    \* how far `quire serve` has got
  pc,        \* program counter of each push handler
  now,       \* the Timestamp::now() a handler holds for its next UPDATE
  todo,      \* active_ids a handler still has to cancel
  verdict,   \* outcome a handler is about to record
  worker,    \* the quire-ci process of each run
  report,    \* how that process ended: exit status and RunFinished event
  api,       \* the bootstrap request of each run
  apiNow,    \* the Timestamp::now() that request holds
  faults, crashes,
  earlier,   \* history: handlers accepted before this one
  settled    \* history: those among them with nothing left to do

vars == <<clock, row, server, pc, now, todo, verdict, worker, report,
          api, apiNow, faults, crashes, earlier, settled>>

handlerVars == <<pc, now, todo, verdict>>
workerVars == <<worker, report>>
apiVars == <<api, apiNow>>
historyVars == <<earlier, settled>>

-----------------------------------------------------------------------------
(* Rows *)

Outcomes == {"succeeded", "failed-pipeline", "failed-internal",
             "failed-orphaned", "superseded"}
Time == Nat \cup {Null}
Row == [created : Time, dispatched : Time, resolved : Time,
        outcome : Outcomes \cup {Null}]
NoRow == [created |-> Null, dispatched |-> Null, resolved |-> Null,
          outcome |-> Null]

Exists(r) == row[r].created # Null
Queued(r) == Exists(r) /\ row[r].dispatched = Null /\ row[r].resolved = Null
Active(r) == Exists(r) /\ row[r].dispatched # Null /\ row[r].resolved = Null
Resolved(r) == row[r].resolved # Null
Live(r) == Queued(r) \/ Active(r)

SameRef(r, q) == RefOf[r] = RefOf[q]

\* The CHECK constraints of the table: a statement that would break one
\* fails and changes nothing.
Checks(x) ==
  /\ x.dispatched # Null => x.dispatched >= x.created
  /\ x.resolved # Null => x.resolved >= x.created
  /\ x.resolved # Null /\ x.dispatched # Null => x.resolved >= x.dispatched
  /\ (x.resolved = Null) <=> (x.outcome = Null)
  /\ x.outcome \in Outcomes \cup {Null}

Coalesce(a, b) == IF a # Null THEN a ELSE b

\* UPDATE of cancel_existing (queued rows).
Close(x, t, outcome) ==
  [x EXCEPT !.resolved = Coalesce(x.resolved, t),
            !.outcome = Coalesce(x.outcome, outcome)]

\* Mutant of Stamp: the last writer wins.
StampOverwrites(x, t, outcome) ==
  [x EXCEPT !.dispatched = Coalesce(x.dispatched, t),
            !.resolved = t,
            !.outcome = outcome]

\* UPDATE of resolve, cancel_existing (active rows) and reconcile_orphans.
Stamp(x, t, outcome) ==
  [x EXCEPT !.dispatched = Coalesce(x.dispatched, t),
            !.resolved = Coalesce(x.resolved, t),
            !.outcome = Coalesce(x.outcome, outcome)]

\* UPDATE of get_bootstrap, the only one of a lifecycle column without COALESCE.
MarkDispatched(x, t) == [x EXCEPT !.dispatched = t]

\* One statement over the rows of S: it takes effect as a whole or not at all.
Passes(S, new) == \A r \in S : Checks(new[r])
Write(S, new) == row' = [r \in Runs |-> IF r \in S THEN new[r] ELSE row[r]]

\* Mutant of Inserted: created_at comes from a clock that is ahead.
InsertedAhead == [NoRow EXCEPT !.created = clock + 1]

\* INSERT of Runs::create.
Inserted == [NoRow EXCEPT !.created = clock]

\* SELECT of cancel_existing.
ActiveOf(r) == {q \in Runs : SameRef(q, r) /\ Active(q)}

\* Mutant of QueuedOf: only dispatched runs are worth cancelling.
QueuedIgnored(r) == {q \in Runs : SameRef(q, r) /\ Active(q)}

\* WHERE of cancel_existing's last UPDATE.
QueuedOf(r) == {q \in Runs : SameRef(q, r) /\ Queued(q)}

\* Mutant of Orphans: a run that was never dispatched is left alone.
OrphansActive == {r \in Runs : Active(r)}

\* WHERE of reconcile_orphans.
Orphans == {r \in Runs : Exists(r) /\ ~Resolved(r)}

\* Mutant of Orphaned: dispatched_at stays NULL, as in a queued cancel.
OrphanedUndispatched(r) == Close(row[r], clock, "failed-orphaned")

\* SET of reconcile_orphans.
Orphaned(r) == Stamp(row[r], clock, "failed-orphaned")

-----------------------------------------------------------------------------
(* Processes *)

Ended == {"skipped", "done"}
PushStates == {"idle", "source", "select", "cancelActive", "cancelQueued",
               "insert", "launch", "wait", "resolve"} \cup Ended
ServerStates == {"down", "bound", "listening", "up"}
WorkerStates == {"none", "boot", "running", "exited"}
Reports == [ok : BOOLEAN, finished : {"none", "succeeded", "pipeline-failure"}]
Aborted == [ok |-> FALSE, finished |-> "none"]

Init ==
  /\ clock = 0
  /\ row = [r \in Runs |-> NoRow]
  /\ server = "down"
  /\ pc = [r \in Runs |-> "idle"]
  /\ now = [r \in Runs |-> 0]
  /\ todo = [r \in Runs |-> {}]
  /\ verdict = [r \in Runs |-> Null]
  /\ worker = [r \in Runs |-> "none"]
  /\ report = [r \in Runs |-> Aborted]
  /\ api = [r \in Runs |-> "none"]
  /\ apiNow = [r \in Runs |-> 0]
  /\ faults = 0 /\ crashes = 0
  /\ earlier = [r \in Runs |-> {}]
  /\ settled = [r \in Runs |-> {}]

Fault == faults < MaxFaults /\ faults' = faults + 1

\* Handler r moves from one program point to the next.
Step(r, from, to) == pc[r] = from /\ pc' = [pc EXCEPT ![r] = to]

Settled(r) == pc[r] \in Ended /\ api[r] = "none"

Tick ==
  /\ clock < MaxTime
  /\ clock' = clock + 1
  /\ UNCHANGED <<row, server, handlerVars, workerVars, apiVars, faults,
                 crashes, historyVars>>

-----------------------------------------------------------------------------
(* The push handler: run_ref_inner, Runs::create and Run::execute *)

\* Mutant of Listening: the listener task starts as soon as the socket exists.
ListeningEarly == server # "down"

Listening == server \in {"listening", "up"}

\* From its first git command until quire-ci has exited, a handler blocks the
\* thread it runs on: it never awaits.
Blocking == {r \in Runs : pc[r] \notin {"idle"} \cup Ended}
FreeThread == Cardinality(Blocking) < Threads

\* The listener accepts the connection of a hook and spawns a task for it;
\* nothing makes the task wait for the tasks spawned before it.
Accept(r) ==
  /\ Listening
  /\ FreeThread
  /\ Step(r, "idle", "source")
  /\ earlier' = [earlier EXCEPT ![r] = {q \in Runs : pc[q] # "idle"}]
  /\ settled' = [settled EXCEPT ![r] = {q \in Runs : Settled(q)}]
  /\ UNCHANGED <<clock, row, server, now, todo, verdict, workerVars, apiVars,
                 faults, crashes>>

\* The pushed commit has no .quire/ci.fnl (or git cannot show it): no run.
NoPipeline(r) ==
  /\ Step(r, "source", "skipped")
  /\ UNCHANGED <<clock, row, server, now, todo, verdict, workerVars, apiVars,
                 faults, crashes, historyVars>>

\* Runs::create opens the database and cancel_existing reads the clock, once
\* for all the rows it is going to cancel.
BeginCreate(r) ==
  /\ Step(r, "source", "select")
  /\ now' = [now EXCEPT ![r] = clock]
  /\ UNCHANGED <<clock, row, server, todo, verdict, workerVars, apiVars,
                 faults, crashes, historyVars>>

SelectActive(r) ==
  /\ Step(r, "select", "cancelActive")
  /\ todo' = [todo EXCEPT ![r] = ActiveOf(r)]
  /\ UNCHANGED <<clock, row, server, now, verdict, workerVars, apiVars,
                 faults, crashes, historyVars>>

\* One UPDATE per selected id, whatever became of that run in the meantime.
\* An error leaves create at once.
CancelActive(r) ==
  /\ \E q \in todo[r] :
       LET new == [x \in {q} |-> Stamp(row[q], now[r], "superseded")]
       IN  \/ /\ Passes({q}, new)
              /\ Write({q}, new)
              /\ todo' = [todo EXCEPT ![r] = @ \ {q}]
              /\ Step(r, "cancelActive", "cancelActive")
           \/ /\ ~Passes({q}, new)
              /\ todo' = [todo EXCEPT ![r] = {}]
              /\ Step(r, "cancelActive", "done")
              /\ UNCHANGED row
  /\ UNCHANGED <<clock, server, now, verdict, workerVars, apiVars, faults,
                 crashes, historyVars>>

ActiveCancelled(r) ==
  /\ todo[r] = {}
  /\ Step(r, "cancelActive", "cancelQueued")
  /\ UNCHANGED <<clock, row, server, now, todo, verdict, workerVars, apiVars,
                 faults, crashes, historyVars>>

\* One UPDATE for every row that is queued at that moment.
CancelQueued(r) ==
  /\ LET hit == QueuedOf(r)
         new == [q \in hit |-> Close(row[q], now[r], "superseded")]
     IN  \/ /\ Passes(hit, new)
            /\ Write(hit, new)
            /\ Step(r, "cancelQueued", "insert")
         \/ /\ ~Passes(hit, new)
            /\ Step(r, "cancelQueued", "done")
            /\ UNCHANGED row
  /\ UNCHANGED <<clock, server, now, todo, verdict, workerVars, apiVars,
                 faults, crashes, historyVars>>

InsertRow(r) ==
  /\ Step(r, "insert", "launch")
  /\ row' = [row EXCEPT ![r] = Inserted]
  /\ UNCHANGED <<clock, server, now, todo, verdict, workerVars, apiVars,
                 faults, crashes, historyVars>>

\* Run directory, workspace, log file and traceparent are in place, and
\* quire-ci is started with the run's token.  No look at the row.
Launch(r) ==
  /\ Step(r, "launch", "wait")
  /\ worker' = [worker EXCEPT ![r] = "boot"]
  /\ UNCHANGED <<clock, row, server, now, todo, verdict, report, apiVars,
                 faults, crashes, historyVars>>

\* Mutant of VerdictOf: what quire-ci reported counts, however it ended.
VerdictOfReport(ok, finished) ==
  CASE finished = "succeeded" -> "succeeded"
    [] finished = "pipeline-failure" -> "failed-pipeline"
    [] OTHER -> "failed-internal"

\* Mutant of VerdictOf: anything but success is a failed pipeline.
VerdictOfExit(ok, finished) ==
  IF ok /\ finished = "succeeded" THEN "succeeded" ELSE "failed-pipeline"

\* What execute makes of the exit status and the ingested RunFinished event.
VerdictOf(ok, finished) ==
  CASE ok /\ finished = "succeeded" -> "succeeded"
    [] ok /\ finished = "pipeline-failure" -> "failed-pipeline"
    [] OTHER -> "failed-internal"

\* quire-ci has exited: its events are ingested, the outcome is chosen and
\* resolve reads the clock.  An ingest that fails leaves no RunFinished.
Judge(r) ==
  /\ worker[r] = "exited"
  /\ Step(r, "wait", "resolve")
  /\ now' = [now EXCEPT ![r] = clock]
  /\ \E ingested \in BOOLEAN :
       /\ IF ingested THEN UNCHANGED faults ELSE Fault
       /\ verdict' = [verdict EXCEPT ![r] =
            VerdictOf(report[r].ok,
                      IF ingested THEN report[r].finished ELSE "none")]
  /\ UNCHANGED <<clock, row, server, todo, workerVars, apiVars, crashes,
                 historyVars>>

Resolve(r) ==
  /\ Step(r, "resolve", "done")
  /\ LET new == [x \in {r} |-> Stamp(row[r], now[r], verdict[r])]
     IN  IF Passes({r}, new) THEN Write({r}, new) ELSE UNCHANGED row
  /\ UNCHANGED <<clock, server, now, todo, verdict, workerVars, apiVars,
                 faults, crashes, historyVars>>

\* A statement times out on the database lock, or a directory, the workspace,
\* the log file or the quire-ci process cannot be created: the handler
\* returns its error and leaves the rows as they are.
HandlerFails(r) ==
  /\ Fault
  /\ pc[r] \in {"select", "cancelActive", "cancelQueued", "insert", "launch",
                "resolve"}
  /\ Step(r, pc[r], "done")
  /\ todo' = [todo EXCEPT ![r] = {}]
  /\ UNCHANGED <<clock, row, server, now, verdict, workerVars, apiVars,
                 crashes, historyVars>>

Handler(r) ==
  \/ NoPipeline(r) \/ BeginCreate(r)
  \/ SelectActive(r) \/ CancelActive(r) \/ ActiveCancelled(r)
  \/ CancelQueued(r) \/ InsertRow(r) \/ Launch(r) \/ Judge(r) \/ Resolve(r)

-----------------------------------------------------------------------------
(* The bootstrap endpoint: verify_run_token and get_bootstrap *)

\* The answer reaches quire-ci only if it still waits for one.
Answer(r, ok) ==
  IF worker[r] # "boot" THEN UNCHANGED workerVars
  ELSE /\ worker' = [worker EXCEPT ![r] = IF ok THEN "running" ELSE "exited"]
       /\ UNCHANGED report

\* quire-ci runs, but its bootstrap request has not reached the endpoint.
Unasked(r) == worker[r] = "boot" /\ api[r] = "none"

\* A thread of the runtime takes the request and hands the database work to
\* the blocking pool.  410 Gone if the row says dispatched; whether it is
\* resolved is not asked.
ApiSelect(r) ==
  /\ server = "up"
  /\ FreeThread
  /\ Unasked(r)
  /\ IF row[r].dispatched = Null
       THEN api' = [api EXCEPT ![r] = "selected"] /\ UNCHANGED workerVars
       ELSE Answer(r, FALSE) /\ UNCHANGED api
  /\ UNCHANGED <<clock, row, server, handlerVars, apiNow, faults, crashes,
                 historyVars>>

ApiStamp(r) ==
  /\ api[r] = "selected"
  /\ api' = [api EXCEPT ![r] = "stamped"]
  /\ apiNow' = [apiNow EXCEPT ![r] = clock]
  /\ UNCHANGED <<clock, row, server, handlerVars, workerVars, faults, crashes,
                 historyVars>>

\* The run's id is all the statement asks for.
ApiUpdate(r) ==
  /\ api[r] = "stamped"
  /\ api' = [api EXCEPT ![r] = "none"]
  /\ LET new == [x \in {r} |-> MarkDispatched(row[r], apiNow[r])]
     IN  IF Passes({r}, new)
           THEN Write({r}, new) /\ Answer(r, TRUE)
           ELSE UNCHANGED row /\ Answer(r, FALSE)
  /\ UNCHANGED <<clock, server, handlerVars, apiNow, faults, crashes,
                 historyVars>>

\* A statement of the endpoint fails: 500.
ApiFails(r) ==
  /\ Fault
  /\ api[r] # "none"
  /\ api' = [api EXCEPT ![r] = "none"]
  /\ Answer(r, FALSE)
  /\ UNCHANGED <<clock, row, server, handlerVars, apiNow, crashes, historyVars>>

Api(r) == ApiSelect(r) \/ ApiStamp(r) \/ ApiUpdate(r)

-----------------------------------------------------------------------------
(* quire-ci, as the server sees it *)

\* Mutant of GiveUp: the HTTP client of quire-ci has no timeout.
WaitForever(r) ==
  /\ worker[r] = "boot"
  /\ server # "up"
  /\ worker' = [worker EXCEPT ![r] = "exited"]
  /\ UNCHANGED <<clock, row, server, handlerVars, report, apiVars, faults,
                 crashes, historyVars>>

\* It gets no bootstrap: refused while nobody serves HTTP, timed out because
\* handlers block every thread, or lost to a fault.  The request it leaves
\* behind goes on.
GiveUp(r) ==
  /\ worker[r] = "boot"
  /\ IF server = "up" /\ FreeThread THEN Fault ELSE UNCHANGED faults
  /\ worker' = [worker EXCEPT ![r] = "exited"]
  /\ UNCHANGED <<clock, row, server, handlerVars, report, apiVars, crashes,
                 historyVars>>

\* It exits after any part of its work: the exit status and the RunFinished
\* event say different things, and either may be missing.
Exit(r) ==
  /\ worker[r] = "running"
  /\ worker' = [worker EXCEPT ![r] = "exited"]
  /\ \E rep \in Reports : report' = [report EXCEPT ![r] = rep]
  /\ UNCHANGED <<clock, row, server, handlerVars, apiVars, faults, crashes,
                 historyVars>>

-----------------------------------------------------------------------------
(* The server *)

\* A stale socket is removed and the new one bound: from here on hooks can
\* connect, but nobody accepts before the listener task runs.
Bind ==
  /\ server = "down"
  /\ server' = "bound"
  /\ UNCHANGED <<clock, row, handlerVars, workerVars, apiVars, faults,
                 crashes, historyVars>>

\* reconcile_orphans, one UPDATE over every unresolved row of every ref; if
\* it fails the server does not start.  Then the listener is spawned.
Reconcile ==
  /\ server = "bound"
  /\ LET new == [r \in Orphans |-> Orphaned(r)]
     IN  IF Passes(Orphans, new)
           THEN Write(Orphans, new) /\ server' = "listening"
           ELSE UNCHANGED row /\ server' = "down"
  /\ UNCHANGED <<clock, handlerVars, workerVars, apiVars, faults, crashes,
                 historyVars>>

\* The TCP port is bound and axum serves the endpoint.
Serve ==
  /\ server = "listening"
  /\ server' = "up"
  /\ UNCHANGED <<clock, row, handlerVars, workerVars, apiVars, faults,
                 crashes, historyVars>>

\* The server dies at any point, and its tasks and requests with it; of the
\* quire-ci processes it started some die and some live on, but none whose
\* request was cut off.
Crash ==
  /\ server # "down"
  /\ crashes < MaxCrashes
  /\ crashes' = crashes + 1
  /\ server' = "down"
  /\ pc' = [r \in Runs |-> IF pc[r] \in {"idle", "skipped"} THEN pc[r]
                            ELSE "done"]
  /\ todo' = [r \in Runs |-> {}]
  /\ api' = [r \in Runs |-> "none"]
  /\ \E survivors \in SUBSET {r \in Runs : worker[r] = "running" \/ Unasked(r)} :
       worker' = [r \in Runs |->
         IF worker[r] = "none" \/ r \in survivors THEN worker[r] ELSE "exited"]
  /\ UNCHANGED <<clock, row, now, verdict, report, apiNow, faults, historyVars>>

Startup == Bind \/ Reconcile \/ Serve

-----------------------------------------------------------------------------
Next ==
  \/ Tick \/ Startup \/ Crash
  \/ \E r \in Runs :
       \/ Accept(r) \/ Handler(r) \/ HandlerFails(r)
       \/ Api(r) \/ ApiFails(r)
       \/ GiveUp(r) \/ Exit(r)

Spec == Init /\ [][Next]_vars

\* The runtime runs every task it has a thread for, quire-ci's requests time
\* out, a pipeline ends, and a supervisor restarts the server.  Pushes need not
\* come and the clock need not advance.
Fairness ==
  /\ WF_vars(Startup)
  /\ \A r \in Runs : /\ WF_vars(Handler(r)) /\ WF_vars(Api(r))
                      /\ WF_vars(GiveUp(r)) /\ WF_vars(Exit(r))

FairSpec == Spec /\ Fairness

-----------------------------------------------------------------------------
(* Properties *)

\* Every variable keeps its type.
TypeOK ==
  /\ clock \in Nat
  /\ row \in [Runs -> Row]
  /\ server \in ServerStates
  /\ pc \in [Runs -> PushStates]
  /\ now \in [Runs -> Nat]
  /\ todo \in [Runs -> SUBSET Runs]
  /\ verdict \in [Runs -> Outcomes \cup {Null}]
  /\ worker \in [Runs -> WorkerStates]
  /\ report \in [Runs -> Reports]
  /\ api \in [Runs -> {"none", "selected", "stamped"}]
  /\ apiNow \in [Runs -> Nat]
  /\ faults \in Nat /\ crashes \in Nat
  /\ earlier \in [Runs -> SUBSET Runs]
  /\ settled \in [Runs -> SUBSET Runs]

\* Once a run has an outcome, no other writer of the row replaces it: the
\* handler of a superseded run, a second cancel, the endpoint or a restart.
OutcomeIsFinal ==
  [][\A r \in Runs : Resolved(r) =>
       /\ row'[r].resolved = row[r].resolved
       /\ row'[r].outcome = row[r].outcome]_vars

\* A run recorded as succeeded or failed-pipeline was dispatched, and its
\* quire-ci exited 0 after reporting just that, however cancels, failed
\* ingests, stale requests and restarts interleave with it.
VerdictIsEarned ==
  \A r \in Runs :
    /\ row[r].outcome \in {"succeeded", "failed-pipeline"} =>
         row[r].dispatched # Null /\ worker[r] = "exited" /\ report[r].ok
    /\ row[r].outcome = "succeeded" => report[r].finished = "succeeded"
    /\ row[r].outcome = "failed-pipeline" =>
         report[r].finished = "pipeline-failure"

\* Reconciliation never takes a run away from a handler that still works on
\* it: it is over before the first connection is accepted (server.rs).
OrphansHaveNoHandler ==
  [][\A r \in Runs :
       row[r].outcome # "failed-orphaned" /\ row'[r].outcome = "failed-orphaned"
         => pc[r] = "done"]_vars

\* No row that a dead server leaves behind can make reconcile_orphans break a
\* CHECK, which would keep the server from ever starting again.
RestartIsNeverRefused ==
  server = "bound" =>
    \A r \in Orphans : Checks(Orphaned(r))

\* A run is superseded only while a handler of another push to its own
\* (repo, ref) is cancelling; pushes to other refs never touch it.
SupersededByItsRef ==
  [][\A r \in Runs :
       row[r].outcome # "superseded" /\ row'[r].outcome = "superseded" =>
         \E q \in Runs \ {r} :
           SameRef(q, r) /\ pc[q] \in {"cancelActive", "cancelQueued"}]_vars

\* A quire-ci that outlives its server and asks the restarted one for its
\* bootstrap is turned away: no pipeline of an orphaned run starts.
OrphansNeverStart ==
  [][\A r \in Runs :
       worker[r] = "boot" /\ worker'[r] = "running"
         => row[r].outcome # "failed-orphaned"]_vars

\* A push whose run is about to be inserted, or was, has ended every run of
\* its ref that belonged to a handler already finished when it arrived:
\* pushes handled one after the other leave at most one live run per ref.
CancelSettlesFinished ==
  \A q \in Runs : pc[q] = "insert" \/ Exists(q) =>
    \A r \in settled[q] : SameRef(r, q) => ~Live(r)

\* The columns a reader derives the lifecycle from (web/format.rs).
Stage(r) ==
  IF ~Exists(r) THEN "absent"
  ELSE IF Resolved(r) THEN row[r].outcome
  ELSE IF Active(r) THEN "active" ELSE "queued"

stages == [r \in Runs |-> Stage(r)]

Lifecycle == INSTANCE RunLifecycle WITH stage <- stages

\* The table implements the lifecycle of docs/CI-STATE.md.
ImplementsLifecycle == Lifecycle!Spec

\* The endpoint marked r dispatched, for a quire-ci that no longer waited, after
\* its handler read the clock: CHECK refused the verdict.
StampedLate(r) ==
  /\ pc[r] = "done" /\ worker[r] = "exited"
  /\ row[r].dispatched # Null /\ row[r].dispatched > now[r]

\* As long as no statement and no file has failed, a run that no handler works
\* on has its outcome, however its handler, those that cancel it, requests and
\* restarts interleaved.  A server that has not reconciled yet may still find
\* others.  The one exception is a late stamp.
NothingLeftOpen ==
  faults = 0 /\ server \in {"listening", "up"} =>
    \A r \in Runs : pc[r] \in Ended /\ Live(r) => StampedLate(r)

\* Without failing statements or files, every row that is inserted gets an
\* outcome, even if the server dies and has to be restarted, and even if the
\* handlers waiting for quire-ci block all the threads it needs an answer from.
\* The one way to stay open is a late stamp.
EveryRunResolves ==
  \A r \in Runs : Live(r) ~> Resolved(r) \/ StampedLate(r)

-----------------------------------------------------------------------------
(* The inductive invariant: what every writer relies on *)

BeforeInsert == {"idle", "source", "select", "cancelActive", "cancelQueued",
                 "insert", "skipped"}

\* The CHECK constraints hold, and a row is either there or all NULL.
RowsConsistent ==
  \A r \in Runs : IF Exists(r) THEN Checks(row[r]) ELSE row[r] = NoRow

\* Nothing carries a time that has not come yet.
NoFutureTimes ==
  \A r \in Runs :
    /\ now[r] <= clock /\ apiNow[r] <= clock
    /\ row[r].created # Null => row[r].created <= clock
    /\ row[r].dispatched # Null => row[r].dispatched <= clock
    /\ row[r].resolved # Null => row[r].resolved <= clock

\* A handler inserts its row once, and only then is there a quire-ci, a
\* request or a verdict for it.
RowsHaveHandlers ==
  \A r \in Runs :
    /\ pc[r] \in BeforeInsert => ~Exists(r)
    /\ pc[r] \in {"launch", "wait", "resolve"} => Exists(r)
    /\ pc[r] \in BeforeInsert \cup {"launch"} => worker[r] = "none"
    /\ worker[r] # "none" => Exists(r)
    /\ worker[r] = "none" => api[r] = "none" /\ ~report[r].ok
    /\ todo[r] \subseteq {q \in Runs : row[q].dispatched # Null}

\* quire-ci works only on a dispatched run, and its handler knows no more
\* than quire-ci reported.
VerdictsKnown ==
  \A r \in Runs :
    /\ worker[r] = "running" \/ report[r].ok => row[r].dispatched # Null
    /\ report[r].ok => worker[r] = "exited"
    /\ pc[r] = "resolve" =>
         \/ verdict[r] = "failed-internal"
         \/ /\ report[r].ok
            /\ \/ verdict[r] = "succeeded" /\ report[r].finished = "succeeded"
               \/ /\ verdict[r] = "failed-pipeline"
                  /\ report[r].finished = "pipeline-failure"

\* A server that has not reconciled yet runs no task and answers no request,
\* and what it reconciles stays out of the endpoint's reach.
StartsQuiet ==
  \A r \in Runs :
    /\ server \in {"down", "bound"} =>
         api[r] = "none" /\ pc[r] \in {"idle", "skipped", "done"}
    /\ row[r].outcome = "failed-orphaned" =>
         api[r] = "none" /\ row[r].dispatched # Null

\* The inductive strengthening of the invariants above.
IInv ==
  /\ TypeOK /\ RowsConsistent /\ NoFutureTimes /\ RowsHaveHandlers
  /\ VerdictsKnown /\ StartsQuiet /\ VerdictIsEarned

\* The list of a cancelling handler shrinks only by runs that were cancelled:
\* what was finished when its push arrived is in the list as long as it is
\* active, cannot become active any more once the list was made, and is not
\* active when the list is empty.
SettledRuns ==
  \A q \in Runs : \A r \in settled[q] :
    /\ pc[r] \in Ended
    /\ pc[q] \in {"source", "select", "cancelActive", "cancelQueued"} /\ Queued(r)
         => api[r] = "none"
    /\ pc[q] = "cancelActive" /\ SameRef(r, q) /\ Active(r) => r \in todo[q]
    /\ pc[q] = "cancelQueued" /\ SameRef(r, q) => ~Active(r)

\* Of a queued run that has no handler any more, no quire-ci is going to ask
\* for the bootstrap once the server has reconciled.
NobodyAsks ==
  \A r \in Runs :
    /\ pc[r] = "resolve" => worker[r] = "exited"
    /\ server \in {"listening", "up"} /\ pc[r] \in Ended /\ Queued(r)
         => worker[r] # "boot"

\* A request that is under way found its row undispatched, and only a row that
\* was closed meanwhile is dispatched when it writes; resolve reads the clock
\* after its row was made.
RequestsAreFirst ==
  \A r \in Runs :
    /\ api[r] # "none" /\ ~Resolved(r) => row[r].dispatched = Null
    /\ pc[r] = "resolve" => worker[r] = "exited" /\ row[r].created <= now[r]

-----------------------------------------------------------------------------
(* What the repository says and the code does not do *)

\* run.rs: create "cancels any existing queued or active run for the same
\* (repo, ref)" before inserting, so a ref has one live run.
OneLiveRunPerRef ==
  \A r, q \in Runs : SameRef(r, q) /\ Live(r) /\ Live(q) => r = q
=============================================================================
