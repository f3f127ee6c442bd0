------------------------------ MODULE Migrations ------------------------------
(***************************************************************************)
(* The schema of the database over the releases of the server: the SQL of  *)
(* quire-server/migrations, and db::open and db::migrate, which bring the  *)
(* file up to date when a server starts (quire-server/src/db.rs).          *)
(*                                                                         *)
(* Shipped migrations are never edited, so a release is a number of them.  *)
(* Its server writes whatever the CHECKs of its schema let pass; then it   *)
(* is replaced by another release, earlier or later, and may die at any    *)
(* point.  All missing migrations run in one transaction, with             *)
(* `PRAGMA foreign_keys = ON`: dropping a table deletes its rows first.    *)
(*                                                                         *)
(* A column keeps one name here (created, dispatched, resolved) through    *)
(* all its renamings, and one that does not exist holds Null.  Columns no  *)
(* CHECK or mapping looks at are left out, and migrations that only add,   *)
(* drop or rename columns or tables change nothing.                        *)
(***************************************************************************)
EXTENDS Integers

CONSTANTS
  Ids,        \* of runs
  JobIds,
  Null,
  Releases,   \* how many migrations each release has
  MaxTime,    \* bound on timestamps
  MaxDeaths   \* bound on deaths of a server in the middle of its migrations

ASSUME NullAssumption == Null \notin Int
ASSUME ReleasesAssumption == Releases \subseteq 1..11
ASSUME BoundsAssumption == MaxTime \in Nat /\ MaxDeaths \in Nat

VARIABLES
  version,   \* PRAGMA user_version
  db,        \* the committed tables
  release,   \* how many migrations the installed release has
  srv,       \* where its server is
  work,      \* the open transaction: how far it is, and the tables it sees
  meant,     \* history: what was last written about each run
  deaths

vars == <<version, db, release, srv, work, meant, deaths>>

Latest == 11
Empty == [runs |-> {}, jobs |-> {}, sh |-> {}]
None == [version |-> 0, db |-> Empty]

Time == 0..MaxTime
TimeOrNull == Time \cup {Null}
Set(t) == t # Null
Unset(t) == t = Null
Ordered(s, t) == Set(s) /\ Set(t) => s <= t

-----------------------------------------------------------------------------
(* CHECK constraints *)

RunTimes(r) ==
  /\ Ordered(r.created, r.dispatched)
  /\ Ordered(r.created, r.resolved)
  /\ Ordered(r.dispatched, r.resolved)

\* runs, by the words its states have in 0001, 0007 and 0009.
StateChecks(r, queued, succeeded, canceled) ==
  /\ r.state \in {queued, "active", succeeded, "failed", canceled}
  /\ r.state = queued => Unset(r.dispatched) /\ Unset(r.resolved)
  /\ r.state = "active" => Set(r.dispatched) /\ Unset(r.resolved)
  /\ r.state = succeeded => Set(r.dispatched) /\ Set(r.resolved)
  /\ r.state \in {"failed", canceled} => Set(r.resolved)
  /\ Unset(r.outcome)

Outcomes == {"succeeded", "failed-pipeline", "failed-orphaned", "failed-internal",
             "superseded"}

\* ... and in 0010.
OutcomeChecks(r) ==
  /\ Unset(r.resolved) = Unset(r.outcome)
  /\ r.outcome \in Outcomes \cup {Null}
  /\ Unset(r.state) /\ Unset(r.kind)

RunChecks(v, r) ==
  /\ RunTimes(r)
  /\ v < 9 => StateChecks(r, "pending", "complete", "superseded")
  /\ v = 9 => StateChecks(r, "queued", "succeeded", "canceled")
  /\ v > 9 => OutcomeChecks(r)

\* jobs in 0001.
OldJobChecks(j) ==
  CASE j.state = "pending" -> Unset(j.started) /\ Unset(j.finished)
    [] j.state = "active"  -> Set(j.started) /\ Unset(j.finished)
    [] j.state = "skipped" -> Unset(j.started) /\ Set(j.finished)
    [] j.state = "aborted" -> Set(j.finished)
    [] OTHER -> j.state \in {"complete", "failed"} /\ Set(j.started) /\ Set(j.finished)

\* jobs in 0009.
NewJobChecks(j) ==
  CASE j.state = "active" -> Set(j.started) /\ Unset(j.finished)
    [] OTHER -> j.state \in {"succeeded", "failed"} /\ Set(j.started) /\ Set(j.finished)

JobChecks(v, j) ==
  /\ Ordered(j.started, j.finished)
  /\ IF v < 9 THEN OldJobChecks(j) ELSE NewJobChecks(j)

-----------------------------------------------------------------------------
(* Rows a server of schema v may write *)

Words == {"pending", "queued", "active", "complete", "succeeded", "failed", "superseded",
          "canceled"}
Kinds == {"orphaned", "process-crashed", "other"}
ASSUME WordsAssumption == Null \notin Words \cup Kinds \cup Outcomes

RunRow == [id : Ids, state : Words \cup {Null}, kind : Kinds \cup {Null}, created : Time,
           dispatched : TimeOrNull, resolved : TimeOrNull, outcome : Outcomes \cup {Null}]
JobRow == [run : Ids, job : JobIds,
           state : {"pending", "active", "complete", "succeeded", "failed", "skipped",
                    "aborted"},
           started : TimeOrNull, finished : TimeOrNull]
ShRow == [run : Ids, job : JobIds, started : Time]

\* A kind of failure is given to failed runs only.
RunRows == [v \in 1..Latest |->
  {r \in RunRow : RunChecks(v, r) /\ (r.kind # Null => r.state = "failed")}]
JobRows == [v \in 1..Latest |-> {j \in JobRow : JobChecks(v, j)}]

\* What a row says of its run, in the words of 0010.
Meaning(r) ==
  CASE r.outcome # Null                                     -> r.outcome
    [] r.outcome = Null /\ Set(r.resolved) /\ r.state = "failed" ->
         IF r.kind = "orphaned" THEN "failed-orphaned"
         ELSE IF r.kind = "process-crashed" THEN "failed-internal"
         ELSE "failed-pipeline"
    [] r.state \in {"complete", "succeeded"}                -> "succeeded"
    [] r.state \in {"superseded", "canceled"}               -> "superseded"
    [] Unset(r.resolved) /\ Set(r.dispatched)               -> "active"
    [] OTHER                                                -> "queued"

Init ==
  /\ version = 0
  /\ db = Empty
  /\ release \in Releases
  /\ srv = "down"
  /\ work = None
  /\ meant = [i \in Ids |-> Null]
  /\ deaths = 0

-----------------------------------------------------------------------------
(* The server of a release *)

Serving == srv = "serving" /\ UNCHANGED <<version, release, srv, work, deaths>>

\* INSERT or UPDATE of a run.
WriteRun ==
  /\ Serving
  /\ \E r \in RunRows[version] :
       /\ db' = [db EXCEPT !.runs = {x \in @ : x.id # r.id} \cup {r}]
       /\ meant' = [meant EXCEPT ![r.id] = Meaning(r)]

WriteJob ==
  /\ Serving
  /\ \E j \in JobRows[version] :
       /\ \E r \in db.runs : r.id = j.run
       /\ db' = [db EXCEPT !.jobs = {x \in @ : <<x.run, x.job>> # <<j.run, j.job>>} \cup {j}]
  /\ UNCHANGED meant

WriteSh ==
  /\ Serving
  /\ version >= 2
  /\ \E s \in ShRow :
       /\ \E j \in db.jobs : j.run = s.run /\ j.job = s.job
       /\ db' = [db EXCEPT !.sh = @ \cup {s}]
  /\ UNCHANGED meant

Stop ==
  /\ srv = "serving"
  /\ srv' = "down"
  /\ UNCHANGED <<version, db, release, work, meant, deaths>>

\* Another release is installed.
Install(k) ==
  /\ srv \in {"down", "refused"}
  /\ release' = k
  /\ srv' = "down"
  /\ UNCHANGED <<version, db, work, meant, deaths>>

-----------------------------------------------------------------------------
(* The migrations *)

\* Mutant of WithoutRuns: foreign keys are switched off meanwhile.
RunsAlone(d) == [d EXCEPT !.runs = {}]

\* DROP TABLE runs: ON DELETE CASCADE empties jobs, and with it sh.
WithoutRuns(d) ==
  LET gone == {r.id : r \in d.runs} IN
  [runs |-> {}, jobs |-> {j \in d.jobs : j.run \notin gone},
   sh |-> {s \in d.sh : s.run \notin gone}]

\* DROP TABLE jobs: its sh rows go.
WithoutJobs(d) ==
  LET gone == {<<j.run, j.job>> : j \in d.jobs} IN
  [d EXCEPT !.jobs = {}, !.sh = {s \in @ : <<s.run, s.job>> \notin gone}]

\* Mutant of NewRun: 0010 does not look at failure_kind.
NewRunFailsAlike(k, r) ==
  CASE k = 9 /\ r.state = "pending"    -> [r EXCEPT !.state = "queued"]
    [] k = 9 /\ r.state = "complete"   -> [r EXCEPT !.state = "succeeded"]
    [] k = 9 /\ r.state = "superseded" -> [r EXCEPT !.state = "canceled"]
    [] k = 10 ->
         [r EXCEPT !.state = Null, !.kind = Null,
                   !.outcome = CASE r.state \in {"queued", "active"} -> Null
                                 [] r.state = "succeeded" -> "succeeded"
                                 [] r.state = "failed"    -> "failed-pipeline"
                                 [] r.state = "canceled"  -> "superseded"]
    [] OTHER -> r

OutcomeOf(r) ==
  CASE r.state = "succeeded" -> "succeeded"
    [] r.state = "canceled"  -> "superseded"
    [] r.state = "failed" /\ r.kind = "orphaned"        -> "failed-orphaned"
    [] r.state = "failed" /\ r.kind = "process-crashed" -> "failed-internal"
    [] r.state = "failed" /\ r.kind \in {"other", Null} -> "failed-pipeline"
    [] OTHER -> Null

\* The SELECT that 0007, 0009 and 0010 fill the new table runs with.
NewRun(k, r) ==
  CASE k = 9 /\ r.state = "pending"    -> [r EXCEPT !.state = "queued"]
    [] k = 9 /\ r.state = "complete"   -> [r EXCEPT !.state = "succeeded"]
    [] k = 9 /\ r.state = "superseded" -> [r EXCEPT !.state = "canceled"]
    [] k = 10 -> [r EXCEPT !.state = Null, !.kind = Null, !.outcome = OutcomeOf(r)]
    [] OTHER  -> r

\* The SELECT of 0009 for jobs.
NewJob(j) == IF j.state = "complete" THEN [j EXCEPT !.state = "succeeded"] ELSE j

RebuildRuns(k, d) ==
  [WithoutRuns(d) EXCEPT !.runs = {NewRun(k, r) : r \in d.runs}]

\* It runs after runs was rebuilt: the jobs it copies are those still there.
RebuildJobs(d) ==
  [WithoutJobs(d) EXCEPT !.jobs = {NewJob(j) : j \in d.jobs}]

Migrated(k, d) ==
  CASE k = 9         -> RebuildJobs(RebuildRuns(9, d))
    [] k \in {7, 10} -> RebuildRuns(k, d)
    [] OTHER         -> d

\* An INSERT ... SELECT is refused when a row breaks a CHECK.
Accepted(k, d) ==
  /\ \A r \in d.runs : RunChecks(k, r)
  /\ \A j \in d.jobs : JobChecks(k, j)

\* to_latest: a file from a later release is an error.
Start ==
  /\ srv = "down"
  /\ IF version > release
       THEN srv' = "refused" /\ UNCHANGED work
       ELSE srv' = "migrating" /\ work' = [version |-> version, db |-> db]
  /\ UNCHANGED <<version, db, release, meant, deaths>>

Migrate ==
  /\ srv = "migrating"
  /\ work.version < release
  /\ LET k == work.version + 1
         d == Migrated(k, work.db)
     IN IF Accepted(k, d)
          THEN work' = [version |-> k, db |-> d] /\ UNCHANGED srv
          ELSE work' = None /\ srv' = "refused"
  /\ UNCHANGED <<version, db, release, meant, deaths>>

Commit ==
  /\ srv = "migrating"
  /\ work.version = release
  /\ version' = release
  /\ db' = work.db
  /\ work' = None
  /\ srv' = "serving"
  /\ UNCHANGED <<release, meant, deaths>>

\* Mutant of Die: there is no transaction around the migrations.
DieHalfway ==
  /\ srv = "migrating"
  /\ deaths < MaxDeaths
  /\ deaths' = deaths + 1
  /\ srv' = "down"
  /\ db' = work.db
  /\ work' = None
  /\ UNCHANGED <<version, release, meant>>

\* The transaction is rolled back.
Die ==
  /\ srv = "migrating"
  /\ deaths < MaxDeaths
  /\ deaths' = deaths + 1
  /\ srv' = "down"
  /\ work' = None
  /\ UNCHANGED <<version, db, release, meant>>

Next ==
  \/ WriteRun \/ WriteJob \/ WriteSh \/ Stop
  \/ \E k \in Releases : Install(k)
  \/ Start \/ Migrate \/ Commit \/ Die

Spec == Init /\ [][Next]_vars

-----------------------------------------------------------------------------
(* Properties *)

TablesOK(v, d) ==
  /\ d.runs \subseteq RunRow /\ d.jobs \subseteq JobRow /\ d.sh \subseteq ShRow
  /\ v > 0 => Accepted(v, d)
  /\ \A r, q \in d.runs : r.id = q.id => r = q
  /\ \A j \in d.jobs : \E r \in d.runs : r.id = j.run
  /\ \A s \in d.sh : \E j \in d.jobs : j.run = s.run /\ j.job = s.job

\* The tables fit the schema of their version, in the file and in an open
\* transaction: CHECKs, keys and foreign keys hold after every rebuild.
TypeOK ==
  /\ version \in Releases \cup {0} /\ release \in Releases
  /\ srv \in {"down", "migrating", "serving", "refused"}
  /\ srv = "serving" => version = release
  /\ TablesOK(version, db)
  /\ TablesOK(work.version, work.db)
  /\ deaths \in 0..MaxDeaths

\* No row that an earlier release could write makes a later one fail to start:
\* migrate refuses a file only when a later release has been there (the CHECKs
\* of 0007, 0009 and 0010 on what their SELECTs produce).
UpgradeIsNeverRefused == srv = "refused" => version > release

\* The tables hold all runs, as they were meant.
Kept(d) ==
  /\ {r.id : r \in d.runs} = {i \in Ids : meant[i] # Null}
  /\ \A r \in d.runs : Meaning(r) = meant[r.id]

\* However often the server is replaced or dies on the way, no run is lost, and
\* each reads as what was last written about it (the renamings of 0009 and 0010
\* after one another).
RunsKeepMeaning == Kept(db)

-----------------------------------------------------------------------------
(* The inductive invariant *)

Tables == [runs : SUBSET RunRow, jobs : SUBSET JobRow, sh : SUBSET ShRow]

\* Besides the schema: only failed runs have a kind of failure.
Written(v, d) ==
  /\ d \in Tables
  /\ TablesOK(v, d)
  /\ v = 0 => d = Empty
  /\ \A r \in d.runs : r.kind # Null => r.state = "failed"

\* The open transaction is on its way from the file to the installed release.
Transaction ==
  IF srv = "migrating"
    THEN work.version \in 0..release /\ Kept(work.db)
    ELSE work = None

IInv ==
  /\ TypeOK
  /\ meant \in [Ids -> Outcomes \cup {"active", "queued", Null}]
  /\ Written(version, db) /\ Written(work.version, work.db)
  /\ Transaction
  /\ RunsKeepMeaning /\ UpgradeIsNeverRefused

-----------------------------------------------------------------------------
(* A claim of the repository that the code does not keep *)

\* 0009_rename_ci_vocab.sql 4: "jobs:  complete -> succeeded", by an INSERT ...
\* SELECT that "rewrites the state column inline": the jobs of a run are there
\* after an upgrade as before.
JobsSurviveUpgrades ==
  [][\A j \in db.jobs : \E x \in db'.jobs : x.run = j.run /\ x.job = j.job]_vars
=============================================================================
