-------------------------- MODULE Migrations_proof --------------------------
(* Proofs about Migrations, for any releases, runs, jobs and times. *)
EXTENDS Migrations, TLAPS

USE NullAssumption, WordsAssumption, ReleasesAssumption, BoundsAssumption

-----------------------------------------------------------------------------
(* One row *)

\* What a new table runs needs of a row, and what it may not change.
Fits(k, r, x) ==
  /\ x \in RunRow /\ x.id = r.id
  /\ RunChecks(k, x)
  /\ x.kind # Null => x.state = "failed"
  /\ Meaning(x) = Meaning(r)

\* Most migrations leave the rows of runs alone.
LEMMA SameRowFits ==
  ASSUME NEW k \in (2..11) \ {9, 10}, NEW r \in RunRow, RunChecks(k - 1, r),
         r.kind # Null => r.state = "failed"
  PROVE  Fits(k, r, NewRun(k, r))
<1>1. NewRun(k, r) = r
  BY DEF NewRun
<1>2. RunChecks(k, r)
  BY DEF RunChecks
<1> QED
  BY <1>1, <1>2 DEF Fits

\* 0009 gives states new words.
LEMMA RenamedRowFits ==
  ASSUME NEW r \in RunRow, RunChecks(8, r), r.kind # Null => r.state = "failed"
  PROVE  Fits(9, r, NewRun(9, r))
<1>1. /\ RunTimes(r) /\ StateChecks(r, "pending", "complete", "superseded")
  BY DEF RunChecks
<1>2. r.outcome = Null
  BY <1>1 DEF StateChecks, Unset
<1> DEFINE x == NewRun(9, r)
<1>3. \/ r.state = "pending" /\ x = [r EXCEPT !.state = "queued"]
      \/ r.state = "complete" /\ x = [r EXCEPT !.state = "succeeded"]
      \/ r.state = "superseded" /\ x = [r EXCEPT !.state = "canceled"]
      \/ r.state \in {"active", "failed"} /\ x = r
  BY <1>1 DEF StateChecks, NewRun
<1>4. /\ x \in RunRow /\ x.id = r.id /\ x.kind = r.kind /\ x.created = r.created
      /\ x.dispatched = r.dispatched /\ x.resolved = r.resolved /\ x.outcome = r.outcome
  BY <1>3 DEF RunRow, Words
<1>5. \/ r.state = "pending" /\ x.state = "queued"
      \/ r.state = "complete" /\ x.state = "succeeded"
      \/ r.state = "superseded" /\ x.state = "canceled"
      \/ r.state \in {"active", "failed"} /\ x.state = r.state
  BY <1>3 DEF RunRow
<1> HIDE DEF x
<1>6. StateChecks(x, "queued", "succeeded", "canceled")
  BY <1>1, <1>4, <1>5 DEF StateChecks, Set, Unset
<1>7. RunTimes(x)
  BY <1>1, <1>4 DEF RunTimes
<1>8. x.kind # Null => x.state = "failed"
  BY <1>4, <1>5
<1>9. Meaning(x) = Meaning(r)
  BY <1>1, <1>2, <1>4, <1>5 DEF Meaning, StateChecks, Set, Unset
<1> QED
  BY <1>4, <1>6, <1>7, <1>8, <1>9 DEF Fits, RunChecks, x

\* 0010 turns state and kind of failure into an outcome.
LEMMA JudgedRowFits ==
  ASSUME NEW r \in RunRow, RunChecks(9, r), r.kind # Null => r.state = "failed"
  PROVE  Fits(10, r, NewRun(10, r))
<1>1. RunTimes(r) /\ StateChecks(r, "queued", "succeeded", "canceled")
  BY DEF RunChecks
<1>2. r.outcome = Null /\ r.kind \in Kinds \cup {Null}
  BY <1>1 DEF StateChecks, Unset, RunRow
<1> DEFINE x == NewRun(10, r)
<1>3. x = [r EXCEPT !.state = Null, !.kind = Null, !.outcome = OutcomeOf(r)]
  BY DEF NewRun
<1>4. \/ r.state \in {"queued", "active"} /\ OutcomeOf(r) = Null
      \/ r.state = "succeeded" /\ OutcomeOf(r) = "succeeded"
      \/ r.state = "canceled" /\ OutcomeOf(r) = "superseded"
      \/ r.state = "failed" /\ r.kind = "orphaned" /\ OutcomeOf(r) = "failed-orphaned"
      \/ r.state = "failed" /\ r.kind = "process-crashed" /\ OutcomeOf(r) = "failed-internal"
      \/ r.state = "failed" /\ r.kind \in {"other", Null} /\ OutcomeOf(r) = "failed-pipeline"
  BY <1>1, <1>2 DEF StateChecks, OutcomeOf, Kinds
<1>5. OutcomeOf(r) \in Outcomes \cup {Null}
  BY <1>4 DEF Outcomes
<1> HIDE DEF x
<1>6. /\ x \in RunRow /\ x.id = r.id /\ x.kind = Null /\ x.created = r.created
      /\ x.dispatched = r.dispatched /\ x.resolved = r.resolved /\ x.state = Null
      /\ x.outcome = OutcomeOf(r)
  BY <1>3, <1>5 DEF RunRow
<1>7. Null \notin Words /\ Null \notin Outcomes
  OBVIOUS
<1>8. Unset(x.resolved) = Unset(x.outcome)
  <2>1. OutcomeOf(r) = Null <=> r.state \in {"queued", "active"}
    BY <1>4, <1>7 DEF Outcomes
  <2>2. r.resolved = Null <=> r.state \in {"queued", "active"}
    <3>1. /\ r.state \in {"queued", "active", "succeeded", "failed", "canceled"}
          /\ r.state \in {"queued", "active"} => r.resolved = Null
          /\ r.state \in {"succeeded", "failed", "canceled"} => r.resolved # Null
      BY <1>1 DEF StateChecks, Set, Unset
    <3> QED
      BY <3>1
  <2> QED
    BY <1>6, <2>1, <2>2 DEF Unset
<1>9. RunChecks(10, x)
  BY <1>1, <1>5, <1>6, <1>8 DEF RunChecks, RunTimes, OutcomeChecks, Unset
<1>10. Meaning(x) = Meaning(r)
  <2>1. CASE OutcomeOf(r) = Null
    BY <1>1, <1>2, <1>4, <1>6, <1>7, <2>1 DEF Meaning, StateChecks, Set, Unset, Words, Outcomes
  <2>2. CASE OutcomeOf(r) # Null
    <3>1. r.state \in {"succeeded", "canceled", "failed"} /\ r.resolved # Null
      BY <1>1, <1>4, <2>2 DEF StateChecks, Set
    <3>2. Null \notin {"complete", "succeeded", "superseded", "canceled", "failed"}
      BY <1>7 DEF Words
    <3>3. Meaning(x) = OutcomeOf(r)
      BY <1>6, <2>2, <3>1, <3>2 DEF Meaning, Set, Unset
    <3>4. CASE r.state = "failed"
      BY <1>2, <1>4, <3>1, <3>3, <3>4 DEF Meaning, Set, Unset, Kinds
    <3>5. CASE r.state \in {"succeeded", "canceled"}
      BY <1>2, <1>4, <3>1, <3>3, <3>5 DEF Meaning, Set, Unset
    <3> QED
      BY <3>1, <3>4, <3>5
  <2> QED
    BY <2>1, <2>2
<1> QED
  BY <1>6, <1>9, <1>10 DEF Fits, x

\* Whatever a row was, every migration finds it a place and its meaning.
LEMMA NewRunFits ==
  ASSUME NEW k \in 2..11, NEW r \in RunRow, RunChecks(k - 1, r),
         r.kind # Null => r.state = "failed"
  PROVE  Fits(k, r, NewRun(k, r))
<1>1. CASE k = 9
  BY <1>1, RenamedRowFits
<1>2. CASE k = 10
  BY <1>2, JudgedRowFits
<1>3. CASE k \in (2..11) \ {9, 10}
  BY <1>3, SameRowFits
<1> QED
  BY <1>1, <1>2, <1>3

-----------------------------------------------------------------------------
(* The tables *)

\* Most migrations leave the tables as they are.
LEMMA SameTables ==
  ASSUME NEW k \in (1..11) \ {7, 9, 10}, NEW d, Written(k - 1, d), Kept(d)
  PROVE  Written(k, Migrated(k, d)) /\ Kept(Migrated(k, d))
<1>1. Migrated(k, d) = d
  BY DEF Migrated
<1>2. d \in Tables /\ TablesOK(k - 1, d)
  BY DEF Written
<1>3. Accepted(k, d)
  <2>1. CASE k = 1
    <3>1. d.runs = {} /\ d.jobs = {}
      BY <2>1 DEF Written, Empty
    <3> QED
      BY <3>1 DEF Accepted
  <2>2. CASE k # 1
    <3>1. Accepted(k - 1, d)
      BY <1>2, <2>2 DEF TablesOK
    <3>2. ASSUME NEW r \in d.runs PROVE RunChecks(k, r)
      <4>1. RunChecks(k - 1, r)
        BY <3>1 DEF Accepted
      <4> QED
        BY <2>2, <4>1 DEF RunChecks
    <3>3. ASSUME NEW j \in d.jobs PROVE JobChecks(k, j)
      <4>1. JobChecks(k - 1, j)
        BY <3>1 DEF Accepted
      <4>2. (k - 1 < 9) <=> (k < 9)
        OBVIOUS
      <4> QED
        BY <4>1, <4>2 DEF JobChecks
    <3> QED
      BY <3>2, <3>3 DEF Accepted
  <2> QED
    BY <2>1, <2>2
<1>4. TablesOK(k, d)
  BY <1>2, <1>3 DEF TablesOK
<1> QED
  BY <1>1, <1>2, <1>4 DEF Written

\* A rebuilt table runs holds the same runs, and jobs and commands are gone.
LEMMA RunsRebuilt ==
  ASSUME NEW k \in {7, 9, 10}, NEW d, Written(k - 1, d), Kept(d)
  PROVE  /\ RebuildRuns(k, d).jobs = {} /\ RebuildRuns(k, d).sh = {}
         /\ Written(k, RebuildRuns(k, d)) /\ Kept(RebuildRuns(k, d))
<1>1. /\ d \in Tables /\ TablesOK(k - 1, d) /\ k - 1 > 0
      /\ \A r \in d.runs : r.kind # Null => r.state = "failed"
  BY DEF Written
<1>2. \A r \in d.runs : Fits(k, r, NewRun(k, r))
  <2> SUFFICES ASSUME NEW r \in d.runs
               PROVE  Fits(k, r, NewRun(k, r))
    OBVIOUS
  <2>1. r \in RunRow /\ RunChecks(k - 1, r)
    BY <1>1 DEF TablesOK, Accepted
  <2> QED
    BY <1>1, <2>1, NewRunFits
<1> DEFINE e == RebuildRuns(k, d)
           new == {NewRun(k, r) : r \in d.runs}
           gone == {r.id : r \in d.runs}
<1>3. \A j \in d.jobs : j.run \in gone
  BY <1>1 DEF TablesOK
<1>4. \A s \in d.sh : s.run \in gone
  BY <1>1, <1>3 DEF TablesOK
<1>5. {j \in d.jobs : j.run \notin gone} = {} /\ {s \in d.sh : s.run \notin gone} = {}
  BY <1>3, <1>4
<1>6. new \subseteq RunRow
  BY <1>2 DEF Fits
<1> DEFINE w == WithoutRuns(d)
<1>7. w \in Tables /\ w.jobs = {} /\ w.sh = {}
  BY <1>5 DEF WithoutRuns, Tables
<1>8. e = [w EXCEPT !.runs = new]
  BY DEF RebuildRuns
<1> HIDE DEF w, new
<1>9. e.runs = new /\ e.jobs = {} /\ e.sh = {} /\ e \in Tables
  BY <1>6, <1>7, <1>8 DEF Tables
<1> USE DEF new
<1> HIDE DEF e
<1>10. Accepted(k, e)
  BY <1>2, <1>9 DEF Accepted, Fits
<1>11. \A x, y \in e.runs : x.id = y.id => x = y
  <2> SUFFICES ASSUME NEW x \in e.runs, NEW y \in e.runs, x.id = y.id
               PROVE  x = y
    OBVIOUS
  <2>1. PICK r \in d.runs : x = NewRun(k, r)
    BY <1>9
  <2>2. PICK q \in d.runs : y = NewRun(k, q)
    BY <1>9
  <2>3. x.id = r.id /\ y.id = q.id
    BY <1>2, <2>1, <2>2 DEF Fits
  <2>4. r = q
    BY <1>1, <2>3 DEF TablesOK
  <2> QED
    BY <2>1, <2>2, <2>4
<1>12. \A x \in e.runs : x.kind # Null => x.state = "failed"
  BY <1>2, <1>9 DEF Fits
<1>13. e.runs \subseteq RunRow
  BY <1>6, <1>9
<1>14. Written(k, e)
  BY <1>9, <1>10, <1>11, <1>12, <1>13 DEF Written, TablesOK
<1>15. Kept(e)
  <2>1. \A r \in d.runs : NewRun(k, r).id = r.id /\ Meaning(NewRun(k, r)) = Meaning(r)
    BY <1>2 DEF Fits
  <2>2. {x.id : x \in e.runs} = {r.id : r \in d.runs}
    BY <1>9, <2>1
  <2> QED
    BY <1>9, <2>1, <2>2 DEF Kept
<1> QED
  BY <1>9, <1>14, <1>15 DEF e

\* Every migration passes the CHECKs of its new tables and loses no run.
LEMMA MigrationWorks ==
  ASSUME NEW k \in 1..11, NEW d, Written(k - 1, d), Kept(d)
  PROVE  Written(k, Migrated(k, d)) /\ Kept(Migrated(k, d))
<1>1. CASE k \in {7, 10}
  <2>1. Migrated(k, d) = RebuildRuns(k, d)
    BY <1>1 DEF Migrated
  <2> QED
    BY <1>1, <2>1, RunsRebuilt
<1>2. CASE k = 9
  <2> DEFINE e == RebuildRuns(9, d)
             f == RebuildJobs(e)
  <2>1. Migrated(k, d) = f
    BY <1>2 DEF Migrated
  <2>2. e.jobs = {} /\ e.sh = {} /\ Written(9, e) /\ Kept(e)
    BY <1>2, RunsRebuilt
  <2>3. e \in Tables
    BY <2>2 DEF Written
  <2> HIDE DEF e
  <2>4. e = [runs |-> e.runs, jobs |-> {}, sh |-> {}]
    BY <2>2, <2>3 DEF Tables
  <2> DEFINE w == WithoutJobs(e)
  <2>5. w \in Tables /\ w.runs = e.runs /\ w.jobs = {} /\ w.sh = {}
    BY <2>2, <2>3 DEF WithoutJobs, Tables
  <2>6. f = [w EXCEPT !.jobs = {}]
    BY <2>2 DEF RebuildJobs
  <2> HIDE DEF f, w
  <2>7. f = [runs |-> e.runs, jobs |-> {}, sh |-> {}]
    BY <2>5, <2>6 DEF Tables
  <2> QED
    BY <1>2, <2>1, <2>2, <2>4, <2>7
<1>3. CASE k \in (1..11) \ {7, 9, 10}
  BY <1>3, SameTables
<1> QED
  BY <1>1, <1>2, <1>3

-----------------------------------------------------------------------------
(* The invariant *)

\* An empty file has no schema yet.
LEMMA NoTables == Written(0, Empty) /\ None.version = 0 /\ None.db = Empty
<1>1. Empty \in Tables /\ Empty.runs = {} /\ Empty.jobs = {} /\ Empty.sh = {}
  BY DEF Empty, Tables
<1> QED
  BY <1>1 DEF Written, TablesOK, None

\* A file without tables, and no transaction.
LEMMA InitInv == Init => IInv
<1> SUFFICES ASSUME Init PROVE IInv
  OBVIOUS
<1>1. /\ version = 0 /\ db = Empty /\ release \in Releases /\ srv = "down" /\ work = None
      /\ meant = [i \in Ids |-> Null] /\ deaths = 0
  BY DEF Init
<1>2. Written(version, db) /\ Written(work.version, work.db)
  BY <1>1, NoTables
<1>3. Kept(db)
  <2>1. Empty.runs = {}
    BY DEF Empty
  <2> QED
    BY <1>1, <2>1 DEF Kept
<1>4. Transaction /\ UpgradeIsNeverRefused
  BY <1>1 DEF Transaction, UpgradeIsNeverRefused
<1>5. meant \in [Ids -> Outcomes \cup {"active", "queued", Null}] /\ deaths \in 0..MaxDeaths
  BY <1>1
<1> QED
  BY <1>1, <1>2, <1>3, <1>4, <1>5 DEF IInv, TypeOK, Written, RunsKeepMeaning

\* Whatever the server writes about a run fits the schema and has a meaning.
LEMMA KeepWriteRun == IInv /\ WriteRun => IInv'
<1> SUFFICES ASSUME IInv, WriteRun PROVE IInv'
  OBVIOUS
<1>1. PICK r \in RunRows[version] :
        /\ db' = [db EXCEPT !.runs = {x \in @ : x.id # r.id} \cup {r}]
        /\ meant' = [meant EXCEPT ![r.id] = Meaning(r)]
  BY DEF WriteRun
<1>2. /\ srv = "serving" /\ UNCHANGED <<version, release, srv, work, deaths>>
      /\ version \in 1..11 /\ version = release
  BY DEF WriteRun, Serving, IInv, TypeOK
<1>3. /\ db \in Tables /\ TablesOK(version, db) /\ Kept(db)
      /\ \A x \in db.runs : x.kind # Null => x.state = "failed"
      /\ Written(work.version, work.db) /\ work = None
      /\ meant \in [Ids -> Outcomes \cup {"active", "queued", Null}]
  BY <1>2 DEF IInv, Written, Transaction, RunsKeepMeaning
<1>4. /\ r \in RunRow /\ RunChecks(version, r) /\ r.id \in Ids
      /\ r.kind # Null => r.state = "failed"
  BY <1>2 DEF RunRows, Latest, RunRow
<1>5. Meaning(r) \in Outcomes \cup {"active", "queued"} /\ Meaning(r) # Null
  <2>1. r.outcome \in Outcomes \cup {Null}
    BY <1>4 DEF RunRow
  <2>2. Meaning(r) \in Outcomes \cup {"active", "queued"}
    BY <2>1 DEF Meaning, Outcomes, Set, Unset
  <2>3. Null \notin {"active", "queued"} /\ Null \notin Outcomes
    BY DEF Words
  <2> QED
    BY <2>2, <2>3
<1>6. /\ db'.runs = {x \in db.runs : x.id # r.id} \cup {r}
      /\ db'.jobs = db.jobs /\ db'.sh = db.sh /\ db' \in Tables
  BY <1>1, <1>3, <1>4 DEF Tables
<1>7. /\ meant' \in [Ids -> Outcomes \cup {"active", "queued", Null}]
      /\ meant'[r.id] = Meaning(r)
      /\ \A i \in Ids : i # r.id => meant'[i] = meant[i]
  BY <1>1, <1>3, <1>4, <1>5
<1>8. TablesOK(version, db')
  <2>1. Accepted(version, db')
    BY <1>2, <1>3, <1>4, <1>6 DEF TablesOK, Accepted
  <2>2. db'.runs \subseteq RunRow
    BY <1>3, <1>4, <1>6 DEF TablesOK
  <2>3. \A x, y \in db'.runs : x.id = y.id => x = y
    BY <1>3, <1>6 DEF TablesOK
  <2>4. \A j \in db'.jobs : \E x \in db'.runs : x.id = j.run
    <3> SUFFICES ASSUME NEW j \in db.jobs
                 PROVE  \E x \in db'.runs : x.id = j.run
      BY <1>6
    <3>1. PICK x \in db.runs : x.id = j.run
      BY <1>3 DEF TablesOK
    <3> QED
      BY <1>6, <3>1
  <2> QED
    BY <1>3, <1>6, <2>1, <2>2, <2>3, <2>4 DEF TablesOK
<1>9. Written(version', db')
  BY <1>2, <1>3, <1>4, <1>6, <1>8 DEF Written
<1>10. Kept(db)'
  <2>1. ASSUME NEW x \in db'.runs PROVE Meaning(x) = meant'[x.id]
    <3>1. CASE x = r
      BY <1>7, <3>1
    <3>2. CASE x \in db.runs /\ x.id # r.id
      <4>1. x.id \in Ids
        BY <1>3, <3>2 DEF TablesOK, RunRow
      <4> QED
        BY <1>3, <1>7, <3>2, <4>1 DEF Kept
    <3> QED
      BY <1>6, <3>1, <3>2
  <2>2. {x.id : x \in db'.runs} = {x.id : x \in db.runs} \cup {r.id}
    BY <1>6
  <2>3. {i \in Ids : meant'[i] # Null} = {i \in Ids : meant[i] # Null} \cup {r.id}
    BY <1>4, <1>5, <1>7
  <2> QED
    BY <1>3, <2>1, <2>2, <2>3 DEF Kept
<1>11. Transaction' /\ UpgradeIsNeverRefused'
  BY <1>2, <1>3 DEF Transaction, UpgradeIsNeverRefused
<1>12. Written(work.version, work.db)'
  BY <1>2, <1>3 DEF Written, TablesOK, Accepted
<1>13. Written(version, db)'
  BY <1>9
<1>14. /\ version' \in Releases \cup {0} /\ release' \in Releases
       /\ srv' = "serving" /\ version' = release' /\ deaths' \in 0..MaxDeaths
  BY <1>2 DEF IInv, TypeOK
<1> QED
  BY <1>7, <1>10, <1>11, <1>12, <1>13, <1>14 DEF IInv, TypeOK, Written, RunsKeepMeaning

\* A job or a command that is written belongs to a run or a job.
LEMMA KeepWriteRest == IInv /\ (WriteJob \/ WriteSh) => IInv'
<1> SUFFICES ASSUME IInv, WriteJob \/ WriteSh PROVE IInv'
  OBVIOUS
<1>1. /\ srv = "serving" /\ UNCHANGED <<version, release, srv, work, deaths, meant>>
      /\ version \in 1..11 /\ version = release
  BY DEF WriteJob, WriteSh, Serving, IInv, TypeOK
<1>2. /\ db \in Tables /\ TablesOK(version, db) /\ Kept(db)
      /\ \A x \in db.runs : x.kind # Null => x.state = "failed"
      /\ Written(work.version, work.db) /\ work = None
  BY <1>1 DEF IInv, Written, Transaction, RunsKeepMeaning
<1>3. db' \in Tables /\ TablesOK(version, db') /\ db'.runs = db.runs
  <2>1. CASE WriteJob
    <3>1. PICK j \in JobRows[version] :
            /\ \E r \in db.runs : r.id = j.run
            /\ db' = [db EXCEPT !.jobs = {x \in @ : <<x.run, x.job>> # <<j.run, j.job>>} \cup {j}]
      BY <2>1 DEF WriteJob
    <3>2. j \in JobRow /\ JobChecks(version, j)
      BY <1>1 DEF JobRows, Latest
    <3>3. /\ db'.jobs = {x \in db.jobs : <<x.run, x.job>> # <<j.run, j.job>>} \cup {j}
          /\ db'.runs = db.runs /\ db'.sh = db.sh /\ db' \in Tables
      BY <1>2, <3>1, <3>2 DEF Tables
    <3>4. Accepted(version, db')
      BY <1>1, <1>2, <3>2, <3>3 DEF TablesOK, Accepted
    <3>5. \A s \in db'.sh : \E x \in db'.jobs : x.run = s.run /\ x.job = s.job
      <4> SUFFICES ASSUME NEW s \in db.sh
                   PROVE  \E x \in db'.jobs : x.run = s.run /\ x.job = s.job
        BY <3>3
      <4>1. PICK x \in db.jobs : x.run = s.run /\ x.job = s.job
        BY <1>2 DEF TablesOK
      <4>2. CASE x.run = j.run /\ x.job = j.job
        BY <3>3, <4>1, <4>2
      <4>3. CASE ~(x.run = j.run /\ x.job = j.job)
        BY <3>3, <4>1, <4>3
      <4> QED
        BY <4>2, <4>3
    <3>6. \A x \in db'.jobs : \E r \in db'.runs : r.id = x.run
      BY <1>2, <3>1, <3>3 DEF TablesOK
    <3>7. db'.jobs \subseteq JobRow
      BY <1>2, <3>2, <3>3 DEF TablesOK
    <3> QED
      BY <1>2, <3>3, <3>4, <3>5, <3>6, <3>7 DEF TablesOK
  <2>2. CASE WriteSh
    <3>1. PICK s \in ShRow :
            /\ \E j \in db.jobs : j.run = s.run /\ j.job = s.job
            /\ db' = [db EXCEPT !.sh = @ \cup {s}]
      BY <2>2 DEF WriteSh
    <3>2. /\ db'.sh = db.sh \cup {s} /\ db'.runs = db.runs /\ db'.jobs = db.jobs
          /\ db' \in Tables
      BY <1>2, <3>1 DEF Tables
    <3>3. Accepted(version, db')
      BY <1>1, <1>2, <3>2 DEF TablesOK, Accepted
    <3> QED
      BY <1>2, <3>1, <3>2, <3>3 DEF TablesOK
  <2> QED
    BY <2>1, <2>2
<1>4. Kept(db)'
  BY <1>1, <1>2, <1>3 DEF Kept
<1>5. Written(version, db)'
  <2>1. Written(version, db')
    BY <1>1, <1>2, <1>3 DEF Written
  <2> QED
    BY <1>1, <2>1
<1>6. Transaction' /\ UpgradeIsNeverRefused'
  BY <1>1, <1>2 DEF Transaction, UpgradeIsNeverRefused
<1>7. Written(work.version, work.db)'
  BY <1>1, <1>2
<1>8. /\ version' \in Releases \cup {0} /\ release' \in Releases
      /\ srv' = "serving" /\ version' = release' /\ deaths' \in 0..MaxDeaths
      /\ meant' \in [Ids -> Outcomes \cup {"active", "queued", Null}]
  BY <1>1 DEF IInv, TypeOK
<1> QED
  BY <1>4, <1>5, <1>6, <1>7, <1>8 DEF IInv, TypeOK, Written, RunsKeepMeaning

\* The server is stopped, or another release takes its place.
LEMMA KeepReplaced ==
  ASSUME IInv, Stop \/ (\E k \in Releases : Install(k)) \/ UNCHANGED vars
  PROVE  IInv'
<1>1. /\ UNCHANGED <<version, db, work, meant, deaths>>
      /\ release' \in Releases
      /\ \/ srv # "migrating" /\ srv' = "down"
         \/ UNCHANGED <<srv, release>>
  BY DEF Stop, Install, vars, IInv, TypeOK
<1>2. Written(version, db)' /\ Written(work.version, work.db)' /\ Kept(db)'
  BY <1>1 DEF IInv, RunsKeepMeaning, Kept
<1>3. Transaction'
  BY <1>1 DEF IInv, Transaction, Kept
<1>4. /\ version' \in Releases \cup {0} /\ release' \in Releases
      /\ srv' \in {"down", "migrating", "serving", "refused"}
      /\ srv' = "serving" => version' = release'
      /\ deaths' \in 0..MaxDeaths
      /\ meant' \in [Ids -> Outcomes \cup {"active", "queued", Null}]
  BY <1>1 DEF IInv, TypeOK
<1>5. UpgradeIsNeverRefused'
  BY <1>1 DEF IInv, UpgradeIsNeverRefused
<1> QED
  BY <1>2, <1>3, <1>4, <1>5 DEF IInv, TypeOK, Written, RunsKeepMeaning

\* A transaction begins with what is in the file; only a file that a later
\* release has left is refused.
LEMMA KeepStart == IInv /\ Start => IInv'
<1> SUFFICES ASSUME IInv, Start PROVE IInv'
  OBVIOUS
<1>1. /\ srv = "down" /\ UNCHANGED <<version, db, release, meant, deaths>>
      /\ \/ version > release /\ srv' = "refused" /\ work' = work
         \/ ~(version > release) /\ srv' = "migrating" /\ work' = [version |-> version, db |-> db]
  BY DEF Start
<1>2. Written(version, db)' /\ Written(version, db) /\ Kept(db)' /\ Kept(db)
  BY <1>1 DEF IInv, RunsKeepMeaning, Kept
<1>3. version \in 0..11 /\ release \in 1..11
  BY DEF IInv, TypeOK
<1>4. Written(work.version, work.db)' /\ Transaction' /\ UpgradeIsNeverRefused'
  <2>1. CASE version > release /\ srv' = "refused" /\ work' = work
    BY <1>1, <2>1 DEF IInv, Transaction, UpgradeIsNeverRefused
  <2>2. CASE ~(version > release) /\ srv' = "migrating" /\ work' = [version |-> version, db |-> db]
    <3>1. work'.version = version /\ work'.db = db /\ version \in 0..release'
      BY <1>1, <1>3, <2>2
    <3>2. Written(work.version, work.db)'
      BY <1>2, <3>1
    <3>3. Kept(work.db)'
      BY <1>1, <1>2, <3>1 DEF Kept
    <3>4. srv' = "migrating"
      BY <2>2
    <3> QED
      BY <3>1, <3>2, <3>3, <3>4 DEF Transaction, UpgradeIsNeverRefused
  <2> QED
    BY <1>1, <2>1, <2>2
<1>5. /\ version' \in Releases \cup {0} /\ release' \in Releases
      /\ srv' \in {"migrating", "refused"} /\ deaths' \in 0..MaxDeaths
      /\ meant' \in [Ids -> Outcomes \cup {"active", "queued", Null}]
  BY <1>1 DEF IInv, TypeOK
<1> QED
  BY <1>2, <1>4, <1>5 DEF IInv, TypeOK, Written, RunsKeepMeaning

\* A migration of the open transaction is never refused.
LEMMA KeepMigrate == IInv /\ Migrate => IInv'
<1> SUFFICES ASSUME IInv, Migrate PROVE IInv'
  OBVIOUS
<1> DEFINE k == work.version + 1
           d == Migrated(k, work.db)
<1>1. /\ srv = "migrating" /\ work.version < release
      /\ UNCHANGED <<version, db, release, meant, deaths>>
      /\ IF Accepted(k, d)
           THEN work' = [version |-> k, db |-> d] /\ srv' = srv
           ELSE work' = None /\ srv' = "refused"
  BY DEF Migrate
<1>2. release \in 1..11 /\ work.version \in 0..release /\ k \in 1..11 /\ k - 1 = work.version
  BY <1>1 DEF IInv, TypeOK, Transaction
<1>3. Written(k - 1, work.db) /\ Kept(work.db)
  BY <1>1, <1>2 DEF IInv, Transaction
<1>4. k \in 0..release
  BY <1>1, <1>2
<1> HIDE DEF k
<1>5. Written(k, d) /\ Kept(d)
  BY <1>2, <1>3, MigrationWorks
<1>6. k > 0
  BY <1>2
<1>7. Accepted(k, d)
  BY <1>5, <1>6 DEF Written, TablesOK
<1> HIDE DEF d
<1>8. work'.version = k /\ work'.db = d /\ srv' = "migrating"
  BY <1>1, <1>7
<1>9. Written(work.version, work.db)'
  BY <1>5, <1>8
<1>10. Kept(work.db)' /\ Kept(db)'
  BY <1>1, <1>5, <1>8 DEF Kept, IInv, RunsKeepMeaning
<1>11. Transaction' /\ UpgradeIsNeverRefused'
  BY <1>1, <1>4, <1>8, <1>10 DEF Transaction, UpgradeIsNeverRefused
<1>12. Written(version, db)'
  BY <1>1 DEF IInv
<1>13. /\ version' \in Releases \cup {0} /\ release' \in Releases
       /\ deaths' \in 0..MaxDeaths
       /\ meant' \in [Ids -> Outcomes \cup {"active", "queued", Null}]
  BY <1>1 DEF IInv, TypeOK
<1> QED
  BY <1>8, <1>9, <1>10, <1>11, <1>12, <1>13 DEF IInv, TypeOK, Written, RunsKeepMeaning

\* The transaction is committed as a whole or rolled back.
LEMMA KeepEnd == IInv /\ (Commit \/ Die) => IInv'
<1> SUFFICES ASSUME IInv, Commit \/ Die PROVE IInv'
  OBVIOUS
<1>1. /\ UNCHANGED <<release, meant>> /\ work' = None /\ srv' \in {"serving", "down"}
      /\ deaths' \in 0..MaxDeaths
  BY DEF Commit, Die, IInv, TypeOK
<1>2. Written(work.version, work.db)' /\ Transaction'
  BY <1>1, NoTables DEF Transaction
<1>3. /\ Written(version, db)' /\ Kept(db)' /\ version' \in Releases \cup {0}
      /\ srv' = "serving" => version' = release'
  <2>1. CASE Commit
    <3>1. /\ version' = work.version /\ db' = work.db /\ version' = release
          /\ Written(work.version, work.db) /\ Kept(work.db)
      BY <2>1 DEF Commit, IInv, Transaction
    <3>2. Written(version, db)'
      BY <3>1
    <3> QED
      BY <1>1, <3>1, <3>2 DEF IInv, TypeOK, Kept
  <2>2. CASE Die
    BY <1>1, <2>2 DEF Die, IInv, TypeOK, RunsKeepMeaning, Kept
  <2> QED
    BY <2>1, <2>2
<1>4. /\ release' \in Releases
      /\ meant' \in [Ids -> Outcomes \cup {"active", "queued", Null}]
  BY <1>1 DEF IInv, TypeOK
<1>5. UpgradeIsNeverRefused'
  BY <1>1 DEF UpgradeIsNeverRefused
<1> QED
  BY <1>1, <1>2, <1>3, <1>4, <1>5 DEF IInv, TypeOK, Written, RunsKeepMeaning

\* The invariant holds in every reachable state.
THEOREM Invariance == Spec => []IInv
<1>1. IInv /\ [Next]_vars => IInv'
  BY KeepWriteRun, KeepWriteRest, KeepReplaced, KeepStart, KeepMigrate, KeepEnd DEF Next
<1> QED
  BY <1>1, InitInv, PTL DEF Spec

\* The tables fit the schema of their version, after every migration: CHECKs,
\* keys and foreign keys.
THEOREM TypeCorrect == Spec => []TypeOK
<1>1. IInv => TypeOK
  BY DEF IInv
<1> QED
  BY <1>1, Invariance, PTL

\* No migration is refused for what an earlier release has written (the CHECKs
\* of 0007, 0009 and 0010).
THEOREM NeverRefused == Spec => []UpgradeIsNeverRefused
<1>1. IInv => UpgradeIsNeverRefused
  BY DEF IInv
<1> QED
  BY <1>1, Invariance, PTL

\* Over all releases and deaths of the server no run is lost or changes its
\* meaning (the SELECTs of 0009 and 0010).
THEOREM MeaningsKept == Spec => []RunsKeepMeaning
<1>1. IInv => RunsKeepMeaning
  BY DEF IInv
<1> QED
  BY <1>1, Invariance, PTL

==============================================================================
