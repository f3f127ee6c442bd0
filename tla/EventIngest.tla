---------------------------- MODULE EventIngest ----------------------------
(***************************************************************************)
(* quire-server's side of a run's report: once quire-ci has exited,        *)
(* `execute` (quire-server/src/ci/run.rs) replays its events.jsonl into    *)
(* the tables `jobs` and `sh`, in two passes over the events and one       *)
(* autocommitted INSERT per row, and then records a verdict.  The page of  *)
(* the run joins the rows with the log files by position                   *)
(* (quire/web/handlers/ci.rs, quire/web/db.rs).                            *)
(*                                                                         *)
(* QuireCi is the process that writes the file.  What else can happen to   *)
(* the run's row meanwhile is RunStore's subject: the verdict here is the  *)
(* one the handler asks `resolve` to record.                               *)
(***************************************************************************)
EXTENDS QuireCi

VARIABLES
  srv,       \* where the handler is
  k,         \* index of the event it replays next
  openJob,   \* inflight_jobs: start of the jobs seen to start
  openSh,    \* inflight_sh: the last started command of each job
  outcome,   \* run_outcome
  jobRows,   \* rows of `jobs` of this run
  shRows,    \* rows of `sh` of this run
  verdict    \* what the handler resolves the run with

srvVars == <<srv, k, openJob, openSh, outcome, jobRows, shRows, verdict>>
vars == <<ciVars, srvVars>>

Verdicts == {"succeeded", "failed-pipeline", "failed-internal"}
ASSUME VerdictAssumption == Null \notin Verdicts

JobRow == [job : Jobs, state : JobOutcomes, started : 0..MaxClock,
           finished : 0..MaxClock]
ShRow == [job : Jobs, started : 0..MaxClock, finished : 0..MaxClock,
          cmd : 1..MaxCalls, exit_code : 1..MaxCalls]

Init ==
  /\ CiInit
  /\ srv = "waiting"
  /\ k = 1
  /\ openJob = [j \in Jobs |-> Null]
  /\ openSh = [j \in Jobs |-> Null]
  /\ outcome = Null
  /\ jobRows = {}
  /\ shRows = {}
  /\ verdict = Null

-----------------------------------------------------------------------------
(* Rows *)

\* PRIMARY KEY and CHECKs of `jobs`.
JobAccepted(x) ==
  /\ \A y \in jobRows : y.job # x.job
  /\ x.finished >= x.started

\* FOREIGN KEY and PRIMARY KEY of `sh`.
ShAccepted(x) ==
  /\ \E y \in jobRows : y.job = x.job
  /\ \A y \in shRows : y.job # x.job \/ y.started # x.started

Seen(kinds) == k <= Len(file) /\ file[k].kind \in kinds
Ev == file[k]
Advance == k' = k + 1

\* The row for the job that finishes with the current event.
JobRowOf(e) ==
  [job |-> e.job, state |-> e.outcome, finished |-> e.at,
   started |-> IF openJob[e.job] = Null THEN e.at ELSE openJob[e.job]]

\* The row for the command that finishes with the current event.
ShRowOf(e) ==
  [job |-> e.job, started |-> openSh[e.job].at, finished |-> e.at,
   cmd |-> openSh[e.job].cmd, exit_code |-> e.cmd]

-----------------------------------------------------------------------------
(* ingest_events *)

\* Mutant of Abandon: an outcome that was read survives the error.
KeepOutcome ==
  /\ srv' = "judging"
  /\ UNCHANGED outcome

\* The error is logged, and there is no outcome.
Abandon ==
  /\ srv' = "judging"
  /\ outcome' = Null

\* Mutant of ReadEvents: the process is not waited for.
ReadEventsEarly ==
  /\ srv = "waiting"
  /\ IF file = Null \/ torn
       THEN Abandon
       ELSE srv' = "jobs" /\ UNCHANGED outcome
  /\ UNCHANGED <<ciVars, k, openJob, openSh, jobRows, shRows, verdict>>

\* The process has exited; its file is read and parsed.  A missing file is
\* no error, an incomplete line fails the parse of all of them.
ReadEvents ==
  /\ srv = "waiting"
  /\ pc = "exited"
  /\ IF file = Null \/ torn
       THEN Abandon
       ELSE srv' = "jobs" /\ UNCHANGED outcome
  /\ UNCHANGED <<ciVars, k, openJob, openSh, jobRows, shRows, verdict>>

NoteJob ==
  /\ srv = "jobs"
  /\ Seen({"job_started"})
  /\ openJob' = [openJob EXCEPT ![Ev.job] = Ev.at]
  /\ Advance
  /\ UNCHANGED <<ciVars, srv, openSh, outcome, jobRows, shRows, verdict>>

InsertJob ==
  /\ srv = "jobs"
  /\ Seen({"job_finished"})
  /\ openJob' = [openJob EXCEPT ![Ev.job] = Null]
  /\ IF JobAccepted(JobRowOf(Ev))
       THEN /\ jobRows' = jobRows \cup {JobRowOf(Ev)}
            /\ Advance
            /\ UNCHANGED <<srv, outcome>>
       ELSE Abandon /\ UNCHANGED <<jobRows, k>>
  /\ UNCHANGED <<ciVars, openSh, shRows, verdict>>

NoteOutcome ==
  /\ srv = "jobs"
  /\ Seen({"run_finished"})
  /\ outcome' = Ev.outcome
  /\ Advance
  /\ UNCHANGED <<ciVars, srv, openJob, openSh, jobRows, shRows, verdict>>

\* The second pass starts over with the first event.
SecondPass ==
  /\ srv = "jobs"
  /\ k > Len(file)
  /\ srv' = "shs"
  /\ k' = 1
  /\ UNCHANGED <<ciVars, openJob, openSh, outcome, jobRows, shRows, verdict>>

\* Events a pass has no use for.
Skip ==
  /\ \/ srv = "jobs" /\ Seen({"sh_started", "sh_finished"})
     \/ srv = "shs" /\ Seen({"job_started", "job_finished", "run_finished"})
  /\ Advance
  /\ UNCHANGED <<ciVars, srv, openJob, openSh, outcome, jobRows, shRows, verdict>>

\* Mutant of Noted: a start that is still open is not replaced.
NotedFirst(e) == IF openSh[e.job] = Null THEN e ELSE openSh[e.job]

\* One slot per job: a command that never finished is forgotten.
Noted(e) == e

NoteSh ==
  /\ srv = "shs"
  /\ Seen({"sh_started"})
  /\ openSh' = [openSh EXCEPT ![Ev.job] = Noted(Ev)]
  /\ Advance
  /\ UNCHANGED <<ciVars, srv, openJob, outcome, jobRows, shRows, verdict>>

InsertSh ==
  /\ srv = "shs"
  /\ Seen({"sh_finished"})
  /\ openSh' = [openSh EXCEPT ![Ev.job] = Null]
  /\ IF openSh[Ev.job] = Null
       THEN Advance /\ UNCHANGED <<srv, outcome, shRows>>
       ELSE IF ShAccepted(ShRowOf(Ev))
              THEN /\ shRows' = shRows \cup {ShRowOf(Ev)}
                   /\ Advance
                   /\ UNCHANGED <<srv, outcome>>
              ELSE Abandon /\ UNCHANGED <<k, shRows>>
  /\ UNCHANGED <<ciVars, openJob, jobRows, verdict>>

EndIngest ==
  /\ srv = "shs"
  /\ k > Len(file)
  /\ srv' = "judging"
  /\ UNCHANGED <<ciVars, k, openJob, openSh, outcome, jobRows, shRows, verdict>>

\* The file cannot be read, the database not be opened, or a statement
\* fails (SQLITE_BUSY): what was inserted before stays.
IngestFails ==
  /\ \/ srv = "waiting" /\ pc = "exited"
     \/ srv = "jobs" /\ Seen({"job_finished"})
     \/ srv = "shs" /\ Seen({"sh_finished"}) /\ openSh[Ev.job] # Null
  /\ Fault
  /\ Abandon
  /\ UNCHANGED <<clock, order, pc, at, attempts, file, torn, recorded, logs, exit,
                 calls, ended, unlogged>>
  /\ UNCHANGED <<k, openJob, openSh, jobRows, shRows, verdict>>

\* The tail of `execute`: the exit status first, then the outcome.
Verdict ==
  CASE exit = "ok" /\ outcome = "succeeded"        -> "succeeded"
    [] exit = "ok" /\ outcome = "pipeline_failure" -> "failed-pipeline"
    [] OTHER                                       -> "failed-internal"

Judge ==
  /\ srv = "judging"
  /\ verdict' = Verdict
  /\ srv' = "done"
  /\ UNCHANGED <<ciVars, k, openJob, openSh, outcome, jobRows, shRows>>

\* The server dies and with it the handler; quire-ci goes on.
ServerDies ==
  /\ srv \in {"waiting", "jobs", "shs", "judging"}
  /\ Fault
  /\ srv' = "gone"
  /\ UNCHANGED <<clock, order, pc, at, attempts, file, torn, recorded, logs, exit,
                 calls, ended, unlogged>>
  /\ UNCHANGED <<k, openJob, openSh, outcome, jobRows, shRows, verdict>>

Ci == CiNext /\ UNCHANGED srvVars
Time == Tick /\ UNCHANGED srvVars
Ingest ==
  \/ ReadEvents
  \/ NoteJob \/ InsertJob \/ NoteOutcome \/ SecondPass
  \/ NoteSh \/ InsertSh \/ EndIngest
  \/ Skip
  \/ IngestFails
Next == Time \/ Ci \/ Ingest \/ Judge \/ ServerDies

Spec == Init /\ [][Next]_vars

-----------------------------------------------------------------------------
(* The page of the run *)

\* ORDER BY job_id, started_at_ms: the row's place among those of its job.
Position(x) ==
  Cardinality({y \in shRows : y.job = x.job /\ y.started <= x.started})

\* The command whose output the page shows beside the row.
ShownLog(x) == {l.cmd : l \in {m \in logs : m.job = x.job /\ m.n = Position(x)}}

-----------------------------------------------------------------------------
(* Properties *)

\* Types of the process, its files, the handler and the two tables.
TypeOK ==
  /\ clock \in 0..MaxClock
  /\ order \in Pipelines
  /\ pc \in {"start", "boot", "next", "job", "sh", "log", "close", "exiting",
            "exited"}
  /\ at \in 1..Len(order) + 1 /\ attempts \in 0..MaxCalls
  /\ file = Null \/ file \in Seq(Event)
  /\ torn \in BOOLEAN
  /\ recorded \in [Jobs -> 0..MaxCalls]
  /\ logs \subseteq [job : Jobs, n : 1..MaxCalls, cmd : 1..MaxCalls \cup {Null}]
  /\ exit \in {Null, "ok", "failed"}
  /\ faults \in 0..MaxFaults
  /\ calls \subseteq ShRow /\ ended \subseteq JobRow
  /\ unlogged \subseteq 1..MaxCalls
  /\ srv \in {"waiting", "jobs", "shs", "judging", "done", "gone"}
  /\ k \in Nat \ {0}
  /\ openJob \in [Jobs -> 0..MaxClock \cup {Null}]
  /\ openSh \in [Jobs -> Event \cup {Null}]
  /\ outcome \in RunOutcomes \cup {Null}
  /\ jobRows \subseteq JobRow /\ shRows \subseteq ShRow
  /\ verdict \in Verdicts \cup {Null}

\* The window of the line's job is open.
Window(i) ==
  /\ \E s \in 1..i : file[s].kind = "job_started" /\ file[s].job = file[i].job
  /\ \A s \in 1..i - 1 : file[s].kind = "job_finished" => file[s].job # file[i].job
\* A line is the last one, opens a window, or lies in the window of its job.
Paired(i) ==
  /\ file[i].kind = "run_finished" => i = Len(file)
  /\ file[i].kind = "job_started" =>
       \A s \in 1..i - 1 :
         file[s].kind = "job_started" =>
           /\ file[s].job # file[i].job
           /\ \E f \in s..i : file[f].kind = "job_finished" /\ file[f].job = file[s].job
  /\ file[i].kind \in {"job_finished", "sh_started", "sh_finished"} => Window(i)
  /\ file[i].kind = "sh_finished" =>
       /\ i > 1
       /\ file[i - 1].kind = "sh_started"
       /\ file[i - 1].job = file[i].job
       /\ file[i - 1].cmd = file[i].cmd

\* What consumers of the stream rely on (event.rs): a run_finished event is
\* the last one, each job has one window between its started and its finished
\* event, no two windows overlap, each sh event lies in the window of its job,
\* and a finished command directly follows its own start.
StreamPairsUp == file # Null => \A i \in DOMAIN file : Paired(i)

\* The tables show only what happened: a row of `sh` has the command, exit
\* code and times of one and the same command, and a row of `jobs` the state
\* and times of its job (the pairing of ingest_events, run.rs).
RowsAreReal ==
  /\ jobRows \subseteq ended
  /\ shRows \subseteq calls

\* A run that is said to have succeeded ran every job of its pipeline to a
\* successful end, and one said to have failed stopped at its only failed job
\* or never compiled (run_pipeline, and the verdict of `execute`).
VerdictMatchesJobs ==
  /\ verdict = "succeeded" =>
       /\ {e.job : e \in ended} = {order[i] : i \in DOMAIN order}
       /\ \A e \in ended : e.state = "succeeded"
  /\ verdict = "failed-pipeline" =>
       \/ ended = {}
       \/ /\ Cardinality({e \in ended : e.state = "failed"}) = 1
          /\ {e.job : e \in ended} = {order[i] : i \in 1..Cardinality(ended)}

\* A verdict that quire-ci reported stands beside complete tables: whatever
\* made ingestion stop early also costs the run its verdict (run.rs 305-341).
VerdictShowsEverything ==
  verdict \in {"succeeded", "failed-pipeline"} =>
    jobRows = ended /\ shRows = calls

\* The page shows each command with its own output up to the first command
\* of its job whose log could not be written (run_detail in handlers/ci.rs
\* finds log files by position, Runtime::sh numbers them by what it recorded).
LogsMatchRows ==
  \A x \in shRows :
    (\A y \in calls : y.job = x.job /\ y.cmd <= x.cmd => y.cmd \notin unlogged)
      => ShownLog(x) = {x.cmd}

\* The abstract report: its items are the rows the tables can hold.
Report == INSTANCE RunReport
  WITH over <- pc = "exited", happened <- ended \cup calls,
       shown <- jobRows \cup shRows, None <- Null,
       Failures <- [job : Jobs, state : {"failed"}, started : 0..MaxClock,
                    finished : 0..MaxClock]
ImplementsReport == Report!Spec

-----------------------------------------------------------------------------
(* The inductive invariant: the process *)

\* There is a stream of events to speak of.
Streaming == pc # "start" /\ (pc = "exited" => file # Null)

InJob == {"job", "sh", "log"}

\* The jobs that ended are the first n of the pipeline.
EndedThrough(n) ==
  /\ {e.job : e \in ended} = {order[i] : i \in 1..n}
  /\ IsFiniteSet(ended) /\ Cardinality(ended) = n

NoneFailed == \A e \in ended : e.state = "succeeded"
OneFailed == Cardinality({e \in ended : e.state = "failed"}) = 1

\* The process goes through the jobs in order and stops at a failed one.
JobsInOrder ==
  /\ at \in DOMAIN order
  /\ pc \in {"start", "boot"} => ended = {} /\ calls = {}
  /\ pc = "boot" => file = <<>> /\ at = 1
  /\ pc = "start" => file = Null /\ at = 1
  /\ pc \in {"next"} \cup InJob => EndedThrough(at - 1) /\ NoneFailed
  /\ pc = "close" => /\ EndedThrough(at)
                     /\ (at = Len(order) /\ NoneFailed) \/ OneFailed

\* What a run_finished event says of the jobs.
Conclusion(result) ==
  /\ result = "succeeded" => EndedThrough(Len(order)) /\ NoneFailed
  /\ result = "pipeline_failure" =>
       \/ ended = {}
       \/ (\E n \in DOMAIN order : EndedThrough(n)) /\ OneFailed

Is(i, kind, job) == file[i].kind = kind /\ file[i].job = job
Before(n, job) == \E m \in 1..n : order[m] = job

\* A line of the stream, as far as the next event of the process depends on it.
LineSoFar(i) ==
  /\ file[i].kind = "run_finished" =>
       /\ pc \in {"exiting", "exited"}
       /\ file[i].outcome \in RunOutcomes /\ Conclusion(file[i].outcome)
  /\ file[i].kind # "run_finished" => file[i].job \in Jobs
  /\ file[i].kind = "job_finished" => file[i].outcome \in JobOutcomes
  /\ pc = "next" /\ file[i].kind = "job_started" =>
       /\ Before(at - 1, file[i].job)
       /\ \E f \in i..Len(file) : Is(f, "job_finished", file[i].job)
  /\ pc \in InJob /\ file[i].kind = "job_started" =>
       file[i].job = Current \/ Before(at - 1, file[i].job)
  /\ pc \in {"next"} \cup InJob /\ file[i].kind = "job_finished" =>
       Before(at - 1, file[i].job)

StreamSoFar ==
  Streaming =>
    /\ file \in Seq(Event)
    /\ \A i \in DOMAIN file : LineSoFar(i)
    /\ pc \in InJob => \E i \in DOMAIN file : Is(i, "job_started", Current)
    /\ pc = "sh" => /\ Len(file) > 0 /\ Is(Len(file), "sh_started", Current)
                    /\ file[Len(file)].cmd = attempts

\* Line i is the end of the job, or of the command, that the row describes.
JobLine(x, i) ==
  /\ file[i].kind = "job_finished"
  /\ \E s \in 1..i :
       /\ Is(s, "job_started", file[i].job)
       /\ x = [job |-> file[i].job, state |-> file[i].outcome,
               started |-> file[s].at, finished |-> file[i].at]

ShLine(x, i) ==
  /\ file[i].kind = "sh_finished"
  /\ i > 1
  /\ x = [job |-> file[i].job, started |-> file[i - 1].at, finished |-> file[i].at,
          cmd |-> file[i - 1].cmd, exit_code |-> file[i].cmd]

\* The rows of the lines up to i, and only they.
JobsOfLines(rows, i) ==
  /\ \A x \in rows : \E l \in 1..i : JobLine(x, l)
  /\ \A l \in 1..i : file[l].kind = "job_finished" => \E x \in rows : JobLine(x, l)

CallsOfLines(rows, i) ==
  /\ \A x \in rows : \E l \in 1..i : ShLine(x, l)
  /\ \A l \in 1..i : file[l].kind = "sh_finished" => \E x \in rows : ShLine(x, l)

\* What happened is what the stream says.
StreamIsComplete ==
  Streaming => JobsOfLines(ended, Len(file)) /\ CallsOfLines(calls, Len(file))

\* Commands are numbered in the order of their starts and of their events.
CallsInOrder ==
  \A x \in calls :
    /\ x.cmd <= attempts /\ (pc = "sh" => x.cmd < attempts)
    /\ x.exit_code = x.cmd
    /\ x.started <= clock /\ (pc = "sh" => x.started <= StartedAt)
    /\ \A y \in calls : x.cmd = y.cmd => x = y
    /\ \A y \in calls : x.cmd < y.cmd => x.started <= y.started

LinesInOrder ==
  Streaming =>
    \A i \in DOMAIN file :
      /\ file[i].at <= clock
      /\ file[i].kind = "sh_finished" =>
           /\ file[i].cmd \in 1..attempts /\ (pc = "sh" => file[i].cmd # attempts)
           /\ \A l \in i + 1..Len(file) :
                file[l].kind = "sh_finished" => file[i].cmd < file[l].cmd

CommandsInOrder ==
  /\ pc \in {"sh", "log"} => attempts \in 1..MaxCalls
  /\ CallsInOrder
  /\ LinesInOrder

CallsUpTo(x) == {y \in calls : y.job = x.job /\ y.cmd <= x.cmd}
CallsOf(j) == {y \in calls : y.job = j}
Unbroken(S) == \A y \in S : y.cmd \notin unlogged

\* The log of the command is written, or it could not be.
Written(x) ==
  \/ \E e \in ended : e.job = x.job
  \/ pc \in {"job", "sh"}
  \/ pc = "log" /\ x.cmd # attempts

\* The command's output is in the log of its place among those of its job.
LogKept(x, n) ==
  /\ n <= recorded[x.job]
  /\ [job |-> x.job, n |-> n, cmd |-> x.cmd] \in logs
  /\ \A l \in logs : l.job = x.job /\ l.n = n => l.cmd = x.cmd

\* Counters keep up with the attempts.
LogsBounded ==
  /\ IsFiniteSet(calls)
  /\ pc \in {"start", "boot"} => attempts = 0
  /\ \A j \in Jobs : recorded[j] <= IF pc \in {"sh", "log"} THEN attempts - 1 ELSE attempts
  /\ \A c \in unlogged : c <= attempts /\ (pc \in {"sh", "log"} => c < attempts)

\* Each command belongs to the current job or to one that ended.
CallsHaveJobs ==
  /\ pc = "log" => \E x \in calls : x.cmd = attempts /\ x.job = Current
  /\ \A x \in calls :
       /\ pc = "next" => \E e \in ended : e.job = x.job
       /\ pc \in InJob => x.job = Current \/ \E e \in ended : e.job = x.job

EarlyLogs ==
  \A x \in calls :
    Written(x) /\ Unbroken(CallsUpTo(x)) => LogKept(x, Cardinality(CallsUpTo(x)))

AllRecorded ==
  \A j \in Jobs :
    pc \in {"next"} \cup InJob /\ Unbroken(CallsOf(j)) =>
      Cardinality(CallsOf(j)) =
        IF pc = "log" /\ j = Current THEN recorded[j] + 1 ELSE recorded[j]

\* As long as every log of a job could be written, they are numbered by its
\* commands.
LogsInOrder == LogsBounded /\ CallsHaveJobs /\ EarlyLogs /\ AllRecorded

-----------------------------------------------------------------------------
(* The inductive invariant: the handler *)

Ingesting == {"jobs", "shs"}

\* The handler works on the stream of a process that is over.
HandlerWaits ==
  /\ srv = "waiting" => k = 1
  /\ srv = "waiting" \/ pc # "exited" => outcome = Null /\ jobRows = {} /\ shRows = {}
  /\ srv # "done" => verdict = Null
  /\ srv \notin {"waiting", "gone"} => pc = "exited"
  /\ srv \in Ingesting => file # Null /\ k \in 1..Len(file) + 1

\* The outcome is the one in the stream.
OutcomeOfStream ==
  outcome # Null =>
    /\ pc = "exited" /\ file # Null
    /\ \E i \in DOMAIN file : file[i].kind = "run_finished" /\ file[i].outcome = outcome

\* First pass: what has started and not finished is open, the rest is a row.
FirstPass ==
  srv = "jobs" =>
    /\ \A s \in 1..k - 1 : file[s].kind = "job_started" =>
         \/ openJob[file[s].job] = file[s].at
         \/ \E f \in s..k - 1 : Is(f, "job_finished", file[s].job)
    /\ JobsOfLines(jobRows, k - 1)
    /\ shRows = {}

\* Second pass: the command that has just started is the open one of its job.
SecondPassOK ==
  srv = "shs" =>
    /\ jobRows = ended
    /\ k > 1 /\ file[k - 1].kind = "sh_started" =>
         openSh[file[k - 1].job] = file[k - 1]
    /\ CallsOfLines(shRows, k - 1)

\* An outcome survives only complete tables.
JudgedComplete ==
  /\ srv = "judging" /\ outcome # Null => jobRows = ended /\ shRows = calls
  /\ verdict \in {"succeeded", "failed-pipeline"} =>
       /\ jobRows = ended /\ shRows = calls /\ pc = "exited"
       /\ outcome = IF verdict = "succeeded" THEN "succeeded" ELSE "pipeline_failure"

\* Rows of `sh` belong to rows of `jobs`, differ in their starts, and were
\* inserted in the order of the commands.
RowsInOrder ==
  \A x \in shRows :
    /\ \E e \in jobRows : e.job = x.job
    /\ \A y \in shRows : x.job = y.job /\ x.started = y.started => x = y
    /\ \A y \in calls : y.cmd <= x.cmd => y \in shRows

ProcessInv ==
  /\ JobsInOrder /\ StreamSoFar /\ StreamPairsUp /\ StreamIsComplete /\ CommandsInOrder
  /\ LogsInOrder
IngestInv ==
  /\ HandlerWaits /\ OutcomeOfStream /\ FirstPass /\ SecondPassOK /\ JudgedComplete
  /\ RowsAreReal /\ RowsInOrder
IInv == TypeOK /\ ProcessInv /\ IngestInv

-----------------------------------------------------------------------------
(* Claims of the documentation that the code does not keep *)

\* run.rs 322: "Exit 0: RunFinished determines the pipeline outcome."
ReportedOutcomeStands ==
  srv = "done" /\ exit = "ok" /\ faults = 0 /\ ~torn /\ file # <<>> =>
    LET last == file[Len(file)] IN
    last.kind = "run_finished" =>
      verdict = IF last.outcome = "succeeded" THEN "succeeded" ELSE "failed-pipeline"
=============================================================================
