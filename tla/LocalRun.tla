------------------------------- MODULE LocalRun -------------------------------
(***************************************************************************)
(* Pipelines on a developer's machine: `quire ci validate` and             *)
(* `quire ci run` (quire-server/src/bin/quire/commands/ci.rs), and the     *)
(* quire-ci process (quire-ci/src/main.rs) that the latter starts through  *)
(* Run::execute (quire-server/src/ci/run.rs), or that somebody starts by   *)
(* hand with `validate` or `run --local`.                                  *)
(*                                                                         *)
(* The developer goes on working: what `@` or a name stands for may change *)
(* at any moment.  `quire ci` compiles the script once by itself, which is *)
(* a whole run of Pipeline of which only the verdict counts, and quire-ci  *)
(* compiles it again, in the VM of ScriptHost.                             *)
(***************************************************************************)
EXTENDS ScriptHost

CONSTANTS
  Commits,   \* commits of the repository
  First      \* what the revision stands for at the start

ASSUME FirstAssumption == First \in Commits /\ Null \notin Commits

ByName == "name"   \* a revision that git still has to look up
Statuses == {"ok", "failed"}
Outcomes == {"succeeded", "failed-pipeline", "failed-internal"}

ASSUME WordsAssumption ==
  /\ ByName \notin Commits
  /\ Null \notin Outcomes \cup {"pipeline_failure"}

VARIABLES
  tool,      \* the command that was given
  named,     \* it was given a revision by name, not `@`
  tip,       \* the commit that `@`, or the name, stands for
  stage,     \* where the quire command is
  rev,       \* CommitRef::sha: a commit, or ByName
  checked,   \* the commit whose ci.fnl the command has compiled
  row,       \* the row of the run in the database of the command
  tree,      \* the commit that is in the workspace
  worker,    \* where the quire-ci process is
  wire,      \* the outcome in events.jsonl
  code,      \* exit status of quire-ci
  report     \* exit status of the command

commandVars == <<tool, named, tip, stage, rev, checked, row, tree, report>>
workerVars == <<worker, wire, code>>
localVars == <<vars, vmVars, commandVars, workerVars>>

QuireTools == {"quire ci validate", "quire ci run"}
WorkerTools == {"quire-ci validate", "quire-ci run"}

LocalInit ==
  /\ HostInit
  /\ tool \in QuireTools \cup WorkerTools
  /\ named \in IF tool \in QuireTools THEN BOOLEAN ELSE {FALSE}
  /\ tip = First
  /\ stage = IF tool \in QuireTools THEN "start" ELSE "none"
  /\ worker = CASE tool \in QuireTools       -> "none"
                [] tool = "quire-ci run"     -> "start"
                [] tool = "quire-ci validate" -> "running"
  /\ rev = Null /\ checked = Null /\ row = Null /\ tree = Null
  /\ wire = Null /\ code = Null /\ report = Null

-----------------------------------------------------------------------------
(* The developer *)

\* An edit, a commit or a moved bookmark, as long as somebody will notice.
Work ==
  /\ stage \in {"start", "resolved", "checked", "created"}
  /\ tip' \in Commits \ {tip}
  /\ UNCHANGED <<vars, vmVars, workerVars, tool, named, stage, rev, checked,
                 row, tree, report>>

-----------------------------------------------------------------------------
(* The quire command *)

OfCommand == UNCHANGED <<vars, vmVars, workerVars, tool, named, tip>>
Exit(status) == stage' = "done" /\ report' = status

\* What git makes of the revision now.
CommitOf(r) == IF r = ByName THEN tip ELSE r

\* Mutant of ResolvedNow: the working copy goes on under its name.
ResolvedLate == ByName

\* resolve_commit: a name is kept as it was given, `@` is resolved by jj, which
\* makes a commit of the working copy first.
ResolvedNow == IF named THEN ByName ELSE tip

Resolve ==
  /\ stage = "start"
  /\ rev' = ResolvedNow
  /\ stage' = "resolved"
  /\ OfCommand
  /\ UNCHANGED <<checked, row, tree, report>>

\* Ci::pipeline compiles: validate is over, run goes on.
Check ==
  /\ stage = "resolved"
  /\ checked' = CommitOf(rev)
  /\ IF tool = "quire ci validate"
       THEN Exit("ok")
       ELSE stage' = "checked" /\ UNCHANGED report
  /\ OfCommand
  /\ UNCHANGED <<rev, row, tree>>

\* There is no ci.fnl: with exit status 0 if git says that it "does not exist",
\* but a failure if it is in the working copy, which git words differently.  Or
\* the script does not compile, or leaves the process by os.exit.
NoPipeline ==
  /\ stage = "resolved"
  /\ \E status \in Statuses : Exit(status)
  /\ OfCommand
  /\ UNCHANGED <<rev, checked, row, tree>>

\* A temporary directory, a fresh database in it, and Runs::create, which has
\* nothing to supersede there.
Create ==
  /\ stage = "checked"
  /\ row' = [sha |-> rev, dispatched |-> FALSE, outcome |-> Null]
  /\ stage' = "created"
  /\ OfCommand
  /\ UNCHANGED <<rev, checked, tree, report>>

\* materialize_workspace: git archive, by the revision.
Materialize ==
  /\ stage = "created"
  /\ tree' = CommitOf(rev)
  /\ stage' = "filled"
  /\ OfCommand
  /\ UNCHANGED <<rev, checked, row, report>>

\* execute without a session dispatches the run itself and starts quire-ci.
Execute ==
  /\ stage = "filled"
  /\ row' = [row EXCEPT !.dispatched = TRUE]
  /\ stage' = "waiting"
  /\ worker' = "start"
  /\ UNCHANGED <<vars, vmVars, tool, named, tip, rev, checked, tree, wire,
                 code, report>>

\* No jj repository, an unknown revision, a file, a process or a row that cannot
\* be made: an early return.
GivesUp ==
  /\ \/ stage \in {"start", "checked", "created", "filled"}
     \/ stage = "waiting" /\ worker = "exited"
  /\ row' \in IF stage = "filled" THEN {row, [row EXCEPT !.dispatched = TRUE]} ELSE {row}
  /\ Exit("failed")
  /\ OfCommand
  /\ UNCHANGED <<rev, checked, tree>>

\* Mutant of Verdict: a stream without an outcome passes for a success.
VerdictOfExit(status, outcome) ==
  CASE status # "ok"                 -> "failed-internal"
    [] status = "ok" /\ outcome = "pipeline_failure" -> "failed-pipeline"
    [] OTHER                         -> "succeeded"

\* The end of execute, for the exit status and the outcome in the stream.
Verdict(status, outcome) ==
  CASE status = "ok" /\ outcome = "succeeded"        -> "succeeded"
    [] status = "ok" /\ outcome = "pipeline_failure" -> "failed-pipeline"
    [] OTHER                                         -> "failed-internal"

\* quire-ci has exited: its events are read, if they can be, and its verdict is
\* recorded; the log is printed, and the directory goes.  A failed pipeline is
\* no error of the command.
Finish ==
  /\ stage = "waiting"
  /\ worker = "exited"
  /\ \E outcome \in {wire, Null} :
       /\ row' = [row EXCEPT !.outcome = Verdict(code, outcome)]
       /\ Exit(IF Verdict(code, outcome) = "failed-internal" THEN "failed" ELSE "ok")
  /\ OfCommand
  /\ UNCHANGED <<rev, checked, tree>>

-----------------------------------------------------------------------------
(* The quire-ci process *)

OfWorker == UNCHANGED <<commandVars>>
Leave(status) == worker' = "exited" /\ code' = status

\* The event sink, the log directory, and the commit and ref that the script will
\* be told, which are those of HEAD and not of the workspace.
ReadHead ==
  /\ worker = "start"
  /\ worker' = "running"
  /\ OfWorker
  /\ UNCHANGED <<vars, vmVars, wire, code>>

\* One of them is missing.
NoStart ==
  /\ worker = "start"
  /\ Leave("failed")
  /\ OfWorker
  /\ UNCHANGED <<vars, vmVars, wire>>

\* compile_at and the script.
Compiles ==
  /\ worker = "running"
  /\ CompileNext \/ Script \/ (tool = "quire-ci validate" /\ Dismiss)
  /\ OfWorker
  /\ UNCHANGED workerVars

\* run_pipeline, of which run_finished is the last event.
Runs ==
  /\ worker = "running"
  /\ tool # "quire-ci validate"
  /\ JobsNext \/ (wire # Null /\ Uninstall)
  /\ OfWorker
  /\ UNCHANGED workerVars

Refused == phase \in {"failed", "misdefined", "misbuilt"}

\* run_finished, after the loop or instead of it.
EmitOutcome ==
  /\ worker = "running"
  /\ tool # "quire-ci validate"
  /\ wire = Null
  /\ \/ vm = "installed" /\ phase = "finished" /\ wire' = "succeeded"
     \/ vm = "installed" /\ phase = "stopped" /\ wire' = "pipeline_failure"
     \/ vm = "closed" /\ Refused /\ wire' = "pipeline_failure"
  /\ OfWorker
  /\ UNCHANGED <<vars, vmVars, worker, code>>

\* main returns.  Only validate reports a refused script by its exit status.
Return ==
  /\ worker = "running"
  /\ vm = "closed"
  /\ tool = "quire-ci validate" \/ wire # Null
  /\ Leave(IF tool = "quire-ci validate" /\ Refused THEN "failed" ELSE "ok")
  /\ OfWorker
  /\ UNCHANGED <<vars, vmVars, wire>>

\* The script calls os.exit(0), or the process is killed.  Nothing is left of what
\* a script registered before that: only its first moment is explored.
Break ==
  /\ worker = "running"
  /\ vm \in {"bound", "idle"} => phase = "evaluating" /\ calls = 0
  /\ \/ RunsScript /\ Leave("ok")
     \/ Leave("failed")
  /\ vm' = "closed"
  /\ answer' = Null
  /\ OfWorker
  /\ UNCHANGED <<vars, table, filled, sink, app, cursor, held, wire>>

-----------------------------------------------------------------------------
LocalNext ==
  \/ Work
  \/ Resolve \/ Check \/ NoPipeline
  \/ Create \/ Materialize \/ Execute \/ GivesUp
  \/ Finish
  \/ ReadHead \/ NoStart
  \/ Compiles \/ Runs \/ EmitOutcome \/ Return \/ Break

LocalSpec == LocalInit /\ [][LocalNext]_localVars

-----------------------------------------------------------------------------
(* Properties *)

\* `quire ci run` without a revision runs what it has checked, and records the
\* commit it runs, however the developer edits and commits meanwhile: `@` is
\* looked up once.  (With a name, each git command looks it up again.)
CheckedIsRun ==
  tree # Null /\ ~named => tree = checked /\ row.sha = checked

\* `quire ci run` exits with 0 after a run only when that run came to an end that
\* quire-ci reported: every job succeeded and the row says so, or the script was
\* refused or a job failed and the row says that.  Whatever else ends quire-ci is
\* an error (execute and the commands around it).
ExitMatchesRow ==
  stage = "done" /\ tree # Null =>
    /\ row.outcome = "succeeded" => phase = "finished"
    /\ row.outcome = "failed-pipeline" => Refused \/ phase = "stopped"
    /\ report = "ok" <=> row.outcome \in {"succeeded", "failed-pipeline"}

-----------------------------------------------------------------------------
(* The inductive invariant *)

\* The stages of a command, from each of them on.
Filled == {"filled", "waiting"}
Created == {"created"} \cup Filled
Checked == {"checked"} \cup Created
Looked == {"resolved"} \cup Checked

Rows == [sha : Commits \cup {ByName}, dispatched : BOOLEAN, outcome : Outcomes \cup {Null}]

\* A command without a name has looked `@` up once, and keeps the commit.
OneCommit ==
  /\ stage \in {"none", "start", "done"} \cup Looked
  /\ tip \in Commits
  /\ stage \in Looked => rev \in Commits \cup {ByName} /\ (~named => rev # ByName)
  /\ stage \in Checked /\ ~named => checked = rev
  /\ stage \in Created => row \in Rows /\ row.sha = rev /\ row.outcome = Null
  /\ tree # Null => stage \in Filled \cup {"done"}

\* What is on the wire is the end that the pipeline came to.
WireIsTrue ==
  /\ wire \in {Null, "succeeded", "pipeline_failure"}
  /\ wire = "succeeded" => phase = "finished"
  /\ wire = "pipeline_failure" => Refused \/ phase = "stopped"

LocalInv ==
  /\ HostInv /\ PrimitivesFollowJobs
  /\ OneCommit /\ CheckedIsRun
  /\ WireIsTrue /\ ExitMatchesRow
===============================================================================
