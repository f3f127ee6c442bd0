------------------------------- MODULE QuireCi -------------------------------
(***************************************************************************)
(* One quire-ci process: `run_pipeline` (quire-ci/src/main.rs) walks the   *)
(* jobs of the compiled pipeline in order, the run-fn of each job calls    *)
(* `(sh ...)` (quire-core/src/ci/runtime.rs), and everything that happens  *)
(* is appended to events.jsonl (quire-ci/src/sink.rs) and, per command, to *)
(* a log file (quire-core/src/ci/logs.rs).                                 *)
(*                                                                         *)
(* The run-fn is the user's Lua: it may call sh any number of times, catch *)
(* its errors with pcall, return or raise at any point, and leave the      *)
(* process with os.exit.  A command is named by its number, which stands   *)
(* for its text in a `sh_started` event and for its exit code in a         *)
(* `sh_finished` event, so that a row built from two commands is noticed.  *)
(***************************************************************************)
EXTENDS Naturals, Sequences, FiniteSets

CONSTANTS
  Push,        \* the built-in job quire/push, whose run-fn does nothing
  Pipelines,   \* orders in which a compiled pipeline may list its jobs
  Null,        \* no value
  MaxClock,    \* bound on the clock, in milliseconds
  MaxCalls,    \* bound on the commands of one run
  MaxFaults    \* bound on failing commands, files, statements and processes

ASSUME PipelinesAssumption ==
  \A p \in Pipelines :
    /\ p \in Seq({p[i] : i \in DOMAIN p})
    /\ p # <<>> /\ p[1] = Push
    /\ \A i, j \in DOMAIN p : p[i] = p[j] => i = j
ASSUME NullAssumption == Null \notin Nat
ASSUME BoundsAssumption ==
  MaxClock \in Nat /\ MaxCalls \in Nat /\ MaxFaults \in Nat

VARIABLES
  clock,      \* wall clock of the host
  order,      \* pipeline.jobs(): job ids in execution order
  pc,         \* where the process is
  at,         \* index of the current job
  attempts,   \* commands attempted so far; the current one is the last
  file,       \* complete lines of events.jsonl, Null before it is created
  torn,       \* the file ends in an incomplete line
  recorded,   \* Runtime::outputs: number of recorded commands of each job
  logs,       \* jobs/<job>/sh-<n>.log: which command's output it holds
  exit,       \* exit status of the process
  faults,
  calls,      \* history: commands that ran to completion
  ended,      \* history: jobs whose run-fn returned
  unlogged    \* history: commands that ran but whose log could not be written

ciVars == <<clock, order, pc, at, attempts, file, torn, recorded, logs, exit,
            faults, calls, ended, unlogged>>

Jobs == UNION {{p[i] : i \in DOMAIN p} : p \in Pipelines}
Current == order[at]

-----------------------------------------------------------------------------
(* The event stream *)

\* JsonlSink::emit: one whole line, stamped with the current time.
Emit(kind, job, cmd, outcome) ==
  file' = Append(file, [at |-> clock, kind |-> kind, job |-> job, cmd |-> cmd,
                        outcome |-> outcome])

EventKinds == {"job_started", "job_finished", "sh_started", "sh_finished",
               "run_finished"}
JobOutcomes == {"succeeded", "failed"}
RunOutcomes == {"succeeded", "pipeline_failure"}
Event == [at : 0..MaxClock, kind : EventKinds, job : Jobs \cup {Null},
          cmd : 1..MaxCalls \cup {Null},
          outcome : JobOutcomes \cup RunOutcomes \cup {Null}]

ASSUME EventAssumption ==
  /\ Null \notin Jobs /\ Null \notin RunOutcomes
  /\ Null \notin Event /\ Null \notin Seq(Event)

-----------------------------------------------------------------------------
CiInit ==
  /\ clock = 0
  /\ order \in Pipelines
  /\ pc = "start"
  /\ at = 1
  /\ attempts = 0
  /\ file = Null
  /\ torn = FALSE
  /\ recorded = [j \in Jobs |-> 0]
  /\ logs = {}
  /\ exit = Null
  /\ faults = 0
  /\ calls = {}
  /\ ended = {}
  /\ unlogged = {}

Tick ==
  /\ clock < MaxClock
  /\ clock' = clock + 1
  /\ UNCHANGED <<order, pc, at, attempts, file, torn, recorded, logs, exit,
                 faults, calls, ended, unlogged>>

Fault == faults < MaxFaults /\ faults' = faults + 1
Leave(status) == pc' = "exited" /\ exit' = status

\* The sink of `--events file:` is created before anything else.
CreateFile ==
  /\ pc = "start"
  /\ file' = <<>>
  /\ pc' = "boot"
  /\ UNCHANGED <<clock, order, at, attempts, torn, recorded, logs, exit, faults,
                 calls, ended, unlogged>>

\* The file cannot be created, or the bootstrap cannot be fetched.
FailEarly ==
  /\ pc \in {"start", "boot"}
  /\ Leave("failed")
  /\ UNCHANGED <<clock, order, at, attempts, file, torn, recorded, logs, faults,
                 calls, ended, unlogged>>

\* Mutant of CompileFails: the early return is missing.
CompileGoesOn ==
  /\ pc = "boot"
  /\ Emit("run_finished", Null, Null, "pipeline_failure")
  /\ pc' = "next"
  /\ UNCHANGED <<clock, order, at, attempts, torn, recorded, logs, exit, faults,
                 calls, ended, unlogged>>

\* compile_at fails: the user's error, reported as such.
CompileFails ==
  /\ pc = "boot"
  /\ Emit("run_finished", Null, Null, "pipeline_failure")
  /\ pc' = "exiting"
  /\ UNCHANGED <<clock, order, at, attempts, torn, recorded, logs, exit, faults,
                 calls, ended, unlogged>>

\* The pipeline compiles.  It has at least the job quire/push, so the branch
\* of run_pipeline for a pipeline without jobs is never taken.
Compile ==
  /\ pc = "boot"
  /\ pc' = "next"
  /\ UNCHANGED <<clock, order, at, attempts, file, torn, recorded, logs, exit,
                 faults, calls, ended, unlogged>>

StartJob ==
  /\ pc = "next"
  /\ Emit("job_started", Current, Null, Null)
  /\ pc' = "job"
  /\ UNCHANGED <<clock, order, at, attempts, torn, recorded, logs, exit, faults,
                 calls, ended, unlogged>>

\* Whether the run-fn is the user's Lua, which can do anything.
RunsLua == pc = "job" /\ Current # Push

\* Runtime::sh, up to the spawn.
StartSh ==
  /\ RunsLua
  /\ attempts < MaxCalls
  /\ attempts' = attempts + 1
  /\ Emit("sh_started", Current, attempts + 1, Null)
  /\ pc' = "sh"
  /\ UNCHANGED <<clock, order, at, torn, recorded, logs, exit, faults, calls,
                 ended, unlogged>>

\* CommandSpawnFailed: the started event stays alone.
SpawnFails ==
  /\ pc = "sh"
  /\ Fault
  /\ pc' = "job"
  /\ UNCHANGED <<clock, order, at, attempts, file, torn, recorded, logs, exit,
                 calls, ended, unlogged>>

\* When the command was started, according to its event.
StartedAt == file[Len(file)].at

\* The command exits.
FinishSh ==
  /\ pc = "sh"
  /\ Emit("sh_finished", Current, attempts, Null)
  /\ calls' = calls \cup {[job |-> Current, started |-> StartedAt,
                           finished |-> clock, cmd |-> attempts,
                           exit_code |-> attempts]}
  /\ pc' = "log"
  /\ UNCHANGED <<clock, order, at, attempts, torn, recorded, logs, exit, faults,
                 ended, unlogged>>

\* Mutant of LogNumber: the file is numbered by all commands of the run.
AttemptNumber(job) == attempts

\* The n of sh-<n>.log.
LogNumber(job) == recorded[job] + 1

\* File::create truncates what an earlier attempt may have left.
PutLog(job, n, cmd) ==
  logs' = {l \in logs : l.job # job \/ l.n # n}
            \cup {[job |-> job, n |-> n, cmd |-> cmd]}

\* The output is written to its log and then recorded.
WriteLog ==
  /\ pc = "log"
  /\ PutLog(Current, LogNumber(Current), attempts)
  /\ recorded' = [recorded EXCEPT ![Current] = @ + 1]
  /\ pc' = "job"
  /\ UNCHANGED <<clock, order, at, attempts, file, torn, exit, faults, calls,
                 ended, unlogged>>

\* LogWriteFailed: nothing is recorded, the file may exist in part.
LogFails ==
  /\ pc = "log"
  /\ Fault
  /\ \/ PutLog(Current, LogNumber(Current), Null)
     \/ UNCHANGED logs
  /\ unlogged' = unlogged \cup {attempts}
  /\ pc' = "job"
  /\ UNCHANGED <<clock, order, at, attempts, file, torn, recorded, exit, calls,
                 ended>>

\* When the current job was started, according to its event.
JobStartedAt ==
  LET starts == {i \in DOMAIN file : /\ file[i].kind = "job_started"
                                     /\ file[i].job = Current}
  IN file[CHOOSE i \in starts : TRUE].at

\* Mutant of AfterJob: a failed job does not stop the run.
AlwaysNext(outcome) == IF at < Len(order) THEN "next" ELSE "close"

\* The loop stops at the first failed job and after the last one.
AfterJob(outcome) ==
  IF outcome = "succeeded" /\ at < Len(order) THEN "next" ELSE "close"

\* The run-fn returns or raises.
FinishJob(outcome) ==
  /\ pc = "job"
  /\ outcome = "failed" => RunsLua
  /\ Emit("job_finished", Current, Null, outcome)
  /\ ended' = ended \cup {[job |-> Current, state |-> outcome,
                           started |-> JobStartedAt, finished |-> clock]}
  /\ pc' = AfterJob(outcome)
  /\ at' = IF AfterJob(outcome) = "next" THEN at + 1 ELSE at
  /\ UNCHANGED <<clock, order, attempts, torn, recorded, logs, exit, faults,
                 calls, unlogged>>

\* What run_pipeline reports: whether some job failed.
RunOutcome ==
  IF \E e \in ended : e.state = "failed" THEN "pipeline_failure" ELSE "succeeded"

FinishRun ==
  /\ pc = "close"
  /\ Emit("run_finished", Null, Null, RunOutcome)
  /\ pc' = "exiting"
  /\ UNCHANGED <<clock, order, at, attempts, torn, recorded, logs, exit, faults,
                 calls, ended, unlogged>>

\* run_pipeline has returned and main has dropped its guards.
Exit ==
  /\ pc = "exiting"
  /\ Leave("ok")
  /\ UNCHANGED <<clock, order, at, attempts, file, torn, recorded, logs, faults,
                 calls, ended, unlogged>>

\* os.exit(0), while ci.fnl is evaluated or in a run-fn.
Quit ==
  /\ pc = "boot" \/ RunsLua
  /\ Leave("ok")
  /\ UNCHANGED <<clock, order, at, attempts, file, torn, recorded, logs, faults,
                 calls, ended, unlogged>>

\* A kill, a panic (an event that cannot be written is one) or a non-zero
\* os.exit.  Only a write that was under way leaves an incomplete line.
Die ==
  /\ pc \in {"boot", "next", "job", "sh", "log", "close", "exiting"}
  /\ Fault
  /\ Leave("failed")
  /\ torn' \in {FALSE, pc \notin {"log", "exiting"}}
  /\ UNCHANGED <<clock, order, at, attempts, file, recorded, logs, calls, ended,
                 unlogged>>

CiNext ==
  \/ CreateFile \/ FailEarly
  \/ CompileFails \/ Compile
  \/ StartJob
  \/ StartSh \/ SpawnFails \/ FinishSh \/ WriteLog \/ LogFails
  \/ \E outcome \in JobOutcomes : FinishJob(outcome)
  \/ FinishRun \/ Exit
  \/ Quit \/ Die
=============================================================================
