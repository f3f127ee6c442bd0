------------------------------ MODULE ScriptHost ------------------------------
(***************************************************************************)
(* The Lua VM that a pipeline lives in, from Fennel::new                   *)
(* (quire-core/src/fennel.rs) over the registration module                 *)
(* (quire-core/src/ci/registration.rs) to the runtime that run_pipeline    *)
(* (quire-ci/src/main.rs) installs around the run-fns and takes away again *)
(* (quire-core/src/ci/runtime.rs).                                         *)
(*                                                                         *)
(* The script can keep what it gets hold of and use it whenever its code   *)
(* runs: while it is evaluated, in a run-fn, and in __gc metamethods,      *)
(* which Lua may call at any moment and calls for all that is left when    *)
(* the VM is closed.  So the table of the primitives, and a primitive      *)
(* taken out of it, may be used long after they were obtained.             *)
(***************************************************************************)
EXTENDS Pipeline

CONSTANT Null   \* no value

ASSUME NullAssumption == Null \notin Ids \cup Slashed

VARIABLES
  vm,        \* how far the host has come with the VM
  table,     \* the table in package.loaded["quire.ci"].runtime, 0 without a VM
  filled,    \* tables that hold sh, secret and jobs
  sink,      \* the app data Registration is there
  app,       \* the app data Rc<Runtime> is there
  cursor,    \* Runtime::current_job
  held,      \* what the script has kept: tables, and Function
  answer     \* what a primitive called in the last step did, or Null

vmVars == <<vm, table, filled, sink, app, cursor, held, answer>>

Prims == {"sh", "secret", "jobs"}
Function == 0   \* among the tables: a primitive taken out of one

HostInit ==
  /\ Init
  /\ vm = "none"
  /\ table = 0
  /\ filled = {}
  /\ sink = FALSE
  /\ app = FALSE
  /\ cursor = Null
  /\ held = {}
  /\ answer = Null

-----------------------------------------------------------------------------
(* The host *)

\* Fennel::new and preload_stdlib: a placeholder module with an empty table.
NewVM ==
  /\ vm = "none"
  /\ vm' = "fresh"
  /\ table' = 1
  /\ answer' = Null
  /\ UNCHANGED <<vars, filled, sink, app, cursor, held>>

\* register up to the evaluation: a new module that carries the same table.
Bind ==
  /\ vm = "fresh"
  /\ vm' = "bound"
  /\ sink' = TRUE
  /\ answer' = Null
  /\ UNCHANGED <<vars, table, filled, app, cursor, held>>

\* The script calls ci.job or ci.image while it is evaluated.
Registers ==
  /\ vm = "bound"
  /\ answer' = Null
  /\ \/ \E id \in Names, inputs \in SUBSET Names : RegisterJob(id, inputs)
     \/ RegisterImage
  /\ UNCHANGED <<vm, table, filled, sink, app, cursor, held>>

\* The error of a script drops the VM, and everything in it, at once.
ScriptFails ==
  /\ vm = "bound"
  /\ EvalFails
  /\ vm' = "closing"
  /\ answer' = Null
  /\ UNCHANGED <<table, filled, sink, app, cursor, held>>

\* Mutant of ScriptEnds: the sink stays installed.
ScriptEndsKeepsSink ==
  /\ vm = "bound"
  /\ EndEval
  /\ vm' = IF errors = {} THEN "idle" ELSE "closing"
  /\ answer' = Null
  /\ UNCHANGED <<sink, table, filled, app, cursor, held>>

\* register takes the sink away before it looks at the errors.
ScriptEnds ==
  /\ vm = "bound"
  /\ EndEval
  /\ vm' = IF errors = {} THEN "idle" ELSE "closing"
  /\ sink' = FALSE
  /\ answer' = Null
  /\ UNCHANGED <<table, filled, app, cursor, held>>

\* The end of compile.
Checks ==
  /\ vm = "idle"
  /\ Validate
  /\ vm' = IF StructureErrors = {} THEN "idle" ELSE "closing"
  /\ answer' = Null
  /\ UNCHANGED <<table, filled, sink, app, cursor, held>>

\* Mutant of Install: the primitives come in a table of their own.
InstallElsewhere ==
  /\ vm = "idle"
  /\ Start
  /\ vm' = "installed"
  /\ app' = TRUE
  /\ table' = table + 1
  /\ filled' = {table + 1}
  /\ answer' = Null
  /\ UNCHANGED <<sink, cursor, held>>

\* Runtime::new and RuntimeHandle::install: the table is filled where it is.
Install ==
  /\ vm = "idle"
  /\ Start
  /\ vm' = "installed"
  /\ app' = TRUE
  /\ filled' = {table}
  /\ answer' = Null
  /\ UNCHANGED <<table, sink, cursor, held>>

\* job_started, enter_job.
EnterJob ==
  /\ vm = "installed"
  /\ phase = "running"
  /\ vm' = "entered"
  /\ cursor' = Current
  /\ answer' = Null
  /\ UNCHANGED <<vars, table, filled, sink, app, held>>

\* The run-fn returns or raises: leave_job, job_finished.
LeaveJob ==
  /\ vm = "entered"
  /\ JobSucceeds \/ JobFails
  /\ vm' = "installed"
  /\ cursor' = Null
  /\ answer' = Null
  /\ UNCHANGED <<table, filled, sink, app, held>>

\* run_pipeline is over: the guard is dropped, and with it the install.
Uninstall ==
  /\ vm = "installed"
  /\ phase \in {"stopped", "finished"}
  /\ vm' = "closing"
  /\ filled' = {}
  /\ app' = FALSE
  /\ answer' = Null
  /\ UNCHANGED <<vars, table, sink, cursor, held>>

\* The VM of a pipeline that is only to be validated.
Dismiss ==
  /\ vm = "idle"
  /\ phase = "compiled"
  /\ vm' = "closing"
  /\ answer' = Null
  /\ UNCHANGED <<vars, table, filled, sink, app, cursor, held>>

\* The last owner of the VM is gone.
Close ==
  /\ vm = "closing"
  /\ vm' = "closed"
  /\ answer' = Null
  /\ UNCHANGED <<vars, table, filled, sink, app, cursor, held>>

-----------------------------------------------------------------------------
(* The script *)

RunsScript == vm = "bound" \/ (vm = "entered" /\ Current # Push)

\* `(require :quire.ci)` anywhere, or the argument of the run-fn.
KeepTable ==
  /\ RunsScript
  /\ held' = held \cup {table}
  /\ answer' = Null
  /\ UNCHANGED <<vars, vm, table, filled, sink, app, cursor>>

\* A primitive is taken out of a table: before the install there is none.
KeepFunction ==
  /\ RunsScript
  /\ table \in filled
  /\ held' = held \cup {Function}
  /\ answer' = Null
  /\ UNCHANGED <<vars, vm, table, filled, sink, app, cursor>>

\* Whether a call finds a function to call, and the function its runtime.
Reaches(ref) == app /\ ref \in filled \cup {Function}

\* jobs asks for :quire/push, which every job of a pipeline comes from.
Answers(ref, prim) ==
  /\ Reaches(ref)
  /\ prim = "jobs" => cursor # Null /\ Lookup(cursor, Push) # "error"

\* A call of a primitive, in the script's code or in a __gc metamethod.
\* What sh does is recorded, and observed, under the current job.
CallPrimitive(ref, prim) ==
  /\ vm \notin {"none", "fresh", "closed"}
  /\ answer' = [works |-> Answers(ref, prim),
                under |-> IF Answers(ref, prim) THEN cursor ELSE Null]
  /\ UNCHANGED <<vars, vm, table, filled, sink, app, cursor, held>>

\* ci.job or ci.image after the evaluation: without the sink it raises, with it
\* it would return and leave no trace.
RegisterLate ==
  /\ vm = "entered" /\ RunsScript
  /\ calls < MaxCalls
  /\ calls' = IF sink THEN calls + 1 ELSE calls
  /\ answer' = Null
  /\ UNCHANGED <<phase, jobs, image, errors, order, at>>
  /\ UNCHANGED <<vm, table, filled, sink, app, cursor, held>>

-----------------------------------------------------------------------------
Script ==
  \/ Registers
  \/ KeepTable \/ KeepFunction
  \/ \E ref \in held, prim \in Prims : CallPrimitive(ref, prim)
  \/ RegisterLate

CompileNext ==
  \/ NewVM \/ Bind
  \/ ScriptFails \/ ScriptEnds \/ Checks
  \/ Close

JobsNext ==
  \/ Install
  \/ EnterJob \/ LeaveJob

-----------------------------------------------------------------------------
(* Properties *)

\* However early the script obtained the table, or a primitive, it works in
\* every run-fn, under the name of the job that runs; between two jobs nothing
\* is recorded or looked up under any name; and before the install and after it
\* nothing works at all (install and uninstall change one table in place,
\* enter_job and leave_job bracket each call).
PrimitivesFollowJobs ==
  answer # Null =>
    /\ RunsScript /\ vm = "entered" => answer.works /\ answer.under = Current
    /\ vm = "installed" => answer.under = Null
    /\ vm \notin {"installed", "entered"} => ~answer.works

-----------------------------------------------------------------------------
(* The inductive invariant *)

Walks == vm \in {"installed", "entered"}

\* How far the pipeline and the host can be apart.
VmFollowsPhase ==
  /\ vm \in {"none", "fresh", "bound", "idle", "installed", "entered", "closing", "closed"}
  /\ vm \in {"none", "fresh", "bound"} => phase = "evaluating"
  /\ vm = "idle" => phase \in {"building", "compiled"}
  /\ vm = "installed" => phase \in {"running", "stopped", "finished"}
  /\ vm = "entered" => phase = "running"
  /\ vm = "closing" => phase \notin {"evaluating", "building", "running"}

\* What is in the VM: one table, filled as long as the runtime is installed, a
\* sink during the evaluation, a cursor during a run-fn.
Furnished ==
  /\ vm # "closing" => (sink <=> vm = "bound")
  /\ app <=> Walks
  /\ filled = IF Walks THEN {table} ELSE {}
  /\ cursor = IF vm = "entered" THEN Current ELSE Null

HostInv ==
  /\ VmFollowsPhase
  /\ vm # "closed" => Furnished
  /\ held \subseteq {table, Function}
  /\ held # {} => vm \notin {"none", "fresh"}
===============================================================================
