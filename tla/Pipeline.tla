------------------------------- MODULE Pipeline -------------------------------
(***************************************************************************)
(* The compiler of ci.fnl and the graph a run walks: the registration DSL  *)
(* (quire-core/src/ci/registration.rs), graph and validation               *)
(* (quire-core/src/ci/pipeline.rs), and the `(jobs name)` views and job    *)
(* cursor of the runtime (quire-core/src/ci/runtime.rs).                   *)
(*                                                                         *)
(* The script is the user's Fennel: it may call ci.job and ci.image with   *)
(* anything, in any order, and fail at any point.  petgraph's traversals   *)
(* are modelled by what they return: Above is the least set a breadth-     *)
(* first search of the reversed graph can end with, an SCC a class of      *)
(* mutually reachable jobs, and toposort any topological order.            *)
(***************************************************************************)
EXTENDS Integers, FiniteSets

CONSTANTS
  Ids,       \* names without a slash
  Slashed,   \* names with one
  Push,      \* quire/push
  MaxCalls   \* bound on the calls of ci.job and ci.image

ASSUME NamesAssumption == Push \in Slashed /\ Ids \cap Slashed = {}
ASSUME CallsAssumption == MaxCalls \in Nat

VARIABLES
  phase,     \* how far `compile`, and then the run, has come
  calls,     \* number of ci.job and ci.image calls that returned
  jobs,      \* registered jobs: the inputs of each id
  image,     \* ci.image was called
  errors,    \* diagnostics
  order,     \* Pipeline::jobs()
  at         \* index in it of the current job

vars == <<phase, calls, jobs, image, errors, order, at>>

Names == Ids \cup Slashed
Nodes == DOMAIN jobs
NoJobs == [n \in {} |-> {}]

Init ==
  /\ phase = "evaluating"
  /\ calls = 0
  /\ jobs = NoJobs
  /\ image = FALSE
  /\ errors = {}
  /\ order = NoJobs
  /\ at = 1

-----------------------------------------------------------------------------
(* Registration *)

DefinitionError(kind, id) == [kind |-> kind, jobs |-> {id}]

With(id, inputs) ==
  [n \in Nodes \cup {id} |-> IF n = id THEN inputs ELSE jobs[n]]

\* register_job, Job::new, add_job: the first rule that is broken counts.
Refusals(id, inputs) ==
  CASE id \in Slashed -> {DefinitionError("reserved slash", id)}
    [] id \notin Slashed /\ inputs = {} -> {DefinitionError("empty inputs", id)}
    [] id \in Ids \cap Nodes /\ inputs # {} -> {DefinitionError("duplicate job", id)}
    [] OTHER -> {}

Call ==
  /\ phase = "evaluating"
  /\ calls < MaxCalls
  /\ calls' = calls + 1

\* (ci.job id inputs run-fn)
RegisterJob(id, inputs) ==
  /\ Call
  /\ errors' = errors \cup Refusals(id, inputs)
  /\ jobs' = IF Refusals(id, inputs) = {} THEN With(id, inputs) ELSE jobs
  /\ UNCHANGED <<phase, image, order, at>>

\* (ci.image name)
RegisterImage ==
  /\ Call
  /\ image' = TRUE
  /\ errors' = IF image THEN errors \cup {[kind |-> "duplicate image", jobs |-> {}]}
               ELSE errors
  /\ UNCHANGED <<phase, jobs, order, at>>

\* The script does not parse, or raises: what it registered is dropped.
EvalFails ==
  /\ phase = "evaluating"
  /\ phase' = "failed"
  /\ UNCHANGED <<calls, jobs, image, errors, order, at>>

\* The script ends: one error rejects the batch, otherwise compile adds the
\* built-in job.
EndEval ==
  /\ phase = "evaluating"
  /\ IF errors # {}
       THEN phase' = "misdefined" /\ UNCHANGED jobs
       ELSE phase' = "building" /\ jobs' = With(Push, {})
  /\ UNCHANGED <<calls, image, errors, order, at>>

-----------------------------------------------------------------------------
(* The graph *)

\* build_graph: an input that is no job gets no edge.
Resolved(n) == jobs[n] \cap Nodes

Closed(S) == \A m \in S : Resolved(m) \subseteq S

\* What a search from n along reversed edges finds beyond its start.
Above(n) ==
  {m \in Nodes : \A S \in SUBSET Nodes : Resolved(n) \subseteq S /\ Closed(S) => m \in S}

\* Mutant of TransitiveInputs: the search stops at the inputs themselves.
DirectInputs(n) == Resolved(n) \ {n}

\* Pipeline::transitive_inputs of one job.
TransitiveInputs(n) == Above(n) \ {n}

Component(n) == {n} \cup {m \in Above(n) : n \in Above(m)}

\* Mutant of IsCycle: a job that lists itself is not noticed.
IsLongCycle(C) == Cardinality(C) > 1

IsCycle(C) == Cardinality(C) > 1 \/ \E n \in C : n \in Resolved(n)

Cycles == {C \in {Component(n) : n \in Nodes} : IsCycle(C)}

Triggers == {n \in Nodes : jobs[n] = {}}

\* Mutant of Unreachable: jobs of a cycle are reported a second time.
UnreachableAnywhere ==
  {n \in Nodes \ Triggers : Above(n) \cap Triggers = {}}

\* Jobs outside of cycles that cannot be traced back to a trigger.
Unreachable ==
  {n \in Nodes \ (Triggers \cup UNION Cycles) : Above(n) \cap Triggers = {}}

\* Mutant of StructureErrors: reachability is not checked.
CycleErrors == {[kind |-> "cycle", jobs |-> C] : C \in Cycles}

StructureErrors ==
  {[kind |-> "cycle", jobs |-> C] : C \in Cycles} \cup
  {[kind |-> "unreachable", jobs |-> {n}] : n \in Unreachable}

\* validate_post_graph, the end of compile.
Validate ==
  /\ phase = "building"
  /\ errors' = StructureErrors
  /\ phase' = IF StructureErrors = {} THEN "compiled" ELSE "misbuilt"
  /\ UNCHANGED <<calls, jobs, image, order, at>>

-----------------------------------------------------------------------------
(* The run *)

\* Orders of all jobs.
Listings ==
  {p \in [1..Cardinality(Nodes) -> Nodes] :
     /\ \A i, j \in DOMAIN p : p[i] = p[j] => i = j
     /\ \A n \in Nodes : \E i \in DOMAIN p : p[i] = n}

Before(p, m, n) == \E i, j \in DOMAIN p : i < j /\ p[i] = m /\ p[j] = n

Toposorts ==
  {p \in Listings : \A n \in Nodes : \A m \in Resolved(n) : Before(p, m, n)}

\* Runtime::new, and the list of ids run_pipeline walks.
Start ==
  /\ phase = "compiled"
  /\ order' \in Toposorts
  /\ phase' = "running"
  /\ UNCHANGED <<calls, jobs, image, errors, at>>

Current == order[at]

\* (jobs name) in the run-fn of job n.
Lookup(n, name) ==
  CASE name \in TransitiveInputs(n) -> IF name = Push THEN "push" ELSE "nil"
    [] OTHER                        -> "error"

\* The next job is entered, if there is one.
JobSucceeds ==
  /\ phase = "running"
  /\ at' = at + 1
  /\ phase' = IF at = Cardinality(Nodes) THEN "finished" ELSE "running"
  /\ UNCHANGED <<calls, jobs, image, errors, order>>

\* Only a Lua run-fn can fail.
JobFails ==
  /\ phase = "running"
  /\ Current # Push
  /\ phase' = "stopped"
  /\ UNCHANGED <<calls, jobs, image, errors, order, at>>

Next ==
  \/ \E id \in Names, inputs \in SUBSET Names : RegisterJob(id, inputs)
  \/ RegisterImage
  \/ EvalFails \/ EndEval
  \/ Validate
  \/ Start
  \/ JobSucceeds \/ JobFails

Spec == Init /\ [][Next]_vars

-----------------------------------------------------------------------------
(* Properties *)

Accepted == phase \in {"compiled", "running", "stopped", "finished"}
Done == {order[i] : i \in 1..at - 1}

\* Types; a registered job has an unreserved id and an input, and the job
\* quire/push is there once and only once registration is over.
TypeOK ==
  /\ phase \in {"evaluating", "failed", "misdefined", "building", "misbuilt",
               "compiled", "running", "stopped", "finished"}
  /\ calls \in 0..MaxCalls
  /\ Nodes \subseteq Ids \cup {Push}
  /\ \A n \in Nodes : jobs[n] \subseteq Names /\ (jobs[n] = {} <=> n = Push)
  /\ (phase = "building" \/ Accepted) => Push \in Nodes
  /\ image \in BOOLEAN
  /\ \A e \in errors : e.jobs \subseteq Names
  /\ order = NoJobs \/ order \in Listings
  /\ at \in 1..Cardinality(Nodes) + 1

\* Nothing a script asked for is silently dropped or replaced: a pipeline that
\* gets past registration has one job for every ci.job call and the one image
\* (add_job and register_image keep the first and report the others), and a call
\* that comes too late, in a run-fn, does not return (register takes the sink away).
NothingDropped ==
  phase = "building" \/ Accepted =>
    calls = Cardinality(Nodes \ {Push}) + (IF image THEN 1 ELSE 0)

\* When a job is entered all its inputs have run to a successful end, and so
\* has everything that `(jobs name)` lets it read (the executor relies on
\* toposort and on the views of Runtime::new).
ReadsAreDone ==
  phase = "running" =>
    /\ Resolved(Current) \subseteq Done
    /\ \A n \in Names : Lookup(Current, n) # "error" => n \in Done

\* The run of a compiled pipeline is a run of its dataflow graph.
Dataflow == INSTANCE JobDataflow
  WITH Source <- Push,
       graph <- IF Accepted THEN [n \in Nodes |-> Resolved(n)] ELSE NoJobs,
       done <- Done,
       over <- phase = "stopped"
ImplementsDataflow == Dataflow!Spec
=============================================================================
