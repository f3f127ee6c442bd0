---------------------------- MODULE PipelinePaths ----------------------------
(***************************************************************************)
(* What the validation of a pipeline's graph and the `(jobs name)` views   *)
(* are to decide, told by the paths of the graph and the orders of its     *)
(* jobs: independent of the searches, components and triggers that         *)
(* Pipeline models the code with.                                          *)
(***************************************************************************)
EXTENDS Pipeline

\* Edges from an input to the job that lists it.
Edges == {e \in Nodes \X Nodes : e[1] \in jobs[e[2]]}

\* The pairs of jobs that a path of at least one and at most k edges joins.
Joined[k \in Nat] ==
  IF k = 0 THEN {}
  ELSE Edges \cup {e \in Nodes \X Nodes :
                     \E m \in Nodes : <<e[1], m>> \in Edges /\ <<m, e[2]>> \in Joined[k - 1]}

\* A path that visits no job twice has no more edges than there are jobs.
Leads(m, n) == <<m, n>> \in Joined[Cardinality(Nodes)]

InCycle(n) == Leads(n, n)
FromPush(n) == n = Push \/ Leads(Push, n)

\* An order in which somebody could run all the jobs, each after its inputs.
RunsInOrder(p) ==
  /\ {p[i] : i \in DOMAIN p} = Nodes
  /\ \A e \in Edges : \E i, j \in DOMAIN p : i < j /\ <<p[i], p[j]>> = e

\* Whether the jobs can all be run one after the other, and there is a push to
\* start each of them from.
Runnable ==
  /\ \A n \in Nodes : FromPush(n)
  /\ \E p \in [1..Cardinality(Nodes) -> Nodes] : RunsInOrder(p)

\* A graph is refused exactly when it cannot be run (validate_post_graph):
\* toposort never panics on an accepted one, and no sound one is refused.
RefusedIffUnrunnable ==
  /\ phase = "compiled" => Runnable
  /\ phase = "misbuilt" => ~Runnable

\* The diagnostics of a refused graph name every culprit once, and nobody else:
\* the jobs of a cycle together, by one error, and each job outside of cycles
\* that no push leads to (validate_post_graph).
ErrorsNameCulprits ==
  phase \in {"compiled", "misbuilt"} =>
    errors =
      {[kind |-> "cycle", jobs |-> {m \in Nodes : m = n \/ (Leads(m, n) /\ Leads(n, m))}] :
         n \in {m \in Nodes : InCycle(m)}}
      \cup {[kind |-> "unreachable", jobs |-> {n}] :
              n \in {m \in Nodes : ~InCycle(m) /\ ~FromPush(m)}}

\* `(jobs name)` answers for every ancestor of the calling job, with the push for
\* quire/push and nil for a job, and raises for any other name (Runtime::new).
ViewsMatchPaths ==
  phase = "running" =>
    \A n \in Names :
      Lookup(Current, n) =
        IF n \in Nodes \ {Current} /\ Leads(n, Current)
        THEN IF n = Push THEN "push" ELSE "nil"
        ELSE "error"
=============================================================================
