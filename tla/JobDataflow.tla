----------------------------- MODULE JobDataflow -----------------------------
(***************************************************************************)
(* What docs/CI-FENNEL.md promises of a pipeline, "a dataflow graph of     *)
(* jobs": everything in the graph is downstream of its source, a job runs  *)
(* at most once, and only when all its inputs have run to a successful     *)
(* end.  Pipeline is shown to implement this module.                       *)
(***************************************************************************)
CONSTANT Source

VARIABLES graph,   \* the inputs of each job; no job before it is accepted
          done,    \* jobs that ran to a successful end
          over     \* nothing runs any more

vars == <<graph, done, over>>

NoGraph == [n \in {} |-> {}]

\* Whoever follows the edges from the source reaches every job.
Rooted(g) ==
  /\ Source \in DOMAIN g
  /\ \A S \in SUBSET DOMAIN g :
       Source \in S /\ (\A n \in DOMAIN g : g[n] \cap S # {} => n \in S)
         => S = DOMAIN g

Init == graph = NoGraph /\ done = {} /\ over = FALSE

Accept ==
  /\ graph = NoGraph
  /\ Rooted(graph')
  /\ UNCHANGED <<done, over>>

Run(n) ==
  /\ ~over
  /\ n \notin done
  /\ graph[n] \subseteq done
  /\ done' = done \cup {n}
  /\ UNCHANGED <<graph, over>>

Stop ==
  /\ graph # NoGraph
  /\ ~over
  /\ over' = TRUE
  /\ UNCHANGED <<graph, done>>

Next == Accept \/ Stop \/ \E n \in DOMAIN graph : Run(n)

Spec == Init /\ [][Next]_vars
=============================================================================
