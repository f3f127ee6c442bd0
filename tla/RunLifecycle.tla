---------------------------- MODULE RunLifecycle ----------------------------
(***************************************************************************)
(* What the `runs` table promises to everyone who reads it: the lifecycle  *)
(* of docs/CI-STATE.md as the code implements it.  A run is absent, then   *)
(* queued, possibly active, and finally carries exactly one outcome, which *)
(* no later step replaces.  RunStore is shown to implement this module.    *)
(***************************************************************************)
CONSTANT Runs      \* every run the forge may ever create

VARIABLE stage     \* what a reader derives from the three nullable columns

Verdicts == {"succeeded", "failed-pipeline", "failed-internal"}
Outcomes == Verdicts \cup {"failed-orphaned", "superseded"}
Live == {"queued", "active"}
Stages == {"absent"} \cup Live \cup Outcomes

TypeOK == stage \in [Runs -> Stages]

Init == stage = [r \in Runs |-> "absent"]

Create(r) ==
  /\ stage[r] = "absent"
  /\ stage' = [stage EXCEPT ![r] = "queued"]

Dispatch(r) ==
  /\ stage[r] = "queued"
  /\ stage' = [stage EXCEPT ![r] = "active"]

\* The handler that executed the run records its verdict.  Only a run that
\* was dispatched can have succeeded or failed in its pipeline; an internal
\* failure may also end a run whose quire-ci never got its bootstrap.
Judge(r, verdict) ==
  /\ stage[r] \in (IF verdict = "failed-internal" THEN Live ELSE {"active"})
  /\ stage' = [stage EXCEPT ![r] = verdict]

\* A newer push, or the reconciliation at startup, ends several runs at once.
Abandon(S, outcome) ==
  /\ \A r \in S : stage[r] \in Live
  /\ stage' = [r \in Runs |-> IF r \in S THEN outcome ELSE stage[r]]

Next ==
  \/ \E r \in Runs : Create(r) \/ Dispatch(r)
  \/ \E r \in Runs, verdict \in Verdicts : Judge(r, verdict)
  \/ \E S \in SUBSET Runs, outcome \in {"failed-orphaned", "superseded"} :
       Abandon(S, outcome)

vars == <<stage>>

Spec == Init /\ [][Next]_vars
=============================================================================
