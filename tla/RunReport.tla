------------------------------ MODULE RunReport ------------------------------
(***************************************************************************)
(* What the page of a run promises: it shows only what happened, after the *)
(* run is over, and a verdict taken from quire-ci's own report is recorded *)
(* only when everything that happened is shown.  EventIngest, with the     *)
(* quire-ci that feeds it, is shown to implement this module.              *)
(***************************************************************************)
CONSTANTS Failures,   \* the items (jobs and commands) that fail a run
          None        \* no verdict

VARIABLES over,       \* quire-ci has exited
          happened,   \* jobs and commands that finished
          shown,      \* rows of `jobs` and `sh`
          verdict

vars == <<over, happened, shown, verdict>>

Verdicts == {"succeeded", "failed-pipeline", "failed-internal"}

Init ==
  /\ over = FALSE
  /\ happened = {}
  /\ shown = {}
  /\ verdict = None

Happen ==
  /\ ~over
  /\ \E x \in happened' \ happened : happened' = happened \cup {x}
  /\ UNCHANGED <<over, shown, verdict>>

End ==
  /\ ~over
  /\ over' = TRUE
  /\ UNCHANGED <<happened, shown, verdict>>

Show ==
  /\ over
  /\ verdict = None
  /\ \E x \in happened \ shown : shown' = shown \cup {x}
  /\ UNCHANGED <<over, happened, verdict>>

\* Whether a failed job is among the items, and all of them are shown.
Complete(v) ==
  /\ shown = happened
  /\ v = "succeeded" => happened \cap Failures = {}

Judge(v) ==
  /\ over
  /\ verdict = None
  /\ v # "failed-internal" => Complete(v)
  /\ verdict' = v
  /\ UNCHANGED <<over, happened, shown>>

Next == Happen \/ End \/ Show \/ \E v \in Verdicts : Judge(v)

Spec == Init /\ [][Next]_vars
=============================================================================
