----------------------------- MODULE MCRunStore -----------------------------
(* Small instances of RunStore. *)
EXTENDS RunStore

CONSTANTS r1, r2, main

\* Two pushes to one ref.
OneRef == [r \in {r1, r2} |-> main]
=============================================================================
