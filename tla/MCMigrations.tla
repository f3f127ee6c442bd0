----------------------------- MODULE MCMigrations -----------------------------
(* Small instances of Migrations. *)
EXTENDS Migrations

CONSTANTS run, job

OneRun == {run}
OneJob == {job}
=============================================================================
