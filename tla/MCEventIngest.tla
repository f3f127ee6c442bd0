---------------------------- MODULE MCEventIngest ----------------------------
(* Small instances of EventIngest. *)
EXTENDS EventIngest

CONSTANTS build, deploy

\* No job of the user's, one, and two that depend on each other.
UpToTwoJobs == {<<Push>>, <<Push, build>>, <<Push, build, deploy>>}

\* A single job.
OneJob == {<<Push, build>>}
=============================================================================
