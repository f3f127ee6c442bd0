----------------------------- MODULE MCPipeline -----------------------------
(***************************************************************************)
(* Small instances of Pipeline in the processes that host it.              *)
(***************************************************************************)
EXTENDS LocalRun, PipelinePaths, TLC

CONSTANTS a, b, c, c1, c2

TwoCommits == {c1, c2}

ThreeIds == {a, b, c}
IdSymmetry == Permutations(ThreeIds)
OneSlashed == {Push}
=============================================================================
