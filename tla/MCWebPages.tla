----------------------------- MODULE MCWebPages -----------------------------
(***************************************************************************)
(* TLC instance of WebPages: a repository whose README is renamed, whose   *)
(* directory gets a file named like one of the root, and where a file      *)
(* becomes a directory, and another one, once of white space, a submodule; *)
(* `other` has removed every file.  The last commit makes a file one that  *)
(* is not UTF-8, by an author whose name is not, and adds one whose name   *)
(* is quoted; the patch of c2 and the subject of `other` are not UTF-8.    *)
(* <<5>> is the path that git takes for a pattern, and that a URL cuts.    *)
(***************************************************************************)
EXTENDS WebPages, TLC

CONSTANTS c1, c2, c3, other, v1, v2, v3, remote

\* Names: 1 README.md, 2 readme.md, 3 README, 4 to 6 others, 0 the quoted 6.
MCCandidates == <<1, 2, 3>>
MCParent == c1 :> None @@ c2 :> c1 @@ c3 :> c2 @@ other :> c1
MCTree ==
  c1 :> (<<1>> :> v1 @@ <<4>> :> v1 @@ <<5>> :> Blank)
  @@ c2 :> (<<2>> :> v1 @@ <<4, 1>> :> v1 @@ <<4, 4>> :> v2 @@ <<5>> :> v2)
  @@ c3 :> (<<2>> :> v1 @@ <<4, 1>> :> v3 @@ <<4, 4>> :> NotUtf8 @@ <<5>> :> Module
            @@ <<6>> :> v2)
  @@ other :> <<>>
MCGarbled == c1 :> {} @@ c2 :> {"patch"} @@ c3 :> {"author", "body"} @@ other :> {"subject"}
MCPrinted == 6 :> 0
MCPathspec == <<5>> :> {<<5>>, <<2>>}
MCFollowed == <<5>> :> <<7>>
MCMirrors == c1 :> {} @@ c2 :> {remote} @@ c3 :> {} @@ other :> {}
MCPaths == {<<>>, <<4>>, <<4, 1>>, <<4, 4>>, <<5>>}
=============================================================================
