---------------------------- MODULE MCRepositories ----------------------------
(***************************************************************************)
(* TLC instance of Repositories: two repositories of one group, a plain    *)
(* one, and one nested in it; names without suffix, too deep and reserved. *)
(***************************************************************************)
EXTENDS Repositories

MCDotGit == [a |-> "a.git", b |-> "b.git", work |-> "work.git"]
MCReserved == {"", ".", "..", ".git"}
MCRawNames == {<<"a">>, <<"a.git">>, <<"work", "a">>, <<"work", "b.git">>,
               <<"work", "a.git">>, <<"a.git", "b.git">>,
               <<"work", "a", "b.git">>, <<"work", ".git">>, <<"..", "a.git">>}
===============================================================================
