----------------------------- MODULE Repositories -----------------------------
(***************************************************************************)
(* The repositories below <base>/repos and the commands that ssh sessions  *)
(* run on them: `quire repo new`, `quire repo rm`, `quire repo list` and   *)
(* git itself (bin/quire/commands/repo.rs and exec.rs, quire/mod.rs).      *)
(* Every session is a process of its own; nothing but the file system is   *)
(* shared, and a session can be killed between any two of its steps.       *)
(*                                                                         *)
(* A name is the sequence of its segments between slashes.  The directory  *)
(* of a name is the name; <base>/repos itself always exists.               *)
(***************************************************************************)
EXTENDS Naturals, Sequences, SequencesExt

CONSTANTS
    Sessions,
    DotGit,       \* segment |-> the same with ".git" appended
    Reserved,     \* "", ".git" and those with two dots in a row or a lone dot
    RawNames      \* what callers write

Suffixed == Range(DotGit) \cup {".git"}

Segments == DOMAIN DotGit \cup Suffixed \cup Reserved

ASSUME DotGitAssumption == DOMAIN DotGit \cap Suffixed = {}

\* Splitting at slashes yields at least one segment, and any last one can be
\* given the suffix.
ASSUME RawNamesAssumption ==
    \A n \in RawNames : /\ n \in Seq(Segments) /\ n # <<>>
                        /\ Last(n) \in DOMAIN DotGit \cup Suffixed

VARIABLES
    dirs,       \* the directories below repos
    heads,      \* those of them that git has initialised
    pc,         \* where each session is
    name,       \* the repository it works on
    reply       \* how its last command ended

vars == <<dirs, heads, pc, name, reply>>

-----------------------------------------------------------------------------

\* Mutant of IsRepoName: groups within groups.
IsDeepName(n) ==
    /\ n # <<>>
    /\ Last(n) \in Suffixed
    /\ \A i \in DOMAIN n : n[i] \notin Reserved

\* RepoName::from_str.
IsRepoName(n) ==
    /\ Len(n) \in 1..2
    /\ Last(n) \in Suffixed
    /\ \A i \in DOMAIN n : n[i] \notin Reserved

\* repo new accepts a name without the suffix.
Normalized(raw) ==
    IF Last(raw) \in Suffixed THEN raw
    ELSE Append(Front(raw), DotGit[Last(raw)])

\* Repo::exists: is there such a directory?
Exists(n) == n \in dirs

Below(n) == {d \in dirs : IsStrictPrefix(n, d)}
Upto(n) == Prefixes(n) \ {<<>>}

\* Quire::repos walks two levels and keeps the directories with a valid name.
Listed == {d \in dirs : IsRepoName(d)}

Init ==
    /\ dirs = {}
    /\ heads = {}
    /\ pc = [s \in Sessions |-> "idle"]
    /\ name = [s \in Sessions |-> <<>>]
    /\ reply = [s \in Sessions |-> "none"]

Go(s, label) == pc' = [pc EXCEPT ![s] = label]

End(s, how) ==
    /\ Go(s, "idle")
    /\ reply' = [reply EXCEPT ![s] = how]

-----------------------------------------------------------------------------
(* quire repo new.                                                         *)

\* A name that does not parse, or that exists, is refused.
New(s, raw) ==
    LET n == Normalized(raw)
    IN  /\ pc[s] = "idle"
        /\ IF IsRepoName(n) /\ ~Exists(n)
           THEN /\ Go(s, "parent")
                /\ name' = [name EXCEPT ![s] = n]
                /\ UNCHANGED reply
           ELSE End(s, "refused") /\ UNCHANGED name
        /\ UNCHANGED <<dirs, heads>>

\* create_dir_all of the group.
MakeParent(s) ==
    /\ pc[s] = "parent"
    /\ dirs' = dirs \cup Upto(Front(name[s]))
    /\ Go(s, "init")
    /\ UNCHANGED <<heads, name, reply>>

\* git init makes the directory, and the group again if it is gone, ...
InitDirectory(s) ==
    /\ pc[s] = "init"
    /\ dirs' = dirs \cup Upto(name[s])
    /\ Go(s, "fill")
    /\ UNCHANGED <<heads, name, reply>>

\* ... and fills it; over an initialised repository it changes nothing.
InitFill(s) ==
    /\ pc[s] = "fill"
    /\ IF Exists(name[s])
       THEN heads' = heads \cup {name[s]} /\ End(s, "created")
       ELSE UNCHANGED heads /\ End(s, "failed")
    /\ UNCHANGED <<dirs, name>>

-----------------------------------------------------------------------------
(* quire repo rm.                                                          *)

\* Quire::repo: a name that does not parse or does not exist is an error.
Rm(s, n) ==
    /\ pc[s] = "idle"
    /\ IF IsRepoName(n) /\ Exists(n)
       THEN /\ Go(s, "empty")
            /\ name' = [name EXCEPT ![s] = n]
            /\ UNCHANGED reply
       ELSE End(s, "refused") /\ UNCHANGED name
    /\ UNCHANGED <<dirs, heads>>

\* remove_dir_all: first all that is in the directory, ...
RmContents(s) ==
    /\ pc[s] = "empty"
    /\ IF Exists(name[s])
       THEN /\ dirs' = dirs \ Below(name[s])
            /\ heads' = heads \ (Below(name[s]) \cup {name[s]})
            /\ Go(s, "rmdir") /\ UNCHANGED reply
       ELSE UNCHANGED <<dirs, heads>> /\ End(s, "failed")
    /\ UNCHANGED <<name>>

Empty(d) == d \in dirs /\ d \notin heads /\ Below(d) = {}

\* ... then the directory, unless something is in it again.
RmDirectory(s) ==
    /\ pc[s] = "rmdir"
    /\ IF Empty(name[s])
       THEN dirs' = dirs \ {name[s]} /\ Go(s, "tidy") /\ UNCHANGED reply
       ELSE UNCHANGED dirs /\ End(s, "failed")
    /\ UNCHANGED <<heads, name>>

\* Mutant of Tidied: the group is removed with all that is in it.
TidiedAll(g) ==
    /\ dirs' = dirs \ (Below(g) \cup {g})
    /\ heads' = heads \ (Below(g) \cup {g})

\* remove_dir of the group; that it is not empty, or gone, is no error.
Tidied(g) ==
    /\ dirs' = IF Empty(g) THEN dirs \ {g} ELSE dirs
    /\ UNCHANGED heads

Tidy(s) ==
    /\ pc[s] = "tidy"
    /\ IF Len(name[s]) = 2
       THEN Tidied(Front(name[s]))
       ELSE UNCHANGED <<dirs, heads>>
    /\ End(s, "removed")
    /\ UNCHANGED <<name>>

-----------------------------------------------------------------------------
(* git over ssh, and the end of a session.                                 *)

\* dispatch_git looks the repository up and becomes git, which serves an
\* initialised repository only.
Serve(s, n) ==
    /\ pc[s] = "idle"
    /\ End(s, IF ~(IsRepoName(n) /\ Exists(n)) THEN "refused"
              ELSE IF n \in heads THEN "served" ELSE "failed")
    /\ UNCHANGED <<dirs, heads, name>>

Kill(s) ==
    /\ pc[s] # "idle"
    /\ End(s, "killed")
    /\ UNCHANGED <<dirs, heads, name>>

Step(s) ==
    \/ MakeParent(s) \/ InitDirectory(s) \/ InitFill(s)
    \/ RmContents(s) \/ RmDirectory(s) \/ Tidy(s)
    \/ Kill(s)

Next == \E s \in Sessions :
    Step(s) \/ \E n \in RawNames : New(s, n) \/ Rm(s, n) \/ Serve(s, n)

Spec == Init /\ [][Next]_vars

-----------------------------------------------------------------------------
(* Properties.                                                             *)

Places == {"idle", "parent", "init", "fill", "empty", "rmdir", "tidy"}
Replies == {"none", "refused", "created", "failed", "removed", "served", "killed"}

\* Directories form a tree two levels deep, and every initialised repository
\* is one of them under a name that parses: it is listed, and can be served
\* and removed.
TypeOK ==
    /\ \A d \in dirs : Len(d) \in 1..2 /\ Upto(d) \subseteq dirs
    /\ heads \subseteq Listed
    /\ \A s \in Sessions : /\ pc[s] \in Places
                           /\ pc[s] # "idle" => IsRepoName(name[s])
                           /\ reply[s] \in Replies

\* A repository disappears only by an rm that names it or the repository it is
\* nested in: tidying up a group never takes a repository with it, not even
\* one that another session has just made there.
OnlyNamedRemoved ==
    [][\A r \in heads \ heads' : \E s \in Sessions :
          pc[s] = "empty" /\ IsPrefix(name[s], r)]_vars

-----------------------------------------------------------------------------
(* The inductive invariant.                                                *)

\* TypeOK is inductive once the functions have their domains and a name is a
\* sequence.
IInv ==
    /\ TypeOK
    /\ dirs \subseteq Seq(Segments)
    /\ pc \in [Sessions -> Places]
    /\ name \in [Sessions -> Seq(Segments)]
    /\ reply \in [Sessions -> Replies]
===============================================================================
