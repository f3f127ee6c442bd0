------------------------------ MODULE RepoTree ------------------------------
(***************************************************************************)
(* What the git commands of the web view return, as functions of the value *)
(* HEAD has when they run (quire/web/handlers/git.rs and tree.rs).  git is *)
(* external: the operators say what the handlers make of its output, None  *)
(* standing for a command that fails, prints nothing, or prints what is    *)
(* not UTF-8 (RepoView::run).                                              *)
(*                                                                         *)
(* A commit is its tree, a function from the paths of its files to what    *)
(* they hold.  Names are numbers, because entries are sorted by name.  A   *)
(* name may be printed quoted, and a path may be a pattern where git takes *)
(* patterns.  Histories are linear, names are UTF-8.                       *)
(***************************************************************************)
EXTENDS Integers, SequencesExt, Sorting

CONSTANTS
  Commits,
  Parent,      \* the commit before, or None
  Tree,        \* path -> content, per commit
  Blank,       \* content of a file of white space
  Module,      \* "content" of a submodule's path
  NotUtf8,     \* content of a file whose bytes are not UTF-8
  Garbled,     \* what of a commit git prints in bytes that are not UTF-8
  Printed,     \* name that ls-tree quotes -> what it prints for it
  Pathspec,    \* path that git takes for a pattern -> the paths it selects
  Candidates,  \* names of a README, in the order they are tried
  Rows,        \* commits a log shows: 12
  None

ASSUME HistoryAssumption ==
  /\ Parent \in [Commits -> Commits \cup {None}] /\ None \notin Commits
  /\ \A S \in (SUBSET Commits) \ {{}} : \E c \in S : Parent[c] \notin S
ASSUME TreeAssumption ==
  /\ DOMAIN Tree = Commits
  /\ \A c \in Commits :
       /\ IsFiniteSet(DOMAIN Tree[c])
       /\ \A p, q \in DOMAIN Tree[c] :
            /\ p \in Seq(Nat) \ {<<>>}
            /\ ~IsStrictPrefix(p, q)
            /\ Tree[c][p] # None
ASSUME GarbledAssumption ==
  Garbled \in [Commits -> SUBSET {"subject", "author", "body", "patch"}]
ASSUME RowsAssumption ==
  Rows \in Nat \ {0} /\ Candidates \in Seq(Nat) \ {<<>>}

\* What ls-tree quotes starts with a quote, which it leaves in no other name.
PrintedName(n) == IF n \in DOMAIN Printed THEN Printed[n] ELSE n
Quotes == {Printed[n] : n \in DOMAIN Printed}
Used == UNION {ToSet(q) : q \in UNION {DOMAIN Tree[c] : c \in Commits}}
ASSUME PrintedAssumption ==
  /\ DOMAIN Printed \subseteq Nat /\ Quotes \subseteq Nat
  /\ \A m, n \in Used : PrintedName(m) = PrintedName(n) => m = n

\* None is told from what the commands print.
ASSUME NoneAssumption ==
  /\ None \notin [listed : SUBSET Nat]
  /\ None \notin Seq([name : Nat, kind : {"dir", "submodule", "file"}])

\* Newest first.
Line[c \in Commits] ==
  <<c>> \o IF Parent[c] = None THEN <<>> ELSE Line[Parent[c]]

\* What the commit holds at the path and below it.
Below(c, p) ==
  LET paths == {q \in DOMAIN Tree[c] : IsPrefix(p, q)}
  IN  [q \in paths |-> Tree[c][q]]

\* What the commit holds at the paths that git selects by this one.
Held(c, p) ==
  IF p \in DOMAIN Pathspec
    THEN [q \in DOMAIN Tree[c] \cap Pathspec[p] |-> Tree[c][q]]
    ELSE Below(c, p)
Touches(c, p) ==
  IF Parent[c] = None THEN DOMAIN Held(c, p) # {}
  ELSE Held(c, p) # Held(Parent[c], p)

IsDir(c, p) == \E q \in DOMAIN Tree[c] : IsStrictPrefix(p, q)
Names(c, p) == {q[Len(p) + 1] : q \in {x \in DOMAIN Tree[c] : IsStrictPrefix(p, x)}}
Kind(c, p) ==
  CASE IsDir(c, p) -> "dir"
    [] ~IsDir(c, p) /\ p \in DOMAIN Tree[c] /\ Tree[c][p] = Module -> "submodule"
    [] OTHER -> "file"

\* raw.sort_by: directories and submodules first, then by name.
Precedes(x, y) ==
  IF (x.kind = "file") = (y.kind = "file") THEN x.name < y.name
  ELSE y.kind = "file"

\* git ls-tree HEAD[:path], names as they are printed.  A path that is no
\* directory, and a root without files, give None.
LsTree(h, p) ==
  IF h \notin Commits \/ ~IsDir(h, p) THEN None
  ELSE Sorted({[name |-> PrintedName(n), kind |-> Kind(h, Append(p, n))] :
                 n \in Names(h, p)}, Precedes)

\* The commits of git log [-- path], cut to the rows shown.  No path selects
\* every commit.
Log(h, p) ==
  LET all == IF h \in Commits THEN Line[h] ELSE <<>>
      at  == Sorted({n \in DOMAIN all : Touches(all[n], p)}, LAMBDA m, n : m < n)
      log == IF p = <<>> THEN all ELSE [k \in DOMAIN at |-> all[at[k]]]
  IN  SubSeq(log, 1, IF Len(log) < Rows THEN Len(log) ELSE Rows)

\* recent_changes_for: one subject that is not UTF-8 takes the whole log away.
Recent(h, p) ==
  IF \E c \in ToSet(Log(h, p)) : "subject" \in Garbled[c] THEN <<>> ELSE Log(h, p)

\* A commit of which these parts are printed.
Said(c, printed) ==
  IF c = None \/ Garbled[c] \cap printed # {} THEN None ELSE c

\* git log -1 HEAD -- path, for an entry of a listing and for a file.  git
\* refuses an empty path.
Changed(h, p) == IF p = <<>> \/ Log(h, p) = <<>> THEN None ELSE Log(h, p)[1]
EntryChange(h, p) == Said(Changed(h, p), {"subject"})
LastChange(h, p) == Said(Changed(h, p), {"subject", "author"})

\* git show HEAD:path and git cat-file -p HEAD:path.  A directory is listed.
Show(h, p) ==
  CASE h \notin Commits -> None
    [] h \in Commits /\ (p = <<>> \/ IsDir(h, p)) -> [listed |-> Names(h, p)]
    [] h \in Commits /\ p \in DOMAIN Tree[h]
         /\ Tree[h][p] \notin {Blank, Module, NotUtf8} -> Tree[h][p]
    [] OTHER -> None

\* git cat-file -s HEAD:path prints a number, whatever the file holds.
Size(h, p) ==
  IF h \in Commits /\ p \in DOMAIN Tree[h] /\ Tree[h][p] # Module THEN Tree[h][p]
  ELSE Show(h, p)

\* git ls-tree --format=%(objectmode) HEAD path, a plain file by default.
Mode(h, p) == IF h \in Commits /\ p # <<>> THEN Kind(h, p) ELSE "file"
=============================================================================
