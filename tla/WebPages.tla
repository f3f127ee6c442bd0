------------------------------ MODULE WebPages ------------------------------
(***************************************************************************)
(* The pages of the web view (quire-server/src/quire/web).  A request      *)
(* checks who asks and that the repository exists, then runs one git       *)
(* command or SELECT after the other and renders what they said.  Nothing  *)
(* holds the repository or the tables still meanwhile: pushes move HEAD,   *)
(* an rm takes the repository away, and handlers write rows between any    *)
(* two of the reads.                                                       *)
(*                                                                         *)
(* One request: requests change nothing and do not see each other.  Its    *)
(* reads are the parts of `page`.  Change ids and relative ages, which the *)
(* handlers read per commit, belong to the commit and are left out.        *)
(***************************************************************************)
EXTENDS RepoTree

CONSTANTS
  Gone,       \* "HEAD" of a repository that is not there
  HeadName,       \* the name HEAD, where a commit is asked for
  MirrorsOf,  \* remotes listed by .quire/config.fnl at a commit
  Paths,      \* paths asked for
  Followed,   \* path that is no URL path as it stands -> what a browser asks
              \* for that follows a link to it, or None
  ListRows,   \* runs a list shows: 50
  HomeRows,   \* runs the home page shows: 5
  MaxRuns,    \* bound on the rows of `runs`
  MaxMoves    \* bound on what happens beside the request

ASSUME NamesAssumption ==
  /\ {Gone, HeadName, None} \cap Commits = {}
  /\ Gone # HeadName /\ Gone # None /\ HeadName # None
  /\ DOMAIN MirrorsOf = Commits /\ Paths \subseteq Seq(Nat)
ASSUME BoundsAssumption ==
  /\ ListRows \in Nat \ {0} /\ HomeRows \in 1..ListRows
  /\ MaxRuns \in Nat \ {0} /\ MaxMoves \in Nat

VARIABLES
  head,    \* what HEAD of the repository denotes: None before the first push
  stored,  \* commits of its object database
  runs,    \* rows of the repository, oldest first, with theirs in jobs and sh
  moves,   \* pushes, removals and writes so far
  req,     \* the request: its page, argument and visitor
  status,  \* how far the response is
  page,    \* what was read for it
  seen,    \* what HEAD denoted since the request began, oldest first
  quiet    \* nothing happened beside it

outsideVars == <<head, stored, runs, moves>>
requestVars == <<req, status, page, seen, quiet>>
vars == <<outsideVars, requestVars>>

Reported == {"succeeded", "failed-pipeline"}
Imposed == {"failed-internal", "failed-orphaned"}
Outcomes == Reported \cup Imposed \cup {"superseded"}
ASSUME OutcomesAssumption == None \notin Outcomes

\* Rows that resolve, cancel_existing, the endpoint and the ingest can leave.
\* One job and one command stand for any number.
RunRows ==
  {x \in [outcome : Outcomes \cup {None}, dispatched : BOOLEAN,
          jobs : 0..1, sh : 0..1] :
     /\ x.sh <= x.jobs
     /\ x.jobs = 1 => x.dispatched
     /\ x.outcome \in Reported \cup Imposed => x.dispatched}
Queued == [outcome |-> None, dispatched |-> FALSE, jobs |-> 0, sh |-> 0]

Kinds == {"list", "home", "tree", "log", "commit", "runs", "run"}
Guarded == {"runs", "run"}
Visitors == {"anonymous", "unreadable", "user"}
ArgsOf(kind) ==
  CASE kind = "tree" -> Paths
    [] kind = "commit" -> Commits \cup {HeadName}
    [] kind = "run" -> 1..MaxRuns
    [] OTHER -> {None}
NoRequest == [kind |-> "list", arg |-> None, visitor |-> "anonymous"]
NoPage == [tried |-> 0]

Init ==
  /\ head \in Commits \cup {None}
  /\ stored = IF head = None THEN {} ELSE ToSet(Line[head])
  /\ runs \in {<<>>} \cup {<<x>> : x \in {y \in RunRows : y.outcome = None}}
  /\ moves = 0
  /\ req = NoRequest /\ status = "idle" /\ page = NoPage
  /\ seen = <<>> /\ quiet = TRUE

-----------------------------------------------------------------------------
(* Beside the request *)

Move ==
  /\ moves < MaxMoves
  /\ moves' = moves + 1
  /\ quiet' = FALSE
  /\ UNCHANGED <<req, status, page>>

HeadMoves(h) ==
  /\ Move
  /\ head' = h
  /\ seen' = Append(seen, h)
  /\ UNCHANGED runs

\* A push to the branch HEAD points at, forced or not.
Pushed(c) ==
  /\ head # Gone /\ c # head
  /\ HeadMoves(c)
  /\ stored' = stored \cup ToSet(Line[c])

\* quire repo rm, and quire repo new.  The rows stay.
Removed ==
  /\ head # Gone
  /\ HeadMoves(Gone)
  /\ stored' = {}
Created ==
  /\ head = Gone
  /\ HeadMoves(None)
  /\ UNCHANGED stored

RowMoves(i, x) ==
  /\ Move
  /\ x \in RunRows
  /\ runs' = [runs EXCEPT ![i] = x]
  /\ UNCHANGED <<head, stored, seen>>

NewRun ==
  /\ Len(runs) < MaxRuns
  /\ Move
  /\ runs' = Append(runs, Queued)
  /\ UNCHANGED <<head, stored, seen>>

\* quire-ci's bootstrap, a second chance for a superseded run included.
Dispatched(i) ==
  /\ ~runs[i].dispatched
  /\ RowMoves(i, [runs[i] EXCEPT !.dispatched = TRUE])

\* The ingest is over before its handler resolves the run, but goes on for a
\* run that was superseded.  An orphaned run has no handler.
JobInserted(i) ==
  /\ runs[i].outcome \in {None, "superseded"} /\ runs[i].jobs = 0
  /\ RowMoves(i, [runs[i] EXCEPT !.jobs = 1])
ShInserted(i) ==
  /\ runs[i].outcome \in {None, "superseded"} /\ runs[i].sh = 0
  /\ RowMoves(i, [runs[i] EXCEPT !.sh = 1])

\* resolve, cancel_existing and reconcile_orphans.
Resolved(i, outcome) ==
  /\ runs[i].outcome = None
  /\ RowMoves(i, [runs[i] EXCEPT !.outcome = outcome,
                                 !.dispatched = @ \/ outcome \in Imposed])

Outside ==
  \/ \E c \in Commits : Pushed(c)
  \/ Removed \/ Created \/ NewRun
  \/ \E i \in DOMAIN runs :
       \/ Dispatched(i) \/ JobInserted(i) \/ ShInserted(i)
       \/ \E o \in Outcomes : Resolved(i, o)

-----------------------------------------------------------------------------
(* What a page is made of *)

\* derive_run_state.
StateOf(x) ==
  CASE x.outcome \in {"succeeded", "superseded"} -> x.outcome
    [] x.outcome \notin {"succeeded", "superseded", None} -> "failed"
    [] x.outcome = None /\ x.dispatched -> "active"
    [] OTHER -> "queued"

\* ORDER BY created_at DESC, the newest n.
Newest(n) ==
  LET all == Reverse([i \in DOMAIN runs |-> [id |-> i, state |-> StateOf(runs[i])]])
  IN  SubSeq(all, 1, IF Len(all) < n THEN Len(all) ELSE n)

\* The Auth extractor asks for the header, require_auth for a readable one.
Authenticated == req.visitor # "anonymous"

\* Mutant of HomeParts: the runs are on every visitor's home page.
HomePartsForAll == <<"runs", "head", "readme", "recent", "mirrors">>

HomeParts ==
  IF Authenticated THEN <<"runs", "head", "readme", "recent", "mirrors">>
  ELSE <<"head", "readme", "recent", "mirrors">>

\* Mutant of TreeParts: the head is read after what is shown below it.
TreePartsHeadLast ==
  IF "entries" \in DOMAIN page /\ page.entries = None
    THEN <<"entries", "fileHead", "text", "mode", "last", "size", "raw">>
    ELSE <<"entries", "changes", "recent", "head">>

\* read_tree_data, and read_file_data once ls-tree has failed.
TreeParts ==
  IF "entries" \in DOMAIN page /\ page.entries = None
    THEN <<"head", "entries", "fileHead", "text", "mode", "last", "size", "raw">>
    ELSE <<"head", "entries", "changes", "recent">>

\* Mutant of RunParts: the row of the run is read after those that hang on it.
RunPartsRowLast == <<"jobs", "sh", "run">>

\* load_run_detail, three statements outside any transaction.
RunParts == <<"run", "jobs", "sh">>

Parts ==
  CASE req.kind = "list" -> <<"listed", "subject">>
    [] req.kind = "home" -> HomeParts
    [] req.kind = "tree" -> TreeParts
    [] req.kind = "log" -> <<"recent", "head">>
    [] req.kind = "commit" -> <<"id", "info", "patch">>
    [] req.kind = "runs" -> <<"runs">>
    [] req.kind = "run" -> RunParts

Has(part) ==
  /\ part \in DOMAIN page
  /\ part = "changes" => Len(page.changes) = Len(page.entries)
Complete == \A i \in DOMAIN Parts : Has(Parts[i])

\* The next command or statement is the one for this part.
Reads(part) ==
  /\ status = "reading"
  /\ \E i \in DOMAIN Parts :
       /\ Parts[i] = part /\ ~Has(part)
       /\ \A k \in 1..i - 1 : Has(Parts[k])
  /\ UNCHANGED <<outsideVars, req, seen, quiet>>

With(part, value) ==
  [x \in DOMAIN page \cup {part} |-> IF x = part THEN value ELSE page[x]]

Got(part, value) ==
  /\ page' = With(part, value)
  /\ UNCHANGED status

\* The `?` of the handlers: without this part there is no page.
GotOr404(part, value) ==
  IF value = None THEN status' = "not found" /\ UNCHANGED page
  ELSE Got(part, value)

-----------------------------------------------------------------------------
(* Requests *)

\* Router, require_auth and Quire::repo.
Open(kind, arg, visitor) ==
  /\ status = "idle"
  /\ req' = [kind |-> kind, arg |-> arg, visitor |-> visitor]
  /\ status' = CASE kind \in Guarded /\ visitor # "user" -> "unauthorized"
                 [] ~(kind \in Guarded /\ visitor # "user")
                      /\ kind # "list" /\ head = Gone -> "not found"
                 [] OTHER -> "reading"
  /\ page' = NoPage
  /\ seen' = <<head>>
  /\ quiet' = TRUE
  /\ UNCHANGED outsideVars

\* rev-parse HEAD, or log -1 with the subject for the home page.  In a bare
\* repository an unborn HEAD resolves to the file of that name.
HeadShown(h) ==
  CASE h \in Commits -> IF req.kind = "home" THEN Said(h, {"subject"}) ELSE h
    [] h = None /\ req.kind # "home" -> HeadName
    [] OTHER -> None
ReadHead == Reads("head") /\ Got("head", HeadShown(head))

ReadEntries ==
  /\ Reads("entries")
  /\ page' = [x \in DOMAIN page \cup {"entries", "changes"} |->
                CASE x = "entries" -> LsTree(head, req.arg)
                  [] x = "changes" -> <<>>
                  [] OTHER         -> page[x]]
  /\ UNCHANGED status

\* Mutant of EntryPath: the directory is forgotten.
EntryPathByName(name) == <<name>>

EntryPath(name) == Append(req.arg, name)

\* One log for each entry.
ReadChange ==
  /\ Reads("changes")
  /\ LET entry == page.entries[Len(page.changes) + 1]
     IN  Got("changes", Append(page.changes, EntryChange(head, EntryPath(entry.name))))

ReadRecent ==
  /\ Reads("recent")
  /\ Got("recent", Recent(head, IF req.kind = "tree" THEN req.arg ELSE <<>>))

ReadFileHead == Reads("fileHead") /\ Got("fileHead", HeadShown(head))
ReadText == Reads("text") /\ GotOr404("text", Show(head, req.arg))
ReadMode == Reads("mode") /\ Got("mode", Mode(head, req.arg))
ReadLast == Reads("last") /\ GotOr404("last", LastChange(head, req.arg))
ReadSize == Reads("size") /\ Got("size", Size(head, req.arg))
ReadRaw == Reads("raw") /\ GotOr404("raw", Show(head, req.arg))

\* One candidate at a time, until git has something to show.
ReadReadme ==
  /\ Reads("readme")
  /\ LET text == Show(head, <<Candidates[page.tried + 1]>>)
     IN  IF text = None /\ page.tried + 1 < Len(Candidates)
           THEN page' = [page EXCEPT !.tried = @ + 1] /\ UNCHANGED status
           ELSE Got("readme", text)

\* Mutant of Configured: the links come from what HEAD is by now.
ConfiguredAtHead ==
  IF page.head = None \/ head \notin Commits THEN {} ELSE MirrorsOf[head]

\* repo_config of the commit the page shows; no links if it cannot be read.
Configured ==
  IF page.head = None \/ page.head \notin stored THEN {} ELSE MirrorsOf[page.head]

ReadMirrors == Reads("mirrors") /\ Got("mirrors", Configured)

\* The commit a name denotes now.
Denoted(name) ==
  CASE name = HeadName /\ head \in Commits -> head
    [] name # HeadName /\ name \in stored -> name
    [] OTHER -> None

\* rev-parse: a full hash stays what it is, and so does what it cannot resolve.
ReadId ==
  /\ Reads("id")
  /\ Got("id", IF Denoted(req.arg) = None THEN req.arg ELSE Denoted(req.arg))
ReadInfo ==
  /\ Reads("info")
  /\ GotOr404("info", Said(Denoted(page.id), {"subject", "author", "body"}))

\* A diff that is not UTF-8 is an empty one.
Patched == Said(Denoted(page.id), {"patch"})

ReadPatch == Reads("patch") /\ Got("patch", Patched)

ReadRuns ==
  /\ Reads("runs")
  /\ Got("runs", Newest(IF req.kind = "home" THEN HomeRows ELSE ListRows))
ReadRun ==
  /\ Reads("run")
  /\ GotOr404("run", IF req.arg \in DOMAIN runs
                       THEN [outcome |-> runs[req.arg].outcome,
                             state |-> StateOf(runs[req.arg])]
                       ELSE None)
RowsOf(i, table) == IF i \in DOMAIN runs THEN runs[i][table] ELSE 0
ReadJobs == Reads("jobs") /\ Got("jobs", RowsOf(req.arg, "jobs"))
ReadSh == Reads("sh") /\ Got("sh", RowsOf(req.arg, "sh"))

\* Quire::repos, and log -1 in those that still exist.
ReadListed == Reads("listed") /\ Got("listed", head # Gone)
ReadSubject ==
  /\ Reads("subject")
  /\ Got("subject", IF page.listed /\ head \in Commits THEN Said(head, {"subject"})
                    ELSE None)

\* A statement fails: 500.
QueryFails ==
  /\ \E part \in {"runs", "run", "jobs", "sh"} : Reads(part)
  /\ status' = "error"
  /\ UNCHANGED page

Render ==
  /\ status = "reading" /\ Complete
  /\ status' = "ok"
  /\ UNCHANGED <<outsideVars, req, page, seen, quiet>>

Close ==
  /\ status \notin {"idle", "reading"}
  /\ req' = NoRequest /\ status' = "idle" /\ page' = NoPage
  /\ seen' = <<>> /\ quiet' = TRUE
  /\ UNCHANGED outsideVars

Read ==
  \/ ReadHead \/ ReadEntries \/ ReadChange \/ ReadRecent
  \/ ReadFileHead \/ ReadText \/ ReadMode \/ ReadLast \/ ReadSize \/ ReadRaw
  \/ ReadReadme \/ ReadMirrors
  \/ ReadId \/ ReadInfo \/ ReadPatch
  \/ ReadRuns \/ ReadRun \/ ReadJobs \/ ReadSh
  \/ ReadListed \/ ReadSubject
  \/ QueryFails

Next ==
  \/ Outside
  \/ \E kind \in Kinds : \E arg \in ArgsOf(kind), visitor \in Visitors :
       Open(kind, arg, visitor)
  \/ Read \/ Render \/ Close

Spec == Init /\ [][Next]_vars

-----------------------------------------------------------------------------
(* Links *)

Link(kind, arg) == [kind |-> kind, arg |-> arg]
CommitLinks(commits) == {Link("commit", c) : c \in commits \ {None}}

\* nav_sections: the CI tab is for the authenticated.
Sections ==
  {Link("home", None), Link("tree", <<>>), Link("log", None)}
    \cup IF Authenticated THEN {Link("runs", None)} ELSE {}

\* build_tree_crumbs and build_file_crumbs, `parent_url` among them.
Crumbs == {Link("tree", SubSeq(req.arg, 1, n)) : n \in 0..Len(req.arg)}

\* Where the page of the repository leads, besides its sections.  The raw,
\* blame and history links of a file have no route and are left out.
BodyLinks ==
  CASE req.kind = "list" -> {}
    [] req.kind = "home" ->
         CommitLinks(ToSet(page.recent) \cup {page.head})
           \cup {Link("run", r.id) : r \in ToSet(IF Authenticated THEN page.runs ELSE <<>>)}
    [] req.kind = "tree" /\ page.entries # None ->
         Crumbs \cup CommitLinks(ToSet(page.recent))
           \cup {Link("tree", EntryPath(e.name)) : e \in ToSet(page.entries)}
    [] req.kind = "tree" /\ page.entries = None ->
         Crumbs \cup CommitLinks({page.last})
    [] req.kind = "log" -> CommitLinks(ToSet(page.recent))
    [] req.kind = "commit" -> CommitLinks({Parent[page.info]})
    [] req.kind = "runs" -> {Link("run", r.id) : r \in ToSet(page.runs)}
    [] req.kind = "run" -> {}

Links ==
  IF req.kind = "list" THEN IF page.listed THEN {Link("home", None)} ELSE {}
  ELSE Sections \cup BodyLinks

-----------------------------------------------------------------------------
(* Properties *)

\* Types; a page has no parts but those of its kind, and runs only for a
\* visitor who is allowed to see them.
TypeOK ==
  /\ head \in Commits \cup {None, Gone} /\ stored \subseteq Commits
  /\ head \in Commits => ToSet(Line[head]) \subseteq stored
  /\ runs \in Seq(RunRows) /\ Len(runs) <= MaxRuns
  /\ moves \in 0..MaxMoves
  /\ req.kind \in Kinds /\ req.arg \in ArgsOf(req.kind) /\ req.visitor \in Visitors
  /\ status \in {"idle", "reading", "ok", "not found", "unauthorized", "error"}
  /\ DOMAIN page \subseteq ToSet(Parts) \cup {"tried", "changes"}
  /\ DOMAIN page \cap {"runs", "run", "jobs", "sh"} # {} => req.visitor # "anonymous"
  /\ seen \in Seq(Commits \cup {None, Gone})
  /\ quiet \in BOOLEAN

\* The page shows what the repository holds, stated without git's commands:
\* entries are the names below the path, directories before files; an entry
\* has not changed since the commit beside it; a page is missing only where
\* nothing can be shown.  What the code cannot show as it is stands here as
\* an exception: what is not UTF-8, a name that ls-tree quotes, and a path
\* that git takes for a pattern.
UnchangedSince(c, h, p) ==
  \E n \in DOMAIN Line[h] :
    /\ Line[h][n] = c
    /\ \A k \in 1..n : Below(Line[h][k], p) = Below(h, p)
    /\ n < Len(Line[h]) => Below(Line[h][n + 1], p) # Below(h, p)

\* Something is below the path, or a file of text at it.
Showable(h, p) ==
  h \in Commits /\ \E q \in DOMAIN Tree[h] :
    IsStrictPrefix(p, q) \/ (q = p /\ Tree[h][q] \notin {Blank, Module, NotUtf8})

\* The commit beside the path can be named, and read.
ChangeIs(c, h, p, printed) ==
  UnchangedSince(c, h, p) /\ Garbled[c] \cap printed = {}
Datable(h, p) ==
  p \notin DOMAIN Pathspec /\ \E c \in Commits : ChangeIs(c, h, p, {"subject", "author"})

Viewable(h, p) ==
  Showable(h, p) /\ (p \in DOMAIN Tree[h] => Datable(h, p))

TrueListing(h, p, entries) ==
  /\ {e.name : e \in ToSet(entries)} =
       {PrintedName(q[Len(p) + 1]) : q \in {x \in DOMAIN Tree[h] : IsStrictPrefix(p, x)}}
  /\ \A i, k \in DOMAIN entries : i < k =>
       /\ entries[i].kind = "file" => entries[k].kind = "file"
       /\ (entries[i].kind = "file") = (entries[k].kind = "file")
            => entries[i].name < entries[k].name

TrueChange(c, h, p) ==
  \/ p \in DOMAIN Pathspec \/ Last(p) \in Quotes
  \/ c # None /\ ChangeIs(c, h, p, {"subject"})
  \/ c = None /\ \E d \in Commits : UnchangedSince(d, h, p) /\ "subject" \in Garbled[d]

TrueLog(h, log) ==
  IF h \in Commits
    THEN /\ IsPrefix(log, Line[h])
         /\ log = <<>> => \E c \in ToSet(Line[h]) : "subject" \in Garbled[c]
    ELSE log = <<>>

TruePage ==
  CASE req.kind = "tree" /\ page.entries # None ->
         /\ page.head = head /\ TrueListing(head, req.arg, page.entries)
         /\ \A i \in DOMAIN page.entries :
              TrueChange(page.changes[i], head, Append(req.arg, page.entries[i].name))
    [] req.kind = "tree" /\ page.entries = None ->
         /\ page.fileHead = head
         /\ page.text = Tree[head][req.arg] /\ page.raw = page.text
         /\ req.arg \in DOMAIN Pathspec
              \/ ChangeIs(page.last, head, req.arg, {"subject", "author"})
    [] req.kind = "home" ->
         /\ head \in Commits =>
              \/ page.head = head /\ page.mirrors = MirrorsOf[head]
              \/ page.head = None /\ "subject" \in Garbled[head]
         /\ \A i \in DOMAIN Candidates :
              Showable(head, <<Candidates[i]>>)
              /\ (\A k \in 1..i - 1 : ~Showable(head, <<Candidates[k]>>))
                => page.readme = Show(head, <<Candidates[i]>>)
         /\ TrueLog(head, page.recent)
    [] req.kind = "log" -> TrueLog(head, page.recent)
    [] req.kind = "commit" ->
         /\ page.info \in stored
         /\ page.patch = IF "patch" \in Garbled[page.info] THEN None ELSE page.info
    [] req.kind = "run" -> page.jobs = runs[req.arg].jobs /\ page.sh = runs[req.arg].sh
    [] OTHER -> TRUE

\* What a link leads to, if its text leads where it says.
HasPage(link) ==
  CASE link.kind = "tree" -> Viewable(head, link.arg)
    [] link.kind = "commit" ->
         link.arg \in stored
           /\ Garbled[link.arg] \cap {"subject", "author", "body"} = {}
    [] link.kind = "runs" -> req.visitor = "user"
    [] link.kind = "run" -> req.visitor = "user" /\ link.arg \in DOMAIN runs
    [] OTHER -> head # Gone

\* A path is put into a URL as it stands.
Reached(p) == IF p \in DOMAIN Followed THEN Followed[p] ELSE p

\* The links of the code that lead to no page, or to the page of something
\* else: the tree tab of a repository without files; a name that ls-tree
\* quotes; a path that is read as other than a path in a URL or by git; a file
\* that is not text; a commit of which not everything is UTF-8, and a file last
\* changed by one; and the CI tab for a visitor whose header is not readable.
Excepted(link) ==
  CASE link.kind = "tree" ->
         \/ Reached(link.arg) # link.arg
         \/ link.arg = <<>> /\ (head = None \/ (head \in Commits /\ DOMAIN Tree[head] = {}))
         \/ link.arg # <<>> /\ Last(link.arg) \in Quotes
         \/ head \in Commits /\ link.arg \in DOMAIN Tree[head]
              /\ (Tree[head][link.arg] \in {Blank, Module, NotUtf8}
                    \/ ~Datable(head, link.arg))
    [] link.kind = "commit" ->
         link.arg \in stored
           /\ Garbled[link.arg] \cap {"subject", "author", "body"} # {}
    [] OTHER -> link.kind \in Guarded /\ req.visitor = "unreadable"

\* Without a push, a removal or a write beside it, a page is true, its links
\* lead to pages, the excepted ones apart, and what can be shown is.
QuietPageIsTrue ==
  quiet =>
    /\ status = "ok" => TruePage /\ \A link \in Links : HasPage(link) \/ Excepted(link)
    /\ status = "not found" /\ req.kind = "tree" => ~Viewable(head, req.arg)

\* What is read by the hash of a commit belongs to that commit, whatever is
\* pushed meanwhile: the mirror links to the head on the home page, the patch
\* to the message on a commit page, if the name could be resolved at first.
PinnedPartsAgree ==
  status = "ok" =>
    /\ req.kind = "home" /\ page.head # None =>
         page.mirrors \in {MirrorsOf[page.head], {}}
    /\ req.kind = "commit" /\ page.id # HeadName =>
         page.info = page.id /\ page.patch \in {page.id, None}

\* HEAD denoted the head on the page at some moment, and at that moment or
\* later what it shows beside it was there.
NotBefore(shownHead, Of(_), value) ==
  \E i \in DOMAIN seen : \E k \in i..Len(seen) :
    HeadShown(seen[i]) = shownHead /\ Of(seen[k]) = value

\* A page may mix what it read before and after a push, but a tree, a file and
\* the home page show nothing older than the head they name.  The log page
\* reads its commits before its head: it shows none that is newer.  A path is
\* said not to be there only if it was no directory at some moment of the
\* request, and at some moment no file that could be shown.
PartsAreTimely ==
  /\ status = "ok" /\ req.kind = "tree" /\ page.entries # None =>
       /\ NotBefore(page.head, LAMBDA h : LsTree(h, req.arg), page.entries)
       /\ NotBefore(page.head, LAMBDA h : Recent(h, req.arg), page.recent)
       /\ \A i \in DOMAIN page.entries :
            NotBefore(page.head,
                      LAMBDA h : EntryChange(h, Append(req.arg, page.entries[i].name)),
                      page.changes[i])
  /\ status = "ok" /\ req.kind = "tree" /\ page.entries = None =>
       /\ NotBefore(page.fileHead, LAMBDA h : Show(h, req.arg), page.text)
       /\ NotBefore(page.fileHead, LAMBDA h : LastChange(h, req.arg), page.last)
       /\ NotBefore(page.fileHead, LAMBDA h : Show(h, req.arg), page.raw)
  /\ status = "ok" /\ req.kind = "home" =>
       NotBefore(page.head, LAMBDA h : Recent(h, <<>>), page.recent)
  /\ status = "ok" /\ req.kind = "log" =>
       \E i \in DOMAIN seen : \E k \in i..Len(seen) :
         Recent(seen[i], <<>>) = page.recent /\ HeadShown(seen[k]) = page.head
  /\ status = "not found" /\ req.kind = "tree" =>
       /\ \E i \in DOMAIN seen : ~(seen[i] \in Commits /\ IsDir(seen[i], req.arg))
       /\ \E i \in DOMAIN seen : ~Showable(seen[i], req.arg) \/ ~Datable(seen[i], req.arg)

Ended(x) == x.outcome \in Reported \cup Imposed

\* A page that shows how a run ended, other than by being superseded, shows
\* every job and command the run will ever have.
VerdictIsBacked ==
  status = "ok" /\ req.kind = "run" /\ Ended(page.run) =>
    page.jobs = runs[req.arg].jobs /\ page.sh = runs[req.arg].sh

-----------------------------------------------------------------------------
(* The inductive invariant of the last property and of PinnedPartsAgree *)

\* What was read of a run stays true of its row once that has ended.
RunPage ==
  req.kind = "run" =>
    /\ "run" \in DOMAIN page =>
         /\ req.arg \in DOMAIN runs
         /\ Ended(page.run) => Ended(runs[req.arg])
    /\ "jobs" \in DOMAIN page =>
         /\ "run" \in DOMAIN page
         /\ Ended(page.run) => page.jobs = runs[req.arg].jobs
    /\ "sh" \in DOMAIN page =>
         /\ "run" \in DOMAIN page
         /\ Ended(page.run) => page.sh = runs[req.arg].sh

\* What was read by a hash came after the hash, and belongs to it.
HomePage ==
  req.kind = "home" /\ "mirrors" \in DOMAIN page =>
    /\ "head" \in DOMAIN page
    /\ page.head # None => page.mirrors \in {MirrorsOf[page.head], {}}

CommitPage ==
  req.kind = "commit" =>
    /\ "info" \in DOMAIN page =>
         /\ "id" \in DOMAIN page
         /\ page.id # HeadName => page.info = page.id
    /\ "patch" \in DOMAIN page =>
         /\ "id" \in DOMAIN page
         /\ page.id # HeadName => page.patch \in {page.id, None}

IInv ==
  /\ runs \in Seq(RunRows)
  /\ status = "ok" => Complete
  /\ RunPage /\ HomePage /\ CommitPage
=============================================================================
