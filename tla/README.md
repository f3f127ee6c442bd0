# A verification project for quire

quire is a small git forge: a server (`quire serve`) that accepts pushes to bare
repositories, runs CI for each pushed ref in a child process (`quire-ci`), mirrors
refs to other remotes and shows everything on a read-only web site. This directory
models the parts of it that are hard to test, checks the models with TLC and proves
the results that matter most with TLAPS.

    tlc -config MCRunStore_faults.cfg MCRunStore     # one file per run, see "Runs"
    tlc -config MCPipeline_graphs.cfg MCPipeline
    tlapm RunStore_proof.tla                         # one file per component, see "Proofs"

## Inventory

| Component | Source | State | Operations | Hard parts |
| --- | --- | --- | --- | --- |
| Run store | `ci/run.rs`, `migrations/`, `db.rs` | table `runs` (three nullable timestamps and an outcome per run, CHECKs), run directories | `create`, `cancel_existing`, `execute`, `resolve`, `reconcile_orphans` | several writers per row, one autocommitted statement at a time, clocks read before the statement |
| Push handler | `ci/mod.rs`, `bin/quire/server.rs` | one tokio task per connection | `trigger`, `run_ref` | tasks of one ref interleave, a task blocks its thread |
| Bootstrap endpoint | `quire/web/api.rs` | `dispatched_at` | `get_bootstrap`, `get_secret` | check-then-update, requests that outlive their client |
| Server lifetime | `bin/quire/server.rs` | event socket, listener task | bind, migrate, reconcile, listen, serve | death at any point, orphaned rows and processes |
| `quire-ci` | `quire-ci/src/main.rs` | `events.jsonl`, logs | bootstrap, compile, run jobs in order, finish | may time out, crash, outlive the server |
| Runtime | `quire-core/src/ci/runtime.rs`, `sink.rs`, `logs.rs` | current job, outputs | `sh`, `secret`, `jobs` | spawn failures leave unpaired events |
| Script host | `quire-core/src/fennel.rs`, `ci/registration.rs`, `ci/runtime.rs` | one Lua VM, the table of the primitives, what the script keeps | register, install, enter and leave jobs, uninstall | primitives kept and used at the wrong time |
| Event ingestion | `ci/run.rs` (`ingest_events`) | tables `jobs`, `sh` | two passes over the events | torn lines, keys and foreign keys, partial writes |
| Pipeline compiler | `quire-core/src/ci/pipeline.rs`, `registration.rs` | job graph | register, validate, sort, look up | cycles, reachability, order |
| Local runs | `bin/quire/commands/ci.rs`, `quire-ci/src/main.rs` | a database and a workspace in a temporary directory | `ci validate`, `ci run` | the developer goes on working |
| Mirror | `mirror.rs`, `commands/mirror.rs` | remote refs | one push per updated ref and remote | runs after CI, concurrent pushes of one ref, lost on a crash |
| Hook | `commands/hook.rs`, `quire-core/src/event.rs` | event socket | send one event per push | stale socket, pushes while the server restarts |
| Secrets | `quire-core/src/secret.rs` | registry of a run, sources | resolve, redact | rewritten sources, overlapping values, line breaks |
| Repositories | `quire/mod.rs`, `commands/repo.rs`, `commands/exec.rs` | bare repositories on disk | new, list, rm, git over ssh | concurrent sessions, groups, kills |
| Schema migrations | `db.rs`, `migrations/*.sql` | the schema and its rows | migrate at start | old rows against new CHECKs, foreign keys, a death in between |
| Web views | `quire/web/` | none | pages made of several reads | what changes between the reads; the i-th `sh` row belongs to the i-th log |
| Telemetry, errors | `telemetry.rs`, `error.rs` | none | logging | none (not modelled) |
| Development seed | `commands/dev.rs` | none | fills a database | none (not modelled) |

How they interact: git runs the *hook*, which writes one push event to the event
socket. The *listener* spawns a task for the connection, and that task is the *push
handler*: for every updated ref it supersedes the ref's previous runs in the *run
store*, inserts a row, checks the commit out, starts *quire-ci* and blocks until it
exits. quire-ci asks the *bootstrap endpoint* for its run, which marks the row
dispatched; it *compiles* the pipeline in a Lua VM (the *script host*), runs the
jobs, asks for *secrets* and appends events to a file. The handler *ingests* the
events, records the outcome, and then *mirrors* the refs of the event. When the
server starts it *migrates* the database and *reconciles* the rows a previous server
left unresolved. The *web views* read repositories and rows at any time; *local
runs* use the same compiler, executor and run store on a developer's machine.

What makes each correct:

- run store: an outcome is recorded once and never replaced, it is the one quire-ci
  earned, and every row gets one; restarts succeed on whatever is left;
- push handler: a run is superseded only by a push to its own ref; when pushes come
  one after the other, a ref has at most one live run;
- endpoint: no pipeline starts for a run that is already closed by a restart;
- executor and ingestion: the events pair up whatever fails, a row describes one
  command or job that really ended, and a verdict taken from the events stands
  beside complete tables and the right logs;
- compiler: nothing a script registers is dropped, a graph is refused exactly when
  it cannot be run, errors name the culprits, the order respects the inputs, and a
  job looks up its ancestors and nobody else;
- script host: a primitive works in run-fns only, and under the right job;
- local runs: what was checked is what is run, and the exit status is the row's;
- hook and mirror: what a hook has sent is handled unless the server dies, and
  remotes only move forward and never lag unnoticed;
- secrets: one value per name and run, and none in what is recorded;
- repositories: only `rm` removes, and only what it names;
- migrations: an upgrade never fails on data, and runs keep their meaning;
- web views: what a page shows belongs together as far as its reads can make it.

## Modules

| Module | What it is |
| --- | --- |
| `RunLifecycle` | abstract: a run is absent, queued, active, and ends with one outcome |
| `RunStore` | the table `runs` and everyone who writes it |
| `RunReport` | abstract: a run happens, ends, is shown, and is judged |
| `QuireCi` | the inside of one quire-ci process: jobs, commands, events, logs |
| `EventIngest` | `QuireCi` composed with the handler that replays its events into `jobs` and `sh` and picks the verdict |
| `JobDataflow` | abstract: a graph rooted in its source, of which a job runs once, after its inputs |
| `Pipeline` | registration, graph, validation, order and lookups |
| `PipelinePaths` | what its validation and lookups should say, told by the paths of the graph and the orders of its jobs |
| `ScriptHost` | `Pipeline` in its Lua VM, with the primitives a script can keep |
| `LocalRun` | `ScriptHost` in quire-ci processes, and the `quire ci` commands that start them |
| `PushDelivery` | hook, socket, server, tasks, mirror and remotes |
| `Redaction`, `Secrets` | pure redaction; registry, server and sources around it |
| `Masking` | what redaction should do to a text, told without an order of replacement |
| `Sorting` | sorting, as `Redaction` and `RepoTree` use it |
| `Repositories` | the commands on the directory of repositories |
| `Migrations` | releases, migrations and the rows they rewrite |
| `RepoTree`, `WebPages` | pure results of git commands; pages made of reads while the world moves |
| `RunStore_proof`, `EventIngest_proof`, `PushDelivery_proof`, `Secrets_proof`, `Repositories_proof`, `Migrations_proof`, `WebPages_proof` | theorems about these modules for all constants |
| `Pipeline_proof` | the same for `Pipeline`, and for `ScriptHost` and `LocalRun` which extend it |
| `MC...` | small instances of the above |

### RunStore and the code

A *run* is one updated ref of one push event and `Runs` is at the same time the set
of push handlers. Every SQL statement is one step, because `db::open` gives each
caller its own connection and none of them opens a transaction; what is read before
a statement stays in a variable of its own until the statement uses it.

| Model | Code |
| --- | --- |
| `row[r]` | the columns `created_at`, `dispatched_at`, `resolved_at`, `outcome` |
| `Checks`, `Passes`, `Write` | CHECK constraints; a statement that breaks one changes nothing and returns an error |
| `pc[r]`, `now[r]`, `todo[r]`, `verdict[r]` | a handler's position, its `Timestamp::now()`, `active_ids`, and the argument of `resolve` |
| `Accept` | `event_listener` spawns `handle_event_connection` |
| `NoPipeline`, `BeginCreate` | `run_ref_inner` finds no `.quire/ci.fnl`, or calls `Runs::create` |
| `SelectActive`, `CancelActive`, `ActiveCancelled`, `CancelQueued` | the statements of `cancel_existing` |
| `InsertRow`, `Launch`, `Judge`, `Resolve` | INSERT; `materialize_workspace` and the first half of `execute`; ingest, choice of the outcome and clock of `resolve`; its UPDATE |
| `ApiSelect`, `ApiStamp`, `ApiUpdate` | `verify_run_token` and the SELECT, clock and UPDATE of `get_bootstrap` |
| `GiveUp`, `Exit` | quire-ci without a bootstrap, and after any part of its pipeline |
| `Bind`, `Reconcile`, `Serve`, `Crash` | `server::run`, and the death of the process |
| `HandlerFails`, `ApiFails` | an error return before, between or after the statements |
| `Tick` | the wall clock, in milliseconds |

Abstractions: timestamps are small numbers; ids, tokens, shas and trace contexts are
not told apart; `created_at` is read and stored in one step, as nothing compares it
with an earlier reading. The refs of one push event are handlers of their own
although the code handles them one after the other, so the model has all of the
code's interleavings and more; the violation below needs single-ref pushes only.
`Threads` is the number of worker threads of the tokio runtime: a handler keeps one
from its first git command until it ends, and a request needs a free one to be
served. `earlier` and `settled` are history variables: the handlers accepted before
one, and those among them that had ended. `Run::dispatch` is reached only without an
API session, which `trigger` always has; it is part of `Execute` in `LocalRun`.

### QuireCi, EventIngest and the code

One run, from the start of its quire-ci to the verdict its handler asks `resolve`
for. `RunStore` takes over from there; it treats as a free choice what these modules
derive.

| Model | Code |
| --- | --- |
| `order` | `Pipeline::jobs()`: ids, in execution order |
| `file`, `torn`, `Emit` | complete lines of `events.jsonl`, an incomplete last one, `JsonlSink::emit` |
| `CreateFile`, `FailEarly`, `Compile`, `CompileFails` | `main` up to `run_pipeline`, and its first part |
| `StartJob`, `FinishJob`, `AfterJob`, `FinishRun`, `Exit` | the job loop and the end of the process |
| `StartSh`, `SpawnFails`, `FinishSh`, `WriteLog`, `LogFails` | `Runtime::sh` between its side effects |
| `recorded`, `logs`, `LogNumber` | `Runtime::outputs`, the files `sh-<n>.log`, their `n` |
| `Quit`, `Die` | `os.exit(0)` in the user's Lua; a kill, a panic or another exit |
| `openJob`, `openSh`, `outcome`, `k` | locals of `ingest_events`; one step per event and pass |
| `JobAccepted`, `ShAccepted` | primary keys, foreign key and CHECKs of the two tables |
| `Abandon`, `IngestFails` | any error of `ingest_events`, which `execute` turns into no outcome |
| `Verdict` | the tail of `execute` |
| `Position`, `ShownLog` | the page's join of rows and logs by position |

Abstractions: a command is a number, which stands for its text in its started event
and for its exit code in its finished event, so a row that mixes two commands is
noticed. The run-fn is any Lua: it may call `sh` or not, catch its errors or not,
return or raise. The clock never goes back. `calls`, `ended` and `unlogged` are
history variables.

### Pipeline, ScriptHost, LocalRun and the code

| Model | Code |
| --- | --- |
| `jobs`, `image`, `errors` | the registrations and diagnostics collected by `register` |
| `RegisterJob`, `RegisterImage`, `Refusals` | `ci.job` and `ci.image`, `Job::new`, `add_job` |
| `EvalFails`, `EndEval`, `Validate` | the three ways out of `compile` |
| `Resolved`, `Above`, `Component`, `IsCycle`, `Unreachable` | `build_graph` and `validate_post_graph` |
| `Start`, `Toposorts`, `Lookup` | `toposort`, `Runtime::new` with its views, `(jobs name)` |
| `JobSucceeds`, `JobFails` | one turn of the loop of `run_pipeline` |
| `vm`, `sink`, `app`, `cursor`, `table`, `filled` | the VM, its two pieces of app data, `current_job`, and the table in `package.loaded` |
| `Install`, `EnterJob`, `LeaveJob`, `Uninstall` | `RuntimeHandle::install`, `enter_job`, `leave_job`, the drop of the guard |
| `KeepTable`, `KeepFunction`, `CallPrimitive`, `RegisterLate` | what the script does with what it got hold of |
| `tip`, `rev`, `tree`, `row`, `report` | the commit `@` or a name stands for, `CommitRef::sha`, the workspace, the run of the temporary database, the exit status |
| `Resolve`, `Check`, `Create`, `Materialize`, `Execute`, `Finish` | the stages of `quire ci run` |
| `ReadHead`, `Compiles`, `Runs`, `EmitOutcome`, `Return`, `Break` | the quire-ci process that it starts, or that somebody starts by hand |

petgraph's traversals are modelled by what they return: `Above` is the set a
breadth-first search of the reversed graph ends with, a strongly connected component
a class of mutually reachable jobs, and `toposort` any topological order. Names are
told apart only as reserved (with a slash) or not. In `ScriptHost` a script can keep
tables and functions and call them at any moment at which Lua code runs, `__gc`
metamethods included. In `LocalRun` the compile that `quire ci` does itself appears
only by its verdict, since it is another run of `Pipeline`; `Break` (`os.exit` or a
kill) is explored, within an evaluation, only before the first call, as nothing of
what a script registered outlives it.

### PushDelivery and the code

| Model | Code |
| --- | --- |
| `Start`, `Bind`, `Listen`, `Die` | `server::run`: remove a stale socket, bind, migrate and reconcile, accept; the end of the process |
| `Push`, `CheckSocket`, `Connect`, `WriteEvent`, `HookDies` | git's update of the refs, and `post_receive` between its system calls |
| `Accept`, `ReadEvent`, `RunCi`, `Finish` | `event_listener`, `handle_event_connection`, `ci::trigger`, the loop of `mirror::trigger` |
| `ReadConfig`, `ConfigFails`, `ConfigHidden` | the three ends of `Mirror::new` and `repo_config`: the remotes of the commit, an error that is logged, and a `git cat-file -e` that failed and is taken for "no config" |
| `BeginPush`, `EndPush`, `PushFails`, `PushBreaks`, `Taken` | `push_all`, `push_remote`, and `git push` by what it does |
| `ManualPush`, `ManualFails`, `ManualDone` | `quire mirror push` |

A push makes one commit and is its name; `below` holds its ancestors. A forced push
gives a commit that does not descend from the one it replaces. What was reported is
in `missed`, a task that dies with its server is `dropped`, and the history variable
`hidden` has the refs whose config was taken for absent, of which the code keeps no
record. That the repository is removed between the event and the mirroring, which
`mirror::trigger` logs, is left out.

### Redaction, Secrets, Repositories, Migrations and the code

`Redaction` is pure: `Redact` replaces the values, longest first and then by name,
as `SecretRegistry::entries` sorts them; `Lines` is `str::lines`, which takes a
carriage return before the line feed off the line as well; `Logged` is the
composition that `Runtime::sh` and `write_cri_log` make. Texts, values, names and
markers are sequences of characters. A marker, once it is in the text, is text like
any other, and the values that come later are searched in it too: if `db` stands for
`password` and `db-password` for something longer, `{{ db-password }}` becomes
`{{ db-{{ db }} }}`.
`Secrets` has the registry (`cache`, `revealed`), the answers of `get_secret` (each
request clones `Quire`, and a cloned `SecretString` reads its file anew), the
operator who rewrites files or restarts the server, commands and their output, and
run after run.

`Repositories` takes names as sequences of segments. `New`, `MakeParent`,
`InitDirectory`, `InitFill` are `repo new` (the directory of the group, then `git
init` in two steps), `Rm`, `RmContents`, `RmDirectory`, `Tidy` are `repo rm`
(`remove_dir_all` in two steps, then the group), `Serve` is git over ssh, `Listed`
what `repo list` walks, and `Kill` ends a session between any two steps.

`Migrations` has one operator per schema (`RunChecks`, `JobChecks`), the rebuilds of
0007, 0009 and 0010 (`NewRun`, `NewJob`, `WithoutRuns`, `WithoutJobs`), one step per
migration inside a transaction, and servers of any release that write whatever their
CHECKs let pass, but that a failure kind is given to failed runs only.

### RepoTree, WebPages and the code

`RepoTree` says what the handlers make of the output of git for a given HEAD:
`LsTree`, `Recent`, `EntryChange`, `LastChange`, `Show`, `Size`, `Mode`. `WebPages`
has one request. `Parts` is the order in which the handler of the page reads; each
part is one step (`Read...`), and between any two of them a push may move HEAD, `rm`
and `new` may take the repository away and make it again, and a run may be created,
dispatched, ingested or resolved (`Outside`). `Authenticated` is the check at the
start, `Links` what the finished page links to.

What git prints and what the handlers make of it are not always what a tree holds:

| Model | Code |
| --- | --- |
| `NotUtf8` in `Show`, `Said` with `Garbled` | `RepoView::run` gives None for output that is not UTF-8 (`git.rs:24`), be it a file, a patch or the formatted lines of a commit |
| `PrintedName`, `Quotes` | `ls-tree` without `-z` quotes special names, and the quoted text is taken as the name (`tree.rs:146`) |
| `Held`, `Touches`, `Log` | `git log -- <path>` reads the path as a pathspec (`tree.rs:189`); `Pathspec` has the paths that are patterns |
| `Reached` with `Followed` | names go into URLs as they are (`templates.rs:462`), so a name with `#`, `?` or `%` leads elsewhere |

Change ids and relative ages belong to a commit and are left out; histories are linear;
one job and one command stand for any number. Names in a tree are taken to be UTF-8.
`run` trims what git prints, so a file is shown without the white space around its
text, which is not told apart. Paths that are asked for in another spelling (a slash at
the end or doubled, `..`) and a git that fails without a cause in the repository are
left out. A link is taken to be good up to the name of its repository; in one with
`#`, `?` or `%` every link is broken in the same way.

## Runs

| Run | Instance | States | Shows |
| --- | --- | --- | --- |
| `faults` | two pushes to one ref, 3 threads, 1 tick, 1 fault, 1 crash | 0.76 M | `VerdictIsEarned`, `RestartIsNeverRefused`, `CancelSettlesFinished`, `OutcomeIsFinal`, `OrphansHaveNoHandler`, `OrphansNeverStart`, `ImplementsLifecycle`, `NothingLeftOpen` |
| `live` | two pushes to one ref, 2 threads, 1 tick, 1 crash, fairness | 0.12 M | `EveryRunResolves` |
| `report` | up to two jobs, 3 commands, 3 clock readings, 2 faults | 3.6 M | `StreamPairsUp`, `RowsAreReal`, `VerdictMatchesJobs`, `VerdictShowsEverything`, `LogsMatchRows`, `ImplementsReport` |
| `graphs` | three ids, one reserved one, 3 calls, 2 commits; all four commands | 1.1 M | `NothingDropped`, `RefusedIffUnrunnable`, `ErrorsNameCulprits`, `ViewsMatchPaths`, `PrimitivesFollowJobs`, `CheckedIsRun`, `ExitMatchesRow`, `ImplementsDataflow` |
| `delivery` | two pushes, a branch and a tag, one remote, 1 fault, fairness | 0.48 M | `NoSilentLag`, `RemotesMoveForward`, `HookFindsServer`, `SentIsHandled` |
| `secrets` | two secrets of five contents, three commands, texts of up to six characters | 0.10 M | `OneValuePerRun`, `NothingInClear`, `MasksWholeValues` |
| `repos` | two sessions, nine names | 1.4 M | `TypeOK`, `OnlyNamedRemoved` |
| `upgrade` | one run, job and command, five releases, 2 times, 1 death | 0.34 M | `TypeOK`, `UpgradeIsNeverRefused`, `RunsKeepMeaning` |
| `pages` | four commits, four paths, two runs, 2 moves, every page and visitor | 1.0 M | `TypeOK`, `QuietPageIsTrue`, `PinnedPartsAgree`, `PartsAreTimely`, `VerdictIsBacked` |

`CHECK_DEADLOCK FALSE` in `faults`, `live`, `report`, `graphs` and `delivery`, and
in the violations of the same modules: once every push is handled and the clock and
the faults are used up, or the one run or command is over, the system rests.
Secrets, repositories, migrations and pages go on for ever and are checked for
deadlock.

Bounds of `faults` and `live`. Everything in these properties is about a row, its
own handler, endpoint and quire-ci, and at most one other handler, so two handlers
show every kind of interaction. That handlers of different refs leave each other
alone is proved (`SupersededByRef`). One tick is enough to put any two readings of
the clock in either order, one fault to fail any single step, one crash to cut any
state and restart from it. With two ticks the `faults` run has 4.5 million states
and shows the same. With two threads two handlers can block the endpoint; with three
they cannot.

Bounds of `report`. What a row is built from is the events of one job, and what can
be confused is a command with its predecessor, a job with its predecessor and a
number with the one before: two jobs and three commands, of which one may not spawn
and another not be logged. Three readings of the clock let all three commands start
at different times, which the success of a run needs, or any two together. Two
faults give every pair of failures, as a lost log and a later kill. The pipelines
are the built-in job alone, with one job and with two.

Bounds of `graphs`. Three calls give every graph of up to three jobs beside
`quire/push` with any inputs, self-loops, cycles of two and three, dangling and
reserved names included; every rule of registration can be broken by a call before or
after another. More calls change nothing: a script with an error never gets a graph,
`ci.image` does not touch it, and what could be confused in a graph is a job with an
ancestor at distance one or more. `RefusedIffUnrunnable`, `ErrorsNameCulprits` and
`ViewsMatchPaths` compare with definitions in `PipelinePaths` that count the edges of
paths and try every order. The three ids are symmetric. Two commits are enough to
notice that what is run is not what was checked.

Bounds of `delivery`. A mirror push can be overtaken by that of one other task or of
the operator; the second ref shows that a failure of one does not end the loop for
the other. With two remotes the model has 17 million states; its safety properties
hold there too.

Bounds of `secrets`. The five contents give values that are equal, contain one
another, overlap, span lines, end in newlines, run into the end of a marker (`b}`) or
are shorter than `MinLength` (2 here, 8 in the code). The longest name spells a value
(`ab`), so that a marker may contain one. Outputs are all texts of up to three
characters and some longer ones chosen for these values, with line feeds alone and
with carriage returns before them.

Bounds of `repos`. Two sessions on every shape of name: with and without suffix,
grouped, nested in another repository, too deep and reserved.

Bounds of `upgrade`. Releases 1, 6, 7, 9 and 11 stand for all: a release between two
of them has the data of the one before. Rows do not interact but by their keys, and
one of each table has all of them.

Bounds of `pages`. The repository has a renamed README, a file that becomes a
directory, a blank file, a submodule, a directory with a file named like one of the
root, and a commit that removed the last file. Of what git cannot print as it is, it
has a file that is not UTF-8, commits whose subject, author and body, or patch are
not, a name that `ls-tree` quotes, and a path that is a pattern for git and is cut
short in a URL. Two moves put one change before and one after any read. Logs are cut at
two rows and the home page at one run, which two runs exceed.

Fairness of `live`: weak fairness of every task the runtime has a thread for, of the
timeout of quire-ci's HTTP client (30 s by default in `reqwest::blocking`), of the
end of a pipeline, and of starting the server, which `docs/CI.md` leaves to "a
supervisor that restarts it". Nothing is assumed about pushes, the clock or crashes.
A pipeline that never ends leaves its run active for ever, as in the code. Without
faults every row then gets an outcome, also when the handlers block all the threads
their children need an answer from: the timeout resolves that wait. The one
exception is `StampedLate`: a bootstrap served after the handler read the clock
makes `resolve` break a CHECK, although `docs/CI-STATE.md:59` says that `execute`
resolves when quire-ci exits; that there is no other is `NothingLeftOpen`, which is
proved. With faults it is false by design of the code: when a run directory, a
workspace or the process cannot be created, the row stays open until the next push to
its ref or the next restart (`HandlerFails` in `Launch`).

Fairness of `delivery`: hooks run to their end, the supervisor starts the server,
tasks get a thread, and pipelines and `git push` end. No fairness of pushes, deaths,
failures or the operator.

Three runs show where the code does something else than the repository says; each
checks one property and TLC finds it violated.

| Run | The repository | The code |
| --- | --- | --- |
| `one_live` | `run.rs:61`: create "cancels any existing queued or active run for the same `(repo, ref)`" | two handlers cancel before either inserts: two live runs |
| `same_ms` | `run.rs:322`: "Exit 0: RunFinished determines the pipeline outcome", `CI-STATE.md:184`: ingest failures "never demote the run's own outcome" | two commands of a job that start in one millisecond share a primary key; the ingest fails and success becomes `failed-internal` |
| `lost_jobs` | `0009_rename_ci_vocab.sql:4`: "jobs: complete → succeeded" | foreign keys are on while `runs` is dropped, so every row of `jobs` and `sh` is deleted by cascade |

Each passing property has a mutant: an operator defined before the one it replaces,
named in its comment as the mutant, and used nowhere else.

### Other places where code and text differ

These are in the models, as the code has them; no property asks for the contrary.

Runs and ingest:

- `CI-STATE.md:57`, "A push event arrives and a `runs` row is inserted": `create`
  reads the clock first; a row that another handler inserts later breaks a CHECK
  when it is stamped with that reading, and `create` fails (`CancelActive`).
- `CI-STATE.md:89`, superseded "when a newer push" arrives: handlers of a ref run in
  any order, since `server.rs:103` spawns a task per connection, although
  `CI-STATE.md:213` says "one push at a time".
- `run.rs:300`, "partial results from a crashed run are still useful in the UI": a
  job that did not finish has no row, so its finished commands violate their foreign
  key.
- `handlers/ci.rs:71`, "positional index matches launch order": a command whose log
  was not written has a row but no number, and the later logs of its job move up one
  row (the exception in `LogsMatchRows`).
- The state diagram of `CI-STATE.md` has no step from queued to `failed-internal`;
  the code has it (quire-ci ends without a bootstrap), and so has `RunLifecycle`.
- A superseded run's quire-ci is not stopped (`run.rs:128`), and one incomplete line
  fails the parse of all of `events.jsonl` (`run.rs:356`).

Compiler, host and local runs:

- `CI-FENNEL.md:300`: each input is a job id or a source ref. An input that names
  neither gets no edge and no error.
- `CI-FENNEL.md:74` and `:205`: access outside a run-fn raises. Only `jobs` does;
  `sh` and `secret`, called from a finalizer between two jobs, work and are not
  recorded. The module `quire.runtime` of `CI-FENNEL.md:222` does not exist.
- `ci/mod.rs:57` promises `Ok(None)` for a commit without `ci.fnl`; when the working
  copy has one, git words its error differently and the command fails
  (`NoPipeline`).
- `quire-ci run --local` tells the script the commit and ref of HEAD
  (`main.rs:111`); in a colocated jj repository that is the parent of `@`, not the
  commit that runs.
- `quire ci run` exits with 0 and prints "Run complete." after a failed pipeline,
  and never shows the output of `sh`, which goes to `--out-dir` (`ci.rs:40` speaks
  of a combined log). A revision given by name is looked up anew by each git
  command.
- The branch of `run_pipeline` for a pipeline without jobs (`main.rs:519`) is dead,
  since `quire/push` is always one.

Delivery, secrets, repositories:

- `ARCHITECTURE.md:130`: "When the server isn't running, the hook prints a warning".
  With a stale socket it fails (`Connect`); the clean-up of the socket at the end of
  `server::run` is not reached.
- `mirror.rs:3`, "independent of CI": mirroring waits for the CI of all refs of the
  event in the same task. Deleted refs are never mirrored.
- `ARCHITECTURE.md:125`, "mirror failures are logged", and `quire/mod.rs:195`,
  `repo_config` "Returns defaults if the file does not exist at that commit": it does so
  whenever `git cat-file -e` exits with anything but 0. A git that is killed, or cannot
  read the repository, leaves the mirrors behind with nothing in the log
  (`ConfigHidden`, the exception of `NoSilentLag`), and `quire mirror push` then says
  that no mirrors are configured (`ManualFails`).
- `secret.rs:305`, "Longest values are replaced first to prevent partial matches". Two
  cases are left. A value may be spelled by a name in a marker, or overlap the border of
  one: a shorter value is then replaced inside the marker, and a longer one, whose turn
  is over, stays (the exception `Foreign`). And `write_cri_log` cuts the carriage return
  off a line only after the redaction, so a value of several lines that a command
  prints with CRLF is not found, and is then logged as the lines it has (the exception
  of `NothingInClear` for the lines taken together).
- `docs/config.md:84`, secrets are "cached for the lifetime of the parsed value":
  `Quire` is cloned for each request, so the server reads the file anew;
  `OneValuePerRun` rests on quire-ci's registry alone. `secret.rs:158`, the fetcher
  is called at most once per name: errors are not cached.
- The error of a command that cannot be spawned shows the program unredacted, and
  output printed before a secret was resolved stays as it is.
- Two `repo new` of one name can both report success. `foo.git/bar.git` is a valid
  name, so the group `foo.git` is listed as a repository and `rm foo.git` takes what
  is nested in it. A `new` that is killed leaves a directory that blocks the name
  until it is removed. The rows of a removed repository stay.

Web views:

- These links lead to no page, or to that of something else (`Excepted`): the tree tab
  of a repository without files (never pushed to, or emptied); entries that are
  submodules, blank files or files that are not UTF-8; entries whose names `ls-tree`
  quotes; names with `#`, `?` or `%`, which go into URLs un-encoded; a commit whose
  subject, author or body is not UTF-8, a file last changed by one whose subject or
  author is not, and one whose path git takes for a pattern, which may select nothing; and
  the CI tab for a user whose header is not readable. `/raw`, `/blame` and
  `/log/<path>` have no route, and the links of grouped repositories do not match one.
- These things are shown other than they are (`TruePage`): a quoted name, and no last
  change beside it; the last change of a path that is a pattern; an empty patch for
  one that is not UTF-8; an empty log when one of its subjects is not UTF-8, and no
  head on the home page when that of the head is not.
- An unborn HEAD is shown as the commit `HEAD`; a commit page whose name cannot be
  resolved goes on with the name (the exception in `PinnedPartsAgree`).
- Pages may mix the commits before and after a push (`PartsAreTimely` says how far):
  what a tree, a file and the home page show is never older than the head they name,
  but the log page reads its commits before its head and may show an old log beside a
  new head. A README that is renamed meanwhile may be missed.
- The extractor of the user accepts any `Remote-User`, while the guard of the CI
  pages wants visible ASCII (`Visitors`).

## Proofs

Eight modules prove what the runs check on small instances for every value of the
constants. In each, `Invariance` is `Spec => []IInv` for an inductive invariant that
the component's module states (in `Pipeline_proof` it stands in the proof itself), and
the other theorems follow from it. Every `IInv` was checked with TLC on the instance
of its run before it was proved.

| Module | Theorem | Property | Says |
| --- | --- | --- | --- |
| `RunStore_proof` | `TypeCorrect` | | types |
| | `VerdictsEarned` | `VerdictIsEarned` | `succeeded` and `failed-pipeline` are recorded only for a dispatched run whose quire-ci exited 0 after reporting that |
| | `RestartNeverRefused` | `RestartIsNeverRefused` | no row a dead server leaves behind can break a CHECK of `reconcile_orphans` |
| | `OutcomesFinal` | `OutcomeIsFinal` | no writer replaces a recorded outcome or `resolved_at` |
| | `LifecycleImplemented` | `ImplementsLifecycle` | `RunStore` implements `RunLifecycle` under `Stage` |
| | `OrphansStayOut` | `OrphansNeverStart` | no quire-ci gets the bootstrap of a run closed by reconciliation |
| | `HandlersKeepRuns` | `OrphansHaveNoHandler` | reconciliation never closes a run whose handler still works on it |
| | `SupersededByRef` | | a run is superseded only by another handler of its own ref |
| | `PushesSettle` | `CancelSettlesFinished` | a push ends every run of its ref whose handler had finished when it arrived |
| | `NothingIsLeftOpen` | `NothingLeftOpen` | unless something failed, a run without a handler has its outcome, but for a late stamp |
| `Pipeline_proof` | `TypeCorrect` | | types |
| | `NothingIsDropped` | `NothingDropped` | a pipeline has one job per `ci.job` call and the one image |
| | `ReadsFollowRuns` | | when a job is entered, its inputs and all that it may look up have run |
| | `RunsAsDataflow` | `ImplementsDataflow` | `Pipeline` implements `JobDataflow` |
| | `HostsRunPipelines` | | the processes of `LocalRun` implement `Pipeline`: `LocalSpec => Spec` |
| | `NothingIsDroppedHere`, `HostsRunDataflow` | `NothingDropped`, `ImplementsDataflow` | so the same holds of them |
| | `PrimitivesStay` | `PrimitivesFollowJobs` | a kept primitive works under the job that runs, and outside of run-fns not at all |
| | `CheckedIsWhatRuns` | `CheckedIsRun` | without a revision, `quire ci run` runs and records the commit it has checked |
| | `ExitIsTrue` | `ExitMatchesRow` | its exit status agrees with the row and with what quire-ci reported |
| | `RefusedIsUnrunnable` | `RefusedIffUnrunnable` | a graph is refused exactly when its jobs cannot all be run, one after the other and from a push |
| | `CulpritsAreNamed` | `ErrorsNameCulprits` | the errors name the jobs of each cycle together, each other job that no push leads to, and nobody else |
| | `ViewsArePaths` | `ViewsMatchPaths` | `(jobs name)` answers for the jobs that a path leads from to the caller |
| | `HostsJudgeByPaths` | | the processes of `LocalRun` do the same |
| `EventIngest_proof` | `TypeCorrect` | | types |
| | `StreamIsPaired` | `StreamPairsUp` | the lines of the event file pair up as its readers assume |
| | `RowsReal` | `RowsAreReal` | each row is one job or command that ran, with its own times and exit code |
| | `EverythingShown` | `VerdictShowsEverything` | a run with quire-ci's verdict shows all of them |
| | `VerdictTrue` | `VerdictMatchesJobs` | the verdict is what the jobs did |
| | `LogsBesideRows` | `LogsMatchRows` | the page shows a command with its own log, up to the first that was lost |
| | `ReportImplemented` | `ImplementsReport` | the two together implement `RunReport` |
| `PushDelivery_proof` | `NothingLags` | `NoSilentLag` | once the task of the newest push is over, each mirror has it or the failure was reported, or the look-up of its config failed |
| | `RemotesFollow` | `RemotesMoveForward` | a ref of a mirror moves only forward along the repository's history |
| | `HooksAreHeard` | `HookFindsServer` | a hook warns or fails only while no server has bound its socket |
| `Secrets_proof` | `OneValue` | `OneValuePerRun` | within a run a name stands for one value |
| | `RedactorKnows` | | the values that are redacted are exactly those given to the script that are long enough |
| | `NoSecretIsShown` | `NothingInClear` | nothing recorded after a value was given shows it, for texts, names and values of any length, if no marker in use overlaps it; for the lines of a log taken together, if no carriage return was printed |
| | `ValuesAreMasked` | `MasksWholeValues` | if no marker in use overlaps a value, replacing value after value, markers included, masks each outermost occurrence as a whole, and nothing else |
| `Repositories_proof` | `TreeStays` | `TypeOK` | side by side or killed, sessions leave a tree of valid names |
| | `OnlyRmRemoves` | `OnlyNamedRemoved` | a repository goes only by an `rm` that names it or the one it is nested in |
| `Migrations_proof` | `TypeCorrect` | `TypeOK` | types and the CHECKs of each schema |
| | `NeverRefused` | `UpgradeIsNeverRefused` | `migrate` refuses a file only if a later release has been there |
| | `MeaningsKept` | `RunsKeepMeaning` | no run is lost and each reads as what was last written about it |
| `WebPages_proof` | `VerdictBacked` | `VerdictIsBacked` | a run page with a verdict shows every job and command the run will ever have |
| | `PinnedAgree` | `PinnedPartsAgree` | what is read by a commit's hash belongs to that commit |
| | `PageInvariance` | | what is in a page is what the handlers made of git's output at a moment of the request, and what is stored has its parents stored |
| | `TypesHold` | `TypeOK` | types; no page has parts of another kind, and no visitor without a name sees a run |
| | `PartsTimely` | `PartsAreTimely` | a tree, a file and the home page show nothing older than the head they name, the log page nothing newer; a path is reported missing only if it was no directory at some moment and no file that can be shown at some moment |
| | `QuietIsTrue` | `QuietPageIsTrue` | a page beside which nothing happened is true of the repository and its links lead to pages, but for what is not UTF-8, quoted, a pattern or no URL path; nothing that can be shown is reported missing |

### Assumptions

All are named in the module that declares the constant, and TLC evaluates them in the
runs. They are of three kinds.

- NULL and other placeholders are none of the values they stand beside:
  `NullAssumption` (`RunStore`, `QuireCi`, `ScriptHost`, `Migrations`, `PushDelivery`),
  `OutcomeAssumption`, `EventAssumption`, `VerdictAssumption`, `WordsAssumption`
  (`Migrations`, `LocalRun`), `FirstAssumption`, `FlightAssumption`,
  `OutcomesAssumption`, `OperatorAssumption`, `NoneAssumption`. These only keep values of the model
  apart that the code's types keep apart.
- Bounds are natural numbers (`BoundsAssumption`, `CallsAssumption`, ...).
- Facts of the code and of git about the constants: `quire/push` is a reserved name and
  no name is both (`NamesAssumption` of `Pipeline`); a pipeline lists each job once
  (`PipelinesAssumption`); the configuration of a commit lists remotes
  (`ConfigsAssumption`); releases have the migrations 1 to 11 (`ReleasesAssumption`); a
  name of a repository is a non-empty sequence of segments whose last one ends in `.git`
  or can be given that ending, and no segment is both (`RawNamesAssumption`,
  `DotGitAssumption`); texts, values and commands are finite sequences of characters,
  and names of secrets have an order (`TextsAssumption`, `ContentsAssumption`,
  `NamesAssumption` of `Redaction`); a marker is not empty (`MarkerAssumption`), and a
  line feed is no carriage return (`LineEndAssumption`); what `ls-tree` prints for two
  names in a repository differs (`PrintedAssumption`), and the parts of a commit that
  may not be UTF-8 are the four that the handlers print (`GarbledAssumption`); no commit
  is its own ancestor and every history has a first commit (`HistoryAssumption`); a
  commit has finitely many files, none of which lies below another one
  (`TreeAssumption`); there is a README name to try and a log shows a row at least
  (`RowsAssumption`); paths in requests are sequences of segments (`NamesAssumption` of
  `WebPages`).

Nothing is assumed about which refs pushes update, what scripts register, what
configurations list, how many threads there are, or how the steps of processes,
handlers, sessions, operators and deaths interleave.

### Arguments

`RunStore`. `VerdictIsEarned` depends on what a handler is about to write, and that on
what quire-ci reported and on the row having been dispatched (`VerdictsKnown`). Whether
a CHECK lets a statement pass depends on no column or clock reading lying in the future
(`NoFutureTimes`) and on the CHECKs holding so far (`RowsConsistent`). That a statement
changes no run that does not exist depends on who has a row at all
(`RowsHaveHandlers`), and that reconciliation meets no one at work and is not undone by
a late request on the server being quiet until then (`StartsQuiet`). Their conjunction
`IInv` is inductive. The proof first says what each writing statement does to the table
(`*Writes`: it fills columns that were NULL, or a CHECK refuses it), then that such
writes keep `IInv` (`*Inv`), and reduces every other step to the handler variables.
`OutcomesFinal` and `LifecycleImplemented` follow from `RowSteps`, which lists the five
ways a step can change the table. `SupersededByRef` needs one more invariant, `OwnRef`:
what the SELECT of the active runs returned is still of the handler's ref when the
UPDATEs come. `PushesSettle` needs two: `SettledRuns` follows the list of a cancelling
handler (a finished run is in it as long as it is active, and cannot become active once
the list was made), and for that `NobodyAsks`: of a queued run without a handler no
quire-ci is about to ask for the bootstrap. `NothingIsLeftOpen` needs
`RequestsAreFirst`: a request under way has found its row undispatched, and as long as
that row is open it still is, so a stamped row is not stamped again; and `resolve` reads
the clock after the row was made, so only a later stamp can make a CHECK refuse its
verdict (`RefusedVerdict`).

`Pipeline`. As long as there is no error the number of calls equals what is registered;
an accepted pipeline has no structure errors; and the order in use is a topological
order of the graph, with the cursor inside it while jobs run. That whatever a job reads
has run follows from `Above` being the least closed set: what stands before the cursor
is closed under inputs (`DoneClosed`, `SearchStays`). That an accepted graph is rooted,
which the abstract specification asks for, follows from the absence of structure errors
(`SoundGraphsAreRooted`). For the refinement each action is one lemma (`*Refines`):
`Validate` is `Accept`, `JobSucceeds` is `Run`, `JobFails` is `Stop`, and the rest
stutters.

`LocalRun`. `HostInv` says how far the VM and the pipeline can be apart and what is in
the VM then: one table, filled exactly as long as the runtime is installed. With it
every step of a host is a step of `Pipeline` or leaves it alone (`HostRefines`), and
all theorems about `Pipeline` carry over. `PrimitivesStay` also uses that every job may
ask for the push (`JobsSeePush`). `OneCommit` is that a command without a revision
keeps the commit it looked up once, `WireIsTrue` that the outcome on the wire is the
end the pipeline came to, and both give the row and the exit status.

`EventIngest`. Half of `IInv` is about the process: it goes through the jobs in order
(`JobsInOrder`), a line says of the stream what the next one depends on
(`StreamSoFar`), what happened is what the lines say and nothing else
(`StreamIsComplete`), commands are numbered in the order of their starts and events
(`CommandsInOrder`), and as long as each log of a job could be written their numbers
count its commands (`LogsInOrder`). The other half is about the handler at line `k` of
either pass: what started and has not finished is open, and the rows are those of the
lines before `k` (`FirstPass`, `SecondPassOK`); an outcome survives only complete
tables (`JudgedComplete`). `LogsBesideRows` needs in addition that the position of a
row in the order of the page is the number of its command: rows sort by time, logs by
number, and `CallsInOrder` relates them.

`PushDelivery`. `NoSilentLag` is not inductive: while a mirror push is in flight the
remote may be behind. `Delivered` says where the newest commit of a ref is on its way to
a remote: not yet read, still to be pushed, in flight as this very commit, there,
reported, or not looked for because the config was hidden. It stays true when other
tasks and the operator push older commits, because nothing was made on top of the newest
one (`History`) and a push that is not a fast-forward changes nothing. `Conversation`
ties a task to what its hook has sent, and `SocketBound` a running server to its socket.

`Secrets`. Everything the registry hands out is a function of its cache: what was given
(`GivenIsCached`) and what is redacted (`RevealedIsCached`).

`Repositories`. `TypeOK` itself is inductive once names are sequences of segments; the
work is in lemmas on prefixes (a directory that stays has its parents) for each step,
a session that is killed between two of them included.

`Migrations`. One lemma per rebuild says that it takes rows its old schema allows to
rows the new one allows, with the same meaning. `Written` says what the
tables hold at each version: rows that its schema allows, no kind of failure on a run
that has not failed. The open transaction carries the same
facts about its own copy (`Transaction`), so that a death on the way loses nothing.

`WebPages`. A part that is read later agrees with what was read before: rows of a run
that has ended do not change (`RunPage`, `RowsStay`), the home page reads its mirrors
by the head it shows (`HomePage`), a commit page its patch by the hash (`CommitPage`).
The order of the parts matters and is used as `Order`.

For what a page shows, `Fine` says of each part that it was so at one of the moments in
`seen`, and of the head beside it that it was read at that moment or before (`Since`);
since `seen` only grows (`LaterSince`), the claim stands once it is made, and each read
adds one about the last moment (`SeenNow`, `TreeGets`). The log page reads the other way
round and has a claim of its own (`LogFine`, `LogBefore`); a page that is not found
missed a directory at one moment and a file at one (`Missed`). While nothing happens there is
one moment only, and `QuietFine` says that the page is what the commands would say now.
What remains for `QuietIsTrue` is what git and the handlers compute: `Lines` (a line is
a chain of parents), `Logged` and `ChangedLast` (the first commit of a log of a path is
where the path got what it holds), `SaidLast` and `NoLastChange` (it is printed unless
it is garbled, and `OneChange`: there is only one), `Listing` (a listing has each name
once as it is printed, directories first, `PrintedApart`). `TreeLeads` and `OthersLead`
go through the links: what none of the exceptions covers has its page. The exception
for a head without files was found here: a commit that removes the last file leaves the
tree tab as dead as in a repository without commits.

`Pipeline` and its paths. The reference definitions count edges (`Joined`), the model
of the code uses the least closed set. Both are the same because each further edge adds
a job to what paths reach, or nothing is left to add (`WithinFills`), so that the number
of jobs is enough edges (`PathsAreSearches`). A graph without cycles can be listed in an
order that suits it, since any set of its jobs has one that is no other's input and can
go last (`SomeJobIsLast`, `AcyclicIsListable`).

`Secrets` and its texts. A replacement leaves no occurrence of its value
(`ReplaceHides`). It makes up none of another value that is apart from its marker: what
is new in the text lies in a marker or touches one, and an occurrence there would begin
in a marker or run into it (`MatchAtMark`, `MatchBehindMark`, `Clear`). So after all
entries no given value is left that is apart from all markers, whatever the later
replacements did inside the markers of the earlier ones (`RedactHides`). Every line is
a part of the text (`LinesAreParts`), so cutting brings no value back into one line; put
together again the lines are the text only where no return was cut off (`JoinedLines`).
`ValuesAreMasked` goes through the entries: an occurrence of the next value is either
outermost, or inside one of a longer value, which came earlier and is masked already
(`MaskStep`); nothing is found in the markers, as no value meets one.

Induction. The induction theorems of the library take an operator as a parameter, which
the provers cannot instantiate. The proofs use sets instead: a set of numbers that has
zero, and the next of each of its members, has all (`NumberInduction`, from the fact
that a non-empty set of numbers has a smallest, `LeastNumber`), and a set of commits
that has each one whose parent it has is all of them (`FromRoots`). That a recursive
function such as `Line` satisfies its equation is proved from its definition by
`CHOOSE`, by gluing together the solutions on smaller sets.

### Checked with TLC only

Liveness: `EveryRunResolves` and `SentIsHandled`. Every other property of a passing run
is the subject of a theorem above. Sorting is a definition of the project (`Sorting`)
because that of the community modules rests on `SortSeq`, which has none that a proof
could expand; that Rust's `sort_by` and git's output are as modelled is not proved.

## Not modelled

- The Fennel compiler, the Lua interpreter and the conversion of values between Lua
  and Rust; `load_config` but for its outcome.
- A clock that is stepped back: `reconcile_orphans`, and the INSERTs of `jobs`,
  could then break a CHECK.
- Telemetry, error types, static assets, templates' wording, `quire exec quire ...`
  (it starts the commands of `Repositories` in a new process), the development seed.
- Credentials in the URLs of remotes.
- Merge histories, change ids and ages on the pages.
- Whether tokio's scheduler finds a runnable task on a blocked thread's own queue: a
  task is taken to run whenever some thread is free.

## Plan

Everything the inventory calls modelled is done, and what the runs check is proved but
for liveness. What is left:

1. `PushDelivery` with a remote that somebody else pushes to, which would make
   `RemotesMoveForward` a statement about the non-forced push only.
2. Merge histories in `RepoTree`: `Line` would become the order of `git log`.
