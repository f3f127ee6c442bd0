----------------------------- MODULE PushDelivery -----------------------------
(***************************************************************************)
(* The way of a push from the repository to the mirrors: git runs the      *)
(* post-receive hook (quire-server/src/bin/quire/commands/hook.rs), which  *)
(* sends one line over the event socket; the server                        *)
(* (quire-server/src/bin/quire/server.rs) handles each connection in a     *)
(* task of its own, CI first and then the mirror                           *)
(* (quire-server/src/mirror.rs).  An operator may also push a ref to its   *)
(* mirrors by hand (commands/mirror.rs).                                   *)
(*                                                                         *)
(* A push makes one commit and is its name.  What CI does meanwhile is     *)
(* RunStore's subject; here it only takes its time.  `git push` is         *)
(* modelled by what it does: it reads the local and the remote ref, and    *)
(* the remote takes the new value if it descends from the one that was     *)
(* read and the ref still has that one.                                    *)
(***************************************************************************)
EXTENDS Naturals, FiniteSets

CONSTANTS
  Pushes,
  Refs,
  RefsOf,     \* the refs a push is about
  Remotes,
  Configs,    \* sets of remotes that a commit may list as its mirrors
  Operator,   \* the process of `quire mirror push`
  Null,
  MaxFaults   \* bound on deaths of the server, killed hooks and failed pushes

ASSUME RefsOfAssumption == RefsOf \in [Pushes -> SUBSET Refs]
ASSUME ConfigsAssumption == Configs \subseteq SUBSET Remotes
ASSUME OperatorAssumption == Operator \notin Pushes
ASSUME NullAssumption == Null \notin Pushes
ASSUME FaultsAssumption == MaxFaults \in Nat

VARIABLES
  srv,       \* where server::run is
  socket,    \* the socket file: absent, left by a dead server, or listening
  hook,      \* where the hook of each push is
  sent,      \* what the hook has put on its connection
  task,      \* what became of the connection
  updated,   \* refs of the push that are no deletions
  listed,    \* the mirrors in the config of the pushed commit
  head,      \* the refs of the repository
  below,     \* ancestors of the commit of a push, on each ref
  remote,    \* the refs of the remotes
  unread,    \* Mirror::new still has to read the config for these refs
  todo,      \* pushes to remotes that are still to be done
  flight,    \* the running `git push`
  missed,    \* history: failures that were logged or returned
  hidden,    \* history: refs whose config was taken for absent, in silence
  faults

serverVars == <<srv, socket>>
hookVars == <<hook, sent>>
repoVars == <<updated, listed, head, below>>
mirrorVars == <<remote, unread, todo, flight, missed, hidden>>
vars == <<serverVars, hookVars, task, repoVars, mirrorVars, faults>>

Actors == Pushes \cup {Operator}
Target == [ref : Refs, remote : Remotes]
Flight == [target : Target, from : Pushes \cup {Null}, to : Pushes \cup {Null}]
ASSUME FlightAssumption == Null \notin Flight

Init ==
  /\ srv = "down"
  /\ socket = "absent"
  /\ hook = [p \in Pushes |-> "idle"]
  /\ sent = [p \in Pushes |-> "nothing"]
  /\ task = [a \in Actors |-> "none"]
  /\ updated = [p \in Pushes |-> {}]
  /\ listed = [p \in Pushes |-> {}]
  /\ head = [r \in Refs |-> Null]
  /\ below = [p \in Pushes |-> [r \in Refs |-> {}]]
  /\ remote = [m \in Remotes |-> [r \in Refs |-> Null]]
  /\ unread = [a \in Actors |-> {}]
  /\ todo = [a \in Actors |-> {}]
  /\ flight = [a \in Actors |-> Null]
  /\ missed = {}
  /\ hidden = {}
  /\ faults = 0

Fault == faults < MaxFaults /\ faults' = faults + 1

-----------------------------------------------------------------------------
(* The server *)

\* A new server removes the socket of a previous one.
Start ==
  /\ srv = "down"
  /\ srv' = "starting"
  /\ socket' = "absent"
  /\ UNCHANGED <<hookVars, task, repoVars, mirrorVars, faults>>

\* Mutant of Bind: the socket is cleaned up after it was bound.
BindThenRemove ==
  /\ srv = "starting"
  /\ srv' = "bound"
  /\ socket' = "absent"
  /\ UNCHANGED <<hookVars, task, repoVars, mirrorVars, faults>>

\* Connections queue up from now on.
Bind ==
  /\ srv = "starting"
  /\ srv' = "bound"
  /\ socket' = "listening"
  /\ UNCHANGED <<hookVars, task, repoVars, mirrorVars, faults>>

\* The database is migrated and reconciled, the listener runs.
Listen ==
  /\ srv = "bound"
  /\ srv' = "up"
  /\ UNCHANGED <<socket, hookVars, task, repoVars, mirrorVars, faults>>

\* The process ends, by a kill or an error of its start.  Its socket stays, its
\* connections and tasks do not; a `git push` they started goes on.
Die ==
  /\ srv # "down"
  /\ Fault
  /\ srv' = "down"
  /\ socket' = IF socket = "listening" THEN "stale" ELSE socket
  /\ task' = [a \in Actors |->
       IF a # Operator /\ task[a] \in {"backlog", "reading", "ci", "mirror"}
       THEN "dropped" ELSE task[a]]
  /\ unread' = [a \in Actors |-> IF task'[a] = "dropped" THEN {} ELSE unread[a]]
  /\ todo' = [a \in Actors |-> IF task'[a] = "dropped" THEN {} ELSE todo[a]]
  /\ UNCHANGED <<hookVars, repoVars, remote, flight, missed, hidden>>

-----------------------------------------------------------------------------
(* The push and its hook *)

\* git updates the refs, with commits that descend from what was there or
\* rewrite it, and deletes others.
Push(p, rewritten, deleted, mirrors) ==
  /\ hook[p] = "idle"
  /\ \A r \in rewritten \cup deleted : head[r] # Null
  /\ updated' = [updated EXCEPT ![p] = RefsOf[p] \ deleted]
  /\ listed' = [listed EXCEPT ![p] = mirrors]
  /\ head' = [r \in Refs |-> CASE r \in deleted             -> Null
                               [] r \in RefsOf[p] \ deleted -> p
                               [] OTHER                     -> head[r]]
  /\ below' = [below EXCEPT ![p] = [r \in Refs |->
       IF r \in rewritten \/ head[r] = Null THEN {} ELSE below[head[r]][r] \cup {head[r]}]]
  /\ hook' = [hook EXCEPT ![p] = "started"]
  /\ UNCHANGED <<serverVars, sent, task, mirrorVars, faults>>

\* has_updates, and the look for the socket.
CheckSocket(p) ==
  /\ hook[p] = "started"
  /\ hook' = [hook EXCEPT ![p] =
       CASE updated[p] = {}                           -> "silent"
         [] updated[p] # {} /\ socket = "absent"      -> "warned"
         [] OTHER                                     -> "connecting"]
  /\ UNCHANGED <<serverVars, sent, task, repoVars, mirrorVars, faults>>

\* A socket nobody listens on, or that was removed meanwhile, is an error.
Connect(p) ==
  /\ hook[p] = "connecting"
  /\ IF socket = "listening"
       THEN /\ hook' = [hook EXCEPT ![p] = "writing"]
            /\ task' = [task EXCEPT ![p] = "backlog"]
       ELSE hook' = [hook EXCEPT ![p] = "failed"] /\ UNCHANGED task
  /\ UNCHANGED <<serverVars, sent, repoVars, mirrorVars, faults>>

\* The kernel keeps the line until somebody reads it.
WriteEvent(p) ==
  /\ hook[p] = "writing"
  /\ IF task[p] = "dropped"
       THEN hook' = [hook EXCEPT ![p] = "failed"] /\ UNCHANGED sent
       ELSE /\ hook' = [hook EXCEPT ![p] = "sent"]
            /\ sent' = [sent EXCEPT ![p] = "line"]
  /\ UNCHANGED <<serverVars, task, repoVars, mirrorVars, faults>>

\* The hook is killed: its connection ends early.
HookDies(p) ==
  /\ hook[p] \in {"started", "connecting", "writing"}
  /\ Fault
  /\ hook' = [hook EXCEPT ![p] = "killed"]
  /\ sent' = [sent EXCEPT ![p] = "cut"]
  /\ UNCHANGED <<serverVars, task, repoVars, mirrorVars>>

Hook(p) == CheckSocket(p) \/ Connect(p) \/ WriteEvent(p)

-----------------------------------------------------------------------------
(* The task of a connection *)

\* Mutant of Accept: the listener stops after its first connection.
AcceptOnce(p) ==
  /\ srv = "up"
  /\ task[p] = "backlog"
  /\ \A q \in Pushes \ {p} : task[q] \in {"none", "backlog"}
  /\ task' = [task EXCEPT ![p] = "reading"]
  /\ UNCHANGED <<serverVars, hookVars, repoVars, mirrorVars, faults>>

\* event_listener
Accept(p) ==
  /\ srv = "up"
  /\ task[p] = "backlog"
  /\ task' = [task EXCEPT ![p] = "reading"]
  /\ UNCHANGED <<serverVars, hookVars, repoVars, mirrorVars, faults>>

\* Part of a line does not parse, and no line at all is ignored.
ReadEvent(p) ==
  /\ task[p] = "reading"
  /\ \/ sent[p] = "line" /\ task' = [task EXCEPT ![p] = "ci"]
     \/ sent[p] = "cut" /\ task' = [task EXCEPT ![p] = "over"]
  /\ UNCHANGED <<serverVars, hookVars, repoVars, mirrorVars, faults>>

\* ci::trigger returns when the pipelines of all updated refs are over.
RunCi(p) ==
  /\ task[p] = "ci"
  /\ task' = [task EXCEPT ![p] = "mirror"]
  /\ unread' = [unread EXCEPT ![p] = updated[p]]
  /\ UNCHANGED <<serverVars, hookVars, repoVars, remote, todo, flight, missed, hidden, faults>>

\* Nothing of the ref before is left to do: the loops are nested.
Ready(a) == task[a] = "mirror" /\ todo[a] = {} /\ flight[a] = Null

\* Mirror::new reads the config of the pushed commit.
ReadConfig(p, r) ==
  /\ Ready(p)
  /\ r \in unread[p]
  /\ unread' = [unread EXCEPT ![p] = @ \ {r}]
  /\ todo' = [todo EXCEPT ![p] = [ref : {r}, remote : listed[p]]]
  /\ UNCHANGED <<serverVars, hookVars, task, repoVars, remote, flight, missed, hidden,
                 faults>>

Miss(a, targets) == missed' = missed \cup [by : {a}, target : targets]

\* Mutant of ConfigFails: the error ends the loop.
ConfigFailsAll(p, r) ==
  /\ Ready(p)
  /\ r \in unread[p]
  /\ Fault
  /\ unread' = [unread EXCEPT ![p] = {}]
  /\ Miss(p, [ref : {r}, remote : Remotes])
  /\ UNCHANGED <<serverVars, hookVars, task, repoVars, remote, todo, flight, hidden>>

\* git cannot be run, or the config is no valid one: the loop goes on with the
\* next ref.
ConfigFails(p, r) ==
  /\ Ready(p)
  /\ r \in unread[p]
  /\ Fault
  /\ unread' = [unread EXCEPT ![p] = @ \ {r}]
  /\ Miss(p, [ref : {r}, remote : Remotes])
  /\ UNCHANGED <<serverVars, hookVars, task, repoVars, remote, todo, flight, hidden>>

\* `git cat-file -e` fails for another reason than that there is no such file:
\* repo_config takes it for a commit without a config, which lists no mirrors.
ConfigHidden(p, r) ==
  /\ Ready(p)
  /\ r \in unread[p]
  /\ Fault
  /\ unread' = [unread EXCEPT ![p] = @ \ {r}]
  /\ hidden' = hidden \cup {<<p, r>>}
  /\ UNCHANGED <<serverVars, hookVars, task, repoVars, remote, todo, flight, missed>>

Finish(p) ==
  /\ Ready(p)
  /\ unread[p] = {}
  /\ task' = [task EXCEPT ![p] = "over"]
  /\ UNCHANGED <<serverVars, hookVars, repoVars, mirrorVars, faults>>

-----------------------------------------------------------------------------
(* Pushing to remotes *)

\* mirror::push_ref: a ref that does not exist is an error, otherwise the
\* config of its commit says where to push it.
ManualPush(r) ==
  /\ task[Operator] = "none"
  /\ IF head[r] = Null
       THEN task' = [task EXCEPT ![Operator] = "over"] /\ UNCHANGED todo
       ELSE /\ task' = [task EXCEPT ![Operator] = "mirror"]
            /\ todo' = [todo EXCEPT ![Operator] = [ref : {r}, remote : listed[head[r]]]]
  /\ UNCHANGED <<serverVars, hookVars, repoVars, remote, unread, flight, missed, hidden,
                 faults>>

\* A ref or a config that cannot be read is an error, or (where git hides the
\* config) ends with `no mirrors configured`.
ManualFails ==
  /\ task[Operator] = "none"
  /\ Fault
  /\ task' = [task EXCEPT ![Operator] = "over"]
  /\ UNCHANGED <<serverVars, hookVars, repoVars, mirrorVars>>

\* push_remote: `git push` reads both refs.
BeginPush(a, t) ==
  /\ flight[a] = Null
  /\ t \in todo[a]
  /\ todo' = [todo EXCEPT ![a] = @ \ {t}]
  /\ flight' = [flight EXCEPT ![a] = [target |-> t, from |-> remote[t.remote][t.ref],
                                      to |-> head[t.ref]]]
  /\ UNCHANGED <<serverVars, hookVars, task, repoVars, remote, unread, missed, hidden,
                 faults>>

\* No such secret, or git cannot be run: push_all goes on with the others.
PushFails(a, t) ==
  /\ flight[a] = Null
  /\ t \in todo[a]
  /\ Fault
  /\ todo' = [todo EXCEPT ![a] = @ \ {t}]
  /\ Miss(a, {t})
  /\ UNCHANGED <<serverVars, hookVars, task, repoVars, remote, unread, flight, hidden>>

\* Mutant of Taken: a forced push.
TakenByForce(f) ==
  f.to # Null /\ remote[f.target.remote][f.target.ref] = f.from

\* The remote still has what git read, and the new commit descends from it.
Taken(f) ==
  /\ f.to # Null
  /\ remote[f.target.remote][f.target.ref] = f.from
  /\ f.from \in {Null, f.to} \cup below[f.to][f.target.ref]

Land(a) == flight' = [flight EXCEPT ![a] = Null]
Update(f) == remote' = [remote EXCEPT ![f.target.remote][f.target.ref] = f.to]

\* A failure is reported if there is still somebody to report it.
Report(a) ==
  IF task[a] = "mirror" THEN Miss(a, {flight[a].target}) ELSE UNCHANGED missed

EndPush(a) ==
  /\ flight[a] # Null
  /\ Land(a)
  /\ IF Taken(flight[a])
       THEN Update(flight[a]) /\ UNCHANGED missed
       ELSE Report(a) /\ UNCHANGED remote
  /\ UNCHANGED <<serverVars, hookVars, task, repoVars, unread, todo, hidden, faults>>

\* The connection to the remote breaks, before or after the update.
PushBreaks(a) ==
  /\ flight[a] # Null
  /\ Fault
  /\ Land(a)
  /\ \/ Taken(flight[a]) /\ Update(flight[a])
     \/ UNCHANGED remote
  /\ Report(a)
  /\ UNCHANGED <<serverVars, hookVars, task, repoVars, unread, todo, hidden>>

ManualDone ==
  /\ Ready(Operator)
  /\ task' = [task EXCEPT ![Operator] = "over"]
  /\ UNCHANGED <<serverVars, hookVars, repoVars, mirrorVars, faults>>

-----------------------------------------------------------------------------
Startup == Start \/ Bind \/ Listen
Handle(p) ==
  \/ Accept(p) \/ ReadEvent(p) \/ RunCi(p)
  \/ \E r \in Refs : ReadConfig(p, r)
  \/ Finish(p)
Transfer(a) == EndPush(a) \/ \E t \in Target : BeginPush(a, t)

Next ==
  \/ Startup \/ Die
  \/ \E p \in Pushes :
       \/ \E rewritten \in SUBSET RefsOf[p], deleted \in SUBSET RefsOf[p],
            mirrors \in Configs : Push(p, rewritten, deleted, mirrors)
       \/ Hook(p) \/ HookDies(p)
       \/ Handle(p)
       \/ \E r \in Refs : ConfigFails(p, r) \/ ConfigHidden(p, r)
  \/ \E r \in Refs : ManualPush(r)
  \/ ManualFails \/ ManualDone
  \/ \E a \in Actors :
       \/ Transfer(a)
       \/ PushBreaks(a)
       \/ \E t \in Target : PushFails(a, t)

Spec == Init /\ [][Next]_vars

\* Hooks run, a supervisor starts the server, tasks get a thread, pipelines
\* and `git push` end.
Fairness ==
  /\ WF_vars(Startup)
  /\ \A p \in Pushes : WF_vars(Hook(p)) /\ WF_vars(Handle(p))
  /\ \A a \in Actors : WF_vars(Transfer(a))

FairSpec == Spec /\ Fairness

-----------------------------------------------------------------------------
(* Properties *)

\* The newest commit of a ref, and what became of it on its way to a mirror.
Reported(p, r, m) == [by |-> p, target |-> [ref |-> r, remote |-> m]] \in missed
Settled(p, r, m) ==
  head[r] = p /\ hook[p] = "sent" /\ task[p] = "over" /\ m \in listed[p]

\* A mirror lags for a reason that is on record: once the task of the newest push
\* to a ref is over, every remote its commit lists has that commit, or the
\* failure was logged; pushes and mirrors of other tasks that ran meanwhile, in
\* whatever order, and failures of other refs do not matter (trigger and
\* push_remote, which push the ref's current value, in tasks nothing orders).
\* The one failure the code tells nobody about is the exception: the look-up of
\* this very config failed and was taken for its absence (repo_config).
NoSilentLag ==
  \A p \in Pushes, r \in Refs, m \in Remotes :
    Settled(p, r, m) =>
      remote[m][r] = p \/ Reported(p, r, m) \/ <<p, r>> \in hidden

\* A ref of a remote only moves along the history of the repository, to a commit
\* that the repository had and that descends from the one it replaces (the non-
\* force push of push_remote).
RemotesMoveForward ==
  [][\A m \in Remotes, r \in Refs :
       remote'[m][r] # remote[m][r] =>
         /\ remote'[m][r] \in Pushes
         /\ r \in updated[remote'[m][r]]
         /\ remote[m][r] \in {Null} \cup below[remote'[m][r]][r]]_vars

\* A hook finds a server that has bound its socket, also while it starts after a
\* crash: it warns or fails only while there is none (the order of server::run:
\* remove, bind, and only then the slow rest; the order of post_receive).
HookFindsServer ==
  [][\A p \in Pushes :
       hook[p] \in {"started", "connecting"} /\ hook'[p] \in {"warned", "failed"} =>
         srv \in {"down", "starting"}]_vars

\* An event that a hook has sent is handled to the end, its mirrors included,
\* unless the server dies first, also when it was sent before the listener ran.
SentIsHandled ==
  \A p \in Pushes : hook[p] = "sent" ~> task[p] \in {"over", "dropped"}

-----------------------------------------------------------------------------
(* The inductive invariant *)

HookStates == {"idle", "started", "silent", "warned", "connecting", "failed", "writing",
               "sent", "killed"}
TaskStates == {"none", "backlog", "reading", "ci", "mirror", "over", "dropped"}

TypeOK ==
  /\ srv \in {"down", "starting", "bound", "up"}
  /\ socket \in {"absent", "stale", "listening"}
  /\ hook \in [Pushes -> HookStates]
  /\ sent \in [Pushes -> {"nothing", "line", "cut"}]
  /\ task \in [Actors -> TaskStates]
  /\ updated \in [Pushes -> SUBSET Refs] /\ listed \in [Pushes -> SUBSET Remotes]
  /\ head \in [Refs -> Pushes \cup {Null}]
  /\ below \in [Pushes -> [Refs -> SUBSET Pushes]]
  /\ remote \in [Remotes -> [Refs -> Pushes \cup {Null}]]
  /\ unread \in [Actors -> SUBSET Refs] /\ todo \in [Actors -> SUBSET Target]
  /\ flight \in [Actors -> Flight \cup {Null}]
  /\ missed \subseteq [by : Actors, target : Target]
  /\ hidden \subseteq Pushes \X Refs
  /\ faults \in 0..MaxFaults

\* A server that has bound its socket keeps it.
SocketBound == srv \in {"bound", "up"} => socket = "listening"

\* How far the hook and the task of its connection can be apart.
Conversation(p) ==
  /\ sent[p] = "line" <=> hook[p] = "sent"
  /\ sent[p] = "cut" <=> hook[p] = "killed"
  /\ hook[p] = "idle" => task[p] = "none"
  /\ task[p] \in {"ci", "mirror"} => hook[p] = "sent"
  /\ task[p] = "over" => hook[p] \in {"sent", "killed"}

\* The commit of a push that has set the ref.
Made(c, r) == c \in Pushes /\ hook[c] # "idle" /\ r \in updated[c]

\* Commits come from pushes, and nothing was made on top of the newest one.
History ==
  /\ \A r \in Refs : head[r] # Null => Made(head[r], r)
  /\ \A a \in Actors :
       flight[a] # Null /\ flight[a].to # Null => Made(flight[a].to, flight[a].target.ref)
  /\ \A c \in Pushes, r \in Refs : \A d \in below[c][r] : hook[d] # "idle"
  /\ \A c \in Pushes, r \in Refs : Made(c, r) => head[r] \notin below[c][r]

\* The task has yet to push the ref there, or is pushing this very commit.
Underway(p, r, m) ==
  \/ r \in unread[p]
  \/ [ref |-> r, remote |-> m] \in todo[p]
  \/ /\ flight[p] # Null /\ flight[p].to = p
     /\ flight[p].target = [ref |-> r, remote |-> m]

\* What becomes of the newest commit on its way to a mirror.
Delivered(p, r, m) ==
  head[r] = p /\ hook[p] = "sent" /\ task[p] \in {"mirror", "over"} /\ m \in listed[p] =>
    \/ remote[m][r] = p
    \/ Reported(p, r, m)
    \/ <<p, r>> \in hidden
    \/ task[p] = "mirror" /\ Underway(p, r, m)

IInv ==
  /\ TypeOK
  /\ SocketBound
  /\ \A p \in Pushes : Conversation(p)
  /\ History
  /\ \A p \in Pushes, r \in Refs, m \in Remotes : Delivered(p, r, m)
=============================================================================
