------------------------------- MODULE Secrets -------------------------------
(***************************************************************************)
(* The secrets of a run.  A job asks for a secret by name; quire-ci keeps  *)
(* a registry for the run, which asks the server once and remembers; the   *)
(* server reads the source that its configuration names, each request      *)
(* anew (the State of a handler is a clone of Quire, and a cloned          *)
(* SecretString forgets what it has read).  What the job's commands show   *)
(* and print is redacted with the values revealed so far.                  *)
(*                                                                         *)
(* Meanwhile the operator rewrites the files the secrets are read from,    *)
(* and the server dies and is started again, which reads its configuration *)
(* anew.  Runs follow one another, each with a registry of its own.        *)
(***************************************************************************)
EXTENDS Redaction

CONSTANTS
    Declared,     \* the names in the server's configuration
    Files,        \* those given by {:file ...}; the others are literals
    Contents,     \* what a source may hold
    Missing,      \* a file that cannot be read
    MinLength,    \* 8: a shorter value is not redacted
    Commands,     \* the command lines a script may compose
    Outputs       \* what a command may print: [stdout, stderr]

ASSUME DeclaredAssumption == Files \subseteq Declared /\ Declared \subseteq Names
ASSUME ContentsAssumption == /\ \A c \in Contents : c \in Seq(Chars)
                             /\ Missing \notin Contents
ASSUME MinLengthAssumption == MinLength \in Nat \ {0}
ASSUME TextsAssumption == /\ \A cmd \in Commands : cmd \in Seq(Chars)
                          /\ \A out \in Outputs :
                               out.stdout \in Seq(Chars) /\ out.stderr \in Seq(Chars)

VARIABLES
    up,         \* the server answers
    content,    \* what each declared source holds
    cache,      \* SecretRegistry.cache: a partial function from names
    revealed,   \* SecretRegistry.revealed: the values to redact
    pc,         \* "job": the script runs; "sh": it waits for a command; "done"
    shown,      \* what the last step recorded: the command line, the log files
    given,      \* history: the values the script was given, by name
    raw         \* history: what shown was before it was redacted

vars == <<up, content, cache, revealed, pc, shown, given, raw>>

Streams == {"stdout", "stderr"}
Nothing == [cmd |-> <<>>, stdout |-> <<>>, stderr |-> <<>>]
NoLogs == [cmd |-> <<>>, stdout |-> <<>>, stderr |-> <<>>]
NoSecrets == [n \in {} |-> <<>>]

Put(f, n, v) == [m \in DOMAIN f \cup {n} |-> IF m = n THEN v ELSE f[m]]

Init ==
    /\ up = TRUE
    /\ content \in [Declared -> Contents]
    /\ cache = NoSecrets
    /\ revealed = NoSecrets
    /\ pc = "job"
    /\ shown = NoLogs
    /\ given = [n \in Names |-> {}]
    /\ raw = Nothing

\* A step other than recording leaves nothing to look at.
Quiet == shown' = NoLogs /\ raw' = Nothing

-----------------------------------------------------------------------------
(* The operator and the server.                                            *)

\* The operator rewrites, removes or restores the file of a secret.
Rewrite(n, c) ==
    /\ n \in Files
    /\ content' = [content EXCEPT ![n] = c]
    /\ UNCHANGED <<up, cache, revealed, pc, given>>
    /\ Quiet

Die ==
    /\ up
    /\ up' = FALSE
    /\ UNCHANGED <<content, cache, revealed, pc, given>>
    /\ Quiet

\* The configuration is read again: its literals may have been edited.
Restart ==
    /\ ~up
    /\ up' = TRUE
    /\ \E c \in [Declared \ Files -> Contents] :
          content' = [n \in Declared |-> IF n \in Files THEN content[n] ELSE c[n]]
    /\ UNCHANGED <<cache, revealed, pc, given>>
    /\ Quiet

\* SecretString::reveal: one trailing newline of a file is not part of it.
Reveal(n) ==
    LET c == content[n]
    IN  IF n \in Files /\ c # <<>> /\ Last(c) = NewLine THEN Front(c) ELSE c

\* get_secret answers with a value; otherwise 404, an error status or no
\* answer at all.
Answers(n) == up /\ n \in Declared /\ content[n] # Missing

-----------------------------------------------------------------------------
(* The registry: SecretRegistry::resolve.                                  *)

\* Mutant of Remembered: a fetched value is not put into the cache.
Forgotten(n, v) == cache

\* The cache after v was fetched for n.
Remembered(n, v) == Put(cache, n, v)

\* The value is registered for redaction if it is long enough, and given to
\* the script.
Hand(n, v) ==
    /\ revealed' = IF Len(v) >= MinLength THEN Put(revealed, n, v) ELSE revealed
    /\ given' = [given EXCEPT ![n] = @ \cup {v}]

ResolveCached(n) ==
    /\ pc = "job"
    /\ n \in DOMAIN cache
    /\ Hand(n, cache[n])
    /\ UNCHANGED <<up, content, cache, pc>>
    /\ Quiet

ResolveFetched(n) ==
    /\ pc = "job"
    /\ n \notin DOMAIN cache
    /\ Answers(n)
    /\ cache' = Remembered(n, Reveal(n))
    /\ Hand(n, Reveal(n))
    /\ UNCHANGED <<up, content, pc>>
    /\ Quiet

\* An error is not remembered.  A script that does not catch it ends the run.
ResolveFails(n) ==
    /\ pc = "job"
    /\ n \notin DOMAIN cache
    /\ ~Answers(n)
    /\ pc' \in {"job", "done"}
    /\ UNCHANGED <<up, content, cache, revealed, given>>
    /\ Quiet

-----------------------------------------------------------------------------
(* Commands: Runtime::sh.                                                  *)

\* ShStarted carries the redacted command line.
StartSh(cmd) ==
    /\ pc = "job"
    /\ pc' = "sh"
    /\ raw' = [Nothing EXCEPT !.cmd = cmd]
    /\ shown' = [NoLogs EXCEPT !.cmd = Redact(cmd, revealed)]
    /\ UNCHANGED <<up, content, cache, revealed, given>>

\* The log file of the command.  The script itself gets the raw output.
FinishSh(out) ==
    /\ pc = "sh"
    /\ pc' = "job"
    /\ raw' = [Nothing EXCEPT !.stdout = out.stdout, !.stderr = out.stderr]
    /\ shown' = [cmd |-> <<>>,
                 stdout |-> Logged(out.stdout, revealed),
                 stderr |-> Logged(out.stderr, revealed)]
    /\ UNCHANGED <<up, content, cache, revealed, given>>

\* The command cannot be spawned: nothing is logged.
SpawnFails ==
    /\ pc = "sh"
    /\ pc' \in {"job", "done"}
    /\ UNCHANGED <<up, content, cache, revealed, given>>
    /\ Quiet

-----------------------------------------------------------------------------
(* Runs.                                                                   *)

EndRun ==
    /\ pc = "job"
    /\ pc' = "done"
    /\ UNCHANGED <<up, content, cache, revealed, given>>
    /\ Quiet

\* A quire-ci starts with SecretRegistry::new.
FreshRegistry == cache' = NoSecrets /\ revealed' = NoSecrets

NextRun ==
    /\ pc = "done"
    /\ pc' = "job"
    /\ FreshRegistry
    /\ given' = [n \in Names |-> {}]
    /\ UNCHANGED <<up, content>>
    /\ Quiet

Server == Die \/ Restart \/ \E n \in Declared, c \in Contents \cup {Missing} : Rewrite(n, c)
Script == \E n \in Names : ResolveCached(n) \/ ResolveFetched(n) \/ ResolveFails(n)
Command == \/ \E cmd \in Commands : StartSh(cmd)
           \/ \E out \in Outputs : FinishSh(out)
           \/ SpawnFails

Next == Server \/ Script \/ Command \/ EndRun \/ NextRun

Spec == Init /\ [][Next]_vars

-----------------------------------------------------------------------------
(* Properties.                                                             *)

\* Within a run a name stands for one value, whatever the operator does to the
\* file and however often the server is restarted meanwhile (the cache of
\* SecretRegistry::resolve): a job that logs in with a token and a later one
\* that uses it again cannot see two tokens.
OneValuePerRun == \A n \in Names : \A v, w \in given[n] : v = w

\* The values that must not be seen: those the script was given, if long enough.
Hidden == {v \in UNION {given[n] : n \in Names} : Len(v) >= MinLength}

\* The markers that stand for them.
Masks == {Marker(n) : n \in {m \in Names : \E v \in given[m] : Len(v) >= MinLength}}

\* In some text u and w overlap, w beginning within u.
Meets(u, w) ==
    \E i \in 1..Len(u) : \A j \in 1..Len(w) : i + j - 1 <= Len(u) => u[i + j - 1] = w[j]

Apart(u, w) == ~Meets(u, w) /\ ~Meets(w, u)

\* No marker in use can show v, or a part of it that other text completes.
Foreign(v) == \A mark \in Masks : Apart(v, mark)

Joined(lines) ==
    FlattenSeq([k \in DOMAIN lines |->
        IF k = Len(lines) THEN lines[k] ELSE Append(lines[k], NewLine)])

\* Nothing recorded after a value was given to the script shows it, unless a name
\* of a secret does: neither the command line in the events nor a line of the log
\* file of either stream, nor these lines one after another.  (Of a value that
\* spans lines the last is so only where write_cri_log cuts no Return off them,
\* after the redaction.)
NothingInClear ==
    \A v \in Hidden : Foreign(v) =>
        /\ ~Occurs(shown.cmd, v)
        /\ \A s \in Streams : \A k \in DOMAIN shown[s] : ~Occurs(shown[s][k], v)
        /\ \A s \in Streams :
             Foreign(<<Return>>) /\ ~Occurs(raw[s], <<Return>>) => ~Occurs(Joined(shown[s]), v)

-----------------------------------------------------------------------------
(* The inductive invariant.                                                *)

\* The script was given what the cache holds, and nothing else.
GivenIsCached ==
    /\ DOMAIN cache \subseteq Names
    /\ given = [n \in Names |-> IF n \in DOMAIN cache THEN {cache[n]} ELSE {}]

\* The redactor knows those of the values that are long enough, by their names.
RevealedIsCached ==
    revealed = [n \in {m \in DOMAIN cache : Len(cache[m]) >= MinLength} |-> cache[n]]

IInv == GivenIsCached /\ RevealedIsCached
=============================================================================
