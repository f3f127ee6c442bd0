-------------------------- MODULE EventIngest_proof --------------------------
(* Proofs about EventIngest, for any pipelines, commands, faults and clock. *)
EXTENDS EventIngest, FiniteSetTheorems, TLAPS

USE NullAssumption, EventAssumption, VerdictAssumption, BoundsAssumption

-----------------------------------------------------------------------------
(* Pipelines and the stream *)

\* A pipeline lists jobs, each once, and quire/push first.
LEMMA OrderFacts ==
  ASSUME order \in Pipelines
  PROVE  /\ Len(order) \in Nat \ {0} /\ DOMAIN order = 1..Len(order)
         /\ \A i \in DOMAIN order : order[i] \in Jobs
         /\ \A i, j \in DOMAIN order : order[i] = order[j] => i = j
<1>1. /\ order \in Seq({order[i] : i \in DOMAIN order}) /\ order # <<>>
      /\ \A i, j \in DOMAIN order : order[i] = order[j] => i = j
  BY PipelinesAssumption
<1>2. Len(order) \in Nat /\ DOMAIN order = 1..Len(order)
  BY <1>1
<1>3. Len(order) # 0
  BY <1>1
<1>4. \A i \in DOMAIN order : order[i] \in Jobs
  BY DEF Jobs
<1> QED
  BY <1>1, <1>2, <1>3, <1>4

\* JsonlSink::emit adds one line and leaves the others.
LEMMA EmitLine ==
  ASSUME file \in Seq(Event), clock \in 0..MaxClock,
         NEW kind \in EventKinds, NEW job \in Jobs \cup {Null},
         NEW cmd \in 1..MaxCalls \cup {Null},
         NEW result \in JobOutcomes \cup RunOutcomes \cup {Null},
         Emit(kind, job, cmd, result)
  PROVE  /\ file' \in Seq(Event) /\ Len(file') = Len(file) + 1
         /\ \A i \in DOMAIN file : file'[i] = file[i]
         /\ file'[Len(file')] = [at |-> clock, kind |-> kind, job |-> job, cmd |-> cmd,
                                 outcome |-> result]
<1> DEFINE e == [at |-> clock, kind |-> kind, job |-> job, cmd |-> cmd, outcome |-> result]
<1>1. e \in Event
  BY DEF Event
<1>2. file' = Append(file, e)
  BY DEF Emit
<1> HIDE DEF e
<1>3. file' \in Seq(Event) /\ Len(file') = Len(file) + 1
  BY <1>1, <1>2
<1>4. \A i \in DOMAIN file : file'[i] = file[i]
  BY <1>1, <1>2
<1>5. file'[Len(file')] = e
  BY <1>1, <1>2, <1>3
<1> QED
  BY <1>3, <1>4, <1>5 DEF e

\* While the process runs it has a stream and a current job.
LEMMA Running ==
  ASSUME TypeOK, JobsInOrder, StreamSoFar
  PROVE  /\ order \in Pipelines /\ at \in 1..Len(order)
         /\ Current \in Jobs /\ Current # Null
         /\ clock \in 0..MaxClock /\ clock \in Nat
         /\ pc \notin {"start", "exited"} => file \in Seq(Event) /\ Streaming
<1>1. at \in 1..Len(order) /\ order \in Pipelines
  BY OrderFacts DEF TypeOK, JobsInOrder
<1>2. order[at] \in Jobs
  BY <1>1, OrderFacts
<1>3. clock \in Nat
  BY DEF TypeOK
<1> QED
  BY <1>1, <1>2, <1>3 DEF Current, TypeOK, StreamSoFar, Streaming

\* The steps of the process keep the types.
LEMMA CiTypes == IInv /\ CiNext /\ UNCHANGED srvVars => TypeOK'
<1> SUFFICES ASSUME IInv, CiNext, UNCHANGED srvVars
             PROVE  TypeOK'
  OBVIOUS
<1>1. /\ TypeOK /\ order \in Pipelines /\ at \in 1..Len(order)
      /\ Len(order) \in Nat \ {0} /\ DOMAIN order = 1..Len(order)
      /\ Current \in Jobs
      /\ pc \notin {"start", "exited"} => file \in Seq(Event)
      /\ clock \in 0..MaxClock
  BY Running, OrderFacts DEF IInv, ProcessInv
<1>2. /\ Current \in Jobs \cup {Null}
      /\ Null \in 1..MaxCalls \cup {Null}
      /\ Null \in JobOutcomes \cup RunOutcomes \cup {Null} /\ Null \in Jobs \cup {Null}
      /\ MaxCalls \in Nat /\ attempts \in 0..MaxCalls
  BY <1>1 DEF TypeOK
<1>3. UNCHANGED <<srv, k, openJob, openSh, outcome, jobRows, shRows, verdict>>
  BY DEF srvVars
<1> DEFINE Same == order' = order /\ clock' = clock
<1>4. CASE CreateFile
  <2>1. file' \in Seq(Event)
    BY <1>4 DEF CreateFile
  <2> QED
    BY <1>1, <1>3, <1>4, <2>1 DEF TypeOK, CreateFile
<1>5. CASE FailEarly \/ Compile \/ Exit \/ Quit \/ SpawnFails \/ Die
  <2>1. UNCHANGED <<clock, order, at, attempts, file, recorded, logs, calls, ended, unlogged>>
    BY <1>5 DEF FailEarly, Compile, Exit, Quit, SpawnFails, Die
  <2>2. pc' \in {"next", "exited", "job"} /\ exit' \in {Null, "ok", "failed"}
    BY <1>1, <1>5 DEF TypeOK, FailEarly, Compile, Exit, Quit, SpawnFails, Die, Leave
  <2>3. faults' \in 0..MaxFaults
    <3>1. faults' = faults \/ (faults < MaxFaults /\ faults' = faults + 1)
      BY <1>5 DEF FailEarly, Compile, Exit, Quit, SpawnFails, Die, Fault
    <3>2. faults \in 0..MaxFaults
      BY <1>1 DEF TypeOK
    <3> QED
      BY <3>1, <3>2
  <2>4. torn' \in BOOLEAN
    BY <1>1, <1>5 DEF TypeOK, FailEarly, Compile, Exit, Quit, SpawnFails, Die
  <2> QED
    BY <1>1, <1>3, <2>1, <2>2, <2>3, <2>4 DEF TypeOK
<1>6. CASE CompileFails
  <2>1. file' \in Seq(Event)
    BY <1>1, <1>2, <1>6, EmitLine DEF CompileFails, EventKinds, RunOutcomes
  <2> QED
    BY <1>1, <1>3, <1>6, <2>1 DEF TypeOK, CompileFails
<1>7. CASE StartJob
  <2>1. file' \in Seq(Event)
    BY <1>1, <1>2, <1>7, EmitLine DEF StartJob, EventKinds
  <2> QED
    BY <1>1, <1>3, <1>7, <2>1 DEF TypeOK, StartJob
<1>8. CASE StartSh
  <2>1. attempts + 1 \in 1..MaxCalls
    BY <1>2, <1>8 DEF StartSh
  <2>2. file' \in Seq(Event)
    BY <1>1, <1>2, <1>8, <2>1, EmitLine DEF StartSh, RunsLua, EventKinds
  <2>3. attempts' \in 0..MaxCalls
    BY <1>8, <2>1 DEF StartSh
  <2>4. UNCHANGED <<clock, order, at, torn, recorded, logs, exit, faults, calls, ended,
                    unlogged>> /\ pc' = "sh"
    BY <1>8 DEF StartSh
  <2> QED
    BY <1>1, <1>3, <2>2, <2>3, <2>4 DEF TypeOK
<1>9. CASE FinishSh
  <2>1. attempts \in 1..MaxCalls
    BY <1>9 DEF FinishSh, IInv, ProcessInv, CommandsInOrder
  <2>2. file' \in Seq(Event)
    BY <1>1, <1>2, <1>9, <2>1, EmitLine DEF FinishSh, EventKinds
  <2>3. file \in Seq(Event) /\ Len(file) \in 1..Len(file)
    BY <1>1, <1>9 DEF FinishSh, IInv, ProcessInv, StreamSoFar, Streaming
  <2>4. file[Len(file)] \in Event
    BY <2>3
  <2>5. StartedAt \in 0..MaxClock
    BY <2>4 DEF StartedAt, Event
  <2>6. [job |-> Current, started |-> StartedAt, finished |-> clock, cmd |-> attempts,
         exit_code |-> attempts] \in ShRow
    BY <1>1, <2>1, <2>5 DEF ShRow
  <2>7. calls' \subseteq ShRow
    BY <1>9, <2>6 DEF FinishSh, IInv, TypeOK
  <2> QED
    BY <1>1, <1>3, <1>9, <2>2, <2>7 DEF TypeOK, FinishSh
<1>10. CASE WriteLog
  <2>1. attempts \in 1..MaxCalls /\ recorded[Current] <= attempts - 1
    BY <1>1, <1>10 DEF WriteLog, IInv, ProcessInv, CommandsInOrder, LogsInOrder, LogsBounded
  <2>2. recorded[Current] \in 0..MaxCalls
    BY <1>1 DEF TypeOK
  <2>3. recorded[Current] + 1 \in 1..MaxCalls
    BY <1>2, <2>1, <2>2
  <2>4. recorded' \in [Jobs -> 0..MaxCalls]
    BY <1>1, <1>10, <2>3 DEF WriteLog, TypeOK
  <2>5. logs' \subseteq [job : Jobs, n : 1..MaxCalls, cmd : 1..MaxCalls \cup {Null}]
    BY <1>1, <1>10, <2>1, <2>3 DEF WriteLog, PutLog, LogNumber, TypeOK
  <2> QED
    BY <1>1, <1>3, <1>10, <2>4, <2>5 DEF TypeOK, WriteLog
<1>11. CASE LogFails
  <2>1. attempts \in 1..MaxCalls /\ recorded[Current] <= attempts - 1
    BY <1>1, <1>11 DEF LogFails, IInv, ProcessInv, CommandsInOrder, LogsInOrder, LogsBounded
  <2>2. recorded[Current] \in 0..MaxCalls
    BY <1>1 DEF TypeOK
  <2>3. recorded[Current] + 1 \in 1..MaxCalls
    BY <1>2, <2>1, <2>2
  <2>4. logs' \subseteq [job : Jobs, n : 1..MaxCalls, cmd : 1..MaxCalls \cup {Null}]
    BY <1>1, <1>11, <2>1, <2>3 DEF LogFails, PutLog, LogNumber, TypeOK
  <2>5. unlogged' \subseteq 1..MaxCalls
    BY <1>1, <1>11, <2>1 DEF LogFails, TypeOK
  <2> QED
    BY <1>1, <1>3, <1>11, <2>4, <2>5 DEF TypeOK, LogFails, Fault
<1>12. ASSUME NEW result \in JobOutcomes, FinishJob(result) PROVE TypeOK'
  <2>1. file' \in Seq(Event)
    BY <1>1, <1>2, <1>12, EmitLine DEF FinishJob, EventKinds, JobOutcomes
  <2>2. JobStartedAt \in 0..MaxClock
    <3> DEFINE starts == {i \in DOMAIN file : file[i].kind = "job_started"
                                              /\ file[i].job = Current}
    <3>1. file \in Seq(Event) /\ starts # {}
      BY <1>1, <1>12 DEF FinishJob, IInv, ProcessInv, StreamSoFar, Streaming, InJob, Is
    <3>2. (CHOOSE i \in starts : TRUE) \in DOMAIN file
      BY <3>1
    <3>3. file[CHOOSE i \in starts : TRUE] \in Event
      BY <3>1, <3>2
    <3> QED
      BY <3>3 DEF JobStartedAt, Event
  <2>3. [job |-> Current, state |-> result, started |-> JobStartedAt, finished |-> clock]
          \in JobRow
    BY <1>1, <2>2 DEF JobRow
  <2>4. ended' \subseteq JobRow
    BY <1>12, <2>3 DEF FinishJob, IInv, TypeOK
  <2>5. at' \in 1..Len(order) + 1
    BY <1>1, <1>12 DEF FinishJob
  <2>6. pc' \in {"next", "close"}
    BY <1>12 DEF FinishJob, AfterJob
  <2> QED
    BY <1>1, <1>3, <1>12, <2>1, <2>4, <2>5, <2>6 DEF TypeOK, FinishJob
<1>13. CASE FinishRun
  <2>1. RunOutcome \in RunOutcomes
    BY DEF RunOutcome, RunOutcomes
  <2>2. file' \in Seq(Event)
    BY <1>1, <1>2, <1>13, <2>1, EmitLine DEF FinishRun, EventKinds
  <2> QED
    BY <1>1, <1>3, <1>13, <2>2 DEF TypeOK, FinishRun
<1> QED
  BY <1>4, <1>5, <1>6, <1>7, <1>8, <1>9, <1>10, <1>11, <1>12, <1>13 DEF CiNext

-----------------------------------------------------------------------------
(* What the handler replays *)

\* The handler reads the lines of a whole stream.
LEMMA Replay ==
  ASSUME IInv, srv \in Ingesting, k <= Len(file)
  PROVE  /\ pc = "exited" /\ Streaming
         /\ file \in Seq(Event) /\ Len(file) \in Nat /\ DOMAIN file = 1..Len(file)
         /\ k \in Nat /\ k \in 1..Len(file) /\ k \in DOMAIN file
         /\ Ev = file[k] /\ Ev \in Event /\ Ev.at \in 0..MaxClock
         /\ Ev.kind # "run_finished" => Ev.job \in Jobs
         /\ Ev.kind = "run_finished" => Ev.outcome \in RunOutcomes
         /\ Ev.kind = "job_finished" => Ev.outcome \in JobOutcomes
<1>1. pc = "exited" /\ file # Null /\ k \in 1..Len(file) + 1
  BY DEF IInv, IngestInv, HandlerWaits, Ingesting
<1>2. Streaming /\ file \in Seq(Event)
  BY <1>1 DEF IInv, TypeOK, Streaming
<1>3. Len(file) \in Nat /\ DOMAIN file = 1..Len(file)
  BY <1>2
<1>4. k \in Nat /\ k \in 1..Len(file) /\ k \in DOMAIN file
  BY <1>1, <1>3
<1>5. file[k] \in Event
  BY <1>2, <1>4
<1>6. /\ file[k].kind # "run_finished" => file[k].job \in Jobs
      /\ file[k].kind = "run_finished" => file[k].outcome \in RunOutcomes
      /\ file[k].kind = "job_finished" => file[k].outcome \in JobOutcomes
  BY <1>2, <1>4 DEF IInv, ProcessInv, StreamSoFar, LineSoFar
<1> QED
  BY <1>1, <1>2, <1>3, <1>4, <1>5, <1>6 DEF Ev, Event

\* Each job has one line that starts it.
LEMMA OneStart ==
  ASSUME StreamPairsUp, file \in Seq(Event), file # Null,
         NEW s \in DOMAIN file, NEW t \in DOMAIN file,
         file[s].kind = "job_started", file[t].kind = "job_started",
         file[s].job = file[t].job
  PROVE  s = t
<1>1. Len(file) \in Nat /\ DOMAIN file = 1..Len(file)
  OBVIOUS
<1>2. ~(s < t)
  BY <1>1 DEF StreamPairsUp, Paired
<1>3. ~(t < s)
  BY <1>1 DEF StreamPairsUp, Paired
<1> QED
  BY <1>1, <1>2, <1>3

\* The row of a finished job is what its line and its start say.
LEMMA InsertedJob ==
  ASSUME IInv, InsertJob
  PROVE  /\ JobLine(JobRowOf(Ev), k)
         /\ JobRowOf(Ev) \in ended
<1>1. /\ pc = "exited" /\ Streaming
      /\ file \in Seq(Event) /\ Len(file) \in Nat /\ DOMAIN file = 1..Len(file)
      /\ k \in Nat /\ k \in 1..Len(file) /\ Ev = file[k] /\ Ev \in Event
      /\ file[k].kind = "job_finished"
  BY Replay DEF InsertJob, Seen, Ingesting
<1>2. file # Null /\ StreamPairsUp /\ FirstPass /\ StreamIsComplete
  BY <1>1 DEF IInv, ProcessInv, IngestInv, Streaming
<1>3. Window(k)
  BY <1>1, <1>2 DEF StreamPairsUp, Paired
<1>4. PICK s \in 1..k : file[s].kind = "job_started" /\ file[s].job = file[k].job
  BY <1>3 DEF Window
<1>5. s \in 1..k - 1
  BY <1>1, <1>4
<1>6. openJob[file[k].job] = file[s].at
  <2>1. \/ openJob[file[s].job] = file[s].at
        \/ \E f \in s..k - 1 : Is(f, "job_finished", file[s].job)
    BY <1>2, <1>4, <1>5 DEF FirstPass, InsertJob
  <2>2. \A f \in s..k - 1 : ~Is(f, "job_finished", file[s].job)
    BY <1>1, <1>3, <1>4, <1>5 DEF Window, Is
  <2> QED
    BY <1>4, <2>1, <2>2
<1>7. file[s] \in Event
  BY <1>1, <1>5
<1>8. file[s].at # Null
  BY <1>7 DEF Event
<1>9. JobRowOf(Ev) = [job |-> file[k].job, state |-> file[k].outcome,
                      started |-> file[s].at, finished |-> file[k].at]
  BY <1>1, <1>6, <1>8 DEF JobRowOf
<1>10. JobLine(JobRowOf(Ev), k)
  BY <1>1, <1>4, <1>9 DEF JobLine, Is
<1>11. PICK x \in ended : JobLine(x, k)
  BY <1>1, <1>2 DEF StreamIsComplete, JobsOfLines
<1>12. PICK t \in 1..k : /\ Is(t, "job_started", file[k].job)
                         /\ x = [job |-> file[k].job, state |-> file[k].outcome,
                                 started |-> file[t].at, finished |-> file[k].at]
  BY <1>11 DEF JobLine
<1>13. s = t
  BY <1>1, <1>2, <1>4, <1>12, OneStart DEF Is
<1> QED
  BY <1>9, <1>10, <1>12, <1>13

\* The row of a finished command is what its line and the one before say.
LEMMA InsertedSh ==
  ASSUME IInv, InsertSh
  PROVE  /\ openSh[Ev.job] # Null
         /\ ShLine(ShRowOf(Ev), k)
         /\ ShRowOf(Ev) \in calls
<1>1. /\ pc = "exited" /\ Streaming
      /\ file \in Seq(Event) /\ Len(file) \in Nat /\ DOMAIN file = 1..Len(file)
      /\ k \in Nat /\ k \in 1..Len(file) /\ Ev = file[k] /\ Ev \in Event
      /\ file[k].kind = "sh_finished"
  BY Replay DEF InsertSh, Seen, Ingesting
<1>2. file # Null /\ StreamPairsUp /\ SecondPassOK /\ StreamIsComplete
  BY <1>1 DEF IInv, ProcessInv, IngestInv, Streaming
<1>3. k > 1 /\ file[k - 1].kind = "sh_started" /\ file[k - 1].job = file[k].job
  BY <1>1, <1>2 DEF StreamPairsUp, Paired
<1>4. openSh[file[k].job] = file[k - 1]
  BY <1>2, <1>3 DEF SecondPassOK, InsertSh
<1>5. file[k - 1] \in Event
  BY <1>1, <1>3
<1>6. openSh[Ev.job] # Null
  BY <1>1, <1>4, <1>5
<1>7. ShRowOf(Ev) = [job |-> file[k].job, started |-> file[k - 1].at,
                     finished |-> file[k].at, cmd |-> file[k - 1].cmd,
                     exit_code |-> file[k].cmd]
  BY <1>1, <1>4 DEF ShRowOf
<1>8. ShLine(ShRowOf(Ev), k)
  BY <1>1, <1>3, <1>7 DEF ShLine
<1>9. PICK x \in calls : ShLine(x, k)
  BY <1>1, <1>2 DEF StreamIsComplete, CallsOfLines
<1> QED
  BY <1>6, <1>7, <1>8, <1>9 DEF ShLine

\* The handler's steps keep the types.
LEMMA HandlerTypes ==
  IInv /\ (Ingest \/ Judge \/ ServerDies \/ Time \/ UNCHANGED vars) => TypeOK'
<1> SUFFICES ASSUME IInv, Ingest \/ Judge \/ ServerDies \/ Time \/ UNCHANGED vars
             PROVE  TypeOK'
  OBVIOUS
<1>1. TypeOK /\ HandlerWaits
  BY DEF IInv, IngestInv
<1>2. ASSUME srv \in Ingesting, Seen({"job_started", "job_finished", "sh_started",
                                      "sh_finished"})
      PROVE  Ev.job \in Jobs /\ Ev \in Event /\ Ev.at \in 0..MaxClock
  BY <1>2, Replay DEF Seen
<1>3. CASE Time \/ UNCHANGED vars
  <2>1. clock' \in 0..MaxClock
    <3>1. clock \in 0..MaxClock
      BY <1>1 DEF TypeOK
    <3>2. clock' = clock \/ (clock < MaxClock /\ clock' = clock + 1)
      BY <1>3 DEF Time, Tick, vars, ciVars
    <3> QED
      BY <3>1, <3>2
  <2>2. /\ UNCHANGED <<order, pc, at, attempts, file, torn, recorded, logs, exit,
                       faults, calls, ended, unlogged>>
        /\ UNCHANGED <<srv, k, openJob, openSh, outcome, jobRows, shRows, verdict>>
    BY <1>3 DEF Time, Tick, vars, ciVars, srvVars
  <2> QED
    BY <1>1, <2>1, <2>2 DEF TypeOK
<1> USE DEF ciVars
<1>4. CASE ReadEvents \/ SecondPass \/ EndIngest \/ Judge
  BY <1>1, <1>4 DEF TypeOK, ReadEvents, Abandon, SecondPass, EndIngest, Judge, Verdict,
       Verdicts
<1>5. CASE ServerDies \/ IngestFails
  <2>1. faults' \in 0..MaxFaults
    <3>1. faults < MaxFaults /\ faults' = faults + 1 /\ faults \in 0..MaxFaults
      BY <1>1, <1>5 DEF TypeOK, ServerDies, IngestFails, Fault
    <3> QED
      BY <3>1
  <2>2. srv' \in {"gone", "judging"} /\ outcome' \in RunOutcomes \cup {Null}
    BY <1>1, <1>5 DEF TypeOK, ServerDies, IngestFails, Abandon
  <2>3. UNCHANGED <<clock, order, pc, at, attempts, file, torn, recorded, logs, exit,
                    calls, ended, unlogged, k, openJob, openSh, jobRows, shRows, verdict>>
    BY <1>5 DEF ServerDies, IngestFails
  <2> QED
    BY <1>1, <2>1, <2>2, <2>3 DEF TypeOK
<1>6. CASE Skip \/ NoteOutcome
  <2>1. k' \in Nat \ {0}
    BY <1>1, <1>6 DEF TypeOK, Skip, NoteOutcome, Advance
  <2>2. outcome' \in RunOutcomes \cup {Null}
    <3>1. CASE Skip
      BY <1>1, <3>1 DEF TypeOK, Skip
    <3>2. CASE NoteOutcome
      <4>1. Ev.outcome \in RunOutcomes
        BY <3>2, Replay DEF NoteOutcome, Seen, Ingesting
      <4> QED
        BY <3>2, <4>1 DEF NoteOutcome
    <3> QED
      BY <1>6, <3>1, <3>2
  <2>3. UNCHANGED <<ciVars, srv, openJob, openSh, jobRows, shRows, verdict>>
    BY <1>6 DEF Skip, NoteOutcome
  <2> QED
    BY <1>1, <2>1, <2>2, <2>3 DEF TypeOK
<1>7. CASE NoteJob
  <2>1. Ev.job \in Jobs /\ Ev.at \in 0..MaxClock
    BY <1>2, <1>7 DEF NoteJob, Ingesting, Seen
  <2>2. openJob' \in [Jobs -> 0..MaxClock \cup {Null}] /\ k' \in Nat \ {0}
    BY <1>1, <1>7, <2>1 DEF TypeOK, NoteJob, Advance
  <2> QED
    BY <1>1, <1>7, <2>2 DEF TypeOK, NoteJob
<1>8. CASE InsertJob
  <2>1. Ev.job \in Jobs /\ Ev.at \in 0..MaxClock /\ Ev \in Event
    BY <1>2, <1>8 DEF InsertJob, Ingesting, Seen
  <2>2. openJob' \in [Jobs -> 0..MaxClock \cup {Null}]
    BY <1>1, <1>8, <2>1 DEF TypeOK, InsertJob
  <2>3. Ev.outcome \in JobOutcomes
    BY <1>8, Replay DEF InsertJob, Seen, Ingesting
  <2>4. JobRowOf(Ev) \in JobRow
    BY <1>1, <2>1, <2>3 DEF TypeOK, JobRowOf, JobRow
  <2>5. jobRows' \subseteq JobRow /\ k' \in Nat \ {0}
    BY <1>1, <1>8, <2>4 DEF TypeOK, InsertJob, Advance, Abandon
  <2>6. srv' \in {"jobs", "judging"} /\ outcome' \in RunOutcomes \cup {Null}
    BY <1>1, <1>8 DEF TypeOK, InsertJob, Abandon
  <2> QED
    BY <1>1, <1>8, <2>2, <2>5, <2>6 DEF TypeOK, InsertJob
<1>9. CASE NoteSh
  <2>1. Ev.job \in Jobs /\ Ev \in Event
    BY <1>2, <1>9 DEF NoteSh, Ingesting, Seen
  <2>2. openSh' \in [Jobs -> Event \cup {Null}] /\ k' \in Nat \ {0}
    BY <1>1, <1>9, <2>1 DEF TypeOK, NoteSh, Noted, Advance
  <2> QED
    BY <1>1, <1>9, <2>2 DEF TypeOK, NoteSh
<1>10. CASE InsertSh
  <2>1. Ev.job \in Jobs /\ Ev \in Event
    BY <1>2, <1>10 DEF InsertSh, Ingesting, Seen
  <2>2. openSh' \in [Jobs -> Event \cup {Null}]
    BY <1>1, <1>10, <2>1 DEF TypeOK, InsertSh
  <2>3. ShRowOf(Ev) \in ShRow
    BY <1>1, <1>10, InsertedSh DEF TypeOK
  <2>4. shRows' \subseteq ShRow /\ k' \in Nat \ {0}
    BY <1>1, <1>10, <2>3 DEF TypeOK, InsertSh, Advance, Abandon
  <2>5. srv' \in {"shs", "judging"} /\ outcome' \in RunOutcomes \cup {Null}
    BY <1>1, <1>10 DEF TypeOK, InsertSh, Abandon
  <2> QED
    BY <1>1, <1>10, <2>2, <2>4, <2>5 DEF TypeOK, InsertSh
<1> QED
  BY <1>3, <1>4, <1>5, <1>6, <1>7, <1>8, <1>9, <1>10 DEF Ingest

-----------------------------------------------------------------------------
(* The steps of the process *)

\* One line is added to the stream, the others stay.
Longer ==
  /\ file \in Seq(Event) /\ Len(file) \in Nat /\ DOMAIN file = 1..Len(file)
  /\ file' \in Seq(Event) /\ Len(file') = Len(file) + 1
  /\ DOMAIN file' = 1..Len(file) + 1
  /\ \A i \in 1..Len(file) : file'[i] = file[i]
  /\ \A i \in 1..Len(file) + 1 : i \in 1..Len(file) \/ i = Len(file) + 1

Grows(kind, job, cmd, result) ==
  /\ Longer
  /\ file'[Len(file) + 1].at = clock
  /\ file'[Len(file) + 1].kind = kind
  /\ file'[Len(file) + 1].job = job
  /\ file'[Len(file) + 1].cmd = cmd
  /\ file'[Len(file) + 1].outcome = result

LEMMA Growing ==
  ASSUME file \in Seq(Event), clock \in 0..MaxClock,
         NEW kind \in EventKinds, NEW job \in Jobs \cup {Null},
         NEW cmd \in 1..MaxCalls \cup {Null},
         NEW result \in JobOutcomes \cup RunOutcomes \cup {Null},
         Emit(kind, job, cmd, result)
  PROVE  Grows(kind, job, cmd, result)
<1>1. /\ file' \in Seq(Event) /\ Len(file') = Len(file) + 1
      /\ \A i \in DOMAIN file : file'[i] = file[i]
      /\ file'[Len(file')] = [at |-> clock, kind |-> kind, job |-> job, cmd |-> cmd,
                              outcome |-> result]
  BY EmitLine
<1>2. Len(file) \in Nat /\ DOMAIN file = 1..Len(file) /\ DOMAIN file' = 1..Len(file) + 1
  BY <1>1
<1>3. \A i \in 1..Len(file) + 1 : i \in 1..Len(file) \/ i = Len(file) + 1
  BY <1>2
<1> QED
  BY <1>1, <1>2, <1>3 DEF Grows, Longer

\* A step of the process leaves the stream alone, creates it or adds a line.
Quiet == FailEarly \/ Compile \/ SpawnFails \/ WriteLog \/ LogFails \/ Exit \/ Quit \/ Die

LEMMA CiCases ==
  ASSUME IInv, CiNext
  PROVE  \/ CreateFile
         \/ Quiet
         \/ CompileFails /\ Grows("run_finished", Null, Null, "pipeline_failure")
         \/ StartJob /\ Grows("job_started", Current, Null, Null)
         \/ StartSh /\ Grows("sh_started", Current, attempts + 1, Null)
         \/ FinishSh /\ Grows("sh_finished", Current, attempts, Null)
         \/ \E result \in JobOutcomes :
              FinishJob(result) /\ Grows("job_finished", Current, Null, result)
         \/ FinishRun /\ Grows("run_finished", Null, Null, RunOutcome)
<1>1. /\ Current \in Jobs /\ clock \in 0..MaxClock
      /\ pc \notin {"start", "exited"} => file \in Seq(Event)
  BY Running DEF IInv, ProcessInv
<1>2. /\ Current \in Jobs \cup {Null}
      /\ Null \in 1..MaxCalls \cup {Null}
      /\ Null \in JobOutcomes \cup RunOutcomes \cup {Null} /\ Null \in Jobs \cup {Null}
      /\ MaxCalls \in Nat /\ attempts \in 0..MaxCalls
  BY <1>1 DEF IInv, TypeOK
<1>3. CASE CompileFails
  <2>1. Emit("run_finished", Null, Null, "pipeline_failure") /\ file \in Seq(Event)
    BY <1>1, <1>3 DEF CompileFails
  <2> QED
    BY <1>1, <1>2, <1>3, <2>1, Growing DEF EventKinds, RunOutcomes
<1>4. CASE StartJob
  <2>1. Emit("job_started", Current, Null, Null) /\ file \in Seq(Event)
    BY <1>1, <1>4 DEF StartJob
  <2> QED
    BY <1>1, <1>2, <1>4, <2>1, Growing DEF EventKinds
<1>5. CASE StartSh
  <2>1. Emit("sh_started", Current, attempts + 1, Null) /\ file \in Seq(Event)
    BY <1>1, <1>5 DEF StartSh, RunsLua
  <2>2. attempts + 1 \in 1..MaxCalls \cup {Null}
    BY <1>2, <1>5 DEF StartSh
  <2> QED
    BY <1>1, <1>2, <1>5, <2>1, <2>2, Growing DEF EventKinds
<1>6. CASE FinishSh
  <2>1. Emit("sh_finished", Current, attempts, Null) /\ file \in Seq(Event)
    BY <1>1, <1>6 DEF FinishSh
  <2>2. attempts \in 1..MaxCalls \cup {Null}
    BY <1>6 DEF FinishSh, IInv, ProcessInv, CommandsInOrder
  <2> QED
    BY <1>1, <1>2, <1>6, <2>1, <2>2, Growing DEF EventKinds
<1>7. ASSUME NEW result \in JobOutcomes, FinishJob(result)
      PROVE  FinishJob(result) /\ Grows("job_finished", Current, Null, result)
  <2>1. Emit("job_finished", Current, Null, result) /\ file \in Seq(Event)
    BY <1>1, <1>7 DEF FinishJob
  <2>2. result \in JobOutcomes \cup RunOutcomes \cup {Null}
    BY <1>7
  <2> QED
    BY <1>1, <1>2, <1>7, <2>1, <2>2, Growing DEF EventKinds
<1>8. CASE FinishRun
  <2>1. Emit("run_finished", Null, Null, RunOutcome) /\ file \in Seq(Event)
    BY <1>1, <1>8 DEF FinishRun
  <2>2. RunOutcome \in JobOutcomes \cup RunOutcomes \cup {Null}
    BY DEF RunOutcome, RunOutcomes
  <2> QED
    BY <1>1, <1>2, <1>8, <2>1, <2>2, Growing DEF EventKinds
<1> QED
  BY <1>3, <1>4, <1>5, <1>6, <1>7, <1>8 DEF CiNext, Quiet

\* What the quiet steps leave alone, and where they lead.
LEMMA QuietKeeps ==
  ASSUME IInv, Quiet
  PROVE  /\ UNCHANGED <<clock, order, at, attempts, file, calls, ended>>
         /\ Streaming' => Streaming
         /\ \/ pc = "boot" /\ pc' = "next"
            \/ pc \in {"sh", "log"} /\ pc' = "job"
            \/ pc # "exited" /\ pc' = "exited"
<1>1. UNCHANGED <<clock, order, at, attempts, file, calls, ended>>
  BY DEF Quiet, FailEarly, Compile, SpawnFails, WriteLog, LogFails, Exit, Quit, Die
<1>2. \/ pc = "boot" /\ pc' = "next"
      \/ pc \in {"sh", "log"} /\ pc' = "job"
      \/ pc # "exited" /\ pc' = "exited"
  BY DEF Quiet, FailEarly, Compile, SpawnFails, WriteLog, LogFails, Exit, Quit, Die, Leave,
       RunsLua
<1>3. pc = "start" => file = Null
  BY DEF IInv, ProcessInv, JobsInOrder
<1>4. Streaming' => Streaming
  BY <1>1, <1>2, <1>3 DEF Streaming
<1> QED
  BY <1>1, <1>2, <1>4

\* The step of the process takes it from one place to the next.
LEMMA CiPlaces ==
  /\ CreateFile => pc = "start" /\ pc' = "boot" /\ file' = <<>>
                   /\ UNCHANGED <<clock, order, at, attempts, calls, ended>>
  /\ CompileFails => pc = "boot" /\ pc' = "exiting"
                     /\ UNCHANGED <<clock, order, at, attempts, calls, ended>>
  /\ StartJob => pc = "next" /\ pc' = "job"
                 /\ UNCHANGED <<clock, order, at, attempts, calls, ended>>
  /\ StartSh => pc = "job" /\ pc' = "sh" /\ attempts' = attempts + 1
                /\ UNCHANGED <<clock, order, at, calls, ended>>
  /\ FinishSh => pc = "sh" /\ pc' = "log" /\ UNCHANGED <<clock, order, at, attempts, ended>>
  /\ \A result \in JobOutcomes : FinishJob(result) =>
       /\ pc = "job" /\ pc' = AfterJob(result)
       /\ at' = IF AfterJob(result) = "next" THEN at + 1 ELSE at
       /\ UNCHANGED <<clock, order, attempts, calls>>
  /\ FinishRun => pc = "close" /\ pc' = "exiting"
                  /\ UNCHANGED <<clock, order, at, attempts, calls, ended>>
BY DEF CreateFile, CompileFails, StartJob, StartSh, RunsLua, FinishSh, FinishJob, FinishRun

-----------------------------------------------------------------------------
(* The jobs *)

\* With the current job the first `at` jobs of the pipeline have ended.
LEMMA OneMoreEnds ==
  ASSUME IInv, NEW result \in JobOutcomes, FinishJob(result), NEW n \in Nat, n = at
  PROVE  /\ EndedThrough(n)'
         /\ result = "succeeded" => NoneFailed'
         /\ result = "failed" => OneFailed'
<1>1. /\ order \in Pipelines /\ n \in 1..Len(order) /\ Len(order) \in Nat
      /\ \A i, j \in 1..Len(order) : order[i] = order[j] => i = j
  BY Running, OrderFacts DEF IInv, ProcessInv
<1>2. EndedThrough(n - 1) /\ NoneFailed
  BY DEF IInv, ProcessInv, JobsInOrder, FinishJob, InJob
<1> DEFINE row == [job |-> Current, state |-> result, started |-> JobStartedAt,
                   finished |-> clock]
<1>3. ended' = ended \cup {row} /\ order' = order
  BY DEF FinishJob
<1>4. row.job = order[n] /\ row.state = result
  BY DEF Current
<1> HIDE DEF row
<1>5. {e.job : e \in ended} = {order[i] : i \in 1..n - 1}
      /\ IsFiniteSet(ended) /\ Cardinality(ended) = n - 1
  BY <1>2 DEF EndedThrough
<1>6. row \notin ended
  <2>1. SUFFICES ASSUME row \in ended PROVE FALSE
    OBVIOUS
  <2>2. row.job \in {order[i] : i \in 1..n - 1}
    BY <1>5, <2>1
  <2> QED
    BY <1>1, <1>4, <2>2
<1>7. IsFiniteSet(ended') /\ Cardinality(ended') = n
  <2>1. IsFiniteSet(ended \cup {row}) /\ Cardinality(ended \cup {row}) = Cardinality(ended) + 1
    BY <1>5, <1>6, FS_AddElement
  <2> QED
    BY <1>1, <1>3, <1>5, <2>1
<1>8. {e.job : e \in ended'} = {order[i] : i \in 1..n}
  <2>1. {e.job : e \in ended'} = {e.job : e \in ended} \cup {row.job}
    BY <1>3
  <2>2. 1..n = 1..n - 1 \cup {n}
    BY <1>1
  <2>3. {order[i] : i \in 1..n} = {order[i] : i \in 1..n - 1} \cup {order[n]}
    BY <2>2
  <2> QED
    BY <1>4, <1>5, <2>1, <2>3
<1>9. result = "succeeded" => NoneFailed'
  BY <1>2, <1>3, <1>4 DEF NoneFailed
<1>10. ASSUME result = "failed" PROVE OneFailed'
  <2>1. {e \in ended' : e.state = "failed"} = {row}
    BY <1>2, <1>3, <1>4, <1>10 DEF NoneFailed
  <2> QED
    BY <2>1, FS_Singleton DEF OneFailed
<1> QED
  BY <1>3, <1>7, <1>8, <1>9, <1>10 DEF EndedThrough

\* Steps that end no job do not change what is said of the jobs.
LEMMA JobsStay ==
  ASSUME UNCHANGED <<ended, order>>
  PROVE  /\ \A n \in Nat : EndedThrough(n)' <=> EndedThrough(n)
         /\ NoneFailed' <=> NoneFailed
         /\ OneFailed' <=> OneFailed
         /\ \A result : Conclusion(result)' <=> Conclusion(result)
<1>1. \A n : EndedThrough(n)' <=> EndedThrough(n)
  BY DEF EndedThrough
<1>2. NoneFailed' <=> NoneFailed
  BY DEF NoneFailed
<1>3. OneFailed' <=> OneFailed
  BY DEF OneFailed
<1>4. \A result : Conclusion(result)' <=> Conclusion(result)
  BY <1>1, <1>2, <1>3 DEF Conclusion
<1> QED
  BY <1>1, <1>2, <1>3, <1>4

LEMMA CiJobsInOrder ==
  ASSUME IInv, CiNext
  PROVE  JobsInOrder'
<1>1. /\ order \in Pipelines /\ at \in 1..Len(order) /\ Len(order) \in Nat
      /\ DOMAIN order = 1..Len(order) /\ JobsInOrder
  BY Running, OrderFacts DEF IInv, ProcessInv
<1>2. CASE Quiet
  <2>1. /\ UNCHANGED <<clock, order, at, attempts, file, calls, ended>>
        /\ \/ pc = "boot" /\ pc' = "next"
           \/ pc \in {"sh", "log"} /\ pc' = "job"
           \/ pc # "exited" /\ pc' = "exited"
    BY <1>2, QuietKeeps
  <2>2. CASE pc = "boot" /\ pc' = "next"
    <3>1. ended = {} /\ at = 1 /\ ended' = {} /\ at' = 1 /\ order' = order
      BY <1>1, <2>1, <2>2 DEF JobsInOrder
    <3>2. {e.job : e \in ended'} = {order'[i] : i \in 1..0}
      BY <3>1
    <3>3. IsFiniteSet(ended') /\ Cardinality(ended') = 0
      BY <3>1, FS_EmptySet
    <3>4. NoneFailed'
      BY <3>1 DEF NoneFailed
    <3>5. at' - 1 = 0
      BY <3>1
    <3>6. (EndedThrough(at - 1))'
      BY <3>2, <3>3, <3>5 DEF EndedThrough
    <3> QED
      BY <1>1, <2>2, <3>1, <3>4, <3>6 DEF JobsInOrder, InJob
  <2>3. CASE pc \in {"sh", "log"} /\ pc' = "job"
    <3>1. EndedThrough(at - 1) /\ NoneFailed
      BY <1>1, <2>3 DEF JobsInOrder, InJob
    <3>2. (EndedThrough(at - 1))' /\ NoneFailed'
      BY <2>1, <3>1 DEF EndedThrough, NoneFailed
    <3> QED
      BY <1>1, <2>1, <2>3, <3>2 DEF JobsInOrder, InJob
  <2>4. CASE pc # "exited" /\ pc' = "exited"
    BY <1>1, <2>1, <2>4 DEF JobsInOrder, InJob
  <2> QED
    BY <2>1, <2>2, <2>3, <2>4
<1>3. CASE CreateFile
  BY <1>1, <1>3, CiPlaces DEF JobsInOrder, InJob
<1>4. CASE CompileFails \/ FinishRun
  BY <1>1, <1>4, CiPlaces DEF JobsInOrder, InJob
<1>5. CASE StartJob \/ StartSh \/ FinishSh
  <2>1. /\ pc \in {"next"} \cup InJob /\ pc' \in InJob
        /\ UNCHANGED <<order, at, ended>>
    BY <1>5, CiPlaces DEF InJob
  <2>2. (EndedThrough(at - 1))' /\ NoneFailed'
    BY <1>1, <2>1 DEF JobsInOrder, EndedThrough, NoneFailed
  <2> QED
    BY <1>1, <2>1, <2>2 DEF JobsInOrder, InJob
<1>6. ASSUME NEW result \in JobOutcomes, FinishJob(result) PROVE JobsInOrder'
  <2>1. /\ pc = "job" /\ pc' = AfterJob(result) /\ order' = order
        /\ at' = IF AfterJob(result) = "next" THEN at + 1 ELSE at
    BY <1>6, CiPlaces
  <2>2. PICK n \in Nat : n = at
    BY <1>1
  <2>3. /\ EndedThrough(n)'
        /\ result = "succeeded" => NoneFailed'
        /\ result = "failed" => OneFailed'
    BY <1>6, <2>2, OneMoreEnds
  <2>4. result \in {"succeeded", "failed"}
    BY DEF JobOutcomes
  <2>5. CASE AfterJob(result) = "next"
    <3>1. result = "succeeded" /\ at < Len(order) /\ at' = at + 1 /\ pc' = "next"
      BY <2>1, <2>5 DEF AfterJob
    <3>2. at' - 1 = n /\ at' \in DOMAIN order'
      BY <1>1, <2>1, <2>2, <3>1
    <3>3. (EndedThrough(at - 1))'
      BY <2>3, <3>2 DEF EndedThrough
    <3> QED
      BY <2>3, <3>1, <3>2, <3>3 DEF JobsInOrder, InJob
  <2>6. CASE AfterJob(result) # "next"
    <3>1. ~(result = "succeeded" /\ at < Len(order)) /\ AfterJob(result) = "close"
      BY <2>6 DEF AfterJob
    <3>2. result = "failed" \/ at = Len(order)
      <4>1. at \in Nat /\ Len(order) \in Nat /\ at <= Len(order)
        BY <1>1
      <4>2. at < Len(order) \/ at = Len(order)
        BY <4>1
      <4> QED
        BY <2>4, <3>1, <4>2
    <3>3. pc' = "close" /\ at' = n
      BY <2>1, <2>2, <2>6, <3>1
    <3>4. result = "failed" \/ (at' = Len(order') /\ result = "succeeded")
      BY <2>1, <2>2, <2>4, <3>3, <3>2
    <3>5. (EndedThrough(at))'
      BY <2>3, <3>3 DEF EndedThrough
    <3>6. (at = Len(order) /\ NoneFailed)' \/ OneFailed'
      BY <2>3, <3>4
    <3>7. at' \in DOMAIN order'
      BY <1>1, <2>1, <2>2, <3>3
    <3> QED
      BY <3>3, <3>5, <3>6, <3>7 DEF JobsInOrder, InJob
  <2> QED
    BY <2>5, <2>6
<1> QED
  BY <1>2, <1>3, <1>4, <1>5, <1>6, CiCases

-----------------------------------------------------------------------------
(* The stream *)

\* Before the process exits there is no run_finished event, and the current
\* job is none of the jobs that ended.
LEMMA NotOver ==
  ASSUME IInv, pc \notin {"start", "exiting", "exited"}
  PROVE  /\ Streaming /\ file \in Seq(Event) /\ Len(file) \in Nat
         /\ DOMAIN file = 1..Len(file)
         /\ \A i \in 1..Len(file) : /\ file[i].kind # "run_finished"
                                    /\ file[i].job \in Jobs
                                    /\ LineSoFar(i)
         /\ Current \in Jobs /\ at \in 1..Len(order) /\ Len(order) \in Nat
         /\ ~Before(at - 1, Current)
<1>1. /\ Streaming /\ file \in Seq(Event)
      /\ Current \in Jobs /\ at \in 1..Len(order) /\ order \in Pipelines
  BY Running DEF IInv, ProcessInv
<1>2. Len(file) \in Nat /\ DOMAIN file = 1..Len(file)
  BY <1>1
<1>3. \A i \in 1..Len(file) : /\ file[i].kind # "run_finished"
                              /\ file[i].job \in Jobs
                              /\ LineSoFar(i)
  BY <1>1, <1>2 DEF IInv, ProcessInv, StreamSoFar, LineSoFar
<1>4. /\ Len(order) \in Nat
      /\ \A i, j \in 1..Len(order) : order[i] = order[j] => i = j
  BY <1>1, OrderFacts
<1>5. ~Before(at - 1, Current)
  BY <1>1, <1>4 DEF Before, Current
<1> QED
  BY <1>1, <1>2, <1>3, <1>4, <1>5

LEMMA CiStreamSoFar ==
  ASSUME IInv, CiNext
  PROVE  StreamSoFar'
<1>1. ASSUME CreateFile PROVE StreamSoFar'
  <2>1. file' = <<>> /\ pc' = "boot"
    BY <1>1, CiPlaces
  <2> QED
    BY <2>1 DEF StreamSoFar, InJob
<1>2. ASSUME Quiet PROVE StreamSoFar'
  <2>1. SUFFICES ASSUME Streaming'
                 PROVE  /\ file' \in Seq(Event)
                        /\ \A i \in DOMAIN file' : LineSoFar(i)'
                        /\ pc' \in InJob =>
                             \E i \in DOMAIN file' : Is(i, "job_started", Current)'
                        /\ pc' # "sh"
    <3>1. pc' # "sh"
      BY <1>2, QuietKeeps
    <3> QED
      BY <3>1 DEF StreamSoFar
  <2>2. /\ UNCHANGED <<clock, order, at, attempts, file, calls, ended>>
        /\ Streaming
        /\ \/ pc = "boot" /\ pc' = "next"
           \/ pc \in {"sh", "log"} /\ pc' = "job"
           \/ pc # "exited" /\ pc' = "exited"
    BY <1>2, <2>1, QuietKeeps
  <2>3. /\ file \in Seq(Event)
        /\ \A i \in DOMAIN file : LineSoFar(i)
        /\ pc \in InJob => \E i \in DOMAIN file : Is(i, "job_started", Current)
    BY <2>2 DEF IInv, ProcessInv, StreamSoFar
  <2>4. \A result : Conclusion(result)' <=> Conclusion(result)
    BY <2>2, JobsStay
  <2>5. /\ \A n, job : Before(n, job)' <=> Before(n, job)
        /\ \A i, kind, job : Is(i, kind, job)' <=> Is(i, kind, job)
        /\ Current' = Current
    BY <2>2 DEF Before, Is, Current
  <2>6. CASE pc = "boot" /\ pc' = "next"
    <3>1. file = <<>>
      BY <2>6 DEF IInv, ProcessInv, JobsInOrder
    <3> QED
      BY <2>2, <2>6, <3>1 DEF InJob
  <2>7. CASE pc \in {"sh", "log"} /\ pc' = "job"
    <3>1. \A i \in DOMAIN file' : LineSoFar(i)'
      BY <2>2, <2>3, <2>4, <2>5, <2>7 DEF LineSoFar, InJob
    <3>2. \E i \in DOMAIN file' : Is(i, "job_started", Current)'
      BY <2>2, <2>3, <2>5, <2>7 DEF InJob, Is
    <3> QED
      BY <2>2, <2>3, <2>7, <3>1, <3>2 DEF InJob
  <2>8. CASE pc # "exited" /\ pc' = "exited"
    <3>1. \A i \in DOMAIN file' : LineSoFar(i)'
      BY <2>2, <2>3, <2>4, <2>8 DEF LineSoFar, InJob
    <3> QED
      BY <2>2, <2>3, <2>8, <3>1 DEF InJob
  <2> QED
    BY <2>2, <2>6, <2>7, <2>8
<1>3. ASSUME \/ CompileFails /\ Grows("run_finished", Null, Null, "pipeline_failure")
             \/ FinishRun /\ Grows("run_finished", Null, Null, RunOutcome)
      PROVE  StreamSoFar'
  <2>1. /\ pc \in {"boot", "close"} /\ pc' = "exiting"
        /\ UNCHANGED <<clock, order, at, attempts, calls, ended>>
    BY <1>3, CiPlaces
  <2>2. PICK result : /\ Grows("run_finished", Null, Null, result)
                      /\ \/ pc = "boot" /\ result = "pipeline_failure"
                         \/ pc = "close" /\ result = RunOutcome
    <3>1. CASE pc = "boot"
      <4>1. Grows("run_finished", Null, Null, "pipeline_failure")
        BY <1>3, <3>1, CiPlaces
      <4> QED
        BY <3>1, <4>1
    <3>2. CASE pc = "close"
      <4>1. Grows("run_finished", Null, Null, RunOutcome)
        BY <1>3, <3>2, CiPlaces
      <4> QED
        BY <3>2, <4>1
    <3> QED
      BY <2>1, <3>1, <3>2
  <2>3. result \in RunOutcomes
    BY <2>2 DEF RunOutcome, RunOutcomes
  <2>4. Conclusion(result)
    <3>1. CASE pc = "boot"
      BY <2>2, <3>1 DEF IInv, ProcessInv, JobsInOrder, Conclusion
    <3>2. CASE pc = "close"
      <4>1. EndedThrough(at) /\ ((at = Len(order) /\ NoneFailed) \/ OneFailed)
            /\ at \in DOMAIN order
        BY <3>2 DEF IInv, ProcessInv, JobsInOrder
      <4>2. CASE \E e \in ended : e.state = "failed"
        <5>1. result = "pipeline_failure" /\ OneFailed
          BY <2>2, <3>2, <4>1, <4>2 DEF RunOutcome, NoneFailed
        <5> QED
          BY <4>1, <5>1 DEF Conclusion
      <4>3. CASE ~\E e \in ended : e.state = "failed"
        <5>1. result = "succeeded"
          BY <2>2, <3>2, <4>3 DEF RunOutcome
        <5>2. {e \in ended : e.state = "failed"} = {}
          BY <4>3
        <5>3. ~OneFailed
          <6>1. Cardinality({e \in ended : e.state = "failed"}) = 0
            BY <5>2, FS_EmptySet
          <6> QED
            BY <6>1 DEF OneFailed
        <5> QED
          BY <4>1, <5>1, <5>3 DEF Conclusion
      <4> QED
        BY <4>2, <4>3
    <3> QED
      BY <2>1, <3>1, <3>2
  <2>5. Conclusion(result)'
    BY <2>1, <2>4, JobsStay
  <2>6. \A i \in 1..Len(file) : /\ file[i].kind # "run_finished"
                                /\ file[i].job \in Jobs /\ LineSoFar(i)
    BY <2>1, NotOver
  <2>7. \A i \in 1..Len(file) : LineSoFar(i)'
    BY <2>1, <2>2, <2>6 DEF LineSoFar, Grows, Longer, InJob
  <2>8. \A i \in 1..Len(file) + 1 : i = Len(file) + 1 => LineSoFar(i)'
    BY <2>1, <2>2, <2>3, <2>5 DEF LineSoFar, Grows, Longer, InJob
  <2>9. file' \in Seq(Event) /\ \A i \in DOMAIN file' : LineSoFar(i)'
    BY <2>2, <2>7, <2>8 DEF Grows, Longer
  <2> QED
    BY <2>1, <2>9 DEF StreamSoFar, InJob
<1>4. ASSUME StartJob, Grows("job_started", Current, Null, Null)
      PROVE  StreamSoFar'
  <2>1. /\ pc = "next" /\ pc' = "job"
        /\ UNCHANGED <<clock, order, at, attempts, calls, ended>>
    BY <1>4, CiPlaces
  <2>2. /\ \A i \in 1..Len(file) : /\ file[i].kind # "run_finished"
                                   /\ file[i].job \in Jobs /\ LineSoFar(i)
        /\ Current \in Jobs
    BY <2>1, NotOver
  <2>3. \A n, job : Before(n, job)' <=> Before(n, job)
    BY <2>1 DEF Before
  <2>4. Current' = Current
    BY <2>1 DEF Current
  <2>5. \A i \in 1..Len(file) : LineSoFar(i)'
    BY <1>4, <2>1, <2>2, <2>3, <2>4 DEF LineSoFar, Grows, Longer, InJob
  <2>6. \A i \in 1..Len(file) + 1 : i = Len(file) + 1 => LineSoFar(i)'
    BY <1>4, <2>1, <2>2, <2>4 DEF LineSoFar, Grows, Longer, InJob
  <2>7. file' \in Seq(Event) /\ \A i \in DOMAIN file' : LineSoFar(i)'
    BY <1>4, <2>5, <2>6 DEF Grows, Longer
  <2>8. \E i \in DOMAIN file' : Is(i, "job_started", Current)'
    <3>1. PICK l \in Nat : l = Len(file) + 1
      BY <1>4 DEF Grows, Longer
    <3>2. l \in DOMAIN file' /\ Is(l, "job_started", Current)'
      BY <1>4, <2>4, <3>1 DEF Grows, Longer, Is
    <3> QED
      BY <3>2
  <2> QED
    BY <2>1, <2>7, <2>8 DEF StreamSoFar
<1>5. ASSUME \/ StartSh /\ Grows("sh_started", Current, attempts + 1, Null)
             \/ FinishSh /\ Grows("sh_finished", Current, attempts, Null)
      PROVE  StreamSoFar'
  <2>1. /\ pc \in InJob /\ pc' \in {"sh", "log"}
        /\ UNCHANGED <<clock, order, at, ended>>
    BY <1>5, CiPlaces DEF InJob
  <2>2. PICK kind, cmd :
          /\ kind \in {"sh_started", "sh_finished"}
          /\ Grows(kind, Current, cmd, Null)
          /\ pc' = "sh" => kind = "sh_started" /\ cmd = attempts'
    BY <1>5, CiPlaces
  <2>3. /\ \A i \in 1..Len(file) : /\ file[i].kind # "run_finished"
                                   /\ file[i].job \in Jobs /\ LineSoFar(i)
        /\ Current \in Jobs
    BY <2>1, NotOver DEF InJob
  <2>4. \A n, job : Before(n, job)' <=> Before(n, job)
    BY <2>1 DEF Before
  <2>5. Current' = Current
    BY <2>1 DEF Current
  <2>6. \A i \in 1..Len(file) : LineSoFar(i)'
    BY <2>1, <2>2, <2>3, <2>4, <2>5 DEF LineSoFar, Grows, Longer, InJob
  <2>7. \A i \in 1..Len(file) + 1 : i = Len(file) + 1 => LineSoFar(i)'
    BY <2>1, <2>2, <2>3, <2>5 DEF LineSoFar, Grows, Longer, InJob
  <2>8. file' \in Seq(Event) /\ \A i \in DOMAIN file' : LineSoFar(i)'
    BY <2>2, <2>6, <2>7 DEF Grows, Longer
  <2>9. \E i \in DOMAIN file' : Is(i, "job_started", Current)'
    <3>1. PICK s \in DOMAIN file : Is(s, "job_started", Current)
      BY <2>1, NotOver DEF IInv, ProcessInv, StreamSoFar, InJob
    <3>2. s \in DOMAIN file' /\ Is(s, "job_started", Current)'
      BY <2>2, <2>5, <3>1 DEF Grows, Longer, Is
    <3> QED
      BY <3>2
  <2>10. pc' = "sh" => /\ Len(file') > 0 /\ Is(Len(file), "sh_started", Current)'
                       /\ file'[Len(file')].cmd = attempts'
    BY <2>2, <2>5 DEF Grows, Longer, Is
  <2> QED
    BY <2>8, <2>9, <2>10 DEF StreamSoFar
<1>6. ASSUME NEW result \in JobOutcomes, FinishJob(result),
             Grows("job_finished", Current, Null, result)
      PROVE  StreamSoFar'
  <2>1. /\ pc = "job" /\ order' = order /\ pc' \in {"next", "close"}
        /\ at' = IF pc' = "next" THEN at + 1 ELSE at
    BY <1>6, CiPlaces DEF AfterJob
  <2>2. /\ \A i \in 1..Len(file) : /\ file[i].kind # "run_finished"
                                   /\ file[i].job \in Jobs /\ LineSoFar(i)
        /\ Current \in Jobs /\ ~Before(at - 1, Current)
        /\ Streaming /\ file # Null
        /\ at \in Nat /\ at >= 1
    <3>1. /\ Streaming /\ file \in Seq(Event) /\ at \in 1..Len(order) /\ Len(order) \in Nat
      BY <2>1, NotOver
    <3>2. file # Null
      BY <3>1
    <3> QED
      BY <2>1, <3>1, <3>2, NotOver
  <2> DEFINE WasBefore(job) == \E m \in 1..at' - 1 : order'[m] = job
  <2>3. (\A job : Before(at - 1, job) \/ job = Current => WasBefore(job))
        \/ pc' = "close"
    <3>1. SUFFICES ASSUME pc' = "next", NEW job, Before(at - 1, job) \/ job = Current
                   PROVE  WasBefore(job)
      BY <2>1
    <3>2. at' - 1 = at /\ order' = order
      BY <2>1, <2>2, <3>1
    <3>3. \E m \in 1..at : order[m] = job
      BY <2>2, <3>1 DEF Before, Current
    <3> QED
      BY <3>2, <3>3 DEF Before
  <2>4. ASSUME NEW i \in 1..Len(file), file[i].kind = "job_started"
        PROVE  \E f \in i..Len(file) + 1 :
                 file'[f].kind = "job_finished" /\ file'[f].job = file[i].job
    <3>1. CASE file[i].job = Current
      BY <1>6, <3>1 DEF Grows, Longer
    <3>2. CASE file[i].job # Current
      <4>1. PICK s \in 1..Len(file) : Is(s, "job_started", Current)
        BY <2>1, NotOver DEF IInv, ProcessInv, StreamSoFar, InJob
      <4>2. StreamPairsUp /\ DOMAIN file = 1..Len(file) /\ Len(file) \in Nat
        BY <2>1, NotOver DEF IInv, ProcessInv
      <4>3. CASE i < s
        <5>1. i \in 1..s - 1
          BY <4>2, <4>3
        <5>2. \E f \in i..s : file[f].kind = "job_finished" /\ file[f].job = file[i].job
          BY <2>2, <2>4, <4>1, <4>2, <5>1 DEF StreamPairsUp, Paired, Is
        <5> QED
          BY <1>6, <4>2, <5>2 DEF Grows, Longer
      <4>4. CASE s < i
        <5>1. s \in 1..i - 1
          BY <4>2, <4>4
        <5>2. PICK f \in s..i : file[f].kind = "job_finished" /\ file[f].job = Current
          BY <2>2, <2>4, <4>1, <4>2, <5>1 DEF StreamPairsUp, Paired, Is
        <5>3. LineSoFar(f)
          BY <2>2, <4>2, <5>2
        <5> QED
          BY <2>1, <2>2, <5>2, <5>3 DEF LineSoFar, InJob
      <4>5. i # s
        BY <3>2, <4>1 DEF Is
      <4> QED
        BY <4>2, <4>3, <4>4, <4>5
    <3> QED
      BY <3>1, <3>2
  <2>5. ASSUME NEW i \in 1..Len(file), pc' = "next" PROVE LineSoFar(i)'
    <3>1. /\ file'[i] = file[i] /\ file[i].kind # "run_finished" /\ file[i].job \in Jobs
          /\ LineSoFar(i) /\ Len(file') = Len(file) + 1
      BY <1>6, <2>2 DEF Grows, Longer
    <3>2. file[i].kind = "job_started" =>
            /\ WasBefore(file[i].job)
            /\ \E f \in i..Len(file') : Is(f, "job_finished", file[i].job)'
      <4>1. file[i].kind = "job_started" => WasBefore(file[i].job)
        <5>1. file[i].kind = "job_started" =>
                file[i].job = Current \/ Before(at - 1, file[i].job)
          BY <2>1, <3>1 DEF LineSoFar, InJob
        <5>2. \A job : Before(at - 1, job) \/ job = Current => WasBefore(job)
          BY <2>3, <2>5
        <5> HIDE DEF WasBefore
        <5> QED
          BY <5>1, <5>2
      <4>2. file[i].kind = "job_started" =>
              \E f \in i..Len(file') : Is(f, "job_finished", file[i].job)'
        BY <2>4, <3>1 DEF Is
      <4> QED
        BY <4>1, <4>2
    <3>3. file[i].kind = "job_finished" =>
            file[i].outcome \in JobOutcomes /\ WasBefore(file[i].job)
      BY <2>1, <2>3, <2>5, <3>1 DEF LineSoFar, InJob
    <3> QED
      BY <2>5, <3>1, <3>2, <3>3 DEF LineSoFar, InJob, Before, Is
  <2>6. ASSUME NEW i \in 1..Len(file), pc' = "close" PROVE LineSoFar(i)'
    BY <1>6, <2>2, <2>6 DEF LineSoFar, Grows, Longer, InJob
  <2>7. ASSUME NEW i, i = Len(file) + 1 PROVE LineSoFar(i)'
    <3>1. /\ file'[i].kind = "job_finished" /\ file'[i].job = Current
          /\ file'[i].outcome = result
      BY <1>6, <2>7 DEF Grows, Longer
    <3>2. pc' = "next" => WasBefore(Current)
      BY <2>3
    <3> QED
      BY <2>1, <2>2, <3>1, <3>2 DEF LineSoFar, InJob, Before
  <2>8. file' \in Seq(Event) /\ \A i \in DOMAIN file' : LineSoFar(i)'
    <3>1. ASSUME NEW i \in DOMAIN file' PROVE LineSoFar(i)'
      BY <1>6, <2>1, <2>5, <2>6, <2>7 DEF Grows, Longer
    <3> QED
      BY <1>6, <3>1 DEF Grows, Longer
  <2> QED
    BY <2>1, <2>8 DEF StreamSoFar, InJob
<1>7. (\E result \in JobOutcomes :
          FinishJob(result) /\ Grows("job_finished", Current, Null, result))
        => StreamSoFar'
  BY <1>6
<1> QED
  BY <1>1, <1>2, <1>3, <1>4, <1>5, <1>7, CiCases

\* Lines that were paired stay so; the new one is left to show.
LEMMA StillPaired ==
  ASSUME IInv, Longer, pc \notin {"start", "exiting", "exited"},
         NEW n, n = Len(file) + 1, Paired(n)'
  PROVE  StreamPairsUp'
<1>1. /\ Len(file) \in Nat /\ file # Null
      /\ \A i \in 1..Len(file) : file[i].kind # "run_finished"
  <2>1. /\ file \in Seq(Event) /\ Len(file) \in Nat
        /\ \A i \in 1..Len(file) : file[i].kind # "run_finished"
    BY NotOver
  <2> QED
    BY <2>1
<1>2. \A i \in 1..Len(file) : Paired(i)
  BY <1>1 DEF IInv, ProcessInv, StreamPairsUp, Longer
<1>3. ASSUME NEW i \in 1..Len(file) PROVE Paired(i)'
  <2>1. Paired(i) /\ file[i].kind # "run_finished" /\ i \in Nat
    BY <1>1, <1>2
  <2>2. \A s \in 1..i : file'[s] = file[s]
    BY <1>1 DEF Longer
  <2>3. Window(i)' <=> Window(i)
    BY <1>1, <2>2 DEF Window
  <2>4. /\ file'[i] = file[i]
        /\ i > 1 => file'[i - 1] = file[i - 1]
        /\ \A s \in 1..i - 1 : file'[s] = file[s]
        /\ \A s \in 1..i - 1 : \A f \in s..i : file'[f] = file[f]
    BY <1>1, <2>1, <2>2
  <2> QED
    BY <2>1, <2>3, <2>4 DEF Paired
<1>4. \A i \in DOMAIN file' : Paired(i)'
  BY <1>3 DEF Longer
<1> QED
  BY <1>4 DEF StreamPairsUp

LEMMA CiStreamPairsUp ==
  ASSUME IInv, CiNext
  PROVE  StreamPairsUp'
<1>1. ASSUME pc \notin {"start", "exiting", "exited"}
      PROVE  /\ Len(file) \in Nat /\ at \in Nat /\ ~Before(at - 1, Current)
             /\ \A i \in 1..Len(file) : LineSoFar(i)
             /\ StreamPairsUp /\ StreamSoFar /\ Streaming
  BY <1>1, NotOver DEF IInv, ProcessInv
<1>2. ASSUME CreateFile PROVE StreamPairsUp'
  <2>1. file' = <<>>
    BY <1>2, CiPlaces
  <2> QED
    BY <2>1 DEF StreamPairsUp
<1>3. ASSUME Quiet PROVE StreamPairsUp'
  <2>1. file' = file /\ StreamPairsUp
    BY <1>3, QuietKeeps DEF IInv, ProcessInv
  <2> QED
    BY <2>1 DEF StreamPairsUp, Paired, Window
<1>4. ASSUME \/ CompileFails /\ Grows("run_finished", Null, Null, "pipeline_failure")
             \/ FinishRun /\ Grows("run_finished", Null, Null, RunOutcome)
      PROVE  StreamPairsUp'
  <2>1. Longer /\ pc \in {"boot", "close"} /\ file'[Len(file) + 1].kind = "run_finished"
    BY <1>4, CiPlaces DEF Grows
  <2>2. PICK n : n = Len(file) + 1
    OBVIOUS
  <2>3. Paired(n)'
    BY <2>1, <2>2 DEF Paired, Longer
  <2> QED
    BY <2>1, <2>2, <2>3, StillPaired
<1>5. ASSUME StartJob, Grows("job_started", Current, Null, Null)
      PROVE  StreamPairsUp'
  <2>1. Longer /\ pc = "next" /\ Len(file) \in Nat
    BY <1>5, CiPlaces DEF Grows, Longer
  <2>2. PICK n \in Nat : n = Len(file) + 1
    BY <2>1
  <2>3. file'[n].kind = "job_started" /\ file'[n].job = Current
    BY <1>5, <2>2 DEF Grows
  <2>4. ASSUME NEW s \in 1..n - 1, file'[s].kind = "job_started"
        PROVE  /\ file'[s].job # Current
               /\ \E f \in s..n : file'[f].kind = "job_finished" /\ file'[f].job = file'[s].job
    <3>1. s \in 1..Len(file) /\ file'[s] = file[s]
      BY <2>1, <2>2 DEF Longer
    <3>2. /\ Before(at - 1, file[s].job)
          /\ \E f \in s..Len(file) : Is(f, "job_finished", file[s].job)
      BY <1>1, <2>1, <2>4, <3>1 DEF LineSoFar
    <3>3. PICK f \in s..Len(file) : Is(f, "job_finished", file[s].job)
      BY <3>2
    <3>4. f \in s..n /\ file'[f] = file[f]
      BY <2>1, <2>2, <3>1 DEF Longer
    <3> QED
      BY <1>1, <2>1, <3>1, <3>2, <3>3, <3>4 DEF Is
  <2>5. Paired(n)'
    BY <2>3, <2>4 DEF Paired
  <2> QED
    BY <2>1, <2>2, <2>5, StillPaired
<1>6. ASSUME pc \in InJob, Longer, NEW m \in Nat, m = Len(file) + 1,
             file'[m].kind \in {"job_finished", "sh_started", "sh_finished"},
             file'[m].job = Current
      PROVE  Window(m)'
  <2>1. pc \notin {"start", "exiting", "exited"}
    BY <1>6 DEF InJob
  <2>2. PICK s \in 1..Len(file) : Is(s, "job_started", Current)
    BY <1>1, <1>6, <2>1 DEF StreamSoFar, Longer
  <2>3. s \in 1..m /\ file'[s].kind = "job_started" /\ file'[s].job = file'[m].job
    BY <1>6, <2>2 DEF Longer, Is
  <2>4. ASSUME NEW i \in 1..m - 1, file'[i].kind = "job_finished"
        PROVE  file'[i].job # Current
    <3>1. i \in 1..Len(file) /\ file'[i] = file[i]
      BY <1>6 DEF Longer
    <3>2. Before(at - 1, file[i].job)
      BY <1>1, <1>6, <2>1, <2>4, <3>1 DEF LineSoFar
    <3> QED
      BY <1>1, <2>1, <3>1, <3>2
  <2> QED
    BY <1>6, <2>3, <2>4 DEF Window
<1>7. ASSUME StartSh, Grows("sh_started", Current, attempts + 1, Null)
      PROVE  StreamPairsUp'
  <2>1. Longer /\ pc = "job" /\ Len(file) \in Nat
    BY <1>7, CiPlaces DEF Grows, Longer
  <2>2. PICK n \in Nat : n = Len(file) + 1
    BY <2>1
  <2>3. file'[n].kind = "sh_started" /\ file'[n].job = Current
    BY <1>7, <2>2 DEF Grows
  <2>4. Window(n)'
    BY <1>6, <2>1, <2>2, <2>3 DEF InJob
  <2>5. Paired(n)'
    BY <2>3, <2>4 DEF Paired
  <2> QED
    BY <2>1, <2>2, <2>5, StillPaired
<1>8. ASSUME FinishSh, Grows("sh_finished", Current, attempts, Null)
      PROVE  StreamPairsUp'
  <2>1. Longer /\ pc = "sh" /\ Len(file) \in Nat
    BY <1>8, CiPlaces DEF Grows, Longer
  <2>2. PICK n \in Nat : n = Len(file) + 1
    BY <2>1
  <2>3. file'[n].kind = "sh_finished" /\ file'[n].job = Current /\ file'[n].cmd = attempts
    BY <1>8, <2>2 DEF Grows
  <2>4. Window(n)'
    BY <1>6, <2>1, <2>2, <2>3 DEF InJob
  <2>5. /\ Len(file) > 0 /\ Is(Len(file), "sh_started", Current)
        /\ file[Len(file)].cmd = attempts
    BY <1>1, <2>1 DEF StreamSoFar
  <2>6. n > 1 /\ n - 1 = Len(file) /\ file'[n - 1] = file[Len(file)]
    BY <2>1, <2>2, <2>5 DEF Longer
  <2>7. Paired(n)'
    BY <2>3, <2>4, <2>5, <2>6 DEF Paired, Is
  <2> QED
    BY <2>1, <2>2, <2>7, StillPaired
<1>9. ASSUME NEW result \in JobOutcomes, FinishJob(result),
             Grows("job_finished", Current, Null, result)
      PROVE  StreamPairsUp'
  <2>1. Longer /\ pc = "job" /\ Len(file) \in Nat
    BY <1>9, CiPlaces DEF Grows, Longer
  <2>2. PICK n \in Nat : n = Len(file) + 1
    BY <2>1
  <2>3. file'[n].kind = "job_finished" /\ file'[n].job = Current
    BY <1>9, <2>2 DEF Grows
  <2>4. Window(n)'
    BY <1>6, <2>1, <2>2, <2>3 DEF InJob
  <2>5. Paired(n)'
    BY <2>3, <2>4 DEF Paired
  <2> QED
    BY <2>1, <2>2, <2>5, StillPaired
<1> QED
  BY <1>2, <1>3, <1>4, <1>5, <1>7, <1>8, <1>9, CiCases

\* A longer stream says the same of its earlier lines.
LEMMA LinesStay ==
  ASSUME Longer, NEW i \in 1..Len(file), NEW x
  PROVE  /\ JobLine(x, i)' <=> JobLine(x, i)
         /\ ShLine(x, i)' <=> ShLine(x, i)
<1>1. Len(file) \in Nat /\ \A s \in 1..i : file'[s] = file[s]
  BY DEF Longer
<1>2. file'[i] = file[i] /\ (i > 1 => file'[i - 1] = file[i - 1])
  BY <1>1
<1>3. JobLine(x, i)' <=> JobLine(x, i)
  BY <1>1, <1>2 DEF JobLine, Is
<1>4. ShLine(x, i)' <=> ShLine(x, i)
  BY <1>2 DEF ShLine
<1> QED
  BY <1>3, <1>4

LEMMA MoreJobs ==
  ASSUME Longer, JobsOfLines(ended, Len(file)), NEW n, n = Len(file) + 1,
         \/ file'[n].kind # "job_finished" /\ ended' = ended
         \/ \E row : ended' = ended \cup {row} /\ JobLine(row, n)'
  PROVE  JobsOfLines(ended, Len(file))'
<1>1. Len(file) \in Nat /\ Len(file') = n /\ 1..n = 1..Len(file) \cup {n}
  BY DEF Longer
<1>2. \A x : \A i \in 1..Len(file) : JobLine(x, i)' <=> JobLine(x, i)
  BY LinesStay
<1>3. /\ \A x \in ended : x \in ended' /\ \E l \in 1..n : JobLine(x, l)'
      /\ \A l \in 1..Len(file) : file'[l].kind = "job_finished" =>
           \E x \in ended' : JobLine(x, l)'
  <2>1. \A x \in ended : x \in ended'
    OBVIOUS
  <2>2. \A l \in 1..Len(file) : file'[l] = file[l]
    BY DEF Longer
  <2> QED
    BY <1>1, <1>2, <2>1, <2>2 DEF JobsOfLines
<1>4. CASE file'[n].kind # "job_finished" /\ ended' = ended
  BY <1>1, <1>3, <1>4 DEF JobsOfLines
<1>5. CASE \E row : ended' = ended \cup {row} /\ JobLine(row, n)'
  <2>1. PICK row : ended' = ended \cup {row} /\ JobLine(row, n)'
    BY <1>5
  <2>2. row \in ended' /\ n \in 1..n
    BY <1>1, <2>1
  <2>3. \A x \in ended' : \E l \in 1..n : JobLine(x, l)'
    BY <1>3, <2>1, <2>2
  <2>4. \A l \in 1..n : file'[l].kind = "job_finished" => \E x \in ended' : JobLine(x, l)'
    BY <1>1, <1>3, <2>1, <2>2
  <2> QED
    BY <1>1, <2>3, <2>4 DEF JobsOfLines
<1> QED
  BY <1>4, <1>5

LEMMA MoreCalls ==
  ASSUME Longer, CallsOfLines(calls, Len(file)), NEW n, n = Len(file) + 1,
         \/ file'[n].kind # "sh_finished" /\ calls' = calls
         \/ \E row : calls' = calls \cup {row} /\ ShLine(row, n)'
  PROVE  CallsOfLines(calls, Len(file))'
<1>1. Len(file) \in Nat /\ Len(file') = n /\ 1..n = 1..Len(file) \cup {n}
  BY DEF Longer
<1>2. \A x : \A i \in 1..Len(file) : ShLine(x, i)' <=> ShLine(x, i)
  BY LinesStay
<1>3. /\ \A x \in calls : x \in calls' /\ \E l \in 1..n : ShLine(x, l)'
      /\ \A l \in 1..Len(file) : file'[l].kind = "sh_finished" =>
           \E x \in calls' : ShLine(x, l)'
  <2>1. \A x \in calls : x \in calls'
    OBVIOUS
  <2>2. \A l \in 1..Len(file) : file'[l] = file[l]
    BY DEF Longer
  <2> QED
    BY <1>1, <1>2, <2>1, <2>2 DEF CallsOfLines
<1>4. CASE file'[n].kind # "sh_finished" /\ calls' = calls
  BY <1>1, <1>3, <1>4 DEF CallsOfLines
<1>5. CASE \E row : calls' = calls \cup {row} /\ ShLine(row, n)'
  <2>1. PICK row : calls' = calls \cup {row} /\ ShLine(row, n)'
    BY <1>5
  <2>2. row \in calls' /\ n \in 1..n
    BY <1>1, <2>1
  <2>3. \A x \in calls' : \E l \in 1..n : ShLine(x, l)'
    BY <1>3, <2>1, <2>2
  <2>4. \A l \in 1..n : file'[l].kind = "sh_finished" => \E x \in calls' : ShLine(x, l)'
    BY <1>1, <1>3, <2>1, <2>2
  <2> QED
    BY <1>1, <2>3, <2>4 DEF CallsOfLines
<1> QED
  BY <1>4, <1>5

LEMMA CiStreamIsComplete ==
  ASSUME IInv, CiNext
  PROVE  StreamIsComplete'
<1>1. ASSUME pc \notin {"start", "exiting", "exited"}
      PROVE  /\ JobsOfLines(ended, Len(file)) /\ CallsOfLines(calls, Len(file))
             /\ StreamSoFar /\ Streaming /\ DOMAIN file = 1..Len(file)
  BY <1>1, NotOver DEF IInv, ProcessInv, StreamIsComplete
<1>2. CASE CreateFile
  <2>1. file' = <<>> /\ ended' = {} /\ calls' = {}
    BY <1>2, CiPlaces DEF IInv, ProcessInv, JobsInOrder
  <2> QED
    BY <2>1 DEF StreamIsComplete, JobsOfLines, CallsOfLines
<1>3. CASE Quiet
  <2>1. /\ file' = file /\ ended' = ended /\ calls' = calls
        /\ Streaming' => Streaming
    BY <1>3, QuietKeeps
  <2>2. Streaming => JobsOfLines(ended, Len(file)) /\ CallsOfLines(calls, Len(file))
    BY DEF IInv, ProcessInv, StreamIsComplete
  <2>3. \A x, i : /\ JobLine(x, i)' <=> JobLine(x, i)
                  /\ ShLine(x, i)' <=> ShLine(x, i)
    BY <2>1 DEF JobLine, ShLine, Is
  <2>4. JobsOfLines(ended, Len(file)) => JobsOfLines(ended, Len(file))'
    BY <2>1, <2>3 DEF JobsOfLines
  <2>5. CallsOfLines(calls, Len(file)) => CallsOfLines(calls, Len(file))'
    BY <2>1, <2>3 DEF CallsOfLines
  <2> QED
    BY <2>1, <2>2, <2>4, <2>5 DEF StreamIsComplete
<1>4. ASSUME Longer, pc \notin {"start", "exiting", "exited"}, ended' = ended, calls' = calls,
             file'[Len(file) + 1].kind \notin {"job_finished", "sh_finished"}
      PROVE  StreamIsComplete'
  <2>1. PICK n : n = Len(file) + 1
    OBVIOUS
  <2>2. JobsOfLines(ended, Len(file))'
    BY <1>1, <1>4, <2>1, MoreJobs
  <2>3. CallsOfLines(calls, Len(file))'
    BY <1>1, <1>4, <2>1, MoreCalls
  <2> QED
    BY <2>2, <2>3 DEF StreamIsComplete
<1>5. CASE \/ CompileFails /\ Grows("run_finished", Null, Null, "pipeline_failure")
           \/ FinishRun /\ Grows("run_finished", Null, Null, RunOutcome)
  BY <1>4, <1>5, CiPlaces DEF Grows
<1>6. CASE \/ StartJob /\ Grows("job_started", Current, Null, Null)
           \/ StartSh /\ Grows("sh_started", Current, attempts + 1, Null)
  BY <1>4, <1>6, CiPlaces DEF Grows
<1>7. ASSUME FinishSh, Grows("sh_finished", Current, attempts, Null)
      PROVE  StreamIsComplete'
  <2>1. Longer /\ pc = "sh" /\ ended' = ended /\ Len(file) \in Nat
    BY <1>7, CiPlaces DEF Grows, Longer
  <2>2. PICK n \in Nat : n = Len(file) + 1
    BY <2>1
  <2>3. /\ Len(file) > 0 /\ file[Len(file)].cmd = attempts
    BY <1>1, <2>1 DEF StreamSoFar
  <2> DEFINE row == [job |-> Current, started |-> StartedAt, finished |-> clock,
                     cmd |-> attempts, exit_code |-> attempts]
  <2>4. calls' = calls \cup {row}
    BY <1>7 DEF FinishSh
  <2>5. /\ file'[n].kind = "sh_finished" /\ file'[n].job = Current /\ file'[n].cmd = attempts
        /\ file'[n].at = clock
    BY <1>7, <2>2 DEF Grows
  <2>6. n > 1 /\ n - 1 = Len(file) /\ file'[n - 1] = file[Len(file)]
    BY <2>1, <2>2, <2>3 DEF Longer
  <2>7. row = [job |-> file'[n].job, started |-> file'[n - 1].at, finished |-> file'[n].at,
               cmd |-> file'[n - 1].cmd, exit_code |-> file'[n].cmd]
    BY <2>3, <2>5, <2>6 DEF StartedAt
  <2> HIDE DEF row
  <2>8. \E x : calls' = calls \cup {x} /\ ShLine(x, n)'
    <3>1. PICK x : x = row
      OBVIOUS
    <3>2. calls' = calls \cup {x} /\ ShLine(x, n)'
      BY <2>4, <2>5, <2>6, <2>7, <3>1 DEF ShLine
    <3> QED
      BY <3>2
  <2>9. CallsOfLines(calls, Len(file))'
    BY <1>1, <2>1, <2>2, <2>8, MoreCalls
  <2>10. JobsOfLines(ended, Len(file))'
    BY <1>1, <2>1, <2>2, <2>5, MoreJobs
  <2> QED
    BY <2>9, <2>10 DEF StreamIsComplete
<1>8. ASSUME NEW result \in JobOutcomes, FinishJob(result),
             Grows("job_finished", Current, Null, result)
      PROVE  StreamIsComplete'
  <2>1. Longer /\ pc = "job" /\ calls' = calls /\ Len(file) \in Nat
    BY <1>8, CiPlaces DEF Grows, Longer
  <2>2. PICK n \in Nat : n = Len(file) + 1
    BY <2>1
  <2> DEFINE starts == {i \in DOMAIN file : /\ file[i].kind = "job_started"
                                            /\ file[i].job = Current}
             row == [job |-> Current, state |-> result, started |-> JobStartedAt,
                     finished |-> clock]
  <2>3. starts # {}
    BY <1>1, <2>1 DEF StreamSoFar, InJob, Is
  <2>4. PICK s \in starts : JobStartedAt = file[s].at
    BY <2>3 DEF JobStartedAt
  <2>5. /\ s \in 1..n /\ file'[s] = file[s]
        /\ file[s].kind = "job_started" /\ file[s].job = Current
    BY <2>1, <2>2, <2>4 DEF Longer
  <2>6. ended' = ended \cup {row}
    BY <1>8 DEF FinishJob
  <2>7. /\ file'[n].kind = "job_finished" /\ file'[n].job = Current
        /\ file'[n].outcome = result /\ file'[n].at = clock
    BY <1>8, <2>2 DEF Grows
  <2>8. row = [job |-> file'[n].job, state |-> file'[n].outcome,
               started |-> file'[s].at, finished |-> file'[n].at]
    BY <2>4, <2>5, <2>7
  <2> HIDE DEF row
  <2>9. \E x : ended' = ended \cup {x} /\ JobLine(x, n)'
    <3>1. PICK x : x = row
      OBVIOUS
    <3>2. ended' = ended \cup {x} /\ JobLine(x, n)'
      BY <2>5, <2>6, <2>7, <2>8, <3>1 DEF JobLine, Is
    <3> QED
      BY <3>2
  <2>10. JobsOfLines(ended, Len(file))'
    BY <1>1, <2>1, <2>2, <2>9, MoreJobs
  <2>11. CallsOfLines(calls, Len(file))'
    BY <1>1, <2>1, <2>2, <2>7, MoreCalls
  <2> QED
    BY <2>10, <2>11 DEF StreamIsComplete
<1> QED
  BY <1>2, <1>3, <1>5, <1>6, <1>7, <1>8, CiCases

-----------------------------------------------------------------------------
(* The commands *)

LEMMA CiCallsInOrder ==
  ASSUME IInv, CiNext
  PROVE  CallsInOrder'
<1>1. /\ CallsInOrder /\ attempts \in Nat /\ clock \in Nat
      /\ \A x \in calls : x.cmd \in Nat /\ x.started \in Nat
  BY DEF IInv, ProcessInv, CommandsInOrder, TypeOK, ShRow
<1>2. CASE UNCHANGED <<calls, attempts, clock>> /\ pc' # "sh"
  BY <1>1, <1>2 DEF CallsInOrder
<1>3. ASSUME StartSh, Grows("sh_started", Current, attempts + 1, Null)
      PROVE  CallsInOrder'
  <2>1. UNCHANGED <<calls, clock>> /\ attempts' = attempts + 1
    BY <1>3, CiPlaces
  <2>2. StartedAt' = clock
    BY <1>3 DEF Grows, Longer, StartedAt
  <2>3. \A x \in calls : x.cmd < attempts' /\ x.cmd <= attempts' /\ x.started <= StartedAt'
    BY <1>1, <2>1, <2>2 DEF CallsInOrder
  <2> QED
    BY <1>1, <2>1, <2>3 DEF CallsInOrder
<1>4. ASSUME FinishSh PROVE CallsInOrder'
  <2>1. /\ pc = "sh" /\ pc' = "log" /\ UNCHANGED <<clock, attempts>>
    BY <1>4, CiPlaces
  <2> DEFINE row == [job |-> Current, started |-> StartedAt, finished |-> clock,
                     cmd |-> attempts, exit_code |-> attempts]
  <2>2. calls' = calls \cup {row}
    BY <1>4 DEF FinishSh
  <2>3. /\ file \in Seq(Event) /\ Len(file) \in DOMAIN file
        /\ \A i \in DOMAIN file : file[i].at <= clock
    <3>1. Streaming /\ file \in Seq(Event) /\ Len(file) \in Nat
      BY <2>1, NotOver
    <3>2. Len(file) > 0
      BY <2>1, <3>1 DEF IInv, ProcessInv, StreamSoFar
    <3> QED
      BY <3>1, <3>2 DEF IInv, ProcessInv, CommandsInOrder, LinesInOrder
  <2>4. StartedAt \in Nat /\ StartedAt <= clock
    <3>1. file[Len(file)] \in Event
      BY <2>3
    <3> QED
      BY <2>3, <3>1 DEF StartedAt, Event
  <2>5. /\ row.cmd = attempts /\ row.exit_code = attempts /\ row.started = StartedAt
    OBVIOUS
  <2>6. \A x \in calls : x.cmd < attempts /\ x.started <= StartedAt
    BY <1>1, <2>1 DEF CallsInOrder
  <2> HIDE DEF row
  <2>7. \A x \in calls' : /\ x.cmd <= attempts /\ x.exit_code = x.cmd /\ x.started <= clock
    BY <1>1, <2>2, <2>4, <2>5 DEF CallsInOrder
  <2>8. \A x, y \in calls' : x.cmd = y.cmd => x = y
    <3>1. \A x, y \in calls : x.cmd = y.cmd => x = y
      BY <1>1 DEF CallsInOrder
    <3>2. \A x \in calls : x.cmd # row.cmd
      BY <1>1, <2>5, <2>6
    <3> QED
      BY <2>2, <3>1, <3>2
  <2>9. \A x, y \in calls' : x.cmd < y.cmd => x.started <= y.started
    <3>1. \A x, y \in calls : x.cmd < y.cmd => x.started <= y.started
      BY <1>1 DEF CallsInOrder
    <3>2. \A x \in calls : x.started <= row.started /\ ~(row.cmd < x.cmd)
      BY <1>1, <2>5, <2>6
    <3>3. ~(row.cmd < row.cmd)
      BY <1>1, <2>5
    <3> QED
      BY <2>2, <3>1, <3>2, <3>3
  <2> QED
    BY <2>1, <2>7, <2>8, <2>9 DEF CallsInOrder
<1>5. ASSUME ~FinishSh, ~(StartSh /\ Grows("sh_started", Current, attempts + 1, Null))
      PROVE  UNCHANGED <<calls, attempts, clock>> /\ pc' # "sh"
  BY <1>5, CiCases, CiPlaces, QuietKeeps DEF AfterJob
<1> QED
  BY <1>2, <1>3, <1>4, <1>5, CiCases

LEMMA CiLinesInOrder ==
  ASSUME IInv, CiNext
  PROVE  LinesInOrder'
<1>1. /\ LinesInOrder /\ attempts \in Nat /\ clock \in Nat
  BY DEF IInv, ProcessInv, CommandsInOrder, TypeOK
<1>2. CASE CreateFile
  BY <1>2, CiPlaces DEF LinesInOrder
<1>3. CASE Quiet
  <2>1. /\ UNCHANGED <<clock, attempts, file>> /\ pc' # "sh"
        /\ Streaming' => Streaming
    BY <1>3, QuietKeeps
  <2> QED
    BY <1>1, <2>1 DEF LinesInOrder
<1>4. ASSUME pc \notin {"start", "exiting", "exited"}, Longer, NEW n, n = Len(file) + 1,
             clock' = clock, file'[n].at = clock
      PROVE  /\ n \in Nat /\ Len(file') = n /\ DOMAIN file' = 1..n
             /\ 1..n = 1..Len(file) \cup {n}
             /\ Len(file) \in Nat /\ file'[n].at <= clock'
             /\ \A i \in 1..Len(file) :
                  /\ file'[i] = file[i] /\ file[i].at <= clock'
                  /\ file[i].kind = "sh_finished" =>
                       /\ file[i].cmd \in 1..attempts /\ (pc = "sh" => file[i].cmd # attempts)
                       /\ \A l \in i + 1..Len(file) :
                            file[l].kind = "sh_finished" => file[i].cmd < file[l].cmd
  <2>1. Streaming
    BY <1>4, NotOver
  <2> QED
    BY <1>1, <1>4, <2>1 DEF LinesInOrder, Longer
<1>5. ASSUME pc \notin {"start", "exiting", "exited"}, Longer, NEW n, n = Len(file) + 1,
             clock' = clock, file'[n].at = clock, file'[n].kind # "sh_finished",
             \/ attempts' = attempts /\ pc' # "sh"
             \/ attempts' = attempts + 1
      PROVE  LinesInOrder'
  <2>1. \A i \in 1..Len(file) : file[i].kind = "sh_finished" =>
          /\ file[i].cmd \in 1..attempts' /\ (pc' = "sh" => file[i].cmd # attempts')
          /\ \A l \in i + 1..n :
                file'[l].kind = "sh_finished" => file[i].cmd < file'[l].cmd
    <3>1. SUFFICES ASSUME NEW i \in 1..Len(file), file[i].kind = "sh_finished"
                   PROVE  /\ file[i].cmd \in 1..attempts'
                          /\ pc' = "sh" => file[i].cmd # attempts'
                          /\ \A l \in i + 1..n :
                                file'[l].kind = "sh_finished" => file[i].cmd < file'[l].cmd
      OBVIOUS
    <3>2. file[i].cmd \in 1..attempts
      BY <1>4, <1>5, <3>1
    <3>3. file[i].cmd \in 1..attempts' /\ (pc' = "sh" => file[i].cmd # attempts')
      BY <1>1, <1>5, <3>2
    <3>4. ASSUME NEW l \in i + 1..n, file'[l].kind = "sh_finished"
          PROVE  file[i].cmd < file'[l].cmd
      <4>1. l \in i + 1..Len(file) /\ file'[l] = file[l]
        BY <1>4, <1>5, <3>4
      <4> QED
        BY <1>4, <1>5, <3>1, <3>4, <4>1
    <3> QED
      BY <3>3, <3>4
  <2>2. \A i \in 1..n :
           /\ file'[i].at <= clock'
           /\ file'[i].kind = "sh_finished" =>
                /\ file'[i].cmd \in 1..attempts' /\ (pc' = "sh" => file'[i].cmd # attempts')
                /\ \A l \in i + 1..n :
                     file'[l].kind = "sh_finished" => file'[i].cmd < file'[l].cmd
    BY <1>4, <1>5, <2>1
  <2> QED
    BY <1>4, <1>5, <2>2 DEF LinesInOrder
<1>6. CASE \/ CompileFails /\ Grows("run_finished", Null, Null, "pipeline_failure")
           \/ FinishRun /\ Grows("run_finished", Null, Null, RunOutcome)
  BY <1>5, <1>6, CiPlaces DEF Grows
<1>7. CASE StartJob /\ Grows("job_started", Current, Null, Null)
  BY <1>5, <1>7, CiPlaces DEF Grows
<1>8. CASE StartSh /\ Grows("sh_started", Current, attempts + 1, Null)
  BY <1>5, <1>8, CiPlaces DEF Grows
<1>9. ASSUME NEW result \in JobOutcomes, FinishJob(result),
             Grows("job_finished", Current, Null, result)
      PROVE  LinesInOrder'
  <2>1. pc = "job" /\ UNCHANGED <<clock, attempts>> /\ pc' # "sh"
    BY <1>9, CiPlaces DEF AfterJob
  <2> QED
    BY <1>5, <1>9, <2>1 DEF Grows
<1>10. ASSUME FinishSh, Grows("sh_finished", Current, attempts, Null)
       PROVE  LinesInOrder'
  <2>1. /\ pc = "sh" /\ pc' = "log" /\ UNCHANGED <<clock, attempts>>
    BY <1>10, CiPlaces
  <2>2. PICK n : n = Len(file) + 1
    OBVIOUS
  <2>3. Longer /\ file'[n].kind = "sh_finished" /\ file'[n].cmd = attempts
        /\ file'[n].at = clock
    BY <1>10, <2>2 DEF Grows
  <2>4. attempts \in 1..attempts
    BY <1>1, <2>1 DEF IInv, ProcessInv, CommandsInOrder
  <2>5. \A i \in 1..Len(file) : file[i].kind = "sh_finished" =>
          /\ file[i].cmd \in 1..attempts /\ file[i].cmd < attempts
          /\ \A l \in i + 1..n :
                file'[l].kind = "sh_finished" => file[i].cmd < file'[l].cmd
    BY <1>1, <1>4, <2>1, <2>2, <2>3
  <2>6. \A i \in 1..n :
           /\ file'[i].at <= clock'
           /\ file'[i].kind = "sh_finished" =>
                /\ file'[i].cmd \in 1..attempts
                /\ \A l \in i + 1..n :
                     file'[l].kind = "sh_finished" => file'[i].cmd < file'[l].cmd
    BY <1>4, <2>1, <2>2, <2>3, <2>4, <2>5
  <2> QED
    BY <1>4, <2>1, <2>2, <2>3, <2>6 DEF LinesInOrder
<1> QED
  BY <1>2, <1>3, <1>6, <1>7, <1>8, <1>9, <1>10, CiCases

LEMMA CiCommandsInOrder ==
  ASSUME IInv, CiNext
  PROVE  CommandsInOrder'
<1>1. pc' \in {"sh", "log"} => attempts' \in 1..MaxCalls
  <2>1. CASE StartSh
    BY <2>1, BoundsAssumption DEF StartSh, IInv, TypeOK
  <2>2. CASE FinishSh
    BY <2>2 DEF FinishSh, IInv, ProcessInv, CommandsInOrder
  <2>3. ASSUME ~StartSh, ~FinishSh PROVE pc' \notin {"sh", "log"}
    BY <2>3, CiCases, CiPlaces, QuietKeeps DEF AfterJob
  <2> QED
    BY <2>1, <2>2, <2>3
<1> QED
  BY <1>1, CiCallsInOrder, CiLinesInOrder DEF CommandsInOrder

-----------------------------------------------------------------------------
(* The logs *)

LEMMA CiLogsBounded ==
  ASSUME IInv, CiNext
  PROVE  LogsBounded'
<1>1. /\ LogsBounded /\ attempts \in Nat /\ recorded \in [Jobs -> Nat] /\ Current \in Jobs
      /\ \A c \in unlogged : c \in Nat
  <2>1. Current \in Jobs
    BY Running DEF IInv, ProcessInv
  <2> QED
    BY <2>1 DEF IInv, ProcessInv, LogsInOrder, TypeOK
<1>2. ASSUME UNCHANGED <<calls, attempts, recorded, unlogged>>,
             pc' \notin {"sh", "log"}, pc' = "boot" => pc = "start", pc' # "start"
      PROVE  LogsBounded'
  <2>1. \A j \in Jobs : recorded[j] <= attempts
    BY <1>1 DEF LogsBounded
  <2>2. \A c \in unlogged : c <= attempts
    BY <1>1 DEF LogsBounded
  <2> QED
    BY <1>1, <1>2, <2>1, <2>2 DEF LogsBounded
<1>3. CASE StartSh
  <2>1. /\ pc = "job" /\ pc' = "sh" /\ attempts' = attempts + 1
        /\ UNCHANGED <<calls, recorded, unlogged>>
    BY <1>3 DEF StartSh, RunsLua
  <2>2. \A j \in Jobs : recorded[j] <= attempts' - 1
    BY <1>1, <2>1 DEF LogsBounded
  <2>3. \A c \in unlogged : c <= attempts' /\ c < attempts'
    BY <1>1, <2>1 DEF LogsBounded
  <2> QED
    BY <1>1, <2>1, <2>2, <2>3 DEF LogsBounded
<1>4. CASE FinishSh
  <2>1. /\ pc = "sh" /\ pc' = "log" /\ UNCHANGED <<attempts, recorded, unlogged>>
    BY <1>4 DEF FinishSh
  <2>2. IsFiniteSet(calls')
    <3>1. \E row : calls' = calls \cup {row}
      BY <1>4 DEF FinishSh
    <3> QED
      BY <1>1, <3>1, FS_AddElement DEF LogsBounded
  <2> QED
    BY <1>1, <2>1, <2>2 DEF LogsBounded
<1>5. CASE WriteLog
  <2>1. /\ pc = "log" /\ pc' = "job" /\ UNCHANGED <<calls, attempts, unlogged>>
        /\ recorded' = [recorded EXCEPT ![Current] = @ + 1]
    BY <1>5 DEF WriteLog
  <2>2. \A j \in Jobs : recorded[j] <= attempts - 1
    BY <1>1, <2>1 DEF LogsBounded
  <2>3. \A j \in Jobs : recorded'[j] = recorded[j] \/ recorded'[j] = recorded[j] + 1
    BY <1>1, <2>1
  <2>4. \A j \in Jobs : recorded[j] \in Nat
    BY <1>1
  <2>5. \A j \in Jobs : recorded'[j] <= attempts
    BY <1>1, <2>2, <2>3, <2>4
  <2>6. \A c \in unlogged : c <= attempts
    BY <1>1 DEF LogsBounded
  <2> QED
    BY <1>1, <2>1, <2>5, <2>6 DEF LogsBounded
<1>6. CASE LogFails
  <2>1. /\ pc = "log" /\ pc' = "job" /\ UNCHANGED <<calls, attempts, recorded>>
        /\ unlogged' = unlogged \cup {attempts}
    BY <1>6 DEF LogFails
  <2>2. \A j \in Jobs : recorded[j] \in Nat /\ recorded[j] <= attempts
    BY <1>1 DEF LogsBounded
  <2>3. \A c \in unlogged' : c <= attempts
    BY <1>1, <2>1 DEF LogsBounded
  <2> QED
    BY <1>1, <2>1, <2>2, <2>3 DEF LogsBounded
<1>7. CASE \/ CreateFile \/ FailEarly \/ CompileFails \/ Compile \/ StartJob \/ SpawnFails
           \/ FinishRun \/ Exit \/ Quit \/ Die
  BY <1>2, <1>7 DEF CreateFile, FailEarly, CompileFails, Compile, StartJob, SpawnFails,
       FinishRun, Exit, Quit, Die, Leave
<1>8. ASSUME NEW result \in JobOutcomes, FinishJob(result) PROVE LogsBounded'
  BY <1>2, <1>8 DEF FinishJob, AfterJob
<1> QED
  BY <1>3, <1>4, <1>5, <1>6, <1>7, <1>8 DEF CiNext

\* The current job has not ended yet.
LEMMA CurrentGoesOn ==
  ASSUME IInv, pc \in InJob
  PROVE  \A e \in ended : e.job # Current
<1>1. EndedThrough(at - 1) /\ ~Before(at - 1, Current)
  BY NotOver DEF IInv, ProcessInv, JobsInOrder, InJob
<1> QED
  BY <1>1 DEF EndedThrough, Before

\* The steps that end a command or a job add it to what happened.
LEMMA FinishedSh ==
  ASSUME FinishSh
  PROVE  /\ pc = "sh" /\ pc' = "log" /\ Current' = Current
         /\ UNCHANGED <<ended, order, at, attempts, recorded, logs, unlogged>>
         /\ \E row : calls' = calls \cup {row} /\ row.cmd = attempts /\ row.job = Current
<1> DEFINE row == [job |-> Current, started |-> StartedAt, finished |-> clock,
                   cmd |-> attempts, exit_code |-> attempts]
<1>1. calls' = calls \cup {row} /\ row.cmd = attempts /\ row.job = Current
  BY DEF FinishSh
<1> HIDE DEF row
<1>2. \E r : calls' = calls \cup {r} /\ r.cmd = attempts /\ r.job = Current
  BY <1>1
<1> QED
  BY <1>2 DEF FinishSh, Current

LEMMA FinishedJob ==
  ASSUME NEW result \in JobOutcomes, FinishJob(result)
  PROVE  /\ pc = "job" /\ pc' \in {"next", "close"}
         /\ UNCHANGED <<calls, attempts, recorded, logs, unlogged, order>>
         /\ \E row : ended' = ended \cup {row} /\ row.job = Current
<1> DEFINE row == [job |-> Current, state |-> result, started |-> JobStartedAt,
                   finished |-> clock]
<1>1. ended' = ended \cup {row} /\ row.job = Current
  BY DEF FinishJob
<1> HIDE DEF row
<1>2. \E r : ended' = ended \cup {r} /\ r.job = Current
  BY <1>1
<1> QED
  BY <1>2 DEF FinishJob, AfterJob

LEMMA OthersKeep ==
  ASSUME CiNext, ~FinishSh, \A result \in JobOutcomes : ~FinishJob(result)
  PROVE  /\ UNCHANGED <<calls, ended, order, at>> /\ Current' = Current
         /\ pc' = "next" => pc = "boot"
         /\ pc' \in InJob => pc \in {"next"} \cup InJob
         /\ pc' # "log"
<1>1. CASE FailEarly \/ Compile \/ SpawnFails \/ WriteLog \/ LogFails \/ Exit \/ Quit \/ Die
  BY <1>1 DEF FailEarly, Compile, SpawnFails, WriteLog, LogFails, Exit, Quit, Die, Leave,
       InJob, Current
<1>2. CASE CreateFile \/ CompileFails \/ StartJob \/ StartSh \/ FinishRun
  BY <1>2 DEF CreateFile, CompileFails, StartJob, StartSh, RunsLua, FinishRun, InJob, Current
<1> QED
  BY <1>1, <1>2 DEF CiNext

LEMMA CiCallsHaveJobs ==
  ASSUME IInv, CiNext
  PROVE  CallsHaveJobs'
<1>1. /\ CallsHaveJobs
      /\ pc \in {"start", "boot"} => calls = {}
  BY DEF IInv, ProcessInv, LogsInOrder, JobsInOrder
<1>2. CASE FinishSh
  <2>1. PICK row : calls' = calls \cup {row} /\ row.cmd = attempts /\ row.job = Current
    BY <1>2, FinishedSh
  <2>2. /\ pc = "sh" /\ pc' = "log" /\ Current' = Current /\ attempts' = attempts
        /\ ended' = ended
    BY <1>2, FinishedSh
  <2>3. \A x \in calls' : x.job = Current \/ \E e \in ended : e.job = x.job
    BY <1>1, <2>1, <2>2 DEF CallsHaveJobs, InJob
  <2>4. row \in calls' /\ row.cmd = attempts' /\ row.job = Current'
    BY <2>1, <2>2
  <2> QED
    BY <2>2, <2>3, <2>4 DEF CallsHaveJobs
<1>3. ASSUME NEW result \in JobOutcomes, FinishJob(result) PROVE CallsHaveJobs'
  <2>1. PICK row : ended' = ended \cup {row} /\ row.job = Current
    BY <1>3, FinishedJob
  <2>2. pc = "job" /\ pc' \in {"next", "close"} /\ calls' = calls
    BY <1>3, FinishedJob
  <2>3. \A x \in calls : \E e \in ended' : e.job = x.job
    BY <1>1, <2>1, <2>2 DEF CallsHaveJobs, InJob
  <2> QED
    BY <2>2, <2>3 DEF CallsHaveJobs, InJob
<1>4. CASE ~FinishSh /\ \A result \in JobOutcomes : ~FinishJob(result)
  <2>1. /\ UNCHANGED <<calls, ended>> /\ Current' = Current
        /\ pc' = "next" => pc = "boot"
        /\ pc' \in InJob => pc \in {"next"} \cup InJob
        /\ pc' # "log"
    BY <1>4, OthersKeep
  <2> QED
    BY <1>1, <2>1 DEF CallsHaveJobs
<1> QED
  BY <1>2, <1>3, <1>4

\* Calls up to a command, and calls of a job.
LEMMA CallSets ==
  ASSUME IInv
  PROVE  /\ IsFiniteSet(calls)
         /\ \A x : IsFiniteSet(CallsUpTo(x)) /\ Cardinality(CallsUpTo(x)) \in Nat
         /\ \A j : IsFiniteSet(CallsOf(j)) /\ Cardinality(CallsOf(j)) \in Nat
         /\ \A x \in calls : x.cmd \in Nat /\ x.job \in Jobs
         /\ \A x \in calls : x.cmd <= attempts /\ (pc = "sh" => x.cmd < attempts)
         /\ \A x, y \in calls : x.cmd = y.cmd => x = y
         /\ attempts \in Nat /\ recorded \in [Jobs -> Nat] /\ Current \in Jobs
<1>1. IsFiniteSet(calls)
  BY DEF IInv, ProcessInv, LogsInOrder, LogsBounded
<1>2. \A x : IsFiniteSet(CallsUpTo(x)) /\ Cardinality(CallsUpTo(x)) \in Nat
  <2>1. \A x : CallsUpTo(x) \subseteq calls
    BY DEF CallsUpTo
  <2> QED
    BY <1>1, <2>1, FS_Subset, FS_CardinalityType
<1>3. \A j : IsFiniteSet(CallsOf(j)) /\ Cardinality(CallsOf(j)) \in Nat
  <2>1. \A j : CallsOf(j) \subseteq calls
    BY DEF CallsOf
  <2> QED
    BY <1>1, <2>1, FS_Subset, FS_CardinalityType
<1>4. /\ \A x \in calls : x.cmd \in Nat /\ x.job \in Jobs
      /\ attempts \in Nat /\ recorded \in [Jobs -> Nat]
  BY DEF IInv, TypeOK, ShRow
<1>5. /\ \A x \in calls : x.cmd <= attempts /\ (pc = "sh" => x.cmd < attempts)
      /\ \A x, y \in calls : x.cmd = y.cmd => x = y
  BY DEF IInv, ProcessInv, CommandsInOrder, CallsInOrder
<1>6. Current \in Jobs
  BY Running DEF IInv, ProcessInv
<1> QED
  BY <1>1, <1>2, <1>3, <1>4, <1>5, <1>6

LEMMA CiEarlyLogs ==
  ASSUME IInv, CiNext
  PROVE  EarlyLogs'
<1>1. EarlyLogs /\ CallsHaveJobs /\ AllRecorded
      /\ (pc \in {"start", "boot"} => calls = {})
  BY DEF IInv, ProcessInv, LogsInOrder, JobsInOrder
<1>2. CASE FinishSh
  <2>1. PICK row : calls' = calls \cup {row} /\ row.cmd = attempts /\ row.job = Current
    BY <1>2, FinishedSh
  <2>2. /\ pc = "sh" /\ pc' = "log"
        /\ UNCHANGED <<ended, order, at, attempts, recorded, logs, unlogged>>
    BY <1>2, FinishedSh
  <2>3. ~Written(row)'
    BY <2>1, <2>2, CurrentGoesOn DEF Written, InJob
  <2>4. ASSUME NEW x \in calls PROVE CallsUpTo(x)' = CallsUpTo(x)
    <3>1. ~(row.cmd <= x.cmd)
      BY <2>1, <2>2, CallSets
    <3> QED
      BY <2>1, <3>1 DEF CallsUpTo
  <2>5. ASSUME NEW x \in calls, Unbroken(CallsUpTo(x))'
        PROVE  LogKept(x, Cardinality(CallsUpTo(x)))'
    <3>1. Written(x) /\ Unbroken(CallsUpTo(x))
      BY <2>2, <2>4, <2>5 DEF Written, Unbroken
    <3>2. LogKept(x, Cardinality(CallsUpTo(x)))
      BY <1>1, <3>1 DEF EarlyLogs
    <3> QED
      BY <2>2, <2>4, <3>2 DEF LogKept
  <2> QED
    BY <2>1, <2>3, <2>5 DEF EarlyLogs
<1>3. CASE WriteLog
  <2>1. /\ pc = "log" /\ pc' = "job"
        /\ PutLog(Current, LogNumber(Current), attempts)
        /\ recorded' = [recorded EXCEPT ![Current] = @ + 1]
        /\ UNCHANGED <<calls, attempts, unlogged, ended, order, at>>
    BY <1>3 DEF WriteLog
  <2>2. PICK r \in Nat : r = recorded[Current]
    BY CallSets
  <2>3. /\ logs' = {l \in logs : l.job # Current \/ l.n # r + 1}
                      \cup {[job |-> Current, n |-> r + 1, cmd |-> attempts]}
        /\ recorded'[Current] = r + 1
        /\ \A j \in Jobs : j # Current => recorded'[j] = recorded[j]
    BY <2>1, <2>2, CallSets DEF PutLog, LogNumber
  <2>4. ASSUME NEW x \in calls, Unbroken(CallsUpTo(x))'
        PROVE  LogKept(x, Cardinality(CallsUpTo(x)))'
    <3>1. /\ CallsUpTo(x)' = CallsUpTo(x) /\ Unbroken(CallsUpTo(x))
      BY <2>1, <2>4 DEF CallsUpTo, Unbroken
    <3>2. PICK n \in Nat : n = Cardinality(CallsUpTo(x))
      BY CallSets
    <3>3. CASE x.cmd # attempts
      <4>1. LogKept(x, n)
        BY <1>1, <2>1, <3>1, <3>2, <3>3 DEF EarlyLogs, Written
      <4>2. n <= recorded'[x.job]
        <5>1. n <= recorded[x.job] /\ recorded[x.job] \in Nat /\ x.job \in Jobs
          BY <4>1, CallSets DEF LogKept
        <5> QED
          BY <2>2, <2>3, <5>1
      <4>3. x.job # Current \/ n # r + 1
        BY <2>2, <3>2, <4>1 DEF LogKept
      <4>4. [job |-> x.job, n |-> n, cmd |-> x.cmd] \in logs'
        BY <2>3, <4>1, <4>3 DEF LogKept
      <4>5. \A l \in logs' : l.job = x.job /\ l.n = n => l.cmd = x.cmd
        BY <2>3, <4>1, <4>3 DEF LogKept
      <4> QED
        BY <3>1, <3>2, <4>2, <4>4, <4>5 DEF LogKept
    <3>4. CASE x.cmd = attempts
      <4>1. PICK z \in calls : z.cmd = attempts /\ z.job = Current
        BY <1>1, <2>1 DEF CallsHaveJobs
      <4>2. x = z
        BY <3>4, <4>1, CallSets
      <4>3. CallsUpTo(x) = CallsOf(Current)
        BY <3>4, <4>1, <4>2, CallSets DEF CallsUpTo, CallsOf
      <4>4. n = r + 1
        BY <1>1, <2>1, <2>2, <3>1, <3>2, <4>3, CallSets DEF AllRecorded, InJob
      <4>5. LogKept(x, n)'
        BY <2>3, <3>4, <4>1, <4>2, <4>4 DEF LogKept
      <4> QED
        BY <3>1, <3>2, <4>5
    <3> QED
      BY <3>3, <3>4
  <2> QED
    BY <2>1, <2>4 DEF EarlyLogs
<1>4. CASE LogFails
  <2>1. /\ pc = "log" /\ pc' = "job"
        /\ \/ PutLog(Current, LogNumber(Current), Null)
           \/ UNCHANGED logs
        /\ unlogged' = unlogged \cup {attempts}
        /\ UNCHANGED <<calls, attempts, recorded, ended, order, at>>
    BY <1>4 DEF LogFails
  <2>2. PICK r \in Nat : r = recorded[Current]
    BY CallSets
  <2>3. \/ logs' = logs
        \/ logs' = {l \in logs : l.job # Current \/ l.n # r + 1}
                      \cup {[job |-> Current, n |-> r + 1, cmd |-> Null]}
    BY <2>1, <2>2 DEF PutLog, LogNumber
  <2>4. ASSUME NEW x \in calls, Unbroken(CallsUpTo(x))'
        PROVE  LogKept(x, Cardinality(CallsUpTo(x)))'
    <3>1. CallsUpTo(x)' = CallsUpTo(x) /\ Unbroken(CallsUpTo(x)) /\ x \in CallsUpTo(x)
      BY <2>1, <2>4, CallSets DEF CallsUpTo, Unbroken
    <3>2. x.cmd # attempts
      BY <2>1, <2>4, <3>1 DEF Unbroken
    <3>3. PICK n \in Nat : n = Cardinality(CallsUpTo(x))
      BY CallSets
    <3>4. LogKept(x, n)
      BY <1>1, <2>1, <3>1, <3>2, <3>3 DEF EarlyLogs, Written
    <3>5. x.job # Current \/ n # r + 1
      BY <2>2, <3>3, <3>4 DEF LogKept
    <3>6. [job |-> x.job, n |-> n, cmd |-> x.cmd] \in logs'
      BY <2>3, <3>4, <3>5 DEF LogKept
    <3>7. \A l \in logs' : l.job = x.job /\ l.n = n => l.cmd = x.cmd
      BY <2>3, <3>4, <3>5 DEF LogKept
    <3> QED
      BY <2>1, <3>1, <3>3, <3>4, <3>6, <3>7 DEF LogKept
  <2> QED
    BY <2>1, <2>4 DEF EarlyLogs
<1>5. ASSUME UNCHANGED <<calls, recorded, logs, unlogged>>,
             \A x \in calls : Written(x)' => Written(x)
      PROVE  EarlyLogs'
  <2>1. \A x \in calls : CallsUpTo(x)' = CallsUpTo(x)
    BY <1>5 DEF CallsUpTo
  <2>2. ASSUME NEW x \in calls, Written(x)', Unbroken(CallsUpTo(x))'
        PROVE  LogKept(x, Cardinality(CallsUpTo(x)))'
    <3>1. Written(x) /\ Unbroken(CallsUpTo(x))
      BY <1>5, <2>1, <2>2 DEF Unbroken
    <3>2. LogKept(x, Cardinality(CallsUpTo(x)))
      BY <1>1, <3>1 DEF EarlyLogs
    <3> QED
      BY <1>5, <2>1, <3>2 DEF LogKept
  <2> QED
    BY <1>5, <2>2 DEF EarlyLogs
<1>6. CASE StartJob \/ StartSh \/ SpawnFails \/ Compile \/ CreateFile \/ CompileFails
  <2>1. /\ UNCHANGED <<calls, recorded, logs, unlogged>>
        /\ pc \in {"next", "job", "sh", "start", "boot"}
    BY <1>6 DEF StartJob, StartSh, RunsLua, SpawnFails, Compile, CreateFile, CompileFails
  <2>2. \A x \in calls : Written(x)
    BY <1>1, <2>1 DEF CallsHaveJobs, Written
  <2> QED
    BY <1>5, <2>1, <2>2
<1>7. CASE FailEarly \/ Exit \/ Quit \/ Die \/ FinishRun
  <2>1. /\ UNCHANGED <<calls, recorded, logs, unlogged, ended>>
        /\ pc' \in {"exiting", "exited"}
    BY <1>7 DEF FailEarly, Exit, Quit, Die, FinishRun, Leave
  <2>2. \A x \in calls : Written(x)' => Written(x)
    BY <2>1 DEF Written
  <2> QED
    BY <1>5, <2>1, <2>2
<1>8. ASSUME NEW result \in JobOutcomes, FinishJob(result) PROVE EarlyLogs'
  <2>1. pc = "job" /\ UNCHANGED <<calls, recorded, logs, unlogged>>
    BY <1>8, FinishedJob
  <2>2. \A x \in calls : Written(x)
    BY <2>1 DEF Written
  <2> QED
    BY <1>5, <2>1, <2>2
<1> QED
  BY <1>2, <1>3, <1>4, <1>6, <1>7, <1>8 DEF CiNext

LEMMA CiAllRecorded ==
  ASSUME IInv, CiNext
  PROVE  AllRecorded'
<1>1. /\ AllRecorded /\ CallsHaveJobs /\ LogsBounded
      /\ (pc \in {"start", "boot"} => calls = {})
  BY DEF IInv, ProcessInv, LogsInOrder, JobsInOrder
<1>2. CASE FinishSh
  <2>1. PICK row : calls' = calls \cup {row} /\ row.cmd = attempts /\ row.job = Current
    BY <1>2, FinishedSh
  <2>2. /\ pc = "sh" /\ pc' = "log" /\ Current' = Current
        /\ UNCHANGED <<recorded, unlogged>>
    BY <1>2, FinishedSh
  <2>3. row \notin calls
    BY <2>1, <2>2, CallSets
  <2>4. ASSUME NEW j \in Jobs, Unbroken(CallsOf(j))'
        PROVE  Cardinality(CallsOf(j)') =
                 IF j = Current THEN recorded[j] + 1 ELSE recorded[j]
    <3>1. CallsOf(j)' = IF j = Current THEN CallsOf(j) \cup {row} ELSE CallsOf(j)
      BY <2>1 DEF CallsOf
    <3>2. Unbroken(CallsOf(j))
      BY <2>2, <2>4, <3>1 DEF Unbroken
    <3>3. Cardinality(CallsOf(j)) = recorded[j]
      BY <1>1, <2>2, <3>2 DEF AllRecorded, InJob
    <3>4. row \notin CallsOf(j) /\ IsFiniteSet(CallsOf(j))
      BY <2>3, CallSets DEF CallsOf
    <3>5. Cardinality(CallsOf(j) \cup {row}) = recorded[j] + 1
      BY <3>3, <3>4, FS_AddElement
    <3> QED
      BY <3>1, <3>3, <3>5
  <2> QED
    BY <2>2, <2>4 DEF AllRecorded
<1>3. CASE WriteLog
  <2>1. /\ pc = "log" /\ pc' = "job" /\ Current' = Current
        /\ recorded' = [recorded EXCEPT ![Current] = @ + 1]
        /\ UNCHANGED <<calls, unlogged>>
    BY <1>3 DEF WriteLog, Current
  <2>2. ASSUME NEW j \in Jobs, Unbroken(CallsOf(j))'
        PROVE  Cardinality(CallsOf(j)') = recorded'[j]
    <3>1. CallsOf(j)' = CallsOf(j) /\ Unbroken(CallsOf(j))
      BY <2>1, <2>2 DEF CallsOf, Unbroken
    <3>2. Cardinality(CallsOf(j)) = IF j = Current THEN recorded[j] + 1 ELSE recorded[j]
      BY <1>1, <2>1, <3>1 DEF AllRecorded, InJob
    <3>3. recorded'[j] = IF j = Current THEN recorded[j] + 1 ELSE recorded[j]
      BY <2>1, CallSets
    <3> QED
      BY <3>1, <3>2, <3>3
  <2> QED
    BY <2>1, <2>2 DEF AllRecorded
<1>4. CASE LogFails
  <2>1. /\ pc = "log" /\ pc' = "job" /\ Current' = Current
        /\ unlogged' = unlogged \cup {attempts}
        /\ UNCHANGED <<calls, recorded>>
    BY <1>4 DEF LogFails, Current
  <2>2. ASSUME NEW j \in Jobs, Unbroken(CallsOf(j))'
        PROVE  Cardinality(CallsOf(j)') = recorded'[j]
    <3>1. CallsOf(j)' = CallsOf(j) /\ Unbroken(CallsOf(j))
      BY <2>1, <2>2 DEF CallsOf, Unbroken
    <3>2. j # Current
      <4>1. PICK z \in calls : z.cmd = attempts /\ z.job = Current
        BY <1>1, <2>1 DEF CallsHaveJobs
      <4> QED
        BY <2>1, <2>2, <3>1, <4>1 DEF CallsOf, Unbroken
    <3> QED
      BY <1>1, <2>1, <3>1, <3>2 DEF AllRecorded, InJob
  <2> QED
    BY <2>1, <2>2 DEF AllRecorded
<1>5. ASSUME UNCHANGED <<calls, recorded, unlogged>>, pc' # "log", pc # "log",
             pc' \in {"next"} \cup InJob => pc \in {"next"} \cup InJob
      PROVE  AllRecorded'
  <2>1. \A j \in Jobs : CallsOf(j)' = CallsOf(j)
    BY <1>5 DEF CallsOf
  <2> QED
    BY <1>1, <1>5, <2>1 DEF AllRecorded, Unbroken
<1>6. CASE Compile
  <2>1. /\ pc = "boot" /\ calls' = {} /\ recorded' = recorded /\ pc' = "next"
    BY <1>1, <1>6 DEF Compile
  <2>2. \A j \in Jobs : recorded[j] = 0
    BY <1>1, <2>1, CallSets DEF LogsBounded
  <2>3. \A j \in Jobs : Cardinality(CallsOf(j)') = 0
    <3>1. \A j \in Jobs : CallsOf(j)' = {}
      BY <2>1 DEF CallsOf
    <3> QED
      BY <3>1, FS_EmptySet
  <2> QED
    BY <2>1, <2>2, <2>3 DEF AllRecorded
<1>7. CASE StartJob \/ StartSh \/ SpawnFails \/ CreateFile \/ CompileFails \/ FinishRun
  BY <1>5, <1>7 DEF StartJob, StartSh, RunsLua, SpawnFails, CreateFile, CompileFails,
       FinishRun, InJob
<1>8. CASE FailEarly \/ Exit \/ Quit \/ Die
  BY <1>8 DEF FailEarly, Exit, Quit, Die, Leave, AllRecorded, InJob
<1>9. ASSUME NEW result \in JobOutcomes, FinishJob(result) PROVE AllRecorded'
  <2>1. /\ pc = "job" /\ pc' \in {"next", "close"}
        /\ UNCHANGED <<calls, recorded, unlogged>>
    BY <1>9, FinishedJob
  <2> QED
    BY <1>5, <2>1 DEF InJob
<1> QED
  BY <1>2, <1>3, <1>4, <1>6, <1>7, <1>8, <1>9 DEF CiNext

-----------------------------------------------------------------------------
(* The invariant *)

\* The process keeps what is said of it.
LEMMA CiKeepsProcess == IInv /\ CiNext => ProcessInv'
BY CiJobsInOrder, CiStreamSoFar, CiStreamPairsUp, CiStreamIsComplete, CiCommandsInOrder,
   CiLogsBounded, CiCallsHaveJobs, CiEarlyLogs, CiAllRecorded DEF ProcessInv, LogsInOrder

\* So does everything that is no step of the process.
LEMMA OthersKeepProcess ==
  ASSUME IInv, UNCHANGED <<order, pc, at, attempts, file, recorded, logs, calls, ended,
                           unlogged>>,
         clock' \in Nat, clock <= clock'
  PROVE  ProcessInv'
<1>1. ProcessInv /\ clock \in Nat
  BY DEF IInv, TypeOK
<1>2. /\ \A n : EndedThrough(n)' <=> EndedThrough(n)
      /\ NoneFailed' <=> NoneFailed
      /\ OneFailed' <=> OneFailed
      /\ \A result : Conclusion(result)' <=> Conclusion(result)
      /\ Current' = Current /\ StartedAt' = StartedAt
      /\ Streaming' <=> Streaming
  BY JobsStay DEF EndedThrough, NoneFailed, OneFailed, Conclusion, Current, StartedAt,
       Streaming
<1>3. JobsInOrder'
  <2>1. EndedThrough(at)' <=> EndedThrough(at)
    BY DEF EndedThrough
  <2>2. EndedThrough(at - 1)' <=> EndedThrough(at - 1)
    BY DEF EndedThrough
  <2> QED
    BY <1>1, <1>2, <2>1, <2>2 DEF ProcessInv, JobsInOrder
<1>4. StreamSoFar'
  <2>1. \A i : LineSoFar(i)' <=> LineSoFar(i)
    BY <1>2 DEF LineSoFar, Before, Is
  <2>2. StreamSoFar
    BY <1>1 DEF ProcessInv
  <2> QED
    BY <1>2, <2>1, <2>2 DEF StreamSoFar, Is
<1>5. StreamPairsUp'
  BY <1>1 DEF ProcessInv, StreamPairsUp, Paired, Window
<1>6. StreamIsComplete'
  <2>1. \A x, i : /\ JobLine(x, i)' <=> JobLine(x, i)
                  /\ ShLine(x, i)' <=> ShLine(x, i)
    BY DEF JobLine, ShLine, Is
  <2>2. JobsOfLines(ended, Len(file)) => JobsOfLines(ended, Len(file))'
    BY <2>1 DEF JobsOfLines
  <2>3. CallsOfLines(calls, Len(file)) => CallsOfLines(calls, Len(file))'
    BY <2>1 DEF CallsOfLines
  <2> QED
    BY <1>1, <1>2, <2>2, <2>3 DEF ProcessInv, StreamIsComplete
<1>7. CommandsInOrder'
  <2>1. CallsInOrder'
    <3>1. CallsInOrder /\ \A x \in calls : x.started \in Nat
      BY <1>1 DEF ProcessInv, CommandsInOrder, IInv, TypeOK, ShRow
    <3> QED
      BY <1>1, <1>2, <3>1 DEF CallsInOrder
  <2>2. LinesInOrder'
    <3>1. LinesInOrder
      BY <1>1 DEF ProcessInv, CommandsInOrder
    <3>2. ASSUME Streaming, NEW i \in DOMAIN file PROVE file[i].at <= clock'
      <4>1. file \in Seq(Event)
        BY <1>1, <3>2 DEF ProcessInv, StreamSoFar
      <4>2. file[i] \in Event
        BY <3>2, <4>1
      <4>3. file[i].at \in Nat
        BY <4>2 DEF Event
      <4>4. file[i].at <= clock
        BY <3>1, <3>2 DEF LinesInOrder
      <4> QED
        BY <1>1, <4>3, <4>4
    <3> QED
      BY <1>2, <3>1, <3>2 DEF LinesInOrder
  <2>3. (pc \in {"sh", "log"} => attempts \in 1..MaxCalls)'
    BY <1>1 DEF ProcessInv, CommandsInOrder
  <2> QED
    BY <2>1, <2>2, <2>3 DEF CommandsInOrder
<1>8. LogsInOrder'
  <2>1. LogsBounded' /\ CallsHaveJobs'
    BY <1>1, <1>2 DEF ProcessInv, LogsInOrder, LogsBounded, CallsHaveJobs
  <2>2. EarlyLogs'
    BY <1>1 DEF ProcessInv, LogsInOrder, EarlyLogs, Written, Unbroken, CallsUpTo, LogKept
  <2>3. AllRecorded'
    BY <1>1, <1>2 DEF ProcessInv, LogsInOrder, AllRecorded, Unbroken, CallsOf
  <2> QED
    BY <2>1, <2>2, <2>3 DEF LogsInOrder
<1> QED
  BY <1>3, <1>4, <1>5, <1>6, <1>7, <1>8 DEF ProcessInv

\* While the process runs the handler has nothing to show.
LEMMA CiKeepsIngest == IInv /\ CiNext /\ UNCHANGED srvVars => IngestInv'
<1> SUFFICES ASSUME IInv, CiNext, UNCHANGED srvVars
             PROVE  IngestInv'
  OBVIOUS
<1>1. pc # "exited"
  BY DEF CiNext, CreateFile, FailEarly, CompileFails, Compile, StartJob, StartSh, RunsLua,
     SpawnFails, FinishSh, WriteLog, LogFails, FinishJob, FinishRun, Exit, Quit, Die
<1>2. UNCHANGED <<srv, k, openJob, openSh, outcome, jobRows, shRows, verdict>>
  BY DEF srvVars
<1>3. /\ srv \in {"waiting", "gone"} /\ outcome = Null /\ jobRows = {} /\ shRows = {}
      /\ verdict = Null /\ HandlerWaits
  BY <1>1 DEF IInv, IngestInv, HandlerWaits, TypeOK
<1>4. Null \notin {"succeeded", "failed-pipeline"}
  BY VerdictAssumption DEF Verdicts
<1>5. HandlerWaits'
  BY <1>2, <1>3 DEF HandlerWaits, Ingesting
<1>6. OutcomeOfStream' /\ FirstPass' /\ SecondPassOK'
  BY <1>2, <1>3 DEF OutcomeOfStream, FirstPass, SecondPassOK
<1>7. JudgedComplete' /\ RowsAreReal' /\ RowsInOrder'
  BY <1>2, <1>3, <1>4 DEF JudgedComplete, RowsAreReal, RowsInOrder
<1> QED
  BY <1>5, <1>6, <1>7 DEF IngestInv

\* A step of the handler leaves the stream and what happened alone.
LEMMA HandlerFrame ==
  ASSUME Ingest \/ Judge \/ ServerDies
  PROVE  /\ UNCHANGED <<clock, order, pc, at, attempts, file, torn, recorded, logs, exit,
                        calls, ended, unlogged>>
         /\ \A x, i : /\ JobLine(x, i)' <=> JobLine(x, i)
                      /\ ShLine(x, i)' <=> ShLine(x, i)
         /\ srv' # "waiting"
<1>1. CASE ReadEvents \/ NoteJob \/ InsertJob \/ NoteOutcome \/ SecondPass
  BY <1>1 DEF ReadEvents, NoteJob, InsertJob, NoteOutcome, SecondPass, Abandon, ciVars,
       JobLine, ShLine, Is
<1>2. CASE NoteSh \/ InsertSh \/ EndIngest \/ Skip
  BY <1>2 DEF NoteSh, InsertSh, EndIngest, Skip, Abandon, ciVars, JobLine, ShLine, Is
<1>3. CASE IngestFails \/ Judge \/ ServerDies
  BY <1>3 DEF IngestFails, Judge, ServerDies, Abandon, ciVars, JobLine, ShLine, Is
<1> QED
  BY <1>1, <1>2, <1>3 DEF Ingest

LEMMA KeepHandlerWaits ==
  ASSUME IInv, Ingest \/ Judge \/ ServerDies
  PROVE  HandlerWaits'
<1>1. HandlerWaits /\ pc' = pc /\ file' = file /\ srv' # "waiting"
  BY HandlerFrame DEF IInv, IngestInv
<1>2. srv # "done" /\ verdict = Null
  BY <1>1 DEF HandlerWaits, Ingest, ReadEvents, NoteJob, InsertJob, NoteOutcome, SecondPass,
       NoteSh, InsertSh, EndIngest, Skip, IngestFails, Judge, ServerDies
<1>3. CASE ServerDies
  BY <1>1, <1>2, <1>3 DEF HandlerWaits, ServerDies, Ingesting
<1>4. ASSUME ~ServerDies PROVE pc = "exited" /\ srv \in {"waiting", "jobs", "shs", "judging"}
  BY <1>1, <1>4 DEF HandlerWaits, Ingest, ReadEvents, NoteJob, InsertJob, NoteOutcome,
       SecondPass, NoteSh, InsertSh, EndIngest, Skip, IngestFails, Judge
<1>5. ASSUME ~ServerDies, srv' \notin Ingesting, srv' # "done" => verdict' = Null
      PROVE  HandlerWaits'
  BY <1>1, <1>4, <1>5 DEF HandlerWaits
<1>6. CASE Judge \/ EndIngest \/ IngestFails
  BY <1>2, <1>5, <1>3, <1>6 DEF Judge, EndIngest, IngestFails, Abandon, Ingesting
<1>7. CASE ReadEvents
  <2>1. verdict' = verdict /\ k' = k
    BY <1>7 DEF ReadEvents
  <2>2. CASE srv' = "judging"
    BY <1>2, <1>3, <1>5, <2>1, <2>2 DEF Ingesting
  <2>3. CASE srv' = "jobs" /\ file # Null /\ ~torn
    <3>1. k' = 1 /\ file \in Seq(Event) /\ pc = "exited"
      BY <1>1, <1>7, <2>1, <2>3 DEF ReadEvents, HandlerWaits, IInv, TypeOK
    <3>2. k' \in 1..Len(file') + 1
      BY <1>1, <3>1
    <3> QED
      BY <1>1, <1>2, <2>1, <2>3, <3>1, <3>2 DEF HandlerWaits
  <2> QED
    BY <1>7, <2>2, <2>3 DEF ReadEvents, Abandon
<1>8. ASSUME srv \in Ingesting, srv' \in Ingesting, verdict' = verdict,
             \/ k' = k + 1 /\ k <= Len(file)
             \/ k' = 1
             \/ k' = k
      PROVE  HandlerWaits'
  <2>1. /\ file # Null /\ k \in 1..Len(file) + 1 /\ pc = "exited"
    BY <1>1, <1>8 DEF HandlerWaits, Ingesting
  <2>2. file \in Seq(Event)
    BY <2>1 DEF IInv, TypeOK
  <2>3. k' \in 1..Len(file) + 1
    BY <1>8, <2>1, <2>2
  <2> QED
    BY <1>1, <1>2, <1>8, <2>1, <2>3 DEF HandlerWaits, Ingesting
<1>9. CASE NoteJob \/ NoteOutcome \/ SecondPass \/ NoteSh \/ Skip
  BY <1>8, <1>9 DEF NoteJob, NoteOutcome, SecondPass, NoteSh, Skip, Advance, Seen, Ingesting
<1>10. CASE InsertJob \/ InsertSh
  <2>1. /\ srv \in Ingesting /\ verdict' = verdict
        /\ \/ srv' = srv /\ k' = k + 1 /\ k <= Len(file)
           \/ srv' = "judging"
    BY <1>10 DEF InsertJob, InsertSh, Advance, Seen, Ingesting, Abandon
  <2>2. CASE srv' = "judging"
    BY <1>2, <1>5, <1>3, <2>1, <2>2 DEF Ingesting
  <2> QED
    BY <1>8, <2>1, <2>2
<1> QED
  BY <1>3, <1>6, <1>7, <1>9, <1>10 DEF Ingest

LEMMA KeepOutcomeOfStream ==
  ASSUME IInv, Ingest \/ Judge \/ ServerDies
  PROVE  OutcomeOfStream'
<1>1. OutcomeOfStream /\ pc' = pc /\ file' = file
  BY HandlerFrame DEF IInv, IngestInv
<1>2. CASE outcome' = outcome \/ outcome' = Null
  BY <1>1, <1>2 DEF OutcomeOfStream
<1>3. CASE NoteOutcome
  <2>1. /\ pc = "exited" /\ Streaming /\ k \in DOMAIN file
        /\ file[k].kind = "run_finished" /\ outcome' = file[k].outcome
    BY <1>3, Replay DEF NoteOutcome, Seen, Ingesting, Ev
  <2> QED
    BY <1>1, <2>1 DEF OutcomeOfStream, Streaming
<1>4. CASE ReadEvents \/ NoteJob \/ InsertJob \/ SecondPass
  BY <1>2, <1>4 DEF ReadEvents, NoteJob, InsertJob, SecondPass, Abandon
<1>5. CASE NoteSh \/ InsertSh \/ EndIngest \/ Skip
  BY <1>2, <1>5 DEF NoteSh, InsertSh, EndIngest, Skip, Abandon
<1>6. CASE IngestFails \/ Judge \/ ServerDies
  BY <1>2, <1>6 DEF IngestFails, Judge, ServerDies, Abandon
<1> QED
  BY <1>3, <1>4, <1>5, <1>6 DEF Ingest

LEMMA KeepFirstPass ==
  ASSUME IInv, Ingest \/ Judge \/ ServerDies
  PROVE  FirstPass'
<1>1. FirstPass /\ file' = file /\ \A x, i : JobLine(x, i)' <=> JobLine(x, i)
  BY HandlerFrame DEF IInv, IngestInv
<1>2. CASE srv' # "jobs"
  BY <1>2 DEF FirstPass
<1>3. CASE ReadEvents
  <2>1. k' = 1 /\ jobRows' = {} /\ shRows' = {}
    BY <1>3 DEF ReadEvents, IInv, IngestInv, HandlerWaits
  <2> QED
    BY <2>1 DEF FirstPass, JobsOfLines
<1>4. ASSUME srv = "jobs", k <= Len(file), k' = k + 1, shRows' = shRows,
             \A s \in 1..k : file[s].kind = "job_started" =>
               \/ openJob'[file[s].job] = file[s].at
               \/ \E f \in s..k : Is(f, "job_finished", file[s].job),
             \/ jobRows' = jobRows /\ file[k].kind # "job_finished"
             \/ \E row : jobRows' = jobRows \cup {row} /\ JobLine(row, k)
      PROVE  FirstPass'
  <2>1. /\ k \in Nat /\ k' - 1 = k /\ k >= 1
        /\ JobsOfLines(jobRows, k - 1) /\ shRows = {}
    BY <1>1, <1>4 DEF FirstPass, IInv, TypeOK
  <2>2. 1..k = 1..k - 1 \cup {k}
    BY <2>1
  <2>3. (JobsOfLines(jobRows, k - 1))'
    <3>1. CASE jobRows' = jobRows /\ file[k].kind # "job_finished"
      BY <1>1, <2>1, <2>2, <3>1 DEF JobsOfLines
    <3>2. CASE \E row : jobRows' = jobRows \cup {row} /\ JobLine(row, k)
      <4>1. PICK row : jobRows' = jobRows \cup {row} /\ JobLine(row, k)
        BY <3>2
      <4>2. row \in jobRows' /\ k \in 1..k
        BY <2>1, <4>1
      <4>3. \A x \in jobRows' : \E l \in 1..k : JobLine(x, l)
        BY <2>1, <2>2, <4>1, <4>2 DEF JobsOfLines
      <4>4. \A l \in 1..k : file[l].kind = "job_finished" => \E x \in jobRows' : JobLine(x, l)
        BY <2>1, <2>2, <4>1, <4>2 DEF JobsOfLines
      <4> QED
        BY <1>1, <2>1, <4>3, <4>4 DEF JobsOfLines
    <3> QED
      BY <1>4, <3>1, <3>2
  <2>4. \A i, kind, job : Is(i, kind, job)' <=> Is(i, kind, job)
    BY <1>1 DEF Is
  <2> QED
    BY <1>1, <1>4, <2>1, <2>3, <2>4 DEF FirstPass
<1>5. CASE NoteJob
  <2>1. /\ srv = "jobs" /\ k <= Len(file) /\ k' = k + 1 /\ shRows' = shRows
        /\ jobRows' = jobRows /\ file[k].kind = "job_started" /\ Ev = file[k]
        /\ openJob' = [openJob EXCEPT ![Ev.job] = Ev.at]
    BY <1>5 DEF NoteJob, Seen, Advance, Ev
  <2>2. /\ Streaming /\ file # Null /\ k \in DOMAIN file /\ k \in Nat /\ StreamPairsUp
        /\ Ev.job \in Jobs /\ pc = "exited"
    BY <2>1, Replay DEF Ingesting, IInv, ProcessInv, Streaming
  <2>3. openJob'[file[k].job] = file[k].at /\ \A j \in Jobs : j # file[k].job => openJob'[j] = openJob[j]
    BY <2>1, <2>2 DEF IInv, TypeOK
  <2>4. ASSUME NEW s \in 1..k, file[s].kind = "job_started"
        PROVE  \/ openJob'[file[s].job] = file[s].at
               \/ \E f \in s..k : Is(f, "job_finished", file[s].job)
    <3>1. CASE s = k
      BY <2>3, <3>1
    <3>2. CASE s # k
      <4>1. s \in 1..k - 1
        BY <2>2, <3>2
      <4>2. file[s].job # file[k].job
        BY <2>1, <2>2, <2>4, <4>1 DEF StreamPairsUp, Paired
      <4>3. \/ openJob[file[s].job] = file[s].at
            \/ \E f \in s..k - 1 : Is(f, "job_finished", file[s].job)
        BY <1>1, <2>1, <2>4, <4>1 DEF FirstPass
      <4>4. file[s].job \in Jobs
        <5>1. s \in DOMAIN file /\ file \in Seq(Event)
          BY <2>1, <2>2, <4>1, Replay DEF Ingesting
        <5> QED
          BY <2>2, <2>4, <5>1 DEF IInv, ProcessInv, StreamSoFar, LineSoFar
      <4> QED
        BY <2>2, <2>3, <4>1, <4>2, <4>3, <4>4
    <3> QED
      BY <3>1, <3>2
  <2> QED
    BY <1>4, <2>1, <2>4
<1>6. CASE InsertJob /\ srv' = "jobs"
  <2>1. /\ srv = "jobs" /\ k <= Len(file) /\ k' = k + 1 /\ shRows' = shRows
        /\ jobRows' = jobRows \cup {JobRowOf(Ev)} /\ file[k].kind = "job_finished"
        /\ Ev = file[k] /\ openJob' = [openJob EXCEPT ![Ev.job] = Null]
    BY <1>6 DEF InsertJob, Seen, Advance, Ev, Abandon
  <2>2. k \in Nat /\ Ev.job \in Jobs /\ pc = "exited" /\ Streaming
    BY <2>1, Replay DEF Ingesting
  <2>3. \E row : jobRows' = jobRows \cup {row} /\ JobLine(row, k)
    <3>1. JobLine(JobRowOf(Ev), k)
      BY <1>6, InsertedJob
    <3>2. PICK row : row = JobRowOf(Ev)
      OBVIOUS
    <3>3. jobRows' = jobRows \cup {row} /\ JobLine(row, k)
      BY <2>1, <3>1, <3>2
    <3> QED
      BY <3>3
  <2>4. ASSUME NEW s \in 1..k, file[s].kind = "job_started"
        PROVE  \/ openJob'[file[s].job] = file[s].at
               \/ \E f \in s..k : Is(f, "job_finished", file[s].job)
    <3>1. s \in 1..k - 1
      BY <2>1, <2>2, <2>4
    <3>2. CASE file[s].job = file[k].job
      BY <2>1, <2>2, <3>1, <3>2 DEF Is
    <3>3. CASE file[s].job # file[k].job
      <4>1. \/ openJob[file[s].job] = file[s].at
            \/ \E f \in s..k - 1 : Is(f, "job_finished", file[s].job)
        BY <1>1, <2>1, <2>4, <3>1 DEF FirstPass
      <4>2. file[s].job \in Jobs
        <5>1. s \in DOMAIN file /\ file \in Seq(Event)
          BY <2>1, <2>2, <3>1, Replay DEF Ingesting
        <5> QED
          BY <2>2, <2>4, <5>1 DEF IInv, ProcessInv, StreamSoFar, LineSoFar
      <4>3. openJob'[file[s].job] = openJob[file[s].job]
        BY <2>1, <3>3, <4>2 DEF IInv, TypeOK
      <4> QED
        BY <2>2, <3>1, <4>1, <4>3
    <3> QED
      BY <3>2, <3>3
  <2> QED
    BY <1>4, <2>1, <2>3, <2>4
<1>7. CASE (NoteOutcome \/ Skip) /\ srv = "jobs"
  <2>1. /\ k <= Len(file) /\ k' = k + 1 /\ shRows' = shRows /\ openJob' = openJob
        /\ jobRows' = jobRows /\ file[k].kind \notin {"job_started", "job_finished"}
    BY <1>7 DEF NoteOutcome, Skip, Seen, Advance
  <2>2. k \in Nat
    BY DEF IInv, TypeOK
  <2>3. ASSUME NEW s \in 1..k, file[s].kind = "job_started"
        PROVE  \/ openJob'[file[s].job] = file[s].at
               \/ \E f \in s..k : Is(f, "job_finished", file[s].job)
    <3>1. s \in 1..k - 1
      BY <2>1, <2>2, <2>3
    <3> QED
      BY <1>1, <1>7, <2>1, <2>2, <2>3, <3>1 DEF FirstPass
  <2> QED
    BY <1>4, <1>7, <2>1, <2>3
<1> QED
  <2>1. CASE SecondPass \/ NoteSh \/ InsertSh \/ EndIngest \/ IngestFails \/ Judge \/ ServerDies
    BY <1>2, <2>1 DEF SecondPass, NoteSh, InsertSh, EndIngest, IngestFails, Judge, ServerDies,
         Abandon
  <2>2. CASE Skip \/ NoteOutcome
    BY <1>2, <1>7, <2>2 DEF Skip, NoteOutcome
  <2> QED
    BY <1>2, <1>3, <1>5, <1>6, <2>1, <2>2 DEF Ingest

\* A line describes one row.
LEMMA OneRow ==
  ASSUME IInv, Streaming, file # Null, NEW i \in DOMAIN file, NEW x, NEW y
  PROVE  /\ JobLine(x, i) /\ JobLine(y, i) => x = y
         /\ ShLine(x, i) /\ ShLine(y, i) => x = y
<1>1. /\ file \in Seq(Event) /\ Len(file) \in Nat /\ DOMAIN file = 1..Len(file)
      /\ StreamPairsUp
  BY DEF IInv, ProcessInv, StreamSoFar
<1>2. ASSUME JobLine(x, i), JobLine(y, i) PROVE x = y
  <2>1. PICK s \in 1..i : /\ Is(s, "job_started", file[i].job)
                          /\ x = [job |-> file[i].job, state |-> file[i].outcome,
                                  started |-> file[s].at, finished |-> file[i].at]
    BY <1>2 DEF JobLine
  <2>2. PICK t \in 1..i : /\ Is(t, "job_started", file[i].job)
                          /\ y = [job |-> file[i].job, state |-> file[i].outcome,
                                  started |-> file[t].at, finished |-> file[i].at]
    BY <1>2 DEF JobLine
  <2>3. s \in DOMAIN file /\ t \in DOMAIN file
    BY <1>1
  <2>4. s = t
    BY <1>1, <2>1, <2>2, <2>3, OneStart DEF Is
  <2> QED
    BY <2>1, <2>2, <2>4
<1>3. ShLine(x, i) /\ ShLine(y, i) => x = y
  BY DEF ShLine
<1> QED
  BY <1>2, <1>3

\* Two sets of rows that both stand for all lines are the same.
LEMMA SameRows ==
  ASSUME IInv, Streaming, file # Null, NEW rows
  PROVE  /\ JobsOfLines(rows, Len(file)) => rows = ended
         /\ CallsOfLines(rows, Len(file)) => rows = calls
<1>1. /\ DOMAIN file = 1..Len(file)
      /\ JobsOfLines(ended, Len(file)) /\ CallsOfLines(calls, Len(file))
  BY DEF IInv, ProcessInv, StreamSoFar, StreamIsComplete
<1>2. ASSUME JobsOfLines(rows, Len(file)) PROVE rows = ended
  <2>1. ASSUME NEW x \in rows PROVE x \in ended
    <3>1. PICK l \in DOMAIN file : JobLine(x, l)
      BY <1>1, <1>2 DEF JobsOfLines
    <3>2. PICK y \in ended : JobLine(y, l)
      BY <1>1, <3>1 DEF JobsOfLines, JobLine
    <3> QED
      BY <3>1, <3>2, OneRow
  <2>2. ASSUME NEW x \in ended PROVE x \in rows
    <3>1. PICK l \in DOMAIN file : JobLine(x, l)
      BY <1>1 DEF JobsOfLines
    <3>2. PICK y \in rows : JobLine(y, l)
      BY <1>1, <1>2, <3>1 DEF JobsOfLines, JobLine
    <3> QED
      BY <3>1, <3>2, OneRow
  <2> QED
    BY <2>1, <2>2
<1>3. ASSUME CallsOfLines(rows, Len(file)) PROVE rows = calls
  <2>1. ASSUME NEW x \in rows PROVE x \in calls
    <3>1. PICK l \in DOMAIN file : ShLine(x, l)
      BY <1>1, <1>3 DEF CallsOfLines
    <3>2. PICK y \in calls : ShLine(y, l)
      BY <1>1, <3>1 DEF CallsOfLines, ShLine
    <3> QED
      BY <3>1, <3>2, OneRow
  <2>2. ASSUME NEW x \in calls PROVE x \in rows
    <3>1. PICK l \in DOMAIN file : ShLine(x, l)
      BY <1>1 DEF CallsOfLines
    <3>2. PICK y \in rows : ShLine(y, l)
      BY <1>1, <1>3, <3>1 DEF CallsOfLines, ShLine
    <3> QED
      BY <3>1, <3>2, OneRow
  <2> QED
    BY <2>1, <2>2
<1> QED
  BY <1>2, <1>3

\* At the end of a pass the handler stands behind the last line.
LEMMA PassOver ==
  ASSUME IInv, srv \in Ingesting, k > Len(file)
  PROVE  /\ k - 1 = Len(file) /\ Streaming /\ file # Null
<1>1. /\ pc = "exited" /\ file # Null /\ k \in 1..Len(file) + 1 /\ file \in Seq(Event)
  BY DEF IInv, TypeOK, IngestInv, HandlerWaits, Ingesting
<1> QED
  BY <1>1 DEF Streaming

LEMMA KeepSecondPass ==
  ASSUME IInv, Ingest \/ Judge \/ ServerDies
  PROVE  SecondPassOK'
<1>1. /\ SecondPassOK /\ UNCHANGED <<file, ended>> /\ \A x, i : ShLine(x, i)' <=> ShLine(x, i)
  BY HandlerFrame DEF IInv, IngestInv
<1>2. CASE srv' # "shs"
  BY <1>2 DEF SecondPassOK
<1>3. CASE SecondPass
  <2>1. srv = "jobs" /\ k > Len(file) /\ k' = 1 /\ UNCHANGED <<jobRows, shRows>>
    BY <1>3 DEF SecondPass
  <2>2. JobsOfLines(jobRows, Len(file)) /\ shRows = {}
    BY <2>1, PassOver DEF IInv, IngestInv, FirstPass, Ingesting
  <2>3. jobRows = ended
    BY <2>1, <2>2, PassOver, SameRows DEF Ingesting
  <2> QED
    BY <1>1, <2>1, <2>2, <2>3 DEF SecondPassOK, CallsOfLines
<1>4. ASSUME srv = "shs", k <= Len(file), k' = k + 1, jobRows' = jobRows,
             file[k].kind = "sh_started" => openSh'[file[k].job] = file[k],
             \/ shRows' = shRows /\ file[k].kind # "sh_finished"
             \/ \E row : shRows' = shRows \cup {row} /\ ShLine(row, k)
      PROVE  SecondPassOK'
  <2>1. /\ k \in Nat /\ k' - 1 = k /\ k >= 1
        /\ jobRows = ended /\ CallsOfLines(shRows, k - 1)
    BY <1>1, <1>4 DEF SecondPassOK, IInv, TypeOK
  <2>2. 1..k = 1..k - 1 \cup {k}
    BY <2>1
  <2>3. (CallsOfLines(shRows, k - 1))'
    <3>1. CASE shRows' = shRows /\ file[k].kind # "sh_finished"
      BY <1>1, <2>1, <2>2, <3>1 DEF CallsOfLines
    <3>2. CASE \E row : shRows' = shRows \cup {row} /\ ShLine(row, k)
      <4>1. PICK row : shRows' = shRows \cup {row} /\ ShLine(row, k)
        BY <3>2
      <4>2. row \in shRows' /\ k \in 1..k
        BY <2>1, <4>1
      <4>3. \A x \in shRows' : \E l \in 1..k : ShLine(x, l)
        BY <2>1, <2>2, <4>1, <4>2 DEF CallsOfLines
      <4>4. \A l \in 1..k : file[l].kind = "sh_finished" => \E x \in shRows' : ShLine(x, l)
        BY <2>1, <2>2, <4>1, <4>2 DEF CallsOfLines
      <4> QED
        BY <1>1, <2>1, <4>3, <4>4 DEF CallsOfLines
    <3> QED
      BY <1>4, <3>1, <3>2
  <2>4. (k > 1 /\ file[k - 1].kind = "sh_started" => openSh[file[k - 1].job] = file[k - 1])'
    BY <1>1, <1>4, <2>1
  <2> QED
    BY <1>1, <1>4, <2>1, <2>3, <2>4 DEF SecondPassOK
<1>5. CASE NoteSh
  <2>1. /\ srv = "shs" /\ k <= Len(file) /\ k' = k + 1 /\ UNCHANGED <<jobRows, shRows>>
        /\ file[k].kind = "sh_started" /\ Ev = file[k]
        /\ openSh' = [openSh EXCEPT ![Ev.job] = Ev]
    BY <1>5 DEF NoteSh, Seen, Advance, Ev, Noted
  <2>2. Ev.job \in Jobs
    BY <2>1, Replay DEF Ingesting
  <2>3. openSh'[file[k].job] = file[k]
    BY <2>1, <2>2 DEF IInv, TypeOK
  <2> QED
    BY <1>4, <2>1, <2>3
<1>6. CASE InsertSh /\ srv' = "shs"
  <2>1. /\ srv = "shs" /\ k <= Len(file) /\ file[k].kind = "sh_finished" /\ jobRows' = jobRows
    BY <1>6 DEF InsertSh, Seen
  <2>2. k' = k + 1 /\ shRows' = shRows \cup {ShRowOf(Ev)}
    BY <1>6, InsertedSh DEF InsertSh, Advance, Abandon
  <2>3. \E row : shRows' = shRows \cup {row} /\ ShLine(row, k)
    <3>1. PICK row : row = ShRowOf(Ev)
      OBVIOUS
    <3>2. shRows' = shRows \cup {row} /\ ShLine(row, k)
      BY <1>6, <2>2, <3>1, InsertedSh
    <3> QED
      BY <3>2
  <2> QED
    BY <1>4, <2>1, <2>2, <2>3
<1>7. CASE Skip /\ srv = "shs"
  <2>1. /\ k <= Len(file) /\ k' = k + 1 /\ UNCHANGED <<jobRows, shRows>>
        /\ file[k].kind \notin {"sh_started", "sh_finished"}
    BY <1>7 DEF Skip, Seen, Advance
  <2> QED
    BY <1>4, <1>7, <2>1
<1>8. CASE ReadEvents \/ NoteJob \/ InsertJob \/ NoteOutcome \/ EndIngest \/ IngestFails
  BY <1>2, <1>8 DEF ReadEvents, NoteJob, InsertJob, NoteOutcome, EndIngest, IngestFails,
     Abandon
<1>9. CASE Judge \/ ServerDies
  BY <1>2, <1>9 DEF Judge, ServerDies
<1>10. CASE Skip
  BY <1>2, <1>7, <1>10 DEF Skip
<1> QED
  BY <1>2, <1>3, <1>5, <1>6, <1>8, <1>9, <1>10 DEF Ingest

LEMMA KeepJudged ==
  ASSUME IInv, Ingest \/ Judge \/ ServerDies
  PROVE  JudgedComplete'
<1>1. /\ JudgedComplete /\ HandlerWaits /\ UNCHANGED <<pc, calls, ended, exit>>
  BY HandlerFrame DEF IInv, IngestInv
<1>2. srv # "done" /\ verdict = Null
  BY <1>1 DEF HandlerWaits, Ingest, ReadEvents, NoteJob, InsertJob, NoteOutcome, SecondPass,
       NoteSh, InsertSh, EndIngest, Skip, IngestFails, Judge, ServerDies
<1>3. verdict \notin {"succeeded", "failed-pipeline"}
  BY <1>2 DEF Verdicts
<1>4. CASE Judge
  <2>1. /\ srv = "judging" /\ srv' = "done" /\ verdict' = Verdict
        /\ UNCHANGED <<outcome, jobRows, shRows>>
    BY <1>4 DEF Judge
  <2>2. ASSUME verdict' \in {"succeeded", "failed-pipeline"}
        PROVE  /\ outcome = IF verdict' = "succeeded" THEN "succeeded" ELSE "pipeline_failure"
               /\ outcome \in RunOutcomes
    BY <2>1, <2>2 DEF Verdict, RunOutcomes
  <2>3. ASSUME verdict' \in {"succeeded", "failed-pipeline"}
        PROVE  jobRows = ended /\ shRows = calls /\ pc = "exited"
    <3>1. outcome # Null
      BY <2>2, <2>3
    <3> QED
      BY <1>1, <2>1, <3>1 DEF JudgedComplete, HandlerWaits
  <2> QED
    BY <1>1, <2>1, <2>2, <2>3 DEF JudgedComplete
<1>5. CASE EndIngest
  <2>1. /\ srv = "shs" /\ k > Len(file) /\ UNCHANGED <<verdict, jobRows, shRows>>
    BY <1>5 DEF EndIngest
  <2>2. jobRows = ended /\ CallsOfLines(shRows, Len(file))
    BY <2>1, PassOver DEF IInv, IngestInv, SecondPassOK, Ingesting
  <2>3. shRows = calls
    BY <2>1, <2>2, PassOver, SameRows DEF Ingesting
  <2> QED
    BY <1>1, <1>3, <2>1, <2>2, <2>3 DEF JudgedComplete
<1>6. ASSUME verdict' = verdict, srv' # "judging" \/ outcome' = Null PROVE JudgedComplete'
  BY <1>3, <1>6 DEF JudgedComplete
<1>7. CASE ReadEvents \/ NoteJob \/ InsertJob \/ NoteOutcome \/ SecondPass \/ NoteSh
           \/ IngestFails
  BY <1>6, <1>7 DEF ReadEvents, NoteJob, InsertJob, NoteOutcome, SecondPass, NoteSh,
       IngestFails, Abandon
<1>8. CASE InsertSh \/ Skip \/ ServerDies
  BY <1>6, <1>8 DEF InsertSh, Skip, ServerDies, Abandon
<1> QED
  BY <1>4, <1>5, <1>7, <1>8 DEF Ingest

LEMMA KeepRowsReal ==
  ASSUME IInv, Ingest \/ Judge \/ ServerDies
  PROVE  RowsAreReal'
<1>1. RowsAreReal /\ UNCHANGED <<calls, ended>>
  BY HandlerFrame DEF IInv, IngestInv
<1>2. CASE InsertJob
  <2>1. JobRowOf(Ev) \in ended
    BY <1>2, InsertedJob
  <2> QED
    BY <1>1, <1>2, <2>1 DEF InsertJob, RowsAreReal
<1>3. CASE InsertSh
  <2>1. ShRowOf(Ev) \in calls
    BY <1>3, InsertedSh
  <2> QED
    BY <1>1, <1>3, <2>1 DEF InsertSh, RowsAreReal
<1>4. CASE UNCHANGED <<jobRows, shRows>>
  BY <1>1, <1>4 DEF RowsAreReal
<1>5. CASE ReadEvents \/ NoteJob \/ NoteOutcome \/ SecondPass \/ NoteSh \/ EndIngest \/ Skip
  BY <1>4, <1>5 DEF ReadEvents, NoteJob, NoteOutcome, SecondPass, NoteSh, EndIngest, Skip
<1>6. CASE IngestFails \/ Judge \/ ServerDies
  BY <1>4, <1>6 DEF IngestFails, Judge, ServerDies
<1> QED
  BY <1>2, <1>3, <1>5, <1>6 DEF Ingest

LEMMA KeepRowsInOrder ==
  ASSUME IInv, Ingest \/ Judge \/ ServerDies
  PROVE  RowsInOrder'
<1>1. RowsInOrder /\ UNCHANGED <<calls, ended>>
  BY HandlerFrame DEF IInv, IngestInv
<1>2. CASE InsertJob
  <2>1. shRows' = {}
    BY <1>2 DEF InsertJob, IInv, IngestInv, FirstPass
  <2> QED
    BY <2>1 DEF RowsInOrder
<1>3. CASE InsertSh
  <2>1. CASE shRows' = shRows
    BY <1>1, <1>3, <2>1 DEF InsertSh, RowsInOrder
  <2>2. CASE shRows' # shRows
    <3>1. /\ shRows' = shRows \cup {ShRowOf(Ev)} /\ ShAccepted(ShRowOf(Ev))
          /\ jobRows' = jobRows /\ srv = "shs"
      BY <1>3, <2>2 DEF InsertSh
    <3>2. ShLine(ShRowOf(Ev), k)
      BY <1>3, InsertedSh
    <3> DEFINE row == ShRowOf(Ev)
    <3> HIDE DEF row
    <3>3. /\ \E e \in jobRows : e.job = row.job
          /\ \A y \in shRows : ~(y.job = row.job /\ y.started = row.started)
      BY <3>1 DEF ShAccepted, row
    <3>4. /\ k \in 1..Len(file) /\ k \in Nat /\ Streaming /\ file \in Seq(Event) /\ file # Null
          /\ DOMAIN file = 1..Len(file) /\ Len(file) \in Nat
      <4>1. k <= Len(file) /\ srv \in Ingesting
        BY <1>3 DEF InsertSh, Seen, Ingesting
      <4> QED
        BY <4>1, Replay
    <3>5. CallsOfLines(shRows, k - 1) /\ CallsOfLines(calls, Len(file))
      BY <3>1, <3>4 DEF IInv, ProcessInv, IngestInv, SecondPassOK, StreamIsComplete
    <3>6. row.cmd = file[k - 1].cmd /\ row.exit_code = file[k].cmd
          /\ file[k].kind = "sh_finished"
      BY <3>2 DEF ShLine, row
    <3>7. row \in calls /\ \A y \in calls : y.exit_code = y.cmd
      BY <1>3, InsertedSh DEF IInv, ProcessInv, CommandsInOrder, CallsInOrder, row
    <3>8. ASSUME NEW y \in calls, y.cmd <= row.cmd PROVE y \in shRows'
      <4>1. PICK l \in 1..Len(file) : ShLine(y, l)
        BY <3>5 DEF CallsOfLines
      <4>2. file[l].kind = "sh_finished" /\ y.cmd = file[l].cmd
        BY <3>7, <4>1 DEF ShLine
      <4>3. row.cmd = file[k].cmd
        BY <3>6, <3>7
      <4>4. CASE l < k
        <5>1. PICK x \in shRows : ShLine(x, l)
          BY <3>4, <3>5, <4>2, <4>4 DEF CallsOfLines
        <5>2. x = y
          BY <3>4, <4>1, <5>1, OneRow
        <5> QED
          BY <3>1, <5>1, <5>2
      <4>5. CASE l = k
        <5>1. ShLine(row, k)
          BY <3>2 DEF row
        <5>2. y = row
          BY <3>4, <4>1, <4>5, <5>1, OneRow
        <5> QED
          BY <3>1, <5>2 DEF row
      <4>6. CASE l > k
        <5>1. LinesInOrder
          BY DEF IInv, ProcessInv, CommandsInOrder
        <5>2. l \in k + 1..Len(file)
          BY <3>4, <4>6
        <5>3. file[k].cmd < file[l].cmd /\ file[k].cmd \in Nat /\ file[l].cmd \in Nat
          <6>1. attempts \in Nat
            BY DEF IInv, TypeOK
          <6>2. /\ file[k].cmd \in 1..attempts /\ file[l].cmd \in 1..attempts
                /\ file[k].cmd < file[l].cmd
            BY <3>4, <3>6, <4>2, <5>1, <5>2 DEF LinesInOrder
          <6> QED
            BY <6>1, <6>2
        <5> QED
          BY <3>8, <4>2, <4>3, <5>3
      <4> QED
        BY <3>4, <4>4, <4>5, <4>6
    <3>9. shRows' = shRows \cup {row}
      BY <3>1 DEF row
    <3>10. ASSUME NEW x \in shRows'
           PROVE  /\ \E e \in jobRows' : e.job = x.job
                  /\ \A y \in shRows' : x.job = y.job /\ x.started = y.started => x = y
                  /\ \A y \in calls' : y.cmd <= x.cmd => y \in shRows'
      <4>1. CASE x = row
        BY <1>1, <3>1, <3>3, <3>8, <3>9, <4>1
      <4>2. CASE x \in shRows
        BY <1>1, <3>1, <3>3, <3>9, <4>2 DEF RowsInOrder
      <4> QED
        BY <3>9, <4>1, <4>2
    <3> QED
      BY <3>10 DEF RowsInOrder
  <2> QED
    BY <2>1, <2>2
<1>4. CASE UNCHANGED <<jobRows, shRows>>
  BY <1>1, <1>4 DEF RowsInOrder
<1>5. CASE ReadEvents \/ NoteJob \/ NoteOutcome \/ SecondPass \/ NoteSh \/ EndIngest \/ Skip
  BY <1>4, <1>5 DEF ReadEvents, NoteJob, NoteOutcome, SecondPass, NoteSh, EndIngest, Skip
<1>6. CASE IngestFails \/ Judge \/ ServerDies
  BY <1>4, <1>6 DEF IngestFails, Judge, ServerDies
<1> QED
  BY <1>2, <1>3, <1>5, <1>6 DEF Ingest

\* Time and stuttering change nothing that is said of the handler.
LEMMA TimeKeepsIngest ==
  ASSUME IInv, UNCHANGED <<pc, file, calls, ended>>, UNCHANGED srvVars
  PROVE  IngestInv'
<1>1. /\ UNCHANGED <<srv, k, openJob, openSh, outcome, jobRows, shRows, verdict>>
      /\ IngestInv
  BY DEF srvVars, IInv
<1>2. \A x, i : /\ JobLine(x, i)' <=> JobLine(x, i)
                /\ ShLine(x, i)' <=> ShLine(x, i)
  BY DEF JobLine, ShLine, Is
<1>3. HandlerWaits' /\ OutcomeOfStream'
  BY <1>1 DEF IngestInv, HandlerWaits, Ingesting, OutcomeOfStream
<1>4. FirstPass'
  <2>1. JobsOfLines(jobRows, k - 1) => JobsOfLines(jobRows, k - 1)'
    BY <1>1, <1>2 DEF JobsOfLines
  <2> QED
    BY <1>1, <2>1 DEF IngestInv, FirstPass, Is
<1>5. SecondPassOK'
  <2>1. CallsOfLines(shRows, k - 1) => CallsOfLines(shRows, k - 1)'
    BY <1>1, <1>2 DEF CallsOfLines
  <2> QED
    BY <1>1, <2>1 DEF IngestInv, SecondPassOK
<1>6. JudgedComplete' /\ RowsAreReal' /\ RowsInOrder'
  BY <1>1 DEF IngestInv, JudgedComplete, RowsAreReal, RowsInOrder
<1> QED
  BY <1>3, <1>4, <1>5, <1>6 DEF IngestInv

\* A run begins with a compiled pipeline and nothing else.
LEMMA InitInv == Init => IInv
<1> SUFFICES ASSUME Init
             PROVE  IInv
  OBVIOUS
<1>1. /\ order \in Pipelines /\ clock = 0 /\ pc = "start" /\ at = 1 /\ attempts = 0
      /\ file = Null /\ torn = FALSE /\ recorded = [j \in Jobs |-> 0] /\ logs = {}
      /\ exit = Null /\ faults = 0 /\ calls = {} /\ ended = {} /\ unlogged = {}
  BY DEF Init, CiInit
<1>2. /\ srv = "waiting" /\ k = 1 /\ openJob = [j \in Jobs |-> Null]
      /\ openSh = [j \in Jobs |-> Null] /\ outcome = Null /\ jobRows = {} /\ shRows = {}
      /\ verdict = Null
  BY DEF Init
<1>3. 1 \in DOMAIN order /\ 1 \in 1..Len(order) + 1
  BY <1>1, OrderFacts
<1>4. TypeOK
  <2>1. /\ clock \in 0..MaxClock /\ at \in 1..Len(order) + 1 /\ attempts \in 0..MaxCalls
        /\ recorded \in [Jobs -> 0..MaxCalls] /\ faults \in 0..MaxFaults
    BY <1>1, <1>3
  <2>2. /\ openJob \in [Jobs -> 0..MaxClock \cup {Null}]
        /\ openSh \in [Jobs -> Event \cup {Null}] /\ k \in Nat \ {0}
    BY <1>2
  <2> QED
    BY <1>1, <1>2, <2>1, <2>2 DEF TypeOK
<1>5. JobsInOrder
  BY <1>1, <1>3 DEF JobsInOrder, InJob
<1>6. StreamSoFar /\ StreamPairsUp /\ StreamIsComplete
  BY <1>1 DEF StreamSoFar, StreamPairsUp, StreamIsComplete, Streaming
<1>7. CommandsInOrder
  BY <1>1 DEF CommandsInOrder, CallsInOrder, LinesInOrder, Streaming
<1>8. LogsInOrder
  <2>1. LogsBounded
    BY <1>1, FS_EmptySet DEF LogsBounded
  <2> QED
    BY <1>1, <2>1 DEF LogsInOrder, CallsHaveJobs, EarlyLogs, AllRecorded, InJob
<1>9. IngestInv
  <2>1. Null \notin {"succeeded", "failed-pipeline"}
    BY DEF Verdicts
  <2>2. HandlerWaits
    BY <1>1, <1>2 DEF HandlerWaits, Ingesting
  <2> QED
    BY <1>2, <2>1, <2>2 DEF IngestInv, OutcomeOfStream, FirstPass, SecondPassOK,
         JudgedComplete, RowsAreReal, RowsInOrder
<1> QED
  BY <1>4, <1>5, <1>6, <1>7, <1>8, <1>9 DEF IInv, ProcessInv

\* Every step keeps the invariant.
LEMMA StepInv == IInv /\ [Next]_vars => IInv'
<1> SUFFICES ASSUME IInv, [Next]_vars
             PROVE  IInv'
  OBVIOUS
<1>1. CASE Ci
  <2>1. CiNext /\ UNCHANGED srvVars
    BY <1>1 DEF Ci
  <2> QED
    BY <2>1, CiTypes, CiKeepsProcess, CiKeepsIngest DEF IInv
<1>2. CASE Ingest \/ Judge \/ ServerDies
  <2>1. TypeOK'
    BY <1>2, HandlerTypes
  <2>2. ProcessInv'
    <3>1. UNCHANGED <<clock, order, pc, at, attempts, file, recorded, logs, calls, ended,
                      unlogged>>
      BY <1>2, HandlerFrame
    <3>2. clock' \in Nat /\ clock <= clock'
      BY <3>1 DEF IInv, TypeOK
    <3> QED
      BY <3>1, <3>2, OthersKeepProcess
  <2>3. IngestInv'
    BY <1>2, KeepHandlerWaits, KeepOutcomeOfStream, KeepFirstPass, KeepSecondPass,
       KeepJudged, KeepRowsReal, KeepRowsInOrder DEF IngestInv
  <2> QED
    BY <2>1, <2>2, <2>3 DEF IInv
<1>3. CASE Time \/ UNCHANGED vars
  <2>1. TypeOK'
    BY <1>3, HandlerTypes
  <2>2. /\ UNCHANGED <<order, pc, at, attempts, file, recorded, logs, calls, ended,
                       unlogged>>
        /\ UNCHANGED srvVars
        /\ clock' = clock \/ clock' = clock + 1
    BY <1>3 DEF Time, Tick, vars, ciVars
  <2>3. clock' \in Nat /\ clock <= clock'
    BY <2>2 DEF IInv, TypeOK
  <2>4. ProcessInv'
    BY <2>2, <2>3, OthersKeepProcess
  <2>5. IngestInv'
    BY <2>2, TimeKeepsIngest
  <2> QED
    BY <2>1, <2>4, <2>5 DEF IInv
<1> QED
  BY <1>1, <1>2, <1>3 DEF Next

\* The invariant holds in every reachable state.
THEOREM Invariance == Spec => []IInv
<1> QED
  BY InitInv, StepInv, PTL DEF Spec

-----------------------------------------------------------------------------
(* What follows from it *)

\* The types are as declared.
THEOREM TypeCorrect == Spec => []TypeOK
<1>1. IInv => TypeOK
  BY DEF IInv
<1> QED
  BY <1>1, Invariance, PTL

\* The stream is paired as its consumers rely on (event.rs).
THEOREM StreamIsPaired == Spec => []StreamPairsUp
<1>1. IInv => StreamPairsUp
  BY DEF IInv, ProcessInv
<1> QED
  BY <1>1, Invariance, PTL

\* The tables show only jobs and commands that finished, each row with the
\* values of one of them (ingest_events).
THEOREM RowsReal == Spec => []RowsAreReal
<1>1. IInv => RowsAreReal
  BY DEF IInv, IngestInv
<1> QED
  BY <1>1, Invariance, PTL

\* A verdict that quire-ci reported stands beside complete tables.
THEOREM EverythingShown == Spec => []VerdictShowsEverything
<1>1. IInv => VerdictShowsEverything
  BY DEF IInv, IngestInv, JudgedComplete, VerdictShowsEverything
<1> QED
  BY <1>1, Invariance, PTL

\* What the stream reported as the outcome is true of the jobs that ended.
LEMMA OutcomeConcludes ==
  ASSUME IInv, outcome # Null
  PROVE  Conclusion(outcome)
<1>1. /\ pc = "exited" /\ file # Null
      /\ \E i \in DOMAIN file : file[i].kind = "run_finished" /\ file[i].outcome = outcome
  BY DEF IInv, IngestInv, OutcomeOfStream
<1>2. \A i \in DOMAIN file : LineSoFar(i)
  BY <1>1 DEF IInv, ProcessInv, StreamSoFar, Streaming
<1> QED
  BY <1>1, <1>2 DEF LineSoFar

\* The verdict of a run says how its jobs ended (run_pipeline, `execute`).
THEOREM VerdictTrue == Spec => []VerdictMatchesJobs
<1>1. ASSUME IInv PROVE VerdictMatchesJobs
  <2>1. ASSUME verdict \in {"succeeded", "failed-pipeline"}
        PROVE  /\ outcome = IF verdict = "succeeded" THEN "succeeded" ELSE "pipeline_failure"
               /\ Conclusion(outcome)
    <3>1. outcome = IF verdict = "succeeded" THEN "succeeded" ELSE "pipeline_failure"
      BY <1>1, <2>1 DEF IInv, IngestInv, JudgedComplete
    <3>2. outcome # Null
      BY <3>1 DEF RunOutcomes
    <3> QED
      BY <1>1, <3>1, <3>2, OutcomeConcludes
  <2>2. order \in Pipelines
    BY <1>1 DEF IInv, TypeOK
  <2>3. ASSUME verdict = "succeeded"
        PROVE  /\ {e.job : e \in ended} = {order[i] : i \in DOMAIN order}
               /\ \A e \in ended : e.state = "succeeded"
    <3>1. EndedThrough(Len(order)) /\ NoneFailed
      BY <2>1, <2>3 DEF Conclusion
    <3> QED
      BY <2>2, <3>1, OrderFacts DEF EndedThrough, NoneFailed
  <2>4. ASSUME verdict = "failed-pipeline"
        PROVE  \/ ended = {}
               \/ /\ Cardinality({e \in ended : e.state = "failed"}) = 1
                  /\ {e.job : e \in ended} = {order[i] : i \in 1..Cardinality(ended)}
    <3>1. outcome = "pipeline_failure" /\ Conclusion(outcome)
      BY <2>1, <2>4
    <3>2. CASE ended = {}
      BY <3>2
    <3>3. CASE (\E n \in DOMAIN order : EndedThrough(n)) /\ OneFailed
      BY <3>3 DEF EndedThrough, OneFailed
    <3> QED
      BY <3>1, <3>2, <3>3 DEF Conclusion
  <2> QED
    BY <2>3, <2>4 DEF VerdictMatchesJobs
<1> QED
  BY <1>1, Invariance, PTL

\* The row stands at the place its command has among those of its job.
LEMMA PlaceOfRow ==
  ASSUME IInv, NEW x \in shRows
  PROVE  Position(x) = Cardinality(CallsUpTo(x)) /\ x \in calls
<1>1. /\ shRows \subseteq calls /\ calls \subseteq ShRow /\ RowsInOrder /\ CallsInOrder
  BY DEF IInv, TypeOK, ProcessInv, IngestInv, RowsAreReal, CommandsInOrder
<1>2. x \in calls
  BY <1>1
<1>3. ASSUME NEW y \in shRows, y.job = x.job, y.started <= x.started
      PROVE  y \in CallsUpTo(x)
  <2>1. y \in calls /\ y.cmd \in Nat /\ x.cmd \in Nat /\ y.started \in Nat /\ x.started \in Nat
    BY <1>1, <1>2 DEF ShRow
  <2>2. CASE x.cmd < y.cmd
    <3>1. x.started <= y.started
      BY <1>1, <1>2, <2>1, <2>2 DEF CallsInOrder
    <3>2. x.started = y.started
      BY <1>3, <2>1, <3>1
    <3>3. x = y
      BY <1>1, <1>3, <3>2 DEF RowsInOrder
    <3> QED
      BY <2>1, <2>2, <3>3
  <2> QED
    BY <1>3, <2>1, <2>2 DEF CallsUpTo
<1>4. ASSUME NEW y \in CallsUpTo(x)
      PROVE  y \in shRows /\ y.job = x.job /\ y.started <= x.started
  <2>1. y \in calls /\ y.job = x.job /\ y.cmd <= x.cmd
    BY DEF CallsUpTo
  <2>2. y.cmd \in Nat /\ x.cmd \in Nat /\ y.started \in Nat /\ x.started \in Nat
    BY <1>1, <1>2, <2>1 DEF ShRow
  <2>3. y \in shRows
    BY <1>1, <2>1 DEF RowsInOrder
  <2>4. CASE y.cmd < x.cmd
    BY <1>1, <1>2, <2>1, <2>3, <2>4 DEF CallsInOrder
  <2>5. CASE y.cmd = x.cmd
    <3>1. y = x
      BY <1>1, <1>2, <2>1, <2>5 DEF CallsInOrder
    <3> QED
      BY <1>2, <2>1, <2>2, <2>3, <3>1
  <2> QED
    BY <2>1, <2>2, <2>3, <2>4, <2>5
<1>5. {y \in shRows : y.job = x.job /\ y.started <= x.started} = CallsUpTo(x)
  BY <1>3, <1>4
<1> QED
  BY <1>2, <1>5 DEF Position

\* The page shows each command beside its own output, up to the first command
\* of its job whose log could not be written (run_detail, Runtime::sh).
THEOREM LogsBesideRows == Spec => []LogsMatchRows
<1>1. ASSUME IInv PROVE LogsMatchRows
  <2>1. SUFFICES ASSUME NEW x \in shRows,
                        \A y \in calls : y.job = x.job /\ y.cmd <= x.cmd => y.cmd \notin unlogged
                 PROVE  ShownLog(x) = {x.cmd}
    BY DEF LogsMatchRows
  <2>2. x \in calls /\ Position(x) = Cardinality(CallsUpTo(x))
    BY <1>1, PlaceOfRow
  <2>3. Unbroken(CallsUpTo(x))
    BY <2>1 DEF Unbroken, CallsUpTo
  <2>4. Written(x)
    BY <1>1 DEF IInv, IngestInv, RowsInOrder, RowsAreReal, Written
  <2>5. LogKept(x, Position(x))
    BY <1>1, <2>2, <2>3, <2>4 DEF IInv, ProcessInv, LogsInOrder, EarlyLogs
  <2> DEFINE place == Position(x)
             log == [job |-> x.job, n |-> place, cmd |-> x.cmd]
  <2>6. /\ log \in logs
        /\ \A l \in logs : l.job = x.job /\ l.n = place => l.cmd = x.cmd
    BY <2>5 DEF LogKept
  <2>7. log.job = x.job /\ log.n = place /\ log.cmd = x.cmd
    OBVIOUS
  <2>8. ShownLog(x) = {l.cmd : l \in {m \in logs : m.job = x.job /\ m.n = place}}
    BY DEF ShownLog
  <2> HIDE DEF place, log
  <2> QED
    BY <2>6, <2>7, <2>8
<1> QED
  BY <1>1, Invariance, PTL

-----------------------------------------------------------------------------
(* The abstract report *)

\* A step of the process is an item that happens, the end, or no step at all.
LEMMA CiReports ==
  ASSUME IInv, CiNext, UNCHANGED srvVars
  PROVE  [Report!Next]_(Report!vars)
<1>1. /\ pc # "exited"
      /\ \/ \E x : calls' = calls \cup {x} /\ ended' = ended /\ pc' # "exited"
         \/ \E x : ended' = ended \cup {x} /\ calls' = calls /\ pc' # "exited"
         \/ calls' = calls /\ ended' = ended
  <2>1. CASE FinishSh
    BY <2>1 DEF FinishSh
  <2>2. ASSUME NEW result \in JobOutcomes, FinishJob(result)
        PROVE  pc # "exited" /\ \E x : ended' = ended \cup {x} /\ calls' = calls /\ pc' # "exited"
    BY <2>2 DEF FinishJob, AfterJob
  <2>3. CASE CreateFile \/ FailEarly \/ CompileFails \/ Compile \/ StartJob \/ StartSh
    BY <2>3 DEF CreateFile, FailEarly, CompileFails, Compile, StartJob, StartSh, RunsLua
  <2>4. CASE SpawnFails \/ WriteLog \/ LogFails
    BY <2>4 DEF SpawnFails, WriteLog, LogFails
  <2>5. CASE FinishRun \/ Exit \/ Quit \/ Die
    BY <2>5 DEF FinishRun, Exit, Quit, Die, RunsLua
  <2> QED
    BY <2>1, <2>2, <2>3, <2>4, <2>5 DEF CiNext
<1>2. UNCHANGED <<jobRows, shRows, verdict>>
  BY DEF srvVars
<1> DEFINE happens == (ended \cup calls)' = ended \cup calls
           more == \E x : (ended \cup calls)' = (ended \cup calls) \cup {x}
<1>3. \/ more /\ pc' # "exited"
      \/ happens
  BY <1>1
<1>4. CASE happens
  BY <1>1, <1>2, <1>4 DEF Report!Next, Report!End, Report!vars
<1>5. CASE more /\ pc' # "exited" /\ ~happens
  <2>1. Report!Happen
    BY <1>1, <1>2, <1>5 DEF Report!Happen
  <2> QED
    BY <2>1 DEF Report!Next
<1> QED
  BY <1>3, <1>4, <1>5

\* The verdict comes last, and one that quire-ci reported beside all items.
LEMMA JudgeReports ==
  ASSUME IInv, Judge
  PROVE  \E v \in Report!Verdicts : Report!Judge(v)
<1>1. /\ srv = "judging" /\ verdict' = Verdict /\ verdict = Null /\ pc = "exited"
      /\ UNCHANGED <<pc, ended, calls, jobRows, shRows>>
  BY DEF Judge, ciVars, IInv, IngestInv, HandlerWaits
<1>2. /\ Verdict \in {"succeeded", "failed-pipeline", "failed-internal"}
      /\ Verdict # "failed-internal" => outcome \in RunOutcomes
      /\ Verdict = "succeeded" => outcome = "succeeded"
  <2>1. CASE exit = "ok" /\ outcome = "succeeded"
    BY <2>1 DEF Verdict, RunOutcomes
  <2>2. CASE exit = "ok" /\ outcome = "pipeline_failure"
    BY <2>2 DEF Verdict, RunOutcomes
  <2>3. CASE /\ ~(exit = "ok" /\ outcome = "succeeded")
             /\ ~(exit = "ok" /\ outcome = "pipeline_failure")
    BY <2>3 DEF Verdict
  <2> QED
    BY <2>1, <2>2, <2>3
<1>3. Verdict # "failed-internal" => jobRows = ended /\ shRows = calls /\ Conclusion(outcome)
  BY <1>1, <1>2, OutcomeConcludes DEF IInv, IngestInv, JudgedComplete
<1>4. ASSUME Verdict = "succeeded", NEW x \in ended \cup calls
      PROVE  x \notin [job : Jobs, state : {"failed"}, started : 0..MaxClock,
                       finished : 0..MaxClock]
  <2>1. CASE x \in ended
    <3>1. x.state = "succeeded"
      BY <1>2, <1>3, <1>4, <2>1 DEF Conclusion, NoneFailed
    <3> QED
      BY <3>1
  <2>2. CASE x \in calls
    <3>1. x \in ShRow
      BY <2>2 DEF IInv, TypeOK
    <3>2. "cmd" \in DOMAIN x
      BY <3>1 DEF ShRow
    <3> QED
      BY <3>2
  <2> QED
    BY <2>1, <2>2
<1>5. Verdict # "failed-internal" => Report!Complete(Verdict)
  BY <1>3, <1>4 DEF Report!Complete
<1>6. Report!Judge(Verdict)
  BY <1>1, <1>5 DEF Report!Judge
<1> QED
  BY <1>2, <1>6 DEF Report!Verdicts

\* A step of the handler shows an item that happened, judges, or is no step.
LEMMA HandlerReports ==
  ASSUME IInv, Ingest \/ Judge \/ ServerDies
  PROVE  [Report!Next]_(Report!vars)
<1>1. UNCHANGED <<pc, calls, ended>>
  BY HandlerFrame
<1>2. CASE Judge
  BY <1>2, JudgeReports DEF Report!Next
<1>3. CASE UNCHANGED <<jobRows, shRows, verdict>>
  BY <1>1, <1>3 DEF Report!vars
<1>4. CASE ReadEvents \/ NoteJob \/ NoteOutcome \/ SecondPass \/ NoteSh \/ EndIngest \/ Skip
  BY <1>3, <1>4 DEF ReadEvents, NoteJob, NoteOutcome, SecondPass, NoteSh, EndIngest, Skip
<1>5. CASE IngestFails \/ ServerDies
  BY <1>3, <1>5 DEF IngestFails, ServerDies
<1> DEFINE shows == \E x \in ended \cup calls : (jobRows \cup shRows)' = jobRows \cup shRows \cup {x}
           waits == pc = "exited" /\ verdict = Null /\ verdict' = verdict
<1>6. ASSUME shows, waits
      PROVE  [Report!Next]_(Report!vars)
  <2>1. PICK x \in ended \cup calls : (jobRows \cup shRows)' = jobRows \cup shRows \cup {x}
    BY <1>6
  <2>2. CASE x \in jobRows \cup shRows
    BY <1>1, <1>6, <2>1, <2>2 DEF Report!vars
  <2>3. CASE x \notin jobRows \cup shRows
    <3>1. Report!Show
      BY <1>1, <1>6, <2>1, <2>3 DEF Report!Show
    <3> QED
      BY <3>1 DEF Report!Next
  <2> QED
    BY <2>2, <2>3
<1>7. CASE InsertJob
  <2>1. waits
    BY <1>7 DEF InsertJob, IInv, IngestInv, HandlerWaits
  <2>2. JobRowOf(Ev) \in ended
    BY <1>7, InsertedJob
  <2>3. shRows' = shRows /\ (jobRows' = jobRows \/ jobRows' = jobRows \cup {JobRowOf(Ev)})
    BY <1>7 DEF InsertJob
  <2>4. CASE jobRows' = jobRows
    BY <1>3, <2>1, <2>3, <2>4
  <2>5. CASE jobRows' = jobRows \cup {JobRowOf(Ev)}
    <3>1. shows
      BY <2>2, <2>3, <2>5
    <3> QED
      BY <1>6, <2>1, <3>1
  <2> QED
    BY <2>3, <2>4, <2>5
<1>8. CASE InsertSh
  <2>1. waits
    BY <1>8 DEF InsertSh, IInv, IngestInv, HandlerWaits
  <2>2. jobRows' = jobRows
    BY <1>8 DEF InsertSh
  <2>3. CASE shRows' = shRows
    BY <1>3, <2>1, <2>2, <2>3
  <2>4. CASE shRows' # shRows
    <3>1. shRows' = shRows \cup {ShRowOf(Ev)} /\ ShRowOf(Ev) \in calls
      BY <1>8, <2>4, InsertedSh DEF InsertSh
    <3>2. shows
      BY <2>2, <3>1
    <3> QED
      BY <1>6, <2>1, <3>2
  <2> QED
    BY <2>3, <2>4
<1> QED
  BY <1>2, <1>4, <1>5, <1>7, <1>8 DEF Ingest

\* The run's page shows what the abstract report promises.
THEOREM ReportImplemented == Spec => ImplementsReport
<1>1. Init => Report!Init
  BY DEF Init, CiInit, Report!Init
<1>2. IInv /\ [Next]_vars => [Report!Next]_(Report!vars)
  <2> SUFFICES ASSUME IInv, [Next]_vars
               PROVE  [Report!Next]_(Report!vars)
    OBVIOUS
  <2>1. CASE Ci
    BY <2>1, CiReports DEF Ci
  <2>2. CASE Ingest \/ Judge \/ ServerDies
    BY <2>2, HandlerReports
  <2>3. CASE Time \/ UNCHANGED vars
    BY <2>3 DEF Time, Tick, vars, ciVars, srvVars, Report!vars
  <2> QED
    BY <2>1, <2>2, <2>3 DEF Next
<1> QED
  BY <1>1, <1>2, Invariance, PTL DEF Spec, Report!Spec, ImplementsReport

==============================================================================
