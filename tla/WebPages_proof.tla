---------------------------- MODULE WebPages_proof ----------------------------
(***************************************************************************)
(* Proofs about WebPages, for any commits, trees, rows and requests, and   *)
(* whatever happens to them between any two reads.                         *)
(*                                                                         *)
(*  - What a page pins to a commit or to the end of a run agrees with it   *)
(*    (Invariance, VerdictBacked, PinnedAgree).                            *)
(*  - What a page shows was so at some moment of the request, and at none  *)
(*    before the head it names, the log page's apart (PageInvariance,      *)
(*    TypesHold, PartsTimely).                                             *)
(*  - A page beside which nothing happened is true of the repository, and  *)
(*    its links lead to pages, with exceptions that are listed             *)
(*    (QuietIsTrue).                                                       *)
(*                                                                         *)
(* The sections in between say what the operators of RepoTree return: the  *)
(* line of a commit, the logs, the sorted listings.                        *)
(***************************************************************************)
EXTENDS WebPages, SequenceTheorems, FiniteSetTheorems, TLAPS

USE OutcomesAssumption

-----------------------------------------------------------------------------
(* Reads *)

\* The parts that the properties are about.
Pinned == {"run", "jobs", "sh", "head", "mirrors", "id", "info", "patch"}

\* A step leaves a part of the page alone.
Same(x) ==
  /\ x \in DOMAIN page' <=> x \in DOMAIN page
  /\ x \in DOMAIN page => page'[x] = page[x]

LEMMA WithKeeps ==
  ASSUME NEW part, NEW value, page' = With(part, value)
  PROVE  /\ part \in DOMAIN page' /\ page'[part] = value
         /\ \A x : x # part => Same(x)
BY DEF With, Same

\* A read adds its part to the page, which did not have it.
LEMMA OneRead ==
  ASSUME NEW part \in Pinned, NEW value, Reads(part),
         Got(part, value) \/ GotOr404(part, value)
  PROVE  /\ part \notin DOMAIN page
         /\ UNCHANGED <<head, stored, runs, req>> /\ status' # "ok"
         /\ \A x \in Pinned \ {part} : Same(x)
         /\ \/ part \in DOMAIN page' /\ page'[part] = value
               /\ (GotOr404(part, value) => value # None)
            \/ GotOr404(part, value) /\ UNCHANGED page
<1>1. part # "changes"
  BY DEF Pinned
<1>2. /\ part \notin DOMAIN page /\ status = "reading"
      /\ UNCHANGED <<head, stored, runs, req>>
  BY <1>1 DEF Reads, Has, outsideVars
<1>3. \/ page' = With(part, value) /\ UNCHANGED status
         /\ (GotOr404(part, value) => value # None)
      \/ UNCHANGED page /\ status' = "not found" /\ GotOr404(part, value)
  <2>1. CASE Got(part, value) /\ value # None
    BY <2>1 DEF Got
  <2>2. CASE Got(part, value) /\ value = None /\ ~GotOr404(part, value)
    BY <2>2 DEF Got
  <2>3. CASE GotOr404(part, value)
    BY <2>3 DEF GotOr404, Got
  <2> QED
    BY <2>1, <2>2, <2>3
<1>4. CASE page' = With(part, value) /\ UNCHANGED status /\ (GotOr404(part, value) => value # None)
  BY <1>2, <1>4, WithKeeps
<1>5. CASE UNCHANGED page /\ status' = "not found" /\ GotOr404(part, value)
  BY <1>2, <1>5 DEF Same
<1> QED
  BY <1>3, <1>4, <1>5

\* The other reads.
OtherRead ==
  \/ ReadEntries \/ ReadChange \/ ReadRecent
  \/ ReadFileHead \/ ReadText \/ ReadMode \/ ReadLast \/ ReadSize \/ ReadRaw
  \/ ReadReadme \/ ReadRuns \/ ReadListed \/ ReadSubject \/ QueryFails

LEMMA OtherReads ==
  ASSUME OtherRead
  PROVE  /\ UNCHANGED <<head, stored, runs, req>> /\ status' # "ok"
         /\ \A x \in Pinned : Same(x)
<1>1. UNCHANGED <<head, stored, runs, req>> /\ status = "reading"
  BY DEF OtherRead, ReadEntries, ReadChange, ReadRecent, ReadFileHead, ReadText, ReadMode,
     ReadLast, ReadSize, ReadRaw, ReadReadme, ReadRuns, ReadListed, ReadSubject, QueryFails,
     Reads, outsideVars
<1>2. ASSUME NEW part, part \notin Pinned, NEW value,
             Got(part, value) \/ GotOr404(part, value)
      PROVE  status' # "ok" /\ \A x \in Pinned : Same(x)
  <2>1. CASE page' = With(part, value) /\ UNCHANGED status
    BY <1>1, <1>2, <2>1, WithKeeps
  <2>2. CASE UNCHANGED page /\ status' = "not found"
    BY <2>2 DEF Same
  <2> QED
    BY <1>2, <2>1, <2>2 DEF Got, GotOr404
<1>3. "changes" \notin Pinned /\ "entries" \notin Pinned /\ "tried" \notin Pinned
  BY DEF Pinned
<1>4. ASSUME ReadEntries PROVE status' # "ok" /\ \A x \in Pinned : Same(x)
  BY <1>1, <1>3, <1>4 DEF ReadEntries, Same
<1>5. ASSUME ReadChange \/ ReadRecent \/ ReadRuns \/ ReadListed \/ ReadSubject
      PROVE  status' # "ok" /\ \A x \in Pinned : Same(x)
  <2>1. \E part \in {"changes", "recent", "runs", "listed", "subject"} :
          \E value : Got(part, value)
    BY <1>5 DEF ReadChange, ReadRecent, ReadRuns, ReadListed, ReadSubject
  <2> QED
    BY <1>2, <2>1 DEF Pinned
<1>6. ASSUME ReadFileHead \/ ReadText \/ ReadMode \/ ReadLast \/ ReadSize \/ ReadRaw
      PROVE  status' # "ok" /\ \A x \in Pinned : Same(x)
  <2>1. \E part \in {"fileHead", "text", "mode", "last", "size", "raw"} :
          \E value : Got(part, value) \/ GotOr404(part, value)
    BY <1>6 DEF ReadFileHead, ReadText, ReadMode, ReadLast, ReadSize, ReadRaw
  <2> QED
    BY <1>2, <2>1 DEF Pinned
<1>7. ASSUME ReadReadme PROVE status' # "ok" /\ \A x \in Pinned : Same(x)
  <2>1. \/ page' = [page EXCEPT !.tried = @ + 1] /\ UNCHANGED status
        \/ \E value : Got("readme", value)
    BY <1>7 DEF ReadReadme
  <2>2. CASE page' = [page EXCEPT !.tried = @ + 1] /\ UNCHANGED status
    BY <1>1, <1>3, <2>2 DEF Same
  <2>3. CASE \E value : Got("readme", value)
    BY <1>2, <2>3 DEF Pinned
  <2> QED
    BY <2>1, <2>2, <2>3
<1>8. ASSUME QueryFails PROVE status' # "ok" /\ \A x \in Pinned : Same(x)
  BY <1>8 DEF QueryFails, Same
<1> QED
  BY <1>1, <1>4, <1>5, <1>6, <1>7, <1>8 DEF OtherRead

\* The order of the reads that the properties rely on.
LEMMA Order ==
  /\ req.kind = "run" /\ (Reads("jobs") \/ Reads("sh")) => "run" \in DOMAIN page
  /\ req.kind = "home" /\ Reads("mirrors") => "head" \in DOMAIN page
  /\ req.kind = "commit" /\ (Reads("info") \/ Reads("patch")) => "id" \in DOMAIN page
<1>1. req.kind = "run" /\ (Reads("jobs") \/ Reads("sh")) => "run" \in DOMAIN page
  BY DEF Reads, Parts, RunParts, Has
<1>2. req.kind = "home" /\ Reads("mirrors") => "head" \in DOMAIN page
  BY DEF Reads, Parts, HomeParts, Has
<1>3. req.kind = "commit" /\ (Reads("info") \/ Reads("patch")) => "id" \in DOMAIN page
  BY DEF Reads, Parts, Has
<1> QED
  BY <1>1, <1>2, <1>3

-----------------------------------------------------------------------------
(* What happens beside a request *)

\* Rows are neither removed nor renumbered, and those of a run that has ended
\* stay as they are.
RowsStay ==
  /\ runs' \in Seq(RunRows)
  /\ \A i \in DOMAIN runs :
       /\ i \in DOMAIN runs'
       /\ Ended(runs[i]) => /\ Ended(runs'[i])
                            /\ runs'[i].jobs = runs[i].jobs
                            /\ runs'[i].sh = runs[i].sh

LEMMA OneRow ==
  ASSUME runs \in Seq(RunRows), NEW i \in DOMAIN runs, NEW x, RowMoves(i, x),
         Ended(runs[i]) => Ended(x) /\ x.jobs = runs[i].jobs /\ x.sh = runs[i].sh
  PROVE  RowsStay
<1>1. x \in RunRows /\ runs' = [runs EXCEPT ![i] = x]
  BY DEF RowMoves
<1>2. runs' \in Seq(RunRows) /\ DOMAIN runs' = DOMAIN runs
  BY <1>1
<1>3. \A k \in DOMAIN runs : runs'[k] = IF k = i THEN x ELSE runs[k]
  BY <1>1
<1> QED
  BY <1>2, <1>3 DEF RowsStay

LEMMA OutsideKeeps ==
  ASSUME runs \in Seq(RunRows), Outside
  PROVE  RowsStay /\ UNCHANGED <<req, status, page>>
<1>1. UNCHANGED <<req, status, page>>
  BY DEF Outside, Pushed, Removed, Created, NewRun, Dispatched, JobInserted, ShInserted,
     Resolved, HeadMoves, RowMoves, Move
<1>2. ASSUME (\E c \in Commits : Pushed(c)) \/ Removed \/ Created PROVE RowsStay
  BY <1>2 DEF Pushed, Removed, Created, HeadMoves, RowsStay
<1>3. ASSUME NewRun PROVE RowsStay
  <2>1. Queued \in RunRows
    <3>1. None \notin Reported \cup Imposed
      BY DEF Outcomes
    <3>2. Queued \in [outcome : Outcomes \cup {None}, dispatched : BOOLEAN, jobs : 0..1, sh : 0..1]
      BY DEF Queued
    <3>3. Queued.outcome = None /\ Queued.jobs = 0 /\ Queued.sh = 0
      BY DEF Queued
    <3> QED
      BY <3>1, <3>2, <3>3 DEF RunRows
  <2>2. runs' = Append(runs, Queued)
    BY <1>3 DEF NewRun
  <2>3. runs' \in Seq(RunRows) /\ \A i \in DOMAIN runs : i \in DOMAIN runs' /\ runs'[i] = runs[i]
    BY <2>1, <2>2
  <2> QED
    BY <2>3 DEF RowsStay
<1>4. ASSUME NEW i \in DOMAIN runs,
             Dispatched(i) \/ JobInserted(i) \/ ShInserted(i) \/ \E o \in Outcomes : Resolved(i, o)
      PROVE  RowsStay
  <2>1. runs[i] \in RunRows
    OBVIOUS
  <2> DEFINE Row == [outcome : Outcomes \cup {None}, dispatched : BOOLEAN,
                     jobs : 0..1, sh : 0..1]
  <2>2. runs[i] \in Row
    BY <2>1 DEF RunRows
  <2>3. CASE Dispatched(i)
    <3> DEFINE x == [runs[i] EXCEPT !.dispatched = TRUE]
    <3>1. x.outcome = runs[i].outcome /\ x.jobs = runs[i].jobs /\ x.sh = runs[i].sh
      BY <2>2
    <3>2. RowMoves(i, x)
      BY <2>3 DEF Dispatched
    <3> HIDE DEF x
    <3> QED
      BY <3>1, <3>2, OneRow DEF Ended
  <2>4. CASE JobInserted(i) \/ ShInserted(i)
    <3>1. ~Ended(runs[i])
      BY <2>4 DEF JobInserted, ShInserted, Ended, Reported, Imposed, Outcomes
    <3> QED
      BY <2>4, <3>1, OneRow DEF JobInserted, ShInserted
  <2>5. CASE \E o \in Outcomes : Resolved(i, o)
    <3>1. ~Ended(runs[i])
      BY <2>5 DEF Resolved, Ended, Outcomes
    <3> QED
      BY <2>5, <3>1, OneRow DEF Resolved
  <2> QED
    BY <1>4, <2>3, <2>4, <2>5
<1> QED
  BY <1>1, <1>2, <1>3, <1>4 DEF Outside

-----------------------------------------------------------------------------
(* The invariant, step by step *)

\* A step of a request that leaves the pinned parts alone.
LEMMA SamePage ==
  ASSUME IInv, UNCHANGED <<runs, req>>, \A x \in Pinned : Same(x)
  PROVE  runs' \in Seq(RunRows) /\ RunPage' /\ HomePage' /\ CommitPage'
<1>1. /\ Same("run") /\ Same("jobs") /\ Same("sh") /\ Same("head") /\ Same("mirrors")
      /\ Same("id") /\ Same("info") /\ Same("patch")
  BY DEF Pinned
<1>2. RunPage'
  BY <1>1 DEF IInv, RunPage, Same
<1>3. HomePage'
  BY <1>1 DEF IInv, HomePage, Same
<1>4. CommitPage'
  BY <1>1 DEF IInv, CommitPage, Same
<1> QED
  BY <1>2, <1>3, <1>4 DEF IInv

LEMMA OutsideIsFine ==
  ASSUME IInv, Outside PROVE IInv'
<1>1. RowsStay /\ UNCHANGED <<req, status, page>>
  BY OutsideKeeps DEF IInv
<1>2. (status = "ok" => Complete)'
  BY <1>1 DEF IInv, Complete, Has, Parts, HomeParts, TreeParts, RunParts, Authenticated
<1>3. RunPage'
  BY <1>1 DEF IInv, RunPage, RowsStay
<1>4. HomePage' /\ CommitPage'
  BY <1>1 DEF IInv, HomePage, CommitPage
<1> QED
  BY <1>1, <1>2, <1>3, <1>4 DEF IInv, RowsStay

LEMMA ReadRunIsFine ==
  ASSUME IInv, ReadRun \/ ReadJobs \/ ReadSh PROVE IInv'
<1>1. ASSUME NEW part \in {"run", "jobs", "sh"}, NEW value, Reads(part),
             Got(part, value) \/ GotOr404(part, value),
             req.kind = "run" =>
               IF part = "run"
                 THEN GotOr404(part, value) /\
                      (value # None =>
                         /\ req.arg \in DOMAIN runs
                         /\ Ended(value) => Ended(runs[req.arg]))
                 ELSE Got(part, value) /\ value = RowsOf(req.arg, part)
      PROVE  IInv'
  <2>1. /\ part \in Pinned /\ part \notin DOMAIN page
        /\ UNCHANGED <<runs, req>> /\ status' # "ok"
        /\ \A x \in Pinned \ {part} : Same(x)
        /\ \/ part \in DOMAIN page' /\ page'[part] = value
              /\ (GotOr404(part, value) => value # None)
           \/ GotOr404(part, value) /\ UNCHANGED page
    BY <1>1, OneRead DEF Pinned
  <2>2. CASE UNCHANGED page
    BY <2>1, <2>2, SamePage DEF IInv, Same
  <2>3. CASE part \in DOMAIN page' /\ page'[part] = value
             /\ (GotOr404(part, value) => value # None)
    <3>1. HomePage' /\ CommitPage'
      <4>1. Same("head") /\ Same("mirrors") /\ Same("id") /\ Same("info") /\ Same("patch")
        BY <1>1, <2>1 DEF Pinned
      <4> QED
        BY <2>1, <4>1 DEF IInv, HomePage, CommitPage, Same
    <3>2. ASSUME req.kind = "run" PROVE RunPage'
      <4>1. part # "run" => "run" \in DOMAIN page
        BY <1>1, <3>2, Order
      <4>2. CASE part = "run"
        <5>1. Same("jobs") /\ Same("sh")
          BY <2>1, <4>2 DEF Pinned
        <5>2. "jobs" \notin DOMAIN page' /\ "sh" \notin DOMAIN page'
          BY <2>1, <3>2, <4>2, <5>1 DEF IInv, RunPage, Same
        <5> QED
          BY <1>1, <2>1, <2>3, <3>2, <4>2, <5>2 DEF RunPage
      <4>3. CASE part = "jobs"
        <5>1. Same("run") /\ Same("sh")
          BY <2>1, <4>3 DEF Pinned
        <5> QED
          BY <1>1, <2>1, <2>3, <3>2, <4>1, <4>3, <5>1 DEF IInv, RunPage, RowsOf, Same
      <4>4. CASE part = "sh"
        <5>1. Same("run") /\ Same("jobs")
          BY <2>1, <4>4 DEF Pinned
        <5> QED
          BY <1>1, <2>1, <2>3, <3>2, <4>1, <4>4, <5>1 DEF IInv, RunPage, RowsOf, Same
      <4> QED
        BY <1>1, <4>2, <4>3, <4>4
    <3>3. RunPage'
      BY <2>1, <3>2 DEF RunPage
    <3> QED
      BY <2>1, <3>1, <3>3 DEF IInv
  <2> QED
    BY <2>1, <2>2, <2>3
<1>2. CASE ReadRun
  <2> DEFINE shown == IF req.arg \in DOMAIN runs
                        THEN [outcome |-> runs[req.arg].outcome,
                              state |-> StateOf(runs[req.arg])]
                        ELSE None
  <2>1. Reads("run") /\ GotOr404("run", shown)
    BY <1>2 DEF ReadRun
  <2>2. shown # None => req.arg \in DOMAIN runs /\ (Ended(shown) => Ended(runs[req.arg]))
    BY DEF Ended
  <2> HIDE DEF shown
  <2> QED
    BY <1>1, <2>1, <2>2
<1>3. CASE ReadJobs
  BY <1>1, <1>3 DEF ReadJobs
<1>4. CASE ReadSh
  BY <1>1, <1>4 DEF ReadSh
<1> QED
  BY <1>2, <1>3, <1>4

LEMMA ReadHomeIsFine ==
  ASSUME IInv, ReadHead \/ ReadMirrors PROVE IInv'
<1>1. CASE ReadHead
  <2>1. Reads("head") /\ Got("head", HeadShown(head))
    BY <1>1 DEF ReadHead
  <2>2. /\ "head" \notin DOMAIN page /\ UNCHANGED <<runs, req>> /\ status' # "ok"
        /\ \A x \in Pinned \ {"head"} : Same(x)
    BY <2>1, OneRead DEF Pinned
  <2>3. /\ Same("run") /\ Same("jobs") /\ Same("sh") /\ Same("mirrors")
        /\ Same("id") /\ Same("info") /\ Same("patch")
    BY <2>2 DEF Pinned
  <2>4. RunPage' /\ CommitPage'
    BY <2>2, <2>3 DEF IInv, RunPage, CommitPage, Same
  <2>5. HomePage'
    BY <2>2, <2>3 DEF IInv, HomePage, Same
  <2> QED
    BY <2>2, <2>4, <2>5 DEF IInv
<1>2. CASE ReadMirrors
  <2>1. Reads("mirrors") /\ Got("mirrors", Configured)
    BY <1>2 DEF ReadMirrors
  <2>2. /\ UNCHANGED <<runs, req>> /\ status' # "ok"
        /\ \A x \in Pinned \ {"mirrors"} : Same(x)
        /\ \/ page'["mirrors"] = Configured
           \/ UNCHANGED page
    BY <2>1, OneRead DEF Pinned
  <2>3. /\ Same("run") /\ Same("jobs") /\ Same("sh") /\ Same("head")
        /\ Same("id") /\ Same("info") /\ Same("patch")
    BY <2>2 DEF Pinned
  <2>4. RunPage' /\ CommitPage'
    BY <2>2, <2>3 DEF IInv, RunPage, CommitPage, Same
  <2>5. HomePage'
    <3>1. req.kind = "home" => "head" \in DOMAIN page
      BY <2>1, Order
    <3>2. page.head # None => Configured \in {MirrorsOf[page.head], {}}
      BY DEF Configured
    <3> QED
      BY <2>2, <2>3, <3>1, <3>2 DEF IInv, HomePage, Same
  <2> QED
    BY <2>2, <2>4, <2>5 DEF IInv
<1> QED
  BY <1>1, <1>2

LEMMA ReadCommitIsFine ==
  ASSUME IInv, ReadId \/ ReadInfo \/ ReadPatch PROVE IInv'
<1>1. ASSUME NEW part \in {"id", "info", "patch"}, NEW value, Reads(part),
             Got(part, value) \/ GotOr404(part, value),
             part = "info" => GotOr404(part, value),
             part # "id" => value \in {Denoted(page.id), None}
      PROVE  IInv'
  <2>1. /\ part \in Pinned /\ part \notin DOMAIN page
        /\ UNCHANGED <<runs, req>> /\ status' # "ok"
        /\ \A x \in Pinned \ {part} : Same(x)
        /\ \/ part \in DOMAIN page' /\ page'[part] = value
              /\ (GotOr404(part, value) => value # None)
           \/ GotOr404(part, value) /\ UNCHANGED page
    BY <1>1, OneRead DEF Pinned
  <2>2. CASE UNCHANGED page
    BY <2>1, <2>2, SamePage DEF IInv, Same
  <2>3. CASE part \in DOMAIN page' /\ page'[part] = value
             /\ (GotOr404(part, value) => value # None)
    <3>1. Same("run") /\ Same("jobs") /\ Same("sh") /\ Same("head") /\ Same("mirrors")
      BY <1>1, <2>1 DEF Pinned
    <3>2. RunPage' /\ HomePage'
      BY <2>1, <3>1 DEF IInv, RunPage, HomePage, Same
    <3>3. ASSUME req.kind = "commit" PROVE CommitPage'
      <4>1. part # "id" => "id" \in DOMAIN page
        BY <1>1, <3>3, Order
      <4>2. page.id # HeadName => Denoted(page.id) \in {page.id, None}
        BY DEF Denoted
      <4>3. CASE part = "id"
        <5>1. Same("info") /\ Same("patch")
          BY <2>1, <4>3 DEF Pinned
        <5> QED
          BY <2>1, <3>3, <4>3, <5>1 DEF IInv, CommitPage, Same
      <4>4. CASE part = "info"
        <5>1. Same("id") /\ Same("patch")
          BY <2>1, <4>4 DEF Pinned
        <5> QED
          BY <1>1, <2>1, <2>3, <3>3, <4>1, <4>2, <4>4, <5>1 DEF IInv, CommitPage, Same
      <4>5. CASE part = "patch"
        <5>1. Same("id") /\ Same("info")
          BY <2>1, <4>5 DEF Pinned
        <5> QED
          BY <1>1, <2>1, <2>3, <3>3, <4>1, <4>2, <4>5, <5>1 DEF IInv, CommitPage, Same
      <4> QED
        BY <1>1, <4>3, <4>4, <4>5
    <3>4. CommitPage'
      BY <2>1, <3>3 DEF CommitPage
    <3> QED
      BY <2>1, <3>2, <3>4 DEF IInv
  <2> QED
    BY <2>1, <2>2, <2>3
<1>2. CASE ReadId
  BY <1>1, <1>2 DEF ReadId
<1>3. CASE ReadInfo
  BY <1>1, <1>3 DEF ReadInfo, Said
<1>4. CASE ReadPatch
  BY <1>1, <1>4 DEF ReadPatch, Patched, Said
<1> QED
  BY <1>2, <1>3, <1>4

-----------------------------------------------------------------------------
(* The theorems about what is pinned *)

LEMMA InitIInv == Init => IInv
<1> SUFFICES ASSUME Init PROVE IInv
  OBVIOUS
<1>1. runs \in Seq(RunRows)
  <2>1. CASE runs = <<>>
    BY <2>1
  <2>2. ASSUME NEW x \in RunRows, runs = <<x>> PROVE runs \in Seq(RunRows)
    BY <2>2
  <2>3. runs = <<>> \/ \E x \in RunRows : runs = <<x>>
    BY DEF Init
  <2> QED
    BY <2>1, <2>2, <2>3
<1> QED
  BY <1>1 DEF Init, IInv, NoPage, NoRequest, RunPage, HomePage, CommitPage

LEMMA NextIInv == IInv /\ [Next]_vars => IInv'
<1> SUFFICES ASSUME IInv, [Next]_vars PROVE IInv'
  OBVIOUS
<1>1. ASSUME NEW kind \in Kinds, NEW arg \in ArgsOf(kind), NEW visitor \in Visitors,
             Open(kind, arg, visitor)
      PROVE  IInv'
  <2>1. page' = NoPage /\ UNCHANGED runs /\ status' # "ok"
    BY <1>1 DEF Open, outsideVars
  <2> QED
    BY <2>1 DEF IInv, NoPage, RunPage, HomePage, CommitPage
<1>2. CASE Close
  <2>1. page' = NoPage /\ UNCHANGED runs /\ status' # "ok"
    BY <1>2 DEF Close, outsideVars
  <2> QED
    BY <2>1 DEF IInv, NoPage, RunPage, HomePage, CommitPage
<1>3. CASE Render
  <2>1. Complete /\ UNCHANGED <<runs, req, page>>
    BY <1>3 DEF Render, outsideVars
  <2>2. Complete'
    BY <2>1 DEF Complete, Has, Parts, HomeParts, TreeParts, RunParts, Authenticated
  <2> QED
    BY <2>1, <2>2, SamePage DEF IInv, Same
<1>4. CASE UNCHANGED vars
  <2>1. UNCHANGED <<runs, req, page, status>>
    BY <1>4 DEF vars, outsideVars, requestVars
  <2>2. (status = "ok" => Complete)'
    BY <2>1 DEF IInv, Complete, Has, Parts, HomeParts, TreeParts, RunParts, Authenticated
  <2> QED
    BY <2>1, <2>2, SamePage DEF IInv, Same
<1>5. CASE OtherRead
  BY <1>5, OtherReads, SamePage DEF IInv
<1> QED
  BY <1>1, <1>2, <1>3, <1>4, <1>5, OutsideIsFine, ReadRunIsFine, ReadHomeIsFine,
     ReadCommitIsFine DEF Next, Read, OtherRead

\* IInv is invariant: parts that are read later agree with what was read
\* before them by hash, and with the row of a run that has ended.
THEOREM Invariance == Spec => []IInv
BY InitIInv, NextIInv, PTL DEF Spec

\* A run page with a verdict, that no supersession has given, shows every job
\* and command the run will ever have.  Rows hang on the run only until
\* resolve, and the run's own row is read first.
THEOREM VerdictBacked == Spec => []VerdictIsBacked
<1>1. IInv => VerdictIsBacked
  <2> SUFFICES ASSUME IInv, status = "ok", req.kind = "run", Ended(page.run)
               PROVE  page.jobs = runs[req.arg].jobs /\ page.sh = runs[req.arg].sh
    BY DEF VerdictIsBacked
  <2>1. "run" \in DOMAIN page /\ "jobs" \in DOMAIN page /\ "sh" \in DOMAIN page
    BY DEF IInv, Complete, Parts, RunParts, Has
  <2> QED
    BY <2>1 DEF IInv, RunPage
<1> QED
  BY <1>1, Invariance, PTL

\* Mirror links belong to the head on the home page, and the patch to the
\* message on a commit page: both are read by a hash that was read first.
THEOREM PinnedAgree == Spec => []PinnedPartsAgree
<1>1. IInv => PinnedPartsAgree
  <2> SUFFICES ASSUME IInv, status = "ok" PROVE PinnedPartsAgree
    BY DEF PinnedPartsAgree
  <2>1. ASSUME req.kind = "home" PROVE "mirrors" \in DOMAIN page
    BY <2>1 DEF IInv, Complete, Parts, HomeParts, Has
  <2>2. ASSUME req.kind = "commit" PROVE "info" \in DOMAIN page /\ "patch" \in DOMAIN page
    BY <2>2 DEF IInv, Complete, Parts, Has
  <2> QED
    BY <2>1, <2>2 DEF IInv, HomePage, CommitPage, PinnedPartsAgree
<1> QED
  BY <1>1, Invariance, PTL

-----------------------------------------------------------------------------
(* The history of a commit *)

\* A set of commits that lacks none whose parent, if any, is in it, has them all.
LEMMA FromRoots ==
  ASSUME NEW G, \A c \in Commits : Parent[c] \notin Commits \ G => c \in G
  PROVE  Commits \subseteq G
<1> SUFFICES ASSUME ~(Commits \subseteq G) PROVE FALSE
  OBVIOUS
<1> DEFINE S == Commits \ G
<1>1. S \in (SUBSET Commits) \ {{}}
  OBVIOUS
<1>2. PICK c \in S : Parent[c] \notin S
  BY <1>1, HistoryAssumption
<1> QED
  BY <1>2

\* f gives the lines of the commits of D, which has the parents of its members.
IsLine(f, D) ==
  /\ D \in SUBSET Commits
  /\ \A c \in D : Parent[c] \in D \cup {None}
  /\ f = [c \in D |-> <<c>> \o IF Parent[c] = None THEN <<>> ELSE f[Parent[c]]]

LEMMA LinesAgree ==
  ASSUME NEW f, NEW D, NEW g, NEW E, IsLine(f, D), IsLine(g, E)
  PROVE  \A c \in D \cap E : f[c] = g[c]
<1> DEFINE G == {c \in Commits : c \in D \cap E => f[c] = g[c]}
<1>1. \A c \in Commits : Parent[c] \notin Commits \ G => c \in G
  <2> SUFFICES ASSUME NEW c \in Commits, Parent[c] \notin Commits \ G, c \in D \cap E
               PROVE  f[c] = g[c]
    OBVIOUS
  <2>1. f[c] = <<c>> \o IF Parent[c] = None THEN <<>> ELSE f[Parent[c]]
    BY DEF IsLine
  <2>2. g[c] = <<c>> \o IF Parent[c] = None THEN <<>> ELSE g[Parent[c]]
    BY DEF IsLine
  <2>3. Parent[c] # None => f[Parent[c]] = g[Parent[c]]
    BY DEF IsLine
  <2> QED
    BY <2>1, <2>2, <2>3
<1> HIDE DEF G
<1>2. Commits \subseteq G
  BY <1>1, FromRoots
<1> QED
  BY <1>2 DEF G, IsLine

LEMMA LineOf ==
  ASSUME NEW c \in Commits
  PROVE  \E D : c \in D /\ \E f : IsLine(f, D)
<1> DEFINE G == {b \in Commits : \E D : b \in D /\ \E f : IsLine(f, D)}
<1>1. ASSUME NEW b \in Commits, Parent[b] \notin Commits \ G PROVE b \in G
  <2>1. CASE Parent[b] = None
    <3> DEFINE D == {b}
               f == [x \in D |-> <<b>> \o <<>>]
    <3>1. \A x \in D : f[x] = <<x>> \o IF Parent[x] = None THEN <<>> ELSE f[Parent[x]]
      BY <2>1
    <3>2. f = [x \in D |-> f[x]]
      OBVIOUS
    <3> HIDE DEF f
    <3>3. f = [x \in D |-> <<x>> \o IF Parent[x] = None THEN <<>> ELSE f[Parent[x]]]
      BY <3>1, <3>2
    <3>4. IsLine(f, D)
      BY <2>1, <3>3 DEF IsLine
    <3> QED
      BY <3>4
  <2>2. CASE Parent[b] # None
    <3>1. Parent[b] \in G
      BY <1>1, <2>2, HistoryAssumption
    <3>2. PICK E, g : Parent[b] \in E /\ IsLine(g, E)
      BY <3>1
    <3>3. CASE b \in E
      BY <3>2, <3>3
    <3>4. CASE b \notin E
      <4> DEFINE D == E \cup {b}
                 f == [x \in D |-> IF x = b THEN <<b>> \o g[Parent[b]] ELSE g[x]]
      <4>1. \A x \in E : Parent[x] \in E \cup {None}
                         /\ g[x] = <<x>> \o IF Parent[x] = None THEN <<>> ELSE g[Parent[x]]
        BY <3>2 DEF IsLine
      <4>2. f[b] = <<b>> \o g[Parent[b]] /\ \A x \in E : f[x] = g[x]
        BY <3>4
      <4>3. f = [x \in D |-> f[x]]
        OBVIOUS
      <4> HIDE DEF f
      <4>4. ASSUME NEW x \in D
            PROVE  f[x] = <<x>> \o IF Parent[x] = None THEN <<>> ELSE f[Parent[x]]
        <5>1. CASE x = b
          BY <2>2, <3>2, <4>2, <5>1
        <5>2. CASE x \in E
          BY <4>1, <4>2, <5>2
        <5> QED
          BY <5>1, <5>2
      <4>5. f = [x \in D |-> <<x>> \o IF Parent[x] = None THEN <<>> ELSE f[Parent[x]]]
        BY <4>3, <4>4
      <4>6. IsLine(f, D)
        BY <3>2, <4>5 DEF IsLine
      <4> HIDE DEF D
      <4> QED
        BY <4>6 DEF D
    <3> QED
      BY <3>3, <3>4
  <2> QED
    BY <2>1, <2>2
<1> HIDE DEF G
<1>2. Commits \subseteq G
  BY <1>1, FromRoots
<1> QED
  BY <1>2 DEF G

LEMMA LineUnfolds ==
  ASSUME NEW c \in Commits
  PROVE  Line[c] = <<c>> \o IF Parent[c] = None THEN <<>> ELSE Line[Parent[c]]
<1> DEFINE Has1(b, f) == \E D : b \in D /\ IsLine(f, D)
           F == [b \in Commits |-> (CHOOSE f : Has1(b, f))[b]]
           Def(f) == [b \in Commits |->
                        <<b>> \o IF Parent[b] = None THEN <<>> ELSE f[Parent[b]]]
<1>1. ASSUME NEW b \in Commits
      PROVE  F[b] = <<b>> \o IF Parent[b] = None THEN <<>> ELSE F[Parent[b]]
  <2>1. \A x \in Commits : \E f : Has1(x, f) /\ F[x] = f[x]
    <3> SUFFICES ASSUME NEW x \in Commits PROVE \E f : Has1(x, f) /\ F[x] = f[x]
      OBVIOUS
    <3>1. \E f : Has1(x, f)
      BY LineOf
    <3>2. Has1(x, CHOOSE f : Has1(x, f))
      <4> HIDE DEF Has1
      <4> QED
        BY <3>1
    <3>3. F[x] = (CHOOSE f : Has1(x, f))[x]
      <4> HIDE DEF Has1
      <4> QED
        OBVIOUS
    <3> HIDE DEF Has1, F
    <3> QED
      BY <3>2, <3>3
  <2> HIDE DEF F
  <2>2. PICK f, D : b \in D /\ IsLine(f, D) /\ F[b] = f[b]
    BY <2>1
  <2>3. F[b] = <<b>> \o IF Parent[b] = None THEN <<>> ELSE f[Parent[b]]
    BY <2>2 DEF IsLine
  <2>4. CASE Parent[b] # None
    <3>1. Parent[b] \in D /\ Parent[b] \in Commits
      BY <2>2, <2>4 DEF IsLine
    <3>2. PICK g, E : Parent[b] \in E /\ IsLine(g, E) /\ F[Parent[b]] = g[Parent[b]]
      BY <2>1, <3>1
    <3>3. f[Parent[b]] = g[Parent[b]]
      BY <2>2, <3>1, <3>2, LinesAgree
    <3> QED
      BY <2>3, <2>4, <3>2, <3>3
  <2> QED
    BY <2>3, <2>4
<1>2. F = [b \in Commits |-> F[b]]
  OBVIOUS
<1> HIDE DEF F
<1>3. F = Def(F)
  BY <1>1, <1>2
<1>4. Line = CHOOSE f : f = Def(f)
  BY DEF Line
<1> HIDE DEF Def
<1>5. Line = Def(Line)
  BY <1>3, <1>4
<1> QED
  BY <1>5 DEF Def

\* The lines: a commit, then its ancestors, each the parent of the one before.
LEMMA Lines ==
  ASSUME NEW c \in Commits
  PROVE  /\ Line[c] \in Seq(Commits) /\ Len(Line[c]) >= 1 /\ Line[c][1] = c
         /\ \A n \in 1..Len(Line[c]) :
              Parent[Line[c][n]] = IF n < Len(Line[c]) THEN Line[c][n + 1] ELSE None
<1> DEFINE Good(b) ==
             /\ Line[b] \in Seq(Commits) /\ Len(Line[b]) >= 1 /\ Line[b][1] = b
             /\ \A n \in 1..Len(Line[b]) :
                  Parent[Line[b][n]] = IF n < Len(Line[b]) THEN Line[b][n + 1] ELSE None
           G == {b \in Commits : Good(b)}
<1>1. ASSUME NEW b \in Commits, Parent[b] \notin Commits \ G PROVE Good(b)
  <2>1. Line[b] = <<b>> \o IF Parent[b] = None THEN <<>> ELSE Line[Parent[b]]
    BY LineUnfolds
  <2>2. CASE Parent[b] = None
    <3>1. Line[b] = <<b>>
      BY <2>1, <2>2
    <3> QED
      BY <2>2, <3>1
  <2>3. CASE Parent[b] # None
    <3> DEFINE s == Line[Parent[b]]
               t == Line[b]
    <3>1. Good(Parent[b])
      BY <2>3, <1>1, HistoryAssumption
    <3>2. s \in Seq(Commits) /\ Len(s) >= 1 /\ s[1] = Parent[b]
      BY <3>1
    <3>3. \A n \in 1..Len(s) : Parent[s[n]] = IF n < Len(s) THEN s[n + 1] ELSE None
      BY <3>1
    <3>4. t = <<b>> \o s
      BY <2>1, <2>3
    <3> HIDE DEF s, t
    <3>5. /\ t \in Seq(Commits) /\ Len(t) = Len(s) + 1 /\ t[1] = b
          /\ \A n \in 1..Len(s) : t[n + 1] = s[n]
      BY <3>2, <3>4
    <3>6. ASSUME NEW n \in 1..Len(t)
          PROVE  Parent[t[n]] = IF n < Len(t) THEN t[n + 1] ELSE None
      <4>1. CASE n = 1
        BY <3>2, <3>5, <4>1
      <4>2. CASE n > 1
        <5> DEFINE m == n - 1
        <5>1. m \in 1..Len(s) /\ n = m + 1
          BY <3>2, <3>5, <4>2
        <5> HIDE DEF m
        <5>2. t[n] = s[m] /\ (m < Len(s) => t[n + 1] = s[m + 1]) /\ (n < Len(t) <=> m < Len(s))
          BY <3>2, <3>5, <5>1
        <5> QED
          BY <3>3, <5>1, <5>2
      <4> QED
        BY <3>2, <3>5, <4>1, <4>2
    <3>7. /\ t \in Seq(Commits) /\ Len(t) >= 1 /\ t[1] = b
          /\ \A n \in 1..Len(t) : Parent[t[n]] = IF n < Len(t) THEN t[n + 1] ELSE None
      BY <3>2, <3>5, <3>6
    <3> QED
      BY <3>7 DEF t
  <2> QED
    BY <2>2, <2>3
<1>2. Commits \subseteq G
  <2>1. \A b \in Commits : Parent[b] \notin Commits \ G => b \in G
    BY <1>1
  <2> HIDE DEF G
  <2> QED
    BY <2>1, FromRoots
<1> QED
  BY <1>2
-----------------------------------------------------------------------------
(* Induction, in the form the provers can apply: on sets instead of predicates *)

\* Of a family of finite sets one has no other member inside.
LEMMA SmallestSet ==
  ASSUME NEW S, IsFiniteSet(S), NEW B \in SUBSET SUBSET S, B # {}
  PROVE  \E T \in B : \A U \in B : U \subseteq T => U = T
<1> IsFiniteSet(S)
  OBVIOUS
<1>1. IsWellFoundedOn(StrictSubsetOrdering(S), SUBSET S)
  BY ONLY IsFiniteSet(S), FS_StrictSubsetOrderingWellFounded, FS_FiniteSubsetsOfFinite
<1>2. PICK T \in B : \A U \in B : ~(<<U, T>> \in StrictSubsetOrdering(S))
  BY <1>1, WFMin
<1>3. \A U \in B : U \subseteq T => U = T
  BY <1>2 DEF StrictSubsetOrdering
<1> QED
  BY <1>3

\* A set of numbers has a least one.
LEMMA LeastNumber ==
  ASSUME NEW B \in SUBSET Nat, B # {}
  PROVE  \E x \in B : \A y \in B : x <= y
<1>1. PICK n \in B : TRUE
  OBVIOUS
<1> DEFINE F == {0..m : m \in {k \in B : k <= n}}
<1>2. IsFiniteSet(0..n)
  BY FS_Interval
<1>3. F \in SUBSET SUBSET (0..n) /\ F # {}
  BY <1>1
<1>4. PICK T \in F : \A U \in F : U \subseteq T => U = T
  <2> DEFINE S == 0..n
  <2>1. IsFiniteSet(S) /\ F \in SUBSET SUBSET S /\ F # {}
    BY <1>2, <1>3
  <2> HIDE DEF F, S
  <2> QED
    BY <2>1, SmallestSet
<1>5. PICK m \in B : m <= n /\ T = 0..m
  BY <1>4
<1>6. ASSUME NEW y \in B PROVE m <= y
  <2> SUFFICES ASSUME y < m PROVE FALSE
    OBVIOUS
  <2>1. 0..y \in F /\ 0..y \subseteq T
    BY <1>5, <1>1
  <2>2. 0..y = 0..m
    BY <1>4, <1>5, <2>1
  <2> QED
    BY <2>2, <1>5
<1> QED
  BY <1>5, <1>6

\* Induction on the numbers.
LEMMA NumberInduction ==
  ASSUME NEW G, 0 \in G, \A k \in Nat : k \in G => k + 1 \in G
  PROVE  Nat \subseteq G
<1> SUFFICES ASSUME ~(Nat \subseteq G) PROVE FALSE
  OBVIOUS
<1> DEFINE B == Nat \ G
<1>1. PICK x \in B : \A y \in B : x <= y
  <2>1. B \in SUBSET Nat /\ B # {}
    OBVIOUS
  <2> HIDE DEF B
  <2> QED
    BY <2>1, LeastNumber
<1>2. x - 1 \in Nat /\ x - 1 \notin B
  BY <1>1
<1> QED
  BY <1>1, <1>2

\* In a strict total order the elements of a finite set differ by how many come
\* before them, so that Sorted lists each of them once, and in order.
LEMMA SortedSorts ==
    ASSUME NEW S, NEW Smaller, NEW T, NEW s,
           IsFiniteSet(S), Smaller \in [S -> SUBSET S], s \in [1..Cardinality(S) -> T],
           \A x \in S : x \notin Smaller[x],
           \A x, y, z \in S : x \in Smaller[y] /\ y \in Smaller[z] => x \in Smaller[z],
           \A x, y \in S : x = y \/ x \in Smaller[y] \/ y \in Smaller[x],
           \A k \in 1..Cardinality(S) : \A x \in S :
             Cardinality(Smaller[x]) = k - 1 =>
               s[k] \in S /\ Cardinality(Smaller[s[k]]) = k - 1
    PROVE  /\ Cardinality(S) \in Nat /\ s \in Seq(S) /\ Len(s) = Cardinality(S)
           /\ \A x \in S : \E k \in 1..Len(s) : s[k] = x
           /\ \A i, k \in 1..Len(s) : i < k => s[i] \in Smaller[s[k]]
<1> DEFINE rank == [x \in S |-> Cardinality(Smaller[x]) + 1]
           n == Cardinality(S)
<1>1. n \in Nat
  BY FS_CardinalityType
<1>2. ASSUME NEW x \in S
      PROVE  /\ IsFiniteSet(Smaller[x]) /\ Cardinality(Smaller[x]) \in Nat
             /\ Cardinality(Smaller[x]) < n
  <2>1. Smaller[x] \in SUBSET S /\ Smaller[x] # S
    OBVIOUS
  <2>2. IsFiniteSet(Smaller[x]) /\ Cardinality(Smaller[x]) <= n /\ Cardinality(Smaller[x]) # n
    BY <2>1, FS_Subset
  <2>3. Cardinality(Smaller[x]) \in Nat
    BY <2>2, FS_CardinalityType
  <2> HIDE DEF n
  <2> QED
    BY <1>1, <2>2, <2>3
<1>3. ASSUME NEW x \in S, NEW y \in S, x \in Smaller[y]
      PROVE  Cardinality(Smaller[x]) < Cardinality(Smaller[y])
  <2>1. Smaller[x] \in SUBSET Smaller[y] /\ Smaller[x] # Smaller[y]
    BY <1>3
  <2>2. IsFiniteSet(Smaller[y])
    BY <1>2
  <2>3. Cardinality(Smaller[x]) \in Nat /\ Cardinality(Smaller[y]) \in Nat
    BY <1>2
  <2>4. Cardinality(Smaller[x]) <= Cardinality(Smaller[y]) /\ Cardinality(Smaller[x]) # Cardinality(Smaller[y])
    BY <2>1, <2>2, FS_Subset
  <2> QED
    BY <2>3, <2>4
<1>4. rank \in [S -> 1..n]
  <2> HIDE DEF n
  <2> QED
    BY <1>1, <1>2
<1>5. \A x, y \in S : rank[x] = rank[y] => x = y
  <2> SUFFICES ASSUME NEW x \in S, NEW y \in S, rank[x] = rank[y], x # y PROVE FALSE
    OBVIOUS
  <2>1. Cardinality(Smaller[x]) \in Nat /\ Cardinality(Smaller[y]) \in Nat
    BY <1>2
  <2>2. Cardinality(Smaller[x]) = Cardinality(Smaller[y])
    <3> QED
      BY <2>1
  <2>3. x \in Smaller[y] \/ y \in Smaller[x]
    OBVIOUS
  <2> HIDE DEF rank
  <2> QED
    BY <1>3, <2>1, <2>2, <2>3
<1>6. \A k \in 1..n : \E x \in S : rank[x] = k
  <2> DEFINE I == 1..n
  <2>1. IsFiniteSet(I) /\ Cardinality(I) = n
    <3> HIDE DEF n
    <3>1. 1 \in Int /\ n \in Int /\ (1 > n => n = 0)
      BY <1>1
    <3>2. IsFiniteSet(1..n) /\ Cardinality(1..n) = IF 1 > n THEN 0 ELSE n - 1 + 1
      BY <3>1, FS_Interval
    <3> QED
      BY <3>1, <3>2
  <2>2. rank \in Injection(S, I)
    <3> HIDE DEF rank, n
    <3> QED
      BY <1>4, <1>5 DEF Injection, IsInjective
  <2> HIDE DEF rank, I
  <2>3. rank \in Surjection(S, I)
    BY <2>1, <2>2, FS_Injection
  <2> QED
    BY <2>3 DEF Surjection, I
<1>7. ASSUME NEW k \in 1..n PROVE s[k] \in S /\ rank[s[k]] = k
  <2>1. \A x \in S : Cardinality(Smaller[x]) = k - 1 =>
           s[k] \in S /\ Cardinality(Smaller[s[k]]) = k - 1
    OBVIOUS
  <2>2. PICK x \in S : rank[x] = k
    BY <1>6
  <2>3. Cardinality(Smaller[x]) = k - 1
    <3> HIDE DEF n
    <3> QED
      BY <1>1, <1>2, <2>2
  <2>4. s[k] \in S /\ Cardinality(Smaller[s[k]]) = k - 1
    <3> QED
      BY <2>1, <2>3
  <2> HIDE DEF n
  <2> QED
    BY <1>1, <2>4
<1>8. s \in Seq(S) /\ Len(s) = n /\ DOMAIN s = 1..n
  <2>1. s \in [1..n -> S]
    BY <1>7
  <2> QED
    BY <1>1, <2>1
<1>9. ASSUME NEW x \in S PROVE \E k \in 1..n : s[k] = x
  <2>1. rank[x] \in 1..n
    BY <1>4
  <2>2. rank[s[rank[x]]] = rank[x] /\ s[rank[x]] \in S
    BY <1>7, <2>1
  <2> QED
    BY <1>5, <2>1, <2>2
<1>10. ASSUME NEW i \in 1..n, NEW k \in 1..n, i < k PROVE s[i] \in Smaller[s[k]]
  <2>1. s[i] \in S /\ s[k] \in S /\ rank[s[i]] = i /\ rank[s[k]] = k
    BY <1>7
  <2>2. i \in Nat /\ k \in Nat
    <3> HIDE DEF n
    <3> QED
      BY <1>1
  <2>3. Cardinality(Smaller[s[i]]) = i - 1 /\ Cardinality(Smaller[s[k]]) = k - 1
    <3>1. \A x \in S : rank[x] = Cardinality(Smaller[x]) + 1
      OBVIOUS
    <3> HIDE DEF rank
    <3> QED
      BY <1>2, <2>1, <2>2, <3>1
  <2> DEFINE x == s[i]
             y == s[k]
  <2>4. x \in S /\ y \in S /\ rank[x] = i /\ rank[y] = k
    BY <2>1
  <2>5. Cardinality(Smaller[x]) = i - 1 /\ Cardinality(Smaller[y]) = k - 1
    BY <2>3
  <2> HIDE DEF x, y, rank
  <2>6. y \notin Smaller[x]
    BY <1>3, <1>10, <2>2, <2>4, <2>5
  <2>7. x # y
    BY <1>10, <2>2, <2>4
  <2>8. x \in Smaller[y]
    BY <2>4, <2>6, <2>7
  <2> QED
    BY <2>8 DEF x, y
<1> QED
  BY <1>1, <1>8, <1>9, <1>10


-----------------------------------------------------------------------------
(* What ls-tree lists *)

\* Elements of a set by the numbers that come before them, for any list of them.
OrderedBy(s, S, Smaller) ==
  /\ s \in Seq(S)
  /\ \A x \in S : \E k \in 1..Len(s) : s[k] = x
  /\ \A i, k \in 1..Len(s) : i < k => s[i] \in Smaller[s[k]]

LEMMA PrefixOf ==
  ASSUME NEW p \in Seq(Nat), NEW q \in Seq(Nat)
  PROVE  /\ IsPrefix(p, q) <=> Len(p) <= Len(q) /\ \A i \in 1..Len(p) : p[i] = q[i]
         /\ IsStrictPrefix(p, q) <=> Len(p) < Len(q) /\ \A i \in 1..Len(p) : p[i] = q[i]
<1>1. Len(p) <= Len(q) => /\ SubSeq(p, 1, Len(p)) \in Seq(Nat) /\ SubSeq(q, 1, Len(p)) \in Seq(Nat)
                          /\ Len(SubSeq(p, 1, Len(p))) = Len(p) /\ Len(SubSeq(q, 1, Len(p))) = Len(p)
                          /\ \A i \in 1..Len(p) : SubSeq(p, 1, Len(p))[i] = p[i]
                                                  /\ SubSeq(q, 1, Len(p))[i] = q[i]
  OBVIOUS
<1>2. IsPrefix(p, q) <=> Len(p) <= Len(q) /\ \A i \in 1..Len(p) : p[i] = q[i]
  <2>1. ASSUME Len(p) <= Len(q), \A i \in 1..Len(p) : p[i] = q[i]
        PROVE  SubSeq(p, 1, Len(p)) = SubSeq(q, 1, Len(p))
    BY <1>1, <2>1
  <2> QED
    BY <1>1, <2>1 DEF IsPrefix
<1>3. p # q /\ IsPrefix(p, q) => Len(p) < Len(q)
  <2>1. ASSUME Len(p) = Len(q), \A i \in 1..Len(p) : p[i] = q[i] PROVE p = q
    BY <2>1
  <2> QED
    BY <1>2, <2>1
<1> QED
  BY <1>2, <1>3 DEF IsStrictPrefix

\* The paths below a directory, and their names in it.
LEMMA NamesBelow ==
  ASSUME NEW h \in Commits, NEW p \in Seq(Nat)
  PROVE  /\ IsFiniteSet(Names(h, p)) /\ Names(h, p) \subseteq Nat
         /\ \A n : n \in Names(h, p) <=>
              n \in Nat /\ \E q \in DOMAIN Tree[h] : IsPrefix(Append(p, n), q)
<1> DEFINE D == DOMAIN Tree[h]
           B == {q \in D : IsStrictPrefix(p, q)}
           N == Names(h, p)
<1>1. IsFiniteSet(D) /\ D \subseteq Seq(Nat)
  BY TreeAssumption
<1>2. IsFiniteSet(B)
  <2>1. B \subseteq D
    OBVIOUS
  <2> HIDE DEF B, D
  <2> QED
    BY <1>1, <2>1, FS_Subset
<1>3. N = {q[Len(p) + 1] : q \in B}
  BY DEF Names
<1>4. \A q \in B : q \in Seq(Nat) /\ Len(p) < Len(q) /\ \A i \in 1..Len(p) : p[i] = q[i]
  BY <1>1, PrefixOf
<1>5. N \subseteq Nat
  <2> HIDE DEF N, B
  <2> QED
    BY <1>3, <1>4
<1>6. IsFiniteSet(N)
  <2> DEFINE f == [q \in B |-> q[Len(p) + 1]]
  <2>1. f \in Surjection(B, N)
    <3> HIDE DEF N, B
    <3> QED
      BY <1>3 DEF Surjection
  <2> HIDE DEF f, B, N
  <2> QED
    BY <1>2, <2>1, FS_Surjection
<1>7. ASSUME NEW n PROVE n \in N <=> n \in Nat /\ \E q \in D : IsPrefix(Append(p, n), q)
  <2>1. ASSUME n \in N PROVE \E q \in D : IsPrefix(Append(p, n), q)
    <3>1. PICK q \in B : n = q[Len(p) + 1]
      BY <1>3, <2>1
    <3>2. n \in Nat
      BY <1>5, <2>1
    <3> DEFINE t == Append(p, n)
    <3>3. t \in Seq(Nat) /\ Len(t) = Len(p) + 1 /\ t[Len(p) + 1] = n /\ \A i \in 1..Len(p) : t[i] = p[i]
      BY <3>2
    <3>4. q \in D /\ q \in Seq(Nat) /\ Len(p) < Len(q) /\ \A i \in 1..Len(p) : p[i] = q[i]
      BY <1>4
    <3> HIDE DEF t, B, D
    <3>5. ASSUME NEW i \in 1..Len(t) PROVE t[i] = q[i]
      <4>1. i \in 1..Len(p) \/ i = Len(p) + 1
        BY <3>3
      <4> QED
        BY <3>1, <3>3, <3>4, <4>1
    <3>6. t \in Seq(Nat) /\ q \in Seq(Nat) /\ Len(t) <= Len(q)
      BY <3>3, <3>4
    <3>7. IsPrefix(t, q)
      BY ONLY <3>5, <3>6, PrefixOf
    <3> QED
      BY <3>4, <3>7 DEF t
  <2>2. ASSUME n \in Nat, NEW q \in D, IsPrefix(Append(p, n), q) PROVE n \in N
    <3> DEFINE t == Append(p, n)
    <3>1. t \in Seq(Nat) /\ Len(t) = Len(p) + 1 /\ t[Len(p) + 1] = n /\ \A i \in 1..Len(p) : t[i] = p[i]
      BY <2>2
    <3>2. q \in Seq(Nat)
      BY <1>1
    <3>3. IsPrefix(t, q)
      BY <2>2
    <3> HIDE DEF t
    <3>4. Len(t) <= Len(q) /\ \A i \in 1..Len(t) : t[i] = q[i]
      BY <3>1, <3>2, <3>3, PrefixOf
    <3>5. Len(p) < Len(q) /\ \A i \in 1..Len(p) : p[i] = q[i]
      BY <3>1, <3>2, <3>4
    <3>6. q \in B /\ q[Len(p) + 1] = n
      BY <3>1, <3>2, <3>4, <3>5, PrefixOf
    <3> HIDE DEF B
    <3> QED
      BY <1>3, <3>6
  <2> QED
    BY <1>5, <2>1, <2>2
<1> QED
  BY <1>5, <1>6, <1>7

\* What is printed for the names of a directory tells them apart.
LEMMA PrintedApart ==
  ASSUME NEW h \in Commits, NEW p \in Seq(Nat)
  PROVE  /\ \A n \in Names(h, p) : PrintedName(n) \in Nat
         /\ \A m, n \in Names(h, p) : PrintedName(m) = PrintedName(n) => m = n
<1>1. Names(h, p) \subseteq Nat
  BY NamesBelow
<1>2. \A n \in Nat : PrintedName(n) \in Nat
  BY PrintedAssumption DEF PrintedName, Quotes
<1>3. ASSUME NEW n \in Names(h, p) PROVE n \in Used
  <2>1. PICK q \in DOMAIN Tree[h] : IsStrictPrefix(p, q) /\ n = q[Len(p) + 1]
    BY <1>3 DEF Names
  <2>2. q \in Seq(Nat)
    BY TreeAssumption
  <2>3. Len(p) < Len(q)
    BY <2>1, <2>2, PrefixOf
  <2>4. n \in ToSet(q)
    BY <2>1, <2>2, <2>3 DEF ToSet
  <2> QED
    BY <2>4 DEF Used
<1> QED
  BY <1>1, <1>2, <1>3, PrintedAssumption

\* git sorts nothing here: the handler does, and every name appears once.
EntryRecords == [name : Nat, kind : {"dir", "submodule", "file"}]

LEMMA Listing ==
  ASSUME NEW h \in Commits, NEW p \in Seq(Nat), IsDir(h, p)
  PROVE  /\ LsTree(h, p) \in Seq(EntryRecords)
         /\ {e.name : e \in ToSet(LsTree(h, p))} = {PrintedName(n) : n \in Names(h, p)}
         /\ \A i, k \in DOMAIN LsTree(h, p) : i < k => Precedes(LsTree(h, p)[i], LsTree(h, p)[k])
<1> DEFINE N == Names(h, p)
           E == EntryRecords
           entry == [n \in N |-> [name |-> PrintedName(n), kind |-> Kind(h, Append(p, n))]]
           S == {entry[n] : n \in N}
           Smaller == [x \in S |-> {y \in S : Precedes(y, x)}]
           Pick(k) == CHOOSE x \in S : Cardinality({y \in S : Precedes(y, x)}) = k - 1
           s == LsTree(h, p)
<1>1. IsFiniteSet(N) /\ N \subseteq Nat
  BY NamesBelow
<1>2. \A n \in N : entry[n] \in E /\ entry[n].name = PrintedName(n)
  <2>1. \A q : Kind(h, q) \in {"dir", "submodule", "file"}
    BY DEF Kind
  <2> SUFFICES ASSUME NEW n \in N PROVE entry[n] \in E /\ entry[n].name = PrintedName(n)
    OBVIOUS
  <2>2. PICK kind \in {"dir", "submodule", "file"} :
          entry[n] = [name |-> PrintedName(n), kind |-> kind]
    BY <2>1
  <2>3. PrintedName(n) \in Nat
    BY PrintedApart
  <2> HIDE DEF entry, N
  <2> QED
    BY <2>2, <2>3 DEF EntryRecords
<1>3. /\ S \subseteq E /\ \A x \in S : \E n \in N : x = entry[n] /\ x.name = PrintedName(n)
      /\ \A x, y \in S : x.name = y.name => x = y
  <2>1. \A m, n \in N : PrintedName(m) = PrintedName(n) => m = n
    BY PrintedApart
  <2> HIDE DEF N, entry
  <2> QED
    BY <1>2, <2>1
<1>4. IsFiniteSet(S)
  <2>1. entry \in Surjection(N, S)
    <3>1. entry \in [N -> S] /\ \A t \in S : \E n \in N : entry[n] = t
      OBVIOUS
    <3> HIDE DEF N, entry, S
    <3> QED
      BY <3>1 DEF Surjection
  <2> HIDE DEF N, entry, S
  <2> QED
    BY <1>1, <2>1, FS_Surjection
<1>5. s = [k \in 1..Cardinality(S) |-> Pick(k)]
  <2>1. S = {[name |-> PrintedName(n), kind |-> Kind(h, Append(p, n))] : n \in Names(h, p)}
    OBVIOUS
  <2> HIDE DEF S
  <2> QED
    BY <2>1 DEF LsTree, Sorted
<1>6. /\ \A x \in S : x \notin Smaller[x]
      /\ \A x, y, z \in S : x \in Smaller[y] /\ y \in Smaller[z] => x \in Smaller[z]
      /\ \A x, y \in S : x = y \/ x \in Smaller[y] \/ y \in Smaller[x]
  <2>1. \A x, y \in S : x \in Smaller[y] <=>
          IF (x.kind = "file") = (y.kind = "file") THEN x.name < y.name ELSE y.kind = "file"
    BY DEF Precedes
  <2>2. \A x \in S : x.name \in Nat
    BY <1>3 DEF EntryRecords
  <2>3. \A x, y \in S : x.name = y.name => x = y
    BY <1>3
  <2> HIDE DEF S, Smaller
  <2>4. \A x, y, z \in S : x \in Smaller[y] /\ y \in Smaller[z] => x \in Smaller[z]
    BY <2>1, <2>2
  <2> QED
    BY <2>1, <2>2, <2>3, <2>4
<1>7. ASSUME NEW k \in 1..Cardinality(S), NEW x \in S, Cardinality(Smaller[x]) = k - 1
      PROVE  s[k] \in S /\ Cardinality(Smaller[s[k]]) = k - 1
  <2>1. Pick(k) = CHOOSE z \in S : Cardinality(Smaller[z]) = k - 1
    OBVIOUS
  <2>2. Pick(k) \in S /\ Cardinality(Smaller[Pick(k)]) = k - 1
    <3> HIDE DEF Smaller, Pick, S
    <3> QED
      BY <1>7, <2>1
  <2>3. s[k] = Pick(k)
    <3> HIDE DEF s, Pick, S
    <3> QED
      BY <1>5
  <2> HIDE DEF s, Pick, Smaller, S
  <2> QED
    BY <2>2, <2>3
<1>8. OrderedBy(s, S, Smaller)
  <2> DEFINE T == {Pick(k) : k \in 1..Cardinality(S)}
  <2>1. s \in [1..Cardinality(S) -> T]
    <3> HIDE DEF s, Pick, S
    <3> QED
      BY <1>5
  <2>2. Smaller \in [S -> SUBSET S]
    <3> HIDE DEF S
    <3> QED
      OBVIOUS
  <2> HIDE DEF s, S, Smaller, Pick, T
  <2>3. \A k \in 1..Cardinality(S) : \A x \in S :
             Cardinality(Smaller[x]) = k - 1 =>
               s[k] \in S /\ Cardinality(Smaller[s[k]]) = k - 1
    BY <1>7
  <2> QED
    BY <1>4, <1>6, <2>1, <2>2, <2>3, SortedSorts DEF OrderedBy
<1>9. \A x, y \in S : x \in Smaller[y] => Precedes(x, y)
  <2> HIDE DEF S
  <2> QED
    OBVIOUS
<1>10. \A n \in N : \E x \in S : x.name = PrintedName(n)
  BY <1>2
<1> HIDE DEF S, Smaller, s
<1>11. s \in Seq(S) /\ DOMAIN s = 1..Len(s) /\ \A i \in DOMAIN s : s[i] \in S
  BY <1>8 DEF OrderedBy
<1>12. s \in Seq(E)
  BY <1>3, <1>11, SeqMonotonic
<1>13. ASSUME NEW i \in DOMAIN s, NEW k \in DOMAIN s, i < k PROVE Precedes(s[i], s[k])
  BY <1>8, <1>9, <1>11, <1>13 DEF OrderedBy
<1>14. {e.name : e \in ToSet(s)} = {PrintedName(n) : n \in N}
  <2>1. ToSet(s) = S
    BY <1>8, <1>11 DEF OrderedBy, ToSet
  <2>2. \A x \in S : \E n \in N : x.name = PrintedName(n)
    BY <1>3
  <2>3. {e.name : e \in S} = {PrintedName(n) : n \in N}
    <3> HIDE DEF N
    <3> QED
      BY <1>10, <2>2
  <2> QED
    BY <2>1, <2>3
<1> QED
  BY <1>12, <1>13, <1>14 DEF s

LEMMA ListingIsSome ==
  ASSUME NEW h, NEW p \in Seq(Nat)
  PROVE  /\ LsTree(h, p) = None <=> ~(h \in Commits /\ IsDir(h, p))
         /\ LsTree(h, p) # None => DOMAIN LsTree(h, p) = 1..Len(LsTree(h, p))
                                   /\ Len(LsTree(h, p)) \in Nat
<1>1. ~(h \in Commits /\ IsDir(h, p)) => LsTree(h, p) = None
  BY DEF LsTree
<1>2. ASSUME h \in Commits, IsDir(h, p)
      PROVE  /\ LsTree(h, p) # None
             /\ DOMAIN LsTree(h, p) = 1..Len(LsTree(h, p)) /\ Len(LsTree(h, p)) \in Nat
  <2>1. LsTree(h, p) \in Seq(EntryRecords)
    BY <1>2, Listing
  <2>2. None \notin Seq(EntryRecords)
    BY NoneAssumption DEF EntryRecords
  <2> QED
    BY <2>1, <2>2
<1> QED
  BY <1>1, <1>2

-----------------------------------------------------------------------------
(* What git log prints *)

\* The commits of the line of h that touch p, by their place in it.
Touching(h, p) == {n \in 1..Len(Line[h]) : Touches(Line[h][n], p)}
Places(h, p) == Sorted(Touching(h, p), LAMBDA m, n : m < n)

LEMMA PlacesInOrder ==
  ASSUME NEW h \in Commits, NEW p
  PROVE  /\ Places(h, p) \in Seq(Touching(h, p))
         /\ \A x \in Touching(h, p) : \E k \in 1..Len(Places(h, p)) : Places(h, p)[k] = x
         /\ \A i, k \in 1..Len(Places(h, p)) : i < k => Places(h, p)[i] < Places(h, p)[k]
<1> DEFINE S == Touching(h, p)
           Smaller == [x \in S |-> {y \in S : y < x}]
           Pick(k) == CHOOSE x \in S : Cardinality({y \in S : y < x}) = k - 1
           s == Places(h, p)
           L == Len(Line[h])
<1>1. L \in Nat /\ S \in SUBSET (1..L)
  BY Lines DEF Touching
<1>2. IsFiniteSet(S)
  <2>1. IsFiniteSet(1..L)
    <3> HIDE DEF L
    <3> QED
      BY <1>1, FS_Interval
  <2> HIDE DEF S, L
  <2> QED
    BY <1>1, <2>1, FS_Subset
<1>3. \A x \in S : x \in Int
  <2> HIDE DEF S, L
  <2> QED
    BY <1>1
<1>4. s = [k \in 1..Cardinality(S) |-> Pick(k)]
  BY DEF Places, Sorted
<1>5. /\ \A x \in S : x \notin Smaller[x]
      /\ \A x, y, z \in S : x \in Smaller[y] /\ y \in Smaller[z] => x \in Smaller[z]
      /\ \A x, y \in S : x = y \/ x \in Smaller[y] \/ y \in Smaller[x]
  <2> HIDE DEF S
  <2> QED
    BY <1>3
<1>6. ASSUME NEW k \in 1..Cardinality(S), NEW x \in S, Cardinality(Smaller[x]) = k - 1
      PROVE  s[k] \in S /\ Cardinality(Smaller[s[k]]) = k - 1
  <2>1. Pick(k) = CHOOSE z \in S : Cardinality(Smaller[z]) = k - 1
    <3> HIDE DEF S
    <3> QED
      OBVIOUS
  <2>2. Pick(k) \in S /\ Cardinality(Smaller[Pick(k)]) = k - 1
    <3> HIDE DEF Smaller, Pick, S
    <3> QED
      BY <1>6, <2>1
  <2>3. s[k] = Pick(k)
    <3> HIDE DEF s, Pick, S
    <3> QED
      BY <1>4
  <2> HIDE DEF s, Pick, Smaller, S
  <2> QED
    BY <2>2, <2>3
<1>7. OrderedBy(s, S, Smaller)
  <2> DEFINE T == {Pick(k) : k \in 1..Cardinality(S)}
  <2>1. s \in [1..Cardinality(S) -> T]
    <3> HIDE DEF s, Pick, S
    <3> QED
      BY <1>4
  <2>2. Smaller \in [S -> SUBSET S]
    <3> HIDE DEF S
    <3> QED
      OBVIOUS
  <2> HIDE DEF s, S, Smaller, Pick, T
  <2>3. \A k \in 1..Cardinality(S) : \A x \in S :
             Cardinality(Smaller[x]) = k - 1 =>
               s[k] \in S /\ Cardinality(Smaller[s[k]]) = k - 1
    BY <1>6
  <2> QED
    BY <1>2, <1>5, <2>1, <2>2, <2>3, SortedSorts DEF OrderedBy
<1>8. \A x, y \in S : x \in Smaller[y] => x < y
  <2> HIDE DEF S
  <2> QED
    OBVIOUS
<1> HIDE DEF S, Smaller, s
<1>9. \A i, k \in 1..Len(s) : i < k => s[i] < s[k]
  <2>1. \A i \in 1..Len(s) : s[i] \in S
    BY <1>7 DEF OrderedBy
  <2> QED
    BY <1>7, <1>8, <2>1 DEF OrderedBy
<1>10. s \in Seq(S) /\ \A x \in S : \E k \in 1..Len(s) : s[k] = x
  BY <1>7 DEF OrderedBy
<1> QED
  BY <1>9, <1>10 DEF S, s

\* Every log lists commits of the line, the whole one its newest.
LEMMA Logged ==
  ASSUME NEW h \in Commits, NEW p
  PROVE  /\ Log(h, p) \in Seq(Commits)
         /\ ToSet(Log(h, p)) \subseteq ToSet(Line[h])
         /\ p = <<>> => IsPrefix(Log(h, p), Line[h]) /\ Log(h, p) # <<>>
         /\ p # <<>> /\ Touching(h, p) = {} => Log(h, p) = <<>>
         /\ p # <<>> /\ Touching(h, p) # {} =>
              Log(h, p) # <<>> /\ \E n \in Touching(h, p) :
                /\ Log(h, p)[1] = Line[h][n]
                /\ \A m \in Touching(h, p) : n <= m
<1> DEFINE L == Line[h]
           at == Places(h, p)
           S == Touching(h, p)
           log == IF p = <<>> THEN L ELSE [k \in DOMAIN at |-> L[at[k]]]
           n == IF Len(log) < Rows THEN Len(log) ELSE Rows
           r == Log(h, p)
<1>1. L \in Seq(Commits) /\ Len(L) \in Nat /\ Len(L) >= 1 /\ DOMAIN L = 1..Len(L)
      /\ \A k \in 1..Len(L) : L[k] \in Commits
  BY Lines
<1>2. /\ at \in Seq(S) /\ \A x \in S : \E k \in 1..Len(at) : at[k] = x
      /\ \A i, k \in 1..Len(at) : i < k => at[i] < at[k]
      /\ \A x \in S : x \in Nat /\ x \in 1..Len(L)
      /\ \A k \in 1..Len(at) : at[k] \in S
      /\ Len(at) \in Nat /\ DOMAIN at = 1..Len(at)
  <2>1. \A x \in S : x \in 1..Len(L)
    BY DEF Touching
  <2>2. \A x \in S : x \in Nat
    <3> HIDE DEF S, L
    <3> QED
      BY <1>1, <2>1
  <2>3. /\ at \in Seq(S) /\ \A x \in S : \E k \in 1..Len(at) : at[k] = x
        /\ \A i, k \in 1..Len(at) : i < k => at[i] < at[k]
    BY PlacesInOrder
  <2> HIDE DEF S, L, at
  <2> QED
    BY <2>1, <2>2, <2>3
<1>3. r = SubSeq(log, 1, n)
  <2>1. DOMAIN L = 1..Len(L)
    BY <1>1
  <2> QED
    BY <2>1 DEF Log, Places, Touching
<1>4. log \in Seq(Commits) /\ Len(log) = IF p = <<>> THEN Len(L) ELSE Len(at)
  <2> HIDE DEF L, at, S
  <2>1. CASE p = <<>>
    BY <1>1, <2>1
  <2>2. CASE p # <<>>
    <3> DEFINE m == Len(at)
    <3>1. \A k \in 1..m : L[at[k]] \in Commits
      BY <1>1, <1>2
    <3>2. m \in Nat /\ log = [k \in 1..m |-> L[at[k]]]
      BY <1>2, <2>2
    <3> HIDE DEF log, m
    <3>3. log \in [1..m -> Commits]
      BY <3>1, <3>2
    <3>4. log \in Seq(Commits) /\ Len(log) = m
      BY <3>2, <3>3
    <3> QED
      BY <2>2, <3>4 DEF m
  <2> QED
    BY <2>1, <2>2
<1>5. \A k \in 1..Len(log) : \E i \in 1..Len(L) : log[k] = L[i]
  <2> HIDE DEF L, at, S
  <2>1. CASE p = <<>>
    BY <1>1, <2>1
  <2>2. CASE p # <<>>
    <3>1. log = [k \in 1..Len(at) |-> L[at[k]]] /\ Len(log) = Len(at)
      BY <1>2, <1>4, <2>2
    <3> HIDE DEF log
    <3> QED
      BY <1>2, <3>1
  <2> QED
    BY <2>1, <2>2
<1>6. n \in Nat /\ n <= Len(log) /\ (Len(log) > 0 => n > 0)
  <2> HIDE DEF log
  <2> QED
    BY <1>4, RowsAssumption
<1>7. r \in Seq(Commits) /\ Len(r) = n /\ \A k \in 1..n : r[k] = log[k]
  <2> HIDE DEF n, log
  <2> QED
    BY <1>3, <1>4, <1>6
<1>8. ToSet(r) \subseteq ToSet(L)
  <2> HIDE DEF r, L, log, n
  <2>1. \A k \in 1..n : \E i \in 1..Len(L) : r[k] = L[i]
    <3>1. Len(log) \in Nat
      BY <1>4
    <3>2. \A k \in 1..n : k \in 1..Len(log)
      BY <1>6, <3>1
    <3> QED
      BY <1>5, <1>7, <3>2
  <2>2. DOMAIN r = 1..n
    BY <1>7
  <2> QED
    BY <1>1, <2>1, <2>2 DEF ToSet
<1>9. p = <<>> => IsPrefix(r, L) /\ r # <<>>
  <2>1. p = <<>> => log = L
    OBVIOUS
  <2> HIDE DEF r, L, log, n
  <2> SUFFICES ASSUME p = <<>> PROVE IsPrefix(r, L) /\ r # <<>>
    OBVIOUS
  <2>2. r = SubSeq(L, 1, n) /\ n <= Len(L) /\ n \in Nat /\ Len(r) = n
    BY <1>3, <1>6, <1>7, <2>1
  <2>3. SubSeq(r, 1, n) = r
    BY <1>7
  <2>4. Len(r) > 0
    BY <1>1, <1>6, <1>7, <2>1
  <2>5. r # <<>>
    BY <2>4
  <2> QED
    BY <2>2, <2>3, <2>5 DEF IsPrefix
<1>10. p # <<>> /\ S = {} => r = <<>>
  <2> HIDE DEF r, L, n, S
  <2>1. p # <<>> /\ S = {} => Len(at) = 0
    <3> HIDE DEF at
    <3> QED
      BY <1>2
  <2>2. p # <<>> /\ S = {} => Len(log) = 0
    BY <1>4, <2>1
  <2> HIDE DEF log, at
  <2> QED
    BY <1>4, <1>6, <1>7, <2>2
<1>11. ASSUME p # <<>>, S # {}
       PROVE  r # <<>> /\ \E m \in S : r[1] = L[m] /\ \A x \in S : m <= x
  <2>1. log = [k \in DOMAIN at |-> L[at[k]]] /\ Len(log) = Len(at)
    BY <1>4, <1>11
  <2> HIDE DEF r, L, n, S, at, log
  <2>2. Len(at) \in Nat /\ Len(at) >= 1 /\ at[1] \in S /\ DOMAIN at = 1..Len(at)
    BY <1>2, <1>11
  <2>3. ASSUME NEW x \in S PROVE at[1] <= x
    <3>1. PICK k \in 1..Len(at) : at[k] = x
      BY <1>2
    <3>2. at[1] \in Int /\ x \in Int
      BY <1>2, <2>2
    <3>3. k = 1 \/ 1 < k
      OBVIOUS
    <3>4. 1 < k => at[1] < at[k]
      BY <1>2, <2>2
    <3> QED
      BY <3>1, <3>2, <3>3, <3>4
  <2>4. log[1] = L[at[1]]
    BY <2>1, <2>2
  <2>5. Len(r) >= 1 /\ r[1] = log[1]
    <3>1. Len(log) \in Nat /\ Len(log) >= 1
      BY <2>1, <2>2
    <3>2. n \in Nat /\ n >= 1
      BY <1>6, <3>1
    <3> QED
      BY <1>7, <3>2
  <2>6. r # <<>>
    BY <2>5
  <2> QED
    BY <2>2, <2>3, <2>4, <2>5, <2>6
<1> QED
  BY <1>7, <1>8, <1>9, <1>10, <1>11

\* Where HEAD denotes no commit nothing is logged.
LEMMA NothingLogged ==
  ASSUME NEW h, h \notin Commits, NEW p PROVE Log(h, p) = <<>> /\ Recent(h, p) = <<>>
<1> DEFINE at == Sorted({n \in DOMAIN <<>> : Touches(<<>>[n], p)}, LAMBDA m, n : m < n)
           some == [k \in DOMAIN at |-> <<>>[at[k]]]
           log == IF p = <<>> THEN <<>> ELSE some
<1>1. DOMAIN at = {}
  <2>1. IsFiniteSet({}) /\ Cardinality({}) = 0
    BY FS_EmptySet
  <2>2. {n \in DOMAIN <<>> : Touches(<<>>[n], p)} = {}
    OBVIOUS
  <2> QED
    BY <2>1, <2>2 DEF Sorted
<1>2. some = <<>>
  <2> HIDE DEF at
  <2> QED
    BY <1>1
<1>3. Log(h, p) = SubSeq(log, 1, IF Len(log) < Rows THEN Len(log) ELSE Rows)
  BY DEF Log
<1>4. log = <<>>
  <2> HIDE DEF some
  <2> QED
    BY <1>2
<1> HIDE DEF log
<1>5. Log(h, p) = SubSeq(<<>>, 1, 0)
  BY <1>3, <1>4, RowsAssumption
<1>6. Log(h, p) = <<>>
  BY <1>5
<1> QED
  BY <1>6 DEF Recent

\* A log is shown as it is, or not at all.
LEMMA RecentLog ==
  ASSUME NEW h \in Commits, NEW p
  PROVE  /\ Recent(h, p) \in Seq(Commits)
         /\ ToSet(Recent(h, p)) \subseteq ToSet(Line[h])
         /\ p = <<>> => IsPrefix(Recent(h, p), Line[h])
         /\ Recent(h, p) = <<>> =>
              Log(h, p) = <<>> \/ \E c \in ToSet(Line[h]) : "subject" \in Garbled[c]
<1>1. CASE Recent(h, p) = Log(h, p)
  BY <1>1, Logged
<1>2. CASE Recent(h, p) = <<>> /\ \E c \in ToSet(Log(h, p)) : "subject" \in Garbled[c]
  <2>1. ToSet(Recent(h, p)) = {} /\ Recent(h, p) \in Seq(Commits)
    BY <1>2 DEF ToSet
  <2>2. IsPrefix(Recent(h, p), Line[h])
    <3>1. Line[h] \in Seq(Commits)
      BY Lines
    <3> QED
      BY <1>2, <3>1 DEF IsPrefix
  <2> QED
    BY <1>2, <2>1, <2>2, Logged
<1> QED
  BY <1>1, <1>2 DEF Recent

\* The first of a log is the last commit that changed what is selected.
LEMMA ChangedIsFirst ==
  ASSUME NEW h \in Commits, NEW p, p # <<>>
  PROVE  /\ Touching(h, p) = {} => Changed(h, p) = None
         /\ Touching(h, p) # {} => \E n \in Touching(h, p) :
              /\ Changed(h, p) = Line[h][n] /\ \A m \in Touching(h, p) : n <= m
         /\ Changed(h, p) \in Commits \cup {None}
<1>1. Touching(h, p) = {} => Changed(h, p) = None
  BY Logged DEF Changed
<1>2. ASSUME Touching(h, p) # {}
      PROVE  \E n \in Touching(h, p) :
               /\ Changed(h, p) = Line[h][n] /\ \A m \in Touching(h, p) : n <= m
  BY <1>2, Logged DEF Changed
<1>3. \A n \in Touching(h, p) : Line[h][n] \in Commits
  BY Lines DEF Touching
<1> QED
  BY <1>1, <1>2, <1>3

LEMMA SaidIsCommit ==
  ASSUME NEW h, NEW p, NEW printed
  PROVE  Said(Changed(h, p), printed) \in Commits \cup {None}
<1>1. CASE h \in Commits /\ p # <<>>
  BY <1>1, ChangedIsFirst DEF Said
<1>2. CASE p = <<>> \/ h \notin Commits
  BY <1>2, NothingLogged DEF Changed, Said
<1> QED
  BY <1>1, <1>2

\* git log -1 tells since when what is below a path has been as it is.
LEMMA ChangedLast ==
  ASSUME NEW h \in Commits, NEW p, p # <<>>, p \notin DOMAIN Pathspec
  PROVE  /\ Changed(h, p) # None => UnchangedSince(Changed(h, p), h, p)
         /\ Changed(h, p) = None => \A q \in DOMAIN Tree[h] : ~IsPrefix(p, q)
<1> DEFINE L == Line[h]
           B(n) == Below(L[n], p)
           T == Touching(h, p)
<1>1. /\ L \in Seq(Commits) /\ Len(L) \in Nat /\ Len(L) >= 1 /\ DOMAIN L = 1..Len(L)
      /\ L[1] = h /\ \A n \in 1..Len(L) : L[n] \in Commits
      /\ \A n \in 1..Len(L) : Parent[L[n]] = IF n < Len(L) THEN L[n + 1] ELSE None
  BY Lines
<1>2. ASSUME NEW n \in 1..Len(L), n \notin T PROVE n < Len(L) => B(n) = B(n + 1)
  <2>1. n < Len(L) => L[n + 1] \in Commits
    BY <1>1
  <2>2. n < Len(L) => Parent[L[n]] # None /\ Parent[L[n]] = L[n + 1]
    BY <1>1, <2>1, HistoryAssumption
  <2>3. ~Touches(L[n], p)
    BY <1>2 DEF Touching
  <2> HIDE DEF L
  <2> QED
    BY <2>2, <2>3 DEF Touches, Held
<1>3. ASSUME NEW n \in 1..Len(L), \A m \in T : n <= m
      PROVE  \A k \in 1..n : B(k) = B(1)
  <2> DEFINE Up(k) == k + 1 <= n => B(k + 1) = B(1)
             G == {k \in Nat : Up(k)}
  <2>1. 0 \in G
    OBVIOUS
  <2>2. ASSUME NEW k \in Nat, k \in G PROVE k + 1 \in G
    <3> SUFFICES ASSUME k + 1 + 1 <= n PROVE B(k + 1 + 1) = B(1)
      OBVIOUS
    <3>1. n \in Nat /\ k + 1 <= n /\ k + 1 \in 1..Len(L) /\ k + 1 < Len(L)
      <4> HIDE DEF L
      <4> QED
        BY <1>1
    <3>2. Up(k)
      BY <2>2
    <3>3. k + 1 \notin T
      <4>1. ~(n <= k + 1)
        BY <3>1
      <4> QED
        BY <1>3, <4>1
    <3>4. B(k + 1) = B(k + 1 + 1)
      BY <1>2, <3>1, <3>3
    <3> HIDE DEF B
    <3> QED
      BY <3>1, <3>2, <3>4
  <2> HIDE DEF G
  <2>3. Nat \subseteq G
    BY <2>1, <2>2, NumberInduction
  <2> SUFFICES ASSUME NEW k \in 1..n PROVE B(k) = B(1)
    OBVIOUS
  <2> DEFINE j == k - 1
  <2>4. j \in Nat /\ k = j + 1 /\ k <= n
    <3> HIDE DEF L
    <3> QED
      BY <1>1
  <2> HIDE DEF j
  <2>5. Up(j)
    BY <2>3, <2>4 DEF G
  <2> HIDE DEF B
  <2> QED
    BY <2>4, <2>5
<1>4. CASE T = {}
  <2>1. Changed(h, p) = None
    BY <1>4, ChangedIsFirst
  <2> DEFINE e == Len(L)
  <2>2. B(e) = B(1)
    <3>1. e \in 1..Len(L) /\ e \in 1..e
      BY <1>1
    <3>2. \A m \in T : e <= m
      BY <1>4
    <3> HIDE DEF B, T
    <3> QED
      BY <1>3, <3>1, <3>2
  <2>3. e \in 1..Len(L) /\ Parent[L[e]] = None /\ ~Touches(L[e], p)
    <3>1. e \in 1..Len(L) /\ Parent[L[e]] = None
      BY <1>1
    <3>2. e \notin T
      BY <1>4
    <3> QED
      BY <3>1, <3>2 DEF Touching
  <2>4. DOMAIN Below(L[e], p) = {}
    BY <2>3 DEF Touches, Held
  <2>5. DOMAIN Below(h, p) = {}
    BY <1>1, <2>2, <2>4
  <2>6. \A q \in DOMAIN Tree[h] : ~IsPrefix(p, q)
    BY <2>5 DEF Below
  <2> QED
    BY <2>1, <2>6
<1>5. CASE T # {}
  <2>1. PICK n \in T : Changed(h, p) = L[n] /\ \A m \in T : n <= m
    BY <1>5, ChangedIsFirst
  <2>2. n \in 1..Len(L) /\ Touches(L[n], p)
    BY DEF Touching
  <2>3. Changed(h, p) = L[n]
    BY <2>1
  <2>4. Changed(h, p) \in Commits /\ Changed(h, p) # None
    BY <1>1, <2>2, <2>3, HistoryAssumption
  <2>5. \A k \in 1..n : B(k) = B(1)
    BY <1>3, <2>1, <2>2
  <2>6. n < Len(L) => B(n + 1) # B(1)
    <3> SUFFICES ASSUME n < Len(L) PROVE B(n + 1) # B(1)
      OBVIOUS
    <3>1. L[n + 1] \in Commits
      <4>1. n + 1 \in 1..Len(L)
        <5> HIDE DEF L
        <5> QED
          BY <1>1, <2>2
      <4> QED
        BY <1>1, <4>1
    <3>2. Parent[L[n]] # None /\ Parent[L[n]] = L[n + 1]
      BY <1>1, <2>2, <3>1, HistoryAssumption
    <3>3. B(n) # B(n + 1)
      <4> HIDE DEF L
      <4> QED
        BY <2>2, <3>2 DEF Touches, Held
    <3>4. n \in 1..n
      BY <2>2, <1>1
    <3> HIDE DEF B
    <3> QED
      BY <2>5, <3>3, <3>4
  <2>7. UnchangedSince(L[n], h, p)
    <3>1. n \in DOMAIN Line[h] /\ Line[h][n] = L[n]
      BY <1>1, <2>2
    <3>2. \A k \in 1..n : Below(Line[h][k], p) = Below(h, p)
      BY <1>1, <2>5
    <3>3. n < Len(Line[h]) => Below(Line[h][n + 1], p) # Below(h, p)
      BY <1>1, <2>6
    <3> QED
      BY <3>1, <3>2, <3>3 DEF UnchangedSince
  <2> QED
    BY <2>3, <2>4, <2>7
<1> QED
  BY <1>4, <1>5

\* There is one such commit.
LEMMA OneChange ==
  ASSUME NEW h \in Commits, NEW p, NEW c, NEW d,
         UnchangedSince(c, h, p), UnchangedSince(d, h, p)
  PROVE  c = d
<1> DEFINE B(k) == Below(Line[h][k], p)
           Since1(x, n) == /\ n \in 1..Len(Line[h]) /\ Line[h][n] = x
                           /\ \A k \in 1..n : B(k) = Below(h, p)
                           /\ n < Len(Line[h]) => B(n + 1) # Below(h, p)
<1>1. Len(Line[h]) \in Nat /\ DOMAIN Line[h] = 1..Len(Line[h])
  BY Lines
<1>2. PICK m : Since1(c, m)
  BY <1>1 DEF UnchangedSince
<1>3. PICK n : Since1(d, n)
  BY <1>1 DEF UnchangedSince
<1> HIDE DEF B
<1>4. ~(m < n) /\ ~(n < m)
  <2>1. m < n => m + 1 \in 1..n /\ m < Len(Line[h])
    BY <1>1, <1>2, <1>3
  <2>2. n < m => n + 1 \in 1..m /\ n < Len(Line[h])
    BY <1>1, <1>2, <1>3
  <2> QED
    BY <1>2, <1>3, <2>1, <2>2
<1>5. m = n
  BY <1>1, <1>2, <1>3, <1>4
<1> QED
  BY <1>2, <1>3, <1>5

\* What the handlers make of it, where not everything it prints is UTF-8.
LEMMA SaidLast ==
  ASSUME NEW h \in Commits, NEW p, p # <<>>, p \notin DOMAIN Pathspec,
         NEW printed, NEW c, c = Said(Changed(h, p), printed)
  PROVE  /\ c # None => ChangeIs(c, h, p, printed)
         /\ c = None => \/ \A q \in DOMAIN Tree[h] : ~IsPrefix(p, q)
                        \/ \E d \in Commits :
                             UnchangedSince(d, h, p) /\ Garbled[d] \cap printed # {}
<1>1. c # None => c = Changed(h, p) /\ Garbled[c] \cap printed = {}
  BY DEF Said
<1>2. c # None => UnchangedSince(c, h, p)
  BY <1>1, ChangedLast
<1>3. c = None => Changed(h, p) = None \/ Garbled[Changed(h, p)] \cap printed # {}
  BY DEF Said
<1>4. Changed(h, p) \in Commits \cup {None}
  BY ChangedIsFirst
<1>5. Changed(h, p) # None => UnchangedSince(Changed(h, p), h, p)
  BY ChangedLast
<1>6. Changed(h, p) = None => \A q \in DOMAIN Tree[h] : ~IsPrefix(p, q)
  BY ChangedLast
<1> QED
  BY <1>1, <1>2, <1>3, <1>4, <1>5, <1>6 DEF ChangeIs

\* A file that has no last change to show was not to be shown.
LEMMA NoLastChange ==
  ASSUME NEW h, NEW p \in Seq(Nat), p # <<>>, LastChange(h, p) = None
  PROVE  ~Showable(h, p) \/ ~Datable(h, p)
<1>1. CASE h \notin Commits
  BY <1>1 DEF Showable
<1>2. CASE p \in DOMAIN Pathspec
  BY <1>2 DEF Datable
<1>3. CASE h \in Commits /\ p \notin DOMAIN Pathspec
  <2>1. \/ \A q \in DOMAIN Tree[h] : ~IsPrefix(p, q)
        \/ \E d \in Commits :
             UnchangedSince(d, h, p) /\ Garbled[d] \cap {"subject", "author"} # {}
    BY <1>3, SaidLast DEF LastChange
  <2>2. CASE \A q \in DOMAIN Tree[h] : ~IsPrefix(p, q)
    <3>1. \A q \in DOMAIN Tree[h] : q \in Seq(Nat)
      BY <1>3, TreeAssumption
    <3>2. \A q \in DOMAIN Tree[h] : ~IsStrictPrefix(p, q) /\ q # p
      BY <2>2, <3>1, PrefixOf
    <3> QED
      BY <3>2 DEF Showable
  <2>3. CASE \E d \in Commits :
               UnchangedSince(d, h, p) /\ Garbled[d] \cap {"subject", "author"} # {}
    BY <1>3, <2>3, OneChange DEF Datable, ChangeIs
  <2> QED
    BY <2>1, <2>2, <2>3
<1> QED
  BY <1>1, <1>2, <1>3

-----------------------------------------------------------------------------
(* What a page of files shows, and when it was so *)

\* HeadShown, for the kind of page.
HeadOf(kind, h) ==
  CASE h \in Commits -> IF kind = "home" THEN Said(h, {"subject"}) ELSE h
    [] h = None /\ kind # "home" -> HeadName
    [] OTHER -> None

\* What a part shows of path p when HEAD denotes h.
Value(part, p, h) ==
  CASE part = "entries" -> LsTree(h, p)
    [] part = "recent" -> Recent(h, p)
    [] part = "change" -> EntryChange(h, p)
    [] part = "last" -> LastChange(h, p)
    [] OTHER -> Show(h, p)

\* HEAD was shown at some moment of s, and v was the value then or later.
SeenAs(s, kind, shown) == \E i \in DOMAIN s : HeadOf(kind, s[i]) = shown
Since(s, kind, shown, part, p, v) ==
  \E i \in DOMAIN s : \E k \in i..Len(s) :
    HeadOf(kind, s[i]) = shown /\ Value(part, p, s[k]) = v

FileParts == {"fileHead", "text", "mode", "last", "size", "raw"}

\* A tree or file page at path a, where s is what HEAD denoted meanwhile.
TreeFine(s, a, pg) ==
  /\ "head" \in DOMAIN pg => SeenAs(s, "tree", pg.head)
  /\ "entries" \in DOMAIN pg =>
       /\ "head" \in DOMAIN pg /\ "changes" \in DOMAIN pg
       /\ pg.entries # None => Since(s, "tree", pg.head, "entries", a, pg.entries)
       /\ pg.entries = None => \E i \in DOMAIN s : LsTree(s[i], a) = None
  /\ "changes" \in DOMAIN pg =>
       /\ "entries" \in DOMAIN pg /\ pg.changes \in Seq(Commits \cup {None})
       /\ \A i \in 1..Len(pg.changes) :
            Since(s, "tree", pg.head, "change", Append(a, pg.entries[i].name), pg.changes[i])
  /\ "recent" \in DOMAIN pg =>
       /\ "entries" \in DOMAIN pg /\ pg.entries # None
       /\ Since(s, "tree", pg.head, "recent", a, pg.recent)
  /\ \A x \in FileParts : x \in DOMAIN pg =>
       "entries" \in DOMAIN pg /\ pg.entries = None /\ "fileHead" \in DOMAIN pg
  /\ "fileHead" \in DOMAIN pg => SeenAs(s, "tree", pg.fileHead)
  /\ "text" \in DOMAIN pg => Since(s, "tree", pg.fileHead, "text", a, pg.text)
  /\ "last" \in DOMAIN pg => Since(s, "tree", pg.fileHead, "last", a, pg.last)
  /\ "raw" \in DOMAIN pg => Since(s, "tree", pg.fileHead, "text", a, pg.raw)

\* The home page.
HomeFine(s, pg) ==
  /\ "head" \in DOMAIN pg => SeenAs(s, "home", pg.head)
  /\ "recent" \in DOMAIN pg =>
       "head" \in DOMAIN pg /\ Since(s, "home", pg.head, "recent", <<>>, pg.recent)

\* The log page, whose commits are read before its head.
LogSeen(s, log) == \E i \in DOMAIN s : Recent(s[i], <<>>) = log
LogBefore(s, log, shown) ==
  \E i \in DOMAIN s : \E k \in i..Len(s) :
    Recent(s[i], <<>>) = log /\ HeadOf("log", s[k]) = shown
LogFine(s, pg) ==
  /\ "recent" \in DOMAIN pg => LogSeen(s, pg.recent)
  /\ "head" \in DOMAIN pg => "recent" \in DOMAIN pg /\ LogBefore(s, pg.recent, pg.head)

\* Nothing could be shown at the path, at some moment.
Unshown(h, p) == ~Showable(h, p) \/ ~Datable(h, p)
Missed(s, p) ==
  /\ \E i \in DOMAIN s : LsTree(s[i], p) = None
  /\ \E i \in DOMAIN s : Unshown(s[i], p)

Heads == Commits \cup {None, Gone}

\* t is s, or HEAD has moved once more.
Later(t, s) == t = s \/ \E h \in Heads : t = Append(s, h)

LEMMA LaterKeeps ==
  ASSUME NEW s \in Seq(Heads), NEW t, Later(t, s)
  PROVE  /\ t \in Seq(Heads) /\ Len(s) \in Nat /\ Len(t) \in Nat
         /\ DOMAIN s = 1..Len(s) /\ DOMAIN t = 1..Len(t) /\ Len(s) <= Len(t)
         /\ \A i \in DOMAIN s : i \in DOMAIN t /\ t[i] = s[i]
<1>1. CASE t = s
  BY <1>1
<1>2. CASE \E h \in Heads : t = Append(s, h)
  BY <1>2
<1> QED
  BY <1>1, <1>2 DEF Later

LEMMA LaterSince ==
  ASSUME NEW s \in Seq(Heads), NEW t, Later(t, s)
  PROVE  /\ \A kind, shown : SeenAs(s, kind, shown) => SeenAs(t, kind, shown)
         /\ \A kind, shown, part, p, v :
              Since(s, kind, shown, part, p, v) => Since(t, kind, shown, part, p, v)
         /\ \A p : (\E i \in DOMAIN s : LsTree(s[i], p) = None)
                     => \E i \in DOMAIN t : LsTree(t[i], p) = None
         /\ \A p : (\E i \in DOMAIN s : Unshown(s[i], p))
                     => \E i \in DOMAIN t : Unshown(t[i], p)
         /\ \A log : LogSeen(s, log) => LogSeen(t, log)
         /\ \A log, shown : LogBefore(s, log, shown) => LogBefore(t, log, shown)
<1>1. /\ Len(s) \in Nat /\ Len(t) \in Nat /\ DOMAIN s = 1..Len(s) /\ Len(s) <= Len(t)
      /\ \A i \in DOMAIN s : i \in DOMAIN t /\ t[i] = s[i]
  BY LaterKeeps
<1>2. ASSUME NEW kind, NEW shown, NEW part, NEW p, NEW v, Since(s, kind, shown, part, p, v)
      PROVE  Since(t, kind, shown, part, p, v)
  <2>1. PICK i \in DOMAIN s : \E k \in i..Len(s) :
          HeadOf(kind, s[i]) = shown /\ Value(part, p, s[k]) = v
    BY <1>2 DEF Since
  <2> PICK k \in i..Len(s) : HeadOf(kind, s[i]) = shown /\ Value(part, p, s[k]) = v
    BY <2>1
  <2>2. i \in DOMAIN t /\ k \in DOMAIN s /\ k \in i..Len(t)
    BY <1>1, <2>1
  <2>3. t[i] = s[i] /\ t[k] = s[k]
    BY <1>1, <2>2
  <2> QED
    BY <2>1, <2>2, <2>3 DEF Since
<1>3. \A kind, shown : SeenAs(s, kind, shown) => SeenAs(t, kind, shown)
  BY <1>1 DEF SeenAs
<1>4. /\ \A p : (\E i \in DOMAIN s : LsTree(s[i], p) = None)
                     => \E i \in DOMAIN t : LsTree(t[i], p) = None
      /\ \A p : (\E i \in DOMAIN s : Unshown(s[i], p))
                     => \E i \in DOMAIN t : Unshown(t[i], p)
  BY <1>1
<1>5. \A log : LogSeen(s, log) => LogSeen(t, log)
  BY <1>1 DEF LogSeen
<1>6. ASSUME NEW log, NEW shown, LogBefore(s, log, shown) PROVE LogBefore(t, log, shown)
  <2>1. PICK i \in DOMAIN s : \E k \in i..Len(s) :
          Recent(s[i], <<>>) = log /\ HeadOf("log", s[k]) = shown
    BY <1>6 DEF LogBefore
  <2> PICK k \in i..Len(s) : Recent(s[i], <<>>) = log /\ HeadOf("log", s[k]) = shown
    BY <2>1
  <2>2. i \in DOMAIN t /\ k \in DOMAIN s /\ k \in i..Len(t)
    BY <1>1, <2>1
  <2>3. t[i] = s[i] /\ t[k] = s[k]
    BY <1>1, <2>2
  <2> QED
    BY <2>1, <2>2, <2>3 DEF LogBefore
<1> QED
  BY <1>2, <1>3, <1>4, <1>5, <1>6

LEMMA LaterTree ==
  ASSUME NEW s \in Seq(Heads), NEW t, Later(t, s), NEW a, NEW pg, TreeFine(s, a, pg)
  PROVE  TreeFine(t, a, pg)
<1>1. /\ \A kind, shown : SeenAs(s, kind, shown) => SeenAs(t, kind, shown)
      /\ \A kind, shown, part, p, v :
              Since(s, kind, shown, part, p, v) => Since(t, kind, shown, part, p, v)
      /\ \A p : (\E i \in DOMAIN s : LsTree(s[i], p) = None)
                     => \E i \in DOMAIN t : LsTree(t[i], p) = None
  BY LaterSince
<1> QED
  BY <1>1 DEF TreeFine

LEMMA LaterHome ==
  ASSUME NEW s \in Seq(Heads), NEW t, Later(t, s), NEW pg, HomeFine(s, pg)
  PROVE  HomeFine(t, pg)
BY LaterSince DEF HomeFine

LEMMA LaterLog ==
  ASSUME NEW s \in Seq(Heads), NEW t, Later(t, s), NEW pg, LogFine(s, pg)
  PROVE  LogFine(t, pg)
BY LaterSince DEF LogFine

\* What is read now was so at the last moment.
LEMMA SeenNow ==
  ASSUME NEW s \in Seq(Heads), NEW h, s # <<>>, s[Len(s)] = h
  PROVE  /\ Len(s) \in DOMAIN s
         /\ \A kind : SeenAs(s, kind, HeadOf(kind, h))
         /\ \A kind, shown, part, p :
              SeenAs(s, kind, shown) => Since(s, kind, shown, part, p, Value(part, p, h))
<1>1. Len(s) \in Nat /\ Len(s) >= 1 /\ DOMAIN s = 1..Len(s)
  BY EmptySeq
<1>2. Len(s) \in DOMAIN s
  BY <1>1
<1>3. \A kind : SeenAs(s, kind, HeadOf(kind, h))
  BY <1>2 DEF SeenAs
<1>4. ASSUME NEW kind, NEW shown, NEW part, NEW p, SeenAs(s, kind, shown)
      PROVE  Since(s, kind, shown, part, p, Value(part, p, h))
  <2>1. PICK i \in DOMAIN s : HeadOf(kind, s[i]) = shown
    BY <1>4 DEF SeenAs
  <2>2. Len(s) \in i..Len(s)
    BY <1>1
  <2> QED
    BY <2>1, <2>2 DEF Since
<1> QED
  BY <1>2, <1>3, <1>4

\* The page pg with a part more.
Added(pg2, pg, part, v) ==
  /\ DOMAIN pg2 = DOMAIN pg \cup {part}
  /\ pg2[part] = v
  /\ \A x \in DOMAIN pg : x # part => pg2[x] = pg[x]

LEMMA TreeGets ==
  ASSUME NEW s \in Seq(Heads), NEW h, s # <<>>, s[Len(s)] = h, NEW a,
         NEW pg, TreeFine(s, a, pg), NEW pg2, NEW part, NEW v, Added(pg2, pg, part, v),
         \/ part = "head" /\ v = HeadOf("tree", h) /\ "entries" \notin DOMAIN pg
         \/ /\ part = "changes" /\ "entries" \in DOMAIN pg /\ "changes" \in DOMAIN pg
            /\ v = Append(pg.changes,
                          EntryChange(h, Append(a, pg.entries[Len(pg.changes) + 1].name)))
         \/ /\ part = "recent" /\ v = Recent(h, a)
            /\ "entries" \in DOMAIN pg /\ pg.entries # None
         \/ /\ part \in FileParts /\ part \notin DOMAIN pg
            /\ "entries" \in DOMAIN pg /\ pg.entries = None
            /\ part = "fileHead" \/ "fileHead" \in DOMAIN pg
            /\ part = "fileHead" => v = HeadOf("tree", h)
            /\ part \in {"text", "raw"} => v = Show(h, a)
            /\ part = "last" => v = LastChange(h, a)
  PROVE  TreeFine(s, a, pg2)
<1>1. /\ \A kind : SeenAs(s, kind, HeadOf(kind, h))
      /\ \A kind, shown, x, p :
              SeenAs(s, kind, shown) => Since(s, kind, shown, x, p, Value(x, p, h))
  BY SeenNow
<1>2. \A p : /\ Value("recent", p, h) = Recent(h, p)
             /\ Value("change", p, h) = EntryChange(h, p)
             /\ Value("last", p, h) = LastChange(h, p)
             /\ Value("text", p, h) = Show(h, p)
  BY DEF Value
<1>3. /\ DOMAIN pg2 = DOMAIN pg \cup {part} /\ pg2[part] = v
      /\ \A x \in DOMAIN pg : x # part => pg2[x] = pg[x]
  BY DEF Added
<1>4. CASE part = "head" /\ v = HeadOf("tree", h) /\ "entries" \notin DOMAIN pg
  <2>1. SeenAs(s, "tree", pg2["head"])
    BY <1>1, <1>3, <1>4
  <2>2. /\ "entries" \notin DOMAIN pg2 /\ "changes" \notin DOMAIN pg2
        /\ "recent" \notin DOMAIN pg2
        /\ \A x \in FileParts : x \notin DOMAIN pg2
    BY <1>3, <1>4 DEF TreeFine, FileParts
  <2> QED
    BY <2>1, <2>2 DEF TreeFine, FileParts
<1>5. CASE /\ part = "changes" /\ "entries" \in DOMAIN pg /\ "changes" \in DOMAIN pg
           /\ v = Append(pg.changes,
                         EntryChange(h, Append(a, pg.entries[Len(pg.changes) + 1].name)))
  <2> DEFINE n == Len(pg.changes)
             q == Append(a, pg.entries[n + 1].name)
             c == EntryChange(h, q)
  <2>1. pg.changes \in Seq(Commits \cup {None}) /\ c \in Commits \cup {None}
    BY <1>5, SaidIsCommit DEF TreeFine, EntryChange
  <2>2. v = Append(pg.changes, c)
    BY <1>5
  <2>3. Since(s, "tree", pg.head, "change", q, c)
    <3>1. SeenAs(s, "tree", pg.head)
      BY <1>5 DEF TreeFine
    <3>2. Since(s, "tree", pg.head, "change", q, Value("change", q, h))
      BY <1>1, <3>1
    <3> HIDE DEF q
    <3> QED
      BY <1>2, <3>2
  <2>4. \A i \in 1..n : Since(s, "tree", pg.head, "change", Append(a, pg.entries[i].name), pg.changes[i])
    BY <1>5 DEF TreeFine
  <2>5. /\ n \in Nat /\ v \in Seq(Commits \cup {None}) /\ Len(v) = n + 1 /\ v[n + 1] = c
        /\ \A i \in 1..n : v[i] = pg.changes[i]
    <3> HIDE DEF c
    <3> QED
      BY <2>1, <2>2
  <2>6. \A i \in 1..Len(v) : Since(s, "tree", pg.head, "change", Append(a, pg.entries[i].name), v[i])
    <3> SUFFICES ASSUME NEW i \in 1..Len(v)
                 PROVE  Since(s, "tree", pg.head, "change", Append(a, pg.entries[i].name), v[i])
      OBVIOUS
    <3>1. CASE i = n + 1
      <4>1. v[i] = c /\ Append(a, pg.entries[i].name) = q
        BY <2>5, <3>1
      <4> HIDE DEF c, q, n
      <4> QED
        BY <2>3, <4>1
    <3>2. CASE i # n + 1
      <4>1. i \in 1..n
        <5> HIDE DEF n
        <5> QED
          BY <2>5, <3>2
      <4> HIDE DEF n
      <4> QED
        BY <2>4, <2>5, <4>1
    <3> QED
      BY <3>1, <3>2
  <2>7. /\ "changes" \in DOMAIN pg2 /\ pg2["changes"] = v
        /\ \A x : x # "changes" => (x \in DOMAIN pg2 <=> x \in DOMAIN pg)
        /\ \A x : x # "changes" /\ x \in DOMAIN pg => pg2[x] = pg[x]
    BY <1>3, <1>5
  <2> HIDE DEF n, q, c
  <2> QED
    BY <1>5, <2>5, <2>6, <2>7 DEF TreeFine, FileParts
<1>6. CASE /\ part = "recent" /\ v = Recent(h, a)
           /\ "entries" \in DOMAIN pg /\ pg.entries # None
  <2>1. SeenAs(s, "tree", pg.head)
    BY <1>6 DEF TreeFine
  <2>2. Since(s, "tree", pg.head, "recent", a, v)
    BY <1>1, <1>2, <1>6, <2>1
  <2>3. /\ pg2["recent"] = v
        /\ \A x : x # "recent" => (x \in DOMAIN pg2 <=> x \in DOMAIN pg)
        /\ \A x : x # "recent" /\ x \in DOMAIN pg => pg2[x] = pg[x]
    BY <1>3, <1>6
  <2> QED
    BY <1>6, <2>2, <2>3 DEF TreeFine, FileParts
<1>7. CASE /\ part \in FileParts /\ part \notin DOMAIN pg
           /\ "entries" \in DOMAIN pg /\ pg.entries = None
           /\ part = "fileHead" \/ "fileHead" \in DOMAIN pg
           /\ part = "fileHead" => v = HeadOf("tree", h)
           /\ part \in {"text", "raw"} => v = Show(h, a)
           /\ part = "last" => v = LastChange(h, a)
  <2>1. \A x \in {"head", "entries", "changes", "recent"} :
          /\ x \in DOMAIN pg2 <=> x \in DOMAIN pg
          /\ x \in DOMAIN pg => pg2[x] = pg[x]
    BY <1>3, <1>7 DEF FileParts
  <2>2. "entries" \in DOMAIN pg2 /\ pg2["entries"] = None /\ "fileHead" \in DOMAIN pg2
    BY <1>3, <1>7, <2>1
  <2>3. SeenAs(s, "tree", pg2["fileHead"])
    BY <1>1, <1>3, <1>7 DEF TreeFine
  <2>4. part # "fileHead" => pg2["fileHead"] = pg.fileHead
    BY <1>3, <1>7
  <2>5. \A p, x : Since(s, "tree", pg2["fileHead"], x, p, Value(x, p, h))
    BY <1>1, <2>3
  <2>6. part = "fileHead" => "text" \notin DOMAIN pg /\ "last" \notin DOMAIN pg /\ "raw" \notin DOMAIN pg
    BY <1>7 DEF TreeFine, FileParts
  <2>7. "text" \in DOMAIN pg2 => Since(s, "tree", pg2["fileHead"], "text", a, pg2["text"])
    <3>1. CASE part = "text"
      BY <1>2, <1>3, <1>7, <2>5, <3>1
    <3>2. CASE part # "text"
      BY <1>3, <1>7, <2>4, <2>6, <3>2 DEF TreeFine
    <3> QED
      BY <3>1, <3>2
  <2>8. "last" \in DOMAIN pg2 => Since(s, "tree", pg2["fileHead"], "last", a, pg2["last"])
    <3>1. CASE part = "last"
      BY <1>2, <1>3, <1>7, <2>5, <3>1
    <3>2. CASE part # "last"
      BY <1>3, <1>7, <2>4, <2>6, <3>2 DEF TreeFine
    <3> QED
      BY <3>1, <3>2
  <2>9. "raw" \in DOMAIN pg2 => Since(s, "tree", pg2["fileHead"], "text", a, pg2["raw"])
    <3>1. CASE part = "raw"
      BY <1>2, <1>3, <1>7, <2>5, <3>1
    <3>2. CASE part # "raw"
      BY <1>3, <1>7, <2>4, <2>6, <3>2 DEF TreeFine
    <3> QED
      BY <3>1, <3>2
  <2> QED
    BY <2>1, <2>2, <2>3, <2>7, <2>8, <2>9 DEF TreeFine
<1> QED
  BY <1>4, <1>5, <1>6, <1>7

\* ls-tree, which decides whether the page is one of a directory.
LEMMA TreeGetsEntries ==
  ASSUME NEW s \in Seq(Heads), NEW h, s # <<>>, s[Len(s)] = h, NEW a,
         NEW pg, TreeFine(s, a, pg), "head" \in DOMAIN pg, "entries" \notin DOMAIN pg,
         NEW pg2, DOMAIN pg2 = DOMAIN pg \cup {"entries", "changes"},
         pg2["entries"] = LsTree(h, a), pg2["changes"] = <<>>,
         \A x \in DOMAIN pg \ {"entries", "changes"} : pg2[x] = pg[x]
  PROVE  TreeFine(s, a, pg2)
<1>1. SeenAs(s, "tree", pg2["head"]) /\ "head" \in DOMAIN pg2
  BY DEF TreeFine
<1>2. Since(s, "tree", pg2["head"], "entries", a, pg2["entries"])
  <2>1. Since(s, "tree", pg2["head"], "entries", a, Value("entries", a, h))
    BY <1>1, SeenNow
  <2> QED
    BY <2>1 DEF Value
<1>3. pg2["entries"] = None => \E i \in DOMAIN s : LsTree(s[i], a) = None
  <2>1. Len(s) \in DOMAIN s
    BY SeenNow
  <2> QED
    BY <2>1
<1>4. "recent" \notin DOMAIN pg2 /\ \A x \in FileParts : x \notin DOMAIN pg2
  BY DEF TreeFine, FileParts
<1>5. pg2["changes"] \in Seq(Commits \cup {None}) /\ \A i : i \notin 1..Len(pg2["changes"])
  BY EmptySeq
<1>6. "entries" \in DOMAIN pg2 /\ "changes" \in DOMAIN pg2
  OBVIOUS
<1>7. /\ "fileHead" \notin DOMAIN pg2 /\ "text" \notin DOMAIN pg2
      /\ "last" \notin DOMAIN pg2 /\ "raw" \notin DOMAIN pg2
  BY <1>4 DEF FileParts
<1> QED
  BY ONLY <1>1, <1>2, <1>3, <1>4, <1>5, <1>6, <1>7 DEF TreeFine

LEMMA HomeGets ==
  ASSUME NEW s \in Seq(Heads), NEW h, s # <<>>, s[Len(s)] = h,
         NEW pg, HomeFine(s, pg), NEW pg2, NEW part, NEW v, Added(pg2, pg, part, v),
         part \notin DOMAIN pg,
         part = "head" => v = HeadOf("home", h),
         part = "recent" => v = Recent(h, <<>>) /\ "head" \in DOMAIN pg
  PROVE  HomeFine(s, pg2)
<1>1. /\ DOMAIN pg2 = DOMAIN pg \cup {part} /\ pg2[part] = v
      /\ \A x \in DOMAIN pg : x # part => pg2[x] = pg[x]
  BY DEF Added
<1>2. "head" \in DOMAIN pg2 => SeenAs(s, "home", pg2["head"])
  <2>1. SeenAs(s, "home", HeadOf("home", h))
    BY SeenNow
  <2> QED
    BY <1>1, <2>1 DEF HomeFine
<1>3. CASE part = "recent"
  <2>1. Since(s, "home", pg.head, "recent", <<>>, Value("recent", <<>>, h))
    BY <1>3, SeenNow DEF HomeFine
  <2>2. Value("recent", <<>>, h) = Recent(h, <<>>)
    BY DEF Value
  <2> QED
    BY <1>1, <1>2, <1>3, <2>1, <2>2 DEF HomeFine
<1>4. CASE part = "head"
  BY <1>1, <1>2, <1>4 DEF HomeFine
<1>5. CASE part # "head" /\ part # "recent"
  BY <1>1, <1>2, <1>5 DEF HomeFine
<1> QED
  BY <1>3, <1>4, <1>5

LEMMA LogGets ==
  ASSUME NEW s \in Seq(Heads), NEW h, s # <<>>, s[Len(s)] = h,
         NEW pg, LogFine(s, pg), NEW pg2, NEW part, NEW v, Added(pg2, pg, part, v),
         part \notin DOMAIN pg,
         part = "recent" => v = Recent(h, <<>>),
         part = "head" => v = HeadOf("log", h) /\ "recent" \in DOMAIN pg
  PROVE  LogFine(s, pg2)
<1>1. /\ DOMAIN pg2 = DOMAIN pg \cup {part} /\ pg2[part] = v
      /\ \A x \in DOMAIN pg : x # part => pg2[x] = pg[x]
  BY DEF Added
<1>2. Len(s) \in Nat /\ Len(s) >= 1 /\ DOMAIN s = 1..Len(s)
  BY EmptySeq
<1>3. CASE part = "recent"
  <2>1. Len(s) \in DOMAIN s
    BY <1>2
  <2>2. LogSeen(s, pg2["recent"])
    BY <1>1, <1>3, <2>1 DEF LogSeen
  <2>3. "head" \notin DOMAIN pg2
    BY <1>1, <1>3 DEF LogFine
  <2> QED
    BY <2>2, <2>3 DEF LogFine
<1>4. CASE part = "head"
  <2>1. "recent" \in DOMAIN pg2 /\ pg2["recent"] = pg.recent /\ LogSeen(s, pg.recent)
    BY <1>1, <1>4 DEF LogFine
  <2>2. PICK i \in DOMAIN s : Recent(s[i], <<>>) = pg.recent
    BY <2>1 DEF LogSeen
  <2>3. Len(s) \in i..Len(s)
    BY <1>2
  <2>4. LogBefore(s, pg.recent, HeadOf("log", h))
    BY <2>2, <2>3 DEF LogBefore
  <2> QED
    BY <1>1, <1>4, <2>1, <2>4 DEF LogFine
<1>5. CASE part # "head" /\ part # "recent"
  BY <1>1, <1>5 DEF LogFine
<1> QED
  BY <1>3, <1>4, <1>5

\* A path of which nothing can be shown, no last change or no listing, is not
\* there, or is no text with a change to show.
LEMMA NotShown ==
  ASSUME NEW h, NEW p \in Seq(Nat)
  PROVE  /\ Show(h, p) = None => ~Showable(h, p)
         /\ p # <<>> /\ LastChange(h, p) = None => Unshown(h, p)
         /\ p = <<>> /\ LsTree(h, p) = None => ~Showable(h, p)
<1>1. p # <<>> /\ LastChange(h, p) = None => Unshown(h, p)
  BY NoLastChange DEF Unshown
<1>2. ASSUME h \in Commits, Showable(h, p)
      PROVE  Show(h, p) # None /\ (p = <<>> => LsTree(h, p) # None)
  <2>1. \A q \in DOMAIN Tree[h] : q \in Seq(Nat) /\ q # <<>> /\ Tree[h][q] # None
    BY <1>2, TreeAssumption
  <2>2. PICK q \in DOMAIN Tree[h] :
          IsStrictPrefix(p, q) \/ (q = p /\ Tree[h][q] \notin {Blank, Module, NotUtf8})
    BY <1>2 DEF Showable
  <2>3. CASE IsStrictPrefix(p, q)
    <3>1. IsDir(h, p)
      BY <2>3 DEF IsDir
    <3>2. Show(h, p) = [listed |-> Names(h, p)]
      <4>1. p \notin DOMAIN Tree[h]
        BY <1>2, <2>3, TreeAssumption
      <4> QED
        BY <1>2, <3>1, <4>1 DEF Show
    <3>3. Names(h, p) \in SUBSET Nat
      BY <1>2, NamesBelow
    <3> DEFINE r == [listed |-> Names(h, p)]
    <3>4. r \in [listed : SUBSET Nat]
      BY <3>3
    <3>5. Show(h, p) # None
      <4> HIDE DEF r
      <4>1. r # None
        BY <3>4, NoneAssumption
      <4> QED
        BY <3>2, <4>1 DEF r
    <3>6. LsTree(h, p) # None
      BY <1>2, <3>1, ListingIsSome
    <3> QED
      BY <3>5, <3>6
  <2>4. CASE q = p /\ Tree[h][q] \notin {Blank, Module, NotUtf8} /\ ~IsStrictPrefix(p, q)
    <3>1. p # <<>>
      BY <2>1, <2>4
    <3>2. Show(h, p) # None
      <4>1. CASE IsDir(h, p)
        <5>1. \E x \in DOMAIN Tree[h] : IsStrictPrefix(p, x)
          BY <4>1 DEF IsDir
        <5> QED
          BY <1>2, <2>4, <5>1, TreeAssumption
      <4>2. CASE ~IsDir(h, p)
        BY <1>2, <2>1, <2>4, <3>1, <4>2 DEF Show
      <4> QED
        BY <4>1, <4>2
    <3> QED
      BY <3>1, <3>2
  <2> QED
    BY <2>2, <2>3, <2>4
<1>3. h \notin Commits => ~Showable(h, p)
  BY DEF Showable
<1> QED
  BY <1>1, <1>2, <1>3

-----------------------------------------------------------------------------
(* Requests, read by read *)

\* The parts a kind of page can have.
May(kind, visitor) ==
  {"tried"} \cup
  CASE kind = "list" -> {"listed", "subject"}
    [] kind = "home" -> {"head", "readme", "recent", "mirrors"}
                          \cup IF visitor # "anonymous" THEN {"runs"} ELSE {}
    [] kind = "tree" -> {"head", "entries", "changes", "recent"} \cup FileParts
    [] kind = "log" -> {"recent", "head"}
    [] kind = "commit" -> {"id", "info", "patch"}
    [] kind = "runs" -> {"runs"}
    [] OTHER -> {"run", "jobs", "sh"}

LEMMA NextPart ==
  ASSUME NEW part, Reads(part), req.kind \in Kinds
  PROVE  /\ status = "reading" /\ UNCHANGED <<outsideVars, req, seen, quiet>>
         /\ part \in May(req.kind, req.visitor)
         /\ part # "tried" /\ (part # "changes" => part \notin DOMAIN page)
         /\ part = "entries" => req.kind = "tree"
         /\ part = "changes" => req.kind = "tree"
         /\ part = "readme" => req.kind = "home"
         /\ req.kind = "tree" =>
              /\ part = "entries" => "head" \in DOMAIN page
              /\ part \in {"changes", "recent"} =>
                   "entries" \in DOMAIN page /\ page.entries # None
              /\ part \in FileParts =>
                   /\ "entries" \in DOMAIN page /\ page.entries = None
                   /\ part = "fileHead" \/ "fileHead" \in DOMAIN page
         /\ req.kind = "home" /\ part = "recent" => "head" \in DOMAIN page
         /\ req.kind = "log" /\ part = "head" => "recent" \in DOMAIN page
<1>1. status = "reading" /\ UNCHANGED <<outsideVars, req, seen, quiet>> /\ ~Has(part)
  BY DEF Reads
<1>3. PICK i \in DOMAIN Parts : Parts[i] = part /\ \A k \in 1..i - 1 : Has(Parts[k])
  BY DEF Reads
<1>2. part # "tried" /\ (part # "changes" => part \notin DOMAIN page)
  <2>1. part # "changes" => part \notin DOMAIN page
    BY <1>1 DEF Has
  <2>2. part # "tried"
    BY <1>3 DEF Parts, HomeParts, TreeParts, RunParts, Kinds
  <2> QED
    BY <2>1, <2>2
<1>4. CASE req.kind = "tree"
  <2>1. CASE "entries" \in DOMAIN page /\ page.entries = None
    <3>1. Parts = <<"head", "entries", "fileHead", "text", "mode", "last", "size", "raw">>
      BY <1>4, <2>1 DEF Parts, TreeParts
    <3>2. part \in {"head", "entries"} \cup FileParts
      BY <1>3, <3>1 DEF FileParts
    <3>3. part \in FileParts \ {"fileHead"} => i > 3
      BY <1>3, <3>1 DEF FileParts
    <3>4. part = "entries" => i = 2
      BY <1>3, <3>1
    <3>5. (i > 3 => Has("fileHead")) /\ (i = 2 => Has("head"))
      BY <1>3, <3>1
    <3>6. part \in FileParts \/ part \notin {"changes", "recent"}
      BY <3>2 DEF FileParts
    <3> QED
      BY <1>1, <1>2, <1>4, <2>1, <3>2, <3>3, <3>4, <3>5, <3>6 DEF May, Has, FileParts
  <2>2. CASE ~("entries" \in DOMAIN page /\ page.entries = None)
    <3>1. Parts = <<"head", "entries", "changes", "recent">>
      BY <1>4, <2>2 DEF Parts, TreeParts
    <3>2. part \in {"head", "entries", "changes", "recent"}
      BY <1>3, <3>1
    <3>3. part \in {"changes", "recent"} => i > 2
      BY <1>3, <3>1
    <3>4. part = "entries" => i = 2
      BY <1>3, <3>1
    <3>5. (i > 2 => Has("entries")) /\ (i = 2 => Has("head"))
      BY <1>3, <3>1
    <3>6. Has("entries") => "entries" \in DOMAIN page
      BY DEF Has
    <3>7. Has("head") => "head" \in DOMAIN page
      BY DEF Has
    <3>8. part \notin FileParts
      BY <3>2 DEF FileParts
    <3> QED
      BY <1>1, <1>2, <1>4, <2>2, <3>2, <3>3, <3>4, <3>5, <3>6, <3>7, <3>8 DEF May
  <2> QED
    BY <2>1, <2>2
<1>5. CASE req.kind = "home"
  <2>1. CASE req.visitor # "anonymous"
    <3>1. Parts = <<"runs", "head", "readme", "recent", "mirrors">>
      BY <1>5, <2>1 DEF Parts, HomeParts, Authenticated
    <3>2. part \in {"runs", "head", "readme", "recent", "mirrors"} /\ (part = "recent" => i = 4)
      BY <1>3, <3>1
    <3>3. i = 4 => Has("head")
      BY <1>3, <3>1
    <3> QED
      BY <1>1, <1>2, <1>5, <2>1, <3>2, <3>3 DEF May, Has
  <2>2. CASE req.visitor = "anonymous"
    <3>1. Parts = <<"head", "readme", "recent", "mirrors">>
      BY <1>5, <2>2 DEF Parts, HomeParts, Authenticated
    <3>2. part \in {"head", "readme", "recent", "mirrors"} /\ (part = "recent" => i = 3)
      BY <1>3, <3>1
    <3>3. i = 3 => Has("head")
      BY <1>3, <3>1
    <3> QED
      BY <1>1, <1>2, <1>5, <2>2, <3>2, <3>3 DEF May, Has
  <2> QED
    BY <2>1, <2>2
<1>6. CASE req.kind \in {"list", "log", "commit", "runs", "run"}
  <2>1. part \in May(req.kind, req.visitor) /\ part \notin {"entries", "changes", "readme"}
    BY <1>3, <1>6 DEF Parts, RunParts, May
  <2>2. req.kind = "log" /\ part = "head" => "recent" \in DOMAIN page
    <3> SUFFICES ASSUME req.kind = "log", part = "head" PROVE "recent" \in DOMAIN page
      OBVIOUS
    <3>1. Parts = <<"recent", "head">>
      BY DEF Parts
    <3>2. i = 2 /\ Has("recent")
      BY <1>3, <3>1
    <3> QED
      BY <3>2 DEF Has
  <2> QED
    BY <1>1, <1>2, <1>6, <2>1, <2>2
<1> QED
  BY <1>4, <1>5, <1>6 DEF Kinds

\* What HEAD denoted, and the page at its moments.
SeenFine ==
  /\ seen \in Seq(Heads)
  /\ status # "idle" => seen # <<>> /\ seen[Len(seen)] = head
PageFine ==
  /\ req.kind \in Kinds /\ req.arg \in ArgsOf(req.kind) /\ req.visitor \in Visitors
  /\ DOMAIN page \subseteq May(req.kind, req.visitor)
  /\ req.kind = "tree" => TreeFine(seen, req.arg, page)
  /\ req.kind = "home" => HomeFine(seen, page)
  /\ req.kind = "log" => LogFine(seen, page)
NotFoundFine ==
  status = "not found" /\ req.kind = "tree" => Missed(seen, req.arg)

LEMMA HeadIsHeadOf == \A h : HeadShown(h) = HeadOf(req.kind, h)
BY DEF HeadShown, HeadOf

LEMMA GotFine ==
  ASSUME SeenFine, PageFine, NEW part, NEW v, Reads(part), part # "entries",
         page' = With(part, v),
         part \in {"head", "fileHead"} => v = HeadShown(head),
         part = "changes" =>
           v = Append(page.changes,
                 EntryChange(head, EntryPath(page.entries[Len(page.changes) + 1].name))),
         part = "recent" => v = Recent(head, IF req.kind = "tree" THEN req.arg ELSE <<>>),
         part \in {"text", "raw"} => v = Show(head, req.arg),
         part = "last" => v = LastChange(head, req.arg)
  PROVE  PageFine'
<1>1. /\ UNCHANGED <<head, req, seen>> /\ status = "reading"
      /\ part \in May(req.kind, req.visitor)
  BY NextPart DEF PageFine, outsideVars
<1>2. seen \in Seq(Heads) /\ seen # <<>> /\ seen[Len(seen)] = head
  BY <1>1 DEF SeenFine
<1>3. Added(page', page, part, v)
  BY DEF Added, With
<1>4. (req.kind \in Kinds /\ req.arg \in ArgsOf(req.kind) /\ req.visitor \in Visitors)'
  BY <1>1 DEF PageFine, ArgsOf, Kinds
<1>5. DOMAIN page' \subseteq May(req'.kind, req'.visitor)
  BY <1>1, <1>3 DEF PageFine, Added
<1>6. ASSUME req.kind = "tree" PROVE TreeFine(seen', req'.arg, page')
  <2>1. TreeFine(seen, req.arg, page)
    BY <1>6 DEF PageFine
  <2>2. part \in {"head", "changes", "recent"} \cup FileParts \cup {"tried"}
    BY <1>1, <1>6 DEF May
  <2>3. /\ part \in {"changes", "recent"} =>
             "entries" \in DOMAIN page /\ page.entries # None
        /\ part \in FileParts =>
             /\ "entries" \in DOMAIN page /\ page.entries = None
             /\ part = "fileHead" \/ "fileHead" \in DOMAIN page
        /\ part # "changes" => part \notin DOMAIN page
    BY <1>6, NextPart DEF PageFine
  <2>4. HeadShown(head) = HeadOf("tree", head)
    BY <1>6, HeadIsHeadOf
  <2>5. CASE part = "head"
    <3>1. "entries" \notin DOMAIN page
      BY <2>1, <2>3, <2>5 DEF TreeFine
    <3> QED
      BY <1>1, <1>2, <1>3, <2>1, <2>4, <2>5, <3>1, TreeGets
  <2>6. CASE part = "changes"
    <3>1. "changes" \in DOMAIN page
      BY <2>1, <2>3, <2>6 DEF TreeFine
    <3>2. v = Append(page.changes,
                EntryChange(head, Append(req.arg, page.entries[Len(page.changes) + 1].name)))
      BY <2>6 DEF EntryPath
    <3> QED
      BY <1>1, <1>2, <1>3, <2>1, <2>3, <2>6, <3>1, <3>2, TreeGets
  <2>7. CASE part = "recent"
    BY <1>1, <1>2, <1>3, <1>6, <2>1, <2>3, <2>7, TreeGets
  <2>8. CASE part \in FileParts
    BY <1>1, <1>2, <1>3, <2>1, <2>3, <2>4, <2>8, TreeGets
  <2>9. part # "tried"
    BY NextPart DEF PageFine
  <2> QED
    BY <2>2, <2>5, <2>6, <2>7, <2>8, <2>9
<1>7. ASSUME req.kind = "home" PROVE HomeFine(seen', page')
  <2>1. HomeFine(seen, page)
    BY <1>7 DEF PageFine
  <2>2. HeadShown(head) = HeadOf("home", head)
    BY <1>7, HeadIsHeadOf
  <2>3. part \notin DOMAIN page /\ (part = "recent" => "head" \in DOMAIN page)
    BY <1>7, NextPart DEF PageFine
  <2>4. part = "recent" => v = Recent(head, <<>>)
    BY <1>7
  <2> QED
    BY <1>1, <1>2, <1>3, <2>1, <2>2, <2>3, <2>4, HomeGets
<1>8. ASSUME req.kind = "log" PROVE LogFine(seen', page')
  <2>1. LogFine(seen, page)
    BY <1>8 DEF PageFine
  <2>2. HeadShown(head) = HeadOf("log", head)
    BY <1>8, HeadIsHeadOf
  <2>3. part \notin DOMAIN page /\ (part = "head" => "recent" \in DOMAIN page)
    <3>1. part # "changes"
      BY <1>8, NextPart DEF PageFine
    <3> QED
      BY <1>8, <3>1, NextPart DEF PageFine
  <2>4. part = "recent" => v = Recent(head, <<>>)
    BY <1>8
  <2> QED
    BY <1>1, <1>2, <1>3, <2>1, <2>2, <2>3, <2>4, LogGets
<1> QED
  BY <1>1, <1>4, <1>5, <1>6, <1>7, <1>8 DEF PageFine

\* What the world can be, and who may ask.
WorldFine ==
  /\ head \in Heads /\ stored \subseteq Commits
  /\ head \in Commits => ToSet(Line[head]) \subseteq stored
  /\ \A c \in stored : Parent[c] \in stored \cup {None}
  /\ runs \in Seq(RunRows) /\ Len(runs) <= MaxRuns
  /\ moves \in 0..MaxMoves /\ quiet \in BOOLEAN
VisitFine ==
  /\ status \in {"idle", "reading", "ok", "not found", "unauthorized", "error"}
  /\ status = "unauthorized" => page = NoPage
  /\ req.kind \in Guarded /\ status # "unauthorized" => req.visitor = "user"
Fine == IInv /\ WorldFine /\ VisitFine /\ SeenFine /\ PageFine /\ NotFoundFine

\* The line of a commit has the parents of its members.
LEMMA LineIsClosed ==
  ASSUME NEW c \in Commits
  PROVE  /\ ToSet(Line[c]) \subseteq Commits
         /\ \A b \in ToSet(Line[c]) : Parent[b] \in ToSet(Line[c]) \cup {None}
<1> DEFINE L == Line[c]
<1>1. /\ L \in Seq(Commits) /\ Len(L) \in Nat /\ DOMAIN L = 1..Len(L)
      /\ \A n \in 1..Len(L) : L[n] \in Commits
      /\ \A n \in 1..Len(L) : Parent[L[n]] = IF n < Len(L) THEN L[n + 1] ELSE None
  BY Lines
<1> HIDE DEF L
<1>2. ASSUME NEW n \in 1..Len(L) PROVE Parent[L[n]] \in ToSet(L) \cup {None}
  <2>1. n < Len(L) => n + 1 \in DOMAIN L
    BY <1>1
  <2> QED
    BY <1>1, <2>1 DEF ToSet
<1>3. ToSet(L) \subseteq Commits
  BY <1>1 DEF ToSet
<1>4. \A b \in ToSet(L) : Parent[b] \in ToSet(L) \cup {None}
  BY <1>1, <1>2 DEF ToSet
<1> QED
  BY <1>3, <1>4 DEF L

LEMMA OutsideWorld ==
  ASSUME WorldFine, SeenFine, Outside
  PROVE  WorldFine' /\ SeenFine' /\ Later(seen', seen) /\ UNCHANGED <<req, status, page>>
         /\ quiet' = FALSE
<1>1. RowsStay /\ UNCHANGED <<req, status, page>>
  BY OutsideKeeps DEF WorldFine
<1>2. Move
  BY DEF Outside, Pushed, Removed, Created, NewRun, Dispatched, JobInserted, ShInserted,
     Resolved, HeadMoves, RowMoves
<1>3. moves' \in 0..MaxMoves /\ quiet' \in BOOLEAN /\ quiet' = FALSE
  <2>1. moves \in Nat /\ MaxMoves \in Nat
    BY BoundsAssumption DEF WorldFine
  <2>2. moves < MaxMoves /\ moves' = moves + 1 /\ quiet' = FALSE
    BY <1>2 DEF Move
  <2>3. moves' \in 0..MaxMoves
    BY <2>1, <2>2
  <2> QED
    BY <2>2, <2>3
<1>4. ASSUME NEW h, h \in Heads, HeadMoves(h), stored' \subseteq Commits,
             h \in Commits => ToSet(Line[h]) \subseteq stored',
             \A c \in stored' : Parent[c] \in stored' \cup {None}
      PROVE  WorldFine' /\ SeenFine' /\ Later(seen', seen)
  <2>1. head' = h /\ seen' = Append(seen, h) /\ UNCHANGED <<runs, status>>
    BY <1>1, <1>4 DEF HeadMoves
  <2>2. SeenFine'
    <3>1. seen \in Seq(Heads)
      BY DEF SeenFine
    <3>2. seen' \in Seq(Heads) /\ seen' # <<>> /\ seen'[Len(seen')] = h
      BY <1>4, <2>1, <3>1
    <3> QED
      BY <2>1, <3>2 DEF SeenFine
  <2>3. Later(seen', seen)
    BY <1>4, <2>1 DEF Later
  <2>4. WorldFine'
    BY <1>3, <1>4, <2>1 DEF WorldFine
  <2> QED
    BY <2>2, <2>3, <2>4
<1>5. ASSUME NEW c \in Commits, Pushed(c) PROVE WorldFine' /\ SeenFine' /\ Later(seen', seen)
  <2>1. HeadMoves(c) /\ stored' = stored \cup ToSet(Line[c])
    BY <1>5 DEF Pushed
  <2>2. /\ ToSet(Line[c]) \subseteq Commits
        /\ \A b \in ToSet(Line[c]) : Parent[b] \in ToSet(Line[c]) \cup {None}
    BY LineIsClosed
  <2>3. stored' \subseteq Commits /\ \A b \in stored' : Parent[b] \in stored' \cup {None}
    BY <2>1, <2>2 DEF WorldFine
  <2> QED
    BY <1>4, <2>1, <2>3 DEF Heads
<1>6. ASSUME Removed PROVE WorldFine' /\ SeenFine' /\ Later(seen', seen)
  BY <1>4, <1>6, NamesAssumption DEF Removed, Heads
<1>7. ASSUME Created PROVE WorldFine' /\ SeenFine' /\ Later(seen', seen)
  <2>1. HeadMoves(None) /\ UNCHANGED stored
    BY <1>7 DEF Created
  <2> QED
    BY <1>4, <2>1, HistoryAssumption DEF Heads, WorldFine
<1>8. ASSUME UNCHANGED <<head, stored, seen>>, Len(runs') <= MaxRuns
      PROVE  WorldFine' /\ SeenFine' /\ Later(seen', seen)
  BY <1>1, <1>3, <1>8 DEF WorldFine, SeenFine, Later, RowsStay
<1>9. ASSUME NewRun PROVE WorldFine' /\ SeenFine' /\ Later(seen', seen)
  <2>1. runs' = Append(runs, Queued) /\ Len(runs) < MaxRuns /\ UNCHANGED <<head, stored, seen>>
    BY <1>9 DEF NewRun
  <2>2. Len(runs') <= MaxRuns
    <3>1. runs \in Seq(RunRows) /\ MaxRuns \in Nat
      BY BoundsAssumption DEF WorldFine
    <3>2. runs' \in Seq(RunRows)
      BY <1>1 DEF RowsStay
    <3>3. Len(runs') = Len(runs) + 1
      BY <2>1, <3>1
    <3> QED
      BY <2>1, <3>1, <3>3
  <2> QED
    BY <1>8, <2>1, <2>2
<1>10. ASSUME NEW i \in DOMAIN runs, NEW x, RowMoves(i, x)
       PROVE  WorldFine' /\ SeenFine' /\ Later(seen', seen)
  <2>1. runs' = [runs EXCEPT ![i] = x] /\ x \in RunRows /\ UNCHANGED <<head, stored, seen>>
    BY <1>10 DEF RowMoves
  <2>2. Len(runs') <= MaxRuns
    <3>1. Len(runs') = Len(runs)
      BY <2>1 DEF WorldFine
    <3> QED
      BY <3>1 DEF WorldFine
  <2> QED
    BY <1>8, <2>1, <2>2
<1>11. ASSUME NEW i \in DOMAIN runs,
              Dispatched(i) \/ JobInserted(i) \/ ShInserted(i) \/ \E o \in Outcomes : Resolved(i, o)
       PROVE  \E x : RowMoves(i, x)
  BY <1>11 DEF Dispatched, JobInserted, ShInserted, Resolved
<1>12. WorldFine' /\ SeenFine' /\ Later(seen', seen)
  BY <1>5, <1>6, <1>7, <1>9, <1>10, <1>11 DEF Outside
<1> QED
  BY <1>1, <1>3, <1>12

LEMMA OutsideFine ==
  ASSUME Fine, Outside PROVE Fine'
<1>1. /\ WorldFine' /\ SeenFine' /\ Later(seen', seen) /\ UNCHANGED <<req, status, page>>
      /\ IInv'
  BY OutsideWorld, OutsideIsFine DEF Fine
<1>2. seen \in Seq(Heads)
  BY DEF Fine, SeenFine
<1>3. PageFine'
  <2>1. req.kind = "tree" => TreeFine(seen', req.arg, page)
    BY <1>1, <1>2, LaterTree DEF Fine, PageFine
  <2>2. req.kind = "home" => HomeFine(seen', page)
    BY <1>1, <1>2, LaterHome DEF Fine, PageFine
  <2>3. req.kind = "log" => LogFine(seen', page)
    BY <1>1, <1>2, LaterLog DEF Fine, PageFine
  <2> QED
    BY <1>1, <2>1, <2>2, <2>3 DEF Fine, PageFine, ArgsOf
<1>4. NotFoundFine'
  <2> SUFFICES ASSUME status = "not found", req.kind = "tree" PROVE Missed(seen', req.arg)
    BY <1>1 DEF NotFoundFine, Missed, LsTree, Unshown
  <2>1. Missed(seen, req.arg)
    BY DEF Fine, NotFoundFine
  <2> QED
    BY <1>1, <1>2, <2>1, LaterSince DEF Missed
<1>5. VisitFine'
  BY <1>1 DEF Fine, VisitFine
<1> QED
  BY <1>1, <1>3, <1>4, <1>5 DEF Fine

\* A read goes on, or ends with an error or with nothing found.
ReadEnds ==
  /\ status = "reading" /\ UNCHANGED <<outsideVars, req, seen, quiet>>
  /\ status' \in {"reading", "not found", "error"}
  /\ PageFine' /\ NotFoundFine'

LEMMA GotEnds ==
  ASSUME Fine, NEW part, NEW v, Reads(part), part # "entries", Got(part, v),
         part \in {"head", "fileHead"} => v = HeadShown(head),
         part = "changes" =>
           v = Append(page.changes,
                 EntryChange(head, EntryPath(page.entries[Len(page.changes) + 1].name))),
         part = "recent" => v = Recent(head, IF req.kind = "tree" THEN req.arg ELSE <<>>),
         part \in {"text", "raw"} => v = Show(head, req.arg),
         part = "last" => v = LastChange(head, req.arg)
  PROVE  ReadEnds
<1>1. status = "reading" /\ UNCHANGED <<outsideVars, req, seen, quiet>>
  BY NextPart DEF Fine, PageFine
<1>2. page' = With(part, v) /\ status' = "reading"
  BY <1>1 DEF Got
<1>3. PageFine'
  BY <1>2, GotFine DEF Fine
<1> QED
  BY <1>1, <1>2, <1>3 DEF ReadEnds, NotFoundFine

LEMMA MissedEnds ==
  ASSUME Fine, NEW part, Reads(part), UNCHANGED page,
         status' \in {"not found", "error"},
         status' = "not found" /\ req.kind = "tree" =>
           Missed(seen, req.arg)
  PROVE  ReadEnds
<1>1. status = "reading" /\ UNCHANGED <<outsideVars, req, seen, quiet>>
  BY NextPart DEF Fine, PageFine
<1>2. PageFine'
  BY <1>1 DEF Fine, PageFine, ArgsOf
<1> QED
  BY <1>1, <1>2 DEF ReadEnds, NotFoundFine

\* The page of a path of which something could not be shown is not found.
LEMMA FileMissed ==
  ASSUME Fine, req.kind = "tree",
         \/ Reads("text") /\ Show(head, req.arg) = None
         \/ Reads("raw") /\ Show(head, req.arg) = None
         \/ Reads("last") /\ LastChange(head, req.arg) = None
  PROVE  Missed(seen, req.arg)
<1>1. req.arg \in Seq(Nat)
  BY NamesAssumption DEF Fine, PageFine, ArgsOf
<1>2. seen \in Seq(Heads) /\ seen # <<>> /\ seen[Len(seen)] = head /\ Len(seen) \in DOMAIN seen
  <2>1. status = "reading"
    BY DEF Reads
  <2> QED
    BY <2>1, SeenNow DEF Fine, SeenFine
<1>3. PICK i \in DOMAIN seen : LsTree(seen[i], req.arg) = None
  <2>1. "entries" \in DOMAIN page /\ page.entries = None
    BY NextPart DEF Fine, PageFine, FileParts
  <2> QED
    BY <2>1 DEF Fine, PageFine, TreeFine
<1>4. CASE Show(head, req.arg) = None
  BY <1>1, <1>2, <1>3, <1>4, NotShown DEF Unshown, Missed
<1>5. CASE req.arg # <<>> /\ LastChange(head, req.arg) = None
  BY <1>1, <1>2, <1>3, <1>5, NotShown DEF Missed
<1>6. CASE req.arg = <<>>
  BY <1>1, <1>3, <1>6, NotShown DEF Unshown, Missed
<1> QED
  BY <1>4, <1>5, <1>6

LEMMA ReadFine ==
  ASSUME Fine, Read PROVE ReadEnds
<1>1. ASSUME ReadEntries PROVE ReadEnds
  <2>1. Reads("entries") /\ UNCHANGED status
    BY <1>1 DEF ReadEntries
  <2>2. /\ status = "reading" /\ UNCHANGED <<outsideVars, req, seen, quiet>>
        /\ req.kind = "tree" /\ "head" \in DOMAIN page /\ "entries" \notin DOMAIN page
    BY <2>1, NextPart DEF Fine, PageFine
  <2>3. /\ DOMAIN page' = DOMAIN page \cup {"entries", "changes"}
        /\ page'["entries"] = LsTree(head, req.arg) /\ page'["changes"] = <<>>
        /\ \A x \in DOMAIN page \ {"entries", "changes"} : page'[x] = page[x]
    BY <1>1 DEF ReadEntries
  <2>4. seen \in Seq(Heads) /\ seen # <<>> /\ seen[Len(seen)] = head /\ TreeFine(seen, req.arg, page)
    BY <2>2 DEF Fine, SeenFine, PageFine
  <2>5. TreeFine(seen, req.arg, page')
    BY <2>2, <2>3, <2>4, TreeGetsEntries
  <2>6. PageFine'
    BY <2>2, <2>3, <2>5 DEF Fine, PageFine, May, ArgsOf
  <2> QED
    BY <2>1, <2>2, <2>6 DEF ReadEnds, NotFoundFine
<1>2. ASSUME ReadHead \/ ReadFileHead \/ ReadChange \/ ReadRecent PROVE ReadEnds
  BY <1>2, GotEnds DEF ReadHead, ReadFileHead, ReadChange, ReadRecent
<1>3. ASSUME ReadMode \/ ReadSize \/ ReadMirrors \/ ReadId \/ ReadPatch \/ ReadRuns
             \/ ReadJobs \/ ReadSh \/ ReadListed \/ ReadSubject
      PROVE  ReadEnds
  <2>1. \E part \in {"mode", "size", "mirrors", "id", "patch", "runs", "jobs", "sh", "listed",
                     "subject"} : \E v : Reads(part) /\ Got(part, v)
    BY <1>3 DEF ReadMode, ReadSize, ReadMirrors, ReadId, ReadPatch, ReadRuns, ReadJobs, ReadSh,
       ReadListed, ReadSubject
  <2> QED
    BY <2>1, GotEnds
<1>4. ASSUME NEW part \in {"text", "raw", "last"}, NEW v, Reads(part), GotOr404(part, v),
             v = IF part = "last" THEN LastChange(head, req.arg) ELSE Show(head, req.arg)
      PROVE  ReadEnds
  <2>1. CASE v # None
    BY <1>4, <2>1, GotEnds DEF GotOr404
  <2>2. CASE v = None
    BY <1>4, <2>2, FileMissed, MissedEnds DEF GotOr404
  <2> QED
    BY <2>1, <2>2
<1>5. ASSUME ReadText \/ ReadRaw \/ ReadLast PROVE ReadEnds
  BY <1>4, <1>5 DEF ReadText, ReadRaw, ReadLast
<1>6. ASSUME NEW part \in {"info", "run"}, NEW v, Reads(part), GotOr404(part, v)
      PROVE  ReadEnds
  <2>1. req.kind # "tree"
    <3>1. part \in May(req.kind, req.visitor)
      BY <1>6, NextPart DEF Fine, PageFine
    <3> QED
      BY <3>1 DEF May, FileParts
  <2>2. CASE v # None
    BY <1>6, <2>2, GotEnds DEF GotOr404
  <2>3. CASE v = None
    BY <1>6, <2>1, <2>3, MissedEnds DEF GotOr404
  <2> QED
    BY <2>2, <2>3
<1>7. ASSUME ReadInfo \/ ReadRun PROVE ReadEnds
  BY <1>6, <1>7 DEF ReadInfo, ReadRun
<1>8. ASSUME ReadReadme PROVE ReadEnds
  <2>1. Reads("readme")
    BY <1>8 DEF ReadReadme
  <2>2. \/ page' = [page EXCEPT !.tried = @ + 1] /\ UNCHANGED status
        \/ \E v : Got("readme", v)
    BY <1>8 DEF ReadReadme
  <2>3. ASSUME NEW v, Got("readme", v) PROVE ReadEnds
    BY <2>1, <2>3, GotEnds
  <2>4. CASE page' = [page EXCEPT !.tried = @ + 1] /\ UNCHANGED status
    <3>1. status = "reading" /\ UNCHANGED <<outsideVars, req, seen, quiet>> /\ req.kind = "home"
      BY <2>1, NextPart DEF Fine, PageFine
    <3>2. DOMAIN page' = DOMAIN page /\ \A x \in DOMAIN page : x # "tried" => page'[x] = page[x]
      BY <2>4
    <3>3. HomeFine(seen', page')
      BY <3>1, <3>2 DEF Fine, PageFine, HomeFine
    <3>4. PageFine'
      BY <3>1, <3>2, <3>3 DEF Fine, PageFine, ArgsOf
    <3> QED
      BY <2>4, <3>1, <3>4 DEF ReadEnds, NotFoundFine
  <2> QED
    BY <2>2, <2>3, <2>4
<1>9. ASSUME QueryFails PROVE ReadEnds
  BY <1>9, MissedEnds DEF QueryFails
<1> QED
  BY <1>1, <1>2, <1>3, <1>5, <1>7, <1>8, <1>9 DEF Read

-----------------------------------------------------------------------------
(* The theorems about what a page mixes *)

LEMMA OpenFine ==
  ASSUME Fine, NEW kind \in Kinds, NEW arg \in ArgsOf(kind), NEW visitor \in Visitors,
         Open(kind, arg, visitor)
  PROVE  WorldFine' /\ VisitFine' /\ SeenFine' /\ PageFine' /\ NotFoundFine'
<1>1. /\ req' = [kind |-> kind, arg |-> arg, visitor |-> visitor]
      /\ page' = NoPage /\ seen' = <<head>> /\ quiet' = TRUE
      /\ UNCHANGED <<head, stored, runs, moves>>
      /\ status' = CASE kind \in Guarded /\ visitor # "user" -> "unauthorized"
                     [] ~(kind \in Guarded /\ visitor # "user")
                          /\ kind # "list" /\ head = Gone -> "not found"
                     [] OTHER -> "reading"
  BY DEF Open, outsideVars
<1>2. req'.kind = kind /\ req'.arg = arg /\ req'.visitor = visitor
  BY <1>1
<1>3. \/ status' = "unauthorized" /\ kind \in Guarded
      \/ status' = "not found" /\ ~(kind \in Guarded /\ visitor # "user") /\ head = Gone
      \/ status' = "reading" /\ ~(kind \in Guarded /\ visitor # "user")
  BY <1>1
<1>4. WorldFine'
  BY <1>1 DEF Fine, WorldFine
<1>5. VisitFine'
  BY <1>1, <1>2, <1>3 DEF VisitFine
<1>6. seen' \in Seq(Heads) /\ seen' # <<>> /\ seen'[Len(seen')] = head /\ DOMAIN seen' = {1}
      /\ seen'[1] = head
  <2>1. head \in Heads
    BY DEF Fine, WorldFine
  <2>2. ASSUME NEW h \in Heads, NEW s, s = <<h>>
        PROVE  s \in Seq(Heads) /\ s # <<>> /\ s[Len(s)] = h /\ DOMAIN s = {1} /\ s[1] = h
    BY <2>2
  <2> QED
    BY <1>1, <2>1, <2>2
<1>7. SeenFine'
  BY <1>1, <1>6 DEF SeenFine
<1>8. PageFine'
  <2>1. DOMAIN page' = {"tried"}
    BY <1>1 DEF NoPage
  <2>2. TreeFine(seen', arg, page') /\ HomeFine(seen', page') /\ LogFine(seen', page')
    BY <2>1 DEF TreeFine, HomeFine, LogFine, FileParts
  <2>3. (req.kind \in Kinds /\ req.arg \in ArgsOf(req.kind) /\ req.visitor \in Visitors)'
    BY <1>2 DEF ArgsOf, Kinds
  <2>4. (DOMAIN page \subseteq May(req.kind, req.visitor))'
    BY <2>1 DEF May
  <2> QED
    BY <1>2, <2>2, <2>3, <2>4 DEF PageFine
<1>9. NotFoundFine'
  <2>1. Unshown(Gone, arg) /\ LsTree(Gone, arg) = None
    BY NamesAssumption DEF Unshown, Showable, LsTree
  <2> QED
    BY <1>1, <1>2, <1>3, <1>6, <2>1 DEF NotFoundFine, Missed
<1> QED
  BY <1>4, <1>5, <1>7, <1>8, <1>9

\* No request: an idle handler.
LEMMA IdleFine ==
  ASSUME req = NoRequest, page = NoPage, status = "idle", seen = <<>>
  PROVE  VisitFine /\ SeenFine /\ PageFine /\ NotFoundFine
<1>1. DOMAIN page = {"tried"}
  BY DEF NoPage
<1>2. req.kind = "list" /\ req.arg = None /\ req.visitor = "anonymous"
  BY DEF NoRequest
<1>3. PageFine
  BY <1>1, <1>2 DEF PageFine, Kinds, ArgsOf, Visitors, May
<1>4. SeenFine
  BY EmptySeq DEF SeenFine
<1> QED
  BY <1>2, <1>3, <1>4 DEF VisitFine, NotFoundFine, Guarded

LEMMA InitFine == Init => Fine
<1> SUFFICES ASSUME Init PROVE Fine
  OBVIOUS
<1>1. IInv
  BY InitIInv
<1>2. VisitFine /\ SeenFine /\ PageFine /\ NotFoundFine
  BY IdleFine DEF Init
<1>3. WorldFine
  <2>1. head \in Commits \cup {None} /\ moves = 0 /\ quiet = TRUE
        /\ stored = IF head = None THEN {} ELSE ToSet(Line[head])
    BY DEF Init
  <2>2. /\ stored \subseteq Commits /\ (head \in Commits => ToSet(Line[head]) \subseteq stored)
        /\ \A c \in stored : Parent[c] \in stored \cup {None}
    BY <2>1, LineIsClosed, HistoryAssumption
  <2>3. Len(runs) <= MaxRuns
    <3>1. Len(runs) = 0 \/ Len(runs) = 1
      BY DEF Init
    <3>2. MaxRuns \in Nat /\ MaxRuns >= 1
      BY BoundsAssumption
    <3>3. ASSUME NEW n, n = 0 \/ n = 1 PROVE n <= MaxRuns
      BY <3>2, <3>3
    <3> QED
      BY <3>1, <3>3
  <2>4. 0 \in 0..MaxMoves
    BY BoundsAssumption
  <2> QED
    BY <1>1, <2>1, <2>2, <2>3, <2>4 DEF WorldFine, IInv, Heads
<1> QED
  BY <1>1, <1>2, <1>3 DEF Fine

LEMMA NextFine == Fine /\ [Next]_vars => Fine'
<1> SUFFICES ASSUME Fine, [Next]_vars PROVE Fine'
  OBVIOUS
<1>1. IInv'
  BY NextIInv DEF Fine
<1>2. ASSUME NEW kind \in Kinds, NEW arg \in ArgsOf(kind), NEW visitor \in Visitors,
             Open(kind, arg, visitor)
      PROVE  Fine'
  BY <1>1, <1>2, OpenFine DEF Fine
<1>3. CASE Close
  <2>1. (req = NoRequest /\ page = NoPage /\ status = "idle" /\ seen = <<>>)' /\ quiet' = TRUE
        /\ UNCHANGED <<head, stored, runs, moves>>
    BY <1>3 DEF Close, outsideVars
  <2>2. VisitFine' /\ SeenFine' /\ PageFine' /\ NotFoundFine'
    BY <2>1, IdleFine, PTL
  <2>3. WorldFine'
    BY <2>1 DEF Fine, WorldFine
  <2> QED
    BY <1>1, <2>2, <2>3 DEF Fine
<1>4. CASE Render \/ UNCHANGED vars
  <2>1. /\ UNCHANGED <<head, stored, runs, moves, req, page, seen, quiet>>
        /\ status' = status \/ (status = "reading" /\ status' = "ok")
    BY <1>4 DEF Render, vars, outsideVars, requestVars
  <2>2. WorldFine' /\ VisitFine' /\ SeenFine' /\ NotFoundFine'
    BY <2>1 DEF Fine, WorldFine, VisitFine, SeenFine, NotFoundFine
  <2>3. PageFine'
    BY <2>1 DEF Fine, PageFine, ArgsOf
  <2> QED
    BY <1>1, <2>2, <2>3 DEF Fine
<1>5. CASE Read
  <2>1. ReadEnds
    BY <1>5, ReadFine
  <2>2. /\ UNCHANGED <<head, stored, runs, moves, req, seen, quiet>> /\ status = "reading"
        /\ status' \in {"reading", "not found", "error"} /\ PageFine' /\ NotFoundFine'
    BY <2>1 DEF ReadEnds, outsideVars
  <2>3. WorldFine' /\ VisitFine' /\ SeenFine'
    BY <2>2 DEF Fine, WorldFine, VisitFine, SeenFine
  <2> QED
    BY <1>1, <2>2, <2>3 DEF Fine
<1>6. CASE Outside
  BY <1>6, OutsideFine
<1> QED
  BY <1>2, <1>3, <1>4, <1>5, <1>6 DEF Next

\* What is in a page is of its kind and of a moment of the request, and what
\* is in the world is what pushes and handlers can leave there.
THEOREM PageInvariance == Spec => []Fine
BY InitFine, NextFine, PTL DEF Spec

\* Types; a page has no parts but those of its kind, and a visitor who sends no
\* name is never shown a run.
THEOREM TypesHold == Spec => []TypeOK
<1>1. ASSUME Fine PROVE TypeOK
  <2>1. DOMAIN page \subseteq ToSet(Parts) \cup {"tried", "changes"}
    <3>1. DOMAIN page \subseteq May(req.kind, req.visitor)
      BY <1>1 DEF Fine, PageFine
    <3>2. CASE req.kind = "tree"
      <4>1. TreeFine(seen, req.arg, page)
        BY <1>1, <3>2 DEF Fine, PageFine
      <4>2. CASE "entries" \in DOMAIN page /\ page.entries = None
        <5>1. Parts = <<"head", "entries", "fileHead", "text", "mode", "last", "size", "raw">>
          BY <3>2, <4>2 DEF Parts, TreeParts
        <5>2. ToSet(Parts) = {"head", "entries"} \cup FileParts
          BY <5>1 DEF ToSet, FileParts
        <5>3. "recent" \notin DOMAIN page
          BY <4>1, <4>2 DEF TreeFine
        <5> QED
          BY <3>1, <3>2, <5>2, <5>3 DEF May
      <4>3. CASE ~("entries" \in DOMAIN page /\ page.entries = None)
        <5>1. Parts = <<"head", "entries", "changes", "recent">>
          BY <3>2, <4>3 DEF Parts, TreeParts
        <5>2. ToSet(Parts) = {"head", "entries", "changes", "recent"}
          BY <5>1 DEF ToSet
        <5>3. \A x \in FileParts : x \notin DOMAIN page
          BY <4>1, <4>3 DEF TreeFine
        <5> QED
          BY <3>1, <3>2, <5>2, <5>3 DEF May
      <4> QED
        BY <4>2, <4>3
    <3>3. CASE req.kind # "tree"
      <4>1. May(req.kind, req.visitor) \subseteq ToSet(Parts) \cup {"tried"}
        <5>1. CASE req.kind = "home"
          <6>1. CASE req.visitor # "anonymous"
            BY <5>1, <6>1 DEF May, Parts, HomeParts, Authenticated, ToSet
          <6>2. CASE req.visitor = "anonymous"
            BY <5>1, <6>2 DEF May, Parts, HomeParts, Authenticated, ToSet
          <6> QED
            BY <6>1, <6>2
        <5>2. CASE req.kind = "list"
          BY <5>2 DEF May, Parts, ToSet
        <5>3. CASE req.kind = "log"
          BY <5>3 DEF May, Parts, ToSet
        <5>4. CASE req.kind = "commit"
          BY <5>4 DEF May, Parts, ToSet
        <5>5. CASE req.kind = "runs"
          BY <5>5 DEF May, Parts, ToSet
        <5>6. CASE req.kind = "run"
          BY <5>6 DEF May, Parts, RunParts, ToSet
        <5>7. req.kind \in Kinds
          BY <1>1 DEF Fine, PageFine
        <5> QED
          BY <3>3, <5>1, <5>2, <5>3, <5>4, <5>5, <5>6, <5>7 DEF Kinds
      <4> QED
        BY <3>1, <4>1
    <3> QED
      BY <3>2, <3>3
  <2>2. DOMAIN page \cap {"runs", "run", "jobs", "sh"} # {} => req.visitor # "anonymous"
    <3> SUFFICES ASSUME NEW x \in DOMAIN page, x \in {"runs", "run", "jobs", "sh"},
                        req.visitor = "anonymous"
                 PROVE  FALSE
      OBVIOUS
    <3>1. x \in May(req.kind, req.visitor) /\ req.kind \in Kinds
      BY <1>1 DEF Fine, PageFine
    <3>2. req.kind \in Guarded
      BY <3>1 DEF May, Guarded, FileParts, Kinds
    <3>3. page = NoPage
      BY <1>1, <3>2 DEF Fine, VisitFine
    <3>4. DOMAIN page = {"tried"}
      BY <3>3 DEF NoPage
    <3> QED
      BY <3>4
  <2>3. head \in Commits \cup {None, Gone} /\ seen \in Seq(Commits \cup {None, Gone})
    BY <1>1 DEF Fine, WorldFine, SeenFine, Heads
  <2> QED
    BY <1>1, <2>1, <2>2, <2>3 DEF TypeOK, Fine, WorldFine, VisitFine, PageFine
<1> QED
  BY <1>1, PageInvariance, PTL

\* A page may mix what it read before and after a push, but a tree, a file and
\* the home page show nothing older than the head they name, which is read
\* first; the log page, where it is read last, shows no newer commit.  A path is
\* said not to be there only if it was no directory at some moment of the
\* request, and at some moment no file that could be shown.
THEOREM PartsTimely == Spec => []PartsAreTimely
<1>1. ASSUME Fine PROVE PartsAreTimely
  <2>1. \A kind, h : kind = req.kind => HeadShown(h) = HeadOf(kind, h)
    BY HeadIsHeadOf
  <2>2. status = "ok" => Complete
    BY <1>1 DEF Fine, IInv
  <2>3. req.arg \in Seq(Nat) \/ req.kind # "tree"
    BY <1>1, NamesAssumption DEF Fine, PageFine, ArgsOf
  <2>4. ASSUME status = "ok", req.kind = "tree", page.entries # None
        PROVE  /\ NotBefore(page.head, LAMBDA h : LsTree(h, req.arg), page.entries)
               /\ NotBefore(page.head, LAMBDA h : Recent(h, req.arg), page.recent)
               /\ \A i \in DOMAIN page.entries :
                    NotBefore(page.head,
                      LAMBDA h : EntryChange(h, Append(req.arg, page.entries[i].name)),
                      page.changes[i])
    <3>1. TreeFine(seen, req.arg, page)
      BY <1>1, <2>4 DEF Fine, PageFine
    <3>2. Parts = <<"head", "entries", "changes", "recent">>
      BY <2>4 DEF Parts, TreeParts
    <3>3. Has("entries") /\ Has("changes") /\ Has("recent")
      BY <2>2, <2>4, <3>2 DEF Complete
    <3>4. /\ "entries" \in DOMAIN page /\ "changes" \in DOMAIN page /\ "recent" \in DOMAIN page
          /\ Len(page.changes) = Len(page.entries)
      BY <3>3 DEF Has
    <3>5. /\ Since(seen, "tree", page.head, "entries", req.arg, page.entries)
          /\ Since(seen, "tree", page.head, "recent", req.arg, page.recent)
          /\ \A i \in 1..Len(page.changes) :
               Since(seen, "tree", page.head, "change",
                     Append(req.arg, page.entries[i].name), page.changes[i])
      BY <2>4, <3>1, <3>4 DEF TreeFine
    <3>6. \E h : LsTree(h, req.arg) = page.entries
      BY <3>5 DEF Since, Value
    <3>7. DOMAIN page.entries = 1..Len(page.changes)
      BY <2>3, <2>4, <3>4, <3>6, ListingIsSome
    <3>8. NotBefore(page.head, LAMBDA h : LsTree(h, req.arg), page.entries)
      BY <2>1, <2>4, <3>5 DEF NotBefore, Since, Value
    <3>9. NotBefore(page.head, LAMBDA h : Recent(h, req.arg), page.recent)
      BY <2>1, <2>4, <3>5 DEF NotBefore, Since, Value
    <3>10. ASSUME NEW i \in DOMAIN page.entries
           PROVE  NotBefore(page.head,
                      LAMBDA h : EntryChange(h, Append(req.arg, page.entries[i].name)),
                      page.changes[i])
      <4>1. Since(seen, "tree", page.head, "change",
                     Append(req.arg, page.entries[i].name), page.changes[i])
        BY <3>5, <3>7
      <4> QED
        BY <2>1, <2>4, <4>1 DEF NotBefore, Since, Value
    <3> QED
      BY <3>8, <3>9, <3>10
  <2>5. ASSUME status = "ok", req.kind = "tree", page.entries = None
        PROVE  /\ NotBefore(page.fileHead, LAMBDA h : Show(h, req.arg), page.text)
               /\ NotBefore(page.fileHead, LAMBDA h : LastChange(h, req.arg), page.last)
               /\ NotBefore(page.fileHead, LAMBDA h : Show(h, req.arg), page.raw)
    <3>1. TreeFine(seen, req.arg, page)
      BY <1>1, <2>5 DEF Fine, PageFine
    <3>2. "entries" \in DOMAIN page
      <4>1. Has("entries")
        BY <2>2, <2>5 DEF Complete, Parts, TreeParts
      <4> QED
        BY <4>1 DEF Has
    <3>3. Parts = <<"head", "entries", "fileHead", "text", "mode", "last", "size", "raw">>
      BY <2>5, <3>2 DEF Parts, TreeParts
    <3>4. Has("text") /\ Has("last") /\ Has("raw")
      BY <2>2, <2>5, <3>3 DEF Complete
    <3>5. /\ Since(seen, "tree", page.fileHead, "text", req.arg, page.text)
          /\ Since(seen, "tree", page.fileHead, "last", req.arg, page.last)
          /\ Since(seen, "tree", page.fileHead, "text", req.arg, page.raw)
      BY <3>1, <3>4 DEF TreeFine, Has
    <3> QED
      BY <2>1, <2>5, <3>5 DEF NotBefore, Since, Value
  <2>6. ASSUME status = "ok", req.kind = "home"
        PROVE  NotBefore(page.head, LAMBDA h : Recent(h, <<>>), page.recent)
    <3>1. HomeFine(seen, page)
      BY <1>1, <2>6 DEF Fine, PageFine
    <3>2. Has("recent")
      BY <2>2, <2>6 DEF Complete, Parts, HomeParts
    <3>3. Since(seen, "home", page.head, "recent", <<>>, page.recent)
      BY <3>1, <3>2 DEF HomeFine, Has
    <3> QED
      BY <2>1, <2>6, <3>3 DEF NotBefore, Since, Value
  <2>7. ASSUME status = "ok", req.kind = "log"
        PROVE  \E i \in DOMAIN seen : \E k \in i..Len(seen) :
                 Recent(seen[i], <<>>) = page.recent /\ HeadShown(seen[k]) = page.head
    <3>1. LogFine(seen, page)
      BY <1>1, <2>7 DEF Fine, PageFine
    <3>2. Parts = <<"recent", "head">>
      BY <2>7 DEF Parts
    <3>3. Has("head")
      BY <2>2, <2>7, <3>2 DEF Complete
    <3>4. LogBefore(seen, page.recent, page.head)
      BY <3>1, <3>3 DEF LogFine, Has
    <3> QED
      BY <2>1, <2>7, <3>4 DEF LogBefore
  <2>8. status = "not found" /\ req.kind = "tree" =>
          /\ \E i \in DOMAIN seen : ~(seen[i] \in Commits /\ IsDir(seen[i], req.arg))
          /\ \E i \in DOMAIN seen : ~Showable(seen[i], req.arg) \/ ~Datable(seen[i], req.arg)
    <3> SUFFICES ASSUME status = "not found", req.kind = "tree"
                 PROVE  /\ \E i \in DOMAIN seen :
                             ~(seen[i] \in Commits /\ IsDir(seen[i], req.arg))
                        /\ \E i \in DOMAIN seen : Unshown(seen[i], req.arg)
      BY DEF Unshown
    <3>1. Missed(seen, req.arg)
      BY <1>1 DEF Fine, NotFoundFine
    <3> QED
      BY <2>3, <3>1, ListingIsSome DEF Missed
  <2> QED
    BY <2>4, <2>5, <2>6, <2>7, <2>8 DEF PartsAreTimely
<1> QED
  BY <1>1, PageInvariance, PTL

-----------------------------------------------------------------------------
(* A page beside which nothing happens *)

\* The commit of a commit page.
Meant == Denoted(IF Denoted(req.arg) = None THEN req.arg ELSE Denoted(req.arg))

\* What a part of the page shows of the world as it is.
Now(part) ==
  CASE part \in {"head", "fileHead"} -> HeadShown(head)
    [] part = "entries" -> LsTree(head, req.arg)
    [] part = "recent" -> Recent(head, IF req.kind = "tree" THEN req.arg ELSE <<>>)
    [] part \in {"text", "raw"} -> Show(head, req.arg)
    [] part = "last" -> LastChange(head, req.arg)
    [] part = "mirrors" ->
         IF HeadShown(head) = None \/ HeadShown(head) \notin stored THEN {}
         ELSE MirrorsOf[HeadShown(head)]
    [] part = "id" -> IF Denoted(req.arg) = None THEN req.arg ELSE Denoted(req.arg)
    [] part = "info" -> Said(Meant, {"subject", "author", "body"})
    [] part = "patch" -> Said(Meant, {"patch"})
    [] part = "runs" -> Newest(IF req.kind = "home" THEN HomeRows ELSE ListRows)
    [] part = "jobs" -> RowsOf(req.arg, "jobs")
    [] part = "sh" -> RowsOf(req.arg, "sh")
    [] OTHER -> head # Gone

Known == {"head", "fileHead", "entries", "recent", "text", "raw", "last", "mirrors", "id",
          "info", "patch", "runs", "jobs", "sh", "listed"}

\* The READMEs that were tried are not there.
ReadmeFine ==
  /\ "tried" \in DOMAIN page
  /\ page.tried \in Nat /\ page.tried < Len(Candidates)
  /\ \A k \in 1..page.tried : Show(head, <<Candidates[k]>>) = None
  /\ "readme" \in DOMAIN page =>
       /\ page.readme = Show(head, <<Candidates[page.tried + 1]>>)
       /\ page.readme = None => page.tried + 1 = Len(Candidates)

QuietFine ==
  quiet =>
    /\ status # "idle" => seen = <<head>>
    /\ status \in {"reading", "ok"} /\ req.kind # "list" => head # Gone
    /\ \A x \in Known : x \in DOMAIN page => page[x] = Now(x)
    /\ \A x \in {"text", "raw", "last", "info"} : x \in DOMAIN page => page[x] # None
    /\ "run" \in DOMAIN page => req.arg \in DOMAIN runs
    /\ "changes" \in DOMAIN page =>
         \A i \in 1..Len(page.changes) :
           page.changes[i] = EntryChange(head, EntryPath(page.entries[i].name))
    /\ ReadmeFine

LEMMA NowStays ==
  ASSUME UNCHANGED <<head, stored, runs, req>>
  PROVE  \A x : Now(x)' = Now(x)
BY DEF Now, Meant, HeadShown, Denoted, Newest, RowsOf, StateOf

\* The page pg2 is page with one part more, or other.
PartFine(part, v) ==
  /\ part \in Known => v = Now(part)
  /\ part \in {"text", "raw", "last", "info"} => v # None
  /\ part = "run" => req.arg \in DOMAIN runs
  /\ part = "readme" =>
       /\ v = Show(head, <<Candidates[page.tried + 1]>>)
       /\ v = None => page.tried + 1 = Len(Candidates)

LEMMA GotQuiet ==
  ASSUME Fine, QuietFine, NEW part, NEW v, Reads(part), Got(part, v),
         part # "entries", part # "changes", quiet => PartFine(part, v)
  PROVE  QuietFine'
<1> SUFFICES ASSUME quiet' PROVE QuietFine'
  BY DEF QuietFine
<1>1. /\ UNCHANGED <<head, stored, runs, req, seen, quiet>> /\ status = "reading"
      /\ part # "tried" /\ part \notin DOMAIN page
  BY NextPart DEF Fine, PageFine, outsideVars
<1>2. page' = With(part, v) /\ status' = "reading"
  BY <1>1 DEF Got
<1>3. /\ part \in DOMAIN page' /\ page'[part] = v
      /\ \A x : x # part => Same(x)
  BY <1>2, WithKeeps
<1>4. \A x : Now(x)' = Now(x)
  BY <1>1, NowStays
<1>5. quiet /\ PartFine(part, v)
  BY <1>1
<1>6. seen' = <<head'>> /\ (req'.kind # "list" => head' # Gone)
  BY <1>1, <1>5 DEF QuietFine
<1>7. \A x \in Known : x \in DOMAIN page' => page'[x] = Now(x)'
  BY <1>3, <1>4, <1>5 DEF QuietFine, PartFine, Same
<1>8. \A x \in {"text", "raw", "last", "info"} : x \in DOMAIN page' => page'[x] # None
  BY <1>3, <1>5 DEF QuietFine, PartFine, Same
<1>9. "run" \in DOMAIN page' => req'.arg \in DOMAIN runs'
  BY <1>1, <1>3, <1>5 DEF QuietFine, PartFine, Same
<1>10. "changes" \in DOMAIN page' =>
         \A i \in 1..Len(page'.changes) :
           page'.changes[i] = EntryChange(head', Append(req'.arg, page'.entries[i].name))
  <2> SUFFICES ASSUME "changes" \in DOMAIN page', NEW i \in 1..Len(page'.changes)
               PROVE  page'.changes[i] = EntryChange(head', Append(req'.arg, page'.entries[i].name))
    OBVIOUS
  <2>1. Same("changes") /\ Same("entries")
    BY <1>3
  <2>2. "changes" \in DOMAIN page /\ page'.changes = page.changes
    BY <2>1 DEF Same
  <2>3. "entries" \in DOMAIN page
    <3>1. "changes" \in May(req.kind, req.visitor) /\ req.kind \in Kinds
      BY <2>2 DEF Fine, PageFine
    <3>2. req.kind = "tree"
      BY <3>1 DEF May, FileParts, Kinds
    <3> QED
      BY <2>2, <3>2 DEF Fine, PageFine, TreeFine
  <2>4. page'.entries = page.entries
    BY <2>1, <2>3 DEF Same
  <2> QED
    BY <1>1, <1>5, <2>2, <2>4 DEF QuietFine, EntryPath
<1>11. ReadmeFine'
  <2>1. Same("tried")
    BY <1>1, <1>3
  <2>2. "tried" \in DOMAIN page' /\ page'.tried = page.tried
    BY <1>5, <2>1 DEF QuietFine, ReadmeFine, Same
  <2>3. "readme" \in DOMAIN page' =>
          /\ page'.readme = Show(head, <<Candidates[page.tried + 1]>>)
          /\ page'.readme = None => page.tried + 1 = Len(Candidates)
    BY <1>3, <1>5 DEF QuietFine, ReadmeFine, PartFine, Same
  <2> QED
    BY <1>1, <1>5, <2>2, <2>3 DEF QuietFine, ReadmeFine
<1> QED
  BY <1>1, <1>2, <1>6, <1>7, <1>8, <1>9, <1>10, <1>11 DEF QuietFine, EntryPath

\* Without a new part a page stays true.
LEMMA SameQuiet ==
  ASSUME QuietFine, UNCHANGED <<head, stored, runs, req, page, seen, quiet>>,
         status' = status \/ status \in {"reading", "ok"}, status' = "idle" => status = "idle",
         status' # "idle" => status # "idle"
  PROVE  QuietFine'
<1> SUFFICES ASSUME quiet' PROVE QuietFine'
  BY DEF QuietFine
<1>1. \A x : Now(x)' = Now(x)
  BY NowStays
<1>2. ReadmeFine'
  BY DEF QuietFine, ReadmeFine
<1>3. /\ \A x \in Known : x \in DOMAIN page' => page'[x] = Now(x)'
      /\ \A x \in {"text", "raw", "last", "info"} : x \in DOMAIN page' => page'[x] # None
      /\ "run" \in DOMAIN page' => req'.arg \in DOMAIN runs'
  BY <1>1 DEF QuietFine
<1>4. /\ status' # "idle" => seen' = <<head'>>
      /\ status' \in {"reading", "ok"} /\ req'.kind # "list" => head' # Gone
  BY DEF QuietFine
<1>5. "changes" \in DOMAIN page' =>
         \A i \in 1..Len(page'.changes) :
           page'.changes[i] = EntryChange(head', Append(req'.arg, page'.entries[i].name))
  BY DEF QuietFine, EntryPath
<1> QED
  BY <1>2, <1>3, <1>4, <1>5 DEF QuietFine, EntryPath

LEMMA ReadQuiet ==
  ASSUME Fine, QuietFine, Read PROVE QuietFine'
<1>0. /\ UNCHANGED <<head, stored, runs, req, seen, quiet>> /\ status = "reading"
      /\ status' \in {"reading", "not found", "error"}
  BY ReadFine DEF ReadEnds, outsideVars
<1>1. CASE ReadEntries
  <2> SUFFICES ASSUME quiet PROVE QuietFine'
    BY <1>0 DEF QuietFine
  <2>1. /\ DOMAIN page' = DOMAIN page \cup {"entries", "changes"}
        /\ page'["entries"] = LsTree(head, req.arg) /\ page'["changes"] = <<>>
        /\ \A x \in DOMAIN page \ {"entries", "changes"} : page'[x] = page[x]
        /\ status' = status
    BY <1>1 DEF ReadEntries
  <2>2. \A x : Now(x)' = Now(x)
    BY <1>0, NowStays
  <2>3. \A x \in Known : x \in DOMAIN page' => page'[x] = Now(x)'
    <3>1. Now("entries") = LsTree(head, req.arg) /\ "changes" \notin Known
      BY DEF Now, Known
    <3> QED
      BY <2>1, <2>2, <3>1 DEF QuietFine
  <2>4. ReadmeFine'
    BY <1>0, <2>1 DEF QuietFine, ReadmeFine
  <2>5. \A i : i \notin 1..Len(page'.changes)
    BY <2>1, EmptySeq
  <2>6. /\ \A x \in {"text", "raw", "last", "info"} : x \in DOMAIN page' => page'[x] # None
        /\ "run" \in DOMAIN page' => req'.arg \in DOMAIN runs'
    BY <1>0, <2>1 DEF QuietFine
  <2>7. /\ status' # "idle" => seen' = <<head'>>
        /\ status' \in {"reading", "ok"} /\ req'.kind # "list" => head' # Gone
    BY <1>0, <2>1 DEF QuietFine
  <2> QED
    BY <2>3, <2>4, <2>5, <2>6, <2>7 DEF QuietFine
<1>2. CASE ReadChange
  <2> SUFFICES ASSUME quiet PROVE QuietFine'
    BY <1>0 DEF QuietFine
  <2> DEFINE n == Len(page.changes)
             c == EntryChange(head, EntryPath(page.entries[n + 1].name))
  <2>1. Reads("changes") /\ page' = With("changes", Append(page.changes, c)) /\ status' = status
    BY <1>2 DEF ReadChange, Got
  <2>2. req.kind = "tree" /\ "entries" \in DOMAIN page
    BY <2>1, NextPart DEF Fine, PageFine
  <2>3. "changes" \in DOMAIN page /\ page.changes \in Seq(Commits \cup {None})
    BY <2>2 DEF Fine, PageFine, TreeFine
  <2>4. /\ page'["changes"] = Append(page.changes, c) /\ \A x : x # "changes" => Same(x)
    BY <2>1, WithKeeps
  <2>5. \A x : Now(x)' = Now(x)
    BY <1>0, NowStays
  <2>6. \A x \in Known \cup {"text", "raw", "last", "info", "run", "tried", "readme", "entries"} :
          Same(x)
    BY <2>4 DEF Known
  <2>7. \A x \in Known : x \in DOMAIN page' => page'[x] = Now(x)'
    BY <2>5, <2>6 DEF QuietFine, Same
  <2>8. Same("tried") /\ Same("readme") /\ Same("run") /\ Same("entries")
    BY <2>6
  <2>9. ReadmeFine'
    BY <1>0, <2>8 DEF QuietFine, ReadmeFine, Same
  <2>10. /\ \A x \in {"text", "raw", "last", "info"} : x \in DOMAIN page' => page'[x] # None
         /\ "run" \in DOMAIN page' => req'.arg \in DOMAIN runs'
    BY <1>0, <2>6 DEF QuietFine, Same
  <2>11. ASSUME NEW i \in 1..Len(page'.changes)
         PROVE  page'.changes[i] = EntryChange(head', Append(req'.arg, page'.entries[i].name))
    <3> DEFINE s == page.changes
               t == page'.changes
    <3>1. c \in Commits \cup {None}
      BY SaidIsCommit DEF EntryChange
    <3>2. s \in Seq(Commits \cup {None}) /\ t = Append(s, c) /\ n = Len(s)
      BY <2>3, <2>4
    <3>3. \A k \in 1..n : s[k] = EntryChange(head, EntryPath(page.entries[k].name))
      BY <2>3 DEF QuietFine
    <3>4. c = EntryChange(head, EntryPath(page.entries[n + 1].name))
      OBVIOUS
    <3> HIDE DEF c, n, s, t
    <3>5. n \in Nat /\ Len(t) = n + 1 /\ t[n + 1] = c /\ \A k \in 1..n : t[k] = s[k]
      BY <3>1, <3>2
    <3>6. i = n + 1 \/ i \in 1..n
      BY <3>5 DEF t
    <3>7. t[i] = EntryChange(head, EntryPath(page.entries[i].name))
      BY <3>3, <3>4, <3>5, <3>6
    <3>8. page'.entries = page.entries
      BY <2>2, <2>8 DEF Same
    <3> QED
      BY <1>0, <3>7, <3>8 DEF t, EntryPath
  <2>12. /\ status' # "idle" => seen' = <<head'>>
         /\ status' \in {"reading", "ok"} /\ req'.kind # "list" => head' # Gone
    BY <1>0, <2>1 DEF QuietFine
  <2> HIDE DEF c, n
  <2> QED
    BY <2>7, <2>9, <2>10, <2>11, <2>12 DEF QuietFine, EntryPath
<1>3. CASE ReadReadme
  <2> DEFINE text == Show(head, <<Candidates[page.tried + 1]>>)
  <2>1. Reads("readme")
    BY <1>3 DEF ReadReadme
  <2>2. CASE text = None /\ page.tried + 1 < Len(Candidates)
    <3> SUFFICES ASSUME quiet PROVE QuietFine'
      BY <1>0 DEF QuietFine
    <3>1. page' = [page EXCEPT !.tried = @ + 1] /\ status' = status
      BY <1>3, <2>2 DEF ReadReadme
    <3>2. "tried" \in DOMAIN page /\ page.tried \in Nat
      BY DEF QuietFine, ReadmeFine
    <3>3. /\ DOMAIN page' = DOMAIN page /\ page'["tried"] = page.tried + 1
          /\ \A x \in DOMAIN page : x # "tried" => page'[x] = page[x]
      BY <3>1, <3>2
    <3>4. "readme" \notin DOMAIN page
      BY <2>1, NextPart DEF Fine, PageFine
    <3>5. \A k \in 1..page'.tried : Show(head, <<Candidates[k]>>) = None
      <4> SUFFICES ASSUME NEW k \in 1..page'.tried PROVE Show(head, <<Candidates[k]>>) = None
        OBVIOUS
      <4>1. k \in 1..page.tried \/ k = page.tried + 1
        BY <3>2, <3>3
      <4>2. \A j \in 1..page.tried : Show(head, <<Candidates[j]>>) = None
        BY DEF QuietFine, ReadmeFine
      <4> QED
        BY <2>2, <4>1, <4>2
    <3>6. ReadmeFine'
      <4>1. page.tried + 1 \in Nat /\ page.tried + 1 < Len(Candidates)
        BY <2>2, <3>2
      <4>2. page'.tried \in Nat /\ page'.tried < Len(Candidates) /\ "tried" \in DOMAIN page'
        BY <3>2, <3>3, <4>1
      <4>3. head' = head /\ "readme" \notin DOMAIN page'
        BY <1>0, <3>3, <3>4
      <4> HIDE DEF text
      <4> QED
        BY <3>5, <4>2, <4>3 DEF ReadmeFine
    <3>7. \A x : Now(x)' = Now(x)
      BY <1>0, NowStays
    <3>8. \A x \in Known : x \in DOMAIN page' => page'[x] = Now(x)'
      BY <3>3, <3>7 DEF QuietFine, Known
    <3>9. /\ \A x \in {"text", "raw", "last", "info"} : x \in DOMAIN page' => page'[x] # None
          /\ "run" \in DOMAIN page' => req'.arg \in DOMAIN runs'
      BY <1>0, <3>3 DEF QuietFine
    <3>10. /\ status' # "idle" => seen' = <<head'>>
           /\ status' \in {"reading", "ok"} /\ req'.kind # "list" => head' # Gone
      BY <1>0, <3>1 DEF QuietFine
    <3>11. "changes" \notin DOMAIN page'
      <4>1. req.kind = "home"
        BY <2>1, NextPart DEF Fine, PageFine
      <4>2. "changes" \notin May(req.kind, req.visitor)
        BY <4>1 DEF May
      <4> QED
        BY <3>3, <4>2 DEF Fine, PageFine
    <3> QED
      BY <3>6, <3>8, <3>9, <3>10, <3>11 DEF QuietFine
  <2>3. CASE ~(text = None /\ page.tried + 1 < Len(Candidates))
    <3>1. Got("readme", text)
      BY <1>3, <2>3 DEF ReadReadme
    <3>2. quiet => PartFine("readme", text)
      <4>1. quiet => page.tried \in Nat /\ page.tried < Len(Candidates)
        BY DEF QuietFine, ReadmeFine
      <4>2. Len(Candidates) \in Nat
        BY RowsAssumption
      <4> HIDE DEF text
      <4>3. quiet /\ text = None => page.tried + 1 = Len(Candidates)
        BY <2>3, <4>1, <4>2
      <4> QED
        BY <4>3 DEF PartFine, Known, text
    <3> HIDE DEF text
    <3> QED
      BY <2>1, <3>1, <3>2, GotQuiet
  <2> QED
    BY <2>2, <2>3
<1>4. CASE ReadHead \/ ReadFileHead \/ ReadRecent \/ ReadRuns \/ ReadJobs \/ ReadSh \/ ReadListed
            \/ ReadId
  <2>1. \E part \in {"head", "fileHead", "recent", "runs", "jobs", "sh", "listed", "id"} :
          Reads(part) /\ Got(part, Now(part))
    BY <1>4 DEF ReadHead, ReadFileHead, ReadRecent, ReadRuns, ReadJobs, ReadSh, ReadListed,
       ReadId, Now
  <2> QED
    BY <2>1, GotQuiet DEF PartFine
<1>5. CASE ReadMode \/ ReadSize \/ ReadSubject
  <2>1. \E part \in {"mode", "size", "subject"} : \E v : Reads(part) /\ Got(part, v)
    BY <1>5 DEF ReadMode, ReadSize, ReadSubject
  <2> QED
    BY <2>1, GotQuiet DEF PartFine, Known
<1>6. ASSUME NEW part \in {"text", "raw", "last", "info", "run"}, NEW v, Reads(part),
             GotOr404(part, v),
             quiet /\ part # "run" => v = Now(part),
             part = "run" /\ v # None => req.arg \in DOMAIN runs
      PROVE  QuietFine'
  <2>1. CASE v # None
    <3>1. Got(part, v)
      BY <1>6, <2>1 DEF GotOr404
    <3>2. part # "run" => part \in Known
      BY DEF Known
    <3>3. quiet => PartFine(part, v)
      BY <1>6, <2>1, <3>2 DEF PartFine, Known
    <3> QED
      BY <1>6, <3>1, <3>3, GotQuiet
  <2>2. CASE v = None
    <3>1. UNCHANGED page /\ status' = "not found"
      BY <1>6, <2>2 DEF GotOr404
    <3> QED
      BY <1>0, <3>1, SameQuiet
  <2> QED
    BY <2>1, <2>2
<1>7. CASE ReadText \/ ReadRaw \/ ReadLast
  <2>1. Now("text") = Show(head, req.arg) /\ Now("raw") = Show(head, req.arg)
        /\ Now("last") = LastChange(head, req.arg)
    BY DEF Now
  <2> QED
    BY <1>6, <1>7, <2>1 DEF ReadText, ReadRaw, ReadLast
<1>8. CASE ReadRun
  <2> DEFINE shown == IF req.arg \in DOMAIN runs
                        THEN [outcome |-> runs[req.arg].outcome,
                              state |-> StateOf(runs[req.arg])]
                        ELSE None
  <2>1. Reads("run") /\ GotOr404("run", shown)
    BY <1>8 DEF ReadRun
  <2>2. shown # None => req.arg \in DOMAIN runs
    OBVIOUS
  <2> HIDE DEF shown
  <2> QED
    BY <1>6, <2>1, <2>2
<1>9. CASE ReadInfo \/ ReadPatch
  <2>1. Reads("info") \/ Reads("patch")
    BY <1>9 DEF ReadInfo, ReadPatch
  <2>2. req.kind = "commit"
    <3>1. "info" \in May(req.kind, req.visitor) \/ "patch" \in May(req.kind, req.visitor)
      BY <2>1, NextPart DEF Fine, PageFine
    <3> QED
      BY <3>1 DEF May, FileParts, Fine, PageFine, Kinds
  <2>3. "id" \in DOMAIN page
    BY <2>1, <2>2, Order
  <2>4. quiet => /\ Said(Denoted(page.id), {"subject", "author", "body"}) = Now("info")
                 /\ Said(Denoted(page.id), {"patch"}) = Now("patch")
    <3>1. quiet => page["id"] = Now("id")
      BY <2>3 DEF QuietFine, Known
    <3>2. /\ Now("id") = IF Denoted(req.arg) = None THEN req.arg ELSE Denoted(req.arg)
          /\ Now("info") = Said(Meant, {"subject", "author", "body"})
          /\ Now("patch") = Said(Meant, {"patch"})
      BY DEF Now
    <3>3. quiet => Denoted(page.id) = Meant
      BY <3>1, <3>2 DEF Meant
    <3> QED
      BY <3>2, <3>3
  <2>5. CASE ReadInfo
    BY <1>6, <2>4, <2>5 DEF ReadInfo
  <2>6. CASE ReadPatch
    <3>1. Reads("patch") /\ Got("patch", Patched)
      BY <2>6 DEF ReadPatch
    <3>2. quiet => PartFine("patch", Patched)
      BY <2>4 DEF PartFine, Known, Patched
    <3> QED
      BY <3>1, <3>2, GotQuiet
  <2> QED
    BY <1>9, <2>5, <2>6
<1>10. CASE ReadMirrors
  <2>1. Reads("mirrors") /\ Got("mirrors", Configured)
    BY <1>10 DEF ReadMirrors
  <2>2. req.kind = "home"
    <3>1. "mirrors" \in May(req.kind, req.visitor)
      BY <2>1, NextPart DEF Fine, PageFine
    <3> QED
      BY <3>1 DEF May, FileParts, Fine, PageFine, Kinds
  <2>3. "head" \in DOMAIN page
    BY <2>1, <2>2, Order
  <2>4. quiet => page["head"] = Now("head")
    BY <2>3 DEF QuietFine, Known
  <2>5. Now("head") = HeadShown(head)
    BY DEF Now
  <2>6. quiet => Configured = Now("mirrors")
    <3>1. Now("mirrors") = IF HeadShown(head) = None \/ HeadShown(head) \notin stored THEN {}
                           ELSE MirrorsOf[HeadShown(head)]
      BY DEF Now
    <3> QED
      BY <2>4, <2>5, <3>1 DEF Configured
  <2>7. quiet => PartFine("mirrors", Configured)
    BY <2>6 DEF PartFine, Known
  <2> QED
    BY <2>1, <2>7, GotQuiet
<1>11. CASE QueryFails
  <2>1. UNCHANGED page /\ status' = "error"
    BY <1>11 DEF QueryFails
  <2> QED
    BY <1>0, <2>1, SameQuiet
<1> QED
  BY <1>1, <1>2, <1>3, <1>4, <1>5, <1>7, <1>8, <1>9, <1>10, <1>11 DEF Read

LEMMA QuietInit == Init => QuietFine
<1> SUFFICES ASSUME Init PROVE QuietFine
  OBVIOUS
<1>1. status = "idle" /\ page = NoPage
  BY DEF Init
<1>2. DOMAIN page = {"tried"} /\ page.tried = 0
  BY <1>1 DEF NoPage
<1>3. 0 < Len(Candidates)
  BY RowsAssumption, EmptySeq
<1>4. ReadmeFine
  BY <1>2, <1>3 DEF ReadmeFine
<1> QED
  BY <1>1, <1>2, <1>4 DEF QuietFine, Known

LEMMA QuietNext == Fine /\ QuietFine /\ [Next]_vars => QuietFine'
<1> SUFFICES ASSUME Fine, QuietFine, [Next]_vars PROVE QuietFine'
  OBVIOUS
<1>1. CASE Outside
  <2>1. quiet' = FALSE
    BY <1>1, OutsideWorld DEF Fine
  <2> QED
    BY <2>1 DEF QuietFine
<1>2. ASSUME page' = NoPage, status' # "idle" => seen' = <<head'>>,
             status' \in {"reading", "ok"} /\ req'.kind # "list" => head' # Gone
      PROVE  QuietFine'
  <2>1. DOMAIN page' = {"tried"} /\ page'.tried = 0
    BY <1>2 DEF NoPage
  <2>2. 0 < Len(Candidates)
    BY RowsAssumption, EmptySeq
  <2>3. ReadmeFine'
    BY <2>1, <2>2 DEF ReadmeFine
  <2> QED
    BY <1>2, <2>1, <2>3 DEF QuietFine, Known
<1>3. ASSUME NEW kind \in Kinds, NEW arg \in ArgsOf(kind), NEW visitor \in Visitors,
             Open(kind, arg, visitor)
      PROVE  QuietFine'
  <2>1. /\ page' = NoPage /\ seen' = <<head>> /\ head' = head
        /\ req'.kind = kind
        /\ status' = CASE kind \in Guarded /\ visitor # "user" -> "unauthorized"
                       [] ~(kind \in Guarded /\ visitor # "user")
                            /\ kind # "list" /\ head = Gone -> "not found"
                       [] OTHER -> "reading"
    BY <1>3 DEF Open, outsideVars
  <2>2. status' \in {"reading", "ok"} => kind = "list" \/ head # Gone
    BY <2>1
  <2> QED
    BY <1>2, <2>1, <2>2
<1>4. CASE Read
  BY <1>4, ReadQuiet
<1>5. CASE Close
  BY <1>2, <1>5 DEF Close
<1>6. CASE Render \/ UNCHANGED vars
  <2>1. /\ UNCHANGED <<head, stored, runs, req, page, seen, quiet>>
        /\ status' = status \/ (status = "reading" /\ status' = "ok")
    BY <1>6 DEF Render, vars, outsideVars, requestVars
  <2>2. QuietFine /\ (status = "ok" \/ status' = "ok" => status = "reading" \/ status = "ok")
    BY <2>1
  <2>3. CASE status' = status
    <3>1. status' = "idle" <=> status = "idle"
      BY <2>3
    <3> QED
      BY <2>1, <2>3, <3>1, SameQuiet
  <2>4. CASE status = "reading" /\ status' = "ok"
    BY <2>1, <2>4, SameQuiet
  <2> QED
    BY <2>1, <2>3, <2>4
<1> QED
  BY <1>1, <1>3, <1>4, <1>5, <1>6 DEF Next

-----------------------------------------------------------------------------
(* What is true of a repository is what its pages show *)

LEMMA DirShown ==
  ASSUME NEW h, NEW p \in Seq(Nat), LsTree(h, p) # None
  PROVE  /\ h \in Commits /\ IsDir(h, p) /\ TrueListing(h, p, LsTree(h, p))
         /\ \A i \in DOMAIN LsTree(h, p) :
              LET q == Append(p, LsTree(h, p)[i].name)
              IN  /\ \E n \in Names(h, p) : LsTree(h, p)[i].name = PrintedName(n)
                  /\ TrueChange(EntryChange(h, q), h, q)
<1> DEFINE s == LsTree(h, p)
<1>1. h \in Commits /\ IsDir(h, p)
  BY ListingIsSome
<1>2. /\ s \in Seq(EntryRecords)
      /\ {e.name : e \in ToSet(s)} = {PrintedName(n) : n \in Names(h, p)}
      /\ \A i, k \in DOMAIN s : i < k => Precedes(s[i], s[k])
  BY <1>1, Listing
<1> HIDE DEF s
<1>3. TrueListing(h, p, s)
  <2>1. {PrintedName(n) : n \in Names(h, p)} =
          {PrintedName(q[Len(p) + 1]) : q \in {x \in DOMAIN Tree[h] : IsStrictPrefix(p, x)}}
    BY DEF Names
  <2> QED
    BY <1>2, <2>1 DEF TrueListing, Precedes
<1>4. ASSUME NEW i \in DOMAIN s
      PROVE  LET q == Append(p, s[i].name)
             IN  /\ \E n \in Names(h, p) : s[i].name = PrintedName(n)
                 /\ TrueChange(EntryChange(h, q), h, q)
  <2> DEFINE m == s[i].name
             q == Append(p, m)
  <2>1. s[i] \in ToSet(s)
    BY DEF ToSet
  <2>2. PICK n \in Names(h, p) : m = PrintedName(n)
    BY <1>2, <2>1
  <2>3. n \in Nat /\ m \in Nat
    BY <1>1, <2>2, NamesBelow, PrintedApart
  <2> HIDE DEF m
  <2>4. q \in Seq(Nat) /\ q # <<>> /\ Last(q) = m
    <3>1. q \in Seq(Nat) /\ Len(q) = Len(p) + 1 /\ Len(p) \in Nat /\ q[Len(p) + 1] = m
      BY <2>3
    <3> HIDE DEF q
    <3>2. Len(q) # 0
      BY <3>1
    <3> QED
      BY <3>1, <3>2 DEF Last
  <2>5. CASE n \in DOMAIN Printed
    <3>1. Last(q) \in Quotes
      BY <2>2, <2>4, <2>5 DEF Quotes, PrintedName
    <3> QED
      BY <2>2, <3>1 DEF TrueChange, m
  <2>6. CASE n \notin DOMAIN Printed
    <3>1. m = n
      BY <2>2, <2>6 DEF PrintedName
    <3>2. \E x \in DOMAIN Tree[h] : IsPrefix(q, x)
      BY <1>1, <2>2, <3>1, NamesBelow
    <3> HIDE DEF q
    <3>3. TrueChange(EntryChange(h, q), h, q)
      <4>1. CASE q \in DOMAIN Pathspec
        BY <4>1 DEF TrueChange
      <4>2. CASE q \notin DOMAIN Pathspec
        <5> DEFINE c == EntryChange(h, q)
        <5>1. c = Said(Changed(h, q), {"subject"})
          BY DEF EntryChange
        <5> HIDE DEF c
        <5>2. /\ c # None => ChangeIs(c, h, q, {"subject"})
              /\ c = None => \E d \in Commits :
                   UnchangedSince(d, h, q) /\ Garbled[d] \cap {"subject"} # {}
          BY <1>1, <2>4, <3>2, <4>2, <5>1, SaidLast
        <5> QED
          BY <5>2 DEF TrueChange, c
      <4> QED
        BY <4>1, <4>2
    <3> QED
      BY <2>2, <3>3 DEF q, m
  <2> QED
    BY <2>5, <2>6
<1> QED
  BY <1>1, <1>3, <1>4 DEF s

LEMMA FileShown ==
  ASSUME NEW h, NEW p \in Seq(Nat), LsTree(h, p) = None, Show(h, p) # None,
         LastChange(h, p) # None
  PROVE  /\ h \in Commits /\ p \in DOMAIN Tree[h] /\ Show(h, p) = Tree[h][p]
         /\ Tree[h][p] \notin {Blank, Module, NotUtf8}
         /\ LastChange(h, p) \in ToSet(Line[h])
         /\ p \in DOMAIN Pathspec \/ ChangeIs(LastChange(h, p), h, p, {"subject", "author"})
<1>1. h \in Commits
  BY DEF Show
<1>2. p # <<>> /\ ~IsDir(h, p)
  BY <1>1, ListingIsSome DEF LastChange, Changed, Said
<1>3. p \in DOMAIN Tree[h] /\ Tree[h][p] \notin {Blank, Module, NotUtf8}
      /\ Show(h, p) = Tree[h][p]
  BY <1>1, <1>2 DEF Show
<1>4. LastChange(h, p) \in ToSet(Line[h])
  <2>1. Changed(h, p) # None /\ LastChange(h, p) = Changed(h, p)
    BY DEF LastChange, Said
  <2>2. \E n \in Touching(h, p) : Changed(h, p) = Line[h][n]
    BY <1>1, <1>2, <2>1, ChangedIsFirst
  <2>3. DOMAIN Line[h] = 1..Len(Line[h])
    BY <1>1, Lines
  <2> QED
    BY <2>1, <2>2, <2>3 DEF Touching, ToSet
<1>5. p \notin DOMAIN Pathspec => ChangeIs(LastChange(h, p), h, p, {"subject", "author"})
  BY <1>1, <1>2, SaidLast DEF LastChange
<1> QED
  BY <1>1, <1>3, <1>4, <1>5

\* git shows a path below the root if, and only if, something is there.
LEMMA ShownIsShowable ==
  ASSUME NEW h, NEW p \in Seq(Nat), p # <<>>
  PROVE  Show(h, p) = None <=> ~Showable(h, p)
<1>1. Show(h, p) = None => ~Showable(h, p)
  BY NotShown
<1>2. ASSUME ~Showable(h, p), h \in Commits PROVE Show(h, p) = None
  <2>1. ~IsDir(h, p)
    BY <1>2 DEF IsDir, Showable
  <2>2. p \in DOMAIN Tree[h] => Tree[h][p] \in {Blank, Module, NotUtf8}
    BY <1>2 DEF Showable
  <2> QED
    BY <2>1, <2>2 DEF Show
<1>3. h \notin Commits => Show(h, p) = None
  BY DEF Show
<1> QED
  BY <1>1, <1>2, <1>3

\* A log is the beginning of the line, or is not shown; and of an unborn HEAD
\* there is none.
LEMMA WholeLog ==
  ASSUME NEW h
  PROVE  TrueLog(h, Recent(h, <<>>))
<1>1. CASE h \in Commits
  BY <1>1, Logged, RecentLog DEF TrueLog
<1>2. CASE h \notin Commits
  BY <1>2, NothingLogged DEF TrueLog
<1> QED
  BY <1>1, <1>2

\* The beginnings of a path lead to what the path leads to.
LEMMA CrumbsLead ==
  ASSUME NEW h \in Commits, NEW p \in Seq(Nat), NEW n \in 0..Len(p),
         IsDir(h, p) \/ (p \in DOMAIN Tree[h] /\ Tree[h][p] \notin {Blank, Module, NotUtf8})
  PROVE  Showable(h, SubSeq(p, 1, n))
<1> DEFINE c == SubSeq(p, 1, n)
<1>1. /\ c \in Seq(Nat) /\ Len(c) = n /\ \A i \in 1..n : c[i] = p[i]
      /\ Len(p) \in Nat /\ n \in Nat /\ n <= Len(p)
  BY SubSeqProperties
<1>2. n = Len(p) => c = p
  BY <1>1
<1> HIDE DEF c
<1>3. CASE IsDir(h, p)
  <2>1. PICK q \in DOMAIN Tree[h] : IsStrictPrefix(p, q)
    BY <1>3 DEF IsDir
  <2>2. q \in Seq(Nat)
    BY <2>1, TreeAssumption
  <2>3. Len(p) < Len(q) /\ \A i \in 1..Len(p) : p[i] = q[i]
    BY <2>1, <2>2, PrefixOf
  <2>4. Len(q) \in Nat
    BY <2>2
  <2>5. Len(c) < Len(q) /\ \A i \in 1..Len(c) : c[i] = q[i]
    BY <1>1, <2>3, <2>4
  <2>6. IsStrictPrefix(c, q)
    BY <1>1, <2>2, <2>5, PrefixOf
  <2> QED
    BY <2>6 DEF Showable, c
<1>4. CASE p \in DOMAIN Tree[h] /\ Tree[h][p] \notin {Blank, Module, NotUtf8} /\ n < Len(p)
  <2>1. IsStrictPrefix(c, p)
    BY <1>1, <1>4, PrefixOf
  <2> QED
    BY <1>4, <2>1 DEF Showable, c
<1>5. CASE p \in DOMAIN Tree[h] /\ Tree[h][p] \notin {Blank, Module, NotUtf8} /\ n = Len(p)
  BY <1>2, <1>5 DEF Showable, c
<1> QED
  BY <1>1, <1>3, <1>4, <1>5

\* The ids of a list of runs are those of rows.
LEMMA NewestAreRows ==
  ASSUME runs \in Seq(RunRows), NEW n \in Nat
  PROVE  /\ DOMAIN Newest(n) = 1..Len(Newest(n))
         /\ \A r \in ToSet(Newest(n)) : r.id \in DOMAIN runs
<1> DEFINE row == [i \in DOMAIN runs |-> [id |-> i, state |-> StateOf(runs[i])]]
           all == Reverse(row)
           m == IF Len(all) < n THEN Len(all) ELSE n
           X == {row[i] : i \in DOMAIN runs}
<1>1. DOMAIN runs = 1..Len(runs) /\ Len(runs) \in Nat
  OBVIOUS
<1>2. row \in Seq(X) /\ Len(row) = Len(runs)
  <2>1. \A i \in 1..Len(runs) : row[i] \in X
    BY <1>1
  <2> HIDE DEF X
  <2> QED
    BY <1>1, <2>1
<1>3. \A x \in X : x.id \in DOMAIN runs
  OBVIOUS
<1> HIDE DEF row, X
<1>4. all \in Seq(X)
  BY <1>2 DEF Reverse
<1> HIDE DEF all
<1>5. m \in Nat /\ m <= Len(all)
  BY <1>4
<1>6. SubSeq(all, 1, m) \in Seq(X) /\ Newest(n) = SubSeq(all, 1, m)
  <2>1. SubSeq(all, 1, m) \in Seq(X)
    BY <1>4, <1>5, SubSeqProperties
  <2> QED
    BY <2>1 DEF Newest, all, row
<1> HIDE DEF m
<1>7. \A i \in DOMAIN Newest(n) : Newest(n)[i] \in X
  BY <1>6
<1> QED
  BY <1>3, <1>6, <1>7 DEF ToSet

\* The parts of a page that is complete.
LEMMA AllParts ==
  ASSUME Complete, req.kind \in Kinds
  PROVE  /\ req.kind = "list" => "listed" \in DOMAIN page
         /\ req.kind = "home" => /\ {"head", "readme", "recent", "mirrors"} \subseteq DOMAIN page
                                 /\ Authenticated => "runs" \in DOMAIN page
         /\ req.kind = "tree" => {"head", "entries"} \subseteq DOMAIN page
         /\ req.kind = "tree" /\ page.entries # None =>
              /\ {"changes", "recent"} \subseteq DOMAIN page
              /\ Len(page.changes) = Len(page.entries)
         /\ req.kind = "tree" /\ page.entries = None =>
              {"fileHead", "text", "last", "raw"} \subseteq DOMAIN page
         /\ req.kind = "log" => "recent" \in DOMAIN page
         /\ req.kind = "commit" => {"id", "info", "patch"} \subseteq DOMAIN page
         /\ req.kind = "runs" => "runs" \in DOMAIN page
         /\ req.kind = "run" => {"run", "jobs", "sh"} \subseteq DOMAIN page
<1>1. CASE req.kind = "list"
  <2>1. Parts = <<"listed", "subject">>
    BY <1>1 DEF Parts
  <2>2. Has("listed")
    <3>1. Parts[1] = "listed" /\ 1 \in DOMAIN Parts
      BY <2>1
    <3> QED
      BY <3>1 DEF Complete
  <2> QED
    BY <1>1, <2>2 DEF Has
<1>2. CASE req.kind = "home"
  <2>1. Parts = IF Authenticated THEN <<"runs", "head", "readme", "recent", "mirrors">>
                ELSE <<"head", "readme", "recent", "mirrors">>
    BY <1>2 DEF Parts, HomeParts
  <2>2. CASE Authenticated
    <3>1. /\ Parts[1] = "runs" /\ Parts[2] = "head" /\ Parts[3] = "readme"
          /\ Parts[4] = "recent" /\ Parts[5] = "mirrors" /\ DOMAIN Parts = 1..5
      BY <2>1, <2>2
    <3>2. Has("runs") /\ Has("head") /\ Has("readme") /\ Has("recent") /\ Has("mirrors")
      BY <3>1 DEF Complete
    <3> QED
      BY <1>2, <3>2 DEF Has
  <2>3. CASE ~Authenticated
    <3>1. /\ Parts[1] = "head" /\ Parts[2] = "readme"
          /\ Parts[3] = "recent" /\ Parts[4] = "mirrors" /\ DOMAIN Parts = 1..4
      BY <2>1, <2>3
    <3>2. Has("head") /\ Has("readme") /\ Has("recent") /\ Has("mirrors")
      BY <3>1 DEF Complete
    <3> QED
      BY <1>2, <2>3, <3>2 DEF Has
  <2> QED
    BY <2>2, <2>3
<1>3. CASE req.kind = "tree"
  <2>1. Parts = IF "entries" \in DOMAIN page /\ page.entries = None
                  THEN <<"head", "entries", "fileHead", "text", "mode", "last", "size", "raw">>
                  ELSE <<"head", "entries", "changes", "recent">>
    BY <1>3 DEF Parts, TreeParts
  <2>2. CASE "entries" \in DOMAIN page /\ page.entries = None
    <3>1. /\ Parts[1] = "head" /\ Parts[2] = "entries" /\ Parts[3] = "fileHead"
          /\ Parts[4] = "text" /\ Parts[6] = "last" /\ Parts[8] = "raw" /\ DOMAIN Parts = 1..8
      BY <2>1, <2>2
    <3>2. Has("head") /\ Has("entries") /\ Has("fileHead") /\ Has("text") /\ Has("last")
          /\ Has("raw")
      BY <3>1 DEF Complete
    <3> QED
      BY <1>3, <2>2, <3>2 DEF Has
  <2>3. CASE ~("entries" \in DOMAIN page /\ page.entries = None)
    <3>1. /\ Parts[1] = "head" /\ Parts[2] = "entries" /\ Parts[3] = "changes"
          /\ Parts[4] = "recent" /\ DOMAIN Parts = 1..4
      BY <2>1, <2>3
    <3>2. Has("head") /\ Has("entries") /\ Has("changes") /\ Has("recent")
      BY <3>1 DEF Complete
    <3> QED
      BY <1>3, <2>3, <3>2 DEF Has
  <2> QED
    BY <2>2, <2>3
<1>4. CASE req.kind = "log"
  <2>1. Parts = <<"recent", "head">>
    BY <1>4 DEF Parts
  <2>2. Parts[1] = "recent" /\ 1 \in DOMAIN Parts
    BY <2>1
  <2>3. Has("recent")
    BY <2>2 DEF Complete
  <2> QED
    BY <1>4, <2>3 DEF Has
<1>5. CASE req.kind = "commit"
  <2>1. Parts = <<"id", "info", "patch">>
    BY <1>5 DEF Parts
  <2>2. Parts[1] = "id" /\ Parts[2] = "info" /\ Parts[3] = "patch" /\ DOMAIN Parts = 1..3
    BY <2>1
  <2>3. Has("id") /\ Has("info") /\ Has("patch")
    BY <2>2 DEF Complete
  <2> QED
    BY <1>5, <2>3 DEF Has
<1>6. CASE req.kind = "runs"
  <2>1. Parts = <<"runs">>
    BY <1>6 DEF Parts
  <2>2. Parts[1] = "runs" /\ 1 \in DOMAIN Parts
    BY <2>1
  <2>3. Has("runs")
    BY <2>2 DEF Complete
  <2> QED
    BY <1>6, <2>3 DEF Has
<1>7. CASE req.kind = "run"
  <2>1. Parts = <<"run", "jobs", "sh">>
    BY <1>7 DEF Parts, RunParts
  <2>2. Parts[1] = "run" /\ Parts[2] = "jobs" /\ Parts[3] = "sh" /\ DOMAIN Parts = 1..3
    BY <2>1
  <2>3. Has("run") /\ Has("jobs") /\ Has("sh")
    BY <2>2 DEF Complete
  <2> QED
    BY <1>7, <2>3 DEF Has
<1> QED
  BY <1>1, <1>2, <1>3, <1>4, <1>5, <1>6, <1>7 DEF Kinds

\* A page that is complete, beside which nothing happened.
Still ==
  /\ Fine /\ QuietFine /\ quiet /\ status = "ok"

LEMMA StillFacts ==
  ASSUME Still
  PROVE  /\ Complete /\ req.kind \in Kinds /\ req.visitor \in Visitors
         /\ head \in Heads /\ (req.kind # "list" => head # Gone)
         /\ head \in Commits => ToSet(Line[head]) \subseteq stored /\ head \in stored
         /\ stored \subseteq Commits
         /\ \A c \in stored : Parent[c] \in stored \cup {None}
         /\ runs \in Seq(RunRows)
         /\ \A x \in Known : x \in DOMAIN page => page[x] = Now(x)
         /\ \A x \in {"text", "raw", "last", "info"} : x \in DOMAIN page => page[x] # None
         /\ req.kind = "tree" => req.arg \in Seq(Nat)
         /\ ReadmeFine
<1>1. status = "ok" /\ quiet /\ IInv /\ WorldFine /\ PageFine /\ QuietFine
  BY DEF Still, Fine
<1>2. Complete
  BY <1>1 DEF IInv
<1>3. head \in Commits => ToSet(Line[head]) \subseteq stored /\ head \in stored
  <2> SUFFICES ASSUME head \in Commits
               PROVE  ToSet(Line[head]) \subseteq stored /\ head \in stored
    OBVIOUS
  <2>1. Line[head] \in Seq(Commits) /\ Len(Line[head]) >= 1 /\ Line[head][1] = head
    BY Lines
  <2>2. 1 \in DOMAIN Line[head]
    BY <2>1
  <2>3. head \in ToSet(Line[head])
    BY <2>1, <2>2 DEF ToSet
  <2> QED
    BY <1>1, <2>3 DEF WorldFine
<1>4. req.kind = "tree" => req.arg \in Seq(Nat)
  BY <1>1, NamesAssumption DEF PageFine, ArgsOf
<1>5. /\ req.kind # "list" => head # Gone
      /\ \A x \in Known : x \in DOMAIN page => page[x] = Now(x)
      /\ \A x \in {"text", "raw", "last", "info"} : x \in DOMAIN page => page[x] # None
      /\ ReadmeFine
  BY <1>1 DEF QuietFine
<1> QED
  BY <1>1, <1>2, <1>3, <1>4, <1>5 DEF PageFine, WorldFine

\* What a page shows that nothing disturbed, kind by kind.
LEMMA TreeIsTrue ==
  ASSUME Still, req.kind = "tree" PROVE TruePage
<1>0. /\ Complete /\ head \in Heads /\ head # Gone /\ req.arg \in Seq(Nat)
      /\ \A x \in Known : x \in DOMAIN page => page[x] = Now(x)
      /\ \A x \in {"text", "raw", "last"} : x \in DOMAIN page => page[x] # None
  BY StillFacts
<1>1. {"head", "entries"} \subseteq DOMAIN page
  BY <1>0, AllParts DEF Kinds
<1>2. page["entries"] = LsTree(head, req.arg) /\ page["head"] = HeadShown(head)
  BY <1>0, <1>1 DEF Known, Now
<1>3. CASE page.entries # None
  <2>1. /\ "changes" \in DOMAIN page /\ Len(page.changes) = Len(page.entries)
        /\ DOMAIN page.entries = 1..Len(page.entries)
    BY <1>0, <1>2, <1>3, AllParts, ListingIsSome DEF Kinds
  <2>2. /\ head \in Commits /\ TrueListing(head, req.arg, page.entries)
        /\ \A i \in DOMAIN page.entries :
             LET q == Append(req.arg, page.entries[i].name)
             IN  TrueChange(EntryChange(head, q), head, q)
    BY <1>0, <1>2, <1>3, DirShown
  <2>3. page.head = head
    BY <1>2, <2>2, HistoryAssumption DEF HeadShown
  <2>4. \A i \in DOMAIN page.entries :
          TrueChange(page.changes[i], head, Append(req.arg, page.entries[i].name))
    BY <2>1, <2>2 DEF Still, QuietFine, EntryPath
  <2> QED
    BY <1>3, <2>2, <2>3, <2>4 DEF TruePage
<1>4. CASE page.entries = None
  <2>1. {"fileHead", "text", "last", "raw"} \subseteq DOMAIN page
    BY <1>0, <1>4, AllParts DEF Kinds
  <2>2. /\ page["text"] = Show(head, req.arg) /\ page["raw"] = Show(head, req.arg)
        /\ page["last"] = LastChange(head, req.arg) /\ page["fileHead"] = HeadShown(head)
        /\ page["text"] # None /\ page["last"] # None
    BY <1>0, <2>1 DEF Known, Now
  <2>3. /\ head \in Commits /\ Show(head, req.arg) = Tree[head][req.arg]
        /\ req.arg \in DOMAIN Pathspec
             \/ ChangeIs(LastChange(head, req.arg), head, req.arg, {"subject", "author"})
    BY <1>0, <1>2, <1>4, <2>2, FileShown
  <2>4. page.fileHead = head
    BY <2>2, <2>3, HistoryAssumption DEF HeadShown
  <2> QED
    BY <1>4, <2>2, <2>3, <2>4 DEF TruePage
<1> QED
  BY <1>3, <1>4

LEMMA HomeIsTrue ==
  ASSUME Still, req.kind = "home" PROVE TruePage
<1>0. /\ Complete /\ head \in Heads /\ head # Gone /\ (head \in Commits => head \in stored)
      /\ \A x \in Known : x \in DOMAIN page => page[x] = Now(x)
      /\ ReadmeFine
  BY StillFacts
<1>1. {"head", "readme", "recent", "mirrors"} \subseteq DOMAIN page
  BY <1>0, AllParts DEF Kinds
<1>2. /\ page["head"] = HeadShown(head) /\ page["recent"] = Recent(head, <<>>)
      /\ page["mirrors"] = IF HeadShown(head) = None \/ HeadShown(head) \notin stored THEN {}
                           ELSE MirrorsOf[HeadShown(head)]
  BY <1>0, <1>1 DEF Known, Now
<1>3. head \in Commits =>
        \/ page.head = head /\ page.mirrors = MirrorsOf[head]
        \/ page.head = None /\ "subject" \in Garbled[head]
  <2> SUFFICES ASSUME head \in Commits
               PROVE  \/ page.head = head /\ page.mirrors = MirrorsOf[head]
                      \/ page.head = None /\ "subject" \in Garbled[head]
    OBVIOUS
  <2>1. head # None /\ HeadShown(head) = IF "subject" \in Garbled[head] THEN None ELSE head
    BY HistoryAssumption DEF HeadShown, Said
  <2> QED
    BY <1>0, <1>2, <2>1
<1>4. TrueLog(head, page.recent)
  BY <1>2, WholeLog
<1>5. ASSUME NEW i \in DOMAIN Candidates, Showable(head, <<Candidates[i]>>),
             \A k \in 1..i - 1 : ~Showable(head, <<Candidates[k]>>)
      PROVE  page.readme = Show(head, <<Candidates[i]>>)
  <2> DEFINE n == Len(Candidates)
             t == page.tried
             C(k) == Candidates[k]
  <2>1. /\ t \in Nat /\ t < n /\ \A k \in 1..t : Show(head, <<C(k)>>) = None
        /\ page.readme = Show(head, <<C(t + 1)>>) /\ (page.readme = None => t + 1 = n)
    BY <1>0, <1>1 DEF ReadmeFine
  <2>2. n \in Nat /\ DOMAIN Candidates = 1..n /\ \A k \in 1..n : <<C(k)>> \in Seq(Nat)
    BY RowsAssumption
  <2>3. \A k \in 1..n : Show(head, <<C(k)>>) = None <=> ~Showable(head, <<C(k)>>)
    <3> SUFFICES ASSUME NEW k \in 1..n
                 PROVE  Show(head, <<C(k)>>) = None <=> ~Showable(head, <<C(k)>>)
      OBVIOUS
    <3>1. <<C(k)>> \in Seq(Nat) /\ <<C(k)>> # <<>>
      BY <2>2
    <3> QED
      BY <3>1, ShownIsShowable
  <2> HIDE DEF n, t, C
  <2>4. i \in 1..n /\ Showable(head, <<C(i)>>) /\ \A k \in 1..i - 1 : ~Showable(head, <<C(k)>>)
    BY <1>5, <2>2 DEF C
  <2>5. i \notin 1..t
    BY <2>1, <2>3, <2>4
  <2>6. ~(t + 1 < i)
    <3> SUFFICES ASSUME t + 1 < i PROVE FALSE
      OBVIOUS
    <3>1. t + 1 \in 1..i - 1 /\ t + 1 \in 1..n
      BY <2>1, <2>2, <2>4
    <3>2. Show(head, <<C(t + 1)>>) = None
      BY <2>3, <2>4, <3>1
    <3> QED
      BY <2>1, <2>2, <2>4, <3>2
  <2>7. i = t + 1
    BY <2>1, <2>2, <2>4, <2>5, <2>6
  <2> QED
    BY <2>1, <2>7 DEF C
<1> QED
  BY <1>3, <1>4, <1>5 DEF TruePage

LEMMA OthersAreTrue ==
  ASSUME Still, req.kind \notin {"tree", "home"} PROVE TruePage
<1>0. /\ Complete /\ head \in Heads /\ (head \in Commits => head \in stored)
      /\ req.kind \in Kinds
      /\ \A x \in Known : x \in DOMAIN page => page[x] = Now(x)
      /\ \A x \in {"text", "raw", "last", "info"} : x \in DOMAIN page => page[x] # None
  BY StillFacts
<1>1. CASE req.kind = "log"
  <2>1. page["recent"] = Now("recent")
    BY <1>0, <1>1, AllParts DEF Known
  <2>2. page.recent = Recent(head, <<>>)
    BY <1>1, <2>1 DEF Now
  <2> QED
    BY <1>1, <2>2, WholeLog DEF TruePage
<1>2. CASE req.kind = "commit"
  <2>1. {"info", "patch"} \subseteq DOMAIN page
    BY <1>0, <1>2, AllParts
  <2>2. page["info"] = Now("info") /\ page["patch"] = Now("patch") /\ page["info"] # None
    BY <1>0, <2>1 DEF Known
  <2>3. page.info = Meant /\ page.patch = Said(Meant, {"patch"})
    BY <2>2 DEF Now, Said
  <2>4. \E x : page.info = Denoted(x)
    BY <2>3 DEF Meant
  <2>5. page.info \in stored
    BY <1>0, <2>2, <2>4 DEF Denoted
  <2>6. page.patch = IF "patch" \in Garbled[page.info] THEN None ELSE page.info
    BY <2>2, <2>3 DEF Said
  <2> QED
    BY <1>2, <2>5, <2>6 DEF TruePage
<1>3. CASE req.kind = "run"
  <2>1. {"run", "jobs", "sh"} \subseteq DOMAIN page
    BY <1>0, <1>3, AllParts
  <2>2. page["jobs"] = Now("jobs") /\ page["sh"] = Now("sh")
    BY <1>0, <2>1 DEF Known
  <2>3. req.arg \in DOMAIN runs
    BY <2>1 DEF Still, QuietFine
  <2>4. Now("jobs") = runs[req.arg].jobs /\ Now("sh") = runs[req.arg].sh
    BY <2>3 DEF Now, RowsOf
  <2> QED
    BY <1>3, <2>2, <2>4 DEF TruePage
<1>4. CASE req.kind \in {"list", "runs"}
  BY <1>4 DEF TruePage
<1> QED
  BY <1>0, <1>1, <1>2, <1>3, <1>4 DEF Kinds

\* Where the links of a page lead that nothing disturbed.
Leads(link) == HasPage(link) \/ Excepted(link)

LEMMA CommitsLead ==
  ASSUME NEW S, S \ {None} \subseteq stored
  PROVE  \A link \in CommitLinks(S) : Leads(link)
<1> SUFFICES ASSUME NEW c \in S \ {None} PROVE Leads(Link("commit", c))
  BY DEF CommitLinks
<1>1. c \in stored
  OBVIOUS
<1>2. Link("commit", c).kind = "commit" /\ Link("commit", c).arg = c
  BY DEF Link
<1> QED
  BY <1>1, <1>2 DEF Leads, HasPage, Excepted

LEMMA RunsLead ==
  ASSUME req.visitor \in Visitors \ {"anonymous"}, NEW S, \A r \in S : r.id \in DOMAIN runs
  PROVE  \A link \in {Link("run", r.id) : r \in S} : Leads(link)
<1> SUFFICES ASSUME NEW r \in S PROVE Leads(Link("run", r.id))
  OBVIOUS
<1>1. Link("run", r.id).kind = "run" /\ Link("run", r.id).arg = r.id
  BY DEF Link
<1> QED
  BY <1>1 DEF Leads, HasPage, Excepted, Visitors, Guarded

LEMMA PathLeads ==
  ASSUME NEW p, \/ Showable(head, p)
                \/ p = <<>> /\ (head = None \/ (head \in Commits /\ DOMAIN Tree[head] = {}))
                \/ head \in Commits /\ p \in DOMAIN Tree[head]
                     /\ Tree[head][p] \in {Blank, Module, NotUtf8}
                \/ p # <<>> /\ Last(p) \in Quotes
  PROVE  Leads(Link("tree", p))
<1>1. Link("tree", p).kind = "tree" /\ Link("tree", p).arg = p
  BY DEF Link
<1>2. Showable(head, p) => head \in Commits
  BY DEF Showable
<1> QED
  BY <1>1, <1>2 DEF Leads, HasPage, Excepted, Viewable

LEMMA HeadLeads ==
  ASSUME head # Gone, NEW kind \in {"home", "log"}
  PROVE  Leads(Link(kind, None))
<1>1. Link(kind, None).kind = kind
  BY DEF Link
<1> QED
  BY <1>1 DEF Leads, HasPage, Excepted

LEMMA SectionsLead ==
  ASSUME Still, req.kind # "list" PROVE \A link \in Sections : Leads(link)
<1>0. head \in Heads /\ head # Gone /\ req.visitor \in Visitors
  BY StillFacts
<1>1. Leads(Link("home", None)) /\ Leads(Link("log", None))
  BY <1>0, HeadLeads
<1>2. Leads(Link("tree", <<>>))
  <2>1. ASSUME head \in Commits, NEW q \in DOMAIN Tree[head] PROVE Showable(head, <<>>)
    <3>1. q \in Seq(Nat) /\ q # <<>> /\ <<>> \in Seq(Nat)
      BY <2>1, TreeAssumption
    <3>2. Len(q) \in Nat /\ Len(q) > 0
      BY <3>1, EmptySeq
    <3>3. Len(<<>>) = 0 /\ SubSeq(<<>>, 1, 0) = <<>> /\ SubSeq(q, 1, 0) = <<>>
      BY <3>1
    <3>4. IsStrictPrefix(<<>>, q)
      BY <3>1, <3>2, <3>3 DEF IsStrictPrefix, IsPrefix
    <3> QED
      BY <2>1, <3>4 DEF Showable
  <2>2. head = None \/ head \in Commits
    BY <1>0 DEF Heads
  <2> QED
    BY <2>1, <2>2, PathLeads
<1>3. Authenticated => Leads(Link("runs", None))
  <2>1. Link("runs", None).kind = "runs"
    BY DEF Link
  <2> QED
    BY <1>0, <2>1 DEF Leads, HasPage, Excepted, Guarded, Authenticated, Visitors
<1> QED
  BY <1>1, <1>2, <1>3 DEF Sections

\* The commits of a log are in the object database.
LEMMA LoggedAreStored ==
  ASSUME Still, NEW p
  PROVE  ToSet(Recent(head, p)) \subseteq stored
<1>1. CASE head \in Commits
  BY <1>1, StillFacts, RecentLog
<1>2. CASE head \notin Commits
  BY <1>2, NothingLogged DEF ToSet
<1> QED
  BY <1>1, <1>2

LEMMA TreeLeads ==
  ASSUME Still, req.kind = "tree" PROVE \A link \in BodyLinks : Leads(link)
<1>0. /\ Complete /\ req.arg \in Seq(Nat)
      /\ \A x \in Known : x \in DOMAIN page => page[x] = Now(x)
      /\ \A x \in {"text", "raw", "last"} : x \in DOMAIN page => page[x] # None
      /\ head \in Commits => ToSet(Line[head]) \subseteq stored
  BY StillFacts
<1>1. "entries" \in DOMAIN page
  BY <1>0, AllParts DEF Kinds
<1>2. page["entries"] = LsTree(head, req.arg)
  BY <1>0, <1>1 DEF Known, Now
<1>3. ASSUME head \in Commits,
             \/ IsDir(head, req.arg)
             \/ (req.arg \in DOMAIN Tree[head] /\ Tree[head][req.arg] \notin {Blank, Module, NotUtf8})
      PROVE  \A link \in Crumbs : Leads(link)
  <2> SUFFICES ASSUME NEW n \in 0..Len(req.arg) PROVE Leads(Link("tree", SubSeq(req.arg, 1, n)))
    BY DEF Crumbs
  <2>1. Showable(head, SubSeq(req.arg, 1, n))
    BY <1>0, <1>3, CrumbsLead
  <2> QED
    BY <2>1, PathLeads
<1>4. CASE page.entries # None
  <2>1. /\ head \in Commits /\ IsDir(head, req.arg)
        /\ \A i \in DOMAIN page.entries : \E n \in Names(head, req.arg) :
             page.entries[i].name = PrintedName(n)
    BY <1>0, <1>2, <1>4, DirShown
  <2>2. page["recent"] = Recent(head, req.arg)
    <3>1. "recent" \in DOMAIN page
      BY <1>0, <1>4, AllParts DEF Kinds
    <3> QED
      BY <1>0, <3>1 DEF Known, Now
  <2>3. \A link \in CommitLinks(ToSet(page.recent)) : Leads(link)
    <3>1. ToSet(page.recent) \subseteq stored
      BY <2>1, <2>2, LoggedAreStored
    <3> QED
      BY <3>1, CommitsLead
  <2>4. ASSUME NEW e \in ToSet(page.entries) PROVE Leads(Link("tree", EntryPath(e.name)))
    <3> DEFINE q == Append(req.arg, e.name)
    <3>1. PICK n \in Names(head, req.arg) : e.name = PrintedName(n)
      BY <2>1 DEF ToSet
    <3>2. n \in Nat /\ e.name \in Nat
      BY <1>0, <2>1, <3>1, NamesBelow, PrintedApart
    <3>3. q \in Seq(Nat) /\ q # <<>> /\ Last(q) = e.name
      <4> DEFINE m == e.name
      <4>1. m \in Nat
        BY <3>2
      <4> HIDE DEF m
      <4>2. /\ Append(req.arg, m) \in Seq(Nat) /\ Len(Append(req.arg, m)) = Len(req.arg) + 1
            /\ Len(req.arg) \in Nat /\ Append(req.arg, m)[Len(req.arg) + 1] = m
        BY <1>0, <4>1
      <4>3. Append(req.arg, m) # <<>> /\ Last(Append(req.arg, m)) = m
        BY <4>2 DEF Last
      <4> QED
        BY <4>2, <4>3 DEF m
    <3>4. CASE n \in DOMAIN Printed
      <4>1. Last(q) \in Quotes
        BY <3>1, <3>3, <3>4 DEF Quotes, PrintedName
      <4>2. Leads(Link("tree", q))
        BY <3>3, <4>1, PathLeads
      <4> QED
        BY <4>2 DEF EntryPath
    <3>5. CASE n \notin DOMAIN Printed
      <4>1. e.name = n
        BY <3>1, <3>5 DEF PrintedName
      <4>2. \E x \in DOMAIN Tree[head] : IsPrefix(q, x)
        BY <1>0, <2>1, <3>1, <4>1, NamesBelow
      <4> HIDE DEF q
      <4>3. PICK x \in DOMAIN Tree[head] : IsPrefix(q, x)
        BY <4>2
      <4>4. x = q \/ IsStrictPrefix(q, x)
        BY <4>3 DEF IsStrictPrefix
      <4>5. \/ Showable(head, q)
            \/ q \in DOMAIN Tree[head] /\ Tree[head][q] \in {Blank, Module, NotUtf8}
        BY <2>1, <4>3, <4>4 DEF Showable
      <4>6. Leads(Link("tree", q))
        BY <2>1, <4>5, PathLeads
      <4> QED
        BY <4>6 DEF EntryPath, q
    <3> QED
      BY <3>4, <3>5
  <2> QED
    BY <1>3, <1>4, <2>1, <2>3, <2>4 DEF BodyLinks
<1>5. CASE page.entries = None
  <2>1. {"fileHead", "text", "last"} \subseteq DOMAIN page
    BY <1>0, <1>5, AllParts DEF Kinds
  <2>2. /\ page["text"] = Show(head, req.arg) /\ page["last"] = LastChange(head, req.arg)
        /\ page["text"] # None /\ page["last"] # None
    BY <1>0, <2>1 DEF Known, Now
  <2>3. /\ head \in Commits /\ req.arg \in DOMAIN Tree[head]
        /\ Tree[head][req.arg] \notin {Blank, Module, NotUtf8}
        /\ LastChange(head, req.arg) \in ToSet(Line[head])
    BY <1>0, <1>2, <1>5, <2>2, FileShown
  <2>4. page.last \in stored
    BY <1>0, <2>2, <2>3
  <2>5. \A link \in CommitLinks({page.last}) : Leads(link)
    BY <2>4, CommitsLead
  <2> QED
    BY <1>3, <1>5, <2>3, <2>5 DEF BodyLinks
<1> QED
  BY <1>4, <1>5

LEMMA OthersLead ==
  ASSUME Still, req.kind \notin {"tree", "list"} PROVE \A link \in BodyLinks : Leads(link)
<1>0. /\ Complete /\ head \in Heads /\ (head \in Commits => head \in stored)
      /\ req.kind \in Kinds /\ req.visitor \in Visitors /\ runs \in Seq(RunRows)
      /\ \A c \in stored : Parent[c] \in stored \cup {None}
      /\ \A x \in Known : x \in DOMAIN page => page[x] = Now(x)
      /\ \A x \in {"info"} : x \in DOMAIN page => page[x] # None
  BY StillFacts
<1>1. ASSUME "recent" \in DOMAIN page PROVE ToSet(page.recent) \subseteq stored
  <2>1. page["recent"] = Recent(head, <<>>)
    BY <1>0, <1>1 DEF Known, Now
  <2> QED
    BY <2>1, LoggedAreStored
<1>2. ASSUME "runs" \in DOMAIN page, NEW r \in ToSet(page.runs) PROVE r.id \in DOMAIN runs
  <2>1. \E n \in Nat : page["runs"] = Newest(n)
    <3>1. page["runs"] = Newest(IF req.kind = "home" THEN HomeRows ELSE ListRows)
      BY <1>0, <1>2 DEF Known, Now
    <3> QED
      BY <3>1, BoundsAssumption
  <2> QED
    BY <1>0, <1>2, <2>1, NewestAreRows
<1>3. CASE req.kind = "home"
  <2>1. {"head", "recent"} \subseteq DOMAIN page /\ (Authenticated => "runs" \in DOMAIN page)
    BY <1>0, <1>3, AllParts
  <2>2. page["head"] = HeadShown(head)
    BY <1>0, <2>1 DEF Known, Now
  <2>3. page.head \in stored \cup {None}
    BY <1>0, <1>3, <2>2 DEF HeadShown, Said, Heads
  <2>4. \A link \in CommitLinks(ToSet(page.recent) \cup {page.head}) : Leads(link)
    <3>1. (ToSet(page.recent) \cup {page.head}) \ {None} \subseteq stored
      BY <1>1, <2>1, <2>3
    <3> QED
      BY <3>1, CommitsLead
  <2>5. \A link \in {Link("run", r.id) : r \in ToSet(IF Authenticated THEN page.runs ELSE <<>>)} :
          Leads(link)
    <3>1. CASE Authenticated
      <4>1. \A r \in ToSet(page.runs) : r.id \in DOMAIN runs
        BY <1>2, <2>1, <3>1
      <4>2. \A link \in {Link("run", r.id) : r \in ToSet(page.runs)} : Leads(link)
        BY <1>0, <3>1, <4>1, RunsLead DEF Authenticated
      <4> QED
        BY <3>1, <4>2
    <3>2. CASE ~Authenticated
      <4>1. ToSet(<<>>) = {}
        BY DEF ToSet
      <4> QED
        BY <3>2, <4>1
    <3> QED
      BY <3>1, <3>2
  <2> QED
    BY <1>3, <2>4, <2>5 DEF BodyLinks
<1>4. CASE req.kind = "log"
  <2>1. ToSet(page.recent) \subseteq stored
    BY <1>0, <1>1, <1>4, AllParts
  <2> QED
    BY <1>4, <2>1, CommitsLead DEF BodyLinks
<1>5. CASE req.kind = "commit"
  <2>1. TruePage
    BY <1>5, OthersAreTrue
  <2>2. page.info \in stored
    BY <1>5, <2>1 DEF TruePage
  <2>3. {Parent[page.info]} \ {None} \subseteq stored
    BY <1>0, <2>2
  <2>4. \A link \in CommitLinks({Parent[page.info]}) : Leads(link)
    BY <2>3, CommitsLead
  <2> QED
    BY <1>5, <2>4 DEF BodyLinks
<1>6. CASE req.kind = "runs"
  <2>1. \A r \in ToSet(page.runs) : r.id \in DOMAIN runs
    BY <1>0, <1>2, <1>6, AllParts
  <2>2. req.visitor \in Visitors \ {"anonymous"}
    BY <1>0, <1>6 DEF Still, Fine, VisitFine, Guarded
  <2>3. \A link \in {Link("run", r.id) : r \in ToSet(page.runs)} : Leads(link)
    BY <2>1, <2>2, RunsLead
  <2> QED
    BY <1>6, <2>3 DEF BodyLinks
<1>7. CASE req.kind = "run"
  BY <1>7 DEF BodyLinks
<1> QED
  BY <1>0, <1>3, <1>4, <1>5, <1>6, <1>7 DEF Kinds

\* A page beside which nothing happened is true of the repository, its links
\* lead to pages or are among those that the code lets lead elsewhere, and a
\* path is reported missing only where nothing can be shown.  What git prints in
\* bytes that are not UTF-8, quotes or takes for a pattern is the exception.
THEOREM QuietIsTrue == Spec => []QuietPageIsTrue
<1>1. Init => Fine /\ QuietFine
  BY InitFine, QuietInit
<1>2. (Fine /\ QuietFine) /\ [Next]_vars => (Fine /\ QuietFine)'
  BY NextFine, QuietNext
<1>3. Fine /\ QuietFine => QuietPageIsTrue
  <2> SUFFICES ASSUME Fine, QuietFine, quiet PROVE
                 /\ status = "ok" => TruePage /\ \A link \in Links : Leads(link)
                 /\ status = "not found" /\ req.kind = "tree" => ~Viewable(head, req.arg)
    BY DEF QuietPageIsTrue, Leads
  <2>1. ASSUME status = "ok" PROVE TruePage /\ \A link \in Links : Leads(link)
    <3>1. Still
      BY <2>1 DEF Still
    <3>2. TruePage
      BY <3>1, TreeIsTrue, HomeIsTrue, OthersAreTrue
    <3>3. CASE req.kind = "list"
      <4>1. "listed" \in DOMAIN page /\ \A x \in Known : x \in DOMAIN page => page[x] = Now(x)
        BY <3>1, <3>3, StillFacts, AllParts
      <4>2. page["listed"] = (head # Gone)
        BY <4>1 DEF Known, Now
      <4>3. page.listed => Leads(Link("home", None))
        BY <4>2, HeadLeads
      <4> QED
        BY <3>2, <3>3, <4>3 DEF Links
    <3>4. CASE req.kind # "list"
      <4>1. \A link \in BodyLinks : Leads(link)
        BY <3>1, <3>4, TreeLeads, OthersLead
      <4>2. \A link \in Sections : Leads(link)
        BY <3>1, <3>4, SectionsLead
      <4> QED
        BY <3>2, <3>4, <4>1, <4>2 DEF Links
    <3> QED
      BY <3>3, <3>4
  <2>2. ASSUME status = "not found", req.kind = "tree" PROVE ~Viewable(head, req.arg)
    <3>1. Missed(seen, req.arg)
      BY <2>2 DEF Fine, NotFoundFine
    <3>2. seen = <<head>>
      BY <2>2 DEF QuietFine
    <3>3. DOMAIN seen = {1} /\ seen[1] = head
      BY <3>2
    <3>4. LsTree(head, req.arg) = None /\ Unshown(head, req.arg)
      BY <3>1, <3>3 DEF Missed
    <3>5. req.arg \in Seq(Nat)
      BY <2>2, NamesAssumption DEF Fine, PageFine, ArgsOf
    <3>6. ~(head \in Commits /\ IsDir(head, req.arg))
      BY <3>4, <3>5, ListingIsSome
    <3>7. Showable(head, req.arg) => req.arg \in DOMAIN Tree[head]
      BY <3>6 DEF Showable, IsDir
    <3> QED
      BY <3>4, <3>7 DEF Unshown, Viewable
  <2> QED
    BY <2>1, <2>2
<1> QED
  BY <1>1, <1>2, <1>3, PTL DEF Spec
=============================================================================
