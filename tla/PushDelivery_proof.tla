------------------------- MODULE PushDelivery_proof -------------------------
(* Proofs about PushDelivery, for any pushes, refs, remotes and failures. *)
EXTENDS PushDelivery, TLAPS

USE RefsOfAssumption, ConfigsAssumption, OperatorAssumption, NullAssumption,
    FaultsAssumption, FlightAssumption

-----------------------------------------------------------------------------
(* The kinds of steps *)

ServerStep == Start \/ Bind \/ Listen \/ Die
PushStep(p) ==
  \E rewritten \in SUBSET RefsOf[p], deleted \in SUBSET RefsOf[p], mirrors \in Configs :
    Push(p, rewritten, deleted, mirrors)
HookStep(p) == Hook(p) \/ HookDies(p)
TaskStep(p, r) ==
  \/ p \in Pushes /\ (Accept(p) \/ ReadEvent(p) \/ RunCi(p) \/ Finish(p))
  \/ p \in Pushes /\ r \in Refs /\
       (ReadConfig(p, r) \/ ConfigFails(p, r) \/ ConfigHidden(p, r))
  \/ r \in Refs /\ ManualPush(r)
  \/ ManualFails \/ ManualDone
TransferStep(a, t) ==
  a \in Actors /\ (\/ EndPush(a) \/ PushBreaks(a)
                   \/ t \in Target /\ (BeginPush(a, t) \/ PushFails(a, t)))

LEMMA Steps ==
  ASSUME [Next]_vars
  PROVE  \/ ServerStep
         \/ \E p \in Pushes : PushStep(p) \/ HookStep(p)
         \/ \E p, r : TaskStep(p, r)
         \/ \E a, t : TransferStep(a, t)
         \/ UNCHANGED vars
<1>1. CASE Startup \/ Die
  BY <1>1 DEF Startup, ServerStep
<1>2. ASSUME NEW p \in Pushes, Hook(p) \/ HookDies(p)
      PROVE  \E q \in Pushes : PushStep(q) \/ HookStep(q)
  BY <1>2 DEF HookStep
<1>3. ASSUME NEW p \in Pushes,
             Handle(p) \/ \E r \in Refs : ConfigFails(p, r) \/ ConfigHidden(p, r)
      PROVE  \E q, r : TaskStep(q, r)
  BY <1>3 DEF Handle, TaskStep
<1>4. CASE (\E r \in Refs : ManualPush(r)) \/ ManualFails \/ ManualDone
  BY <1>4 DEF TaskStep
<1>5. ASSUME NEW a \in Actors,
             Transfer(a) \/ PushBreaks(a) \/ \E t \in Target : PushFails(a, t)
      PROVE  \E b, t : TransferStep(b, t)
  BY <1>5 DEF Transfer, TransferStep
<1>6. ASSUME NEW p \in Pushes,
             \E rewritten \in SUBSET RefsOf[p], deleted \in SUBSET RefsOf[p],
               mirrors \in Configs : Push(p, rewritten, deleted, mirrors)
      PROVE  \E q \in Pushes : PushStep(q) \/ HookStep(q)
  BY <1>6 DEF PushStep
<1> QED
  BY <1>1, <1>2, <1>3, <1>4, <1>5, <1>6 DEF Next

-----------------------------------------------------------------------------
(* Types *)

LEMMA ActorFacts == Pushes \subseteq Actors /\ Operator \in Actors
BY DEF Actors

LEMMA MissTypes ==
  ASSUME TypeOK, NEW a \in Actors, NEW S \in SUBSET Target,
         Miss(a, S)
  PROVE  missed' \subseteq [by : Actors, target : Target]
<1>1. missed' = missed \cup [by : {a}, target : S]
  BY DEF Miss
<1>2. [by : {a}, target : S] \subseteq [by : Actors, target : Target]
  OBVIOUS
<1> QED
  BY <1>1, <1>2 DEF TypeOK

\* The server.
LEMMA ServerTypes ==
  ASSUME TypeOK, ServerStep
  PROVE  TypeOK'
<1>1. CASE Start \/ Bind \/ Listen
  BY <1>1 DEF Start, Bind, Listen, TypeOK, hookVars, repoVars, mirrorVars
<1>2. CASE Die
  <2>1. /\ srv' = "down" /\ socket' \in {"absent", "stale", "listening"}
        /\ faults' \in 0..MaxFaults
    BY <1>2 DEF Die, Fault, TypeOK
  <2>2. task' \in [Actors -> TaskStates]
    <3>1. \A a \in Actors : task[a] \in TaskStates /\ "dropped" \in TaskStates
      BY DEF TypeOK, TaskStates
    <3> QED
      BY <1>2, <3>1 DEF Die
  <2>3. unread' \in [Actors -> SUBSET Refs] /\ todo' \in [Actors -> SUBSET Target]
    BY <1>2 DEF Die, TypeOK
  <2> QED
    BY <1>2, <2>1, <2>2, <2>3 DEF Die, TypeOK, hookVars, repoVars
<1> QED
  BY <1>1, <1>2 DEF ServerStep

\* A push.
LEMMA PushTypes ==
  ASSUME TypeOK, NEW p \in Pushes, PushStep(p)
  PROVE  TypeOK'
<1> PICK rewritten \in SUBSET RefsOf[p], deleted \in SUBSET RefsOf[p],
         mirrors \in Configs : Push(p, rewritten, deleted, mirrors)
  BY DEF PushStep
<1>1. RefsOf[p] \subseteq Refs /\ mirrors \subseteq Remotes
  OBVIOUS
<1>2. updated' \in [Pushes -> SUBSET Refs] /\ listed' \in [Pushes -> SUBSET Remotes]
  BY <1>1 DEF Push, TypeOK
<1>3. head' \in [Refs -> Pushes \cup {Null}]
  <2>1. \A r \in Refs : head[r] \in Pushes \cup {Null}
    BY DEF TypeOK
  <2> QED
    BY <2>1 DEF Push
<1>4. below' \in [Pushes -> [Refs -> SUBSET Pushes]]
  <2> DEFINE on == [r \in Refs |->
         IF r \in rewritten \/ head[r] = Null THEN {} ELSE below[head[r]][r] \cup {head[r]}]
  <2>1. \A r \in Refs : head[r] # Null =>
          head[r] \in Pushes /\ below[head[r]][r] \subseteq Pushes
    BY DEF TypeOK
  <2>2. on \in [Refs -> SUBSET Pushes]
    BY <2>1
  <2>3. below' = [below EXCEPT ![p] = on]
    BY DEF Push
  <2> HIDE DEF on
  <2> QED
    BY <2>2, <2>3 DEF TypeOK
<1>5. hook' \in [Pushes -> HookStates]
  BY DEF Push, TypeOK, HookStates
<1> QED
  BY <1>2, <1>3, <1>4, <1>5 DEF Push, TypeOK, serverVars, mirrorVars

\* A hook.
LEMMA HookTypes ==
  ASSUME TypeOK, NEW p \in Pushes, HookStep(p)
  PROVE  TypeOK'
<1> USE DEF HookStep
<1>1. hook' \in [Pushes -> HookStates]
  <2>1. CASE CheckSocket(p)
    <3>1. \E s \in {"silent", "warned", "connecting"} : hook' = [hook EXCEPT ![p] = s]
      BY <2>1 DEF CheckSocket
    <3> QED
      BY <3>1 DEF TypeOK, HookStates
  <2>2. CASE Connect(p) \/ WriteEvent(p) \/ HookDies(p)
    <3>1. \E s \in {"writing", "failed", "sent", "killed"} : hook' = [hook EXCEPT ![p] = s]
      BY <2>2 DEF Connect, WriteEvent, HookDies
    <3> QED
      BY <3>1 DEF TypeOK, HookStates
  <2> QED
    BY <2>1, <2>2 DEF Hook
<1>2. sent' \in [Pushes -> {"nothing", "line", "cut"}] /\ task' \in [Actors -> TaskStates]
  BY DEF Hook, CheckSocket, Connect, WriteEvent, HookDies, TypeOK, TaskStates
<1>3. faults' \in 0..MaxFaults
  BY DEF Hook, CheckSocket, Connect, WriteEvent, HookDies, Fault, TypeOK
<1>4. UNCHANGED <<srv, socket, updated, listed, head, below, remote, unread, todo, flight,
                  missed, hidden>>
  BY DEF Hook, CheckSocket, Connect, WriteEvent, HookDies, serverVars, repoVars, mirrorVars
<1> QED
  BY <1>1, <1>2, <1>3, <1>4 DEF TypeOK

\* A task, and the operator.
LEMMA TaskTypes ==
  ASSUME TypeOK, NEW p, NEW r, TaskStep(p, r)
  PROVE  TypeOK'
<1> USE DEF TaskStep
<1>1. task' \in [Actors -> TaskStates]
  <2>1. \/ \E b \in Actors : \E s \in TaskStates : task' = [task EXCEPT ![b] = s]
        \/ UNCHANGED task
    BY ActorFacts DEF Accept, ReadEvent, RunCi, Finish, ReadConfig, ConfigFails, ConfigHidden, ManualPush,
       ManualFails, ManualDone, TaskStates
  <2> QED
    BY <2>1 DEF TypeOK
<1>2. unread' \in [Actors -> SUBSET Refs]
  <2>1. \/ \E b \in Actors : \E S \in SUBSET Refs : unread' = [unread EXCEPT ![b] = S]
        \/ UNCHANGED unread
    <3>1. CASE p \in Pushes /\ RunCi(p)
      <4>1. updated[p] \in SUBSET Refs /\ unread' = [unread EXCEPT ![p] = updated[p]]
        BY <3>1 DEF RunCi, TypeOK
      <4> QED
        BY <3>1, <4>1, ActorFacts
    <3>2. CASE p \in Pushes /\ (ReadConfig(p, r) \/ ConfigFails(p, r) \/ ConfigHidden(p, r))
      <4>1. /\ unread[p] \ {r} \in SUBSET Refs
            /\ unread' = [unread EXCEPT ![p] = unread[p] \ {r}]
        BY <3>2, ActorFacts DEF ReadConfig, ConfigFails, ConfigHidden, TypeOK
      <4> QED
        BY <3>2, <4>1, ActorFacts
    <3>3. CASE \/ Accept(p) \/ ReadEvent(p) \/ Finish(p)
               \/ ManualPush(r) \/ ManualFails \/ ManualDone
      BY <3>3 DEF Accept, ReadEvent, Finish, ManualPush, ManualFails, ManualDone, mirrorVars
    <3> QED
      BY <3>1, <3>2, <3>3
  <2> QED
    BY <2>1 DEF TypeOK
<1>3. todo' \in [Actors -> SUBSET Target]
  <2>1. CASE p \in Pushes /\ r \in Refs /\ ReadConfig(p, r)
    <3>1. [ref : {r}, remote : listed[p]] \subseteq Target
      BY <2>1 DEF TypeOK, Target
    <3> QED
      BY <2>1, <3>1, ActorFacts DEF ReadConfig, TypeOK
  <2>2. CASE r \in Refs /\ ManualPush(r)
    <3>1. head[r] # Null => [ref : {r}, remote : listed[head[r]]] \subseteq Target
      BY <2>2 DEF TypeOK, Target
    <3> QED
      BY <2>2, <3>1, ActorFacts DEF ManualPush, TypeOK
  <2>3. CASE \/ p \in Pushes /\ (Accept(p) \/ ReadEvent(p) \/ RunCi(p) \/ Finish(p))
             \/ ConfigFails(p, r) \/ ConfigHidden(p, r) \/ ManualFails \/ ManualDone
    BY <2>3 DEF Accept, ReadEvent, RunCi, Finish, ConfigFails, ConfigHidden, ManualFails,
       ManualDone, TypeOK, mirrorVars
  <2> QED
    BY <2>1, <2>2, <2>3
<1>4. missed' \subseteq [by : Actors, target : Target]
  <2>1. CASE p \in Pushes /\ r \in Refs /\ ConfigFails(p, r)
    <3> DEFINE S == [ref : {r}, remote : Remotes]
    <3>1. S \in SUBSET Target
      BY <2>1 DEF Target
    <3>2. Miss(p, S)
      BY <2>1 DEF ConfigFails
    <3>3. p \in Actors
      BY <2>1, ActorFacts
    <3> HIDE DEF S
    <3> QED
      BY <3>1, <3>2, <3>3, MissTypes
  <2>2. CASE ~(p \in Pushes /\ r \in Refs /\ ConfigFails(p, r))
    BY <2>2 DEF Accept, ReadEvent, RunCi, Finish, ReadConfig, ConfigHidden, ManualPush,
       ManualFails, ManualDone, TypeOK, mirrorVars
  <2> QED
    BY <2>1, <2>2
<1>5. faults' \in 0..MaxFaults
  BY DEF Accept, ReadEvent, RunCi, Finish, ReadConfig, ConfigFails, ConfigHidden, ManualPush, ManualFails, ManualDone,
     TypeOK, Fault
<1>6. UNCHANGED <<srv, socket, hook, sent, updated, listed, head, below, remote, flight>>
  BY DEF Accept, ReadEvent, RunCi, Finish, ReadConfig, ConfigFails, ConfigHidden, ManualPush, ManualFails, ManualDone,
     serverVars, hookVars, repoVars, mirrorVars
<1>7. hidden' \subseteq Pushes \X Refs
  BY DEF Accept, ReadEvent, RunCi, Finish, ReadConfig, ConfigFails, ConfigHidden, ManualPush,
     ManualFails, ManualDone, TypeOK, mirrorVars
<1> QED
  BY <1>1, <1>2, <1>3, <1>4, <1>5, <1>6, <1>7 DEF TypeOK

\* Pushes to remotes.
LEMMA TransferTypes ==
  ASSUME TypeOK, NEW a, NEW t, TransferStep(a, t)
  PROVE  TypeOK'
<1> USE DEF TransferStep
<1>1. todo' \in [Actors -> SUBSET Target]
  <2>1. \/ todo' = [todo EXCEPT ![a] = todo[a] \ {t}]
        \/ UNCHANGED todo
    BY DEF EndPush, PushBreaks, BeginPush, PushFails
  <2>2. todo \in [Actors -> SUBSET Target] /\ todo[a] \ {t} \in SUBSET Target
    BY DEF TypeOK
  <2> QED
    BY <2>1, <2>2
<1>2. flight' \in [Actors -> Flight \cup {Null}]
  <2>1. CASE t \in Target /\ BeginPush(a, t)
    <3>1. t \in Target /\ t.ref \in Refs /\ t.remote \in Remotes
      BY <2>1 DEF Target
    <3>2. [target |-> t, from |-> remote[t.remote][t.ref], to |-> head[t.ref]] \in Flight
      <4>1. remote[t.remote][t.ref] \in Pushes \cup {Null} /\ head[t.ref] \in Pushes \cup {Null}
        BY <3>1 DEF TypeOK
      <4> QED
        BY <3>1, <4>1 DEF Flight
    <3> QED
      BY <2>1, <3>2 DEF BeginPush, TypeOK
  <2>2. CASE EndPush(a) \/ PushBreaks(a) \/ PushFails(a, t)
    BY <2>2 DEF EndPush, PushBreaks, PushFails, Land, TypeOK
  <2> QED
    BY <2>1, <2>2
<1>3. flight[a] # Null =>
        /\ flight[a].target \in Target /\ flight[a].to \in Pushes \cup {Null}
        /\ flight[a].target.ref \in Refs /\ flight[a].target.remote \in Remotes
  <2>1. flight[a] # Null => flight[a] \in Flight
    BY DEF TypeOK
  <2> QED
    BY <2>1 DEF Flight, Target
<1>4. remote' \in [Remotes -> [Refs -> Pushes \cup {Null}]]
  <2>1. CASE UNCHANGED remote
    BY <2>1 DEF TypeOK
  <2>2. CASE flight[a] # Null /\ Update(flight[a])
    <3> DEFINE f == flight[a]
               m == f.target.remote
    <3>1. /\ remote' = [remote EXCEPT ![m] = [remote[m] EXCEPT ![f.target.ref] = f.to]]
          /\ m \in Remotes /\ f.to \in Pushes \cup {Null}
      BY <1>3, <2>2 DEF Update, TypeOK
    <3>2. [remote[m] EXCEPT ![f.target.ref] = f.to] \in [Refs -> Pushes \cup {Null}]
      BY <1>3, <2>2 DEF TypeOK
    <3> HIDE DEF f, m
    <3> QED
      BY <3>1, <3>2 DEF TypeOK
  <2> QED
    BY <2>1, <2>2 DEF EndPush, PushBreaks, BeginPush, PushFails
<1>5. missed' \subseteq [by : Actors, target : Target]
  <2>1. CASE UNCHANGED missed
    BY <2>1 DEF TypeOK
  <2>2. CASE flight[a] # Null /\ Miss(a, {flight[a].target})
    BY <1>3, <2>2, MissTypes
  <2>3. CASE t \in Target /\ Miss(a, {t})
    BY <2>3, MissTypes
  <2> QED
    BY <2>1, <2>2, <2>3 DEF EndPush, PushBreaks, BeginPush, PushFails, Report
<1>6. faults' \in 0..MaxFaults
  BY DEF EndPush, PushBreaks, BeginPush, PushFails, Fault, TypeOK
<1>7. UNCHANGED <<srv, socket, hook, sent, task, updated, listed, head, below, unread,
                  hidden>>
  BY DEF EndPush, PushBreaks, BeginPush, PushFails, serverVars, hookVars, repoVars
<1> QED
  BY <1>1, <1>2, <1>4, <1>5, <1>6, <1>7 DEF TypeOK

-----------------------------------------------------------------------------
(* The server, the hooks and the commits *)

\* What a step that is no push leaves of the repository and the hooks.
LEMMA NoPush ==
  ASSUME TypeOK,
         \/ ServerStep
         \/ \E p \in Pushes : HookStep(p)
         \/ \E p, r : TaskStep(p, r)
         \/ \E a, t : TransferStep(a, t)
         \/ UNCHANGED vars
  PROVE  /\ UNCHANGED <<updated, listed, head, below>>
         /\ \A p \in Pushes : hook[p] = "idle" <=> hook'[p] = "idle"
<1>1. CASE ServerStep
  BY <1>1 DEF ServerStep, Start, Bind, Listen, Die, hookVars, repoVars
<1>2. ASSUME NEW p \in Pushes, HookStep(p)
      PROVE  /\ UNCHANGED <<updated, listed, head, below>>
             /\ \A q \in Pushes : hook[q] = "idle" <=> hook'[q] = "idle"
  <2>1. hook[p] # "idle" /\ \E s \in HookStates \ {"idle"} : hook' = [hook EXCEPT ![p] = s]
    <3>1. CASE CheckSocket(p)
      BY <3>1 DEF CheckSocket, HookStates
    <3>2. CASE Connect(p) \/ WriteEvent(p) \/ HookDies(p)
      BY <3>2 DEF Connect, WriteEvent, HookDies, HookStates
    <3> QED
      BY <1>2, <3>1, <3>2 DEF HookStep, Hook
  <2>2. UNCHANGED <<updated, listed, head, below>>
    BY <1>2 DEF HookStep, Hook, CheckSocket, Connect, WriteEvent, HookDies, repoVars
  <2> QED
    BY <2>1, <2>2 DEF TypeOK
<1>3. ASSUME NEW p, NEW r, TaskStep(p, r)
      PROVE  UNCHANGED <<updated, listed, head, below, hook>>
  BY <1>3 DEF TaskStep, Accept, ReadEvent, RunCi, Finish, ReadConfig, ConfigFails, ConfigHidden, ManualPush,
     ManualFails, ManualDone, hookVars, repoVars
<1>4. ASSUME NEW a, NEW t, TransferStep(a, t)
      PROVE  UNCHANGED <<updated, listed, head, below, hook>>
  BY <1>4 DEF TransferStep, EndPush, PushBreaks, BeginPush, PushFails, hookVars, repoVars
<1>5. CASE UNCHANGED vars
  BY <1>5 DEF vars, hookVars, repoVars
<1> QED
  BY <1>1, <1>2, <1>3, <1>4, <1>5

LEMMA KeepSocketBound ==
  ASSUME IInv, [Next]_vars
  PROVE  SocketBound'
<1>1. CASE ServerStep
  BY <1>1 DEF ServerStep, Start, Bind, Listen, Die, IInv, SocketBound
<1>2. CASE UNCHANGED <<srv, socket>>
  BY <1>2 DEF IInv, SocketBound
<1>3. ASSUME NEW p \in Pushes, PushStep(p) \/ HookStep(p) PROVE UNCHANGED <<srv, socket>>
  BY <1>3 DEF PushStep, Push, HookStep, Hook, CheckSocket, Connect, WriteEvent, HookDies,
     serverVars
<1>4. ASSUME NEW p, NEW r, TaskStep(p, r) PROVE UNCHANGED <<srv, socket>>
  BY <1>4 DEF TaskStep, Accept, ReadEvent, RunCi, Finish, ReadConfig, ConfigFails, ConfigHidden, ManualPush,
     ManualFails, ManualDone, serverVars
<1>5. ASSUME NEW a, NEW t, TransferStep(a, t) PROVE UNCHANGED <<srv, socket>>
  BY <1>5 DEF TransferStep, EndPush, PushBreaks, BeginPush, PushFails, serverVars
<1>6. CASE UNCHANGED vars
  BY <1>2, <1>6 DEF vars, serverVars
<1> QED
  BY <1>1, <1>2, <1>3, <1>4, <1>5, <1>6, Steps

LEMMA KeepConversation ==
  ASSUME IInv, [Next]_vars, NEW q \in Pushes
  PROVE  Conversation(q)'
<1>1. TypeOK /\ Conversation(q) /\ q \in Actors /\ q # Operator
  BY ActorFacts DEF IInv
<1>2. /\ hook[q] \in HookStates /\ sent[q] \in {"nothing", "line", "cut"}
      /\ task[q] \in TaskStates
  BY <1>1 DEF TypeOK
<1>3. CASE UNCHANGED <<hook, sent, task>>
  BY <1>1, <1>3 DEF Conversation
<1>4. CASE ServerStep
  <2>1. /\ UNCHANGED <<hook, sent>> /\ task'[q] \in {task[q], "dropped"}
        /\ task[q] = "none" => task'[q] = "none"
    BY <1>1, <1>4 DEF ServerStep, Start, Bind, Listen, Die, hookVars
  <2> QED
    BY <1>1, <2>1 DEF Conversation
<1>5. ASSUME NEW p \in Pushes, PushStep(p) PROVE Conversation(q)'
  <2>1. hook[p] = "idle" /\ hook' = [hook EXCEPT ![p] = "started"] /\ UNCHANGED <<sent, task>>
    BY <1>5 DEF PushStep, Push
  <2> QED
    BY <1>1, <2>1 DEF Conversation, TypeOK
<1>6. ASSUME NEW p \in Pushes, HookStep(p) PROVE Conversation(q)'
  <2>1. p # q => hook'[q] = hook[q] /\ sent'[q] = sent[q] /\ task'[q] = task[q]
    BY <1>1, <1>6 DEF HookStep, Hook, CheckSocket, Connect, WriteEvent, HookDies, TypeOK
  <2>2. CASE p # q
    BY <1>1, <2>1, <2>2 DEF Conversation
  <2>3. CASE p = q
    <3>1. CASE CheckSocket(q)
      <4>1. /\ hook[q] = "started" /\ hook'[q] \in {"silent", "warned", "connecting"}
            /\ UNCHANGED <<sent, task>>
        BY <1>1, <3>1 DEF CheckSocket, TypeOK
      <4> QED
        BY <1>1, <4>1 DEF Conversation
    <3>2. CASE Connect(q)
      <4>1. /\ hook[q] = "connecting" /\ UNCHANGED sent
            /\ \/ hook'[q] = "writing" /\ task'[q] = "backlog"
               \/ hook'[q] = "failed" /\ task'[q] = task[q]
        BY <1>1, <3>2 DEF Connect, TypeOK
      <4> QED
        BY <1>1, <4>1 DEF Conversation
    <3>3. CASE WriteEvent(q)
      <4>1. /\ hook[q] = "writing" /\ UNCHANGED task
            /\ \/ hook'[q] = "failed" /\ sent'[q] = sent[q]
               \/ hook'[q] = "sent" /\ sent'[q] = "line"
        BY <1>1, <3>3 DEF WriteEvent, TypeOK
      <4> QED
        BY <1>1, <4>1 DEF Conversation
    <3>4. CASE HookDies(q)
      <4>1. /\ hook[q] \in {"started", "connecting", "writing"} /\ UNCHANGED task
            /\ hook'[q] = "killed" /\ sent'[q] = "cut"
        BY <1>1, <3>4 DEF HookDies, TypeOK
      <4> QED
        BY <1>1, <4>1 DEF Conversation
    <3> QED
      BY <1>6, <2>3, <3>1, <3>2, <3>3, <3>4 DEF HookStep, Hook
  <2> QED
    BY <2>2, <2>3
<1>7. ASSUME NEW p, NEW r, TaskStep(p, r) PROVE Conversation(q)'
  <2>1. UNCHANGED <<hook, sent>>
    BY <1>7 DEF TaskStep, Accept, ReadEvent, RunCi, Finish, ReadConfig, ConfigFails, ConfigHidden, ManualPush,
       ManualFails, ManualDone, hookVars
  <2>2. \/ task'[q] = task[q]
        \/ task[q] = "backlog" /\ task'[q] = "reading"
        \/ task[q] = "reading" /\ sent[q] = "line" /\ task'[q] = "ci"
        \/ task[q] = "reading" /\ sent[q] = "cut" /\ task'[q] = "over"
        \/ task[q] = "ci" /\ task'[q] = "mirror"
        \/ task[q] = "mirror" /\ task'[q] = "over"
    BY <1>1, <1>7 DEF TaskStep, Accept, ReadEvent, RunCi, Finish, ReadConfig, ConfigFails, ConfigHidden,
       ManualPush, ManualFails, ManualDone, Ready, TypeOK
  <2> QED
    BY <1>1, <2>1, <2>2 DEF Conversation
<1>8. ASSUME NEW a, NEW t, TransferStep(a, t) PROVE UNCHANGED <<hook, sent, task>>
  BY <1>8 DEF TransferStep, EndPush, PushBreaks, BeginPush, PushFails, hookVars
<1>9. CASE UNCHANGED vars
  BY <1>3, <1>9 DEF vars, hookVars
<1> QED
  BY <1>3, <1>4, <1>5, <1>6, <1>7, <1>8, <1>9, Steps

\* A flight begins with the value of the ref, and ends.
LEMMA FlightMoves ==
  ASSUME TypeOK, [Next]_vars, NEW a \in Actors
  PROVE  \/ flight'[a] = flight[a]
         \/ flight'[a] = Null
         \/ \E t \in Target :
              /\ flight'[a].target = t /\ flight'[a].to = head[t.ref]
              /\ UNCHANGED <<head, updated, hook>>
<1>1. CASE ServerStep
  BY <1>1 DEF ServerStep, Start, Bind, Listen, Die, mirrorVars
<1>2. ASSUME NEW p \in Pushes, PushStep(p) \/ HookStep(p) PROVE UNCHANGED flight
  BY <1>2 DEF PushStep, Push, HookStep, Hook, CheckSocket, Connect, WriteEvent, HookDies,
     mirrorVars
<1>3. ASSUME NEW p, NEW r, TaskStep(p, r) PROVE UNCHANGED flight
  BY <1>3 DEF TaskStep, Accept, ReadEvent, RunCi, Finish, ReadConfig, ConfigFails, ConfigHidden, ManualPush,
     ManualFails, ManualDone, mirrorVars
<1>4. ASSUME NEW b, NEW t, TransferStep(b, t)
      PROVE  \/ flight'[a] = flight[a]
             \/ flight'[a] = Null
             \/ \E x \in Target :
                  /\ flight'[a].target = x /\ flight'[a].to = head[x.ref]
                  /\ UNCHANGED <<head, updated, hook>>
  <2>1. CASE EndPush(b) \/ PushBreaks(b) \/ PushFails(b, t)
    BY <1>4, <2>1 DEF EndPush, PushBreaks, PushFails, Land, TypeOK
  <2>2. CASE t \in Target /\ BeginPush(b, t)
    BY <2>2 DEF BeginPush, TypeOK, hookVars, repoVars
  <2> QED
    BY <1>4, <2>1, <2>2 DEF TransferStep
<1>5. CASE UNCHANGED vars
  BY <1>5 DEF vars, mirrorVars
<1> QED
  BY <1>1, <1>2, <1>3, <1>4, <1>5, Steps

\* A ref of a remote changes when a flight arrives and finds there what git read.
LEMMA RemoteMoves ==
  ASSUME TypeOK, [Next]_vars, NEW m \in Remotes, NEW r \in Refs,
         remote'[m][r] # remote[m][r]
  PROVE  \E a \in Actors :
           /\ flight[a] # Null /\ Taken(flight[a])
           /\ flight[a].target.remote = m /\ flight[a].target.ref = r
           /\ remote'[m][r] = flight[a].to
<1>1. CASE ServerStep
  BY <1>1 DEF ServerStep, Start, Bind, Listen, Die, mirrorVars
<1>2. ASSUME NEW p \in Pushes, PushStep(p) \/ HookStep(p) PROVE UNCHANGED remote
  BY <1>2 DEF PushStep, Push, HookStep, Hook, CheckSocket, Connect, WriteEvent, HookDies,
     mirrorVars
<1>3. ASSUME NEW p, NEW q, TaskStep(p, q) PROVE UNCHANGED remote
  BY <1>3 DEF TaskStep, Accept, ReadEvent, RunCi, Finish, ReadConfig, ConfigFails, ConfigHidden, ManualPush,
     ManualFails, ManualDone, mirrorVars
<1>4. ASSUME NEW b, NEW t, TransferStep(b, t)
      PROVE  \E a \in Actors :
               /\ flight[a] # Null /\ Taken(flight[a])
               /\ flight[a].target.remote = m /\ flight[a].target.ref = r
               /\ remote'[m][r] = flight[a].to
  <2>1. b \in Actors /\ flight[b] # Null /\ Taken(flight[b]) /\ Update(flight[b])
    BY <1>4 DEF TransferStep, EndPush, PushBreaks, BeginPush, PushFails
  <2> DEFINE f == flight[b]
  <2>2. f.target.remote \in Remotes /\ f.target.ref \in Refs
    BY <2>1 DEF TypeOK, Flight, Target
  <2>3. remote' = [remote EXCEPT ![f.target.remote][f.target.ref] = f.to]
    BY <2>1 DEF Update
  <2> HIDE DEF f
  <2>4. f.target.remote = m /\ f.target.ref = r /\ remote'[m][r] = f.to
    BY <2>2, <2>3 DEF TypeOK
  <2> QED
    BY <2>1, <2>4 DEF f
<1>5. CASE UNCHANGED vars
  BY <1>5 DEF vars, mirrorVars
<1> QED
  BY <1>1, <1>2, <1>3, <1>4, <1>5, Steps

\* What arrives descends from what was there.
LEMMA Forward ==
  ASSUME IInv, [Next]_vars, NEW m \in Remotes, NEW r \in Refs,
         remote'[m][r] # remote[m][r]
  PROVE  /\ Made(remote'[m][r], r)
         /\ remote[m][r] \in {Null} \cup below[remote'[m][r]][r]
<1>1. PICK a \in Actors :
        /\ flight[a] # Null /\ Taken(flight[a])
        /\ flight[a].target.remote = m /\ flight[a].target.ref = r
        /\ remote'[m][r] = flight[a].to
  BY RemoteMoves DEF IInv
<1>2. flight[a].to # Null /\ remote[m][r] = flight[a].from
      /\ flight[a].from \in {Null, flight[a].to} \cup below[flight[a].to][r]
  BY <1>1 DEF Taken
<1>3. Made(flight[a].to, r)
  BY <1>1, <1>2 DEF IInv, History
<1> QED
  BY <1>1, <1>2, <1>3

\* The push of a commit makes it the newest one.
LEMMA PushHistory ==
  ASSUME IInv, NEW p \in Pushes, PushStep(p)
  PROVE  History'
<1> PICK rewritten \in SUBSET RefsOf[p], deleted \in SUBSET RefsOf[p],
         mirrors \in Configs : Push(p, rewritten, deleted, mirrors)
  BY DEF PushStep
<1>1. TypeOK /\ History
  BY DEF IInv
<1>2. /\ hook[p] = "idle" /\ hook'[p] = "started" /\ updated'[p] = RefsOf[p] \ deleted
      /\ \A c \in Pushes \ {p} : hook'[c] = hook[c] /\ updated'[c] = updated[c]
  BY <1>1 DEF Push, TypeOK
<1>3. /\ \A r \in Refs : head'[r] = CASE r \in deleted             -> Null
                                      [] r \in RefsOf[p] \ deleted -> p
                                      [] OTHER                     -> head[r]
      /\ UNCHANGED flight
  BY DEF Push, mirrorVars
<1>4. \A r \in Refs : head'[r] \in {Null, head[r]} \/ (head'[r] = p /\ r \in updated'[p])
  BY <1>2, <1>3
<1>5. /\ \A c \in Pushes \ {p} : below'[c] = below[c]
      /\ \A r \in Refs : below'[p][r] = IF r \in rewritten \/ head[r] = Null THEN {}
                                        ELSE below[head[r]][r] \cup {head[r]}
  BY <1>1 DEF Push, TypeOK
<1>6. \A c, r : Made(c, r) => c # p /\ Made(c, r)'
  BY <1>2 DEF Made
<1>7. \A c \in Pushes : hook[c] # "idle" => hook'[c] # "idle"
  BY <1>2
<1>8. \A r \in Refs : /\ head[r] # Null => Made(head[r], r)
                      /\ \A c \in Pushes : \A d \in below[c][r] : d \in Pushes /\ hook[d] # "idle"
  BY <1>1 DEF History, TypeOK
<1>9. \A r \in Refs : head'[r] # Null => Made(head[r], r)'
  <2> SUFFICES ASSUME NEW r \in Refs, head'[r] # Null
               PROVE  head'[r] \in Pushes /\ hook'[head'[r]] # "idle" /\ r \in updated'[head'[r]]
    BY DEF Made
  <2>1. CASE head'[r] = head[r]
    <3> DEFINE c == head[r]
    <3>1. Made(c, r)
      BY <1>8, <2>1
    <3> HIDE DEF c
    <3>2. c # p /\ c \in Pushes /\ hook'[c] # "idle" /\ r \in updated'[c]
      BY <1>2, <3>1 DEF Made
    <3> QED
      BY <2>1, <3>2 DEF c
  <2>2. CASE head'[r] = p /\ r \in updated'[p]
    BY <1>2, <2>2
  <2> QED
    BY <1>4, <2>1, <2>2
<1>10. ASSUME NEW a \in Actors, flight'[a] # Null, flight'[a].to # Null
       PROVE  Made(flight[a].to, flight[a].target.ref)'
  <2> DEFINE c == flight[a].to
             r == flight[a].target.ref
  <2>1. Made(c, r)
    BY <1>1, <1>3, <1>10 DEF History
  <2> HIDE DEF c, r
  <2>2. c # p /\ c \in Pushes /\ hook'[c] # "idle" /\ r \in updated'[c]
    BY <1>2, <2>1 DEF Made
  <2> QED
    BY <1>3, <2>2 DEF c, r, Made
<1>11. ASSUME NEW c \in Pushes, NEW r \in Refs
       PROVE  /\ \A d \in below'[c][r] : hook'[d] # "idle"
              /\ Made(c, r)' => head'[r] \notin below'[c][r]
  <2>1. CASE c # p
    <3>1. below'[c][r] = below[c][r] /\ p \notin below[c][r] /\ Null \notin below[c][r]
      BY <1>1, <1>2, <1>5, <1>8, <2>1 DEF TypeOK
    <3>2. Made(c, r)' => Made(c, r)
      BY <1>2, <2>1 DEF Made
    <3>3. Made(c, r) => head[r] \notin below[c][r]
      BY <1>1 DEF History
    <3> QED
      BY <1>4, <1>7, <1>8, <3>1, <3>2, <3>3
  <2>2. CASE c = p
    <3>1. \A d \in below'[p][r] : d \in Pushes /\ hook[d] # "idle"
      <4>1. CASE r \in rewritten \/ head[r] = Null
        BY <1>5, <4>1
      <4>2. CASE ~(r \in rewritten \/ head[r] = Null)
        <5>1. Made(head[r], r) /\ below'[p][r] = below[head[r]][r] \cup {head[r]}
          BY <1>5, <1>8, <4>2
        <5> QED
          BY <1>8, <5>1 DEF Made
      <4> QED
        BY <4>1, <4>2
    <3>2. p \notin below'[p][r]
      BY <1>2, <3>1
    <3>3. Made(p, r)' => head'[r] = p
      BY <1>2, <1>3 DEF Made
    <3> QED
      BY <1>7, <2>2, <3>1, <3>2, <3>3
  <2> QED
    BY <2>1, <2>2
<1> QED
  BY <1>9, <1>10, <1>11 DEF History

\* Nothing else touches the history.
LEMMA KeepHistory ==
  ASSUME IInv, [Next]_vars
  PROVE  History'
<1>1. CASE \E p \in Pushes : PushStep(p)
  BY <1>1, PushHistory
<1>2. CASE \/ ServerStep
           \/ \E p \in Pushes : HookStep(p)
           \/ \E p, r : TaskStep(p, r)
           \/ \E a, t : TransferStep(a, t)
           \/ UNCHANGED vars
  <2>1. /\ UNCHANGED <<updated, listed, head, below>>
        /\ \A c \in Pushes : hook[c] = "idle" <=> hook'[c] = "idle"
    BY <1>2, NoPush DEF IInv
  <2>2. TypeOK /\ History
    BY DEF IInv
  <2>3. ASSUME NEW a \in Actors, flight'[a] # Null, flight'[a].to # Null
        PROVE  Made(flight'[a].to, flight'[a].target.ref)
    <3>1. CASE flight'[a] = flight[a]
      BY <2>2, <2>3, <3>1 DEF History
    <3>2. ASSUME NEW t \in Target, flight'[a].target = t, flight'[a].to = head[t.ref]
          PROVE  Made(flight'[a].to, flight'[a].target.ref)
      <4>1. t.ref \in Refs
        BY DEF Target
      <4> QED
        BY <2>2, <2>3, <3>2, <4>1 DEF History
    <3> QED
      BY <2>2, <2>3, <3>1, <3>2, FlightMoves
  <2>4. \A c, r : Made(c, r) <=> c \in Pushes /\ hook'[c] # "idle" /\ r \in updated'[c]
    BY <2>1 DEF Made
  <2>5. \A r \in Refs : head'[r] # Null => Made(head[r], r)'
    <3>1. \A r \in Refs : head[r] # Null => Made(head[r], r)
      BY <2>2 DEF History
    <3> QED
      BY <2>1, <2>4, <3>1 DEF Made
  <2>6. \A a \in Actors :
          flight'[a] # Null /\ flight'[a].to # Null => Made(flight[a].to, flight[a].target.ref)'
    BY <2>3, <2>4 DEF Made
  <2>7. \A c \in Pushes, r \in Refs : \A d \in below'[c][r] : hook'[d] # "idle"
    BY <2>1, <2>2 DEF History, TypeOK
  <2>8. \A c \in Pushes, r \in Refs : Made(c, r)' => head'[r] \notin below'[c][r]
    BY <2>1, <2>2, <2>4 DEF History, Made
  <2> QED
    BY <2>5, <2>6, <2>7, <2>8 DEF History
<1> QED
  BY <1>1, <1>2, Steps

-----------------------------------------------------------------------------
(* Deliveries *)

\* A reported failure stays reported.
LEMMA MissedGrows ==
  ASSUME [Next]_vars
  PROVE  missed \subseteq missed' /\ hidden \subseteq hidden'
<1>1. CASE ServerStep
  BY <1>1 DEF ServerStep, Start, Bind, Listen, Die, mirrorVars
<1>2. ASSUME NEW p \in Pushes, PushStep(p) \/ HookStep(p) PROVE UNCHANGED <<missed, hidden>>
  BY <1>2 DEF PushStep, Push, HookStep, Hook, CheckSocket, Connect, WriteEvent, HookDies,
     mirrorVars
<1>3. ASSUME NEW p, NEW r, TaskStep(p, r)
      PROVE  missed \subseteq missed' /\ hidden \subseteq hidden'
  BY <1>3 DEF TaskStep, Accept, ReadEvent, RunCi, Finish, ReadConfig, ConfigFails, ConfigHidden, ManualPush,
     ManualFails, ManualDone, mirrorVars, Miss
<1>4. ASSUME NEW a, NEW t, TransferStep(a, t)
      PROVE  missed \subseteq missed' /\ hidden = hidden'
  BY <1>4 DEF TransferStep, EndPush, PushBreaks, BeginPush, PushFails, Report, Miss
<1>5. CASE UNCHANGED vars
  BY <1>5 DEF vars, mirrorVars
<1> QED
  BY <1>1, <1>2, <1>3, <1>4, <1>5, Steps

\* The newest commit of a ref was the newest one before, unless it is pushed now.
LEMMA NewestStays ==
  ASSUME IInv, [Next]_vars, NEW p \in Pushes, NEW r \in Refs,
         head'[r] = p, hook'[p] = "sent"
  PROVE  head[r] = p /\ listed'[p] = listed[p] /\ r \in updated[p]
<1>1. TypeOK
  BY DEF IInv
<1>2. head[r] = p /\ listed'[p] = listed[p]
  <2>1. ASSUME NEW q \in Pushes, PushStep(q) PROVE head[r] = p /\ listed'[p] = listed[p]
    <3> PICK rewritten \in SUBSET RefsOf[q], deleted \in SUBSET RefsOf[q],
             mirrors \in Configs : Push(q, rewritten, deleted, mirrors)
      BY <2>1 DEF PushStep
    <3>1. hook'[q] = "started"
      BY <1>1 DEF Push, TypeOK
    <3>2. q # p
      BY <3>1
    <3>3. listed'[p] = listed[p]
      BY <1>1, <3>2 DEF Push, TypeOK
    <3>4. head'[r] \in {Null, q, head[r]}
      BY DEF Push
    <3> QED
      BY <3>2, <3>3, <3>4
  <2> QED
    BY <1>1, <2>1, NoPush, Steps
<1>3. r \in updated[p]
  BY <1>2 DEF IInv, History, Made
<1> QED
  BY <1>2, <1>3

\* No push that is still on its way replaces the newest commit.
LEMMA NewestRemains ==
  ASSUME IInv, [Next]_vars, NEW r \in Refs, NEW m \in Remotes, head[r] # Null,
         remote[m][r] = head[r]
  PROVE  remote'[m][r] = remote[m][r]
<1> SUFFICES ASSUME remote'[m][r] # remote[m][r]
             PROVE  FALSE
  OBVIOUS
<1> DEFINE c == remote'[m][r]
<1>1. Made(c, r) /\ remote[m][r] \in {Null} \cup below[c][r]
  BY Forward
<1> HIDE DEF c
<1>2. head[r] \in below[c][r] /\ c \in Pushes
  BY <1>1 DEF Made
<1> QED
  BY <1>1, <1>2 DEF IInv, History

\* What a step of somebody else leaves of a task.
Untouched(p) ==
  /\ task'[p] = task[p] /\ unread'[p] = unread[p]
  /\ todo'[p] = todo[p] /\ flight'[p] = flight[p]

LEMMA OthersUntouched ==
  ASSUME IInv, NEW p \in Pushes
  PROVE  /\ ServerStep => hook'[p] = hook[p] /\ (task'[p] = "dropped" \/ Untouched(p))
         /\ \A q \in Pushes : PushStep(q) => Untouched(p) /\ (p # q => hook'[p] = hook[p])
         /\ \A q \in Pushes \ {p} : HookStep(q) => hook'[p] = hook[p] /\ Untouched(p)
         /\ \A q, r : q # p /\ TaskStep(q, r) => hook'[p] = hook[p] /\ Untouched(p)
         /\ \A r : ManualFails \/ ManualDone \/ (r \in Refs /\ ManualPush(r)) =>
                    hook'[p] = hook[p] /\ Untouched(p)
         /\ \A b, t : b # p /\ TransferStep(b, t) => hook'[p] = hook[p] /\ Untouched(p)
<1>1. TypeOK /\ p \in Actors /\ p # Operator /\ Operator \in Actors
  BY ActorFacts DEF IInv
<1>2. ServerStep => hook'[p] = hook[p] /\ (task'[p] = "dropped" \/ Untouched(p))
  <2>1. CASE Start \/ Bind \/ Listen
    BY <2>1 DEF Start, Bind, Listen, hookVars, mirrorVars, Untouched
  <2>2. CASE Die
    BY <1>1, <2>2 DEF Die, TypeOK, hookVars, Untouched
  <2> QED
    BY <2>1, <2>2 DEF ServerStep
<1>3. ASSUME NEW q \in Pushes, PushStep(q) PROVE Untouched(p) /\ (p # q => hook'[p] = hook[p])
  BY <1>1, <1>3 DEF PushStep, Push, mirrorVars, Untouched, TypeOK
<1>4. ASSUME NEW q \in Pushes \ {p}, HookStep(q) PROVE hook'[p] = hook[p] /\ Untouched(p)
  BY <1>1, <1>4 DEF HookStep, Hook, CheckSocket, Connect, WriteEvent, HookDies, mirrorVars,
     Untouched, TypeOK
<1>5. ASSUME NEW r, ManualFails \/ ManualDone \/ (r \in Refs /\ ManualPush(r))
      PROVE  hook'[p] = hook[p] /\ Untouched(p)
  BY <1>1, <1>5 DEF ManualFails, ManualDone, ManualPush, hookVars, mirrorVars, Untouched, TypeOK
<1>6. ASSUME NEW q, NEW r, q # p, TaskStep(q, r) PROVE hook'[p] = hook[p] /\ Untouched(p)
  <2>1. q \in Pushes => q \in Actors
    BY ActorFacts
  <2>2. CASE q \in Pushes /\ (Accept(q) \/ ReadEvent(q) \/ RunCi(q) \/ Finish(q))
    BY <1>1, <1>6, <2>1, <2>2 DEF Accept, ReadEvent, RunCi, Finish, hookVars, mirrorVars,
       Untouched, TypeOK
  <2>3. CASE q \in Pushes /\ r \in Refs /\
               (ReadConfig(q, r) \/ ConfigFails(q, r) \/ ConfigHidden(q, r))
    BY <1>1, <1>6, <2>1, <2>3 DEF ReadConfig, ConfigFails, ConfigHidden, hookVars, Untouched, TypeOK
  <2> QED
    BY <1>5, <1>6, <2>2, <2>3 DEF TaskStep
<1>7. ASSUME NEW b, NEW t, b # p, TransferStep(b, t) PROVE hook'[p] = hook[p] /\ Untouched(p)
  <2>1. b \in Actors
    BY <1>7 DEF TransferStep
  <2>2. CASE EndPush(b) \/ PushBreaks(b)
    BY <1>1, <1>7, <2>1, <2>2 DEF EndPush, PushBreaks, Land, hookVars, Untouched, TypeOK
  <2>3. CASE t \in Target /\ (BeginPush(b, t) \/ PushFails(b, t))
    BY <1>1, <1>7, <2>1, <2>3 DEF BeginPush, PushFails, hookVars, Untouched, TypeOK
  <2> QED
    BY <1>7, <2>2, <2>3 DEF TransferStep
<1> QED
  BY <1>2, <1>3, <1>4, <1>5, <1>6, <1>7

\* What became of a mirror is on record: in the log, or as a config that was hidden.
Recorded(p, r, m) == Reported(p, r, m) \/ <<p, r>> \in hidden

\* The steps of its own task bring the newest commit to the mirror or report why not.
LEMMA TaskDelivers ==
  ASSUME IInv, NEW p \in Pushes, NEW r \in Refs, NEW m \in Remotes, NEW s,
         TaskStep(p, s), head[r] = p, r \in updated[p], m \in listed[p],
         hook[p] = "sent", task'[p] \in {"mirror", "over"}
  PROVE  \/ task[p] = "ci" /\ task'[p] = "mirror" /\ r \in unread'[p]
         \/ task[p] \in {"mirror", "over"}
            /\ (task[p] = "mirror" /\ Underway(p, r, m) =>
                  (task'[p] = "mirror" /\ Underway(p, r, m)') \/ Recorded(p, r, m)')
<1>1. /\ TypeOK /\ Conversation(p) /\ p \in Actors /\ p # Operator /\ Operator \in Actors
      /\ head[r] = p /\ task[p] \in TaskStates
  BY ActorFacts DEF IInv, TypeOK
<1>2. CASE Accept(p) \/ ReadEvent(p)
  BY <1>1, <1>2 DEF Accept, ReadEvent, Conversation, TypeOK
<1>3. CASE RunCi(p)
  <2>1. task[p] = "ci" /\ task'[p] = "mirror" /\ r \in unread'[p]
    BY <1>1, <1>3 DEF RunCi, TypeOK
  <2> QED
    BY <2>1
<1>4. CASE Finish(p)
  <2>1. task[p] = "mirror" /\ ~Underway(p, r, m)
    BY <1>4 DEF Finish, Ready, Underway
  <2> QED
    BY <2>1
<1>5. CASE s \in Refs /\ ReadConfig(p, s)
  <2>1. /\ task[p] = "mirror" /\ UNCHANGED <<task, flight>>
        /\ todo[p] = {} /\ flight[p] = Null
        /\ unread'[p] = unread[p] \ {s} /\ todo'[p] = [ref : {s}, remote : listed[p]]
    BY <1>1, <1>5 DEF ReadConfig, Ready, TypeOK
  <2>2. Underway(p, r, m) => r \in unread[p]
    BY <2>1 DEF Underway
  <2>3. s = r => [ref |-> r, remote |-> m] \in todo'[p]
    BY <2>1
  <2>4. Underway(p, r, m) => Underway(p, r, m)'
    BY <2>1, <2>2, <2>3 DEF Underway
  <2> QED
    BY <2>1, <2>4
<1>6. CASE s \in Refs /\ ConfigFails(p, s)
  <2>1. /\ task[p] = "mirror" /\ UNCHANGED <<task, flight, todo>>
        /\ unread'[p] = unread[p] \ {s}
        /\ missed' = missed \cup [by : {p}, target : [ref : {s}, remote : Remotes]]
    BY <1>1, <1>6 DEF ConfigFails, Ready, Miss, TypeOK
  <2>2. s = r => Reported(p, r, m)'
    BY <2>1 DEF Reported
  <2>3. s # r /\ Underway(p, r, m) => Underway(p, r, m)'
    BY <2>1 DEF Underway
  <2> QED
    BY <2>1, <2>2, <2>3 DEF Recorded
<1>7. CASE s \in Refs /\ ConfigHidden(p, s)
  <2>1. /\ task[p] = "mirror" /\ UNCHANGED <<task, flight, todo>>
        /\ unread'[p] = unread[p] \ {s}
        /\ hidden' = hidden \cup {<<p, s>>}
    BY <1>1, <1>7 DEF ConfigHidden, Ready, TypeOK
  <2>2. s = r => Recorded(p, r, m)'
    BY <2>1 DEF Recorded
  <2>3. s # r /\ Underway(p, r, m) => Underway(p, r, m)'
    BY <2>1 DEF Underway
  <2> QED
    BY <2>1, <2>2, <2>3
<1>8. CASE (s \in Refs /\ ManualPush(s)) \/ ManualFails \/ ManualDone
  <2>1. Untouched(p)
    BY <1>8, OthersUntouched
  <2>2. task[p] \in {"mirror", "over"} /\ (Underway(p, r, m) => Underway(p, r, m)')
    BY <2>1 DEF Untouched, Underway
  <2> QED
    BY <2>1, <2>2 DEF Untouched
<1> QED
  BY <1>2, <1>3, <1>4, <1>5, <1>6, <1>7, <1>8 DEF TaskStep

\* So do the pushes to remotes.
LEMMA TransferDelivers ==
  ASSUME IInv, NEW p \in Pushes, NEW r \in Refs, NEW m \in Remotes, NEW t,
         TransferStep(p, t), head[r] = p, r \in updated[p],
         task[p] = "mirror", Underway(p, r, m)
  PROVE  remote'[m][r] = p \/ Reported(p, r, m)' \/ Underway(p, r, m)'
<1> DEFINE x == [ref |-> r, remote |-> m]
<1>1. TypeOK /\ p \in Actors /\ p # Null /\ x.ref = r /\ x.remote = m
  BY ActorFacts DEF IInv
<1>2. UNCHANGED unread
  BY DEF TransferStep, EndPush, PushBreaks, BeginPush, PushFails
<1>3. CASE r \in unread[p]
  BY <1>2, <1>3 DEF Underway
<1>4. CASE x \in todo[p]
  <2>1. CASE EndPush(p) \/ PushBreaks(p)
    BY <1>4, <2>1 DEF EndPush, PushBreaks, Underway
  <2>2. CASE t \in Target /\ BeginPush(p, t)
    <3>1. todo'[p] = todo[p] \ {t}
      BY <1>1, <2>2 DEF BeginPush, TypeOK
    <3>2. t # x => x \in todo'[p]
      BY <1>4, <3>1
    <3>3. CASE t = x
      <4>1. flight'[p] = [target |-> x, from |-> remote[m][r], to |-> head[r]]
        <5>1. flight'[p] = [target |-> t, from |-> remote[t.remote][t.ref], to |-> head[t.ref]]
          BY <1>1, <2>2 DEF BeginPush, TypeOK
        <5> QED
          BY <1>1, <3>3, <5>1
      <4>2. flight' \in [Actors -> Flight \cup {Null}]
        <5>1. TypeOK'
          BY TransferTypes, <1>1
        <5> QED
          BY <5>1 DEF TypeOK
      <4>3. flight'[p] # Null
        <5>1. x \in Target /\ remote[m][r] \in Pushes \cup {Null} /\ head[r] \in Pushes \cup {Null}
          BY <1>1 DEF TypeOK, Target
        <5>2. [target |-> x, from |-> remote[m][r], to |-> head[r]] \in Flight
          BY <5>1 DEF Flight
        <5> QED
          BY <4>1, <5>2
      <4>4. flight'[p].to = p /\ flight'[p].target = x
        BY <4>1
      <4> QED
        BY <4>3, <4>4 DEF Underway
    <3> QED
      BY <3>2, <3>3 DEF Underway
  <2>3. CASE t \in Target /\ PushFails(p, t)
    <3>1. todo'[p] = todo[p] \ {t} /\ missed' = missed \cup [by : {p}, target : {t}]
      BY <1>1, <2>3 DEF PushFails, Miss, TypeOK
    <3>2. t # x => x \in todo'[p]
      BY <1>4, <3>1
    <3>3. t = x => Reported(p, r, m)'
      BY <3>1 DEF Reported
    <3> QED
      BY <3>2, <3>3 DEF Underway
  <2> QED
    BY <2>1, <2>2, <2>3 DEF TransferStep
<1>5. CASE flight[p] # Null /\ flight[p].to = p /\ flight[p].target = x
  <2>1. CASE EndPush(p) \/ PushBreaks(p)
    <3>1. CASE Update(flight[p])
      <4>1. remote' = [remote EXCEPT ![m][r] = p]
        BY <1>1, <1>5, <3>1 DEF Update
      <4> QED
        BY <1>1, <4>1 DEF TypeOK
    <3>2. CASE Report(p)
      BY <1>5, <3>2 DEF Report, Miss, Reported
    <3> QED
      BY <2>1, <3>1, <3>2 DEF EndPush, PushBreaks
  <2>2. CASE BeginPush(p, t) \/ PushFails(p, t)
    BY <1>5, <2>2 DEF BeginPush, PushFails
  <2> QED
    BY <2>1, <2>2 DEF TransferStep
<1> QED
  BY <1>3, <1>4, <1>5 DEF Underway

LEMMA KeepDelivered ==
  ASSUME IInv, [Next]_vars, NEW p \in Pushes, NEW r \in Refs, NEW m \in Remotes
  PROVE  Delivered(p, r, m)'
<1> SUFFICES ASSUME head'[r] = p, hook'[p] = "sent", task'[p] \in {"mirror", "over"},
                    m \in listed'[p]
             PROVE  \/ remote'[m][r] = p
                    \/ Recorded(p, r, m)'
                    \/ task'[p] = "mirror" /\ Underway(p, r, m)'
  BY DEF Delivered, Recorded
<1>1. /\ TypeOK /\ Conversation(p) /\ Delivered(p, r, m) /\ p \in Actors /\ p # Operator
      /\ p # Null
  BY ActorFacts DEF IInv
<1>2. head[r] = p /\ m \in listed[p] /\ r \in updated[p]
  BY NewestStays
<1>3. remote[m][r] = p => remote'[m][r] = p
  BY <1>1, <1>2, NewestRemains
<1>4. Recorded(p, r, m) => Recorded(p, r, m)'
  BY MissedGrows DEF Recorded, Reported
<1>5. ASSUME Untouched(p), hook[p] = "sent"
      PROVE  \/ remote'[m][r] = p
             \/ Recorded(p, r, m)'
             \/ task'[p] = "mirror" /\ Underway(p, r, m)'
  <2>1. Underway(p, r, m) => Underway(p, r, m)'
    BY <1>5 DEF Untouched, Underway
  <2> QED
    BY <1>1, <1>2, <1>3, <1>4, <1>5, <2>1 DEF Untouched, Delivered, Recorded
<1>6. CASE ServerStep
  BY <1>5, <1>6, OthersUntouched
<1>7. ASSUME NEW q \in Pushes, PushStep(q)
      PROVE  Untouched(p) /\ hook[p] = "sent"
  <2>1. hook'[q] = "started"
    BY <1>1, <1>7 DEF PushStep, Push, TypeOK
  <2> QED
    BY <1>7, <2>1, OthersUntouched
<1>8. ASSUME NEW q \in Pushes, HookStep(q)
      PROVE  Untouched(p) /\ hook[p] = "sent"
  <2>1. q # p
    <3> SUFFICES ASSUME q = p PROVE FALSE
      OBVIOUS
    <3>1. hook[p] # "sent" /\ task'[p] \in {task[p], "backlog"}
      BY <1>1, <1>8 DEF HookStep, Hook, CheckSocket, Connect, WriteEvent, HookDies, TypeOK
    <3>2. task[p] = "over" /\ hook[p] = "killed"
      BY <1>1, <3>1 DEF Conversation
    <3> QED
      BY <1>8, <3>2 DEF HookStep, Hook, CheckSocket, Connect, WriteEvent, HookDies
  <2> QED
    BY <1>8, <2>1, OthersUntouched
<1>9. ASSUME NEW q, NEW s, TaskStep(q, s)
      PROVE  \/ remote'[m][r] = p
             \/ Recorded(p, r, m)'
             \/ task'[p] = "mirror" /\ Underway(p, r, m)'
  <2>1. CASE q # p
    BY <1>5, <1>9, <2>1, OthersUntouched
  <2>2. CASE q = p
    <3>1. hook[p] = "sent"
      BY <1>9 DEF TaskStep, Accept, ReadEvent, RunCi, Finish, ReadConfig, ConfigFails, ConfigHidden,
         ManualPush, ManualFails, ManualDone, hookVars
    <3>2. \/ task[p] = "ci" /\ task'[p] = "mirror" /\ r \in unread'[p]
          \/ task[p] \in {"mirror", "over"}
             /\ (task[p] = "mirror" /\ Underway(p, r, m) =>
                   (task'[p] = "mirror" /\ Underway(p, r, m)') \/ Recorded(p, r, m)')
      BY <1>2, <1>9, <2>2, <3>1, TaskDelivers
    <3> QED
      BY <1>1, <1>2, <1>3, <1>4, <3>1, <3>2 DEF Delivered, Underway, Recorded
  <2> QED
    BY <2>1, <2>2
<1>10. ASSUME NEW a, NEW t, TransferStep(a, t)
       PROVE  \/ remote'[m][r] = p
              \/ Recorded(p, r, m)'
              \/ task'[p] = "mirror" /\ Underway(p, r, m)'
  <2>1. CASE a # p
    BY <1>5, <1>10, <2>1, OthersUntouched
  <2>2. CASE a = p
    <3>1. UNCHANGED <<hook, task>>
      BY <1>10 DEF TransferStep, EndPush, PushBreaks, BeginPush, PushFails, hookVars
    <3>2. task[p] = "mirror" /\ Underway(p, r, m) =>
            remote'[m][r] = p \/ Recorded(p, r, m)' \/ Underway(p, r, m)'
      BY <1>2, <1>10, <2>2, TransferDelivers DEF Recorded
    <3> QED
      BY <1>1, <1>2, <1>3, <1>4, <3>1, <3>2 DEF Delivered, Recorded
  <2> QED
    BY <2>1, <2>2
<1>11. CASE UNCHANGED vars
  BY <1>5, <1>11 DEF vars, hookVars, mirrorVars, Untouched
<1> QED
  BY <1>5, <1>6, <1>7, <1>8, <1>9, <1>10, <1>11, Steps

-----------------------------------------------------------------------------
(* The theorems *)

LEMMA KeepTypes == ASSUME TypeOK, [Next]_vars PROVE TypeOK'
<1>1. CASE UNCHANGED vars
  BY <1>1 DEF vars, serverVars, hookVars, repoVars, mirrorVars, TypeOK
<1> QED
  BY <1>1, Steps, ServerTypes, PushTypes, HookTypes, TaskTypes, TransferTypes

LEMMA InitInv == Init => IInv
<1> SUFFICES ASSUME Init PROVE IInv
  OBVIOUS
<1>1. TypeOK
  BY DEF Init, TypeOK, HookStates, TaskStates
<1>2. SocketBound /\ \A p \in Pushes : Conversation(p)
  BY ActorFacts DEF Init, SocketBound, Conversation
<1>3. \A p \in Pushes : hook[p] = "idle"
  BY DEF Init
<1>4. History
  BY <1>3 DEF Init, History, Made
<1>5. \A p \in Pushes, r \in Refs, m \in Remotes : Delivered(p, r, m)
  BY <1>3 DEF Delivered
<1> QED
  BY <1>1, <1>2, <1>4, <1>5 DEF IInv

\* The invariant holds: the pairs of hook and task, the order of commits, and the
\* way of the newest commit to each mirror.
THEOREM Invariance == Spec => []IInv
<1>1. IInv /\ [Next]_vars => IInv'
  <2> SUFFICES ASSUME IInv, [Next]_vars PROVE IInv'
    OBVIOUS
  <2>1. TypeOK'
    BY KeepTypes DEF IInv
  <2> QED
    BY <2>1, KeepSocketBound, KeepConversation, KeepHistory, KeepDelivered DEF IInv
<1> QED
  BY <1>1, InitInv, PTL DEF Spec

\* No mirror lags in silence, however pushes, tasks, hand-made pushes and deaths
\* of the server interleave (trigger, push_all and push_remote).
THEOREM NothingLags == Spec => []NoSilentLag
<1>1. IInv => NoSilentLag
  BY DEF IInv, NoSilentLag, Settled, Delivered
<1> QED
  BY <1>1, Invariance, PTL

\* A ref of a remote only moves along the history of the repository (push_remote).
THEOREM RemotesFollow == Spec => RemotesMoveForward
<1> DEFINE Step == \A m \in Remotes, r \in Refs :
                     remote'[m][r] # remote[m][r] =>
                       /\ remote'[m][r] \in Pushes
                       /\ r \in updated[remote'[m][r]]
                       /\ remote[m][r] \in {Null} \cup below[remote'[m][r]][r]
<1>1. IInv /\ [Next]_vars => Step
  BY Forward DEF Made
<1> QED
  BY <1>1, Invariance, PTL DEF Spec, RemotesMoveForward

\* A hook that warns or fails had no server (server::run and post_receive).
THEOREM HooksAreHeard == Spec => HookFindsServer
<1> DEFINE Step == \A p \in Pushes :
                     hook[p] \in {"started", "connecting"} /\ hook'[p] \in {"warned", "failed"} =>
                       srv \in {"down", "starting"}
<1>1. IInv /\ [Next]_vars => Step
  <2> SUFFICES ASSUME IInv, [Next]_vars, NEW p \in Pushes,
                      hook[p] \in {"started", "connecting"}, hook'[p] \in {"warned", "failed"}
               PROVE  srv \in {"down", "starting"}
    OBVIOUS
  <2>1. TypeOK /\ SocketBound
    BY DEF IInv
  <2>2. CASE HookStep(p)
    <3>1. socket # "listening"
      BY <2>1, <2>2 DEF HookStep, Hook, CheckSocket, Connect, WriteEvent, HookDies, TypeOK
    <3> QED
      BY <2>1, <3>1 DEF SocketBound, TypeOK
  <2>3. ASSUME NEW q \in Pushes, PushStep(q) PROVE hook'[p] \in {hook[p], "started"}
    BY <2>1, <2>3 DEF PushStep, Push, TypeOK
  <2>4. ASSUME NEW a, NEW t, TransferStep(a, t) PROVE hook'[p] = hook[p]
    BY <2>4 DEF TransferStep, EndPush, PushBreaks, BeginPush, PushFails, hookVars
  <2>5. ASSUME NEW q, NEW s, TaskStep(q, s) PROVE hook'[p] = hook[p]
    BY <2>5 DEF TaskStep, Accept, ReadEvent, RunCi, Finish, ReadConfig, ConfigFails, ConfigHidden,
       ManualPush, ManualFails, ManualDone, hookVars
  <2>6. UNCHANGED vars => hook'[p] = hook[p]
    BY DEF vars, hookVars
  <2> QED
    BY <2>2, <2>3, <2>4, <2>5, <2>6, Steps, OthersUntouched
<1> QED
  BY <1>1, Invariance, PTL DEF Spec, HookFindsServer

==============================================================================
