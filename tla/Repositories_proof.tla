-------------------------- MODULE Repositories_proof --------------------------
(***************************************************************************)
(* Proofs about Repositories, for any sessions and any names: whatever     *)
(* they do at the same time and wherever they are killed, what is below    *)
(* <base>/repos stays a tree of groups and repositories.                   *)
(***************************************************************************)
EXTENDS Repositories, SequenceTheorems, TLAPS

USE DotGitAssumption, RawNamesAssumption

-----------------------------------------------------------------------------
(* Paths                                                                   *)

\* The paths of directories.
Short == {n \in Seq(Segments) : Len(n) \in 1..2}

LEMMA UptoIs ==
  ASSUME NEW n \in Seq(Segments)
  PROVE  Upto(n) = {SubSeq(n, 1, k) : k \in 1..Len(n)}
<1>1. Len(n) \in Nat
  OBVIOUS
<1>2. SubSeq(n, 1, 0) = <<>>
  BY SubSeqEmpty
<1>3. ASSUME NEW k \in 1..Len(n)
      PROVE  /\ SubSeq(n, 1, k) \in Seq(Segments)
             /\ Len(SubSeq(n, 1, k)) = k /\ SubSeq(n, 1, k) # <<>>
  <2>1. \A i \in 1..k : n[i] \in Segments
    BY <1>1, <1>3
  <2>2. SubSeq(n, 1, k) \in Seq(Segments) /\ Len(SubSeq(n, 1, k)) = k
    BY <1>1, <1>3, <2>1, SubSeqProperties
  <2> QED
    BY <2>2, <1>3
<1> QED
  BY <1>1, <1>2, <1>3 DEF Upto, Prefixes

\* The directories that a path needs are the path and, below a group, the group.
LEMMA UptoShort ==
  ASSUME NEW n \in Short
  PROVE  /\ n \in Upto(n)
         /\ \A m \in Upto(n) : m \in Short /\ Len(m) <= Len(n) /\ Upto(m) \subseteq Upto(n)
<1>1. n \in Seq(Segments) /\ Len(n) \in 1..2
  BY DEF Short
<1>2. n \in Upto(n)
  <2>1. SubSeq(n, 1, Len(n)) = n
    BY <1>1, SubSeqFull
  <2> QED
    BY <1>1, <2>1, UptoIs
<1>3. ASSUME NEW m \in Upto(n)
      PROVE  m \in Short /\ Len(m) <= Len(n) /\ Upto(m) \subseteq Upto(n)
  <2>1. PICK k \in 1..Len(n) : m = SubSeq(n, 1, k)
    BY <1>1, <1>3, UptoIs
  <2>2. \A i \in 1..k : n[i] \in Segments
    BY <1>1
  <2>3. m \in Seq(Segments) /\ Len(m) = k
    BY <1>1, <2>1, <2>2, SubSeqProperties
  <2>4. ASSUME NEW j \in 1..k PROVE SubSeq(m, 1, j) = SubSeq(n, 1, j)
    <3>1. \A i \in 1..j : m[i] \in Segments /\ m[i] = n[i]
      BY <1>1, <2>1, <2>2, <2>3, SubSeqProperties
    <3>2. /\ SubSeq(m, 1, j) \in Seq(Segments) /\ Len(SubSeq(m, 1, j)) = j
          /\ \A i \in 1..j : SubSeq(m, 1, j)[i] = m[i]
      BY <3>1, SubSeqProperties
    <3>3. /\ SubSeq(n, 1, j) \in Seq(Segments) /\ Len(SubSeq(n, 1, j)) = j
          /\ \A i \in 1..j : SubSeq(n, 1, j)[i] = n[i]
      BY <1>1, SubSeqProperties
    <3> QED
      BY <3>1, <3>2, <3>3, SeqEqual
  <2>5. Upto(m) \subseteq Upto(n)
    BY <1>1, <2>3, <2>4, UptoIs
  <2>6. Len(m) \in 1..2 /\ Len(m) <= Len(n)
    <3> DEFINE l == Len(n)
    <3>1. l \in 1..2 /\ k \in 1..l
      BY <1>1
    <3> HIDE DEF l
    <3>2. k \in 1..2 /\ k <= l
      BY <3>1
    <3> QED
      BY <2>3, <3>2 DEF l
  <2> QED
    BY <2>3, <2>5, <2>6 DEF Short
<1> QED
  BY <1>2, <1>3

\* What is below a path is what needs it.
LEMMA BelowNeeds ==
  ASSUME NEW n \in Short, NEW d \in Short
  PROVE  /\ IsPrefix(n, d) <=> n \in Upto(d)
         /\ IsStrictPrefix(n, d) <=> n \in Upto(d) /\ n # d
<1>1. /\ n \in Seq(Segments) /\ Len(n) \in 1..2
      /\ d \in Seq(Segments) /\ Len(d) \in 1..2
  BY DEF Short
<1>2. SubSeq(n, 1, Len(n)) = n
  BY <1>1, SubSeqFull
<1>3. Len(n) <= Len(d) /\ n = SubSeq(d, 1, Len(n)) => n \in Upto(d)
  BY <1>1, UptoIs
<1>4. ASSUME n \in Upto(d) PROVE Len(n) <= Len(d) /\ n = SubSeq(d, 1, Len(n))
  <2>1. PICK k \in 1..Len(d) : n = SubSeq(d, 1, k)
    BY <1>1, <1>4, UptoIs
  <2>2. \A i \in 1..k : d[i] \in Segments
    BY <1>1
  <2>3. Len(n) = k
    BY <1>1, <2>1, <2>2, SubSeqProperties
  <2> QED
    BY <1>1, <2>1, <2>3
<1> QED
  BY <1>2, <1>3, <1>4 DEF IsPrefix, IsStrictPrefix

\* The group of a path.
LEMMA Group ==
  ASSUME NEW n \in Short
  PROVE  /\ Upto(Front(n)) \subseteq Upto(n)
         /\ Len(n) = 1 => Upto(Front(n)) = {}
         /\ Len(n) = 2 => Front(n) \in Upto(n) /\ Front(n) # n
<1>1. n \in Seq(Segments) /\ Len(n) \in 1..2
  BY DEF Short
<1>2. CASE Len(n) = 1
  <2> DEFINE e == Front(n)
  <2>1. e = <<>>
    BY <1>2, SubSeqEmpty DEF Front
  <2>2. e \in Seq(Segments) /\ Len(e) = 0
    BY <2>1
  <2> HIDE DEF e
  <2>3. Upto(e) = {SubSeq(e, 1, k) : k \in 1..Len(e)}
    BY <2>2, UptoIs
  <2>4. Upto(e) = {}
    BY <2>2, <2>3
  <2> QED
    BY <1>2, <2>4 DEF e
<1>3. CASE Len(n) = 2
  <2>1. Front(n) = SubSeq(n, 1, 1)
    BY <1>3 DEF Front
  <2>2. Front(n) \in Upto(n)
    <3>1. Upto(n) = {SubSeq(n, 1, k) : k \in 1..2}
      BY <1>1, <1>3, UptoIs
    <3> QED
      BY <2>1, <3>1
  <2>3. Len(Front(n)) = 1
    <3>1. \A i \in 1..1 : n[i] \in Segments
      BY <1>1, <1>3
    <3> QED
      BY <2>1, <3>1, SubSeqProperties
  <2> QED
    BY <1>3, <2>2, <2>3, UptoShort
<1> QED
  BY <1>1, <1>2, <1>3

-----------------------------------------------------------------------------
(* The tree                                                                *)

\* What TypeOK says about directories.
IsTree(S) == S \subseteq Short /\ \A d \in S : Upto(d) \subseteq S

LEMMA TreeOfTypes ==
  ASSUME dirs \subseteq Seq(Segments)
  PROVE  IsTree(dirs) <=> \A d \in dirs : Len(d) \in 1..2 /\ Upto(d) \subseteq dirs
BY DEF IsTree, Short

LEMMA NamesAreShort ==
  ASSUME NEW n \in Seq(Segments), IsRepoName(n)
  PROVE  n \in Short
BY DEF IsRepoName, Short

\* Making a directory with all that it needs,
LEMMA TreeGrows ==
  ASSUME NEW S, IsTree(S), NEW n \in Short
  PROVE  IsTree(S \cup Upto(n)) /\ IsTree(S \cup Upto(Front(n)))
<1>1. \A m \in Upto(n) : m \in Short /\ Upto(m) \subseteq Upto(n)
  BY UptoShort
<1>2. \A m \in Upto(Front(n)) : m \in Short /\ Upto(m) \subseteq Upto(Front(n))
  <2>1. CASE Len(n) = 2
    <3>1. Front(n) \in Short
      BY <2>1, <1>1, Group
    <3> QED
      BY <3>1, UptoShort
  <2>2. CASE Len(n) = 1
    <3>1. Upto(Front(n)) = {}
      BY <2>2, Group
    <3> QED
      BY <3>1
  <2> QED
    BY <2>1, <2>2 DEF Short
<1> QED
  BY <1>1, <1>2 DEF IsTree

\* removing all that is below one,
LEMMA TreeIsPruned ==
  ASSUME IsTree(dirs), NEW n \in Short
  PROVE  IsTree(dirs \ Below(n))
<1> SUFFICES ASSUME NEW d \in dirs \ Below(n), NEW m \in Upto(d)
             PROVE  m \notin Below(n)
  BY DEF IsTree
<1>1. d \in Short /\ m \in Short /\ Upto(m) \subseteq Upto(d) /\ Len(m) <= Len(d)
  BY UptoShort DEF IsTree
<1>2. ASSUME m \in Below(n) PROVE FALSE
  <2>1. n \in Upto(m) /\ n # m
    BY <1>1, <1>2, BelowNeeds DEF Below
  <2>2. n \in Upto(d) /\ n = d
    BY <1>1, <2>1, BelowNeeds DEF Below
  <2>3. IsPrefix(m, n) /\ IsPrefix(n, m)
    BY <1>1, <2>1, <2>2, BelowNeeds
  <2>4. SubSeq(n, 1, Len(n)) = n /\ SubSeq(m, 1, Len(m)) = m
    BY <1>1, SubSeqFull DEF Short
  <2>5. Len(m) = Len(n)
    BY <1>1, <2>3 DEF IsPrefix, Short
  <2> QED
    BY <2>1, <2>3, <2>4, <2>5 DEF IsPrefix
<1> QED
  BY <1>2

\* and removing one that is empty leaves a tree.
LEMMA LeafGoes ==
  ASSUME IsTree(dirs), NEW n \in Short, Empty(n)
  PROVE  IsTree(dirs \ {n})
<1> SUFFICES ASSUME NEW d \in dirs \ {n}
             PROVE  n \notin Upto(d)
  BY DEF IsTree
<1>1. d \in Short /\ d \notin Below(n)
  BY DEF Empty, IsTree
<1> QED
  BY <1>1, BelowNeeds DEF Below

-----------------------------------------------------------------------------
(* The invariant                                                           *)

LEMMA InitIInv == Init => IInv
BY EmptySeq DEF Init, IInv, TypeOK, Places, Replies

\* A session goes on, or ends its command.
LEMMA Moves ==
  ASSUME IInv, NEW s \in Sessions,
         \/ \E p \in Places : Go(s, p) /\ UNCHANGED reply
         \/ \E how \in Replies : End(s, how)
  PROVE  /\ pc' \in [Sessions -> Places] /\ reply' \in [Sessions -> Replies]
         /\ \A t \in Sessions \ {s} : pc'[t] = pc[t]
BY DEF IInv, Go, End, Places, Replies

\* A command begins with a name that parses.
LEMMA BeginIInv ==
  ASSUME IInv, NEW s \in Sessions, NEW n \in Seq(Segments), NEW p \in Places,
         UNCHANGED <<dirs, heads>>,
         \/ IsRepoName(n) /\ Go(s, p) /\ name' = [name EXCEPT ![s] = n] /\ UNCHANGED reply
         \/ (\E how \in Replies : End(s, how)) /\ UNCHANGED name
  PROVE  IInv'
<1>1. /\ pc' \in [Sessions -> Places] /\ reply' \in [Sessions -> Replies]
      /\ \A t \in Sessions \ {s} : pc'[t] = pc[t]
  BY Moves
<1>2. name' \in [Sessions -> Seq(Segments)]
  BY DEF IInv
<1>3. \A t \in Sessions : pc'[t] # "idle" => IsRepoName(name'[t])
  <2>1. \A t \in Sessions \ {s} : name'[t] = name[t]
    BY DEF IInv
  <2>2. pc'[s] # "idle" => IsRepoName(name'[s])
    BY DEF IInv, Go, End
  <2> QED
    BY <1>1, <2>1, <2>2 DEF IInv, TypeOK
<1>4. (Listed = Listed')
  BY DEF Listed
<1> QED
  BY <1>1, <1>2, <1>3, <1>4 DEF IInv, TypeOK

\* A step of a command works on the tree below repos.
LEMMA StepIInv ==
  ASSUME IInv, NEW s \in Sessions, Step(s)
  PROVE  IInv'
<1> DEFINE n == name[s]
<1>1. /\ pc[s] # "idle" /\ n \in Short /\ IsRepoName(n) /\ IsTree(dirs)
      /\ heads \subseteq dirs /\ \A h \in heads : IsRepoName(h)
  <2>1. pc[s] # "idle"
    BY DEF Step, MakeParent, InitDirectory, InitFill, RmContents, RmDirectory, Tidy, Kill
  <2>2. IsRepoName(n) /\ n \in Seq(Segments)
    BY <2>1 DEF IInv, TypeOK
  <2> QED
    BY <2>1, <2>2, NamesAreShort, TreeOfTypes DEF IInv, TypeOK, Listed
<1>2. UNCHANGED name
  BY DEF Step, MakeParent, InitDirectory, InitFill, RmContents, RmDirectory, Tidy, Kill
<1>3. \/ \E p \in Places : Go(s, p) /\ UNCHANGED reply
      \/ \E how \in Replies : End(s, how)
  BY DEF Step, MakeParent, InitDirectory, InitFill, RmContents, RmDirectory, Tidy, Kill, Places,
     Replies
<1> HIDE DEF n
<1>4. /\ IsTree(dirs)' /\ heads' \subseteq dirs'
      /\ \A h \in heads' : IsRepoName(h)
  <2>1. CASE MakeParent(s)
    BY <1>1, <2>1, TreeGrows DEF MakeParent, n, IsTree
  <2>2. CASE InitDirectory(s)
    BY <1>1, <2>2, TreeGrows DEF InitDirectory, n, IsTree
  <2>3. CASE InitFill(s)
    BY <1>1, <2>3 DEF InitFill, n, Exists, IsTree
  <2>4. CASE RmContents(s)
    <3>1. CASE Exists(n)
      <4>1. IsTree(dirs \ Below(n))
        BY <1>1, TreeIsPruned
      <4>2. dirs' = dirs \ Below(n) /\ heads' = heads \ (Below(n) \cup {n})
        BY <2>4, <3>1 DEF RmContents, n
      <4> QED
        BY <1>1, <4>1, <4>2 DEF IsTree
    <3>2. CASE ~Exists(n)
      BY <1>1, <2>4, <3>2 DEF RmContents, n, IsTree
    <3> QED
      BY <3>1, <3>2
  <2>5. CASE RmDirectory(s)
    <3>1. CASE Empty(n)
      <4>1. IsTree(dirs \ {n})
        BY <1>1, <3>1, LeafGoes
      <4>2. dirs' = dirs \ {n} /\ heads' = heads /\ n \notin heads
        BY <2>5, <3>1 DEF RmDirectory, n, Empty
      <4> QED
        BY <1>1, <4>1, <4>2 DEF IsTree
    <3>2. CASE ~Empty(n)
      BY <1>1, <2>5, <3>2 DEF RmDirectory, n, IsTree
    <3> QED
      BY <3>1, <3>2
  <2>6. CASE Tidy(s)
    <3> DEFINE g == Front(n)
    <3>1. CASE Len(n) = 2 /\ Empty(g)
      <4>1. g \in Short
        BY <1>1, <3>1, Group, UptoShort
      <4>2. dirs' = dirs \ {g} /\ heads' = heads
        BY <2>6, <3>1 DEF Tidy, Tidied, n
      <4> HIDE DEF g
      <4>3. IsTree(dirs \ {g}) /\ g \notin heads
        BY <1>1, <3>1, <4>1, LeafGoes DEF Empty
      <4> QED
        BY <1>1, <4>2, <4>3 DEF IsTree
    <3>2. CASE ~(Len(n) = 2 /\ Empty(g))
      <4>1. UNCHANGED <<dirs, heads>>
        BY <2>6, <3>2 DEF Tidy, Tidied, n
      <4> QED
        BY <1>1, <4>1 DEF IsTree
    <3> QED
      BY <3>1, <3>2
  <2>7. CASE Kill(s)
    BY <1>1, <2>7 DEF Kill, IsTree
  <2> QED
    BY <2>1, <2>2, <2>3, <2>4, <2>5, <2>6, <2>7 DEF Step
<1>5. dirs' \subseteq Seq(Segments) /\ heads' \subseteq Listed'
      /\ \A d \in dirs' : Len(d) \in 1..2 /\ Upto(d) \subseteq dirs'
  BY <1>4 DEF IsTree, Short, Listed
<1>6. /\ pc' \in [Sessions -> Places] /\ reply' \in [Sessions -> Replies]
      /\ \A t \in Sessions \ {s} : pc'[t] = pc[t]
  BY <1>3, Moves
<1>7. \A t \in Sessions : pc'[t] # "idle" => IsRepoName(name'[t])
  BY <1>1, <1>2, <1>6 DEF IInv, TypeOK, n
<1> QED
  BY <1>2, <1>5, <1>6, <1>7 DEF IInv, TypeOK

\* What `repo new` makes of a name is one.
LEMMA NormalizedIsPath ==
  ASSUME NEW raw \in RawNames
  PROVE  raw \in Seq(Segments) /\ Normalized(raw) \in Seq(Segments)
<1>1. /\ raw \in Seq(Segments) /\ raw # <<>>
      /\ Last(raw) \in DOMAIN DotGit \cup Suffixed
  OBVIOUS
<1>2. Len(raw) \in Nat \ {0}
  BY <1>1, EmptySeq
<1>3. CASE Last(raw) \notin Suffixed
  <2>1. DotGit[Last(raw)] \in Segments
    BY <1>1, <1>3 DEF Segments, Suffixed, Range
  <2>2. \A i \in 1..Len(raw) - 1 : raw[i] \in Segments
    BY <1>1, <1>2
  <2>3. Front(raw) \in Seq(Segments)
    BY <1>2, <2>2, SubSeqProperties DEF Front
  <2> QED
    BY <1>1, <1>3, <2>1, <2>3 DEF Normalized
<1> QED
  BY <1>1, <1>3 DEF Normalized

LEMMA NextIInv == IInv /\ [Next]_vars => IInv'
<1> SUFFICES ASSUME IInv, [Next]_vars PROVE IInv'
  OBVIOUS
<1>1. ASSUME NEW s \in Sessions, NEW raw \in RawNames, New(s, raw) PROVE IInv'
  <2> DEFINE n == Normalized(raw)
  <2>1. n \in Seq(Segments)
    BY NormalizedIsPath
  <2>2. UNCHANGED <<dirs, heads>>
        /\ \/ IsRepoName(n) /\ Go(s, "parent") /\ name' = [name EXCEPT ![s] = n]
              /\ UNCHANGED reply
           \/ End(s, "refused") /\ UNCHANGED name
    BY <1>1 DEF New
  <2> HIDE DEF n
  <2>3. "parent" \in Places /\ "refused" \in Replies
    BY DEF Places, Replies
  <2> QED
    BY <2>1, <2>2, <2>3, BeginIInv
<1>2. ASSUME NEW s \in Sessions, NEW n \in RawNames, Rm(s, n) PROVE IInv'
  <2>1. UNCHANGED <<dirs, heads>>
        /\ \/ IsRepoName(n) /\ Go(s, "empty") /\ name' = [name EXCEPT ![s] = n]
              /\ UNCHANGED reply
           \/ End(s, "refused") /\ UNCHANGED name
    BY <1>2 DEF Rm
  <2>2. "empty" \in Places /\ "refused" \in Replies /\ n \in Seq(Segments)
    BY NormalizedIsPath DEF Places, Replies
  <2> QED
    BY <2>1, <2>2, BeginIInv
<1>3. ASSUME NEW s \in Sessions, NEW n \in RawNames, Serve(s, n) PROVE IInv'
  <2>1. UNCHANGED <<dirs, heads, name>> /\ \E how \in Replies : End(s, how)
    BY <1>3 DEF Serve, Replies
  <2>2. "idle" \in Places /\ n \in Seq(Segments)
    BY NormalizedIsPath DEF Places
  <2> QED
    BY <2>1, <2>2, BeginIInv
<1>4. CASE UNCHANGED vars
  BY <1>4 DEF vars, IInv, TypeOK, Listed
<1> QED
  BY <1>1, <1>2, <1>3, <1>4, StepIInv DEF Next

THEOREM Invariance == Spec => []IInv
BY InitIInv, NextIInv, PTL DEF Spec

\* Whatever sessions do side by side and wherever they are killed, the directories
\* form a tree of groups and repositories, and every initialised repository has
\* a name that lists, serves and removes it (repo.rs, exec.rs and Quire::repos).
THEOREM TreeStays == Spec => []TypeOK
<1>1. IInv => TypeOK
  BY DEF IInv
<1> QED
  BY <1>1, Invariance, PTL

\* A repository goes only by an rm of its name or of what it is nested in: the
\* tidying of a group by another session never takes it along (rm).
THEOREM OnlyRmRemoves == Spec => OnlyNamedRemoved
<1> DEFINE Named == \A r \in heads \ heads' : \E s \in Sessions :
                      pc[s] = "empty" /\ IsPrefix(name[s], r)
<1>1. IInv /\ [Next]_vars => Named
  <2> SUFFICES ASSUME IInv, [Next]_vars, NEW r \in heads \ heads'
               PROVE  \E s \in Sessions : pc[s] = "empty" /\ IsPrefix(name[s], r)
    OBVIOUS
  <2>1. PICK s \in Sessions : Step(s)
    BY DEF Next, New, Rm, Serve, vars
  <2>2. RmContents(s)
    BY <2>1 DEF Step, MakeParent, InitDirectory, InitFill, RmDirectory, Tidy, Tidied, Kill
  <2>3. /\ pc[s] = "empty" /\ r \in Below(name[s]) \cup {name[s]}
        /\ name[s] \in Seq(Segments)
    BY <2>2 DEF RmContents, IInv
  <2>4. IsPrefix(name[s], name[s])
    BY <2>3 DEF IsPrefix
  <2> QED
    BY <2>3, <2>4 DEF Below, IsStrictPrefix
<1> QED
  BY <1>1, Invariance, PTL DEF Spec, OnlyNamedRemoved

==============================================================================
