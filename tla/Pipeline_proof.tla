---------------------------- MODULE Pipeline_proof ----------------------------
(***************************************************************************)
(* Proofs about Pipeline, for any names and any number of calls: whatever  *)
(* graph a script registers, validation lets only dataflow graphs through, *)
(* and any topological order runs them as such.                            *)
(*                                                                         *)
(* The second half is about LocalRun and the ScriptHost it extends: the    *)
(* processes that host a pipeline run it as Pipeline does, so the first    *)
(* half holds of them too, and their table of primitives, their commit and *)
(* their verdict stay in step with it.                                     *)
(***************************************************************************)
EXTENDS LocalRun, PipelinePaths, FiniteSetTheorems, TLAPS

USE NamesAssumption, CallsAssumption

Walking == phase \in {"running", "stopped", "finished"}
Images == IF image THEN 1 ELSE 0

\* The inductive invariant: what compile establishes about the graph and Start
\* about the order, and where the cursor is.
IInv ==
  /\ TypeOK
  /\ IsFiniteSet(Nodes)
  /\ phase = "evaluating" => Push \notin Nodes
  /\ phase = "evaluating" /\ errors = {} => calls = Cardinality(Nodes) + Images
  /\ NothingDropped
  /\ Accepted => StructureErrors = {}
  /\ IF Walking THEN order \in Toposorts ELSE order = NoJobs /\ at = 1
  /\ phase \in {"running", "stopped"} => at <= Cardinality(Nodes)

-----------------------------------------------------------------------------
(* Orders *)

\* In a topological order everything a job resolves to stands before it.
LEMMA InputsBefore ==
  ASSUME IsFiniteSet(Nodes), order \in Toposorts,
         NEW i \in 1..Cardinality(Nodes), NEW m \in Resolved(order[i])
  PROVE  \E k \in 1..Cardinality(Nodes) : k < i /\ order[k] = m
<1>1. Cardinality(Nodes) \in Nat
  BY FS_CardinalityType
<1>2. /\ order \in [1..Cardinality(Nodes) -> Nodes]
      /\ \A x, y \in DOMAIN order : order[x] = order[y] => x = y
      /\ \A n \in Nodes : \A p \in Resolved(n) : Before(order, p, n)
  BY DEF Toposorts, Listings
<1>3. order[i] \in Nodes
  BY <1>2
<1>4. PICK x, y \in DOMAIN order : x < y /\ order[x] = m /\ order[y] = order[i]
  BY <1>2, <1>3 DEF Before
<1> QED
  BY <1>1, <1>2, <1>4

\* What has run is closed under inputs, and so is what runs next.
LEMMA DoneClosed ==
  ASSUME IsFiniteSet(Nodes), order \in Toposorts, at \in 1..Cardinality(Nodes) + 1
  PROVE  /\ Done \subseteq Nodes
         /\ Closed(Done)
         /\ at <= Cardinality(Nodes) =>
              /\ Current \in Nodes
              /\ Current \notin Done
              /\ Resolved(Current) \subseteq Done
<1>1. Cardinality(Nodes) \in Nat
  BY FS_CardinalityType
<1>2. /\ order \in [1..Cardinality(Nodes) -> Nodes]
      /\ \A x, y \in DOMAIN order : order[x] = order[y] => x = y
  BY DEF Toposorts, Listings
<1>3. \A i \in 1..at - 1 : i \in 1..Cardinality(Nodes)
  BY <1>1
<1>4. Done \subseteq Nodes
  BY <1>2, <1>3 DEF Done
<1>5. Closed(Done)
  <2> SUFFICES ASSUME NEW i \in 1..at - 1, NEW m \in Resolved(order[i])
               PROVE  m \in Done
    BY DEF Closed, Done
  <2>1. PICK k \in 1..Cardinality(Nodes) : k < i /\ order[k] = m
    BY <1>3, InputsBefore
  <2>2. k \in 1..at - 1
    BY <1>1, <2>1
  <2> QED
    BY <2>1, <2>2 DEF Done
<1>6. ASSUME at <= Cardinality(Nodes)
      PROVE  Current \in Nodes /\ Current \notin Done /\ Resolved(Current) \subseteq Done
  <2>1. at \in 1..Cardinality(Nodes)
    BY <1>1, <1>6
  <2>2. Current \in Nodes
    BY <1>2, <2>1 DEF Current
  <2>3. Current \notin Done
    BY <1>1, <1>2, <1>3, <2>1 DEF Current, Done
  <2>4. ASSUME NEW m \in Resolved(Current) PROVE m \in Done
    <3>1. PICK k \in 1..Cardinality(Nodes) : k < at /\ order[k] = m
      BY <2>1, InputsBefore DEF Current
    <3>2. k \in 1..at - 1
      BY <1>1, <3>1
    <3> QED
      BY <3>1, <3>2 DEF Done
  <2> QED
    BY <2>2, <2>3, <2>4
<1> QED
  BY <1>4, <1>5, <1>6

\* The search along reversed edges never leaves a closed set.
LEMMA SearchStays ==
  ASSUME NEW n, NEW S \in SUBSET Nodes, Resolved(n) \subseteq S, Closed(S)
  PROVE  Above(n) \subseteq S
BY DEF Above

-----------------------------------------------------------------------------
(* Validation *)

\* A graph without cycles whose every job can be traced back to a trigger hangs
\* together: it is downstream of its only trigger.
LEMMA SoundGraphsAreRooted ==
  ASSUME TypeOK, Push \in Nodes, StructureErrors = {}
  PROVE  Dataflow!Rooted([n \in Nodes |-> Resolved(n)])
<1> DEFINE g == [n \in Nodes |-> Resolved(n)]
<1>1. Triggers = {Push}
  BY DEF TypeOK, Triggers
<1>2. Cycles = {} /\ Unreachable = {}
  BY DEF StructureErrors
<1>3. \A n \in Nodes \ {Push} : Push \in Above(n)
  BY <1>1, <1>2 DEF Unreachable
<1>4. ASSUME NEW S \in SUBSET Nodes, Push \in S,
             \A n \in Nodes : Resolved(n) \cap S # {} => n \in S
      PROVE  S = Nodes
  <2> SUFFICES ASSUME NEW n \in Nodes, n \notin S PROVE FALSE
    OBVIOUS
  <2> DEFINE T == Nodes \ S
  <2>1. \A m \in T : Resolved(m) \subseteq T
    BY <1>4 DEF Resolved
  <2>2. Above(n) \subseteq T
    BY <2>1, SearchStays DEF Closed
  <2> QED
    BY <1>3, <1>4, <2>2
<1>5. DOMAIN g = Nodes /\ \A n \in Nodes : g[n] = Resolved(n)
  OBVIOUS
<1> HIDE DEF g
<1>6. Dataflow!Rooted(g)
  BY <1>4, <1>5 DEF Dataflow!Rooted
<1> QED
  BY <1>6 DEF g

-----------------------------------------------------------------------------
(* Induction, in the form the provers can apply: on sets instead of predicates *)

\* Of a family of finite sets one has no other member inside.
LEMMA SmallestSet ==
  ASSUME NEW S, IsFiniteSet(S), NEW B \in SUBSET SUBSET S, B # {}
  PROVE  \E T \in B : \A U \in B : U \subseteq T => U = T
<1>1. IsWellFoundedOn(StrictSubsetOrdering(S), SUBSET S)
  BY FS_StrictSubsetOrderingWellFounded, FS_FiniteSubsetsOfFinite
<1>2. PICK T \in B : \A U \in B : ~(<<U, T>> \in StrictSubsetOrdering(S))
  BY <1>1, WFMin
<1>3. \A U \in B : U \subseteq T => U = T
  BY <1>2 DEF StrictSubsetOrdering
<1> QED
  BY <1>3

\* A set of numbers has a least one.
LEMMA LeastNumber ==
  ASSUME NEW B \in SUBSET Nat, B # {}
  PROVE  \E x \in B : \A y \in B : x <= y
<1>1. PICK n \in B : TRUE
  OBVIOUS
<1> DEFINE F == {0..m : m \in {k \in B : k <= n}}
<1>2. IsFiniteSet(0..n)
  BY FS_Interval
<1>3. F \in SUBSET SUBSET (0..n) /\ F # {}
  BY <1>1
<1>4. PICK T \in F : \A U \in F : U \subseteq T => U = T
  <2> DEFINE S == 0..n
  <2>1. IsFiniteSet(S) /\ F \in SUBSET SUBSET S /\ F # {}
    BY <1>2, <1>3
  <2> HIDE DEF F, S
  <2> QED
    BY <2>1, SmallestSet
<1>5. PICK m \in B : m <= n /\ T = 0..m
  BY <1>4
<1>6. ASSUME NEW y \in B PROVE m <= y
  <2> SUFFICES ASSUME y < m PROVE FALSE
    OBVIOUS
  <2>1. 0..y \in F /\ 0..y \subseteq T
    BY <1>5, <1>1
  <2>2. 0..y = 0..m
    BY <1>4, <1>5, <2>1
  <2> QED
    BY <2>2, <1>5
<1> QED
  BY <1>5, <1>6

\* Induction on the numbers.
LEMMA NumberInduction ==
  ASSUME NEW G, 0 \in G, \A k \in Nat : k \in G => k + 1 \in G
  PROVE  Nat \subseteq G
<1> SUFFICES ASSUME ~(Nat \subseteq G) PROVE FALSE
  OBVIOUS
<1> DEFINE B == Nat \ G
<1>1. PICK x \in B : \A y \in B : x <= y
  <2>1. B \in SUBSET Nat /\ B # {}
    OBVIOUS
  <2> HIDE DEF B
  <2> QED
    BY <2>1, LeastNumber
<1>2. x - 1 \in Nat /\ x - 1 \notin B
  BY <1>1
<1> QED
  BY <1>1, <1>2

\* A function defined by recursion on the numbers is there.
LEMMA RecursionOnNumbers ==
  ASSUME NEW D, NEW first \in D, NEW step \in [D -> D]
  PROVE  \E f \in [Nat -> D] : /\ f[0] = first
                               /\ \A k \in Nat : f[k + 1] = step[f[k]]
<1> DEFINE Fits(f, n) == /\ f[0] = first
                         /\ \A k \in Nat : k < n => f[k + 1] = step[f[k]]
           G == {n \in Nat : \E f \in [Nat -> D] : Fits(f, n)}
<1>1. 0 \in G
  <2> DEFINE f == [k \in Nat |-> first]
  <2>1. f \in [Nat -> D] /\ Fits(f, 0)
    OBVIOUS
  <2> QED
    BY <2>1
<1>2. ASSUME NEW n \in Nat, n \in G PROVE n + 1 \in G
  <2>1. PICK f \in [Nat -> D] : Fits(f, n)
    BY <1>2
  <2> DEFINE g == [k \in Nat |-> IF k = n + 1 THEN step[f[n]] ELSE f[k]]
  <2>2. g \in [Nat -> D]
    OBVIOUS
  <2>3. g[0] = first
    BY <2>1
  <2>4. ASSUME NEW k \in Nat, k < n + 1 PROVE g[k + 1] = step[g[k]]
    <3>1. CASE k = n
      BY <3>1
    <3>2. CASE k < n
      BY <3>2, <2>1
    <3> QED
      BY <3>1, <3>2, <2>4
  <2>5. \E h \in [Nat -> D] : Fits(h, n + 1)
    <3> HIDE DEF g
    <3> QED
      BY <2>2, <2>3, <2>4
  <2> QED
    BY <2>5
<1>3. \A n \in Nat : \E f \in [Nat -> D] : Fits(f, n)
  <2>1. \A k \in Nat : k \in G => k + 1 \in G
    BY <1>2
  <2>2. Nat \subseteq G
    <3> HIDE DEF G
    <3> QED
      BY <1>1, <2>1, NumberInduction
  <2> QED
    BY <2>2
<1>4. ASSUME NEW n \in Nat, NEW f \in [Nat -> D], NEW g \in [Nat -> D], Fits(f, n), Fits(g, n)
      PROVE  \A k \in Nat : k <= n => f[k] = g[k]
  <2> DEFINE H == {k \in Nat : k <= n => f[k] = g[k]}
  <2>1. 0 \in H /\ \A k \in Nat : k \in H => k + 1 \in H
    BY <1>4
  <2>2. Nat \subseteq H
    <3> HIDE DEF H
    <3> QED
      BY <2>1, NumberInduction
  <2> QED
    BY <2>2
<1> DEFINE At(n) == CHOOSE f \in [Nat -> D] : Fits(f, n)
<1>5. \A n \in Nat : At(n) \in [Nat -> D] /\ Fits(At(n), n)
  <2> HIDE DEF Fits
  <2> QED
    BY <1>3
<1> DEFINE J == [k \in Nat |-> At(k)[k]]
<1> HIDE DEF At
<1>6. J \in [Nat -> D] /\ J[0] = first
  BY <1>5
<1>7. ASSUME NEW k \in Nat PROVE J[k + 1] = step[J[k]]
  <2>1. k + 1 \in Nat /\ k <= k + 1 /\ k < k + 1
    OBVIOUS
  <2>2. Fits(At(k + 1), k)
    BY <1>5, <2>1
  <2>3. At(k + 1)[k] = At(k)[k]
    <3>1. At(k) \in [Nat -> D] /\ At(k + 1) \in [Nat -> D] /\ Fits(At(k), k)
      BY <1>5, <2>1
    <3> HIDE DEF Fits
    <3> QED
      BY <1>4, <2>1, <2>2, <3>1
  <2>4. At(k + 1)[k + 1] = step[At(k + 1)[k]]
    BY <1>5, <2>1
  <2> QED
    BY <2>1, <2>3, <2>4
<1> HIDE DEF J
<1> QED
  BY <1>6, <1>7

\* Joined is what its definition says.
LEMMA JoinedUnfolds ==
  /\ Joined \in [Nat -> SUBSET (Nodes \X Nodes)]
  /\ Joined[0] = {}
  /\ \A k \in Nat :
       Joined[k + 1] =
         Edges \cup {e \in Nodes \X Nodes :
                       \E m \in Nodes : <<e[1], m>> \in Edges /\ <<m, e[2]>> \in Joined[k]}
<1> DEFINE More(R) == Edges \cup {e \in Nodes \X Nodes :
                       \E m \in Nodes : <<e[1], m>> \in Edges /\ <<m, e[2]>> \in R}
           D == SUBSET (Nodes \X Nodes)
           step == [R \in D |-> More(R)]
<1>1. \A R \in D : More(R) \in D
  BY DEF Edges
<1> HIDE DEF More, D
<1>2. {} \in D /\ step \in [D -> D]
  BY <1>1 DEF D
<1>3. PICK f \in [Nat -> D] : f[0] = {} /\ \A k \in Nat : f[k + 1] = step[f[k]]
  <2> HIDE DEF step
  <2> QED
    BY <1>2, RecursionOnNumbers
<1>4. \A k \in Nat : f[k] = IF k = 0 THEN {} ELSE More(f[k - 1])
  <2> SUFFICES ASSUME NEW k \in Nat, k # 0 PROVE f[k] = More(f[k - 1])
    BY <1>3
  <2>1. k - 1 \in Nat /\ (k - 1) + 1 = k
    OBVIOUS
  <2>2. f[k] = step[f[k - 1]]
    BY <1>3, <2>1
  <2> QED
    BY <2>1, <2>2
<1>5. f = [k \in Nat |-> IF k = 0 THEN {} ELSE More(f[k - 1])]
  BY <1>4
<1>6. Joined = CHOOSE g : g = [k \in Nat |-> IF k = 0 THEN {} ELSE More(g[k - 1])]
  BY DEF Joined, More
<1>7. Joined = [k \in Nat |-> IF k = 0 THEN {} ELSE More(Joined[k - 1])]
  BY <1>5, <1>6
<1>8. Joined[0] = {}
  BY <1>7
<1>9. \A k \in Nat : Joined[k + 1] = More(Joined[k])
  <2> SUFFICES ASSUME NEW k \in Nat PROVE Joined[k + 1] = More(Joined[k])
    OBVIOUS
  <2>1. k + 1 \in Nat /\ k + 1 # 0 /\ (k + 1) - 1 = k
    OBVIOUS
  <2> QED
    BY <1>7, <2>1
<1>10. Joined \in [Nat -> D]
  <2> DEFINE G == {k \in Nat : Joined[k] \in D}
  <2>1. 0 \in G /\ \A k \in Nat : k \in G => k + 1 \in G
    BY <1>1, <1>2, <1>8, <1>9
  <2>2. Nat \subseteq G
    <3> HIDE DEF G
    <3> QED
      BY <2>1, NumberInduction
  <2> QED
    BY <1>7, <2>2
<1> QED
  BY <1>8, <1>9, <1>10 DEF More, D

-----------------------------------------------------------------------------
(* Paths *)

\* The jobs that a path of at most k edges leads from to n.
Within(n, k) == {m \in Nodes : <<m, n>> \in Joined[k]}

LEMMA WithinUnfolds ==
  ASSUME NEW n \in Nodes
  PROVE  /\ Within(n, 0) = {}
         /\ \A k \in Nat : Within(n, k + 1) =
              {m \in Nodes : m \in Resolved(n) \/ \E o \in Within(n, k) : m \in Resolved(o)}
<1>1. \A m, o \in Nodes : <<m, o>> \in Edges <=> m \in Resolved(o)
  BY DEF Edges, Resolved
<1>2. Within(n, 0) = {}
  BY JoinedUnfolds DEF Within
<1>3. ASSUME NEW k \in Nat, NEW m \in Nodes
      PROVE  <<m, n>> \in Joined[k + 1] <=>
               m \in Resolved(n) \/ \E o \in Within(n, k) : m \in Resolved(o)
  <2>1. Joined[k + 1] =
          Edges \cup {e \in Nodes \X Nodes :
                        \E o \in Nodes : <<e[1], o>> \in Edges /\ <<o, e[2]>> \in Joined[k]}
    BY JoinedUnfolds
  <2>2. <<m, n>> \in Joined[k + 1] <=>
          \/ <<m, n>> \in Edges
          \/ \E o \in Nodes : <<m, o>> \in Edges /\ <<o, n>> \in Joined[k]
    BY <2>1
  <2> QED
    BY <1>1, <2>2 DEF Within
<1> QED
  BY <1>2, <1>3 DEF Within

LEMMA WithinStays ==
  ASSUME NEW n \in Nodes, NEW S \in SUBSET Nodes, Resolved(n) \subseteq S, Closed(S)
  PROVE  \A k \in Nat : Within(n, k) \subseteq S
<1> DEFINE G == {k \in Nat : Within(n, k) \subseteq S}
<1>1. 0 \in G
  BY WithinUnfolds
<1>2. \A k \in Nat : k \in G => k + 1 \in G
  BY WithinUnfolds DEF Closed
<1> HIDE DEF G
<1>3. Nat \subseteq G
  BY <1>1, <1>2, NumberInduction
<1> QED
  BY <1>3 DEF G

LEMMA WithinGrows ==
  ASSUME NEW n \in Nodes
  PROVE  \A k \in Nat : Within(n, k) \subseteq Within(n, k + 1)
<1> DEFINE G == {k \in Nat : Within(n, k) \subseteq Within(n, k + 1)}
<1>1. 0 \in G
  BY WithinUnfolds
<1>2. ASSUME NEW k \in Nat, k \in G PROVE k + 1 \in G
  <2>1. Within(n, k) \subseteq Within(n, k + 1)
    BY <1>2
  <2>2. Within(n, k + 1) \subseteq Within(n, (k + 1) + 1)
    BY <2>1, WithinUnfolds
  <2> QED
    BY <2>2
<1> HIDE DEF G
<1>3. Nat \subseteq G
  BY <1>1, <1>2, NumberInduction
<1> QED
  BY <1>3 DEF G

\* Each round of the search adds a job, until there is nothing left to add.
LEMMA WithinFills ==
  ASSUME IsFiniteSet(Nodes), NEW n \in Nodes
  PROVE  \A k \in Nat : \/ Cardinality(Within(n, k)) >= k
                        \/ Resolved(n) \subseteq Within(n, k) /\ Closed(Within(n, k))
<1> DEFINE Ends(k) == Resolved(n) \subseteq Within(n, k) /\ Closed(Within(n, k))
           G == {k \in Nat : Cardinality(Within(n, k)) >= k \/ Ends(k)}
<1>1. \A k \in Nat : IsFiniteSet(Within(n, k)) /\ Cardinality(Within(n, k)) \in Nat
  <2> SUFFICES ASSUME NEW k \in Nat
               PROVE IsFiniteSet(Within(n, k)) /\ Cardinality(Within(n, k)) \in Nat
    OBVIOUS
  <2>1. Within(n, k) \in SUBSET Nodes
    BY DEF Within
  <2> QED
    BY <2>1, FS_Subset, FS_CardinalityType
<1>2. 0 \in G
  BY <1>1
<1>3. ASSUME NEW k \in Nat, k \in G PROVE k + 1 \in G
  <2>1. \A m \in Within(n, k + 1) :
          m \in Nodes /\ (m \in Resolved(n) \/ \E o \in Within(n, k) : m \in Resolved(o))
    BY WithinUnfolds
  <2>2. \A m \in Nodes :
          m \in Resolved(n) \/ (\E o \in Within(n, k) : m \in Resolved(o)) =>
            m \in Within(n, k + 1)
    BY WithinUnfolds
  <2>3. \A m : Resolved(m) \subseteq Nodes
    BY DEF Resolved
  <2>4. Within(n, k) \subseteq Within(n, k + 1)
    BY WithinGrows
  <2>5. CASE Within(n, k + 1) = Within(n, k)
    <3>1. Ends(k + 1)
      BY <2>2, <2>3, <2>5 DEF Closed
    <3> QED
      BY <3>1
  <2>6. CASE Within(n, k + 1) # Within(n, k)
    <3>1. ~Ends(k)
      BY <2>1, <2>4, <2>6 DEF Closed
    <3>2. Cardinality(Within(n, k)) >= k
      BY <1>3, <3>1
    <3>3. Cardinality(Within(n, k)) < Cardinality(Within(n, k + 1))
      BY <1>1, <2>4, <2>6, FS_Subset
    <3> QED
      BY <1>1, <3>2, <3>3
  <2> QED
    BY <2>5, <2>6
<1>4. Nat \subseteq G
  <2>1. \A k \in Nat : k \in G => k + 1 \in G
    BY <1>3
  <2> HIDE DEF G
  <2> QED
    BY <1>2, <2>1, NumberInduction
<1> QED
  BY <1>4

\* A path leads from m to n exactly if the search from n against the edges finds m.
LEMMA PathsAreSearches ==
  ASSUME IsFiniteSet(Nodes), NEW m \in Nodes, NEW n \in Nodes
  PROVE  Leads(m, n) <=> m \in Above(n)
<1> DEFINE c == Cardinality(Nodes)
           W == Within(n, c)
<1>1. c \in Nat
  BY FS_CardinalityType
<1>2. W \in SUBSET Nodes
  BY DEF Within
<1>3. Resolved(n) \subseteq W /\ Closed(W)
  <2>1. CASE Cardinality(W) >= c
    <3>1. W = Nodes
      <4>1. IsFiniteSet(W) /\ Cardinality(W) \in Nat /\ Cardinality(W) <= c
        BY <1>2, FS_Subset, FS_CardinalityType
      <4>2. Cardinality(W) = Cardinality(Nodes)
        BY <1>1, <2>1, <4>1
      <4> QED
        BY <1>2, <4>2, FS_Subset
    <3>2. \A o : Resolved(o) \subseteq Nodes
      BY DEF Resolved
    <3> HIDE DEF W
    <3> QED
      BY <3>1, <3>2 DEF Closed
  <2>2. CASE ~(Cardinality(W) >= c)
    BY <1>1, <2>2, WithinFills
  <2> QED
    BY <2>1, <2>2
<1>4. Above(n) \subseteq W
  <2> HIDE DEF W
  <2> QED
    BY <1>2, <1>3, SearchStays
<1>5. ASSUME m \in W PROVE m \in Above(n)
  <2> SUFFICES ASSUME NEW S \in SUBSET Nodes, Resolved(n) \subseteq S, Closed(S) PROVE m \in S
    BY DEF Above
  <2> QED
    BY <1>1, <1>5, WithinStays
<1>6. Leads(m, n) <=> m \in W
  BY DEF Leads, Within
<1> QED
  BY <1>4, <1>5, <1>6

\* What the search finds: the inputs, and what is found from them.
LEMMA SearchFinds ==
  ASSUME NEW n \in Nodes
  PROVE  /\ Above(n) \subseteq Nodes
         /\ Resolved(n) \subseteq Above(n)
         /\ \A m \in Above(n) : Resolved(m) \subseteq Above(n) /\ Above(m) \subseteq Above(n)
         /\ \A m \in Above(n) : m \in Resolved(n) \/ \E o \in Resolved(n) : m \in Above(o)
<1>1. \A o : Resolved(o) \subseteq Nodes
  BY DEF Resolved
<1>2. Above(n) \subseteq Nodes /\ Resolved(n) \subseteq Above(n)
  BY <1>1 DEF Above
<1>3. Closed(Above(n))
  BY <1>1 DEF Above, Closed
<1>4. \A m \in Above(n) : Resolved(m) \subseteq Above(n)
  BY <1>3 DEF Closed
<1>5. \A m \in Above(n) : Above(m) \subseteq Above(n)
  BY <1>2, <1>3, <1>4, SearchStays
<1>6. ASSUME NEW m \in Above(n)
      PROVE  m \in Resolved(n) \/ \E o \in Resolved(n) : m \in Above(o)
  <2> DEFINE S == {k \in Nodes : k \in Resolved(n) \/ \E o \in Resolved(n) : k \in Above(o)}
  <2>1. Resolved(n) \subseteq S
    BY <1>1
  <2>2. Closed(S)
    <3> SUFFICES ASSUME NEW k \in S, NEW j \in Resolved(k) PROVE j \in S
      BY DEF Closed
    <3>1. CASE k \in Resolved(n)
      <4>1. j \in Above(k)
        BY <1>1, <3>1 DEF Above
      <4> QED
        BY <1>1, <3>1, <4>1
    <3>2. CASE \E o \in Resolved(n) : k \in Above(o)
      <4>1. PICK o \in Resolved(n) : k \in Above(o)
        BY <3>2
      <4>2. j \in Above(o)
        BY <1>1, <4>1 DEF Above, Closed
      <4> QED
        BY <1>1, <4>2
    <3> QED
      BY <3>1, <3>2
  <2>3. S \in SUBSET Nodes
    OBVIOUS
  <2> HIDE DEF S
  <2>4. m \in S
    BY <2>1, <2>2, <2>3, SearchStays
  <2> QED
    BY <2>4 DEF S
<1> QED
  BY <1>2, <1>4, <1>5, <1>6

-----------------------------------------------------------------------------
(* What validation decides *)

LEMMA CyclesArePaths ==
  ASSUME IsFiniteSet(Nodes)
  PROVE  /\ \A n \in Nodes : IsCycle(Component(n)) <=> n \in Above(n)
         /\ UNION Cycles = {n \in Nodes : n \in Above(n)}
<1>1. ASSUME NEW n \in Nodes PROVE IsCycle(Component(n)) <=> n \in Above(n)
  <2>1. /\ Component(n) \subseteq Nodes /\ n \in Component(n)
        /\ IsFiniteSet(Component(n)) /\ Cardinality(Component(n)) \in Nat
    <3>1. Component(n) \subseteq Nodes
      BY DEF Component, Above
    <3> QED
      BY <3>1, FS_Subset, FS_CardinalityType DEF Component
  <2>2. Cardinality(Component(n)) > 1 <=> \E m \in Component(n) : m # n
    <3> DEFINE C == Component(n)
    <3>1. IsFiniteSet({n}) /\ Cardinality({n}) = 1
      BY FS_Singleton
    <3>2. /\ Cardinality({n}) <= Cardinality(C)
          /\ Cardinality({n}) = Cardinality(C) => {n} = C
      <4>1. {n} \in SUBSET C
        BY <2>1
      <4> HIDE DEF C
      <4> QED
        BY <2>1, <4>1, FS_Subset DEF C
    <3>3. C = {n} <=> ~\E m \in C : m # n
      BY <2>1
    <3> HIDE DEF C
    <3>4. Cardinality(C) \in Nat
      BY <2>1 DEF C
    <3>5. Cardinality(C) > 1 <=> \E m \in C : m # n
      BY <3>1, <3>2, <3>3, <3>4
    <3> QED
      BY <3>5 DEF C
  <2>3. ASSUME n \in Above(n) PROVE IsCycle(Component(n))
    <3>1. CASE n \in Resolved(n)
      BY <2>1, <3>1 DEF IsCycle
    <3>2. CASE n \notin Resolved(n)
      <4>1. PICK o \in Resolved(n) : n \in Above(o)
        BY <2>3, <3>2, SearchFinds
      <4>2. o \in Component(n) /\ o # n
        BY <3>2, <4>1, SearchFinds DEF Component
      <4> QED
        BY <2>2, <4>2 DEF IsCycle
    <3> QED
      BY <3>1, <3>2
  <2>4. ASSUME IsCycle(Component(n)) PROVE n \in Above(n)
    <3>1. ASSUME NEW m \in Component(n), m # n PROVE n \in Above(n)
      <4>1. m \in Above(n) /\ n \in Above(m)
        BY <3>1 DEF Component
      <4> QED
        BY <4>1, SearchFinds
    <3>2. ASSUME n \in Resolved(n) PROVE n \in Above(n)
      BY <3>2, SearchFinds
    <3> QED
      BY <2>2, <2>4, <3>1, <3>2 DEF IsCycle
  <2> QED
    BY <2>3, <2>4
<1>2. ASSUME NEW n \in Nodes, n \in Above(n) PROVE n \in UNION Cycles
  <2>1. Component(n) \in Cycles
    BY <1>1, <1>2 DEF Cycles
  <2>2. n \in Component(n)
    BY DEF Component
  <2> QED
    BY <2>1, <2>2
<1>3. ASSUME NEW m \in UNION Cycles PROVE m \in Nodes /\ m \in Above(m)
  <2>1. PICK n \in Nodes : m \in Component(n) /\ IsCycle(Component(n))
    BY DEF Cycles
  <2>2. n \in Above(n)
    BY <1>1, <2>1
  <2>3. CASE m = n
    BY <2>2, <2>3
  <2>4. CASE m # n
    <3>1. m \in Above(n) /\ n \in Above(m)
      BY <2>1, <2>4 DEF Component
    <3>2. m \in Nodes
      BY <3>1 DEF Above
    <3> QED
      BY <3>1, <3>2, SearchFinds
  <2> QED
    BY <2>3, <2>4
<1> QED
  BY <1>1, <1>2, <1>3

\* Without cycles there is always a job that is no other's input.
LEMMA SomeJobIsLast ==
  ASSUME IsFiniteSet(Nodes), \A n \in Nodes : n \notin Above(n),
         NEW T \in SUBSET Nodes, T # {}
  PROVE  \E n \in T : \A m \in T : n \notin Resolved(m)
<1> DEFINE Below(n) == {m \in Nodes : n \in Above(m)}
           B == {Below(n) : n \in T}
<1>1. PICK S \in B : \A U \in B : U \subseteq S => U = S
  <2>1. \A n : Below(n) \in SUBSET Nodes
    OBVIOUS
  <2> HIDE DEF Below
  <2>2. B \in SUBSET SUBSET Nodes /\ B # {}
    BY <2>1
  <2> HIDE DEF B
  <2> QED
    BY <2>2, SmallestSet
<1>2. PICK n \in T : S = Below(n)
  BY <1>1
<1>3. ASSUME NEW m \in T, n \in Resolved(m) PROVE FALSE
  <2>1. n \in Above(m) /\ m \in Nodes
    BY <1>3, SearchFinds
  <2>2. Below(m) \subseteq Below(n)
    BY <2>1, SearchFinds
  <2>3. m \in Below(n) /\ m \notin Below(m)
    BY <2>1
  <2>4. Below(m) = Below(n)
    <3> HIDE DEF Below
    <3> QED
      BY <1>1, <1>2, <2>2
  <2> QED
    BY <2>3, <2>4
<1> QED
  BY <1>3

\* The listings of some of the jobs that run none before its inputs.
Listable(T) ==
  \E p \in [1..Cardinality(T) -> T] :
    /\ \A n \in T : \E i \in DOMAIN p : p[i] = n
    /\ \A n \in T : \A m \in Resolved(n) \cap T : Before(p, m, n)

LEMMA AcyclicIsListable ==
  ASSUME IsFiniteSet(Nodes), \A n \in Nodes : n \notin Above(n)
  PROVE  Listable(Nodes)
<1> SUFFICES ASSUME ~Listable(Nodes) PROVE FALSE
  OBVIOUS
<1> DEFINE B == {T \in SUBSET Nodes : ~Listable(T)}
<1>1. PICK T \in B : \A U \in B : U \subseteq T => U = T
  <2>1. B \in SUBSET SUBSET Nodes /\ B # {}
    OBVIOUS
  <2> HIDE DEF B
  <2> QED
    BY <2>1, SmallestSet
<1>2. T \in SUBSET Nodes /\ ~Listable(T) /\ IsFiniteSet(T)
  BY <1>1, FS_Subset
<1>3. T # {}
  <2> SUFFICES ASSUME T = {} PROVE Listable(T)
    BY <1>2
  <2>1. 1..Cardinality(T) = {}
    BY FS_EmptySet
  <2> DEFINE p == [i \in 1..Cardinality(T) |-> i]
  <2>2. p \in [1..Cardinality(T) -> T]
    BY <2>1
  <2> QED
    BY <2>2 DEF Listable
<1>4. PICK n \in T : \A m \in T : n \notin Resolved(m)
  BY <1>2, <1>3, SomeJobIsLast
<1> DEFINE U == T \ {n}
           k == Cardinality(U)
<1>5. Listable(U)
  BY <1>1, <1>2, <1>4
<1>6. k \in Nat /\ Cardinality(T) = k + 1
  <2>1. IsFiniteSet(U) /\ Cardinality(U) = Cardinality(T) - 1
    BY <1>2, <1>4, FS_RemoveElement
  <2> HIDE DEF U
  <2> QED
    BY <1>2, <2>1, FS_CardinalityType
<1>7. PICK p \in [1..k -> U] :
        /\ \A m \in U : \E i \in DOMAIN p : p[i] = m
        /\ \A m \in U : \A o \in Resolved(m) \cap U : Before(p, o, m)
  BY <1>5 DEF Listable
<1> DEFINE q == [i \in 1..k + 1 |-> IF i = k + 1 THEN n ELSE p[i]]
<1> HIDE DEF k
<1>8. q \in [1..Cardinality(T) -> T]
  BY <1>6, <1>7
<1>9. /\ DOMAIN q = 1..k + 1 /\ q[k + 1] = n
      /\ \A i \in 1..k : i \in DOMAIN q /\ i # k + 1 /\ q[i] = p[i]
  BY <1>6
<1> HIDE DEF q
<1>10. \A m \in T : \E i \in DOMAIN q : q[i] = m
  BY <1>6, <1>7, <1>9
<1>11. ASSUME NEW m \in T, NEW o \in Resolved(m) \cap T PROVE Before(q, o, m)
  <2>1. o \in U
    BY <1>4, <1>11
  <2>2. CASE m = n
    <3>1. PICK i \in 1..k : p[i] = o
      BY <1>7, <2>1
    <3> QED
      BY <1>6, <1>9, <2>2, <3>1 DEF Before
  <2>3. CASE m # n
    <3>1. Before(p, o, m)
      BY <1>7, <1>11, <2>1, <2>3
    <3>2. PICK i, j \in 1..k : i < j /\ p[i] = o /\ p[j] = m
      BY <1>7, <3>1 DEF Before
    <3>3. i \in DOMAIN q /\ j \in DOMAIN q /\ q[i] = o /\ q[j] = m
      BY <1>9, <3>2
    <3> QED
      BY <3>2, <3>3 DEF Before
  <2> QED
    BY <2>2, <2>3
<1>12. Listable(T)
  BY <1>8, <1>10, <1>11 DEF Listable
<1> QED
  BY <1>2, <1>12

\* In an order that runs every job after its inputs no job is above itself.
LEMMA OrderedIsAcyclic ==
  ASSUME IsFiniteSet(Nodes), NEW p \in [1..Cardinality(Nodes) -> Nodes], RunsInOrder(p),
         NEW n \in Nodes
  PROVE  n \notin Above(n)
<1>1. Cardinality(Nodes) \in Nat
  BY FS_CardinalityType
<1>2. \A i, j \in 1..Cardinality(Nodes) : p[i] = p[j] => i = j
  <2> DEFINE I == 1..Cardinality(Nodes)
  <2>1. IsFiniteSet(I) /\ Cardinality(I) = Cardinality(Nodes)
    BY <1>1, FS_Interval
  <2>2. p \in Surjection(I, Nodes)
    BY DEF RunsInOrder, Surjection
  <2> HIDE DEF I
  <2>3. p \in Injection(I, Nodes)
    BY <2>1, <2>2, FS_SurjSameCardinalityImpliesInj
  <2> QED
    BY <2>3 DEF Injection, IsInjective, I
<1>3. PICK j \in 1..Cardinality(Nodes) : p[j] = n
  BY DEF RunsInOrder
<1> DEFINE S == {p[i] : i \in 1..j - 1}
<1>4. \A i \in 1..j - 1 : i \in 1..Cardinality(Nodes) /\ i < j
  BY <1>1
<1>5. ASSUME NEW m \in Nodes, NEW o \in Resolved(m)
      PROVE  \E x, y \in 1..Cardinality(Nodes) : x < y /\ p[x] = o /\ p[y] = m
  <2>1. <<o, m>> \in Edges
    BY DEF Edges, Resolved
  <2>2. PICK x, y \in DOMAIN p : x < y /\ <<p[x], p[y]>> = <<o, m>>
    BY <2>1 DEF RunsInOrder
  <2> QED
    BY <2>2
<1>6. S \in SUBSET Nodes
  BY <1>4
<1>7. Resolved(n) \subseteq S
  <2> SUFFICES ASSUME NEW o \in Resolved(n) PROVE o \in S
    OBVIOUS
  <2>1. PICK x, y \in 1..Cardinality(Nodes) : x < y /\ p[x] = o /\ p[y] = n
    BY <1>5
  <2>2. y = j
    BY <1>2, <1>3, <2>1
  <2> QED
    BY <1>1, <2>1, <2>2
<1>8. Closed(S)
  <2> SUFFICES ASSUME NEW i \in 1..j - 1, NEW o \in Resolved(p[i]) PROVE o \in S
    BY DEF Closed
  <2>1. p[i] \in Nodes
    BY <1>4
  <2>2. PICK x, y \in 1..Cardinality(Nodes) : x < y /\ p[x] = o /\ p[y] = p[i]
    BY <1>5, <2>1
  <2>3. y = i
    BY <1>2, <1>4, <2>2
  <2> QED
    BY <1>1, <1>4, <2>2, <2>3
<1>9. n \notin S
  BY <1>2, <1>3, <1>4
<1> HIDE DEF S
<1> QED
  BY <1>6, <1>7, <1>8, <1>9, SearchStays

\* Validation finds no error exactly in a graph that can be run.
LEMMA SoundIsRunnable ==
  ASSUME IsFiniteSet(Nodes), TypeOK, Push \in Nodes
  PROVE  StructureErrors = {} <=> Runnable
<1>1. Triggers = {Push}
  BY DEF TypeOK, Triggers
<1>2. \A m, n \in Nodes : Leads(m, n) <=> m \in Above(n)
  BY PathsAreSearches
<1>3. StructureErrors = {} <=> Cycles = {} /\ Unreachable = {}
  BY DEF StructureErrors
<1>4. Cycles = {} <=> \A n \in Nodes : n \notin Above(n)
  BY CyclesArePaths DEF Cycles
<1>5. ASSUME Cycles = {}
      PROVE  Unreachable = {} <=> \A n \in Nodes : FromPush(n)
  <2>1. Unreachable = {n \in Nodes \ {Push} : Push \notin Above(n)}
    <3>1. Unreachable = {n \in Nodes \ {Push} : Above(n) \cap {Push} = {}}
      BY <1>1, <1>5 DEF Unreachable
    <3> QED
      BY <3>1
  <2> QED
    BY <1>2, <2>1 DEF FromPush
<1>6. ASSUME Cycles = {}
      PROVE  \E p \in [1..Cardinality(Nodes) -> Nodes] : RunsInOrder(p)
  <2>1. PICK p \in [1..Cardinality(Nodes) -> Nodes] :
          /\ \A n \in Nodes : \E i \in DOMAIN p : p[i] = n
          /\ \A n \in Nodes : \A m \in Resolved(n) \cap Nodes : Before(p, m, n)
    BY <1>4, <1>6, AcyclicIsListable DEF Listable
  <2>2. {p[i] : i \in DOMAIN p} = Nodes
    BY <2>1
  <2>3. ASSUME NEW e \in Edges
        PROVE  \E i, j \in DOMAIN p : i < j /\ <<p[i], p[j]>> = e
    <3>1. /\ e[1] \in Nodes /\ e[2] \in Nodes /\ e = <<e[1], e[2]>>
          /\ e[1] \in Resolved(e[2]) \cap Nodes
      BY DEF Edges, Resolved
    <3>2. Before(p, e[1], e[2])
      BY <2>1, <3>1
    <3> QED
      BY <3>1, <3>2 DEF Before
  <2> QED
    BY <2>2, <2>3 DEF RunsInOrder
<1>7. (\E p \in [1..Cardinality(Nodes) -> Nodes] : RunsInOrder(p)) => Cycles = {}
  BY <1>4, OrderedIsAcyclic
<1> QED
  BY <1>3, <1>5, <1>6, <1>7 DEF Runnable

\* The errors of validation, told by paths.
LEMMA ErrorsByPaths ==
  ASSUME IsFiniteSet(Nodes), TypeOK, Push \in Nodes
  PROVE  StructureErrors =
      {[kind |-> "cycle", jobs |-> {m \in Nodes : m = n \/ (Leads(m, n) /\ Leads(n, m))}] :
         n \in {m \in Nodes : InCycle(m)}}
      \cup {[kind |-> "unreachable", jobs |-> {n}] :
              n \in {m \in Nodes : ~InCycle(m) /\ ~FromPush(m)}}
<1>1. Triggers = {Push}
  BY DEF TypeOK, Triggers
<1>2. \A m, n \in Nodes : Leads(m, n) <=> m \in Above(n)
  BY PathsAreSearches
<1>3. ASSUME NEW n \in Nodes
      PROVE  Component(n) = {m \in Nodes : m = n \/ (Leads(m, n) /\ Leads(n, m))}
  BY <1>2 DEF Component, Above
<1>4. \A n \in Nodes : IsCycle(Component(n)) <=> InCycle(n)
  BY <1>2, CyclesArePaths DEF InCycle
<1>5. {[kind |-> "cycle", jobs |-> C] : C \in Cycles} =
        {[kind |-> "cycle", jobs |-> {m \in Nodes : m = n \/ (Leads(m, n) /\ Leads(n, m))}] :
           n \in {m \in Nodes : InCycle(m)}}
  <2> DEFINE J(n) == {m \in Nodes : m = n \/ (Leads(m, n) /\ Leads(n, m))}
  <2>1. Cycles = {J(n) : n \in {m \in Nodes : InCycle(m)}}
    <3>1. \A n \in Nodes : Component(n) = J(n)
      BY <1>3
    <3> HIDE DEF J
    <3> QED
      BY <1>4, <3>1 DEF Cycles
  <2> HIDE DEF J
  <2>2. {[kind |-> "cycle", jobs |-> C] : C \in Cycles} =
        {[kind |-> "cycle", jobs |-> J(n)] : n \in {m \in Nodes : InCycle(m)}}
    BY <2>1
  <2> QED
    BY <2>2 DEF J
<1>6. Unreachable = {m \in Nodes : ~InCycle(m) /\ ~FromPush(m)}
  <2>1. Unreachable = {n \in Nodes \ ({Push} \cup {m \in Nodes : m \in Above(m)}) :
                         Above(n) \cap {Push} = {}}
    BY <1>1, CyclesArePaths DEF Unreachable
  <2>2. \A n \in Nodes : n \in Unreachable <=> n # Push /\ n \notin Above(n) /\ Push \notin Above(n)
    BY <2>1
  <2>3. Unreachable \subseteq Nodes
    BY DEF Unreachable
  <2> QED
    BY <1>2, <2>2, <2>3 DEF InCycle, FromPush
<1> QED
  BY <1>5, <1>6 DEF StructureErrors

-----------------------------------------------------------------------------
(* The invariant *)

\* ci.job registers what it does not refuse, and then the id is a new one.
LEMMA RegisteredIsNew ==
  ASSUME TypeOK, NEW id \in Names, NEW inputs \in SUBSET Names
  PROVE  /\ Refusals(id, inputs) = {} =>
              id \in Ids /\ inputs # {} /\ id \notin Nodes /\ id # Push
         /\ \A e \in Refusals(id, inputs) : e.jobs \subseteq Names
<1>1. ASSUME NEW kind, Refusals(id, inputs) = {DefinitionError(kind, id)}
      PROVE  /\ Refusals(id, inputs) # {}
             /\ \A e \in Refusals(id, inputs) : e.jobs \subseteq Names
  <2>1. DefinitionError(kind, id).jobs = {id}
    BY DEF DefinitionError
  <2> QED
    BY <1>1, <2>1
<1>2. CASE id \in Slashed
  BY <1>1, <1>2 DEF Refusals
<1>3. CASE id \notin Slashed /\ inputs = {}
  BY <1>1, <1>3 DEF Refusals
<1>4. CASE id \notin Slashed /\ id \in Ids \cap Nodes /\ inputs # {}
  BY <1>1, <1>4 DEF Refusals
<1>5. CASE id \in Ids \ Nodes /\ id \notin Slashed /\ inputs # {}
  <2>1. Refusals(id, inputs) = {}
    BY <1>5 DEF Refusals
  <2> QED
    BY <1>5, <2>1
<1> QED
  BY <1>2, <1>3, <1>4, <1>5 DEF Names

LEMMA SameGraph ==
  ASSUME jobs' = jobs
  PROVE  /\ Nodes' = Nodes
         /\ Listings' = Listings
         /\ Toposorts' = Toposorts
         /\ StructureErrors' = StructureErrors
         /\ NoJobs' = NoJobs /\ Names' = Names
<1>1. Nodes' = Nodes /\ NoJobs' = NoJobs /\ Names' = Names
  BY DEF Nodes, NoJobs, Names
<1>2. Listings' = Listings
  BY <1>1 DEF Listings
<1>3. Toposorts' = Toposorts
  BY <1>1, <1>2 DEF Toposorts, Resolved, Before
<1>4. StructureErrors' = StructureErrors
  BY <1>1 DEF StructureErrors, Cycles, Unreachable, Triggers, IsCycle, Component, Above,
              Closed, Resolved
<1> QED
  BY <1>1, <1>2, <1>3, <1>4

LEMMA InitIInv == Init => IInv
<1> SUFFICES ASSUME Init PROVE IInv
  OBVIOUS
<1>1. Nodes = {}
  BY DEF Init, NoJobs, Nodes
<1>2. IsFiniteSet(Nodes) /\ Cardinality(Nodes) = 0
  BY <1>1, FS_EmptySet
<1>3. TypeOK
  <2>1. at \in 1..Cardinality(Nodes) + 1
    BY <1>2 DEF Init
  <2>2. Nodes \subseteq Ids \cup {Push} /\ \A n \in Nodes : FALSE
    BY <1>1
  <2>3. phase = "evaluating" /\ calls \in 0..MaxCalls /\ image = FALSE
    BY DEF Init
  <2>4. order = NoJobs /\ \A e \in errors : FALSE
    BY DEF Init
  <2> QED
    BY <2>1, <2>2, <2>3, <2>4 DEF TypeOK, Accepted
<1> QED
  BY <1>1, <1>2, <1>3 DEF Init, IInv, NothingDropped, Accepted, Walking, Images

LEMMA RegisterJobStep ==
  ASSUME IInv, NEW id \in Names, NEW inputs \in SUBSET Names, RegisterJob(id, inputs)
  PROVE  IInv'
<1>1. /\ TypeOK /\ IsFiniteSet(Nodes) /\ Push \notin Nodes
      /\ phase = "evaluating" /\ phase' = "evaluating"
      /\ order = NoJobs /\ order' = NoJobs /\ at = 1 /\ at' = 1
      /\ image' = image /\ calls' = calls + 1 /\ calls' \in 0..MaxCalls
      /\ errors' = errors \cup Refusals(id, inputs)
  BY DEF IInv, RegisterJob, Call, Walking, TypeOK
<1>2. CASE Refusals(id, inputs) = {}
  <2>1. id \in Ids /\ inputs # {} /\ id \notin Nodes /\ id # Push
    BY <1>1, <1>2, RegisteredIsNew
  <2>2. jobs' = With(id, inputs)
    BY <1>2 DEF RegisterJob
  <2>3. Nodes' = Nodes \cup {id}
    BY <2>2 DEF With, Nodes
  <2>4. \A n \in Nodes' : jobs'[n] = IF n = id THEN inputs ELSE jobs[n]
    BY <2>2, <2>3 DEF With
  <2>5. /\ IsFiniteSet(Nodes')
        /\ Cardinality(Nodes') = Cardinality(Nodes) + 1
        /\ Cardinality(Nodes) \in Nat
    BY <1>1, <2>1, <2>3, FS_AddElement, FS_CardinalityType
  <2>6. errors' = errors
    BY <1>1, <1>2
  <2>7. \A n \in Nodes' : jobs'[n] \subseteq Names /\ (jobs'[n] = {} <=> n = Push)
    BY <1>1, <2>1, <2>3, <2>4 DEF TypeOK
  <2>8. TypeOK'
    BY <1>1, <2>1, <2>3, <2>5, <2>6, <2>7 DEF TypeOK, Accepted
  <2>9. phase' = "evaluating" /\ errors' = {} => calls' = Cardinality(Nodes') + Images'
    <3>1. phase = "evaluating" /\ errors = {} => calls = Cardinality(Nodes) + Images
      BY DEF IInv
    <3>2. Images' = Images /\ Images \in Nat
      BY <1>1 DEF Images
    <3> QED
      BY <1>1, <2>5, <2>6, <3>1, <3>2
  <2> QED
    BY <1>1, <2>1, <2>3, <2>5, <2>8, <2>9 DEF IInv, NothingDropped, Accepted, Walking
<1>3. CASE Refusals(id, inputs) # {}
  <2>1. jobs' = jobs /\ errors' # {} /\ (\A e \in errors' : e.jobs \subseteq Names)
    BY <1>1, <1>3, RegisteredIsNew DEF RegisterJob, TypeOK
  <2>2. TypeOK'
    BY <1>1, <2>1, SameGraph DEF TypeOK, Accepted
  <2> QED
    BY <1>1, <2>1, <2>2, SameGraph DEF IInv, NothingDropped, Accepted, Walking
<1> QED
  BY <1>2, <1>3

LEMMA RegisterImageStep ==
  ASSUME IInv, RegisterImage
  PROVE  IInv'
<1>1. /\ TypeOK /\ IsFiniteSet(Nodes) /\ Push \notin Nodes
      /\ phase = "evaluating" /\ phase' = "evaluating"
      /\ order = NoJobs /\ order' = NoJobs /\ at = 1 /\ at' = 1
      /\ jobs' = jobs /\ calls' = calls + 1 /\ calls' \in 0..MaxCalls
  <2>1. Call /\ UNCHANGED <<phase, jobs, order, at>>
    BY DEF RegisterImage
  <2> QED
    BY <2>1 DEF IInv, Call, Walking, TypeOK
<1>2. image' = TRUE /\ image \in BOOLEAN
  BY DEF IInv, RegisterImage, TypeOK
<1>3. CASE image
  <2>1. errors' = errors \cup {[kind |-> "duplicate image", jobs |-> {}]}
    BY <1>3 DEF RegisterImage
  <2>2. TypeOK'
    <3>1. \A e \in errors : e.jobs \subseteq Names
      BY <1>1 DEF TypeOK
    <3>2. [kind |-> "duplicate image", jobs |-> {}].jobs \subseteq Names
      OBVIOUS
    <3>3. \A e \in errors' : e.jobs \subseteq Names
      BY <2>1, <3>1, <3>2
    <3> QED
      BY <1>1, <1>2, <3>3, SameGraph DEF TypeOK, Accepted
  <2> QED
    BY <1>1, <2>1, <2>2, SameGraph DEF IInv, NothingDropped, Accepted, Walking
<1>4. CASE ~image
  <2>1. errors' = errors
    BY <1>4 DEF RegisterImage
  <2>2. TypeOK'
    BY <1>1, <1>2, <2>1, SameGraph DEF TypeOK, Accepted
  <2>3. errors = {} => calls = Cardinality(Nodes)
    <3>1. Images = 0
      BY <1>4 DEF Images
    <3>2. Cardinality(Nodes) \in Nat
      BY <1>1, FS_CardinalityType
    <3> QED
      BY <1>1, <3>1, <3>2 DEF IInv
  <2>4. errors' = {} => calls' = Cardinality(Nodes') + Images'
    BY <1>1, <1>2, <2>1, <2>3, SameGraph DEF Images
  <2> QED
    BY <1>1, <2>2, <2>4, SameGraph DEF IInv, NothingDropped, Accepted, Walking
<1> QED
  BY <1>3, <1>4

LEMMA EvalFailsStep ==
  ASSUME IInv, EvalFails
  PROVE  IInv'
<1>1. TypeOK'
  BY SameGraph DEF IInv, EvalFails, TypeOK, Accepted
<1> QED
  BY <1>1, SameGraph DEF IInv, EvalFails, NothingDropped, Accepted, Walking

LEMMA EndEvalStep ==
  ASSUME IInv, EndEval
  PROVE  IInv'
<1>1. /\ TypeOK /\ IsFiniteSet(Nodes) /\ Push \notin Nodes
      /\ phase = "evaluating" /\ order = NoJobs /\ order' = NoJobs /\ at = 1 /\ at' = 1
      /\ image' = image /\ calls' = calls /\ errors' = errors
      /\ calls \in 0..MaxCalls
  BY DEF IInv, EndEval, Walking, TypeOK
<1>2. CASE errors # {}
  <2>1. phase' = "misdefined" /\ jobs' = jobs
    BY <1>2 DEF EndEval
  <2>2. TypeOK'
    BY <1>1, <2>1, SameGraph DEF TypeOK, Accepted
  <2> QED
    BY <1>1, <2>1, <2>2, SameGraph DEF IInv, NothingDropped, Accepted, Walking
<1>3. CASE errors = {}
  <2>1. phase' = "building" /\ jobs' = With(Push, {})
    BY <1>3 DEF EndEval
  <2>2. Nodes' = Nodes \cup {Push}
    BY <2>1 DEF With, Nodes
  <2>3. \A n \in Nodes' : jobs'[n] = IF n = Push THEN {} ELSE jobs[n]
    BY <2>1, <2>2 DEF With
  <2>4. /\ IsFiniteSet(Nodes')
        /\ Cardinality(Nodes') = Cardinality(Nodes) + 1
        /\ Cardinality(Nodes) \in Nat
    BY <1>1, <2>2, FS_AddElement, FS_CardinalityType
  <2>5. TypeOK'
    BY <1>1, <2>1, <2>2, <2>3, <2>4 DEF TypeOK, Accepted
  <2>6. NothingDropped'
    <3>1. (Nodes \ {Push})' = Nodes
      BY <1>1, <2>2
    <3>2. calls = Cardinality(Nodes) + Images
      BY <1>1, <1>3 DEF IInv
    <3> QED
      BY <1>1, <3>1, <3>2 DEF NothingDropped, Images
  <2> QED
    BY <1>1, <2>1, <2>2, <2>4, <2>5, <2>6 DEF IInv, Accepted, Walking
<1> QED
  BY <1>2, <1>3

LEMMA ErrorsNameJobs ==
  ASSUME TypeOK, NEW e \in StructureErrors
  PROVE  e.jobs \subseteq Names
<1>1. Nodes \subseteq Names
  BY NamesAssumption DEF TypeOK, Names
<1>2. CASE e \in {[kind |-> "cycle", jobs |-> C] : C \in Cycles}
  <2>1. PICK C \in Cycles : e = [kind |-> "cycle", jobs |-> C]
    BY <1>2
  <2>2. C \subseteq Nodes
    BY DEF Cycles, Component, Above
  <2> QED
    BY <1>1, <2>1, <2>2
<1>3. CASE e \in {[kind |-> "unreachable", jobs |-> {n}] : n \in Unreachable}
  <2>1. PICK n \in Unreachable : e = [kind |-> "unreachable", jobs |-> {n}]
    BY <1>3
  <2>2. n \in Nodes
    BY DEF Unreachable
  <2> QED
    BY <1>1, <2>1, <2>2
<1> QED
  BY <1>2, <1>3 DEF StructureErrors

LEMMA ValidateStep ==
  ASSUME IInv, Validate
  PROVE  IInv'
<1>1. /\ TypeOK /\ phase = "building"
      /\ order = NoJobs /\ order' = NoJobs /\ at = 1 /\ at' = 1
      /\ jobs' = jobs /\ image' = image /\ calls' = calls
      /\ errors' = StructureErrors
      /\ phase' = IF StructureErrors = {} THEN "compiled" ELSE "misbuilt"
  BY DEF IInv, Validate, Walking
<1>2. \A e \in errors' : e.jobs \subseteq Names
  BY <1>1, ErrorsNameJobs
<1>3. TypeOK'
  BY <1>1, <1>2, SameGraph DEF TypeOK, Accepted
<1>4. NothingDropped'
  BY <1>1, SameGraph DEF IInv, NothingDropped
<1>5. (Accepted => StructureErrors = {})'
  BY <1>1, SameGraph DEF Accepted
<1> QED
  BY <1>1, <1>3, <1>4, <1>5, SameGraph DEF IInv, Walking

LEMMA StartStep ==
  ASSUME IInv, Start
  PROVE  IInv'
<1>1. /\ TypeOK /\ phase = "compiled" /\ phase' = "running"
      /\ at = 1 /\ at' = 1 /\ order' \in Toposorts
      /\ jobs' = jobs /\ image' = image /\ calls' = calls /\ errors' = errors
  BY DEF IInv, Start, Walking
<1>2. order' \in Listings
  BY <1>1 DEF Toposorts
<1>3. TypeOK'
  BY <1>1, <1>2, SameGraph DEF TypeOK, Accepted
<1>4. Push \in Nodes
  BY <1>1 DEF TypeOK, Accepted
<1>5. 1 <= Cardinality(Nodes)
  <2>1. Cardinality(Nodes) \in Nat /\ Cardinality(Nodes) # 0
    BY <1>4, FS_CardinalityType, FS_EmptySet DEF IInv
  <2> QED
    BY <2>1
<1>6. NothingDropped' /\ (Accepted => StructureErrors = {})'
  BY <1>1, SameGraph DEF IInv, NothingDropped, Accepted
<1> QED
  BY <1>1, <1>3, <1>5, <1>6, SameGraph DEF IInv, Walking

LEMMA JobSucceedsStep ==
  ASSUME IInv, JobSucceeds
  PROVE  IInv'
<1>1. /\ TypeOK /\ phase = "running" /\ phase' \in {"running", "finished"}
      /\ order \in Toposorts /\ order' = order /\ at' = at + 1
      /\ jobs' = jobs /\ image' = image /\ calls' = calls /\ errors' = errors
      /\ phase' = "running" => at # Cardinality(Nodes)
  BY DEF IInv, JobSucceeds, Walking
<1>2. at \in 1..Cardinality(Nodes) /\ Cardinality(Nodes) \in Nat
  BY <1>1, FS_CardinalityType DEF IInv, TypeOK
<1>3. TypeOK'
  <2>1. at' \in 1..Cardinality(Nodes) + 1
    BY <1>1, <1>2
  <2> QED
    BY <1>1, <2>1, SameGraph DEF TypeOK, Accepted
<1>4. NothingDropped' /\ (Accepted => StructureErrors = {})'
  BY <1>1, SameGraph DEF IInv, NothingDropped, Accepted
<1>5. phase' = "running" => at' <= Cardinality(Nodes)
  BY <1>1, <1>2
<1> QED
  BY <1>1, <1>3, <1>4, <1>5, SameGraph DEF IInv, Walking

LEMMA JobFailsStep ==
  ASSUME IInv, JobFails
  PROVE  IInv'
<1>1. /\ TypeOK /\ phase = "running" /\ phase' = "stopped"
      /\ order' = order /\ at' = at
      /\ jobs' = jobs /\ image' = image /\ calls' = calls /\ errors' = errors
  BY DEF IInv, JobFails
<1>2. TypeOK'
  BY <1>1, SameGraph DEF TypeOK, Accepted
<1> QED
  BY <1>1, <1>2, SameGraph DEF IInv, NothingDropped, Accepted, Walking

LEMMA StepIInv == IInv /\ [Next]_vars => IInv'
<1> SUFFICES ASSUME IInv, [Next]_vars PROVE IInv'
  OBVIOUS
<1>1. CASE \E id \in Names, inputs \in SUBSET Names : RegisterJob(id, inputs)
  BY <1>1, RegisterJobStep
<1>2. CASE RegisterImage
  BY <1>2, RegisterImageStep
<1>3. CASE EvalFails
  BY <1>3, EvalFailsStep
<1>4. CASE EndEval
  BY <1>4, EndEvalStep
<1>5. CASE Validate
  BY <1>5, ValidateStep
<1>6. CASE Start
  BY <1>6, StartStep
<1>7. CASE JobSucceeds
  BY <1>7, JobSucceedsStep
<1>8. CASE JobFails
  BY <1>8, JobFailsStep
<1>9. CASE UNCHANGED vars
  BY <1>9, SameGraph DEF IInv, vars, TypeOK, NothingDropped, Accepted, Walking, Images
<1> QED
  BY <1>1, <1>2, <1>3, <1>4, <1>5, <1>6, <1>7, <1>8, <1>9 DEF Next

LEMMA Invariance == Spec => []IInv
BY InitIInv, StepIInv, PTL DEF Spec

-----------------------------------------------------------------------------
(* Theorems *)

\* Whatever a script calls, a registered job has an unreserved id and an input,
\* and quire/push is there once and only once registration is over.
THEOREM TypeCorrect == Spec => []TypeOK
<1>1. IInv => TypeOK
  BY DEF IInv
<1> QED
  BY <1>1, Invariance, PTL

\* For any number of ci.job and ci.image calls: what gets past registration has
\* a job for each ci.job call and the image of the one ci.image call.
THEOREM NothingIsDropped == Spec => []NothingDropped
<1>1. IInv => NothingDropped
  BY DEF IInv
<1> QED
  BY <1>1, Invariance, PTL

\* For every graph and every topological order of it: a job is entered after all
\* its inputs, and `(jobs name)` only answers for jobs that have succeeded.
THEOREM ReadsFollowRuns == Spec => []ReadsAreDone
<1>1. IInv => ReadsAreDone
  <2> SUFFICES ASSUME IInv, phase = "running" PROVE
           /\ Resolved(Current) \subseteq Done
           /\ \A n \in Names : Lookup(Current, n) # "error" => n \in Done
    BY DEF ReadsAreDone
  <2>1. /\ Done \subseteq Nodes /\ Closed(Done)
        /\ Current \in Nodes /\ Resolved(Current) \subseteq Done
    BY DoneClosed DEF IInv, TypeOK, Walking
  <2>2. Above(Current) \subseteq Done
    BY <2>1, SearchStays
  <2>3. \A n \in Names : Lookup(Current, n) # "error" => n \in TransitiveInputs(Current)
    BY DEF Lookup
  <2> QED
    BY <2>1, <2>2, <2>3 DEF TransitiveInputs
<1> QED
  BY <1>1, Invariance, PTL

\* What the verdict of validation leaves behind.
Judged ==
  phase \in {"compiled", "misbuilt"} =>
    Push \in Nodes /\ errors = StructureErrors /\ (phase = "misbuilt" => errors # {})

LEMMA KeepJudged == IInv /\ Judged /\ [Next]_vars => Judged'
<1> SUFFICES ASSUME IInv, Judged, [Next]_vars PROVE Judged'
  OBVIOUS
<1>1. CASE Validate
  <2>1. jobs' = jobs /\ phase = "building" /\ errors' = StructureErrors
        /\ phase' = IF StructureErrors = {} THEN "compiled" ELSE "misbuilt"
    BY <1>1 DEF Validate
  <2>2. Push \in Nodes
    BY <2>1 DEF IInv, TypeOK
  <2> QED
    BY <2>1, <2>2, SameGraph DEF Judged
<1>2. CASE UNCHANGED vars
  BY <1>2, SameGraph DEF Judged, vars
<1>3. ASSUME NEW id \in Names, NEW inputs \in SUBSET Names, RegisterJob(id, inputs)
      PROVE  Judged'
  BY <1>3 DEF RegisterJob, Call, Judged
<1>4. CASE RegisterImage
  BY <1>4 DEF RegisterImage, Call, Judged
<1>5. CASE EvalFails \/ Start \/ JobSucceeds \/ JobFails
  BY <1>5 DEF EvalFails, Start, JobSucceeds, JobFails, Judged
<1>6. CASE EndEval
  BY <1>6 DEF EndEval, Judged
<1> QED
  BY <1>1, <1>2, <1>3, <1>4, <1>5, <1>6 DEF Next

LEMMA JudgedInvariance == Spec => []Judged
<1>1. Init => Judged
  BY DEF Init, Judged
<1> QED
  BY <1>1, Invariance, KeepJudged, PTL DEF Spec

\* A graph is refused exactly when its jobs cannot all be run, one after the other
\* and from a push: the toposort of an accepted graph is always there, and no graph
\* that has one is refused (validate_post_graph).
THEOREM RefusedIsUnrunnable == Spec => []RefusedIffUnrunnable
<1>1. IInv /\ Judged => RefusedIffUnrunnable
  <2> SUFFICES ASSUME IInv, Judged, phase \in {"compiled", "misbuilt"}
               PROVE  StructureErrors = {} <=> phase = "compiled"
    BY SoundIsRunnable DEF IInv, Judged, RefusedIffUnrunnable
  <2> QED
    BY DEF IInv, Judged, Accepted
<1> QED
  BY <1>1, Invariance, JudgedInvariance, PTL

\* The diagnostics of a refused graph are one error for each set of jobs that lie on
\* a common cycle and one for each other job that no push leads to
\* (validate_post_graph).
THEOREM CulpritsAreNamed == Spec => []ErrorsNameCulprits
<1>1. IInv /\ Judged => ErrorsNameCulprits
  BY ErrorsByPaths DEF IInv, Judged, ErrorsNameCulprits
<1> QED
  BY <1>1, Invariance, JudgedInvariance, PTL

\* `(jobs name)` answers for exactly the jobs that a path leads from to the calling
\* one, itself left out (Runtime::new).
THEOREM ViewsArePaths == Spec => []ViewsMatchPaths
<1>1. IInv => ViewsMatchPaths
  <2> SUFFICES ASSUME IInv, phase = "running", NEW n \in Names
               PROVE  Lookup(Current, n) =
                        IF n \in Nodes \ {Current} /\ Leads(n, Current)
                        THEN IF n = Push THEN "push" ELSE "nil"
                        ELSE "error"
    BY DEF ViewsMatchPaths
  <2>1. Current \in Nodes
    BY DoneClosed DEF IInv, Walking, TypeOK
  <2>2. n \in TransitiveInputs(Current) <=> n \in Nodes \ {Current} /\ Leads(n, Current)
    BY <2>1, PathsAreSearches DEF IInv, TransitiveInputs, Above
  <2> QED
    BY <2>2 DEF Lookup
<1> QED
  BY <1>1, Invariance, PTL

-----------------------------------------------------------------------------
(* The refinement *)

InputsOf == [n \in Nodes |-> Resolved(n)]
RunGraph == IF Accepted THEN InputsOf ELSE NoJobs

LEMMA NothingDone == ASSUME at = 1 PROVE Done = {}
BY DEF Done

LEMMA InitRefines == Init => Dataflow!Init
<1> SUFFICES ASSUME Init PROVE Dataflow!Init
  OBVIOUS
<1>1. ~Accepted /\ at = 1 /\ phase # "stopped"
  BY DEF Init, Accepted
<1>2. RunGraph = NoJobs
  BY <1>1 DEF RunGraph
<1>3. Done = {}
  BY <1>1, NothingDone
<1> QED
  BY <1>1, <1>2, <1>3 DEF Dataflow!Init, Dataflow!NoGraph, NoJobs, RunGraph, InputsOf

\* Before the pipeline is accepted the abstract run has not begun.
LEMMA UnacceptedStutters ==
  ASSUME IInv, IInv', ~Accepted, ~Accepted'
  PROVE  UNCHANGED Dataflow!vars
<1>1. RunGraph = NoJobs /\ RunGraph' = NoJobs
  BY DEF RunGraph, NoJobs
<1>2. at = 1 /\ at' = 1 /\ phase # "stopped" /\ phase' # "stopped"
  BY DEF IInv, Accepted, Walking
<1>3. Done = {}
  BY <1>2, NothingDone
<1>4. Done' = {}
  BY <1>2 DEF Done
<1>5. (phase = "stopped")' = (phase = "stopped")
  BY <1>2
<1> QED
  BY <1>1, <1>3, <1>4, <1>5 DEF Dataflow!vars, RunGraph, InputsOf

LEMMA SameRunGraph ==
  ASSUME jobs' = jobs, Accepted, Accepted'
  PROVE  RunGraph' = RunGraph
<1>1. InputsOf' = InputsOf
  BY DEF InputsOf, Resolved, Nodes
<1> QED
  BY <1>1 DEF RunGraph

LEMMA ValidateRefines ==
  ASSUME IInv, IInv', Validate
  PROVE  [Dataflow!Next]_(Dataflow!vars)
<1>1. CASE StructureErrors # {}
  <2>1. ~Accepted /\ ~Accepted'
    BY <1>1 DEF Validate, Accepted
  <2> QED
    BY <2>1, UnacceptedStutters
<1>2. CASE StructureErrors = {}
  <2>1. /\ ~Accepted /\ Accepted' /\ phase # "stopped" /\ phase' # "stopped"
        /\ jobs' = jobs /\ at = 1 /\ at' = 1 /\ Push \in Nodes /\ TypeOK
    BY <1>2 DEF Validate, Accepted, IInv, Walking, TypeOK
  <2>2. RunGraph = Dataflow!NoGraph
    BY <2>1 DEF RunGraph, NoJobs, Dataflow!NoGraph
  <2>3. InputsOf' = InputsOf
    BY <2>1 DEF InputsOf, Resolved, Nodes
  <2>4. RunGraph' = InputsOf
    BY <2>1, <2>3 DEF RunGraph
  <2>5. Dataflow!Rooted(InputsOf)
    BY <1>2, <2>1, SoundGraphsAreRooted DEF InputsOf
  <2>6. Dataflow!Rooted(RunGraph')
    BY <2>4, <2>5
  <2>7. Done' = Done
    BY <2>1 DEF Done
  <2>8. Dataflow!Accept
    BY <2>1, <2>2, <2>6, <2>7 DEF Dataflow!Accept, RunGraph, InputsOf
  <2> QED
    BY <2>8 DEF Dataflow!Next
<1> QED
  BY <1>1, <1>2

LEMMA StartRefines ==
  ASSUME IInv, IInv', Start
  PROVE  [Dataflow!Next]_(Dataflow!vars)
<1>1. /\ Accepted /\ Accepted' /\ phase # "stopped" /\ phase' # "stopped"
      /\ jobs' = jobs /\ at = 1 /\ at' = 1
  BY DEF Start, Accepted, IInv, Walking
<1>2. RunGraph' = RunGraph
  BY <1>1, SameRunGraph
<1>3. Done' = Done
  BY <1>1 DEF Done
<1> QED
  BY <1>1, <1>2, <1>3 DEF Dataflow!vars, RunGraph, InputsOf

LEMMA JobSucceedsRefines ==
  ASSUME IInv, IInv', JobSucceeds
  PROVE  [Dataflow!Next]_(Dataflow!vars)
<1>1. /\ Accepted /\ Accepted' /\ phase # "stopped" /\ phase' # "stopped"
      /\ jobs' = jobs /\ order' = order /\ at' = at + 1
      /\ order \in Toposorts /\ IsFiniteSet(Nodes)
      /\ at \in 1..Cardinality(Nodes) + 1 /\ at <= Cardinality(Nodes)
  BY DEF JobSucceeds, Accepted, IInv, Walking, TypeOK
<1>2. RunGraph' = RunGraph
  BY <1>1, SameRunGraph
<1>3. Current \in Nodes /\ Current \notin Done /\ Resolved(Current) \subseteq Done
  BY <1>1, DoneClosed
<1>4. Done' = Done \cup {Current}
  <2>1. 1..at' - 1 = (1..at - 1) \cup {at}
    BY <1>1
  <2> QED
    BY <1>1, <2>1 DEF Done, Current
<1>5. RunGraph[Current] = Resolved(Current) /\ Current \in DOMAIN RunGraph
  BY <1>1, <1>3 DEF RunGraph, InputsOf
<1>6. Dataflow!Run(Current)
  BY <1>1, <1>2, <1>3, <1>4, <1>5 DEF Dataflow!Run, RunGraph, InputsOf
<1> QED
  BY <1>5, <1>6 DEF Dataflow!Next, RunGraph, InputsOf

LEMMA JobFailsRefines ==
  ASSUME IInv, IInv', JobFails
  PROVE  [Dataflow!Next]_(Dataflow!vars)
<1>1. /\ Accepted /\ Accepted' /\ phase = "running" /\ phase' = "stopped"
      /\ jobs' = jobs /\ order' = order /\ at' = at /\ Push \in Nodes
  BY DEF JobFails, Accepted, IInv, TypeOK
<1>2. RunGraph' = RunGraph
  BY <1>1, SameRunGraph
<1>3. Done' = Done
  BY <1>1 DEF Done
<1>4. RunGraph # Dataflow!NoGraph
  BY <1>1 DEF RunGraph, InputsOf, Dataflow!NoGraph
<1>5. Dataflow!Stop
  BY <1>1, <1>2, <1>3, <1>4 DEF Dataflow!Stop, RunGraph, InputsOf
<1> QED
  BY <1>5 DEF Dataflow!Next

LEMMA StepRefines ==
  IInv /\ IInv' /\ [Next]_vars => [Dataflow!Next]_(Dataflow!vars)
<1> SUFFICES ASSUME IInv, IInv', [Next]_vars PROVE [Dataflow!Next]_(Dataflow!vars)
  OBVIOUS
<1>1. CASE phase = "evaluating" /\ phase' \in {"evaluating", "failed", "misdefined", "building"}
  BY <1>1, UnacceptedStutters DEF Accepted
<1>2. CASE \/ \E id \in Names, inputs \in SUBSET Names : RegisterJob(id, inputs)
           \/ RegisterImage \/ EvalFails \/ EndEval
  BY <1>1, <1>2 DEF RegisterJob, RegisterImage, EvalFails, EndEval, Call
<1>3. CASE Validate
  BY <1>3, ValidateRefines
<1>4. CASE Start
  BY <1>4, StartRefines
<1>5. CASE JobSucceeds
  BY <1>5, JobSucceedsRefines
<1>6. CASE JobFails
  BY <1>6, JobFailsRefines
<1>7. CASE UNCHANGED vars
  <2>1. /\ (Accepted <=> Accepted') /\ (phase = "stopped")' = (phase = "stopped")
        /\ jobs' = jobs /\ order' = order /\ at' = at
    BY <1>7 DEF vars, Accepted
  <2>2. Done' = Done
    BY <2>1 DEF Done
  <2>3. CASE ~Accepted
    BY <2>1, <2>3, UnacceptedStutters
  <2>4. CASE Accepted
    <3>1. RunGraph' = RunGraph
      BY <2>1, <2>4, SameRunGraph
    <3> QED
      BY <2>1, <2>2, <3>1 DEF Dataflow!vars, RunGraph, InputsOf
  <2> QED
    BY <2>3, <2>4
<1> QED
  BY <1>2, <1>3, <1>4, <1>5, <1>6, <1>7 DEF Next

\* Every accepted pipeline, whatever order it is walked in and wherever it fails,
\* runs as the dataflow graph docs/CI-FENNEL.md describes: all of it downstream
\* of the push, a job at most once and after the success of its inputs.
THEOREM RunsAsDataflow == Spec => ImplementsDataflow
BY InitRefines, StepRefines, Invariance, PTL DEF Spec, ImplementsDataflow, Dataflow!Spec

-----------------------------------------------------------------------------
(* The host runs the pipeline *)

USE FirstAssumption, WordsAssumption, NullAssumption

\* The process is gone: what was in the VM stays as it is.
Gone ==
  /\ vm' = "closed" /\ answer' = Null
  /\ UNCHANGED <<vars, table, filled, sink, app, cursor, held>>

HostStep == CompileNext \/ Script \/ JobsNext \/ Uninstall \/ Dismiss \/ Gone

LEMMA HostSteps ==
  ASSUME [LocalNext]_localVars
  PROVE  \/ worker = "running" /\ HostStep
         \/ UNCHANGED <<vars, vmVars>>
<1>1. CASE Compiles \/ Runs
  BY <1>1 DEF Compiles, Runs, HostStep
<1>2. CASE Break
  BY <1>2 DEF Break, HostStep, Gone
<1>3. CASE Work \/ Resolve \/ Check \/ NoPipeline \/ Create \/ Materialize \/ Execute
  BY <1>3 DEF Work, Resolve, Check, NoPipeline, Create, Materialize, Execute, OfCommand
<1>4. CASE GivesUp \/ Finish \/ ReadHead \/ NoStart \/ EmitOutcome \/ Return
  BY <1>4 DEF GivesUp, Finish, OfCommand, ReadHead, NoStart, EmitOutcome, Return
<1>5. CASE UNCHANGED localVars
  BY <1>5 DEF localVars
<1> QED
  BY <1>1, <1>2, <1>3, <1>4, <1>5 DEF LocalNext

\* What a step of the host does to the phase.
LEMMA PhaseMoves ==
  ASSUME HostStep
  PROVE  \/ phase' = phase
         \/ phase = "evaluating" /\ phase' \in {"failed", "misdefined", "building"}
         \/ phase = "building" /\ phase' \in {"compiled", "misbuilt"}
         \/ phase = "compiled" /\ phase' = "running"
         \/ phase = "running" /\ phase' \in {"stopped", "finished"}
<1>1. CASE CompileNext
  BY <1>1 DEF CompileNext, NewVM, Bind, ScriptFails, EvalFails, ScriptEnds, EndEval, Checks,
     Validate, Close, vars
<1>2. CASE Script
  BY <1>2 DEF Script, Registers, RegisterJob, RegisterImage, KeepTable, KeepFunction,
     CallPrimitive, RegisterLate, vars
<1>3. CASE JobsNext
  BY <1>3 DEF JobsNext, Install, Start, EnterJob, LeaveJob, JobSucceeds, JobFails, vars
<1>4. CASE Uninstall \/ Dismiss \/ Gone
  BY <1>4 DEF Uninstall, Dismiss, Gone, vars
<1> QED
  BY <1>1, <1>2, <1>3, <1>4 DEF HostStep

\* Every step of the host keeps the VM in step with the pipeline.
LEMMA KeepHost ==
  ASSUME HostInv, [LocalNext]_localVars
  PROVE  HostInv'
<1> USE DEF HostInv, VmFollowsPhase, Furnished, Walks
<1>1. CASE CompileNext
  <2>1. CASE NewVM \/ Bind
    BY <2>1 DEF NewVM, Bind, vars, Current
  <2>2. CASE ScriptFails
    BY <2>2 DEF ScriptFails, EvalFails, Current
  <2>3. CASE ScriptEnds
    BY <2>3 DEF ScriptEnds, EndEval, Current
  <2>4. CASE Checks
    BY <2>4 DEF Checks, Validate, Current
  <2>5. CASE Close
    BY <2>5 DEF Close, vars, Current
  <2> QED
    BY <1>1, <2>1, <2>2, <2>3, <2>4, <2>5 DEF CompileNext
<1>2. CASE Script
  <2>1. UNCHANGED <<vm, phase, order, at, table, filled, sink, app, cursor>>
    BY <1>2 DEF Script, Registers, RegisterJob, RegisterImage, KeepTable, KeepFunction,
       CallPrimitive, RegisterLate, vars
  <2>2. held' \subseteq {table, Function} /\ (held' # {} => vm \notin {"none", "fresh"})
    BY <1>2 DEF Script, Registers, KeepTable, KeepFunction, CallPrimitive, RegisterLate,
       RunsScript
  <2> QED
    BY <2>1, <2>2 DEF Current
<1>3. CASE JobsNext
  <2>1. CASE Install
    BY <2>1 DEF Install, Start
  <2>2. CASE EnterJob
    BY <2>2 DEF EnterJob, Current, vars
  <2>3. CASE LeaveJob
    BY <2>3 DEF LeaveJob, JobSucceeds, JobFails
  <2> QED
    BY <1>3, <2>1, <2>2, <2>3 DEF JobsNext
<1>4. CASE Uninstall \/ Dismiss
  BY <1>4 DEF Uninstall, Dismiss, vars
<1>5. CASE Gone
  BY <1>5 DEF Gone, vars
<1>6. CASE UNCHANGED <<vars, vmVars>>
  BY <1>6 DEF vars, vmVars, Current
<1> QED
  BY <1>1, <1>2, <1>3, <1>4, <1>5, <1>6, HostSteps DEF HostStep

LEMMA InitHost == HostInit => HostInv
BY DEF HostInit, Init, HostInv, VmFollowsPhase, Furnished, Walks

LEMMA HostInvariance == LocalSpec => []HostInv
BY InitHost, KeepHost, PTL DEF LocalSpec, LocalInit

\* A call that comes too late raises, and what the script registered stays.
LEMMA HostRefines ==
  ASSUME HostInv, [LocalNext]_localVars
  PROVE  [Next]_vars
<1>1. CASE CompileNext
  BY <1>1 DEF CompileNext, NewVM, Bind, ScriptFails, ScriptEnds, Checks, Close, Next
<1>2. CASE Script
  <2>1. CASE Registers
    BY <2>1 DEF Registers, Next
  <2>2. CASE RegisterLate
    BY <2>2 DEF RegisterLate, HostInv, Furnished, vars
  <2>3. CASE KeepTable \/ KeepFunction \/ \E ref \in held, prim \in Prims : CallPrimitive(ref, prim)
    BY <2>3 DEF KeepTable, KeepFunction, CallPrimitive
  <2> QED
    BY <1>2, <2>1, <2>2, <2>3 DEF Script
<1>3. CASE JobsNext
  BY <1>3 DEF JobsNext, Install, EnterJob, LeaveJob, Next
<1>4. CASE Uninstall \/ Dismiss \/ Gone
  BY <1>4 DEF Uninstall, Dismiss, Gone
<1> QED
  BY <1>1, <1>2, <1>3, <1>4, HostSteps DEF HostStep

\* The processes around a pipeline, whichever started it and whatever the script
\* does in its run-fns, run it as compile and run_pipeline alone would.
THEOREM HostsRunPipelines == LocalSpec => Spec
<1>1. LocalInit => Init
  BY DEF LocalInit, HostInit
<1> QED
  BY <1>1, HostInvariance, HostRefines, PTL DEF LocalSpec, Spec

\* So what a script asked for is not dropped in them either,
THEOREM NothingIsDroppedHere == LocalSpec => []NothingDropped
BY HostsRunPipelines, NothingIsDropped, PTL

\* The processes that host a pipeline refuse, diagnose and show what the paths of its
\* graph say.
THEOREM HostsJudgeByPaths ==
  LocalSpec => [](RefusedIffUnrunnable /\ ErrorsNameCulprits /\ ViewsMatchPaths)
BY HostsRunPipelines, RefusedIsUnrunnable, CulpritsAreNamed, ViewsArePaths, PTL

\* and their runs are runs of the dataflow graph.
THEOREM HostsRunDataflow == LocalSpec => ImplementsDataflow
BY HostsRunPipelines, RunsAsDataflow, PTL

-----------------------------------------------------------------------------
(* The primitives *)

\* Every job but the built-in one may ask for the push.
LEMMA JobsSeePush ==
  ASSUME IInv, phase = "running"
  PROVE  /\ Current \in Nodes /\ Current # Null
         /\ Current # Push => Lookup(Current, Push) # "error"
<1>1. /\ TypeOK /\ Push \in Nodes /\ StructureErrors = {} /\ Current \in Nodes
      /\ Nodes \subseteq Ids \cup {Push}
  BY DoneClosed DEF IInv, TypeOK, Accepted, Walking
<1>2. ASSUME Current # Push
      PROVE  Push \in Above(Current)
  <2>1. Cycles = {} /\ Unreachable = {}
    <3>1. StructureErrors = {}
      BY <1>1
    <3>2. /\ \A C \in Cycles : [kind |-> "cycle", jobs |-> C] \in StructureErrors
          /\ \A n \in Unreachable :
               [kind |-> "unreachable", jobs |-> {n}] \in StructureErrors
      BY DEF StructureErrors
    <3> QED
      BY <3>1, <3>2
  <2>2. Triggers = {Push}
    BY <1>1 DEF TypeOK, Triggers
  <2> QED
    BY <1>1, <1>2, <2>1, <2>2 DEF Unreachable
<1>3. Current # Push => Lookup(Current, Push) # "error"
  BY <1>2 DEF Lookup, TransitiveInputs
<1> QED
  BY <1>1, <1>3, NamesAssumption

LEMMA KeepPrimitives ==
  ASSUME HostInv, IInv, PrimitivesFollowJobs, [LocalNext]_localVars
  PROVE  PrimitivesFollowJobs'
<1>1. CASE CompileNext \/ JobsNext \/ Uninstall \/ Dismiss \/ Gone
  <2>1. answer' = Null
    BY <1>1 DEF CompileNext, NewVM, Bind, ScriptFails, ScriptEnds, Checks, Close, JobsNext,
       Install, EnterJob, LeaveJob, Uninstall, Dismiss, Gone
  <2> QED
    BY <2>1 DEF PrimitivesFollowJobs
<1>2. CASE Script
  <2>1. CASE Registers \/ KeepTable \/ KeepFunction \/ RegisterLate
    <3>1. answer' = Null
      BY <2>1 DEF Registers, KeepTable, KeepFunction, RegisterLate
    <3> QED
      BY <3>1 DEF PrimitivesFollowJobs
  <2>2. ASSUME NEW ref \in held, NEW prim \in Prims, CallPrimitive(ref, prim)
        PROVE  PrimitivesFollowJobs'
    <3>1. /\ answer'.works = Answers(ref, prim)
          /\ answer'.under = IF Answers(ref, prim) THEN cursor ELSE Null
          /\ UNCHANGED <<vm, order, at, app, filled, cursor>>
      BY <2>2 DEF CallPrimitive, vars
    <3>2. RunsScript' <=> RunsScript
      BY <3>1 DEF RunsScript, Current
    <3>3. vm # "closed" /\ Furnished /\ VmFollowsPhase /\ ref \in {table, Function}
      BY <2>2 DEF HostInv, CallPrimitive
    <3>4. CASE vm = "entered"
      <4>1. phase = "running" /\ cursor = Current /\ app /\ filled = {table}
        BY <3>3, <3>4 DEF Furnished, VmFollowsPhase, Walks
      <4>2. Reaches(ref)
        BY <3>3, <4>1 DEF Reaches
      <4>3. RunsScript => Answers(ref, prim)
        BY <3>4, <4>1, <4>2, JobsSeePush DEF RunsScript, Answers
      <4> QED
        BY <3>1, <3>2, <3>4, <4>1, <4>3 DEF PrimitivesFollowJobs, Current
    <3>5. CASE vm = "installed"
      <4>1. cursor = Null
        BY <3>3, <3>5 DEF Furnished
      <4> QED
        BY <3>1, <3>5, <4>1 DEF PrimitivesFollowJobs
    <3>6. CASE vm \notin {"installed", "entered"}
      <4>1. ~Answers(ref, prim)
        BY <3>3, <3>6 DEF Furnished, Walks, Answers, Reaches
      <4> QED
        BY <3>1, <3>6, <4>1 DEF PrimitivesFollowJobs
    <3> QED
      BY <3>4, <3>5, <3>6
  <2> QED
    BY <1>2, <2>1, <2>2 DEF Script
<1>3. CASE UNCHANGED <<vars, vmVars>>
  BY <1>3 DEF vars, vmVars, PrimitivesFollowJobs, RunsScript, Current
<1> QED
  BY <1>1, <1>2, <1>3, HostSteps DEF HostStep

\* The primitives work in every run-fn under the name of its job, however early
\* the script got hold of them, and nowhere else (install, uninstall, enter_job).
THEOREM PrimitivesStay == LocalSpec => []PrimitivesFollowJobs
<1>1. LocalInit => PrimitivesFollowJobs
  BY DEF LocalInit, HostInit, PrimitivesFollowJobs
<1> QED
  BY <1>1, Invariance, HostsRunPipelines, HostInvariance, KeepPrimitives, PTL DEF LocalSpec

-----------------------------------------------------------------------------
(* The commit *)

\* Which variables of the command the processes leave alone.
LEMMA WorkerSteps ==
  ASSUME ReadHead \/ NoStart \/ Compiles \/ Runs \/ EmitOutcome \/ Return \/ Break
  PROVE  UNCHANGED commandVars
BY DEF ReadHead, NoStart, Compiles, Runs, EmitOutcome, Return, Break, OfWorker

LEMMA KeepOneCommit ==
  ASSUME OneCommit, [LocalNext]_localVars
  PROVE  OneCommit'
<1> USE DEF OneCommit, Looked, Checked, Created, Filled
<1>1. CASE Work
  BY <1>1 DEF Work
<1>2. CASE Resolve
  BY <1>2 DEF Resolve, ResolvedNow, OfCommand
<1>3. CASE Check
  BY <1>3 DEF Check, CommitOf, Exit, OfCommand
<1>4. CASE NoPipeline
  BY <1>4 DEF NoPipeline, Exit, OfCommand
<1>5. CASE Create
  <2>1. row' \in Rows /\ row'.sha = rev /\ row'.outcome = Null
    BY <1>5 DEF Create, Rows
  <2> QED
    BY <1>5, <2>1 DEF Create, OfCommand
<1>6. CASE Materialize
  BY <1>6 DEF Materialize, OfCommand
<1>7. CASE Execute
  <2>1. row' \in Rows /\ row'.sha = rev /\ row'.outcome = Null
    BY <1>7 DEF Execute, Rows
  <2> QED
    BY <1>7, <2>1 DEF Execute
<1>8. CASE GivesUp \/ Finish
  BY <1>8 DEF GivesUp, Finish, Exit, OfCommand
<1>9. CASE UNCHANGED commandVars
  BY <1>9 DEF commandVars
<1> QED
  BY <1>1, <1>2, <1>3, <1>4, <1>5, <1>6, <1>7, <1>8, <1>9, WorkerSteps DEF LocalNext, localVars

LEMMA KeepChecked ==
  ASSUME OneCommit, CheckedIsRun, [LocalNext]_localVars
  PROVE  CheckedIsRun'
<1> USE DEF OneCommit, CheckedIsRun, Looked, Checked, Created, Filled
<1>1. CASE Work \/ Resolve \/ Check \/ NoPipeline \/ Create
  BY <1>1 DEF Work, Resolve, Check, NoPipeline, Create, OfCommand
<1>2. CASE Materialize
  BY <1>2 DEF Materialize, CommitOf, OfCommand
<1>3. CASE Execute
  BY <1>3 DEF Execute, Rows
<1>4. CASE GivesUp
  <2>1. tree # Null => row'.sha = row.sha
    BY <1>4 DEF GivesUp, Rows
  <2> QED
    BY <1>4, <2>1 DEF GivesUp, OfCommand
<1>5. CASE Finish
  <2>1. row'.sha = row.sha
    BY <1>5 DEF Finish, Rows
  <2> QED
    BY <1>5, <2>1 DEF Finish, OfCommand
<1>6. CASE UNCHANGED commandVars
  BY <1>6 DEF commandVars
<1> QED
  BY <1>1, <1>2, <1>3, <1>4, <1>5, <1>6, WorkerSteps DEF LocalNext, localVars

LEMMA InitLocal == LocalInit => OneCommit /\ CheckedIsRun /\ WireIsTrue /\ ExitMatchesRow
BY DEF LocalInit, OneCommit, CheckedIsRun, WireIsTrue, ExitMatchesRow, Looked, Checked, Created,
   Filled, Outcomes

\* What was checked is what runs, for whatever commits the developer makes and
\* whenever (resolve_commit, and the uses of its sha).
THEOREM CheckedIsWhatRuns == LocalSpec => []CheckedIsRun
BY InitLocal, KeepOneCommit, KeepChecked, PTL DEF LocalSpec

-----------------------------------------------------------------------------
(* The verdict *)

\* A pipeline that has ended stays so, and its end is what quire-ci reports.
LEMMA KeepWire ==
  ASSUME WireIsTrue, [LocalNext]_localVars
  PROVE  WireIsTrue'
<1> USE DEF WireIsTrue, Refused
<1>1. \/ phase' = phase
      \/ phase \in {"evaluating", "building", "compiled", "running"}
  BY HostSteps, PhaseMoves DEF vars
<1>2. CASE EmitOutcome
  BY <1>2 DEF EmitOutcome, vars
<1>3. CASE UNCHANGED wire
  BY <1>1, <1>3
<1>4. CASE Work \/ Resolve \/ Check \/ NoPipeline \/ Create \/ Materialize \/ GivesUp \/ Finish
  BY <1>3, <1>4 DEF Work, Resolve, Check, NoPipeline, Create, Materialize, GivesUp, Finish,
     OfCommand, workerVars
<1>5. CASE Execute \/ ReadHead \/ NoStart \/ Compiles \/ Runs \/ Return \/ Break
  BY <1>3, <1>5 DEF Execute, ReadHead, NoStart, Compiles, Runs, Return, Break, workerVars
<1>6. CASE UNCHANGED localVars
  BY <1>3, <1>6 DEF localVars, workerVars
<1> QED
  BY <1>2, <1>4, <1>5, <1>6 DEF LocalNext

LEMMA KeepExit ==
  ASSUME OneCommit, WireIsTrue, ExitMatchesRow, [LocalNext]_localVars
  PROVE  ExitMatchesRow'
<1> USE DEF OneCommit, ExitMatchesRow, Looked, Checked, Created, Filled
<1>1. CASE Finish
  <2>1. PICK outcome \in {wire, Null} :
          /\ row' = [row EXCEPT !.outcome = Verdict(code, outcome)]
          /\ Exit(IF Verdict(code, outcome) = "failed-internal" THEN "failed" ELSE "ok")
    BY <1>1 DEF Finish
  <2> DEFINE v == Verdict(code, outcome)
  <2>2. row'.outcome = v
    BY <1>1, <2>1 DEF Finish, Rows
  <2>3. /\ v \in Outcomes
        /\ v = "succeeded" => outcome = "succeeded"
        /\ v = "failed-pipeline" => outcome = "pipeline_failure"
    BY DEF Verdict, Outcomes
  <2>4. /\ v = "succeeded" => wire = "succeeded"
        /\ v = "failed-pipeline" => wire = "pipeline_failure"
    BY <2>3 DEF Outcomes
  <2>5. report' = IF v = "failed-internal" THEN "failed" ELSE "ok"
    BY <2>1 DEF Exit
  <2>6. UNCHANGED phase
    BY <1>1 DEF Finish, OfCommand, vars
  <2> HIDE DEF v
  <2> QED
    BY <2>2, <2>3, <2>4, <2>5, <2>6 DEF WireIsTrue, Refused, Outcomes
<1>2. CASE GivesUp
  <2>1. CASE stage \in Created
    <3>1. row'.outcome = Null /\ report' = "failed"
      BY <1>2, <2>1 DEF GivesUp, Exit, Rows
    <3> QED
      BY <3>1 DEF Outcomes
  <2>2. CASE stage \notin Created
    BY <1>2, <2>2 DEF GivesUp, OfCommand
  <2> QED
    BY <2>1, <2>2
<1>3. CASE Work \/ Resolve \/ Check \/ NoPipeline \/ Create \/ Materialize \/ Execute
  BY <1>3 DEF Work, Resolve, Check, NoPipeline, Create, Materialize, Execute, OfCommand
<1>4. CASE UNCHANGED commandVars
  <2>1. phase' = phase \/ phase \in {"evaluating", "building", "compiled", "running"}
    BY HostSteps, PhaseMoves DEF vars
  <2> QED
    BY <1>4, <2>1 DEF commandVars, Refused
<1> QED
  BY <1>1, <1>2, <1>3, <1>4, WorkerSteps DEF LocalNext, localVars

\* `quire ci run` ends with 0 only for an end that quire-ci reported and that the
\* pipeline came to (execute, run_finished and the exit statuses).
THEOREM ExitIsTrue == LocalSpec => []ExitMatchesRow
BY InitLocal, KeepOneCommit, KeepWire, KeepExit, PTL DEF LocalSpec

\* All of it together.
THEOREM LocalInvariance == LocalSpec => []LocalInv
BY InitLocal, KeepOneCommit, KeepChecked, KeepWire, KeepExit, HostInvariance, PrimitivesStay, PTL
   DEF LocalSpec, LocalInv

==============================================================================
