---------------------------- MODULE Secrets_proof ----------------------------
(***************************************************************************)
(* Proofs about the registry of Secrets and about redaction, for any       *)
(* names, values and texts, and whatever happens to the server and its     *)
(* files meanwhile.                                                        *)
(*                                                                         *)
(* Replace, Redact, Masked and Joined are recursions over a text or a      *)
(* list.  Each is unfolded once (ScanSteps, RedactSteps, FlattenSteps) and *)
(* reasoned about by induction over the numbers, which NumberInduction     *)
(* states for sets: the number of symbols, or of entries, still to go      *)
(* through.                                                                *)
(***************************************************************************)
EXTENDS Masking, SequenceTheorems, FiniteSetTheorems, TLAPS

\* A step that resolves nothing.
LEMMA RegistryStays ==
    ASSUME IInv, UNCHANGED <<cache, revealed, given>> PROVE IInv'
BY DEF IInv, GivenIsCached, RevealedIsCached

\* Resolving a name that was resolved before changes nothing.
LEMMA CachedStep ==
    ASSUME IInv, NEW n \in Names, ResolveCached(n) PROVE IInv'
<1>1. n \in DOMAIN cache /\ UNCHANGED cache /\ Hand(n, cache[n])
  BY DEF ResolveCached
<1>2. UNCHANGED given
  BY <1>1 DEF Hand, IInv, GivenIsCached
<1>3. UNCHANGED revealed
  <2>1. CASE Len(cache[n]) >= MinLength
    <3>1. revealed' = Put(revealed, n, cache[n])
      BY <1>1, <2>1 DEF Hand
    <3>2. n \in DOMAIN revealed /\ revealed[n] = cache[n]
      BY <1>1, <2>1 DEF IInv, RevealedIsCached
    <3>3. revealed = [m \in DOMAIN revealed |-> revealed[m]]
      BY DEF IInv, RevealedIsCached
    <3> QED
      BY <3>1, <3>2, <3>3 DEF Put
  <2>2. CASE ~(Len(cache[n]) >= MinLength)
    BY <1>1, <2>2 DEF Hand
  <2> QED
    BY <2>1, <2>2
<1> QED
  BY <1>1, <1>2, <1>3, RegistryStays

\* A name that is resolved for the first time enters all three at once.
LEMMA FetchedStep ==
    ASSUME IInv, NEW n \in Names, ResolveFetched(n) PROVE IInv'
<1> DEFINE v == Reveal(n)
           Long(f) == {m \in DOMAIN f : Len(f[m]) >= MinLength}
<1>1. n \notin DOMAIN cache /\ cache' = Put(cache, n, v) /\ Hand(n, v)
  BY DEF ResolveFetched, Remembered
<1> HIDE DEF v
<1>2. /\ DOMAIN cache' = DOMAIN cache \cup {n} /\ cache'[n] = v
      /\ \A m \in DOMAIN cache : cache'[m] = cache[m]
  BY <1>1 DEF Put
<1>3. GivenIsCached'
  <2>1. given' = [given EXCEPT ![n] = @ \cup {v}]
    BY <1>1 DEF Hand
  <2>2. given = [m \in Names |-> IF m \in DOMAIN cache THEN {cache[m]} ELSE {}]
    BY DEF IInv, GivenIsCached
  <2>3. given' = [m \in Names |-> IF m \in DOMAIN cache' THEN {cache'[m]} ELSE {}]
    BY <1>1, <1>2, <2>1, <2>2
  <2> QED
    BY <1>2, <2>3 DEF IInv, GivenIsCached
<1>4. RevealedIsCached'
  <2>1. revealed = [m \in Long(cache) |-> cache[m]]
    BY DEF IInv, RevealedIsCached
  <2>2. CASE Len(v) >= MinLength
    <3>1. Long(cache') = Long(cache) \cup {n}
      BY <1>1, <1>2, <2>2
    <3>2. revealed' = [m \in Long(cache) \cup {n} |-> IF m = n THEN v ELSE revealed[m]]
      BY <1>1, <2>1, <2>2 DEF Hand, Put
    <3>3. \A m \in Long(cache) \cup {n} : cache'[m] = IF m = n THEN v ELSE revealed[m]
      BY <1>1, <1>2, <2>1
    <3> HIDE DEF Long
    <3>4. revealed' = [m \in Long(cache') |-> cache'[m]]
      BY <3>1, <3>2, <3>3
    <3> QED
      BY <3>4 DEF RevealedIsCached, Long
  <2>3. CASE ~(Len(v) >= MinLength)
    <3>1. Long(cache') = Long(cache)
      BY <1>1, <1>2, <2>3
    <3>2. revealed' = revealed
      BY <1>1, <2>3 DEF Hand
    <3>3. \A m \in Long(cache) : cache'[m] = cache[m]
      BY <1>2
    <3> HIDE DEF Long
    <3>4. revealed' = [m \in Long(cache') |-> cache'[m]]
      BY <2>1, <3>1, <3>2, <3>3
    <3> QED
      BY <3>4 DEF RevealedIsCached, Long
  <2> QED
    BY <2>2, <2>3
<1> QED
  BY <1>3, <1>4 DEF IInv

LEMMA EmptyRegistry ==
    ASSUME cache = NoSecrets, revealed = NoSecrets, given = [n \in Names |-> {}]
    PROVE  IInv
BY DEF NoSecrets, IInv, GivenIsCached, RevealedIsCached

LEMMA StepIInv == IInv /\ [Next]_vars => IInv'
<1> SUFFICES ASSUME IInv, [Next]_vars PROVE IInv'
  OBVIOUS
<1>1. CASE Server
  BY <1>1, RegistryStays DEF Server, Rewrite, Die, Restart
<1>2. CASE Script
  <2>1. ASSUME NEW n \in Names, ResolveFails(n) PROVE IInv'
    BY <2>1, RegistryStays DEF ResolveFails
  <2> QED
    BY <1>2, <2>1, CachedStep, FetchedStep DEF Script
<1>3. CASE Command \/ EndRun \/ UNCHANGED vars
  BY <1>3, RegistryStays DEF Command, StartSh, FinishSh, SpawnFails, EndRun, vars
<1>4. CASE NextRun
  BY <1>4 DEF NextRun, FreshRegistry, NoSecrets, IInv, GivenIsCached, RevealedIsCached
<1> QED
  BY <1>1, <1>2, <1>3, <1>4 DEF Next

\* The registry remembers what it hands out: the values given to a script, and
\* those to redact, are what its cache holds.
THEOREM Invariance == Spec => []IInv
<1>1. Init => IInv
  BY EmptyRegistry DEF Init
<1> QED
  BY <1>1, StepIInv, PTL DEF Spec

\* Within a run a name stands for one value, whatever the operator does to its
\* file and however often the server is restarted: what was fetched once is
\* answered from the cache.
THEOREM OneValue == Spec => []OneValuePerRun
<1>1. IInv => OneValuePerRun
  BY DEF IInv, GivenIsCached, OneValuePerRun
<1> QED
  BY <1>1, Invariance, PTL

\* What is redacted is what must not be seen: every value the script was given
\* that is long enough, and no other, so that neither an earlier run's secrets
\* nor short ones make holes in the log.
THEOREM RedactorKnows == Spec => [](Hidden = {revealed[n] : n \in DOMAIN revealed})
<1>1. ASSUME IInv PROVE Hidden = {revealed[n] : n \in DOMAIN revealed}
  <2>1. \A n \in DOMAIN revealed :
          n \in DOMAIN cache /\ Len(cache[n]) >= MinLength /\ revealed[n] = cache[n]
    BY <1>1 DEF IInv, RevealedIsCached
  <2>2. \A n \in DOMAIN cache : Len(cache[n]) >= MinLength =>
          n \in DOMAIN revealed /\ revealed[n] = cache[n]
    BY <1>1 DEF IInv, RevealedIsCached
  <2>3. UNION {given[n] : n \in Names} = {cache[n] : n \in DOMAIN cache}
    BY <1>1 DEF IInv, GivenIsCached
  <2> QED
    BY <2>1, <2>2, <2>3 DEF Hidden
<1> QED
  BY <1>1, Invariance, PTL

-----------------------------------------------------------------------------
(* Induction, in the form the provers can apply: on sets instead of predicates *)

\* Of a family of finite sets one has no other member inside.
LEMMA SmallestSet ==
  ASSUME NEW S, IsFiniteSet(S), NEW B \in SUBSET SUBSET S, B # {}
  PROVE  \E T \in B : \A U \in B : U \subseteq T => U = T
<1>1. IsWellFoundedOn(StrictSubsetOrdering(S), SUBSET S)
  BY FS_StrictSubsetOrderingWellFounded, FS_FiniteSubsetsOfFinite
<1>2. PICK T \in B : \A U \in B : ~(<<U, T>> \in StrictSubsetOrdering(S))
  BY <1>1, WFMin
<1>3. \A U \in B : U \subseteq T => U = T
  BY <1>2 DEF StrictSubsetOrdering
<1> QED
  BY <1>3

\* A set of numbers has a least one.
LEMMA LeastNumber ==
  ASSUME NEW B \in SUBSET Nat, B # {}
  PROVE  \E x \in B : \A y \in B : x <= y
<1>1. PICK n \in B : TRUE
  OBVIOUS
<1> DEFINE F == {0..m : m \in {k \in B : k <= n}}
<1>2. IsFiniteSet(0..n)
  BY FS_Interval
<1>3. F \in SUBSET SUBSET (0..n) /\ F # {}
  BY <1>1
<1>4. PICK T \in F : \A U \in F : U \subseteq T => U = T
  <2> DEFINE S == 0..n
  <2>1. IsFiniteSet(S) /\ F \in SUBSET SUBSET S /\ F # {}
    BY <1>2, <1>3
  <2> HIDE DEF F, S
  <2> QED
    BY <2>1, SmallestSet
<1>5. PICK m \in B : m <= n /\ T = 0..m
  BY <1>4
<1>6. ASSUME NEW y \in B PROVE m <= y
  <2> SUFFICES ASSUME y < m PROVE FALSE
    OBVIOUS
  <2>1. 0..y \in F /\ 0..y \subseteq T
    BY <1>5, <1>1
  <2>2. 0..y = 0..m
    BY <1>4, <1>5, <2>1
  <2> QED
    BY <2>2, <1>5
<1> QED
  BY <1>5, <1>6

\* Induction on the numbers.
LEMMA NumberInduction ==
  ASSUME NEW G, 0 \in G, \A k \in Nat : k \in G => k + 1 \in G
  PROVE  Nat \subseteq G
<1> SUFFICES ASSUME ~(Nat \subseteq G) PROVE FALSE
  OBVIOUS
<1> DEFINE B == Nat \ G
<1>1. PICK x \in B : \A y \in B : x <= y
  <2>1. B \in SUBSET Nat /\ B # {}
    OBVIOUS
  <2> HIDE DEF B
  <2> QED
    BY <2>1, LeastNumber
<1>2. x - 1 \in Nat /\ x - 1 \notin B
  BY <1>1
<1> QED
  BY <1>1, <1>2

-----------------------------------------------------------------------------
(* Sorting *)

\* In a strict total order the elements of a finite set differ by how many come
\* before them, so that Sorted lists each of them once, and in order.
LEMMA SortedSorts ==
    ASSUME NEW S, NEW Smaller, NEW T, NEW s,
           IsFiniteSet(S), Smaller \in [S -> SUBSET S], s \in [1..Cardinality(S) -> T],
           \A x \in S : x \notin Smaller[x],
           \A x, y, z \in S : x \in Smaller[y] /\ y \in Smaller[z] => x \in Smaller[z],
           \A x, y \in S : x = y \/ x \in Smaller[y] \/ y \in Smaller[x],
           \A k \in 1..Cardinality(S) : \A x \in S :
             Cardinality(Smaller[x]) = k - 1 =>
               s[k] \in S /\ Cardinality(Smaller[s[k]]) = k - 1
    PROVE  /\ Cardinality(S) \in Nat /\ s \in Seq(S) /\ Len(s) = Cardinality(S)
           /\ \A x \in S : \E k \in 1..Len(s) : s[k] = x
           /\ \A i, k \in 1..Len(s) : i < k => s[i] \in Smaller[s[k]]
<1> DEFINE rank == [x \in S |-> Cardinality(Smaller[x]) + 1]
           n == Cardinality(S)
<1>1. n \in Nat
  BY FS_CardinalityType
<1>2. ASSUME NEW x \in S
      PROVE  /\ IsFiniteSet(Smaller[x]) /\ Cardinality(Smaller[x]) \in Nat
             /\ Cardinality(Smaller[x]) < n
  <2>1. Smaller[x] \in SUBSET S /\ Smaller[x] # S
    OBVIOUS
  <2>2. IsFiniteSet(Smaller[x]) /\ Cardinality(Smaller[x]) <= n /\ Cardinality(Smaller[x]) # n
    BY <2>1, FS_Subset
  <2>3. Cardinality(Smaller[x]) \in Nat
    BY <2>2, FS_CardinalityType
  <2> HIDE DEF n
  <2> QED
    BY <1>1, <2>2, <2>3
<1>3. ASSUME NEW x \in S, NEW y \in S, x \in Smaller[y]
      PROVE  Cardinality(Smaller[x]) < Cardinality(Smaller[y])
  <2>1. Smaller[x] \in SUBSET Smaller[y] /\ Smaller[x] # Smaller[y]
    BY <1>3
  <2>2. IsFiniteSet(Smaller[y])
    BY <1>2
  <2>3. Cardinality(Smaller[x]) \in Nat /\ Cardinality(Smaller[y]) \in Nat
    BY <1>2
  <2>4. Cardinality(Smaller[x]) <= Cardinality(Smaller[y]) /\ Cardinality(Smaller[x]) # Cardinality(Smaller[y])
    BY <2>1, <2>2, FS_Subset
  <2> QED
    BY <2>3, <2>4
<1>4. rank \in [S -> 1..n]
  <2> HIDE DEF n
  <2> QED
    BY <1>1, <1>2
<1>5. \A x, y \in S : rank[x] = rank[y] => x = y
  <2> SUFFICES ASSUME NEW x \in S, NEW y \in S, rank[x] = rank[y], x # y PROVE FALSE
    OBVIOUS
  <2>1. Cardinality(Smaller[x]) \in Nat /\ Cardinality(Smaller[y]) \in Nat
    BY <1>2
  <2>2. Cardinality(Smaller[x]) = Cardinality(Smaller[y])
    <3> QED
      BY <2>1
  <2>3. x \in Smaller[y] \/ y \in Smaller[x]
    OBVIOUS
  <2> HIDE DEF rank
  <2> QED
    BY <1>3, <2>1, <2>2, <2>3
<1>6. \A k \in 1..n : \E x \in S : rank[x] = k
  <2> DEFINE I == 1..n
  <2>1. IsFiniteSet(I) /\ Cardinality(I) = n
    <3> HIDE DEF n
    <3>1. 1 \in Int /\ n \in Int /\ (1 > n => n = 0)
      BY <1>1
    <3>2. IsFiniteSet(1..n) /\ Cardinality(1..n) = IF 1 > n THEN 0 ELSE n - 1 + 1
      BY <3>1, FS_Interval
    <3> QED
      BY <3>1, <3>2
  <2>2. rank \in Injection(S, I)
    <3> HIDE DEF rank, n
    <3> QED
      BY <1>4, <1>5 DEF Injection, IsInjective
  <2> HIDE DEF rank, I
  <2>3. rank \in Surjection(S, I)
    BY <2>1, <2>2, FS_Injection
  <2> QED
    BY <2>3 DEF Surjection, I
<1>7. ASSUME NEW k \in 1..n PROVE s[k] \in S /\ rank[s[k]] = k
  <2>1. \A x \in S : Cardinality(Smaller[x]) = k - 1 =>
           s[k] \in S /\ Cardinality(Smaller[s[k]]) = k - 1
    OBVIOUS
  <2>2. PICK x \in S : rank[x] = k
    BY <1>6
  <2>3. Cardinality(Smaller[x]) = k - 1
    <3> HIDE DEF n
    <3> QED
      BY <1>1, <1>2, <2>2
  <2>4. s[k] \in S /\ Cardinality(Smaller[s[k]]) = k - 1
    <3> QED
      BY <2>1, <2>3
  <2> HIDE DEF n
  <2> QED
    BY <1>1, <2>4
<1>8. s \in Seq(S) /\ Len(s) = n /\ DOMAIN s = 1..n
  <2>1. s \in [1..n -> S]
    BY <1>7
  <2> QED
    BY <1>1, <2>1
<1>9. ASSUME NEW x \in S PROVE \E k \in 1..n : s[k] = x
  <2>1. rank[x] \in 1..n
    BY <1>4
  <2>2. rank[s[rank[x]]] = rank[x] /\ s[rank[x]] \in S
    BY <1>7, <2>1
  <2> QED
    BY <1>5, <2>1, <2>2
<1>10. ASSUME NEW i \in 1..n, NEW k \in 1..n, i < k PROVE s[i] \in Smaller[s[k]]
  <2>1. s[i] \in S /\ s[k] \in S /\ rank[s[i]] = i /\ rank[s[k]] = k
    BY <1>7
  <2>2. i \in Nat /\ k \in Nat
    <3> HIDE DEF n
    <3> QED
      BY <1>1
  <2>3. Cardinality(Smaller[s[i]]) = i - 1 /\ Cardinality(Smaller[s[k]]) = k - 1
    <3>1. \A x \in S : rank[x] = Cardinality(Smaller[x]) + 1
      OBVIOUS
    <3> HIDE DEF rank
    <3> QED
      BY <1>2, <2>1, <2>2, <3>1
  <2> DEFINE x == s[i]
             y == s[k]
  <2>4. x \in S /\ y \in S /\ rank[x] = i /\ rank[y] = k
    BY <2>1
  <2>5. Cardinality(Smaller[x]) = i - 1 /\ Cardinality(Smaller[y]) = k - 1
    BY <2>3
  <2> HIDE DEF x, y, rank
  <2>6. y \notin Smaller[x]
    BY <1>3, <1>10, <2>2, <2>4, <2>5
  <2>7. x # y
    BY <1>10, <2>2, <2>4
  <2>8. x \in Smaller[y]
    BY <2>4, <2>6, <2>7
  <2> QED
    BY <2>8 DEF x, y
<1> QED
  BY <1>1, <1>8, <1>9, <1>10

\* Nothing is after itself, and so on: the order that Entries sorts by.
LEMMA EntriesAreAll ==
    ASSUME NEW values, DOMAIN values \subseteq Names, \A n \in DOMAIN values : values[n] \in Seq(Chars)
    PROVE  /\ Entries(values) \in Seq(DOMAIN values)
           /\ \A n \in DOMAIN values : \E k \in 1..Len(Entries(values)) : Entries(values)[k] = n
           /\ \A i, k \in 1..Len(Entries(values)) : i < k =>
                Precedes(values, Entries(values)[i], Entries(values)[k])
<1> DEFINE S == DOMAIN values
           Smaller == [x \in S |-> {y \in S : Precedes(values, y, x)}]
           Pick(k) == CHOOSE x \in S : Cardinality({y \in S : Precedes(values, y, x)}) = k - 1
           s == Entries(values)
<1>1. /\ NameOrder \in Seq(Names)
      /\ \A i, j \in DOMAIN NameOrder : NameOrder[i] = NameOrder[j] => i = j
      /\ \A n \in Names : \E i \in DOMAIN NameOrder : NameOrder[i] = n
  BY NamesAssumption DEF Names, IsInjective, Range
<1>2. \A n \in Names : Rank(n) \in Nat /\ Rank(n) \in DOMAIN NameOrder /\ NameOrder[Rank(n)] = n
  BY <1>1 DEF Rank
<1>3. \A m, n \in S : Rank(m) = Rank(n) => m = n
  BY <1>2
<1>4. \A m \in S : Len(values[m]) \in Nat /\ Rank(m) \in Nat
  BY <1>2
<1>5. \A m, n \in S : m \in Smaller[n] <=>
        \/ Len(values[m]) > Len(values[n])
        \/ Len(values[m]) = Len(values[n]) /\ Rank(m) < Rank(n)
  BY DEF Precedes
<1>6. /\ \A x \in S : x \notin Smaller[x]
      /\ \A x, y, z \in S : x \in Smaller[y] /\ y \in Smaller[z] => x \in Smaller[z]
      /\ \A x, y \in S : x = y \/ x \in Smaller[y] \/ y \in Smaller[x]
  <2> HIDE DEF Smaller
  <2> QED
    BY <1>3, <1>4, <1>5
<1>7. IsFiniteSet(S)
  <2> DEFINE I == 1..Len(NameOrder)
  <2>1. IsFiniteSet(I)
    BY <1>1, FS_Interval
  <2>2. NameOrder \in Surjection(I, Names)
    BY <1>1 DEF Surjection
  <2> HIDE DEF I
  <2>3. IsFiniteSet(Names)
    BY <2>1, <2>2, FS_Surjection
  <2> QED
    BY <2>3, FS_Subset
<1>8. s = [k \in 1..Cardinality(S) |-> Pick(k)]
  BY DEF Entries, Sorted
<1>9. ASSUME NEW k \in 1..Cardinality(S), NEW x \in S, Cardinality(Smaller[x]) = k - 1
      PROVE  s[k] \in S /\ Cardinality(Smaller[s[k]]) = k - 1
  <2>1. Pick(k) = CHOOSE z \in S : Cardinality(Smaller[z]) = k - 1
    OBVIOUS
  <2>2. Pick(k) \in S /\ Cardinality(Smaller[Pick(k)]) = k - 1
    <3> HIDE DEF Smaller, Pick
    <3> QED
      BY <1>9, <2>1
  <2>3. s[k] = Pick(k)
    <3> HIDE DEF s, Pick
    <3> QED
      BY <1>8
  <2> HIDE DEF s, Pick, Smaller
  <2> QED
    BY <2>2, <2>3
<1>10. /\ s \in Seq(S)
       /\ \A x \in S : \E k \in 1..Len(s) : s[k] = x
       /\ \A i, k \in 1..Len(s) : i < k => s[i] \in Smaller[s[k]]
  <2> DEFINE T == {Pick(k) : k \in 1..Cardinality(S)}
  <2>1. s \in [1..Cardinality(S) -> T]
    <3> HIDE DEF s, Pick
    <3> QED
      BY <1>8
  <2>2. Smaller \in [S -> SUBSET S]
    OBVIOUS
  <2> HIDE DEF s, S, Smaller, Pick, T
  <2>3. \A k \in 1..Cardinality(S) : \A x \in S :
             Cardinality(Smaller[x]) = k - 1 =>
               s[k] \in S /\ Cardinality(Smaller[s[k]]) = k - 1
    BY <1>9
  <2> QED
    BY <1>6, <1>7, <2>1, <2>2, <2>3, SortedSorts
<1>11. \A m, n \in S : m \in Smaller[n] => Precedes(values, m, n)
  OBVIOUS
<1>12. \A i, k \in 1..Len(s) : i < k => Precedes(values, s[i], s[k])
  <2> SUFFICES ASSUME NEW i \in 1..Len(s), NEW k \in 1..Len(s), i < k
               PROVE  Precedes(values, s[i], s[k])
    OBVIOUS
  <2>1. s[i] \in S /\ s[k] \in S
    <3> HIDE DEF s, S
    <3> QED
      BY <1>10
  <2> HIDE DEF s, Smaller
  <2> QED
    BY <1>10, <1>11, <2>1
<1> QED
  BY <1>10, <1>12
-----------------------------------------------------------------------------
(* str::replace *)

\* The texts that can stand for a value.
Marks == {m \in Seq(Chars) : Len(m) >= 1}

\* f maps each position of text to what is made of the rest of it, where each span
\* from i in C to end[i] is replaced by mark[i], and all else is copied.
IsScan(f, text, C, mark, end) ==
    f = [i \in 1..Len(text) + 1 |->
            IF i > Len(text) THEN <<>>
            ELSE IF i \in C THEN mark[i] \o f[end[i] + 1]
                 ELSE <<text[i]>> \o f[i + 1]]

Spanned(text, C, mark, end) ==
    /\ text \in Seq(Chars)
    /\ C \subseteq 1..Len(text)
    /\ \A i \in C : mark[i] \in Marks /\ end[i] \in i..Len(text)

\* There is such a function: at a position it looks at later ones only.
LEMMA ScanExists ==
    ASSUME NEW text, NEW C, NEW mark, NEW end, Spanned(text, C, mark, end)
    PROVE  \E f : IsScan(f, text, C, mark, end)
<1> DEFINE L == Len(text)
           Step(h, i) == IF i > L THEN <<>>
                         ELSE IF i \in C THEN mark[i] \o h[end[i] + 1]
                              ELSE <<text[i]>> \o h[i + 1]
           Up(k) == \E h : /\ h = [i \in 1..L + 1 |-> h[i]]
                           /\ \A i \in 1..L + 1 : i > L - k => h[i] = Step(h, i)
           G == {k \in Nat : k <= L => Up(k)}
<1>1. L \in Nat
  BY DEF Spanned
<1>2. \A i \in C : end[i] + 1 \in i + 1..L + 1
  BY DEF Spanned
<1> HIDE DEF L
<1>3. 0 \in G
  <2> DEFINE h == [i \in 1..L + 1 |-> <<>>]
  <2>1. h = [i \in 1..L + 1 |-> h[i]]
    OBVIOUS
  <2>2. ASSUME NEW i \in 1..L + 1, i > L - 0 PROVE h[i] = Step(h, i)
    BY <1>1, <2>2
  <2> HIDE DEF h, Step
  <2>3. Up(0)
    BY <2>1, <2>2
  <2> HIDE DEF Up
  <2> QED
    BY <2>3
<1>4. ASSUME NEW k \in Nat, k \in G PROVE k + 1 \in G
  <2> SUFFICES ASSUME k + 1 <= L PROVE Up(k + 1)
    <3> HIDE DEF Up
    <3> QED
      OBVIOUS
  <2>1. PICK h : \A i \in 1..L + 1 : i > L - k => h[i] = Step(h, i)
    <3>1. k <= L
      BY <1>1
    <3>2. Up(k)
      <4> HIDE DEF Up
      <4> QED
        BY <1>4, <3>1
    <3> HIDE DEF Step
    <3> QED
      BY <3>2
  <2> DEFINE p == L - k
             F(i) == IF i = p THEN Step(h, i) ELSE h[i]
             g == [i \in 1..L + 1 |-> F(i)]
  <2>2. p \in 1..L
    BY <1>1
  <2>3. ASSUME NEW i \in 1..L + 1, i > L - (k + 1) PROVE g[i] = Step(g, i)
    <3>1. \A x \in 1..L + 1 : x > i => g[x] = h[x]
      BY <1>1, <2>2, <2>3
    <3>2. i <= L => i + 1 \in 1..L + 1 /\ i + 1 > i
      BY <1>1
    <3>3. i \in C => end[i] + 1 \in 1..L + 1 /\ end[i] + 1 > i
      BY <1>1, <1>2
    <3>4. Step(g, i) = Step(h, i)
      <4> HIDE DEF g
      <4>1. CASE i > L
        BY <4>1
      <4>2. CASE i <= L /\ i \in C
        BY <3>1, <3>3, <4>2
      <4>3. CASE i <= L /\ i \notin C
        BY <3>1, <3>2, <4>3
      <4> QED
        BY <1>1, <4>1, <4>2, <4>3
    <3>5. F(i) = Step(h, i)
      <4>1. i = p \/ i > L - k
        BY <1>1, <2>3
      <4> HIDE DEF Step
      <4> QED
        BY <2>1, <4>1
    <3>6. g[i] = F(i)
      OBVIOUS
    <3> HIDE DEF g, F, Step
    <3> QED
      BY <3>4, <3>5, <3>6
  <2>4. g = [i \in 1..L + 1 |-> g[i]]
    <3> HIDE DEF F
    <3> QED
      OBVIOUS
  <2> HIDE DEF g, Step
  <2> QED
    BY <2>3, <2>4
<1>5. Nat \subseteq G
  <2>1. \A k \in Nat : k \in G => k + 1 \in G
    BY <1>4
  <2> HIDE DEF G
  <2> QED
    BY <1>3, <2>1, NumberInduction
<1>6. Up(L)
  <2>1. L \in G /\ L <= L
    <3> HIDE DEF G
    <3> QED
      BY <1>1, <1>5
  <2> HIDE DEF Up
  <2> QED
    BY <2>1
<1>7. PICK f : /\ f = [i \in 1..L + 1 |-> f[i]]
               /\ \A i \in 1..L + 1 : i > L - L => f[i] = Step(f, i)
  <2> HIDE DEF Step
  <2> QED
    BY <1>6
<1>8. f = [i \in 1..L + 1 |-> Step(f, i)]
  <2>1. \A i \in 1..L + 1 : f[i] = Step(f, i)
    <3>1. \A i \in 1..L + 1 : i > L - L
      BY <1>1
    <3> HIDE DEF Step
    <3> QED
      BY <1>7, <3>1
  <2> HIDE DEF Step
  <2> QED
    BY <1>7, <2>1
<1>9. IsScan(f, text, C, mark, end)
  BY <1>8 DEF IsScan, L
<1> QED
  BY <1>9

Scans(f, text, C, mark, end) ==
    /\ f \in [1..Len(text) + 1 -> Seq(Chars)]
    /\ f[Len(text) + 1] = <<>>
    /\ \A i \in 1..Len(text) :
         /\ i \in C => f[i] = mark[i] \o f[end[i] + 1]
         /\ i \notin C => f[i] = <<text[i]>> \o f[i + 1]

\* The way such a function is built, with its type.
LEMMA ScanSteps ==
    ASSUME NEW text, NEW C, NEW mark, NEW end, Spanned(text, C, mark, end),
           NEW f, IsScan(f, text, C, mark, end)
    PROVE  Scans(f, text, C, mark, end)
<1> DEFINE L == Len(text)
<1>1. L \in Nat
  BY DEF Spanned
<1>2. /\ C \subseteq 1..L
      /\ \A i \in C : mark[i] \in Seq(Chars) /\ end[i] + 1 \in i + 1..L + 1
      /\ \A i \in 1..L : text[i] \in Chars
  BY DEF Spanned, Marks
<1> DEFINE Step(i) == IF i > L THEN <<>>
                      ELSE IF i \in C THEN mark[i] \o f[end[i] + 1]
                           ELSE <<text[i]>> \o f[i + 1]
<1>3. f = [i \in 1..L + 1 |-> Step(i)]
  BY DEF IsScan
<1> HIDE DEF L
<1>4. \A i \in 1..L + 1 : f[i] = Step(i)
  <2> HIDE DEF Step
  <2> QED
    BY <1>3
<1>5. f[L + 1] = <<>>
  <2>1. L + 1 \in 1..L + 1 /\ L + 1 > L
    BY <1>1
  <2>2. Step(L + 1) = <<>>
    BY <2>1
  <2> HIDE DEF Step
  <2> QED
    BY <1>4, <2>1, <2>2
<1>6. ASSUME NEW i \in 1..L
      PROVE  /\ i \in C => f[i] = mark[i] \o f[end[i] + 1]
             /\ i \notin C => f[i] = <<text[i]>> \o f[i + 1]
  <2>1. i \in 1..L + 1 /\ ~(i > L)
    BY <1>1
  <2>2. /\ i \in C => Step(i) = mark[i] \o f[end[i] + 1]
        /\ i \notin C => Step(i) = <<text[i]>> \o f[i + 1]
    BY <2>1
  <2> HIDE DEF Step
  <2> QED
    BY <1>4, <2>1, <2>2
<1>7. f = [i \in 1..L + 1 |-> f[i]]
  <2> HIDE DEF Step
  <2> QED
    BY <1>3
<1> HIDE DEF Step
<1> DEFINE H == {k \in Nat : \A i \in 1..L + 1 : i > L - k => f[i] \in Seq(Chars)}
<1>8. 0 \in H
  <2>1. \A i \in 1..L + 1 : i > L - 0 => i = L + 1
    BY <1>1
  <2>2. f[L + 1] \in Seq(Chars)
    <3>1. <<>> \in Seq(Chars)
      OBVIOUS
    <3> QED
      BY <1>5, <3>1
  <2> QED
    BY <2>1, <2>2
<1>9. ASSUME NEW k \in Nat, k \in H PROVE k + 1 \in H
  <2> SUFFICES ASSUME NEW i \in 1..L + 1, i > L - (k + 1) PROVE f[i] \in Seq(Chars)
    OBVIOUS
  <2>1. CASE i = L + 1
    <3>1. L + 1 > L - 0 /\ L + 1 \in 1..L + 1
      BY <1>1
    <3> QED
      BY <1>8, <2>1, <3>1
  <2>2. CASE i \in C
    <3> DEFINE e == end[i] + 1
               x == mark[i]
    <3>1. e \in 1..L + 1 /\ e > L - k /\ x \in Seq(Chars) /\ i \in 1..L
      BY <1>1, <1>2, <2>2
    <3>2. f[i] = x \o f[e]
      BY <1>6, <2>2, <3>1
    <3> HIDE DEF e, x
    <3>3. f[e] \in Seq(Chars)
      BY <1>9, <3>1
    <3> QED
      BY <3>1, <3>2, <3>3
  <2>3. CASE i \in 1..L /\ i \notin C
    <3> DEFINE x == text[i]
    <3>1. i + 1 \in 1..L + 1 /\ i + 1 > L - k /\ x \in Chars
      BY <1>1, <1>2, <2>3
    <3>2. f[i + 1] \in Seq(Chars)
      BY <1>9, <3>1
    <3>3. f[i] = <<x>> \o f[i + 1]
      BY <1>6, <2>3
    <3> HIDE DEF x
    <3> QED
      BY <3>1, <3>2, <3>3
  <2> QED
    BY <1>1, <2>1, <2>2, <2>3
<1>10. Nat \subseteq H
  <2>1. \A k \in Nat : k \in H => k + 1 \in H
    BY <1>9
  <2> HIDE DEF H
  <2> QED
    BY <1>8, <2>1, NumberInduction
<1>11. \A i \in 1..L + 1 : f[i] \in Seq(Chars)
  <2>1. L + 1 \in H
    <3>1. L + 1 \in Nat
      BY <1>1
    <3> HIDE DEF H
    <3> QED
      BY <1>10, <3>1
  <2>2. \A i \in 1..L + 1 : i > L - (L + 1)
    BY <1>1
  <2> QED
    BY <2>1, <2>2
<1>12. f \in [1..L + 1 -> Seq(Chars)]
  BY <1>7, <1>11
<1> QED
  BY <1>5, <1>6, <1>12 DEF Scans, L

\* A replacement is such a scan, over the places where the value stands.
Hits(text, value) == {i \in 1..Len(text) : MatchAt(text, i, value)}
MarkAll(text, mark) == [i \in 1..Len(text) |-> mark]
EndAt(text, value) == [i \in 1..Len(text) |-> i + Len(value) - 1]

Replaces(f, text, value, mark) ==
    /\ f \in [1..Len(text) + 1 -> Seq(Chars)]
    /\ Replace(text, value, mark) = f[1]
    /\ f[Len(text) + 1] = <<>>
    /\ \A i \in 1..Len(text) :
         /\ MatchAt(text, i, value) => f[i] = mark \o f[i + Len(value)]
         /\ ~MatchAt(text, i, value) => f[i] = <<text[i]>> \o f[i + 1]

LEMMA ReplaceScans ==
    ASSUME NEW text, NEW value, NEW mark,
           text \in Seq(Chars), value \in Seq(Chars), Len(value) >= 1, mark \in Marks
    PROVE  \E f : Replaces(f, text, value, mark)
<1> DEFINE L == Len(text)
           n == Len(value)
           C == Hits(text, value)
           mk == MarkAll(text, mark)
           en == EndAt(text, value)
           Step(h, i) == IF i > L THEN <<>>
                         ELSE IF i \in C THEN mk[i] \o h[en[i] + 1]
                              ELSE <<text[i]>> \o h[i + 1]
           Like(h, i) == IF i > L THEN <<>>
                         ELSE IF MatchAt(text, i, value) THEN mark \o h[i + n]
                              ELSE <<text[i]>> \o h[i + 1]
           from == CHOOSE h : h = [i \in 1..L + 1 |-> Like(h, i)]
<1>1. L \in Nat /\ n \in Nat /\ n >= 1
  OBVIOUS
<1>2. C = {i \in 1..L : MatchAt(text, i, value)}
  BY DEF Hits
<1>3. \A i \in C : i \in 1..L /\ i + n <= L + 1
  BY <1>2 DEF MatchAt
<1>4. Replace(text, value, mark) = from[1]
  BY DEF Replace
<1> HIDE DEF C
<1>5. \A i \in 1..L : mk[i] = mark /\ en[i] = i + n - 1
  BY DEF MarkAll, EndAt
<1> HIDE DEF mk, en
<1>6. Spanned(text, C, mk, en)
  <2>1. C \subseteq 1..L
    BY <1>2
  <2>2. \A i \in C : mk[i] \in Marks /\ en[i] \in i..L
    <3> HIDE DEF L, n
    <3> QED
      BY <1>1, <1>3, <1>5
  <2> QED
    BY <2>1, <2>2 DEF Spanned
<1> HIDE DEF L, n
<1>7. \A h : \A i \in 1..L + 1 : Step(h, i) = Like(h, i)
  <2> SUFFICES ASSUME NEW h, NEW i \in 1..L + 1 PROVE Step(h, i) = Like(h, i)
    OBVIOUS
  <2>1. CASE i > L
    BY <2>1
  <2>2. CASE i \in 1..L
    <3>1. en[i] + 1 = i + n /\ mk[i] = mark
      BY <1>1, <1>5, <2>2
    <3> QED
      BY <1>2, <2>2, <3>1
  <2> QED
    BY <1>1, <2>1, <2>2
<1>8. \A h : [i \in 1..L + 1 |-> Step(h, i)] = [i \in 1..L + 1 |-> Like(h, i)]
  <2> HIDE DEF Step, Like
  <2> QED
    BY <1>7
<1>9. PICK h : IsScan(h, text, C, mk, en)
  BY <1>6, ScanExists
<1>10. h = [i \in 1..L + 1 |-> Step(h, i)]
  BY <1>9 DEF IsScan, L
<1>11. from = [i \in 1..L + 1 |-> Like(from, i)]
  <2> DEFINE Def(g) == [i \in 1..L + 1 |-> Like(g, i)]
  <2>1. h = Def(h)
    <3> HIDE DEF Step, Like
    <3> QED
      BY <1>8, <1>10
  <2>2. from = CHOOSE g : g = Def(g)
    OBVIOUS
  <2> HIDE DEF Def, from
  <2>3. from = Def(from)
    BY <2>1, <2>2
  <2> QED
    BY <2>3 DEF Def
<1> HIDE DEF from
<1>12. from = [i \in 1..L + 1 |-> Step(from, i)]
  <2> HIDE DEF Step, Like
  <2> QED
    BY <1>8, <1>11
<1>13. IsScan(from, text, C, mk, en)
  BY <1>12 DEF IsScan, L
<1>14. Scans(from, text, C, mk, en)
  BY <1>6, <1>13, ScanSteps
<1>15. ASSUME NEW i \in 1..L
       PROVE  /\ MatchAt(text, i, value) => from[i] = mark \o from[i + n]
              /\ ~MatchAt(text, i, value) => from[i] = <<text[i]>> \o from[i + 1]
  <2>1. en[i] + 1 = i + n /\ mk[i] = mark
    BY <1>1, <1>5
  <2>2. /\ i \in C => from[i] = mk[i] \o from[en[i] + 1]
        /\ i \notin C => from[i] = <<text[i]>> \o from[i + 1]
    BY <1>14 DEF Scans, L
  <2> QED
    BY <1>2, <2>1, <2>2
<1>16. from \in [1..L + 1 -> Seq(Chars)] /\ from[L + 1] = <<>>
  BY <1>14 DEF Scans, L
<1>17. Replaces(from, text, value, mark)
  BY <1>4, <1>15, <1>16 DEF Replaces, L, n
<1> QED
  BY <1>17

\* What matches inside a sequence with one more symbol in front.
LEMMA MatchBehind ==
    ASSUME NEW S, NEW x \in S, NEW t \in Seq(S), NEW w \in Seq(S), NEW p \in Nat, p >= 1
    PROVE  MatchAt(<<x>> \o t, p + 1, w) <=> MatchAt(t, p, w)
<1> DEFINE s == <<x>> \o t
<1>1. s \in Seq(S) /\ Len(s) = Len(t) + 1 /\ \A k \in 1..Len(t) : s[k + 1] = t[k]
  OBVIOUS
<1>2. Len(t) \in Nat /\ Len(w) \in Nat
  OBVIOUS
<1> HIDE DEF s
<1>3. MatchAt(s, p + 1, w) => MatchAt(t, p, w)
  <2> SUFFICES ASSUME MatchAt(s, p + 1, w) PROVE MatchAt(t, p, w)
    OBVIOUS
  <2>1. p + 1 + Len(w) <= Len(s) + 1 /\ \A j \in 1..Len(w) : s[p + 1 + j - 1] = w[j]
    BY DEF MatchAt
  <2>2. p + Len(w) <= Len(t) + 1
    BY <1>1, <1>2, <2>1
  <2>3. ASSUME NEW j \in 1..Len(w) PROVE t[p + j - 1] = w[j]
    <3>1. p + j - 1 \in 1..Len(t) /\ p + 1 + j - 1 = (p + j - 1) + 1
      BY <1>2, <2>2
    <3>2. s[(p + j - 1) + 1] = t[p + j - 1]
      BY <1>1, <3>1
    <3> QED
      BY <2>1, <3>1, <3>2
  <2> QED
    BY <2>2, <2>3 DEF MatchAt
<1>4. MatchAt(t, p, w) => MatchAt(s, p + 1, w)
  <2> SUFFICES ASSUME MatchAt(t, p, w) PROVE MatchAt(s, p + 1, w)
    OBVIOUS
  <2>1. p + Len(w) <= Len(t) + 1 /\ \A j \in 1..Len(w) : t[p + j - 1] = w[j]
    BY DEF MatchAt
  <2>2. p + 1 + Len(w) <= Len(s) + 1
    BY <1>1, <1>2, <2>1
  <2>3. ASSUME NEW j \in 1..Len(w) PROVE s[p + 1 + j - 1] = w[j]
    <3>1. p + j - 1 \in 1..Len(t) /\ p + 1 + j - 1 = (p + j - 1) + 1
      BY <1>2, <2>1
    <3>2. s[(p + j - 1) + 1] = t[p + j - 1]
      BY <1>1, <3>1
    <3> QED
      BY <2>1, <3>1, <3>2
  <2> QED
    BY <2>2, <2>3 DEF MatchAt
<1> QED
  BY <1>3, <1>4 DEF s

LEMMA MatchInFront ==
    ASSUME NEW S, NEW x \in S, NEW t \in Seq(S), NEW w \in Seq(S), Len(w) >= 1
    PROVE  MatchAt(<<x>> \o t, 1, w) <=> x = w[1] /\ MatchAt(t, 1, Tail(w))
<1> DEFINE s == <<x>> \o t
           v == Tail(w)
<1>1. s \in Seq(S) /\ Len(s) = Len(t) + 1 /\ s[1] = x /\ \A k \in 1..Len(t) : s[k + 1] = t[k]
  OBVIOUS
<1>2. v \in Seq(S) /\ Len(v) = Len(w) - 1 /\ \A k \in 1..Len(v) : v[k] = w[k + 1]
  OBVIOUS
<1>3. Len(t) \in Nat /\ Len(w) \in Nat /\ Len(v) \in Nat
  BY <1>2
<1> HIDE DEF s, v
<1>4. MatchAt(s, 1, w) => x = w[1] /\ MatchAt(t, 1, v)
  <2> SUFFICES ASSUME MatchAt(s, 1, w) PROVE x = w[1] /\ MatchAt(t, 1, v)
    OBVIOUS
  <2>1. 1 + Len(w) <= Len(s) + 1 /\ \A j \in 1..Len(w) : s[1 + j - 1] = w[j]
    BY DEF MatchAt
  <2>2. \A j \in 1..Len(w) : s[j] = w[j]
    BY <1>3, <2>1
  <2>3. 1 + Len(v) <= Len(t) + 1
    BY <1>1, <1>2, <1>3, <2>1
  <2>4. ASSUME NEW j \in 1..Len(v) PROVE t[1 + j - 1] = v[j]
    <3>1. j \in 1..Len(t) /\ j + 1 \in 1..Len(w) /\ 1 + j - 1 = j
      BY <1>2, <1>3, <2>3
    <3> QED
      BY <1>1, <1>2, <2>2, <3>1
  <2>5. x = w[1]
    BY <1>1, <1>3, <2>2
  <2> QED
    BY <2>3, <2>4, <2>5 DEF MatchAt
<1>5. x = w[1] /\ MatchAt(t, 1, v) => MatchAt(s, 1, w)
  <2> SUFFICES ASSUME x = w[1], MatchAt(t, 1, v) PROVE MatchAt(s, 1, w)
    OBVIOUS
  <2>1. 1 + Len(v) <= Len(t) + 1 /\ \A j \in 1..Len(v) : t[1 + j - 1] = v[j]
    BY DEF MatchAt
  <2>2. 1 + Len(w) <= Len(s) + 1
    BY <1>1, <1>2, <1>3, <2>1
  <2>3. ASSUME NEW j \in 1..Len(w) PROVE s[1 + j - 1] = w[j]
    <3>1. 1 + j - 1 = j
      BY <1>3
    <3>2. CASE j = 1
      BY <1>1, <3>1, <3>2
    <3>3. CASE j # 1
      <4> DEFINE i == j - 1
      <4>1. i \in 1..Len(v) /\ i \in 1..Len(t) /\ j = i + 1 /\ 1 + i - 1 = i
        BY <1>2, <1>3, <2>1, <3>3
      <4> HIDE DEF i
      <4> QED
        BY <1>1, <1>2, <2>1, <3>1, <4>1
    <3> QED
      BY <3>2, <3>3
  <2> QED
    BY <2>2, <2>3 DEF MatchAt
<1> QED
  BY <1>4, <1>5 DEF s, v

LEMMA MatchOneOn ==
    ASSUME NEW S, NEW t \in Seq(S), NEW w \in Seq(S), NEW p \in 1..Len(t), Len(w) >= 1
    PROVE  MatchAt(t, p, w) <=> t[p] = w[1] /\ MatchAt(t, p + 1, Tail(w))
<1> DEFINE v == Tail(w)
<1>1. v \in Seq(S) /\ Len(v) = Len(w) - 1 /\ \A k \in 1..Len(v) : v[k] = w[k + 1]
  OBVIOUS
<1>2. Len(t) \in Nat /\ Len(w) \in Nat /\ Len(v) \in Nat /\ p \in Nat
  BY <1>1
<1> HIDE DEF v
<1>3. MatchAt(t, p, w) => t[p] = w[1] /\ MatchAt(t, p + 1, v)
  <2> SUFFICES ASSUME MatchAt(t, p, w) PROVE t[p] = w[1] /\ MatchAt(t, p + 1, v)
    OBVIOUS
  <2>1. p + Len(w) <= Len(t) + 1 /\ \A j \in 1..Len(w) : t[p + j - 1] = w[j]
    BY DEF MatchAt
  <2>2. p + 1 + Len(v) <= Len(t) + 1
    BY <1>1, <1>2, <2>1
  <2>3. ASSUME NEW j \in 1..Len(v) PROVE t[p + 1 + j - 1] = v[j]
    <3>1. j + 1 \in 1..Len(w) /\ p + 1 + j - 1 = p + (j + 1) - 1
      BY <1>1, <1>2
    <3> QED
      BY <1>1, <2>1, <3>1
  <2>4. 1 \in 1..Len(w) /\ p + 1 - 1 = p
    BY <1>2
  <2>5. t[p] = w[1]
    BY <2>1, <2>4
  <2> QED
    BY <2>2, <2>3, <2>5 DEF MatchAt
<1>4. t[p] = w[1] /\ MatchAt(t, p + 1, v) => MatchAt(t, p, w)
  <2> SUFFICES ASSUME t[p] = w[1], MatchAt(t, p + 1, v) PROVE MatchAt(t, p, w)
    OBVIOUS
  <2>1. p + 1 + Len(v) <= Len(t) + 1 /\ \A j \in 1..Len(v) : t[p + 1 + j - 1] = v[j]
    BY DEF MatchAt
  <2>2. p + Len(w) <= Len(t) + 1
    BY <1>1, <1>2, <2>1
  <2>3. ASSUME NEW j \in 1..Len(w) PROVE t[p + j - 1] = w[j]
    <3>1. CASE j = 1
      <4>1. p + j - 1 = p
        BY <1>2, <3>1
      <4> QED
        BY <3>1, <4>1
    <3>2. CASE j # 1
      <4> DEFINE i == j - 1
      <4>1. i \in 1..Len(v) /\ j = i + 1 /\ p + 1 + i - 1 = p + j - 1
        BY <1>1, <1>2, <3>2
      <4> HIDE DEF i
      <4> QED
        BY <1>1, <2>1, <4>1
    <3> QED
      BY <3>1, <3>2
  <2> QED
    BY <2>2, <2>3 DEF MatchAt
<1> QED
  BY <1>3, <1>4 DEF v

\* A text that stands where another begins, or across its beginning, meets it.
LEMMA MatchAtMark ==
    ASSUME NEW m \in Marks, NEW t \in Seq(Chars), NEW w \in Seq(Chars), Len(w) >= 1,
           MatchAt(m \o t, 1, w)
    PROVE  Meets(w, m)
<1> DEFINE s == m \o t
<1>1. /\ m \in Seq(Chars) /\ Len(m) \in Nat /\ Len(w) \in Nat /\ Len(t) \in Nat
      /\ Len(s) = Len(m) + Len(t)
      /\ \A k \in 1..Len(m) : s[k] = m[k]
  BY DEF Marks
<1>2. \A j \in 1..Len(w) : s[1 + j - 1] = w[j]
  BY DEF MatchAt
<1> HIDE DEF s
<1>3. ASSUME NEW j \in 1..Len(m), 1 + j - 1 <= Len(w) PROVE w[1 + j - 1] = m[j]
  <2>1. j \in 1..Len(w) /\ 1 + j - 1 = j
    BY <1>1, <1>3
  <2> QED
    BY <1>1, <1>2, <2>1
<1>4. 1 \in 1..Len(w)
  BY <1>1
<1> QED
  BY <1>3, <1>4 DEF Meets

\* What matches in a text behind one that it does not meet.
LEMMA MatchBehindMark ==
    ASSUME NEW m \in Marks, NEW t \in Seq(Chars), NEW w \in Seq(Chars), Len(w) >= 1,
           NEW p \in 1..Len(m \o t), MatchAt(m \o t, p, w), ~Meets(m, w)
    PROVE  \E q \in 1..Len(t) : p = q + Len(m) /\ MatchAt(t, q, w)
<1> DEFINE s == m \o t
<1>1. /\ m \in Seq(Chars) /\ Len(m) \in Nat /\ Len(w) \in Nat /\ Len(t) \in Nat
      /\ Len(s) = Len(m) + Len(t) /\ p \in 1..Len(s)
      /\ \A k \in 1..Len(m) : s[k] = m[k]
      /\ \A k \in 1..Len(t) : s[k + Len(m)] = t[k]
  BY DEF Marks
<1>2. p + Len(w) <= Len(s) + 1 /\ \A j \in 1..Len(w) : s[p + j - 1] = w[j]
  BY DEF MatchAt
<1> HIDE DEF s
<1>3. p > Len(m)
  <2> SUFFICES ASSUME p \in 1..Len(m) PROVE Meets(m, w)
    BY <1>1
  <2>1. ASSUME NEW j \in 1..Len(w), p + j - 1 <= Len(m) PROVE m[p + j - 1] = w[j]
    <3>1. p + j - 1 \in 1..Len(m)
      BY <1>1, <2>1
    <3> QED
      BY <1>1, <1>2, <3>1
  <2> QED
    BY <2>1 DEF Meets
<1> DEFINE q == p - Len(m)
<1>4. q \in 1..Len(t) /\ p = q + Len(m) /\ q + Len(w) <= Len(t) + 1
  BY <1>1, <1>2, <1>3
<1> HIDE DEF q
<1>5. ASSUME NEW j \in 1..Len(w) PROVE t[q + j - 1] = w[j]
  <2>1. q + j - 1 \in 1..Len(t) /\ (q + j - 1) + Len(m) = p + j - 1
    BY <1>1, <1>4
  <2> QED
    BY <1>1, <1>2, <2>1
<1>6. MatchAt(t, q, w)
  BY <1>4, <1>5 DEF MatchAt
<1> QED
  BY <1>4, <1>6

LEMMA TailMeets ==
    ASSUME NEW w \in Seq(Chars), Len(w) >= 1, NEW m \in Seq(Chars), Meets(Tail(w), m)
    PROVE  Meets(w, m)
<1> DEFINE v == Tail(w)
<1>1. v \in Seq(Chars) /\ Len(v) = Len(w) - 1 /\ \A k \in 1..Len(v) : v[k] = w[k + 1]
  OBVIOUS
<1>2. Len(w) \in Nat /\ Len(v) \in Nat /\ Len(m) \in Nat
  BY <1>1
<1> HIDE DEF v
<1>3. PICK i \in 1..Len(v) : \A j \in 1..Len(m) : i + j - 1 <= Len(v) => v[i + j - 1] = m[j]
  BY DEF Meets, v
<1>4. ASSUME NEW j \in 1..Len(m), (i + 1) + j - 1 <= Len(w) PROVE w[(i + 1) + j - 1] = m[j]
  <2>1. i + j - 1 \in 1..Len(v) /\ (i + j - 1) + 1 = (i + 1) + j - 1
    BY <1>1, <1>2, <1>4
  <2>2. v[i + j - 1] = w[(i + j - 1) + 1]
    BY <1>1, <2>1
  <2>3. v[i + j - 1] = m[j]
    BY <1>3, <2>1
  <2> QED
    BY <2>1, <2>2, <2>3
<1>5. i + 1 \in 1..Len(w)
  BY <1>1, <1>2
<1> QED
  BY <1>4, <1>5 DEF Meets

\* A replacement leaves no occurrence of the value it replaces, and does not make
\* up one of any other, unless the marker has a part in it: what stands in it now
\* stood in the text before.
LEMMA ReplaceHides ==
    ASSUME NEW text, NEW value, NEW mark,
           text \in Seq(Chars), value \in Seq(Chars), Len(value) >= 1, mark \in Marks
    PROVE  /\ Replace(text, value, mark) \in Seq(Chars)
           /\ Apart(value, mark) => ~Occurs(Replace(text, value, mark), value)
           /\ \A w \in Seq(Chars) :
                Len(w) >= 1 /\ Apart(w, mark) /\ Occurs(Replace(text, value, mark), w) =>
                  Occurs(text, w)
<1>1. PICK f : Replaces(f, text, value, mark)
  BY ReplaceScans
<1> DEFINE L == Len(text)
           n == Len(value)
           R == Replace(text, value, mark)
<1>f. /\ f \in [1..L + 1 -> Seq(Chars)]
      /\ R = f[1]
      /\ f[L + 1] = <<>>
      /\ \A i \in 1..L :
           /\ MatchAt(text, i, value) => f[i] = mark \o f[i + n]
           /\ ~MatchAt(text, i, value) => f[i] = <<text[i]>> \o f[i + 1]
  BY <1>1 DEF Replaces
<1> HIDE DEF R
<1>2. L \in Nat /\ n \in Nat /\ n >= 1
  OBVIOUS
<1>3. \A i \in 1..L : MatchAt(text, i, value) => i + n <= L + 1
  BY DEF MatchAt
<1>4. \A i \in 1..L : text[i] \in Chars
  OBVIOUS
<1>5. mark \in Seq(Chars) /\ Len(mark) \in Nat /\ Len(mark) >= 1
  BY DEF Marks
<1>w. \A w \in Seq(Chars) : Len(w) \in Nat
  OBVIOUS
<1> DEFINE Prefix(i) == \A w \in Seq(Chars) :
             ~Meets(w, mark) /\ MatchAt(f[i], 1, w) => MatchAt(text, i, w)
           Inside(i) == \A w \in Seq(Chars) : \A p \in 1..Len(f[i]) :
             Len(w) >= 1 /\ Apart(w, mark) /\ MatchAt(f[i], p, w) =>
               \E q \in 1..L : MatchAt(text, q, w) /\ ~MatchAt(text, q, value)
           H == {k \in Nat : \A i \in 1..L + 1 : i > L - k => Prefix(i) /\ Inside(i)}
<1> HIDE DEF L, n
<1>6. \A i \in 1..L + 1 : \A w \in Seq(Chars) : Len(w) = 0 => MatchAt(text, i, w)
  BY <1>2 DEF MatchAt, L
<1>7. Prefix(L + 1) /\ Inside(L + 1)
  <2>1. \A w \in Seq(Chars) : MatchAt(<<>>, 1, w) => Len(w) = 0
    BY DEF MatchAt
  <2>2. L + 1 \in 1..L + 1
    BY <1>2
  <2>3. Prefix(L + 1)
    BY <1>f, <1>6, <2>1, <2>2
  <2>4. Len(f[L + 1]) = 0
    <3>1. Len(<<>>) = 0
      OBVIOUS
    <3> QED
      BY ONLY <1>f, <3>1
  <2>5. Inside(L + 1)
    BY <2>4
  <2> QED
    BY <2>3, <2>5
<1>8. ASSUME NEW i \in 1..L, MatchAt(text, i, value), Inside(i + n)
      PROVE  Prefix(i) /\ Inside(i)
  <2> DEFINE t == f[i + n]
  <2>1. f[i] = mark \o t
    BY <1>f, <1>8
  <2>2. i + n \in 1..L + 1 /\ i \in 1..L + 1
    BY <1>2, <1>3, <1>8
  <2>3. t \in Seq(Chars)
    BY <1>f, <2>2
  <2> HIDE DEF t
  <2>4. Prefix(i)
    <3> SUFFICES ASSUME NEW w \in Seq(Chars), ~Meets(w, mark), MatchAt(f[i], 1, w)
                 PROVE  MatchAt(text, i, w)
      OBVIOUS
    <3>1. Len(w) = 0
      BY <1>w, <2>1, <2>3, MatchAtMark
    <3> QED
      BY <1>6, <2>2, <3>1
  <2>5. Inside(i)
    <3> SUFFICES ASSUME NEW w \in Seq(Chars), NEW p \in 1..Len(f[i]), Len(w) >= 1,
                        Apart(w, mark), MatchAt(f[i], p, w)
                 PROVE  \E q \in 1..L : MatchAt(text, q, w) /\ ~MatchAt(text, q, value)
      OBVIOUS
    <3>1. \E q \in 1..Len(t) : p = q + Len(mark) /\ MatchAt(t, q, w)
      BY <2>1, <2>3, MatchBehindMark DEF Apart
    <3> QED
      BY <1>8, <3>1 DEF t
  <2> QED
    BY <2>4, <2>5
<1>9. ASSUME NEW i \in 1..L, ~MatchAt(text, i, value), Prefix(i + 1), Inside(i + 1)
      PROVE  Prefix(i) /\ Inside(i)
  <2> DEFINE t == f[i + 1]
  <2>1. f[i] = <<text[i]>> \o t
    BY <1>f, <1>9
  <2>2. i + 1 \in 1..L + 1 /\ i \in Nat /\ i \in 1..L + 1
    BY <1>2
  <2>3. t \in Seq(Chars) /\ Len(f[i]) = Len(t) + 1 /\ Len(t) \in Nat
    <3>1. t \in Seq(Chars)
      BY <1>f, <2>2
    <3> HIDE DEF t
    <3> QED
      BY <1>4, <2>1, <3>1
  <2> HIDE DEF t
  <2>4. Prefix(i)
    <3> SUFFICES ASSUME NEW w \in Seq(Chars), ~Meets(w, mark), MatchAt(f[i], 1, w)
                 PROVE  MatchAt(text, i, w)
      OBVIOUS
    <3>1. CASE Len(w) = 0
      BY <1>6, <2>2, <3>1
    <3>2. CASE Len(w) >= 1
      <4>1. text[i] = w[1] /\ MatchAt(t, 1, Tail(w))
        BY <1>4, <1>w, <2>1, <2>3, <3>2, MatchInFront
      <4>2. Tail(w) \in Seq(Chars) /\ ~Meets(Tail(w), mark)
        BY <1>5, <3>2, TailMeets
      <4>3. MatchAt(text, i + 1, Tail(w))
        BY <1>9, <4>1, <4>2 DEF t
      <4> QED
        BY <1>w, <3>2, <4>1, <4>3, MatchOneOn DEF L
    <3> QED
      BY <1>w, <3>1, <3>2
  <2>5. Inside(i)
    <3> SUFFICES ASSUME NEW w \in Seq(Chars), NEW p \in 1..Len(f[i]), Len(w) >= 1,
                        Apart(w, mark), MatchAt(f[i], p, w)
                 PROVE  \E q \in 1..L : MatchAt(text, q, w) /\ ~MatchAt(text, q, value)
      OBVIOUS
    <3>1. CASE p = 1
      BY <1>9, <2>4, <3>1 DEF Apart
    <3>2. CASE p # 1
      <4> DEFINE q == p - 1
      <4>1. q \in Nat /\ q >= 1 /\ p = q + 1 /\ q \in 1..Len(t)
        BY <2>3, <3>2
      <4> HIDE DEF q
      <4>2. MatchAt(t, q, w)
        <5>1. MatchAt(<<text[i]>> \o t, q + 1, w)
          BY <2>1, <4>1
        <5> QED
          BY <1>4, <1>w, <2>3, <4>1, <5>1, MatchBehind
      <4> QED
        BY <1>9, <4>1, <4>2 DEF t
    <3> QED
      BY <3>1, <3>2
  <2> QED
    BY <2>4, <2>5
<1> HIDE DEF Prefix, Inside
<1>10. 0 \in H
  <2>1. \A i \in 1..L + 1 : i > L - 0 => i = L + 1
    BY <1>2
  <2> QED
    BY <1>7, <2>1
<1>11. ASSUME NEW k \in Nat, k \in H PROVE k + 1 \in H
  <2> SUFFICES ASSUME NEW i \in 1..L + 1, i > L - (k + 1) PROVE Prefix(i) /\ Inside(i)
    OBVIOUS
  <2>1. CASE i = L + 1
    BY <1>7, <2>1
  <2>2. CASE i \in 1..L
    <3>1. i + 1 \in 1..L + 1 /\ i + 1 > L - k
      BY <1>2, <2>2
    <3>2. MatchAt(text, i, value) => i + n \in 1..L + 1 /\ i + n > L - k
      BY <1>2, <1>3, <2>2
    <3> QED
      BY <1>8, <1>9, <1>11, <2>2, <3>1, <3>2
  <2> QED
    BY <1>2, <2>1, <2>2
<1>12. Nat \subseteq H
  <2>1. \A k \in Nat : k \in H => k + 1 \in H
    BY <1>11
  <2> HIDE DEF H
  <2> QED
    BY <1>10, <2>1, NumberInduction
<1>13. Inside(1)
  <2>1. L + 1 \in Nat /\ 1 > L - (L + 1) /\ 1 \in 1..L + 1
    BY <1>2
  <2>2. L + 1 \in H
    <3> HIDE DEF H
    <3> QED
      BY <1>12, <2>1
  <2> QED
    BY <2>1, <2>2
<1>14. R \in Seq(Chars)
  <2>1. 1 \in 1..L + 1
    BY <1>2
  <2> QED
    BY <1>f, <2>1
<1>15. \A w \in Seq(Chars) : Len(w) >= 1 /\ Apart(w, mark) /\ Occurs(R, w) =>
         \E q \in 1..L : MatchAt(text, q, w) /\ ~MatchAt(text, q, value)
  BY <1>f, <1>13 DEF Occurs, Inside
<1>16. Apart(value, mark) => ~Occurs(R, value)
  BY <1>2, <1>15 DEF n
<1>17. \A w \in Seq(Chars) : Len(w) >= 1 /\ Apart(w, mark) /\ Occurs(R, w) => Occurs(text, w)
  BY <1>15 DEF Occurs, L
<1> QED
  BY <1>14, <1>16, <1>17 DEF R

-----------------------------------------------------------------------------
(* The redactor *)

LEMMA MarkersMark == \A n \in Names : Marker(n) \in Marks
<1> SUFFICES ASSUME NEW n \in Names PROVE Marker(n) \in Marks
  OBVIOUS
<1>1. n \in Seq(Chars) /\ Opening \in Seq(Chars) /\ Closing \in Seq(Chars) /\ Len(Opening) >= 1
  BY MarkerAssumption, NamesAssumption
<1>2. Marker(n) \in Seq(Chars) /\ Len(Marker(n)) = Len(Opening) + Len(n) + Len(Closing)
  BY <1>1 DEF Marker
<1>3. Len(Opening) \in Nat /\ Len(n) \in Nat /\ Len(Closing) \in Nat
  BY <1>1
<1> QED
  BY <1>1, <1>2, <1>3 DEF Marks

\* The text after each of the entries: g[k] after the first k of them.
Redacts(g, text, values) ==
    /\ DOMAIN g = 0..Len(Entries(values))
    /\ g[0] = text
    /\ g[Len(Entries(values))] = Redact(text, values)
    /\ \A k \in 1..Len(Entries(values)) :
         g[k] = Replace(g[k - 1], values[Entries(values)[k]], Marker(Entries(values)[k]))

\* The fold of Redact goes through the entries from the first to the last.
LEMMA RedactSteps ==
    ASSUME NEW values, NEW text,
           DOMAIN values \subseteq Names, \A n \in DOMAIN values : values[n] \in Seq(Chars)
    PROVE  \E g : Redacts(g, text, values)
<1> DEFINE E == Entries(values)
           n == Len(E)
           D == 1..n
           Op(t, x) == Replace(t, values[E[x]], Marker(E[x]))
           Step(h, s) == IF s = {} THEN text ELSE Op(h[s \ {Max(s)}], Max(s))
           Up(k) == \E h : /\ h = [s \in SUBSET D |-> h[s]]
                           /\ \A s \in SUBSET (1..k) : h[s] = Step(h, s)
           G == {k \in Nat : k <= n => Up(k)}
<1>1. n \in Nat /\ DOMAIN E = D
  BY EntriesAreAll
<1> HIDE DEF E, n, Op
<1>2. ASSUME NEW k \in Nat, NEW s \in SUBSET (1..k + 1), k + 1 \in s
      PROVE  Max(s) = k + 1 /\ s \ {Max(s)} \in SUBSET (1..k)
  <2>1. \A y \in s : k + 1 >= y
    OBVIOUS
  <2>2. ASSUME NEW x \in s, \A y \in s : x >= y PROVE x = k + 1
    <3>1. x >= k + 1 /\ k + 1 >= x /\ x \in Nat
      BY <1>2, <2>1, <2>2
    <3> QED
      BY <3>1
  <2>3. Max(s) = k + 1
    <3>1. Max(s) = CHOOSE x \in s : \A y \in s : x >= y
      BY DEF Max
    <3> QED
      BY <1>2, <2>1, <2>2, <3>1
  <2> QED
    BY <2>3
<1>3. 0 \in G
  <2> DEFINE h == [s \in SUBSET D |-> text]
  <2>1. h = [s \in SUBSET D |-> h[s]]
    OBVIOUS
  <2>2. ASSUME NEW s \in SUBSET (1..0) PROVE h[s] = Step(h, s)
    <3>1. s = {} /\ s \in SUBSET D
      OBVIOUS
    <3> QED
      BY <3>1
  <2> HIDE DEF h, Step
  <2> QED
    BY <2>1, <2>2
<1>4. ASSUME NEW k \in Nat, k \in G PROVE k + 1 \in G
  <2> SUFFICES ASSUME k + 1 <= n
               PROVE  Up(k + 1)
    <3> HIDE DEF Up
    <3> QED
      OBVIOUS
  <2>1. PICK h : \A s \in SUBSET (1..k) : h[s] = Step(h, s)
    <3>1. k <= n
      BY <1>1
    <3>2. Up(k)
      <4> HIDE DEF Up
      <4> QED
        BY <1>4, <3>1
    <3> HIDE DEF Step
    <3> QED
      BY <3>2
  <2> DEFINE F(s) == IF k + 1 \in s THEN Step(h, s) ELSE h[s]
             j == [s \in SUBSET D |-> F(s)]
  <2>2. ASSUME NEW s \in SUBSET (1..k + 1) PROVE j[s] = Step(j, s)
    <3>1. s \in SUBSET D
      BY <1>1
    <3>2. j[s] = F(s)
      BY <3>1
    <3>3. \A r \in SUBSET D : k + 1 \notin r => j[r] = h[r]
      OBVIOUS
    <3> HIDE DEF j
    <3>4. CASE s = {}
      <4>1. s \in SUBSET (1..k)
        BY <3>4
      <4>2. h[s] = text
        BY <2>1, <3>4, <4>1
      <4> QED
        BY <3>2, <3>4, <4>2
    <3>5. CASE s # {} /\ k + 1 \in s
      <4>1. s \ {Max(s)} \in SUBSET (1..k) /\ Max(s) = k + 1
        BY <1>2, <3>5
      <4>2. s \ {Max(s)} \in SUBSET D /\ k + 1 \notin s \ {Max(s)}
        BY <3>1, <4>1
      <4>3. j[s \ {Max(s)}] = h[s \ {Max(s)}]
        BY <3>3, <4>2
      <4>4. Step(j, s) = Step(h, s)
        BY <3>5, <4>3
      <4>5. F(s) = Step(h, s)
        BY <3>5
      <4> HIDE DEF F, Step
      <4> QED
        BY <3>2, <4>4, <4>5
    <3>6. CASE s # {} /\ k + 1 \notin s
      <4>1. s \in SUBSET (1..k)
        BY <3>6
      <4>2. s \ {Max(s)} \in SUBSET D /\ k + 1 \notin s \ {Max(s)}
        BY <3>1, <3>6
      <4>3. j[s \ {Max(s)}] = h[s \ {Max(s)}]
        BY <3>3, <4>2
      <4>4. Step(j, s) = Step(h, s)
        BY <3>6, <4>3
      <4>5. F(s) = h[s]
        BY <3>6
      <4> HIDE DEF F, Step
      <4> QED
        BY <2>1, <3>2, <4>1, <4>4, <4>5
    <3> QED
      BY <3>4, <3>5, <3>6
  <2>3. j = [s \in SUBSET D |-> j[s]]
    <3> HIDE DEF F
    <3> QED
      OBVIOUS
  <2> HIDE DEF j, Step
  <2> QED
    BY <2>2, <2>3
<1>5. Nat \subseteq G
  <2>1. \A k \in Nat : k \in G => k + 1 \in G
    BY <1>4
  <2> HIDE DEF G
  <2> QED
    BY <1>3, <2>1, NumberInduction
<1> DEFINE Def(h) == [s \in SUBSET D |-> Step(h, s)]
           iter == CHOOSE h : h = Def(h)
<1>6. iter = Def(iter)
  <2>1. n \in G /\ n <= n
    <3> HIDE DEF G
    <3> QED
      BY <1>1, <1>5
  <2>2. PICK h : /\ h = [s \in SUBSET D |-> h[s]]
                 /\ \A s \in SUBSET (1..n) : h[s] = Step(h, s)
    <3>1. Up(n)
      <4> HIDE DEF Up
      <4> QED
        BY <2>1
    <3> HIDE DEF Step
    <3> QED
      BY <3>1
  <2>3. h = Def(h)
    <3> HIDE DEF Step
    <3> QED
      BY <2>2
  <2> HIDE DEF Def
  <2> QED
    BY <2>3
<1>7. Redact(text, values) = iter[D]
  BY <1>1 DEF Redact, FoldLeft, MapThenFoldSet, E, n, Op
<1> HIDE DEF iter
<1>8. \A s \in SUBSET D : iter[s] = Step(iter, s)
  <2> HIDE DEF Step
  <2> QED
    BY <1>6
<1> DEFINE g == [k \in 0..n |-> iter[1..k]]
<1>9. g[0] = text
  <2>1. 1..0 = {} /\ {} \in SUBSET D /\ 0 \in 0..n
    BY <1>1
  <2>2. iter[{}] = text
    BY <1>8, <2>1
  <2> QED
    BY <2>1, <2>2
<1>10. g[n] = Redact(text, values)
  BY <1>1, <1>7
<1>11. ASSUME NEW k \in 1..n PROVE g[k] = Replace(g[k - 1], values[E[k]], Marker(E[k]))
  <2> DEFINE p == k - 1
  <2>1. p \in Nat /\ k = p + 1 /\ p \in 0..n /\ k \in 0..n
    BY <1>1
  <2> HIDE DEF p
  <2>2. 1..k \in SUBSET (1..p + 1) /\ p + 1 \in 1..k /\ 1..k \in SUBSET D /\ 1..k # {}
    BY <1>1, <2>1
  <2>3. Max(1..k) = p + 1
    BY <1>2, <2>1, <2>2
  <2>4. (1..k) \ {k} = 1..p
    BY <2>1
  <2>5. iter[1..k] = Op(iter[1..p], k)
    BY <1>8, <2>1, <2>2, <2>3, <2>4
  <2>6. g[k] = iter[1..k] /\ g[p] = iter[1..p]
    BY <2>1
  <2> HIDE DEF g
  <2> QED
    BY <2>5, <2>6 DEF Op, p
<1>12. DOMAIN g = 0..n
  OBVIOUS
<1> HIDE DEF g
<1>13. Redacts(g, text, values)
  BY <1>9, <1>10, <1>11, <1>12 DEF Redacts, E, n
<1> QED
  BY <1>13

\* w is apart from every marker that values bring in.
Clear(w, values) == \A m \in DOMAIN values : Apart(w, Marker(m))

\* Redaction makes up no text that is apart from the markers, and of the values that
\* are it leaves none.
LEMMA RedactHides ==
    ASSUME NEW values, NEW text, text \in Seq(Chars),
           DOMAIN values \subseteq Names,
           \A m \in DOMAIN values : values[m] \in Seq(Chars) /\ Len(values[m]) >= 1
    PROVE  /\ Redact(text, values) \in Seq(Chars)
           /\ \A w \in Seq(Chars) :
                Len(w) >= 1 /\ Clear(w, values) /\ Occurs(Redact(text, values), w) =>
                  Occurs(text, w)
           /\ \A m \in DOMAIN values :
                Clear(values[m], values) => ~Occurs(Redact(text, values), values[m])
<1> DEFINE E == Entries(values)
           n == Len(E)
           Free(w) == w \in Seq(Chars) /\ Len(w) >= 1 /\ Clear(w, values)
<1>1. PICK g : Redacts(g, text, values)
  BY RedactSteps
<1>2. /\ g[0] = text
      /\ g[n] = Redact(text, values)
      /\ \A k \in 1..n : g[k] = Replace(g[k - 1], values[E[k]], Marker(E[k]))
  BY <1>1 DEF Redacts
<1>3. /\ n \in Nat
      /\ \A k \in 1..n : E[k] \in DOMAIN values
      /\ \A m \in DOMAIN values : \E k \in 1..n : E[k] = m
  <2>1. \A m \in DOMAIN values : values[m] \in Seq(Chars)
    OBVIOUS
  <2>2. E \in Seq(DOMAIN values) /\ \A m \in DOMAIN values : \E k \in 1..n : E[k] = m
    BY <2>1, EntriesAreAll
  <2> DEFINE S == DOMAIN values
  <2>3. E \in Seq(S) /\ \A m \in S : \E k \in 1..n : E[k] = m
    BY <2>2
  <2> HIDE DEF E, S
  <2>4. n \in Nat /\ \A k \in 1..n : E[k] \in S
    BY <2>3
  <2> QED
    BY <2>3, <2>4 DEF S
<1> HIDE DEF E, n, Free
<1> DEFINE Hides(k) ==
             /\ g[k] \in Seq(Chars)
             /\ \A w : Free(w) /\ Occurs(g[k], w) => Occurs(text, w)
             /\ \A j \in 1..k : Free(values[E[j]]) => ~Occurs(g[k], values[E[j]])
           G == {k \in Nat : k <= n => Hides(k)}
<1>4. 0 \in G
  BY <1>2
<1>5. ASSUME NEW k \in Nat, k \in G PROVE k + 1 \in G
  <2> SUFFICES ASSUME k + 1 <= n PROVE Hides(k + 1)
    <3> HIDE DEF Hides
    <3> QED
      OBVIOUS
  <2>1. k <= n /\ k + 1 \in 1..n /\ (k + 1) - 1 = k
    BY <1>3
  <2>2. Hides(k)
    <3> HIDE DEF Hides
    <3> QED
      BY <1>5, <2>1
  <2> DEFINE m == E[k + 1]
             v == values[m]
             r == Replace(g[k], v, Marker(m))
  <2>3. m \in DOMAIN values /\ m \in Names /\ v \in Seq(Chars) /\ Len(v) >= 1
    BY <1>3, <2>1
  <2>4. g[k + 1] = r
    BY <1>2, <2>1
  <2>5. Marker(m) \in Marks
    BY <2>3, MarkersMark
  <2>m. \A w : Free(w) => w \in Seq(Chars) /\ Len(w) >= 1 /\ Apart(w, Marker(m))
    BY <2>3 DEF Free, Clear
  <2> HIDE DEF m, v
  <2>6. /\ r \in Seq(Chars)
        /\ Apart(v, Marker(m)) => ~Occurs(r, v)
        /\ \A w \in Seq(Chars) : Len(w) >= 1 /\ Apart(w, Marker(m)) /\ Occurs(r, w) => Occurs(g[k], w)
    BY <2>2, <2>3, <2>5, ReplaceHides
  <2> HIDE DEF r
  <2>7. \A w : Free(w) /\ Occurs(r, w) => Occurs(g[k], w)
    BY <2>m, <2>6
  <2>8. ASSUME NEW j \in 1..k + 1, Free(values[E[j]]) PROVE ~Occurs(r, values[E[j]])
    <3>1. CASE j = k + 1
      BY <2>m, <2>6, <2>8, <3>1 DEF v, m
    <3>2. CASE j # k + 1
      <4>1. j \in 1..k
        BY <3>2
      <4> QED
        BY <2>2, <2>7, <2>8, <4>1
    <3> QED
      BY <3>1, <3>2
  <2> QED
    BY <2>2, <2>4, <2>6, <2>7, <2>8
<1>6. Nat \subseteq G
  <2>1. \A k \in Nat : k \in G => k + 1 \in G
    BY <1>5
  <2> HIDE DEF G
  <2> QED
    BY <1>4, <2>1, NumberInduction
<1>7. Hides(n)
  <2>1. n \in G /\ n <= n
    <3> HIDE DEF G
    <3> QED
      BY <1>3, <1>6
  <2> HIDE DEF Hides
  <2> QED
    BY <2>1
<1> QED
  BY <1>2, <1>3, <1>7 DEF Free

-----------------------------------------------------------------------------
(* str::lines *)

\* text falls into the m parts from[k]..to[k]; between two of them is a newline.  A
\* line is such a part up to end[k], which leaves out a Return at the end of it.
Parts(text, m, from, to, end) ==
    /\ m \in Nat
    /\ Lines(text) = [k \in 1..m |-> SubSeq(text, from[k], end[k])]
    /\ \A k \in 1..m :
         \/ end[k] = to[k]
         \/ end[k] = to[k] - 1 /\ to[k] >= from[k] /\ text[to[k]] = Return
    /\ \A k \in 1..m : from[k] \in 1..Len(text) /\ to[k] \in from[k] - 1..Len(text)
    /\ m >= 1 => from[1] = 1
    /\ \A k \in 1..m : k < m => from[k + 1] = to[k] + 2 /\ text[to[k] + 1] = NewLine

\* From any place on there is an end of the line.
LEMMA LineEnds ==
    ASSUME NEW text, text \in Seq(Chars), NEW i \in 1..Len(text)
    PROVE  \E j \in i - 1..Len(text) : /\ NewLine \notin Range(SubSeq(text, i, j))
                                       /\ j = Len(text) \/ text[j + 1] = NewLine
<1> DEFINE L == Len(text)
           B == {q \in Nat : q >= i /\ (q = L + 1 \/ (q <= L /\ text[q] = NewLine))}
<1>1. L \in Nat /\ i \in Nat /\ i >= 1 /\ i <= L
  OBVIOUS
<1>2. PICK q \in B : \A p \in B : q <= p
  <2>1. L + 1 \in B
    BY <1>1
  <2> HIDE DEF B
  <2>2. B \in SUBSET Nat
    BY DEF B
  <2> QED
    BY <2>1, <2>2, LeastNumber
<1> DEFINE j == q - 1
<1>3. j \in i - 1..L /\ q = j + 1 /\ q \in Nat
  BY <1>1, <1>2
<1>4. j = L \/ text[j + 1] = NewLine
  BY <1>1, <1>2, <1>3
<1> HIDE DEF j
<1>5. ASSUME NEW p \in i..j PROVE text[p] # NewLine
  <2>1. p \in Nat /\ p < q /\ p >= i /\ p <= L
    BY <1>1, <1>3
  <2>2. p \notin B
    <3> HIDE DEF B
    <3> QED
      BY <1>2, <1>3, <2>1
  <2> QED
    BY <1>1, <2>1, <2>2
<1>6. NewLine \notin Range(SubSeq(text, i, j))
  <2> DEFINE s == SubSeq(text, i, j)
  <2>1. DOMAIN s = 1..j - i + 1 /\ \A k \in 1..j - i + 1 : s[k] = text[i + k - 1]
    BY <1>1, <1>3
  <2>2. ASSUME NEW k \in 1..j - i + 1 PROVE i + k - 1 \in i..j
    BY <1>1, <1>3
  <2> HIDE DEF s
  <2>3. NewLine \notin Range(s)
    BY <1>5, <2>1, <2>2 DEF Range
  <2> QED
    BY <2>3 DEF s
<1> QED
  BY <1>3, <1>4, <1>6

LEMMA LinesAreParts ==
    ASSUME NEW text, text \in Seq(Chars)
    PROVE  \E m, from, to, end : Parts(text, m, from, to, end)
<1> DEFINE L == Len(text)
           S == {i \in 1..L : i = 1 \/ text[i - 1] = NewLine}
           Ends(i, j) == /\ NewLine \notin Range(SubSeq(text, i, j))
                         /\ j = L \/ text[j + 1] = NewLine
           last(i) == CHOOSE j \in i - 1..L : Ends(i, j)
           cut(i, j) == j < L /\ j >= i /\ text[j] = Return
           stop(i, j) == IF cut(i, j) THEN j - 1 ELSE j
           Pick(k) == CHOOSE x \in S : Cardinality({y \in S : y < x}) = k - 1
           order == [k \in 1..Cardinality(S) |-> Pick(k)]
           Smaller == [x \in S |-> {y \in S : y < x}]
<1>1. Lines(text) = [k \in DOMAIN order |-> SubSeq(text, order[k], stop(order[k], last(order[k])))]
  BY DEF Lines, Sorted
<1>2. L \in Nat /\ S \in SUBSET (1..L)
  OBVIOUS
<1>3. \A i \in 1..L : last(i) \in i - 1..L /\ Ends(i, last(i))
  <2> SUFFICES ASSUME NEW i \in 1..L PROVE last(i) \in i - 1..L /\ Ends(i, last(i))
    OBVIOUS
  <2>1. \E j \in i - 1..L : Ends(i, j)
    BY LineEnds
  <2> HIDE DEF Ends
  <2> QED
    BY <2>1
<1>4. /\ \A x \in S : x \notin Smaller[x]
      /\ \A x, y, z \in S : x \in Smaller[y] /\ y \in Smaller[z] => x \in Smaller[z]
      /\ \A x, y \in S : x = y \/ x \in Smaller[y] \/ y \in Smaller[x]
      /\ \A x, y \in S : x \in Smaller[y] <=> x < y
  <2>1. \A x, y \in S : x \in Smaller[y] <=> x < y
    OBVIOUS
  <2>2. S \in SUBSET Nat
    OBVIOUS
  <2> HIDE DEF S, Smaller
  <2> QED
    BY <2>1, <2>2
<1>5. IsFiniteSet(S)
  <2>1. IsFiniteSet(1..L)
    BY <1>2, FS_Interval
  <2> HIDE DEF S, L
  <2> QED
    BY <1>2, <2>1, FS_Subset
<1>6. ASSUME NEW k \in 1..Cardinality(S), NEW x \in S, Cardinality(Smaller[x]) = k - 1
      PROVE  order[k] \in S /\ Cardinality(Smaller[order[k]]) = k - 1
  <2>1. Pick(k) = CHOOSE z \in S : Cardinality(Smaller[z]) = k - 1
    OBVIOUS
  <2>2. Pick(k) \in S /\ Cardinality(Smaller[Pick(k)]) = k - 1
    <3> HIDE DEF S, Smaller, Pick
    <3> QED
      BY <1>6, <2>1
  <2>3. order[k] = Pick(k)
    <3> HIDE DEF Pick, S
    <3> QED
      OBVIOUS
  <2> HIDE DEF order, Pick, Smaller, S
  <2> QED
    BY <2>2, <2>3
<1> DEFINE m == Cardinality(S)
<1>7. /\ m \in Nat /\ Len(order) = m /\ DOMAIN order = 1..m
      /\ \A k \in 1..m : order[k] \in S
      /\ \A x \in S : \E k \in 1..m : order[k] = x
      /\ \A i, k \in 1..m : i < k => order[i] < order[k]
  <2> DEFINE T == {Pick(k) : k \in 1..Cardinality(S)}
  <2>1. order \in [1..Cardinality(S) -> T] /\ DOMAIN order = 1..Cardinality(S)
    <3> HIDE DEF Pick, S
    <3> QED
      OBVIOUS
  <2>2. Smaller \in [S -> SUBSET S]
    OBVIOUS
  <2> HIDE DEF order, S, Smaller, Pick, T
  <2>3. \A k \in 1..Cardinality(S) : \A x \in S :
             Cardinality(Smaller[x]) = k - 1 =>
               order[k] \in S /\ Cardinality(Smaller[order[k]]) = k - 1
    BY <1>6
  <2>4. /\ Cardinality(S) \in Nat /\ order \in Seq(S) /\ Len(order) = Cardinality(S)
        /\ \A x \in S : \E k \in 1..Len(order) : order[k] = x
        /\ \A i, k \in 1..Len(order) : i < k => order[i] \in Smaller[order[k]]
    BY <1>4, <1>5, <2>1, <2>2, <2>3, SortedSorts
  <2>5. \A k \in 1..m : order[k] \in S
    BY <2>4
  <2>6. \A i, k \in 1..m : i < k => order[i] < order[k]
    BY <1>4, <2>4, <2>5
  <2> QED
    BY <2>1, <2>4, <2>5, <2>6
<1> HIDE DEF order, m
<1>8. ASSUME NEW k \in 1..m PROVE order[k] \in 1..L /\ last(order[k]) \in order[k] - 1..L
  <2>1. order[k] \in 1..L
    BY <1>2, <1>7
  <2> HIDE DEF last
  <2> QED
    BY <1>3, <2>1
<1>9. ASSUME m >= 1 PROVE order[1] = 1
  <2>1. order[1] \in S /\ 1 \in 1..m
    BY <1>7, <1>9
  <2>2. 1 \in S
    BY <2>1
  <2>3. PICK k \in 1..m : order[k] = 1
    BY <1>7, <2>2
  <2>4. k = 1 \/ 1 < k
    BY <1>7
  <2>5. ~(1 < k)
    <3>1. 1 < k => order[1] < 1
      BY <1>7, <2>1, <2>3
    <3>2. order[1] \in Nat /\ order[1] >= 1
      BY <2>1
    <3> QED
      BY <3>1, <3>2
  <2> QED
    BY <2>3, <2>4, <2>5
<1>10. ASSUME NEW k \in 1..m, k < m
       PROVE  order[k + 1] = last(order[k]) + 2 /\ text[last(order[k]) + 1] = NewLine
  <2> DEFINE i == order[k]
             x == order[k + 1]
             l == last(i)
  <2>1. k + 1 \in 1..m
    BY <1>7, <1>10
  <2>2. i \in S /\ x \in S /\ i < x
    BY <1>7, <1>10, <2>1
  <2>3. i \in Nat /\ x \in Nat /\ i >= 1 /\ x <= L /\ text[x - 1] = NewLine
    BY <1>2, <2>2
  <2>4. l \in i - 1..L /\ Ends(i, l)
    BY <1>3, <2>2
  <2> HIDE DEF l, i, x
  <2>5. \A p \in i..l : text[p] # NewLine
    <3> SUFFICES ASSUME NEW p \in i..l PROVE text[p] # NewLine
      OBVIOUS
    <3> DEFINE s == SubSeq(text, i, l)
    <3>1. DOMAIN s = 1..l - i + 1 /\ \A j \in 1..l - i + 1 : s[j] = text[i + j - 1]
      BY <1>2, <2>3, <2>4
    <3> DEFINE j == p - i + 1
    <3>2. j \in 1..l - i + 1 /\ i + j - 1 = p
      BY <2>3, <2>4
    <3>3. NewLine \notin Range(s)
      BY <2>4
    <3> HIDE DEF s, j
    <3> QED
      BY <3>1, <3>2, <3>3 DEF Range
  <2>6. l < x - 1
    <3> SUFFICES ASSUME x - 1 <= l PROVE FALSE
      BY <2>3, <2>4
    <3>1. x - 1 \in i..l
      BY <2>2, <2>3, <2>4
    <3> QED
      BY <2>3, <2>5, <3>1
  <2>7. l < L /\ text[l + 1] = NewLine
    BY <1>2, <2>3, <2>4, <2>6
  <2>8. l + 1 >= x - 1
    <3> SUFFICES ASSUME l + 1 < x - 1 PROVE FALSE
      BY <2>3, <2>4
    <3> DEFINE y == l + 2
    <3>1. y \in 1..L /\ y - 1 = l + 1 /\ i < y /\ y < x
      BY <1>2, <2>3, <2>4
    <3>2. y \in S
      BY <2>7, <3>1
    <3> HIDE DEF y
    <3>3. PICK q \in 1..m : order[q] = y
      BY <1>7, <3>2
    <3>4. q < k => y < i
      BY <1>7, <3>3 DEF i
    <3>5. q > k + 1 => x < y
      BY <1>7, <2>1, <3>3 DEF x
    <3>6. q = k => y = i
      BY <3>3 DEF i
    <3>7. q = k + 1 => y = x
      BY <3>3 DEF x
    <3>8. q < k \/ q = k \/ q = k + 1 \/ q > k + 1
      BY <1>7
    <3>9. y \in Nat
      BY <3>1
    <3> QED
      BY <2>3, <3>1, <3>4, <3>5, <3>6, <3>7, <3>8, <3>9
  <2>9. x = l + 2
    BY <2>3, <2>4, <2>6, <2>8
  <2> QED
    BY <2>7, <2>9 DEF x, l, i
<1> DEFINE to == [k \in 1..m |-> last(order[k])]
<1>11. \A k \in 1..m : to[k] = last(order[k])
  <2> HIDE DEF last
  <2> QED
    OBVIOUS
<1> DEFINE end == [k \in 1..m |-> stop(order[k], last(order[k]))]
<1>e. \A k \in 1..m : end[k] = stop(order[k], to[k])
  <2> HIDE DEF last, stop, to
  <2> QED
    BY <1>11
<1>12. Lines(text) = [k \in 1..m |-> SubSeq(text, order[k], end[k])]
  <2> HIDE DEF last, to, stop, end
  <2>1. \A k \in 1..m : end[k] = stop(order[k], last(order[k]))
    BY DEF end
  <2> QED
    BY <1>1, <1>7, <2>1
<1> HIDE DEF last, to, end
<1>13. \A k \in 1..m : order[k] \in 1..L /\ to[k] \in order[k] - 1..L
  BY <1>8, <1>11
<1>14. \A k \in 1..m : k < m => order[k + 1] = to[k] + 2 /\ text[to[k] + 1] = NewLine
  BY <1>10, <1>11
<1>s. \A k \in 1..m :
        \/ end[k] = to[k]
        \/ end[k] = to[k] - 1 /\ to[k] >= order[k] /\ text[to[k]] = Return
  <2> DEFINE Part(k) == end[k] = to[k] \/ (end[k] = to[k] - 1 /\ to[k] >= order[k] /\ text[to[k]] = Return)
  <2>1. ASSUME NEW k \in 1..m PROVE Part(k)
    <3>1. end[k] = stop(order[k], to[k])
      BY <1>e
    <3>2. CASE cut(order[k], to[k])
      BY <3>1, <3>2
    <3>3. CASE ~cut(order[k], to[k])
      <4>1. stop(order[k], to[k]) = to[k]
        BY <3>3
      <4> QED
        BY <3>1, <4>1
    <3> QED
      BY <3>2, <3>3
  <2>2. \A k \in 1..m : Part(k)
    <3> HIDE DEF Part
    <3> QED
      BY <2>1
  <2> QED
    BY <2>2
<1>15. Parts(text, m, order, to, end)
  <2>1. m >= 1 => order[1] = 1
    BY <1>9
  <2>2. m \in Nat
    BY <1>7
  <2> QED
    BY <1>12, <1>13, <1>14, <1>s, <2>1, <2>2 DEF Parts, L
<1> QED
  BY <1>15

\* A line is a part of its text.
LEMMA LineShowsNoMore ==
    ASSUME NEW text \in Seq(Chars), NEW v \in Seq(Chars), Len(v) >= 1,
           NEW k \in DOMAIN Lines(text), Occurs(Lines(text)[k], v)
    PROVE  Occurs(text, v)
<1>1. PICK m, from, to, end : Parts(text, m, from, to, end)
  BY LinesAreParts
<1> DEFINE L == Len(text)
           a == from[k]
           b == end[k]
           s == SubSeq(text, a, b)
           n == Len(v)
<1>2. k \in 1..m /\ Lines(text)[k] = s
  BY <1>1 DEF Parts
<1>3. /\ a \in 1..L /\ L \in Nat /\ to[k] \in a - 1..L
      /\ b = to[k] \/ (b = to[k] - 1 /\ to[k] >= a)
  <2>1. \A x \in 1..m : from[x] \in 1..L /\ to[x] \in from[x] - 1..L
    BY <1>1 DEF Parts
  <2>2. \A x \in 1..m : end[x] = to[x] \/ (end[x] = to[x] - 1 /\ to[x] >= from[x])
    BY <1>1 DEF Parts
  <2> QED
    BY <1>2, <2>1, <2>2
<1>4. a \in Nat /\ a >= 1 /\ b \in Int /\ b >= a - 1 /\ b <= L /\ n \in Nat
  BY <1>3
<1> HIDE DEF a, b, n
<1>5. Len(s) = b - a + 1 /\ \A i \in 1..b - a + 1 : s[i] = text[a + i - 1]
  BY <1>3, <1>4
<1>6. PICK i \in 1..Len(s) : MatchAt(s, i, v)
  BY <1>2 DEF Occurs
<1> HIDE DEF s
<1>7. i + n <= Len(s) + 1 /\ \A j \in 1..n : s[i + j - 1] = v[j]
  BY <1>6 DEF MatchAt, n
<1> DEFINE q == a + i - 1
<1>8. q \in 1..L /\ q + n <= L + 1
  BY <1>3, <1>4, <1>5, <1>7
<1>9. ASSUME NEW j \in 1..n PROVE text[q + j - 1] = v[j]
  <2>1. i + j - 1 \in 1..b - a + 1 /\ a + (i + j - 1) - 1 = q + j - 1
    BY <1>4, <1>5, <1>7
  <2> QED
    BY <1>5, <1>7, <2>1
<1> HIDE DEF q
<1>10. MatchAt(text, q, v)
  BY <1>8, <1>9 DEF MatchAt, n
<1> QED
  BY <1>8, <1>10 DEF Occurs

\* The text up to the end of each of its parts.
Flattens(f, seqs) ==
    /\ f[1] = seqs[1]
    /\ f[Len(seqs)] = FlattenSeq(seqs)
    /\ \A i \in 2..Len(seqs) : f[i] = f[i - 1] \o seqs[i]

LEMMA FlattenSteps ==
    ASSUME NEW seqs, Len(seqs) \in Nat, Len(seqs) >= 1
    PROVE  \E f : Flattens(f, seqs)
<1> DEFINE n == Len(seqs)
           Step(h, i) == IF i = 1 THEN seqs[i] ELSE h[i - 1] \o seqs[i]
           Up(k) == \E h : /\ h = [i \in 1..n |-> h[i]]
                           /\ \A i \in 1..k : h[i] = Step(h, i)
           G == {k \in Nat : k <= n => Up(k)}
           Def(h) == [i \in 1..n |-> Step(h, i)]
           iter == CHOOSE h : h = Def(h)
<1>1. n \in Nat /\ n >= 1
  OBVIOUS
<1>2. FlattenSeq(seqs) = iter[n]
  BY <1>1 DEF FlattenSeq
<1> HIDE DEF n
<1>3. 0 \in G
  <2> DEFINE h == [i \in 1..n |-> seqs]
  <2>1. h = [i \in 1..n |-> h[i]]
    OBVIOUS
  <2>2. \A i \in 1..0 : h[i] = Step(h, i)
    OBVIOUS
  <2> HIDE DEF h, Step
  <2>3. Up(0)
    BY <2>1, <2>2
  <2> HIDE DEF Up
  <2> QED
    BY <2>3
<1>4. ASSUME NEW k \in Nat, k \in G PROVE k + 1 \in G
  <2> SUFFICES ASSUME k + 1 <= n PROVE Up(k + 1)
    <3> HIDE DEF Up
    <3> QED
      OBVIOUS
  <2>1. PICK h : \A i \in 1..k : h[i] = Step(h, i)
    <3>1. k <= n
      BY <1>1
    <3>2. Up(k)
      <4> HIDE DEF Up
      <4> QED
        BY <1>4, <3>1
    <3> HIDE DEF Step
    <3> QED
      BY <3>2
  <2> DEFINE F(i) == IF i = k + 1 THEN Step(h, i) ELSE h[i]
             j == [i \in 1..n |-> F(i)]
  <2>2. ASSUME NEW i \in 1..k + 1 PROVE j[i] = Step(j, i)
    <3>1. i \in 1..n /\ i \in Nat /\ (i # 1 => i - 1 \in 1..n /\ i - 1 # k + 1)
      BY <1>1
    <3>2. j[i] = F(i)
      BY <3>1
    <3>3. \A x \in 1..n : x # k + 1 => j[x] = h[x]
      OBVIOUS
    <3> HIDE DEF j
    <3>4. Step(j, i) = Step(h, i)
      BY <3>1, <3>3
    <3>5. F(i) = Step(h, i)
      <4>1. i = k + 1 \/ i \in 1..k
        OBVIOUS
      <4> HIDE DEF Step
      <4> QED
        BY <2>1, <4>1
    <3> HIDE DEF F, Step
    <3> QED
      BY <3>2, <3>4, <3>5
  <2>3. j = [i \in 1..n |-> j[i]]
    <3> HIDE DEF F
    <3> QED
      OBVIOUS
  <2> HIDE DEF j, Step
  <2> QED
    BY <2>2, <2>3
<1>5. Nat \subseteq G
  <2>1. \A k \in Nat : k \in G => k + 1 \in G
    BY <1>4
  <2> HIDE DEF G
  <2> QED
    BY <1>3, <2>1, NumberInduction
<1>6. iter = Def(iter)
  <2>1. n \in G /\ n <= n
    <3> HIDE DEF G
    <3> QED
      BY <1>1, <1>5
  <2>2. Up(n)
    <3> HIDE DEF Up
    <3> QED
      BY <2>1
  <2>3. PICK h : /\ h = [i \in 1..n |-> h[i]]
                 /\ \A i \in 1..n : h[i] = Step(h, i)
    <3> HIDE DEF Step
    <3> QED
      BY <2>2
  <2>4. h = Def(h)
    <3> HIDE DEF Step
    <3> QED
      BY <2>3
  <2> HIDE DEF Def
  <2> QED
    BY <2>4
<1> HIDE DEF iter
<1>7. \A i \in 1..n : iter[i] = Step(iter, i)
  <2> HIDE DEF Step
  <2> QED
    BY <1>6
<1>8. iter[1] = seqs[1]
  BY <1>1, <1>7
<1>9. ASSUME NEW i \in 2..n PROVE iter[i] = iter[i - 1] \o seqs[i]
  <2>1. i \in 1..n /\ i # 1
    BY <1>1
  <2>2. Step(iter, i) = iter[i - 1] \o seqs[i]
    BY <2>1
  <2> HIDE DEF Step
  <2> QED
    BY <1>7, <2>1, <2>2
<1>10. Flattens(iter, seqs)
  BY <1>2, <1>8, <1>9 DEF Flattens, n
<1> QED
  BY <1>10

\* The lines of a text without a Return, with the newlines between them, are a
\* beginning of it: what is missing is at most the last newline.
LEMMA JoinedLines ==
    ASSUME NEW text, text \in Seq(Chars), ~Occurs(text, <<Return>>)
    PROVE  \E l \in 0..Len(text) : /\ Joined(Lines(text)) \in Seq(Chars)
                                   /\ Len(Joined(Lines(text))) = l
                                   /\ \A i \in 1..l : Joined(Lines(text))[i] = text[i]
<1> DEFINE L == Len(text)
           lines == Lines(text)
<1>1. PICK m, from, to, end : Parts(text, m, from, to, end)
  BY LinesAreParts
<1> DEFINE part == [k \in DOMAIN lines |-> IF k = Len(lines) THEN lines[k] ELSE Append(lines[k], NewLine)]
<1>r. \A i \in 1..L : text[i] # Return
  <2> SUFFICES ASSUME NEW i \in 1..L, text[i] = Return PROVE Occurs(text, <<Return>>)
    OBVIOUS
  <2> DEFINE u == <<Return>>
  <2>1. Len(u) = 1 /\ u[1] = Return
    OBVIOUS
  <2> HIDE DEF u
  <2>2. \A j \in 1..1 : i + j - 1 = i /\ j = 1
    OBVIOUS
  <2>3. MatchAt(text, i, u)
    BY <2>1, <2>2 DEF MatchAt
  <2> QED
    BY <2>3 DEF Occurs, u
<1>p. /\ m \in Nat
      /\ lines = [k \in 1..m |-> SubSeq(text, from[k], end[k])]
      /\ \A k \in 1..m : end[k] = to[k] \/ (to[k] >= from[k] /\ text[to[k]] = Return)
      /\ \A k \in 1..m : from[k] \in 1..L /\ to[k] \in from[k] - 1..L
      /\ m >= 1 => from[1] = 1
      /\ \A k \in 1..m : k < m => from[k + 1] = to[k] + 2 /\ text[to[k] + 1] = NewLine
  BY <1>1 DEF Parts
<1>q. \A k \in 1..m : end[k] = to[k]
  <2> SUFFICES ASSUME NEW k \in 1..m, to[k] >= from[k], text[to[k]] = Return PROVE FALSE
    BY <1>p
  <2>1. to[k] \in 1..L
    BY <1>p
  <2> QED
    BY <1>r, <2>1
<1>2. /\ m \in Nat
      /\ lines = [k \in 1..m |-> SubSeq(text, from[k], to[k])]
      /\ \A k \in 1..m : from[k] \in 1..L /\ to[k] \in from[k] - 1..L
      /\ m >= 1 => from[1] = 1
      /\ \A k \in 1..m : k < m => from[k + 1] = to[k] + 2 /\ text[to[k] + 1] = NewLine
  <2>1. lines = [k \in 1..m |-> SubSeq(text, from[k], end[k])]
    BY <1>p
  <2> HIDE DEF lines
  <2> QED
    BY <1>p, <1>q, <2>1
<1>3. Joined(lines) = FlattenSeq(part)
  BY DEF Joined
<1> HIDE DEF lines
<1>4. DOMAIN lines = 1..m /\ Len(lines) = m
  BY <1>2
<1>5. part = [k \in 1..m |-> IF k = m THEN lines[k] ELSE Append(lines[k], NewLine)]
  BY <1>4
<1> HIDE DEF part
<1>6. DOMAIN part = 1..m /\ Len(part) = m
  BY <1>2, <1>5
<1> DEFINE stop(k) == IF k = m THEN to[k] ELSE to[k] + 1
           Begins(s, e) == s \in Seq(Chars) /\ Len(s) = e /\ \A i \in 1..e : s[i] = text[i]
<1>7. ASSUME NEW k \in 1..m
      PROVE  /\ part[k] \in Seq(Chars) /\ Len(part[k]) = stop(k) - from[k] + 1
             /\ \A i \in 1..stop(k) - from[k] + 1 : part[k][i] = text[from[k] + i - 1]
             /\ stop(k) \in 0..L /\ stop(k) >= from[k] - 1
  <2> DEFINE a == from[k]
             b == to[k]
             s == SubSeq(text, a, b)
  <2>1. a \in Nat /\ a >= 1 /\ a <= L /\ b \in Int /\ b >= a - 1 /\ b <= L /\ L \in Nat
    BY <1>2
  <2> HIDE DEF a, b
  <2>2. /\ s \in Seq(Chars) /\ Len(s) = b - a + 1
        /\ \A i \in 1..b - a + 1 : s[i] = text[a + i - 1]
    BY <2>1
  <2>3. lines[k] = s
    BY <1>2 DEF a, b
  <2> HIDE DEF s
  <2>4. CASE k = m
    <3>1. part[k] = s /\ stop(k) = b
      BY <1>5, <2>3, <2>4 DEF b
    <3> HIDE DEF stop
    <3> QED
      BY <2>1, <2>2, <3>1 DEF a
  <2>5. CASE k # m
    <3>1. part[k] = Append(s, NewLine) /\ stop(k) = b + 1
      BY <1>5, <2>3, <2>5 DEF b
    <3>2. k < m
      BY <1>2, <2>5
    <3>3. text[b + 1] = NewLine /\ b + 2 <= L
      <4>1. k + 1 \in 1..m
        BY <1>2, <3>2
      <4>2. from[k + 1] \in 1..L /\ from[k + 1] = b + 2
        BY <1>2, <3>2, <4>1 DEF b
      <4> QED
        BY <1>2, <3>2, <4>2, <2>1 DEF b
    <3>4. NewLine \in Chars
      BY LineEndAssumption
    <3> DEFINE p == Append(s, NewLine)
    <3>5. /\ p \in Seq(Chars) /\ Len(p) = b - a + 2
          /\ \A i \in 1..b - a + 1 : p[i] = s[i]
          /\ p[b - a + 2] = NewLine
      BY <2>1, <2>2, <3>4
    <3> HIDE DEF p
    <3>6. ASSUME NEW i \in 1..b - a + 2 PROVE p[i] = text[a + i - 1]
      <4>1. CASE i = b - a + 2
        <5>1. a + i - 1 = b + 1
          BY <2>1, <4>1
        <5> QED
          BY <3>3, <3>5, <4>1, <5>1
      <4>2. CASE i # b - a + 2
        <5>1. i \in 1..b - a + 1
          BY <2>1, <4>2
        <5> QED
          BY <2>2, <3>5, <5>1
      <4> QED
        BY <4>1, <4>2
    <3>7. part[k] = p
      BY <3>1 DEF p
    <3>8. (b + 1) - a + 1 = b - a + 2
      BY <2>1
    <3>9. b + 1 \in 0..L /\ b + 1 >= a - 1
      BY <2>1, <3>3
    <3> HIDE DEF stop
    <3> QED
      BY <3>1, <3>5, <3>6, <3>7, <3>8, <3>9 DEF a
  <2> QED
    BY <2>4, <2>5
<1> HIDE DEF stop
<1>8. CASE m = 0
  <2>1. FlattenSeq(part) = part
    BY <1>6, <1>8 DEF FlattenSeq
  <2>2. part = <<>>
    BY <1>5, <1>8
  <2>3. Joined(lines) = <<>>
    BY <1>3, <2>1, <2>2
  <2>4. 0 \in 0..L /\ <<>> \in Seq(Chars) /\ Len(<<>>) = 0
    OBVIOUS
  <2> QED
    BY <2>3, <2>4 DEF lines
<1>9. CASE m >= 1
  <2>1. PICK f : Flattens(f, part)
    BY <1>2, <1>6, <1>9, FlattenSteps
  <2>2. /\ f[1] = part[1]
        /\ f[m] = Joined(lines)
        /\ \A k \in 2..m : f[k] = f[k - 1] \o part[k]
    BY <1>3, <1>6, <2>1 DEF Flattens
  <2> DEFINE G == {k \in Nat : k + 1 <= m => Begins(f[k + 1], stop(k + 1))}
  <2>3. 0 \in G
    <3>1. 1 \in 1..m /\ from[1] = 1
      BY <1>2, <1>9
    <3>2. /\ part[1] \in Seq(Chars) /\ Len(part[1]) = stop(1)
          /\ \A i \in 1..stop(1) : part[1][i] = text[i]
      BY <1>7, <3>1
    <3> QED
      BY <2>2, <3>2
  <2>4. ASSUME NEW k \in Nat, k \in G PROVE k + 1 \in G
    <3> DEFINE p == k + 1
               q == k + 2
    <3> SUFFICES ASSUME q <= m PROVE Begins(f[q], stop(q))
      OBVIOUS
    <3>1. p \in 1..m /\ q \in 2..m /\ q \in 1..m /\ q - 1 = p /\ p < m /\ p + 1 = q
      BY <1>2
    <3>2. Begins(f[p], stop(p))
      <4> HIDE DEF Begins
      <4> QED
        BY <1>2, <2>4
    <3> HIDE DEF p, q
    <3>3. f[q] = f[p] \o part[q]
      BY <2>2, <3>1
    <3>4. from[q] = stop(p) + 1
      <4>1. from[q] = to[p] + 2 /\ stop(p) = to[p] + 1
        BY <1>2, <3>1 DEF stop
      <4>2. to[p] \in Int
        BY <1>2, <3>1
      <4> QED
        BY <4>1, <4>2
    <3> DEFINE s == f[p]
               t == part[q]
               a == stop(p)
               b == stop(q)
    <3>5. s \in Seq(Chars) /\ Len(s) = a /\ \A i \in 1..a : s[i] = text[i]
      BY <3>2
    <3>6. /\ t \in Seq(Chars) /\ Len(t) = b - from[q] + 1
          /\ \A i \in 1..b - from[q] + 1 : t[i] = text[from[q] + i - 1]
          /\ a \in Nat /\ b \in Nat /\ b >= from[q] - 1
      BY <1>7, <3>1
    <3> HIDE DEF s, t, a, b
    <3>7. /\ Len(t) = b - a /\ b >= a /\ \A i \in 1..b - a : t[i] = text[a + i]
      <4>1. from[q] = a + 1
        BY <3>4 DEF a
      <4>2. b - from[q] + 1 = b - a
        BY <3>6, <4>1
      <4>3. \A i \in 1..b - a : from[q] + i - 1 = a + i
        BY <3>6, <4>1
      <4> QED
        BY <3>6, <4>1, <4>2, <4>3
    <3> DEFINE r == s \o t
    <3>8. /\ r \in Seq(Chars) /\ Len(r) = b
          /\ \A i \in 1..a : r[i] = s[i]
          /\ \A i \in a + 1..b : r[i] = t[i - a]
      <4>1. s \in Seq(Chars) /\ t \in Seq(Chars) /\ Len(s) = a /\ Len(t) = b - a
            /\ a \in Nat /\ b \in Nat
        BY <3>5, <3>6, <3>7
      <4>2. r \in Seq(Chars) /\ Len(r) = b
        BY ONLY <4>1
      <4>3. \A i \in 1..a : r[i] = s[i]
        BY ONLY <4>1
      <4>4. \A i \in a + 1..b : r[i] = t[i - a]
        BY ONLY <4>1
      <4> QED
        BY <4>2, <4>3, <4>4
    <3> HIDE DEF r
    <3>9. ASSUME NEW i \in 1..b PROVE r[i] = text[i]
      <4>1. CASE i \in 1..a
        BY <3>5, <3>8, <4>1
      <4>2. CASE i \notin 1..a
        <5>1. i \in a + 1..b /\ i - a \in 1..b - a /\ a + (i - a) = i
          BY <3>6, <4>2
        <5> QED
          BY <3>7, <3>8, <5>1
      <4> QED
        BY <4>1, <4>2
    <3>10. f[q] = r
      BY <3>3 DEF r, s, t
    <3>11. Begins(r, b)
      BY <3>8, <3>9
    <3> HIDE DEF Begins
    <3> QED
      BY <3>10, <3>11 DEF b
  <2>5. Nat \subseteq G
    <3>1. \A k \in Nat : k \in G => k + 1 \in G
      BY <2>4
    <3> HIDE DEF G
    <3> QED
      BY <2>3, <3>1, NumberInduction
  <2>6. Begins(f[m], stop(m))
    <3> DEFINE k == m - 1
    <3>1. k \in Nat /\ k + 1 = m
      BY <1>2, <1>9
    <3>2. k \in G
      <4> HIDE DEF G, k
      <4> QED
        BY <2>5, <3>1
    <3>3. k + 1 <= m => Begins(f[k + 1], stop(k + 1))
      <4> HIDE DEF Begins, k
      <4> QED
        BY <3>2
    <3>4. k + 1 <= m
      BY <1>2, <3>1
    <3> HIDE DEF Begins, k
    <3> QED
      BY <3>1, <3>3, <3>4
  <2>7. stop(m) \in 0..L
    <3>1. m \in 1..m
      BY <1>2, <1>9
    <3> QED
      BY <1>7, <3>1
  <2> QED
    BY <2>2, <2>6, <2>7 DEF lines
<1> QED
  BY <1>2, <1>8, <1>9

\* So a log file with every Return in it holds no value that the text it was made
\* from did not.
LEMMA LinesShowNoMore ==
    ASSUME NEW text, text \in Seq(Chars), NEW v, v \in Seq(Chars), Len(v) >= 1,
           ~Occurs(text, <<Return>>), Occurs(Joined(Lines(text)), v)
    PROVE  Occurs(text, v)
<1> DEFINE J == Joined(Lines(text))
           n == Len(v)
<1>1. PICK l \in 0..Len(text) : J \in Seq(Chars) /\ Len(J) = l /\ \A i \in 1..l : J[i] = text[i]
  BY JoinedLines
<1>2. PICK i \in 1..Len(J) : MatchAt(J, i, v)
  BY DEF Occurs
<1> HIDE DEF J
<1>3. Len(text) \in Nat /\ n \in Nat /\ l \in Nat /\ l <= Len(text) /\ n >= 1
  OBVIOUS
<1>4. i + n <= l + 1 /\ \A j \in 1..n : J[i + j - 1] = v[j]
  BY <1>1, <1>2 DEF MatchAt
<1>5. i \in 1..l
  BY <1>1
<1> HIDE DEF n
<1>6. \A j \in 1..n : i + j - 1 \in 1..l
  BY <1>3, <1>4, <1>5
<1>7. \A j \in 1..n : text[i + j - 1] = v[j]
  BY <1>1, <1>4, <1>6
<1>8. MatchAt(text, i, v) /\ i \in 1..Len(text)
  BY <1>3, <1>4, <1>5, <1>7 DEF MatchAt, n
<1> QED
  BY <1>8 DEF Occurs

-----------------------------------------------------------------------------
(* What is recorded *)

\* Values are texts.
Texts == /\ content \in [Declared -> Contents \cup {Missing}]
         /\ \A n \in DOMAIN cache : cache[n] \in Seq(Chars)

LEMMA TextsHold == ASSUME IInv, Texts, [Next]_vars PROVE Texts'
<1>1. ASSUME NEW n \in Declared, NEW c \in Contents \cup {Missing}, Rewrite(n, c) PROVE Texts'
  BY <1>1 DEF Texts, Rewrite
<1>2. CASE Restart
  <2>1. PICK c \in [Declared \ Files -> Contents] :
          content' = [n \in Declared |-> IF n \in Files THEN content[n] ELSE c[n]]
    BY <1>2 DEF Restart
  <2>2. \A n \in Declared : (IF n \in Files THEN content[n] ELSE c[n]) \in Contents \cup {Missing}
    BY DEF Texts
  <2>3. UNCHANGED cache
    BY <1>2 DEF Restart
  <2> QED
    BY <2>1, <2>2, <2>3 DEF Texts
<1>3. ASSUME NEW n \in Names, ResolveFetched(n) PROVE Texts'
  <2>1. /\ n \notin DOMAIN cache /\ n \in Declared /\ content[n] # Missing
        /\ cache' = Put(cache, n, Reveal(n)) /\ UNCHANGED content
    BY <1>3 DEF ResolveFetched, Answers, Remembered
  <2>2. content[n] \in Seq(Chars)
    BY <2>1, ContentsAssumption DEF Texts
  <2>3. Reveal(n) \in Seq(Chars)
    <3> DEFINE c == content[n]
    <3>1. c \in Seq(Chars)
      BY <2>2
    <3> HIDE DEF c
    <3>2. c # <<>> => SubSeq(c, 1, Len(c) - 1) \in Seq(Chars)
      BY <3>1
    <3> QED
      BY <3>1, <3>2 DEF Reveal, Front, c
  <2> QED
    BY <2>1, <2>3 DEF Texts, Put
<1>4. CASE NextRun
  BY <1>4 DEF NextRun, FreshRegistry, NoSecrets, Texts
<1>5. ASSUME UNCHANGED <<content, cache>> PROVE Texts'
  BY <1>5 DEF Texts
<1> QED
  BY <1>1, <1>2, <1>3, <1>4, <1>5
     DEF Next, Server, Die, Script, ResolveCached, ResolveFails, Command, StartSh, FinishSh,
         SpawnFails, EndRun, vars

LEMMA HiddenIsRevealed ==
    ASSUME IInv, Texts
    PROVE  /\ Hidden = {revealed[n] : n \in DOMAIN revealed}
           /\ DOMAIN revealed \subseteq Names
           /\ \A n \in DOMAIN revealed : revealed[n] \in Seq(Chars) /\ Len(revealed[n]) >= 1
<1>1. \A n \in DOMAIN revealed :
        n \in DOMAIN cache /\ Len(cache[n]) >= MinLength /\ revealed[n] = cache[n]
  BY DEF IInv, RevealedIsCached
<1>2. \A n \in DOMAIN cache : Len(cache[n]) >= MinLength =>
        n \in DOMAIN revealed /\ revealed[n] = cache[n]
  BY DEF IInv, RevealedIsCached
<1>3. UNION {given[n] : n \in Names} = {cache[n] : n \in DOMAIN cache}
  BY DEF IInv, GivenIsCached
<1>4. Hidden = {revealed[n] : n \in DOMAIN revealed}
  BY <1>1, <1>2, <1>3 DEF Hidden
<1>5. DOMAIN revealed \subseteq Names
  BY <1>1 DEF IInv, GivenIsCached
<1>6. ASSUME NEW n \in DOMAIN revealed PROVE revealed[n] \in Seq(Chars) /\ Len(revealed[n]) >= 1
  <2>1. revealed[n] \in Seq(Chars) /\ Len(revealed[n]) >= MinLength
    BY <1>1 DEF Texts
  <2>2. Len(revealed[n]) \in Nat
    BY <2>1
  <2> QED
    BY <2>1, <2>2, MinLengthAssumption
<1> QED
  BY <1>4, <1>5, <1>6

\* The markers in use are those of the values that are redacted.
LEMMA ForeignIsClear ==
    ASSUME IInv, NEW w, Foreign(w) PROVE Clear(w, revealed)
<1> SUFFICES ASSUME NEW m \in DOMAIN revealed PROVE Apart(w, Marker(m))
  BY DEF Clear
<1>1. m \in DOMAIN cache /\ Len(cache[m]) >= MinLength
  BY DEF IInv, RevealedIsCached
<1>2. m \in Names /\ given[m] = {cache[m]}
  BY <1>1 DEF IInv, GivenIsCached
<1>3. Marker(m) \in Masks
  BY <1>1, <1>2 DEF Masks
<1> QED
  BY <1>3 DEF Foreign

LEMMA EmptyShowsNothing ==
    ASSUME NEW v
    PROVE  ~Occurs(<<>>, v) /\ DOMAIN <<>> = {} /\ ~Occurs(Joined(<<>>), v)
<1> DEFINE part == [k \in DOMAIN <<>> |->
                      IF k = Len(<<>>) THEN <<>>[k] ELSE Append(<<>>[k], NewLine)]
<1>1. Len(<<>>) = 0 /\ part = <<>> /\ DOMAIN <<>> = {}
  OBVIOUS
<1>2. Joined(<<>>) = FlattenSeq(part)
  BY DEF Joined
<1>3. Joined(<<>>) = <<>>
  BY <1>1, <1>2 DEF FlattenSeq
<1>4. ~Occurs(<<>>, v)
  BY <1>1 DEF Occurs
<1> QED
  BY <1>1, <1>3, <1>4

\* What a log file made from text shows of v.
ClearLog(lines, text, v) ==
    /\ \A k \in DOMAIN lines : ~Occurs(lines[k], v)
    /\ Foreign(<<Return>>) /\ ~Occurs(text, <<Return>>) => ~Occurs(Joined(lines), v)

\* A text of the script, redacted with the values revealed so far.
LEMMA RedactedIsClear ==
    ASSUME IInv, Texts, NEW text, text \in Seq(Chars), NEW v \in Hidden, Foreign(v)
    PROVE  ~Occurs(Redact(text, revealed), v) /\ ClearLog(Logged(text, revealed), text, v)
<1>1. PICK n \in DOMAIN revealed : v = revealed[n]
  BY HiddenIsRevealed
<1> DEFINE r == Redact(text, revealed)
           u == <<Return>>
<1>2. /\ DOMAIN revealed \subseteq Names
      /\ \A m \in DOMAIN revealed : revealed[m] \in Seq(Chars) /\ Len(revealed[m]) >= 1
  BY HiddenIsRevealed
<1>3. v \in Seq(Chars) /\ Len(v) >= 1 /\ u \in Seq(Chars) /\ Len(u) >= 1
  BY <1>1, <1>2, LineEndAssumption
<1>4. /\ r \in Seq(Chars)
      /\ \A w \in Seq(Chars) : Len(w) >= 1 /\ Clear(w, revealed) /\ Occurs(r, w) => Occurs(text, w)
      /\ \A m \in DOMAIN revealed : Clear(revealed[m], revealed) => ~Occurs(r, revealed[m])
  BY <1>2, RedactHides
<1> HIDE DEF r, u
<1>5. ~Occurs(r, v)
  BY <1>1, <1>4, ForeignIsClear
<1>6. \A k \in DOMAIN Lines(r) : ~Occurs(Lines(r)[k], v)
  BY <1>3, <1>4, <1>5, LineShowsNoMore
<1>7. ASSUME Foreign(u), ~Occurs(text, u) PROVE ~Occurs(Joined(Lines(r)), v)
  <2>1. ~Occurs(r, u)
    BY <1>3, <1>4, <1>7, ForeignIsClear
  <2> QED
    BY <1>3, <1>4, <1>5, <2>1, LinesShowNoMore DEF u
<1> QED
  BY <1>5, <1>6, <1>7 DEF Logged, ClearLog, r, u

LEMMA StepNothingInClear ==
    ASSUME IInv, Texts, NothingInClear, [Next]_vars
    PROVE  NothingInClear'
<1>1. ASSUME Quiet PROVE NothingInClear'
  <2>1. shown'.cmd = <<>> /\ \A s \in Streams : shown'[s] = <<>>
    BY <1>1 DEF Quiet, NoLogs, Streams
  <2> QED
    BY <2>1, EmptyShowsNothing DEF NothingInClear
<1>f. ASSUME UNCHANGED given PROVE Hidden' = Hidden /\ \A w : Foreign(w)' <=> Foreign(w)
  <2>1. Hidden' = Hidden /\ Masks' = Masks
    BY <1>f DEF Hidden, Masks
  <2> QED
    BY <2>1 DEF Foreign
<1>2. ASSUME NEW cmd \in Commands, StartSh(cmd) PROVE NothingInClear'
  <2>1. /\ shown'.cmd = Redact(cmd, revealed)
        /\ \A s \in Streams : shown'[s] = <<>>
        /\ UNCHANGED given
    BY <1>2 DEF StartSh, NoLogs, Streams
  <2>2. cmd \in Seq(Chars)
    BY TextsAssumption
  <2>3. \A v \in Hidden : Foreign(v) => ~Occurs(Redact(cmd, revealed), v)
    BY <2>2, RedactedIsClear
  <2>4. Hidden' = Hidden /\ \A w : Foreign(w)' <=> Foreign(w)
    BY <1>f, <2>1
  <2> QED
    BY <2>1, <2>3, <2>4, EmptyShowsNothing DEF NothingInClear
<1>3. ASSUME NEW out \in Outputs, FinishSh(out) PROVE NothingInClear'
  <2>1. /\ shown'.cmd = <<>>
        /\ shown'["stdout"] = Logged(out.stdout, revealed) /\ raw'["stdout"] = out.stdout
        /\ shown'["stderr"] = Logged(out.stderr, revealed) /\ raw'["stderr"] = out.stderr
        /\ UNCHANGED given
    BY <1>3 DEF FinishSh, Nothing
  <2>2. out.stdout \in Seq(Chars) /\ out.stderr \in Seq(Chars)
    BY TextsAssumption
  <2>3. \A v \in Hidden : Foreign(v) =>
          /\ ClearLog(Logged(out.stdout, revealed), out.stdout, v)
          /\ ClearLog(Logged(out.stderr, revealed), out.stderr, v)
    BY <2>2, RedactedIsClear
  <2>4. Hidden' = Hidden /\ \A w : Foreign(w)' <=> Foreign(w)
    BY <1>f, <2>1
  <2>5. \A v \in Hidden : Foreign(v) => \A s \in Streams : ClearLog(shown'[s], raw'[s], v)
    BY <2>1, <2>3 DEF Streams
  <2>6. \A v : ~Occurs(shown'.cmd, v)
    BY <2>1, EmptyShowsNothing
  <2> QED
    BY <2>4, <2>5, <2>6 DEF NothingInClear, ClearLog
<1>4. CASE UNCHANGED vars
  BY <1>4 DEF NothingInClear, Hidden, Foreign, Masks, vars
<1> QED
  BY <1>1, <1>2, <1>3, <1>4
     DEF Next, Server, Rewrite, Die, Restart, Script, ResolveCached, ResolveFetched, ResolveFails,
         Command, SpawnFails, EndRun, NextRun

\* Nothing recorded after a value was given to the script shows it, in the command
\* line or in the log file of a stream, for texts, names and values of any length, and
\* whatever other values they overlap with; unless a marker in use meets the value, or,
\* where it spans lines, write_cri_log cuts a Return off them.
THEOREM NoSecretIsShown == Spec => []NothingInClear
<1>1. Init => IInv
  BY EmptyRegistry DEF Init
<1>2. Init => Texts
  <2>1. [Declared -> Contents] \subseteq [Declared -> Contents \cup {Missing}]
    OBVIOUS
  <2> QED
    BY <2>1 DEF Init, Texts, NoSecrets
<1>3. Init => NothingInClear
  BY EmptyShowsNothing DEF Init, NothingInClear, NoLogs, Streams
<1> QED
  BY <1>1, <1>2, <1>3, StepIInv, TextsHold, StepNothingInClear, PTL DEF Spec

-----------------------------------------------------------------------------
(* Masking *)

\* s ends as t does: they differ in the first d symbols of s.
EndsAs(s, t, d) ==
    /\ s \in Seq(Chars) /\ t \in Seq(Chars)
    /\ d \in Nat /\ Len(s) = Len(t) + d
    /\ \A i \in 1..Len(t) : s[i + d] = t[i]

\* Texts that end alike are replaced alike there.
LEMMA SameRest ==
    ASSUME NEW s, NEW t, NEW d, NEW value, NEW mark, NEW f, NEW h,
           EndsAs(s, t, d), value \in Seq(Chars), Len(value) >= 1,
           Replaces(f, s, value, mark), Replaces(h, t, value, mark)
    PROVE  f[d + 1] = Replace(t, value, mark)
<1> DEFINE L == Len(t)
           n == Len(value)
           Hit(i) == MatchAt(t, i, value)
<1>e. /\ s \in Seq(Chars) /\ t \in Seq(Chars)
      /\ d \in Nat /\ Len(s) = Len(t) + d
      /\ \A i \in 1..Len(t) : s[i + d] = t[i]
  BY DEF EndsAs
<1>1. L \in Nat /\ n \in Nat /\ n >= 1 /\ d \in Nat /\ Len(s) = L + d
  BY <1>e
<1>2. \A i \in 1..L : Hit(i) <=> MatchAt(s, i + d, value)
  <2> SUFFICES ASSUME NEW i \in 1..L PROVE Hit(i) <=> MatchAt(s, i + d, value)
    OBVIOUS
  <2>1. i + n <= L + 1 <=> i + d + n <= Len(s) + 1
    BY <1>1
  <2>2. ASSUME i + n <= L + 1, NEW j \in 1..n PROVE t[i + j - 1] = s[i + d + j - 1]
    <3> DEFINE p == i + j - 1
    <3>1. p \in 1..L /\ p + d = i + d + j - 1
      BY <1>1, <2>2
    <3> HIDE DEF p
    <3>2. s[p + d] = t[p]
      BY <1>e, <3>1
    <3> QED
      BY <3>1, <3>2 DEF p
  <2> QED
    BY <2>1, <2>2 DEF MatchAt
<1>3. \A i \in 1..L : Hit(i) => i + n <= L + 1
  BY DEF MatchAt
<1>4. /\ f[L + d + 1] = <<>>
      /\ \A i \in 1..L : /\ MatchAt(s, i + d, value) => f[i + d] = mark \o f[i + d + n]
                         /\ ~MatchAt(s, i + d, value) => f[i + d] = <<s[i + d]>> \o f[i + d + 1]
  <2>1. \A i \in 1..L : i + d \in 1..Len(s)
    BY <1>1
  <2> QED
    BY <1>1, <2>1 DEF Replaces
<1>5. /\ Replace(t, value, mark) = h[1]
      /\ h[L + 1] = <<>>
      /\ \A i \in 1..L : /\ Hit(i) => h[i] = mark \o h[i + n]
                         /\ ~Hit(i) => h[i] = <<t[i]>> \o h[i + 1]
  BY DEF Replaces
<1>6. \A i \in 1..L : s[i + d] = t[i]
  BY <1>e
<1> HIDE DEF L, n, Hit
<1> DEFINE H == {k \in Nat : \A i \in 1..L + 1 : i > L - k => f[i + d] = h[i]}
<1>7. 0 \in H
  <2>1. \A i \in 1..L + 1 : i > L - 0 => i = L + 1
    BY <1>1
  <2>2. L + 1 + d = L + d + 1
    BY <1>1
  <2> QED
    BY <1>4, <1>5, <2>1, <2>2
<1>8. ASSUME NEW k \in Nat, k \in H PROVE k + 1 \in H
  <2> SUFFICES ASSUME NEW i \in 1..L + 1, i > L - (k + 1) PROVE f[i + d] = h[i]
    OBVIOUS
  <2>1. CASE i = L + 1
    <3>1. L + 1 + d = L + d + 1
      BY <1>1
    <3> QED
      BY <1>4, <1>5, <2>1, <3>1
  <2>2. CASE i \in 1..L /\ Hit(i)
    <3>1. i + n \in 1..L + 1 /\ i + n > L - k /\ (i + n) + d = i + d + n
      BY <1>1, <1>3, <2>2
    <3>2. f[i + d + n] = h[i + n]
      BY <1>8, <3>1
    <3>3. f[i + d] = mark \o f[i + d + n] /\ h[i] = mark \o h[i + n]
      BY <1>2, <1>4, <1>5, <2>2
    <3> QED
      BY <3>2, <3>3
  <2>3. CASE i \in 1..L /\ ~Hit(i)
    <3>1. i + 1 \in 1..L + 1 /\ i + 1 > L - k /\ (i + 1) + d = i + d + 1
      BY <1>1, <2>3
    <3>2. f[i + d + 1] = h[i + 1]
      BY <1>8, <3>1
    <3>3. f[i + d] = <<s[i + d]>> \o f[i + d + 1] /\ h[i] = <<t[i]>> \o h[i + 1]
      BY <1>2, <1>4, <1>5, <2>3
    <3>4. s[i + d] = t[i]
      BY <1>6, <2>3
    <3> QED
      BY <3>2, <3>3, <3>4
  <2> QED
    BY <1>1, <2>1, <2>2, <2>3
<1>9. Nat \subseteq H
  <2>1. \A k \in Nat : k \in H => k + 1 \in H
    BY <1>8
  <2> HIDE DEF H
  <2> QED
    BY <1>7, <2>1, NumberInduction
<1>10. f[1 + d] = h[1]
  <2>1. L + 1 \in Nat /\ 1 > L - (L + 1) /\ 1 \in 1..L + 1
    BY <1>1
  <2>2. L + 1 \in H
    <3> HIDE DEF H
    <3> QED
      BY <1>9, <2>1
  <2> QED
    BY <2>1, <2>2
<1>11. 1 + d = d + 1
  BY <1>1
<1> QED
  BY <1>5, <1>10, <1>11

LEMMA ReplaceEmpty ==
    ASSUME NEW value, NEW mark, value \in Seq(Chars), Len(value) >= 1, mark \in Marks
    PROVE  Replace(<<>>, value, mark) = <<>>
<1>1. <<>> \in Seq(Chars) /\ Len(<<>>) + 1 = 1
  OBVIOUS
<1>2. PICK f : Replaces(f, <<>>, value, mark)
  BY <1>1, ReplaceScans
<1>3. f[Len(<<>>) + 1] = <<>> /\ Replace(<<>>, value, mark) = f[1]
  BY <1>2 DEF Replaces
<1> QED
  BY <1>1, <1>3

\* Where the value does not stand in front, the first symbol stays ...
LEMMA ReplaceBehind ==
    ASSUME NEW x, NEW t, NEW value, NEW mark,
           x \in Chars, t \in Seq(Chars), value \in Seq(Chars), Len(value) >= 1, mark \in Marks,
           ~MatchAt(<<x>> \o t, 1, value)
    PROVE  Replace(<<x>> \o t, value, mark) = <<x>> \o Replace(t, value, mark)
<1> DEFINE s == <<x>> \o t
<1>1. /\ s \in Seq(Chars) /\ Len(s) = Len(t) + 1 /\ s[1] = x
      /\ \A i \in 1..Len(t) : s[i + 1] = t[i]
  OBVIOUS
<1>2. ~MatchAt(s, 1, value)
  OBVIOUS
<1> HIDE DEF s
<1>3. PICK f : Replaces(f, s, value, mark)
  BY <1>1, ReplaceScans
<1>4. PICK h : Replaces(h, t, value, mark)
  BY ReplaceScans
<1>5. 1 \in 1..Len(s) /\ 1 \in Nat
  BY <1>1
<1>6. Replace(s, value, mark) = f[1] /\ f[1] = <<s[1]>> \o f[1 + 1]
  BY <1>2, <1>3, <1>5 DEF Replaces
<1>7. f[1 + 1] = Replace(t, value, mark)
  <2> DEFINE d == 1
  <2>1. EndsAs(s, t, d)
    BY <1>1 DEF EndsAs
  <2> HIDE DEF d
  <2>2. f[d + 1] = Replace(t, value, mark)
    BY <1>3, <1>4, <2>1, SameRest
  <2> QED
    BY <2>2 DEF d
<1> QED
  BY <1>1, <1>6, <1>7 DEF s

\* ... and where it does, it gives way to the marker.
LEMMA ReplaceInFront ==
    ASSUME NEW s, NEW t, NEW value, NEW mark,
           s \in Seq(Chars), t \in Seq(Chars), value \in Seq(Chars), Len(value) >= 1, mark \in Marks,
           Len(s) = Len(t) + Len(value), \A i \in 1..Len(t) : s[i + Len(value)] = t[i],
           MatchAt(s, 1, value)
    PROVE  Replace(s, value, mark) = mark \o Replace(t, value, mark)
<1> DEFINE n == Len(value)
<1>1. n \in Nat /\ n >= 1 /\ 1 \in 1..Len(s) /\ 1 + n = n + 1
  OBVIOUS
<1>2. PICK f : Replaces(f, s, value, mark)
  BY ReplaceScans
<1>3. PICK h : Replaces(h, t, value, mark)
  BY ReplaceScans
<1>4. Replace(s, value, mark) = f[1] /\ f[1] = mark \o f[1 + n]
  BY <1>1, <1>2 DEF Replaces
<1>5. f[n + 1] = Replace(t, value, mark)
  <2>1. EndsAs(s, t, n)
    BY DEF EndsAs
  <2> HIDE DEF n
  <2> QED
    BY <1>2, <1>3, <2>1, SameRest
<1> QED
  BY <1>1, <1>4, <1>5

\* A text that the value does not begin in stays.
LEMMA ReplacePast ==
    ASSUME NEW a \in Seq(Chars), NEW t \in Seq(Chars), NEW value, NEW mark,
           value \in Seq(Chars), Len(value) >= 1, mark \in Marks, ~Meets(a, value)
    PROVE  Replace(a \o t, value, mark) = a \o Replace(t, value, mark)
<1> DEFINE R(x) == Replace(x, value, mark)
           Stays(x) == R(x \o t) = x \o R(t)
           H == {e \in Nat : \A x \in Seq(Chars) : Len(x) = e /\ ~Meets(x, value) => Stays(x)}
<1>1. R(t) \in Seq(Chars)
  BY ReplaceHides
<1> HIDE DEF R
<1>2. 0 \in H
  <2> SUFFICES ASSUME NEW x \in Seq(Chars), Len(x) = 0 PROVE Stays(x)
    OBVIOUS
  <2>1. x = <<>>
    OBVIOUS
  <2>2. <<>> \o t = t /\ <<>> \o R(t) = R(t)
    BY <1>1, ConcatEmptySeq
  <2> QED
    BY <2>1, <2>2
<1>3. ASSUME NEW e \in Nat, e \in H PROVE e + 1 \in H
  <2> SUFFICES ASSUME NEW x \in Seq(Chars), Len(x) = e + 1, ~Meets(x, value) PROVE Stays(x)
    <3> HIDE DEF Stays
    <3> QED
      OBVIOUS
  <2> DEFINE h == x[1]
             y == Tail(x)
  <2>1. h \in Chars /\ y \in Seq(Chars) /\ Len(y) = e /\ x = <<h>> \o y
    OBVIOUS
  <2>2. ~Meets(y, value)
    BY TailMeets
  <2>3. ~MatchAt(x \o t, 1, value)
    <3> SUFFICES ASSUME MatchAt(x \o t, 1, value) PROVE Meets(x, value)
      OBVIOUS
    <3> DEFINE z == x \o t
    <3>1. \A j \in 1..Len(x) : z[j] = x[j]
      OBVIOUS
    <3>2. \A j \in 1..Len(value) : z[1 + j - 1] = value[j]
      BY DEF MatchAt
    <3> HIDE DEF z
    <3>3. ASSUME NEW j \in 1..Len(value), 1 + j - 1 <= Len(x) PROVE x[1 + j - 1] = value[j]
      <4>1. 1 + j - 1 \in 1..Len(x)
        BY <3>3
      <4> QED
        BY <3>1, <3>2, <4>1
    <3>4. 1 \in 1..Len(x)
      OBVIOUS
    <3> QED
      BY <3>3, <3>4 DEF Meets
  <2> DEFINE z == x \o t
             u == y \o t
  <2>4. /\ z \in Seq(Chars) /\ u \in Seq(Chars) /\ Len(z) = Len(u) + 1 /\ z[1] = h
        /\ \A i \in 1..Len(u) : z[i + 1] = u[i]
    <3>1. Len(z) = Len(x) + Len(t) /\ Len(u) = Len(y) + Len(t) /\ Len(x) = Len(y) + 1
      <4>1. y \in Seq(Chars) /\ Len(x) = Len(y) + 1
        BY <2>1
      <4> HIDE DEF y
      <4>2. Len(x \o t) = Len(x) + Len(t)
        <5>1. x \in Seq(Chars) /\ t \in Seq(Chars)
          OBVIOUS
        <5> QED
          BY ONLY <5>1, SMT
      <4>3. Len(y \o t) = Len(y) + Len(t)
        BY <4>1
      <4> QED
        BY <4>1, <4>2, <4>3
    <3> HIDE DEF h, y
    <3>2. \A i \in 1..Len(y) : x[i + 1] = y[i]
      BY <2>1
    <3>3. ASSUME NEW i \in 1..Len(u) PROVE z[i + 1] = u[i]
      <4>1. CASE i <= Len(y)
        <5>1. i \in 1..Len(y) /\ i + 1 \in 1..Len(x)
          BY <2>1, <3>1, <4>1
        <5> QED
          BY <2>1, <3>2, <5>1
      <4>2. CASE i > Len(y)
        <5>1. z[i + 1] = t[i + 1 - Len(x)] /\ u[i] = t[i - Len(y)]
          BY <2>1, <3>1, <4>2
        <5>2. i + 1 - Len(x) = i - Len(y)
          BY <2>1, <3>1
        <5> QED
          BY <5>1, <5>2
      <4> QED
        BY <2>1, <3>1, <4>1, <4>2
    <3>4. x[1] = h /\ z[1] = x[1]
      BY <2>1
    <3> QED
      BY <2>1, <3>1, <3>3, <3>4
  <2>5. ~MatchAt(z, 1, value)
    BY <2>3
  <2> HIDE DEF h, y, z, u
  <2>6. R(z) = <<h>> \o R(u)
    <3>1. PICK f : Replaces(f, z, value, mark)
      BY <2>4, ReplaceScans
    <3>2. PICK g : Replaces(g, u, value, mark)
      BY <2>4, ReplaceScans
    <3>3. 1 \in 1..Len(z) /\ 1 \in Nat
      BY <2>4
    <3>4. Replace(z, value, mark) = f[1] /\ f[1] = <<z[1]>> \o f[1 + 1]
      BY <2>5, <3>1, <3>3 DEF Replaces
    <3>5. f[1 + 1] = Replace(u, value, mark)
      <4> DEFINE d == 1
      <4>1. EndsAs(z, u, d)
        BY <2>4 DEF EndsAs
      <4> HIDE DEF d
      <4>2. f[d + 1] = Replace(u, value, mark)
        BY <2>4, <3>1, <3>2, <4>1, SameRest
      <4> QED
        BY <4>2 DEF d
    <3> QED
      BY <2>4, <3>4, <3>5 DEF R
  <2>7. R(u) = y \o R(t)
    <3>1. Stays(y)
      <4> HIDE DEF Stays
      <4> QED
        BY <1>3, <2>1, <2>2
    <3> QED
      BY <3>1 DEF u
  <2>8. x \o R(t) = <<h>> \o (y \o R(t))
    <3> DEFINE o == <<h>>
    <3>1. o \in Seq(Chars) /\ x = o \o y
      BY <2>1
    <3> HIDE DEF o
    <3>2. (o \o y) \o R(t) = o \o (y \o R(t))
      <4> DEFINE w == R(t)
      <4>1. o \in Seq(Chars) /\ y \in Seq(Chars) /\ w \in Seq(Chars)
        BY <1>1, <2>1, <3>1
      <4> HIDE DEF w
      <4>2. (o \o y) \o w = o \o (y \o w)
        BY ONLY <4>1, ConcatAssociative
      <4> QED
        BY <4>2 DEF w
    <3> QED
      BY <3>1, <3>2 DEF o
  <2> QED
    BY <2>6, <2>7, <2>8 DEF z
<1>4. Nat \subseteq H
  <2>1. \A e \in Nat : e \in H => e + 1 \in H
    BY <1>3
  <2> HIDE DEF H
  <2> QED
    BY <1>2, <2>1, NumberInduction
<1>5. Len(a) \in H
  <2>1. Len(a) \in Nat
    OBVIOUS
  <2> HIDE DEF H
  <2> QED
    BY <1>4, <2>1
<1> QED
  BY <1>5 DEF R

\* What a text is covered with: the spans to mask start at the positions c.starts
\* and end at c.end; the one at i holds the value c.value[c.nth[i]], the first in
\* the order of the entries, and no two have a character in common.  Wherever an
\* entry's value stands, a span with an earlier one does, or this one itself.  The
\* values are apart from what they are replaced by.
Covers(c) ==
    /\ c.text \in Seq(Chars) /\ c.n \in Nat
    /\ \A k \in 1..c.n : c.value[k] \in Seq(Chars) /\ Len(c.value[k]) >= 1 /\ c.mark[k] \in Marks
    /\ \A j, k \in 1..c.n : Apart(c.value[k], c.mark[j])
    /\ c.starts \subseteq 1..Len(c.text)
    /\ \A i \in c.starts :
         /\ c.end[i] \in i..Len(c.text) /\ c.nth[i] \in 1..c.n
         /\ MatchAt(c.text, i, c.value[c.nth[i]])
         /\ c.end[i] = i + Len(c.value[c.nth[i]]) - 1
    /\ \A i, j \in c.starts : i < j => c.end[i] < j
    /\ \A p \in 1..Len(c.text) : \A k \in 1..c.n : MatchAt(c.text, p, c.value[k]) =>
         \E i \in c.starts : /\ i <= p /\ p <= c.end[i]
                             /\ c.nth[i] < k \/ (c.nth[i] = k /\ i = p)

MaskedBy(i, k, c) == i \in c.starts /\ c.nth[i] <= k

\* M maps each position to the rest of the text where the spans of the first k
\* entries are masked.
IsMask(M, k, c) ==
    /\ M \in [1..Len(c.text) + 1 -> Seq(Chars)]
    /\ M[Len(c.text) + 1] = <<>>
    /\ \A i \in 1..Len(c.text) :
         /\ MaskedBy(i, k, c) => M[i] = c.mark[c.nth[i]] \o M[c.end[i] + 1]
         /\ ~MaskedBy(i, k, c) => M[i] = <<c.text[i]>> \o M[i + 1]

\* No masked span starts at the d positions from i on.
Unmasked(i, d, k, c) ==
    /\ i \in 1..Len(c.text) + 1 /\ d \in Nat /\ i + d <= Len(c.text) + 1
    /\ \A j \in i..i + d - 1 : ~MaskedBy(j, k, c)

\* Where no masked span starts, the text is copied.
LEMMA MaskCopies ==
    ASSUME NEW c, Covers(c), NEW k, NEW M, IsMask(M, k, c),
           NEW i, NEW d, Unmasked(i, d, k, c)
    PROVE  EndsAs(M[i], M[i + d], d) /\ \A x \in 1..d : M[i][x] = c.text[i + x - 1]
<1> DEFINE text == c.text
           L == Len(text)
           Copied(p, e) == EndsAs(M[p], M[p + e], e) /\ \A x \in 1..e : M[p][x] = text[p + x - 1]
           Plain(p, e) == \A j \in p..p + e - 1 : ~MaskedBy(j, k, c)
           H == {e \in Nat : \A p \in 1..L + 1 : p + e <= L + 1 /\ Plain(p, e) => Copied(p, e)}
<1>1. L \in Nat /\ \A p \in 1..L : text[p] \in Chars
  BY DEF Covers, Marks
<1>2. /\ M \in [1..L + 1 -> Seq(Chars)]
      /\ \A p \in 1..L : ~MaskedBy(p, k, c) => M[p] = <<text[p]>> \o M[p + 1]
  BY DEF IsMask
<1>3. d \in Nat /\ Plain(i, d) /\ i \in 1..L + 1 /\ i + d <= L + 1
  BY DEF Unmasked
<1> HIDE DEF text, L
<1>4. 0 \in H
  <2> SUFFICES ASSUME NEW p \in 1..L + 1 PROVE Copied(p, 0)
    OBVIOUS
  <2> DEFINE s == M[p]
  <2>1. s \in Seq(Chars) /\ p + 0 = p
    BY <1>2
  <2> HIDE DEF s
  <2>2. EndsAs(s, s, 0)
    BY <2>1 DEF EndsAs
  <2> QED
    BY <2>1, <2>2 DEF s
<1>5. ASSUME NEW e \in Nat, e \in H PROVE e + 1 \in H
  <2> SUFFICES ASSUME NEW p \in 1..L + 1, p + (e + 1) <= L + 1, Plain(p, e + 1)
               PROVE  Copied(p, e + 1)
    OBVIOUS
  <2>1. p \in 1..L /\ p + 1 \in 1..L + 1 /\ (p + 1) + e <= L + 1 /\ (p + 1) + e = p + (e + 1)
    BY <1>1
  <2>2. ~MaskedBy(p, k, c) /\ Plain(p + 1, e)
    <3>1. p \in p..p + (e + 1) - 1
      BY <2>1
    <3>2. \A j \in p + 1..(p + 1) + e - 1 : j \in p..p + (e + 1) - 1
      BY <2>1
    <3> QED
      BY <3>1, <3>2
  <2>3. Copied(p + 1, e)
    <3> HIDE DEF Plain, Copied
    <3> QED
      BY <1>5, <2>1, <2>2
  <2> DEFINE s == M[p]
             t == M[p + 1]
             u == M[p + (e + 1)]
             x == text[p]
  <2>4. s = <<x>> \o t
    BY <1>2, <2>1, <2>2
  <2>5. x \in Chars /\ t \in Seq(Chars)
    BY <1>1, <1>2, <2>1
  <2>6. EndsAs(t, u, e)
    BY <2>1, <2>3
  <2>7. \A y \in 1..e : t[y] = text[p + 1 + y - 1]
    BY <2>3
  <2>8. u \in Seq(Chars) /\ Len(t) = Len(u) + e /\ \A y \in 1..Len(u) : t[y + e] = u[y]
    BY <2>6 DEF EndsAs
  <2> HIDE DEF s, t, u, x
  <2>9. /\ s \in Seq(Chars) /\ Len(s) = Len(t) + 1 /\ s[1] = x
        /\ \A y \in 1..Len(t) : s[y + 1] = t[y]
    BY <2>4, <2>5
  <2>10. EndsAs(s, u, e + 1)
    <3>1. Len(s) = Len(u) + (e + 1) /\ Len(u) \in Nat /\ Len(t) \in Nat
      BY <2>5, <2>8, <2>9
    <3>2. ASSUME NEW y \in 1..Len(u) PROVE s[y + (e + 1)] = u[y]
      <4>1. y + e \in 1..Len(t) /\ (y + e) + 1 = y + (e + 1)
        BY <2>8, <3>1
      <4>2. s[(y + e) + 1] = t[y + e]
        BY <2>9, <4>1
      <4> QED
        BY <2>8, <4>1, <4>2
    <3> QED
      BY <2>8, <2>9, <3>1, <3>2 DEF EndsAs
  <2>11. ASSUME NEW y \in 1..e + 1 PROVE s[y] = text[p + y - 1]
    <3>1. CASE y = 1
      <4>1. p + y - 1 = p
        BY <2>1, <3>1
      <4> QED
        BY <2>9, <3>1, <4>1 DEF x
    <3>2. CASE y # 1
      <4> DEFINE z == y - 1
      <4>1. z \in 1..e /\ z + 1 = y /\ p + 1 + z - 1 = p + y - 1 /\ z \in 1..Len(t)
        BY <2>1, <2>5, <2>8, <3>2
      <4> HIDE DEF z
      <4>2. s[z + 1] = t[z]
        BY <2>9, <4>1
      <4> QED
        BY <2>7, <4>1, <4>2
    <3> QED
      BY <3>1, <3>2
  <2> QED
    BY <2>10, <2>11 DEF s, u
<1>6. Nat \subseteq H
  <2>1. \A e \in Nat : e \in H => e + 1 \in H
    BY <1>5
  <2> HIDE DEF H
  <2> QED
    BY <1>4, <2>1, NumberInduction
<1>7. d \in H
  <2> HIDE DEF H
  <2> QED
    BY <1>3, <1>6
<1>8. Copied(i, d)
  <2> HIDE DEF Copied, Plain
  <2> QED
    BY <1>3, <1>7
<1> QED
  BY <1>8 DEF text

\* What stands in front of a masked text and is none of a marker was copied.
LEMMA MaskShows ==
    ASSUME NEW c, Covers(c), NEW k, NEW M, IsMask(M, k, c),
           NEW i, i \in 1..Len(c.text) + 1, NEW w, w \in Seq(Chars), MatchAt(M[i], 1, w),
           \A j \in 1..c.n : ~Meets(w, c.mark[j])
    PROVE  MatchAt(c.text, i, w) /\ \A j \in i..i + Len(w) - 1 : ~MaskedBy(j, k, c)
<1> DEFINE text == c.text
           L == Len(text)
           Plain(p, v) == \A j \in p..p + Len(v) - 1 : ~MaskedBy(j, k, c)
           Own(v) == \A j \in 1..c.n : ~Meets(v, c.mark[j])
           H == {e \in Nat : \A p \in 1..L + 1 : \A v \in Seq(Chars) :
                   Len(v) = e /\ Own(v) /\ MatchAt(M[p], 1, v) => MatchAt(text, p, v) /\ Plain(p, v)}
<1>1. L \in Nat /\ text \in Seq(Chars) /\ \A p \in 1..L : text[p] \in Chars
  BY DEF Covers, Marks
<1>2. /\ M \in [1..L + 1 -> Seq(Chars)]
      /\ M[L + 1] = <<>>
      /\ \A p \in 1..L :
           /\ MaskedBy(p, k, c) => M[p] = c.mark[c.nth[p]] \o M[c.end[p] + 1]
           /\ ~MaskedBy(p, k, c) => M[p] = <<text[p]>> \o M[p + 1]
  BY DEF IsMask
<1>3. \A p \in 1..L : MaskedBy(p, k, c) =>
        c.nth[p] \in 1..c.n /\ c.mark[c.nth[p]] \in Marks /\ c.end[p] + 1 \in 1..L + 1
  <2> SUFFICES ASSUME NEW p \in 1..L, MaskedBy(p, k, c)
               PROVE  c.nth[p] \in 1..c.n /\ c.mark[c.nth[p]] \in Marks /\ c.end[p] + 1 \in 1..L + 1
    OBVIOUS
  <2>1. p \in c.starts
    BY DEF MaskedBy
  <2>2. c.end[p] \in p..L /\ c.nth[p] \in 1..c.n
    BY <2>1 DEF Covers
  <2>3. c.mark[c.nth[p]] \in Marks
    BY <2>2 DEF Covers
  <2>4. c.end[p] + 1 \in 1..L + 1
    BY <1>1, <2>2
  <2> QED
    BY <2>2, <2>3, <2>4
<1> HIDE DEF text, L
<1>4. \A v \in Seq(Chars) : v \in Seq(Chars) /\ Len(v) \in Nat
  OBVIOUS
<1>5. 0 \in H
  <2> SUFFICES ASSUME NEW p \in 1..L + 1, NEW v \in Seq(Chars), Len(v) = 0
               PROVE  MatchAt(text, p, v) /\ Plain(p, v)
    OBVIOUS
  <2>1. MatchAt(text, p, v)
    BY <1>1 DEF MatchAt, L
  <2>2. p..p + Len(v) - 1 = {}
    BY <1>1
  <2> QED
    BY <2>1, <2>2
<1>6. ASSUME NEW e \in Nat, e \in H PROVE e + 1 \in H
  <2> SUFFICES ASSUME NEW p \in 1..L + 1, NEW v \in Seq(Chars), Len(v) = e + 1, Own(v),
                      MatchAt(M[p], 1, v)
               PROVE  MatchAt(text, p, v) /\ Plain(p, v)
    <3> HIDE DEF Own, Plain
    <3> QED
      OBVIOUS
  <2>1. v[1] \in Chars /\ Len(v) >= 1 /\ v \in Seq(Chars)
    BY <1>4
  <2>2. Tail(v) \in Seq(Chars) /\ Len(Tail(v)) = e
    BY <2>1
  <2>o. Own(Tail(v))
    <3>1. \A j \in 1..c.n : c.mark[j] \in Seq(Chars)
      BY DEF Covers, Marks
    <3> QED
      BY <2>1, <3>1, TailMeets
  <2>3. p # L + 1
    <3> SUFFICES ASSUME p = L + 1 PROVE FALSE
      OBVIOUS
    <3>1. 1 + Len(v) <= Len(<<>>) + 1
      BY <1>2 DEF MatchAt
    <3> QED
      BY <3>1
  <2>4. p \in 1..L
    BY <1>1, <2>3
  <2>5. ~MaskedBy(p, k, c)
    <3> SUFFICES ASSUME MaskedBy(p, k, c) PROVE FALSE
      OBVIOUS
    <3> DEFINE x == c.mark[c.nth[p]]
               t == M[c.end[p] + 1]
    <3>1. M[p] = x \o t /\ x \in Marks
      BY <1>2, <1>3, <2>4
    <3>2. t \in Seq(Chars)
      BY <1>2, <1>3, <2>4
    <3>3. ~Meets(v, x)
      BY <1>3, <2>4
    <3> HIDE DEF x, t, Own
    <3>4. Meets(v, x)
      BY <2>1, <3>1, <3>2, MatchAtMark
    <3> QED
      BY <3>3, <3>4
  <2> DEFINE x == text[p]
             t == M[p + 1]
  <2>6. M[p] = <<x>> \o t /\ x \in Chars
    BY <1>1, <1>2, <2>4, <2>5
  <2>7. p + 1 \in 1..L + 1
    BY <1>1, <2>4
  <2>8. t \in Seq(Chars)
    BY <1>2, <2>7
  <2> HIDE DEF x, t
  <2>9. x = v[1] /\ MatchAt(t, 1, Tail(v))
    BY <2>1, <2>6, <2>8, MatchInFront
  <2>10. MatchAt(text, p + 1, Tail(v)) /\ Plain(p + 1, Tail(v))
    <3> HIDE DEF Plain, Own
    <3> QED
      BY <1>6, <2>2, <2>o, <2>7, <2>9 DEF t
  <2>11. MatchAt(text, p, v)
    <3>1. p \in 1..Len(text) /\ text[p] = v[1]
      BY <2>4, <2>9 DEF x, L
    <3> QED
      BY <1>1, <2>1, <2>10, <3>1, MatchOneOn
  <2>12. Plain(p, v)
    <3>1. \A j \in p..p + Len(v) - 1 : j = p \/ j \in p + 1..p + 1 + Len(Tail(v)) - 1
      BY <2>2, <2>4
    <3> QED
      BY <2>5, <2>10, <3>1
  <2> QED
    BY <2>11, <2>12
<1>7. Nat \subseteq H
  <2>1. \A e \in Nat : e \in H => e + 1 \in H
    BY <1>6
  <2> HIDE DEF H
  <2> QED
    BY <1>5, <2>1, NumberInduction
<1>8. Len(w) \in H
  <2> HIDE DEF H
  <2> QED
    BY <1>4, <1>7
<1>9. MatchAt(text, i, w) /\ Plain(i, w)
  <2>1. i \in 1..L + 1
    BY DEF L, text
  <2>2. Own(w)
    OBVIOUS
  <2> HIDE DEF Plain, Own
  <2> QED
    BY <1>8, <2>1, <2>2
<1> QED
  BY <1>9 DEF text

\* Replacing the next entry's value masks the spans of that entry and nothing else:
\* its other occurrences are inside spans that are masked already.
LEMMA MaskStep ==
    ASSUME NEW c, Covers(c), NEW k, NEW M, NEW N, IsMask(M, k, c), IsMask(N, k + 1, c),
           k \in Nat, k + 1 <= c.n
    PROVE  Replace(M[1], c.value[k + 1], c.mark[k + 1]) = N[1]
<1> DEFINE text == c.text
           L == Len(text)
           v == c.value[k + 1]
           m == c.mark[k + 1]
           n == Len(v)
           B == c.starts
           R(s) == Replace(s, v, m)
           Free(i) == \A j \in B : c.nth[j] <= k + 1 => ~(j < i /\ i <= c.end[j])
           H == {e \in Nat : \A i \in 1..L + 1 : i > L - e /\ Free(i) => R(M[i]) = N[i]}
<1>1. L \in Nat /\ text \in Seq(Chars) /\ k + 1 \in 1..c.n /\ c.n \in Nat
  BY DEF Covers
<1>2. v \in Seq(Chars) /\ n \in Nat /\ n >= 1 /\ m \in Marks
  BY <1>1 DEF Covers
<1>l. v \in Seq(Chars) /\ Len(v) >= 1 /\ m \in Marks
  BY <1>2
<1>a. \A j \in 1..c.n : c.mark[j] \in Marks /\ ~Meets(c.mark[j], v) /\ ~Meets(v, c.mark[j])
  BY <1>1 DEF Covers, Apart
<1>3. \A i \in B : /\ i \in 1..L /\ c.end[i] \in i..L /\ c.nth[i] \in 1..c.n
                   /\ c.end[i] + 1 \in 1..L + 1
  <2> SUFFICES ASSUME NEW i \in B
               PROVE  /\ i \in 1..L /\ c.end[i] \in i..L /\ c.nth[i] \in 1..c.n
                      /\ c.end[i] + 1 \in 1..L + 1
    OBVIOUS
  <2>1. i \in 1..L /\ c.end[i] \in i..L /\ c.nth[i] \in 1..c.n
    BY DEF Covers
  <2>2. c.end[i] + 1 \in 1..L + 1
    BY <1>1, <2>1
  <2> QED
    BY <2>1, <2>2
<1>4. \A i, j \in B : i < j => c.end[i] < j
  BY DEF Covers
<1>5. /\ M \in [1..L + 1 -> Seq(Chars)] /\ N \in [1..L + 1 -> Seq(Chars)]
      /\ M[L + 1] = <<>> /\ N[L + 1] = <<>>
      /\ \A i \in 1..L :
           /\ MaskedBy(i, k, c) => M[i] = c.mark[c.nth[i]] \o M[c.end[i] + 1]
           /\ ~MaskedBy(i, k, c) => M[i] = <<text[i]>> \o M[i + 1]
           /\ MaskedBy(i, k + 1, c) => N[i] = c.mark[c.nth[i]] \o N[c.end[i] + 1]
           /\ ~MaskedBy(i, k + 1, c) => N[i] = <<text[i]>> \o N[i + 1]
  BY DEF IsMask
<1>6. ASSUME NEW i \in B PROVE Free(c.end[i] + 1)
  <2> SUFFICES ASSUME NEW j \in B, j < c.end[i] + 1, c.end[i] + 1 <= c.end[j] PROVE FALSE
    OBVIOUS
  <2>1. i \in Nat /\ j \in Nat /\ c.end[i] \in Nat /\ c.end[j] \in Nat /\ i <= c.end[i]
    BY <1>1, <1>3
  <2>2. CASE j < i
    <3>1. c.end[j] < i
      BY <1>4, <2>2
    <3> QED
      BY <2>1, <3>1
  <2>3. CASE j = i
    BY <2>1, <2>3
  <2>4. CASE i < j
    <3>1. c.end[i] < j
      BY <1>4, <2>4
    <3> QED
      BY <2>1, <3>1
  <2> QED
    BY <2>1, <2>2, <2>3, <2>4
<1> HIDE DEF L, n, v, m
<1>7. 0 \in H
  <2>1. \A i \in 1..L + 1 : i > L - 0 => i = L + 1
    BY <1>1
  <2>2. R(<<>>) = <<>>
    BY <1>2, ReplaceEmpty DEF n
  <2> QED
    BY <1>5, <2>1, <2>2
<1>8. ASSUME NEW e \in Nat, e \in H PROVE e + 1 \in H
  <2> SUFFICES ASSUME NEW i \in 1..L + 1, i > L - (e + 1), Free(i) PROVE R(M[i]) = N[i]
    <3> HIDE DEF R, Free
    <3> QED
      BY <1>1
  <2>1. CASE i = L + 1
    <3>1. R(<<>>) = <<>>
      BY <1>2, ReplaceEmpty DEF n
    <3> QED
      BY <1>5, <2>1, <3>1
  <2>2. CASE i \in 1..L /\ MaskedBy(i, k, c)
    <3> DEFINE x == c.mark[c.nth[i]]
               p == c.end[i] + 1
    <3>1. i \in B /\ c.nth[i] <= k
      BY <2>2 DEF MaskedBy
    <3>2. MaskedBy(i, k + 1, c)
      <4>1. c.nth[i] \in Nat
        BY <1>1, <1>3, <3>1
      <4> QED
        BY <3>1, <4>1 DEF MaskedBy
    <3>3. x \in Marks /\ x \in Seq(Chars) /\ ~Meets(x, v)
      BY <1>a, <1>3, <3>1 DEF Marks
    <3>4. p \in 1..L + 1 /\ p > L - e /\ Free(p)
      <4>1. c.end[i] \in i..L
        BY <1>3, <3>1
      <4>2. p \in 1..L + 1 /\ p > L - e
        BY <1>1, <4>1
      <4> HIDE DEF Free
      <4> QED
        BY <1>6, <3>1, <4>2
    <3>5. M[i] = x \o M[p] /\ N[i] = x \o N[p]
      BY <1>5, <2>2, <3>2
    <3> HIDE DEF x, p
    <3> DEFINE t == M[p]
    <3>6. t \in Seq(Chars)
      BY <1>5, <3>4
    <3>7. R(t) = N[p]
      <4> HIDE DEF Free, R
      <4> QED
        BY <1>8, <3>4
    <3> HIDE DEF t
    <3>8. R(x \o t) = x \o R(t)
      BY ONLY <1>l, <3>3, <3>6, ReplacePast DEF R
    <3> HIDE DEF R
    <3> QED
      BY <3>5, <3>7, <3>8 DEF t
  <2>3. CASE i \in 1..L /\ i \in B /\ c.nth[i] = k + 1
    <3> DEFINE p == c.end[i] + 1
               s == M[i]
               t == M[p]
    <3>1. MatchAt(text, i, v) /\ p = i + n
      <4>1. MatchAt(text, i, c.value[c.nth[i]]) /\ c.end[i] = i + Len(c.value[c.nth[i]]) - 1
        BY <2>3 DEF Covers
      <4> QED
        BY <1>2, <2>3, <4>1 DEF n, v
    <3>2. p \in 1..L + 1 /\ p > L - e /\ i + n <= L + 1
      <4>1. c.end[i] \in i..L
        BY <1>3, <2>3
      <4> QED
        BY <1>1, <3>1, <4>1
    <3>3. Free(p)
      BY <1>6, <2>3
    <3>4. \A j \in i..i + n - 1 : ~MaskedBy(j, k, c)
      <4> SUFFICES ASSUME NEW j \in i..i + n - 1, j \in B, c.nth[j] <= k PROVE FALSE
        BY DEF MaskedBy
      <4>1. j # i
        BY <1>1, <2>3
      <4>2. i < j /\ j <= c.end[i]
        <5>1. c.end[i] \in Nat /\ j \in Nat
          BY <1>1, <1>3, <2>3
        <5> QED
          BY <1>2, <3>1, <4>1, <5>1
      <4>3. c.end[i] < j
        BY <1>4, <2>3, <4>2
      <4>4. c.end[i] \in Nat /\ j \in Nat
        BY <1>1, <1>3, <2>3
      <4> QED
        BY <4>2, <4>3, <4>4
    <3>5. EndsAs(M[i], M[i + n], n) /\ \A x \in 1..n : M[i][x] = text[i + x - 1]
      <4>1. i \in 1..Len(c.text) + 1 /\ n \in Nat /\ i + n <= Len(c.text) + 1
        BY <1>1, <1>2, <2>3, <3>2 DEF L
      <4>2. Unmasked(i, n, k, c)
        BY <3>4, <4>1 DEF Unmasked
      <4> QED
        BY <4>2, MaskCopies
    <3>6. EndsAs(s, t, n) /\ \A x \in 1..n : s[x] = text[i + x - 1]
      BY <3>1, <3>5
    <3>7. R(t) = N[p]
      <4> HIDE DEF Free, R, p, t
      <4>1. R(M[p]) = N[p]
        BY <1>8, <3>2, <3>3
      <4> QED
        BY <4>1 DEF t
    <3>8. N[i] = m \o N[p]
      <4>1. MaskedBy(i, k + 1, c)
        BY <1>1, <2>3 DEF MaskedBy
      <4> QED
        BY <1>5, <2>3, <4>1 DEF m
    <3> HIDE DEF s, t, p
    <3>9. /\ s \in Seq(Chars) /\ t \in Seq(Chars) /\ Len(s) = Len(t) + n
          /\ \A y \in 1..Len(t) : s[y + n] = t[y]
      BY <3>6 DEF EndsAs
    <3>10. MatchAt(s, 1, v)
      <4>1. \A x \in 1..n : text[i + x - 1] = v[x]
        BY <3>1 DEF MatchAt, n
      <4>2. \A x \in 1..n : 1 + x - 1 = x
        BY <1>2
      <4>3. 1 + n <= Len(s) + 1
        BY <1>2, <3>9
      <4> QED
        BY <3>6, <4>1, <4>2, <4>3 DEF MatchAt, n
    <3>11. R(s) = m \o R(t)
      <4>1. /\ s \in Seq(Chars) /\ t \in Seq(Chars) /\ Len(s) = Len(t) + Len(v)
            /\ \A y \in 1..Len(t) : s[y + Len(v)] = t[y]
        BY <3>9 DEF n
      <4>2. Replace(s, v, m) = m \o Replace(t, v, m)
        BY ONLY <1>l, <3>10, <4>1, ReplaceInFront
      <4> QED
        BY <4>2
    <3> HIDE DEF R
    <3> QED
      BY <3>7, <3>8, <3>11 DEF s
  <2>4. CASE i \in 1..L /\ ~MaskedBy(i, k, c) /\ ~(i \in B /\ c.nth[i] = k + 1)
    <3> DEFINE x == text[i]
               t == M[i + 1]
    <3>1. ~MaskedBy(i, k + 1, c)
      <4> SUFFICES ASSUME i \in B, c.nth[i] <= k + 1 PROVE FALSE
        BY DEF MaskedBy
      <4>1. c.nth[i] \in Nat
        BY <1>1, <1>3
      <4>2. ~(c.nth[i] <= k)
        BY <2>4 DEF MaskedBy
      <4> QED
        BY <2>4, <4>1, <4>2
    <3>2. M[i] = <<x>> \o t /\ N[i] = <<x>> \o N[i + 1]
      BY <1>5, <2>4, <3>1
    <3>3. i + 1 \in 1..L + 1 /\ i + 1 > L - e
      BY <1>1, <2>4
    <3>4. Free(i + 1)
      <4> SUFFICES ASSUME NEW j \in B, c.nth[j] <= k + 1, j < i + 1, i + 1 <= c.end[j] PROVE FALSE
        OBVIOUS
      <4>1. j # i
        BY <3>1 DEF MaskedBy
      <4>2. j \in Nat /\ c.end[j] \in Nat
        BY <1>1, <1>3
      <4>3. j < i /\ i <= c.end[j]
        BY <4>1, <4>2, <2>4
      <4> QED
        BY <4>3
    <3>5. x \in Chars /\ t \in Seq(Chars)
      <4>1. x \in Chars
        BY <1>1, <2>4 DEF L
      <4> QED
        BY <1>5, <3>3, <4>1
    <3>6. ~MatchAt(M[i], 1, v)
      <4> SUFFICES ASSUME MatchAt(M[i], 1, v) PROVE FALSE
        OBVIOUS
      <4>1. MatchAt(text, i, v)
        <5>1. i \in 1..Len(c.text) + 1
          BY DEF L
        <5> QED
          BY <1>2, <1>a, <5>1, MaskShows
      <4>2. PICK j \in B : /\ j <= i /\ i <= c.end[j]
                           /\ c.nth[j] < k + 1 \/ (c.nth[j] = k + 1 /\ j = i)
        BY <1>1, <2>4, <4>1 DEF Covers, v, L
      <4>3. j \in Nat /\ c.nth[j] \in Nat /\ i \in Nat
        BY <1>1, <1>3, <2>4
      <4>4. c.nth[j] <= k + 1
        BY <4>2, <4>3
      <4>5. j = i
        BY <4>2, <4>3, <4>4
      <4>6. c.nth[i] <= k
        BY <2>4, <4>2, <4>3, <4>5
      <4> QED
        BY <2>4, <4>5, <4>6 DEF MaskedBy
    <3>7. R(t) = N[i + 1]
      <4>1. R(M[i + 1]) = N[i + 1]
        <5> HIDE DEF Free, R
        <5> QED
          BY <1>8, <3>3, <3>4
      <4> QED
        BY <4>1
    <3> HIDE DEF x, t
    <3>8. R(<<x>> \o t) = <<x>> \o R(t)
      <4>1. ~MatchAt(<<x>> \o t, 1, v)
        BY <3>2, <3>6
      <4> QED
        BY ONLY <1>l, <3>5, <4>1, ReplaceBehind DEF R
    <3> HIDE DEF R
    <3> QED
      BY <3>2, <3>7, <3>8
  <2>5. MaskedBy(i, k, c) \/ (i \in B /\ c.nth[i] = k + 1) \/
          (~MaskedBy(i, k, c) /\ ~(i \in B /\ c.nth[i] = k + 1))
    OBVIOUS
  <2>6. i = L + 1 \/ i \in 1..L
    BY <1>1
  <2> HIDE DEF R
  <2> QED
    BY <2>1, <2>2, <2>3, <2>4, <2>5, <2>6
<1>9. Nat \subseteq H
  <2>1. \A e \in Nat : e \in H => e + 1 \in H
    BY <1>8
  <2> HIDE DEF H
  <2> QED
    BY <1>7, <2>1, NumberInduction
<1>10. Free(1)
  <2> SUFFICES ASSUME NEW j \in B, j < 1 PROVE FALSE
    OBVIOUS
  <2>1. j \in 1..L
    BY <1>3
  <2> QED
    BY <1>1, <2>1
<1>11. R(M[1]) = N[1]
  <2>1. L + 1 \in Nat /\ 1 > L - (L + 1) /\ 1 \in 1..L + 1
    BY <1>1
  <2>2. L + 1 \in H
    <3> HIDE DEF H
    <3> QED
      BY <1>9, <2>1
  <2> HIDE DEF Free, R
  <2> QED
    BY <1>10, <2>1, <2>2
<1> QED
  BY <1>11 DEF v, m

LEMMA MaskExists ==
    ASSUME NEW c, Covers(c), NEW k
    PROVE  \E M : IsMask(M, k, c)
<1> DEFINE C == {i \in c.starts : c.nth[i] <= k}
           mk == [i \in c.starts |-> c.mark[c.nth[i]]]
           en == c.end
           text == c.text
<1>1. Spanned(text, C, mk, en)
  <2>1. text \in Seq(Chars) /\ C \subseteq 1..Len(text)
    BY DEF Covers, Marks
  <2>2. ASSUME NEW i \in C PROVE mk[i] \in Marks /\ en[i] \in i..Len(text)
    <3>1. i \in c.starts /\ c.end[i] \in i..Len(text) /\ c.nth[i] \in 1..c.n
      BY DEF Covers
    <3>2. c.mark[c.nth[i]] \in Marks
      BY <3>1 DEF Covers
    <3> QED
      BY <3>1, <3>2
  <2> HIDE DEF C, mk, en, text
  <2> QED
    BY <2>1, <2>2 DEF Spanned
<1>2. \A i : i \in C <=> MaskedBy(i, k, c)
  BY DEF MaskedBy
<1>3. \A i \in C : mk[i] = c.mark[c.nth[i]]
  OBVIOUS
<1> HIDE DEF C, mk
<1>4. PICK M : IsScan(M, text, C, mk, en)
  BY <1>1, ScanExists
<1>5. Scans(M, text, C, mk, en)
  BY <1>1, <1>4, ScanSteps
<1>6. IsMask(M, k, c)
  BY <1>2, <1>3, <1>5 DEF IsMask, Scans
<1> QED
  BY <1>6

\* c is covered with the values and names that the redactor goes through.
OfEntries(c, values) ==
    /\ c.n = Len(Entries(values))
    /\ \A k \in 1..c.n : /\ c.mark[k] = Marker(Entries(values)[k])
                         /\ c.value[k] = values[Entries(values)[k]]

\* Going through the entries masks every span.
LEMMA RedactMasks ==
    ASSUME NEW c, NEW values, NEW N, Covers(c), OfEntries(c, values), IsMask(N, c.n, c),
           DOMAIN values \subseteq Names, \A n \in DOMAIN values : values[n] \in Seq(Chars)
    PROVE  Redact(c.text, values) = N[1]
<1> DEFINE text == c.text
           n == c.n
           L == Len(text)
<1>1. PICK g : Redacts(g, text, values)
  BY RedactSteps
<1>2. /\ n \in Nat /\ L \in Nat /\ text \in Seq(Chars)
      /\ \A i \in c.starts : c.nth[i] >= 1
  BY DEF Covers
<1>3. g[0] = text /\ g[n] = Redact(text, values)
  BY <1>1 DEF Redacts, OfEntries
<1>4. \A k \in 1..n : g[k] = Replace(g[k - 1], c.value[k], c.mark[k])
  BY <1>1 DEF Redacts, OfEntries
<1> DEFINE Done(k) == \A M : IsMask(M, k, c) => g[k] = M[1]
           H == {k \in Nat : k <= n => Done(k)}
<1>5. 0 \in H
  <2>1. ASSUME NEW M, IsMask(M, 0, c) PROVE text = M[1]
    <3>1. Unmasked(1, L, 0, c)
      <4>1. \A j : ~MaskedBy(j, 0, c)
        <5>1. \A j \in c.starts : c.nth[j] \in 1..c.n
          BY DEF Covers
        <5> QED
          BY <1>2, <5>1 DEF MaskedBy
      <4> QED
        BY <1>2, <4>1 DEF Unmasked
    <3>2. EndsAs(M[1], M[1 + L], L) /\ \A x \in 1..L : M[1][x] = text[1 + x - 1]
      BY <2>1, <3>1, MaskCopies
    <3> DEFINE s == M[1]
    <3>3. M[1 + L] = <<>>
      BY <1>2, <2>1 DEF IsMask
    <3>4. s \in Seq(Chars) /\ Len(s) = Len(<<>>) + L
      BY <3>2, <3>3 DEF EndsAs
    <3>5. \A x \in 1..L : s[x] = text[x]
      BY <1>2, <3>2
    <3> HIDE DEF s
    <3>6. Len(s) = L
      BY <1>2, <3>4
    <3>7. text \in Seq(Chars) /\ Len(text) = L
      BY <1>2
    <3> HIDE DEF text, L
    <3>8. s = text
      BY <3>4, <3>5, <3>6, <3>7
    <3> QED
      BY <3>8 DEF s
  <2>2. Done(0)
    BY <1>3, <2>1
  <2> HIDE DEF Done
  <2> QED
    BY <2>2
<1>6. ASSUME NEW k \in Nat, k \in H PROVE k + 1 \in H
  <2> SUFFICES ASSUME k + 1 <= n, NEW N1, IsMask(N1, k + 1, c) PROVE g[k + 1] = N1[1]
    <3> HIDE DEF n
    <3> QED
      OBVIOUS
  <2>1. PICK M : IsMask(M, k, c)
    BY MaskExists
  <2>2. g[k] = M[1]
    <3>1. k <= n
      BY <1>2
    <3> HIDE DEF n
    <3> QED
      BY <1>6, <2>1, <3>1
  <2>3. k + 1 \in 1..n /\ (k + 1) - 1 = k
    BY <1>2
  <2>4. g[k + 1] = Replace(g[k], c.value[k + 1], c.mark[k + 1])
    BY <1>4, <2>3
  <2>5. Replace(M[1], c.value[k + 1], c.mark[k + 1]) = N1[1]
    BY <2>1, MaskStep
  <2> QED
    BY <2>2, <2>4, <2>5
<1>7. Nat \subseteq H
  <2>1. \A k \in Nat : k \in H => k + 1 \in H
    BY <1>6
  <2> HIDE DEF H
  <2> QED
    BY <1>5, <2>1, NumberInduction
<1>8. n \in H /\ n <= n
  <2> HIDE DEF H, n
  <2> QED
    BY <1>2, <1>7
<1>9. Done(n)
  <2> HIDE DEF Done
  <2> QED
    BY <1>8
<1>10. IsMask(N, n, c)
  OBVIOUS
<1> HIDE DEF n, text
<1> QED
  BY <1>3, <1>9, <1>10 DEF text

LEMMA RankIsNumber == \A n \in Names : Rank(n) \in Nat
<1>1. /\ NameOrder \in Seq(Names)
      /\ \A n \in Names : \E i \in DOMAIN NameOrder : NameOrder[i] = n
  BY NamesAssumption DEF Names, Range
<1> QED
  BY <1>1 DEF Rank

\* An occurrence has a name to mark it with, the first of those of its value.
LEMMA MarkIsFirst ==
    ASSUME NEW values, DOMAIN values \subseteq Names, NEW s, NEW text,
           NEW n, n \in DOMAIN values, IsOf(n, s, text, values)
    PROVE  /\ MarkOf(s, text, values) \in DOMAIN values
           /\ IsOf(MarkOf(s, text, values), s, text, values)
           /\ \A m \in DOMAIN values :
                IsOf(m, s, text, values) => Rank(MarkOf(s, text, values)) <= Rank(m)
<1> DEFINE D == DOMAIN values
           Of(m) == IsOf(m, s, text, values)
           R == {Rank(m) : m \in {d \in D : Of(d)}}
<1> HIDE DEF Of
<1>1. R \in SUBSET Nat /\ R # {}
  BY RankIsNumber DEF Of
<1>2. PICK r \in R : \A y \in R : r <= y
  <2> HIDE DEF R
  <2> QED
    BY <1>1, LeastNumber
<1>3. PICK f \in D : Of(f) /\ r = Rank(f)
  BY <1>2
<1>4. \A m \in D : Of(m) => Rank(f) <= Rank(m)
  BY <1>2, <1>3
<1> DEFINE First(x) == Of(x) /\ \A m \in D : Of(m) => Rank(x) <= Rank(m)
<1>5. MarkOf(s, text, values) = CHOOSE x \in D : First(x)
  BY DEF MarkOf, Of
<1>6. First(f)
  BY <1>3, <1>4
<1>7. MarkOf(s, text, values) \in D /\ First(MarkOf(s, text, values))
  <2> HIDE DEF First, D
  <2> QED
    BY <1>5, <1>6
<1> QED
  BY <1>7 DEF Of

\* Every occurrence is inside an outermost one.
LEMMA OutermostAround ==
    ASSUME NEW text, NEW values, text \in Seq(Chars), NEW s \in Spans(text, values)
    PROVE  \E t \in Outermost(text, values) : t[1] <= s[1] /\ s[2] <= t[2]
<1> DEFINE L == Len(text)
           P == Spans(text, values)
           Around(t) == t[1] <= s[1] /\ s[2] <= t[2]
           Out(t) == L + t[1] - t[2]
           B == {Out(t) : t \in {u \in P : Around(u)}}
<1>1. L \in Nat /\ \A t \in P : t[1] \in 1..L /\ t[2] \in 1..L /\ t = <<t[1], t[2]>>
  BY DEF Spans
<1> HIDE DEF L, P
<1>2. B \in SUBSET Nat
  <2>1. \A t \in P : Out(t) \in Nat
    BY <1>1
  <2> QED
    BY <2>1
<1>3. s \in P /\ Around(s)
  BY <1>1 DEF P
<1>4. B # {}
  BY <1>3
<1>5. PICK b \in B : \A y \in B : b <= y
  <2> HIDE DEF B
  <2> QED
    BY <1>2, <1>4, LeastNumber
<1>6. PICK t \in P : Around(t) /\ b = Out(t)
  BY <1>5
<1>7. ASSUME NEW u \in P, u # t, u[1] <= t[1], t[2] <= u[2] PROVE FALSE
  <2>1. /\ u[1] \in Nat /\ u[2] \in Nat /\ t[1] \in Nat /\ t[2] \in Nat
        /\ s[1] \in Nat /\ s[2] \in Nat
    BY <1>1, <1>3
  <2>2. Around(u)
    BY <1>6, <1>7, <2>1
  <2>3. Out(t) <= Out(u)
    <3>1. Out(u) \in B
      BY <2>2
    <3> HIDE DEF B, Out
    <3> QED
      BY <1>5, <1>6, <3>1
  <2>4. u[1] = t[1] /\ u[2] = t[2]
    <3> DEFINE a == t[1]
               b2 == t[2]
               x == u[1]
               y == u[2]
    <3>1. L + a - b2 <= L + x - y /\ x <= a /\ b2 <= y
      BY <1>7, <2>3
    <3>2. a \in Nat /\ b2 \in Nat /\ x \in Nat /\ y \in Nat /\ L \in Nat
      BY <1>1, <2>1
    <3> HIDE DEF a, b2, x, y
    <3>3. x = a /\ y = b2
      BY <3>1, <3>2
    <3> QED
      BY <3>3 DEF a, b2, x, y
  <2>5. u = <<u[1], u[2]>> /\ t = <<t[1], t[2]>>
    BY <1>1
  <2> QED
    BY <1>7, <2>4, <2>5
<1>8. t \in Outermost(text, values)
  BY <1>6, <1>7 DEF Outermost, P
<1> QED
  BY <1>6, <1>8

\* In a text whose outermost occurrences are apart, these are what it is covered
\* with, and masking them all is what Masked says.
LEMMA MaskedCovers ==
    ASSUME NEW text, NEW values, text \in Seq(Chars), Separate(text, values),
           DOMAIN values \subseteq Names,
           \A n \in DOMAIN values : values[n] \in Seq(Chars),
           \A n \in DOMAIN values : Len(values[n]) >= 1 /\ Clear(values[n], values)
    PROVE  \E c, N : /\ Covers(c) /\ OfEntries(c, values) /\ c.text = text
                     /\ IsMask(N, c.n, c) /\ Masked(text, values) = N[1]
<1> DEFINE E == Entries(values)
           n == Len(E)
           L == Len(text)
           D == DOMAIN values
           Out == Outermost(text, values)
           at(i) == CHOOSE s \in Out : s[1] = i
           Mark(s) == MarkOf(s, text, values)
           Of(m, s) == IsOf(m, s, text, values)
           B == {s[1] : s \in Out}
           Nth(s) == CHOOSE k \in 1..n : E[k] = Mark(s)
           end == [i \in B |-> at(i)[2]]
           nth == [i \in B |-> Nth(at(i))]
           val == [k \in 1..n |-> values[E[k]]]
           put == [k \in 1..n |-> Marker(E[k])]
<1>1. L \in Nat
  OBVIOUS
<1>2. /\ E \in Seq(D)
      /\ \A m \in D : \E k \in 1..n : E[k] = m
      /\ \A i, k \in 1..n : i < k => Precedes(values, E[i], E[k])
  BY EntriesAreAll
<1>3. n \in Nat /\ (\A k \in 1..n : E[k] \in D) /\ DOMAIN E = 1..n
  <2> HIDE DEF E, D
  <2> QED
    BY <1>2
<1>4. \A m \in D : Len(values[m]) \in Nat /\ Len(values[m]) >= 1 /\ values[m] \in Seq(Chars) /\ Rank(m) \in Nat
  BY RankIsNumber
<1>5. \A s \in Out : /\ s \in Spans(text, values) /\ s[1] \in 1..L /\ s[2] \in 1..L
                     /\ \E m \in D : Of(m, s)
  BY DEF Outermost, Spans
<1>6. \A s \in Out : /\ Mark(s) \in D /\ Of(Mark(s), s)
                     /\ \A m \in D : Of(m, s) => Rank(Mark(s)) <= Rank(m)
  <2> SUFFICES ASSUME NEW s \in Out
               PROVE  /\ Mark(s) \in D /\ Of(Mark(s), s)
                      /\ \A m \in D : Of(m, s) => Rank(Mark(s)) <= Rank(m)
    OBVIOUS
  <2>1. PICK m \in D : Of(m, s)
    BY <1>5
  <2> QED
    BY <2>1, MarkIsFirst
<1>7. \A s, t \in Out : s = t \/ s[2] < t[1] \/ t[2] < s[1]
  BY DEF Separate
<1>8. ASSUME NEW p \in 1..L, NEW m \in D, MatchAt(text, p, values[m])
      PROVE  \E t \in Out : t[1] <= p /\ p + Len(values[m]) - 1 <= t[2]
  <2> DEFINE q == p + Len(values[m]) - 1
             s == <<p, q>>
  <2>1. p + Len(values[m]) <= L + 1
    BY <1>8 DEF MatchAt
  <2>2. q \in 1..L
    BY <1>1, <1>4, <2>1
  <2>3. s[1] = p /\ s[2] = q /\ s \in (1..L) \X (1..L)
    BY <2>2
  <2> HIDE DEF s
  <2>4. IsOf(m, s, text, values)
    BY <1>8, <2>3 DEF IsOf
  <2>5. s \in Spans(text, values)
    BY <2>3, <2>4 DEF Spans
  <2>6. PICK t \in Out : t[1] <= s[1] /\ s[2] <= t[2]
    BY <2>5, OutermostAround
  <2> QED
    BY <2>3, <2>6
<1>9. \A i : (\E s \in Out : s[1] = i) <=> i \in B
  OBVIOUS
<1>10. \A m, s : Of(m, s) <=> MatchAt(text, s[1], values[m]) /\ s[2] = s[1] + Len(values[m]) - 1
  BY DEF IsOf
<1>m. /\ Masked(text, values) =
           LET from[i \in 1..L + 1] ==
                 IF i > L THEN <<>>
                 ELSE IF \E s \in Out : s[1] = i
                      THEN Marker(Mark(at(i))) \o from[at(i)[2] + 1]
                      ELSE <<text[i]>> \o from[i + 1]
           IN  from[1]
  BY DEF Masked
<1> HIDE DEF E, L, D, Out, Mark, Of
<1>11. \A s \in Out : Nth(s) \in 1..n /\ E[Nth(s)] = Mark(s)
  BY <1>2, <1>6
<1> HIDE DEF Nth, n
<1>12. ASSUME NEW i \in B
       PROVE  /\ at(i) \in Out /\ at(i)[1] = i
              /\ end[i] = at(i)[2] /\ nth[i] = Nth(at(i)) /\ nth[i] \in 1..n
  <2>1. \E s \in Out : s[1] = i
    OBVIOUS
  <2>2. at(i) \in Out /\ at(i)[1] = i
    <3> HIDE DEF B
    <3> QED
      BY <2>1
  <2> HIDE DEF at, B
  <2> QED
    BY <1>11, <2>2
<1> DEFINE c == [text |-> text, n |-> n, value |-> val, mark |-> put,
                 starts |-> B, end |-> end, nth |-> nth]
<1>13. /\ c.text = text /\ c.n = n /\ c.value = val /\ c.mark = put
       /\ c.starts = B /\ c.end = end /\ c.nth = nth
  OBVIOUS
<1> HIDE DEF at
<1>14. \A k \in 1..n : val[k] = values[E[k]] /\ put[k] = Marker(E[k])
  OBVIOUS
<1> HIDE DEF val, put, end, nth, c, B
<1>15. ASSUME NEW i \in B
       PROVE  /\ i \in 1..L /\ end[i] \in i..L /\ nth[i] \in 1..n
              /\ E[nth[i]] = Mark(at(i)) /\ MatchAt(text, i, val[nth[i]])
              /\ end[i] = i + Len(val[nth[i]]) - 1
  <2> DEFINE s == at(i)
             m == Mark(s)
             l == Len(values[m])
  <2>1. s \in Out /\ s[1] = i /\ end[i] = s[2] /\ nth[i] = Nth(s) /\ nth[i] \in 1..n
    BY <1>12
  <2>2. i \in 1..L /\ s[2] \in 1..L /\ m \in D /\ Of(m, s)
    BY <1>5, <1>6, <2>1
  <2>3. E[nth[i]] = m
    BY <1>11, <2>1
  <2>4. val[nth[i]] = values[m]
    BY <1>14, <2>1, <2>3
  <2> HIDE DEF s, m
  <2>5. MatchAt(text, i, values[m]) /\ end[i] = i + l - 1
    BY <1>10, <2>1, <2>2
  <2>6. l \in Nat /\ l >= 1
    BY <1>4, <2>2
  <2>7. end[i] \in 1..L
    BY <2>1, <2>2
  <2> HIDE DEF l
  <2>8. end[i] \in i..L
    BY <1>1, <2>2, <2>5, <2>6, <2>7
  <2> QED
    BY <2>1, <2>2, <2>3, <2>4, <2>5, <2>8 DEF l, m, s
<1>16. ASSUME NEW i \in B, NEW j \in B, i < j PROVE end[i] < j
  <2>1. at(i) \in Out /\ at(j) \in Out /\ at(i)[1] = i /\ at(j)[1] = j
        /\ end[i] = at(i)[2] /\ end[j] = at(j)[2]
    BY <1>12
  <2>2. i \in Nat /\ j \in Nat /\ end[j] \in j..L
    BY <1>15
  <2>3. at(i) # at(j)
    BY <1>16, <2>1, <2>2
  <2>4. end[i] < j \/ end[j] < i
    BY <1>7, <2>1, <2>3
  <2> QED
    BY <1>1, <1>16, <2>2, <2>4
<1>17. ASSUME NEW p \in 1..L, NEW k \in 1..n, MatchAt(text, p, val[k])
       PROVE  \E i \in B : /\ i <= p /\ p <= end[i]
                           /\ nth[i] < k \/ (nth[i] = k /\ i = p)
  <2> DEFINE m == E[k]
             l == Len(values[m])
  <2>1. m \in D /\ val[k] = values[m]
    BY <1>3, <1>14
  <2>2. PICK t \in Out : t[1] <= p /\ p + l - 1 <= t[2]
    BY <1>8, <1>17, <2>1
  <2> DEFINE i == t[1]
  <2>3. i \in B
    BY <2>2 DEF B
  <2>4. at(i) = t
    <3>1. at(i) \in Out /\ at(i)[1] = t[1]
      BY <1>12, <2>3
    <3>2. t[1] \in Nat /\ t[2] \in Nat /\ at(i)[2] \in Nat /\ end[i] \in i..L /\ end[i] = at(i)[2]
      BY <1>5, <1>12, <1>15, <2>3, <3>1
    <3>3. at(i)[2] >= t[1]
      BY <1>1, <3>2
    <3>4. at(i) = t \/ at(i)[2] < t[1] \/ t[2] < at(i)[1]
      BY <1>7, <3>1
    <3>5. l \in Nat /\ l >= 1 /\ p \in Nat
      BY <1>4, <2>1
    <3>6. t[2] >= t[1]
      <4> HIDE DEF l, i
      <4> QED
        BY <2>2, <3>2, <3>5
    <3> HIDE DEF i
    <3> QED
      BY <3>1, <3>2, <3>3, <3>4, <3>6
  <2> DEFINE h == nth[i]
             f == E[h]
             d == Len(values[f])
  <2>5. /\ i \in 1..L /\ h \in 1..n /\ f = Mark(t) /\ end[i] = i + d - 1 /\ end[i] = t[2]
    <3>1. val[h] = values[f]
      BY <1>14, <1>15, <2>3
    <3> QED
      BY <1>12, <1>15, <2>3, <2>4, <3>1
  <2>6. f \in D /\ Of(f, t)
    BY <1>6, <2>5
  <2>7. l \in Nat /\ d \in Nat /\ l >= 1 /\ d >= 1 /\ p \in Nat /\ i \in Nat /\ h \in Nat /\ k \in Nat
    BY <1>1, <1>3, <1>4, <2>1, <2>5, <2>6
  <2>8. \A a, b \in 1..n : a < b =>
          \/ Len(values[E[a]]) > Len(values[E[b]])
          \/ Len(values[E[a]]) = Len(values[E[b]]) /\ Rank(E[a]) < Rank(E[b])
    BY <1>2 DEF Precedes, n
  <2>9. k < h => l > d \/ (l = d /\ Rank(m) < Rank(f))
    BY <2>5, <2>8
  <2>10. Of(m, t) => Rank(f) <= Rank(m)
    BY <1>6, <2>1, <2>5
  <2>11. t[1] = i /\ i <= p /\ p + l - 1 <= i + d - 1
    BY <2>2, <2>5
  <2>12. k = h => m = f /\ l = d
    OBVIOUS
  <2>r. Rank(m) \in Nat /\ Rank(f) \in Nat
    BY <1>4, <2>1, <2>6
  <2>e. end[i] = i + d - 1 /\ end[i] = t[2]
    BY <2>5
  <2> HIDE DEF l, d, i, h, f, m
  <2>13. l <= d /\ p <= end[i]
    BY <2>7, <2>11, <2>e
  <2>14. l = d => i = p
    BY <2>7, <2>11
  <2>15. l = d => Of(m, t)
    <3> SUFFICES ASSUME l = d PROVE Of(m, t)
      OBVIOUS
    <3>1. MatchAt(text, t[1], values[m])
      BY <1>17, <2>1, <2>11, <2>14
    <3>2. t[2] = t[1] + Len(values[m]) - 1
      BY <2>11, <2>e DEF l
    <3> QED
      BY <1>10, <3>1, <3>2
  <2>16. h <= k
    BY <2>7, <2>9, <2>10, <2>13, <2>15, <2>r
  <2>17. h < k \/ (h = k /\ i = p)
    BY <2>7, <2>12, <2>14, <2>16
  <2> QED
    BY <2>3, <2>11, <2>13, <2>17 DEF h
<1>18. Covers(c)
  <2>1. \A k \in 1..n : val[k] \in Seq(Chars) /\ Len(val[k]) >= 1 /\ put[k] \in Marks
    BY <1>3, <1>4, <1>14, MarkersMark DEF D
  <2>a. \A j, k \in 1..n : Apart(val[k], put[j])
    BY <1>3, <1>14 DEF Clear, D
  <2>2. B \subseteq 1..L
    BY <1>15
  <2>3. \A i \in B : /\ end[i] \in i..L /\ nth[i] \in 1..n
                     /\ MatchAt(text, i, val[nth[i]]) /\ end[i] = i + Len(val[nth[i]]) - 1
    BY <1>15
  <2>4. \A i, j \in B : i < j => end[i] < j
    BY <1>16
  <2>5. \A p \in 1..L : \A k \in 1..n : MatchAt(text, p, val[k]) =>
          \E i \in B : i <= p /\ p <= end[i] /\ (nth[i] < k \/ (nth[i] = k /\ i = p))
    BY <1>17
  <2>6. c.text \in Seq(Chars) /\ c.n \in Nat
    BY <1>3, <1>13
  <2>7. \A k \in 1..c.n : c.value[k] \in Seq(Chars) /\ Len(c.value[k]) >= 1 /\ c.mark[k] \in Marks
    BY <1>13, <2>1
  <2>b. \A j, k \in 1..c.n : Apart(c.value[k], c.mark[j])
    BY <1>13, <2>a
  <2>8. c.starts \subseteq 1..Len(c.text)
    BY <1>13, <2>2 DEF L
  <2>9. \A i \in c.starts :
          /\ c.end[i] \in i..Len(c.text) /\ c.nth[i] \in 1..c.n
          /\ MatchAt(c.text, i, c.value[c.nth[i]])
          /\ c.end[i] = i + Len(c.value[c.nth[i]]) - 1
    BY <1>13, <2>3 DEF L
  <2>10. \A i, j \in c.starts : i < j => c.end[i] < j
    BY <1>13, <2>4
  <2>11. \A p \in 1..Len(c.text) : \A k \in 1..c.n : MatchAt(c.text, p, c.value[k]) =>
           \E i \in c.starts : /\ i <= p /\ p <= c.end[i]
                               /\ c.nth[i] < k \/ (c.nth[i] = k /\ i = p)
    <3> SUFFICES ASSUME NEW p \in 1..Len(c.text), NEW k \in 1..c.n, MatchAt(c.text, p, c.value[k])
                 PROVE  \E i \in c.starts : /\ i <= p /\ p <= c.end[i]
                                            /\ c.nth[i] < k \/ (c.nth[i] = k /\ i = p)
      OBVIOUS
    <3>1. p \in 1..L /\ k \in 1..n /\ MatchAt(text, p, val[k])
      BY <1>13 DEF L
    <3>2. PICK i \in B : i <= p /\ p <= end[i] /\ (nth[i] < k \/ (nth[i] = k /\ i = p))
      BY <2>5, <3>1
    <3> QED
      BY <1>13, <3>2
  <2> QED
    BY <2>6, <2>7, <2>b, <2>8, <2>9, <2>10, <2>11 DEF Covers
<1>19. OfEntries(c, values)
  BY <1>13, <1>14 DEF OfEntries, E, n
<1> DEFINE mk == [i \in B |-> put[nth[i]]]
           Step(h, i) == IF i > L THEN <<>>
                         ELSE IF i \in B THEN mk[i] \o h[end[i] + 1]
                              ELSE <<text[i]>> \o h[i + 1]
           Like(h, i) == IF i > L THEN <<>>
                         ELSE IF \E s \in Out : s[1] = i
                              THEN Marker(Mark(at(i))) \o h[at(i)[2] + 1]
                              ELSE <<text[i]>> \o h[i + 1]
           from == CHOOSE h : h = [i \in 1..L + 1 |-> Like(h, i)]
<1>20. Masked(text, values) = from[1]
  BY <1>m
<1>21. \A i \in B : mk[i] = Marker(Mark(at(i))) /\ mk[i] \in Marks /\ end[i] = at(i)[2]
  BY <1>3, <1>12, <1>14, <1>15, MarkersMark DEF D
<1> HIDE DEF mk
<1>22. Spanned(text, B, mk, end)
  <2>1. text \in Seq(Chars)
    OBVIOUS
  <2> QED
    BY <1>15, <1>21, <2>1 DEF Spanned, L
<1>23. \A h : \A i \in 1..L + 1 : Step(h, i) = Like(h, i)
  BY <1>9, <1>21
<1>24. \A h : [i \in 1..L + 1 |-> Step(h, i)] = [i \in 1..L + 1 |-> Like(h, i)]
  <2> HIDE DEF Step, Like
  <2> QED
    BY <1>23
<1>25. from = [i \in 1..L + 1 |-> Like(from, i)]
  <2>1. PICK h : IsScan(h, text, B, mk, end)
    BY <1>22, ScanExists
  <2>2. h = [i \in 1..L + 1 |-> Step(h, i)]
    BY <2>1 DEF IsScan, L
  <2> DEFINE Def(g) == [i \in 1..L + 1 |-> Like(g, i)]
  <2>3. h = Def(h)
    <3> HIDE DEF Step, Like
    <3> QED
      BY <1>24, <2>2
  <2>4. from = CHOOSE g : g = Def(g)
    OBVIOUS
  <2> HIDE DEF Def, from
  <2>5. from = Def(from)
    BY <2>3, <2>4
  <2> QED
    BY <2>5 DEF Def
<1> HIDE DEF from
<1>26. IsScan(from, text, B, mk, end)
  <2>1. from = [i \in 1..L + 1 |-> Step(from, i)]
    <3> HIDE DEF Step, Like
    <3> QED
      BY <1>24, <1>25
  <2> QED
    BY <2>1 DEF IsScan, L
<1>27. Scans(from, text, B, mk, end)
  BY <1>22, <1>26, ScanSteps
<1>28. IsMask(from, c.n, c)
  <2>1. \A i : MaskedBy(i, n, c) <=> i \in B
    <3>1. \A i \in B : nth[i] <= n
      BY <1>3, <1>15
    <3> QED
      BY <1>13, <3>1 DEF MaskedBy
  <2>2. \A i \in B : mk[i] = put[nth[i]]
    BY DEF mk
  <2>3. /\ from \in [1..L + 1 -> Seq(Chars)]
        /\ from[L + 1] = <<>>
        /\ \A i \in 1..L :
             /\ i \in B => from[i] = mk[i] \o from[end[i] + 1]
             /\ i \notin B => from[i] = <<text[i]>> \o from[i + 1]
    BY <1>27 DEF Scans, L
  <2>4. \A i \in 1..L :
          /\ MaskedBy(i, n, c) => from[i] = put[nth[i]] \o from[end[i] + 1]
          /\ ~MaskedBy(i, n, c) => from[i] = <<text[i]>> \o from[i + 1]
    BY <2>1, <2>2, <2>3
  <2> QED
    BY <1>13, <2>3, <2>4 DEF IsMask, L
<1> QED
  BY <1>13, <1>18, <1>19, <1>20, <1>28

\* Replacing one value after the other, the longest first, masks the outermost
\* occurrences and nothing else.
LEMMA RedactIsMasked ==
    ASSUME NEW text, NEW values, text \in Seq(Chars), Separate(text, values),
           DOMAIN values \subseteq Names,
           \A n \in DOMAIN values : values[n] \in Seq(Chars),
           \A n \in DOMAIN values : Len(values[n]) >= 1 /\ Clear(values[n], values)
    PROVE  Redact(text, values) = Masked(text, values)
<1>1. PICK c, N : /\ Covers(c) /\ OfEntries(c, values) /\ c.text = text
                  /\ IsMask(N, c.n, c) /\ Masked(text, values) = N[1]
  BY MaskedCovers
<1>2. Redact(c.text, values) = N[1]
  BY <1>1, RedactMasks
<1> QED
  BY <1>1, <1>2

LEMMA EmptyStays ==
    ASSUME NEW values
    PROVE  Masked(<<>>, values) = <<>> /\ Lines(<<>>) = <<>>
<1> DEFINE L == Len(<<>>)
           Out == Outermost(<<>>, values)
           at(i) == CHOOSE s \in Out : s[1] = i
           Rest(h, i) == IF \E s \in Out : s[1] = i
                         THEN Marker(MarkOf(at(i), <<>>, values)) \o h[at(i)[2] + 1]
                         ELSE <<<<>>[i]>> \o h[i + 1]
           Def(h) == [i \in 1..L + 1 |-> IF i > L THEN <<>> ELSE Rest(h, i)]
           from == CHOOSE h : h = Def(h)
<1>1. Masked(<<>>, values) = from[1]
  BY DEF Masked
<1> HIDE DEF Rest
<1>2. L = 0
  OBVIOUS
<1> HIDE DEF L
<1>3. \A h : Def(h) = [i \in 1..1 |-> <<>>]
  BY <1>2
<1> HIDE DEF Def
<1>4. from = Def(from)
  <2> DEFINE e == [i \in 1..1 |-> <<>>]
  <2>1. e = Def(e)
    BY <1>3
  <2> HIDE DEF e
  <2> QED
    BY <2>1
<1> HIDE DEF from
<1>5. from[1] = <<>>
  BY <1>3, <1>4
<1>6. Lines(<<>>) = <<>>
  <2>1. <<>> \in Seq(Chars) /\ Len(<<>>) = 0
    OBVIOUS
  <2>2. PICK m, a, b, e : Parts(<<>>, m, a, b, e)
    BY <2>1, LinesAreParts
  <2>3. m = 0
    <3>1. m \in Nat /\ \A k \in 1..m : a[k] \in 1..0
      BY <2>1, <2>2 DEF Parts
    <3>2. m >= 1 => 1 \in 1..m
      BY <3>1
    <3> QED
      BY <3>1, <3>2
  <2>4. Lines(<<>>) = [k \in 1..m |-> SubSeq(<<>>, a[k], e[k])]
    BY <2>2 DEF Parts
  <2> QED
    BY <2>3, <2>4
<1> QED
  BY <1>1, <1>5, <1>6

LEMMA HidesRevealed ==
    ASSUME IInv PROVE HiddenBy = revealed
<1> DEFINE S == {m \in Names : \E v \in given[m] : Len(v) >= MinLength}
           Long == {m \in DOMAIN cache : Len(cache[m]) >= MinLength}
           Val(n) == CHOOSE v \in given[n] : Len(v) >= MinLength
<1>1. \A n \in Names : given[n] = IF n \in DOMAIN cache THEN {cache[n]} ELSE {}
  BY DEF IInv, GivenIsCached
<1>2. DOMAIN cache \subseteq Names
  BY DEF IInv, GivenIsCached
<1>3. S = Long
  BY <1>1, <1>2
<1>4. \A n \in Long : Val(n) = cache[n]
  BY <1>1, <1>2
<1>5. revealed = [n \in Long |-> cache[n]]
  BY DEF IInv, RevealedIsCached
<1>6. HiddenBy = [n \in S |-> Val(n)]
  BY DEF HiddenBy
<1> HIDE DEF S, Long, Val
<1> QED
  BY <1>3, <1>4, <1>5, <1>6

LEMMA RecordedIsMasked ==
    ASSUME IInv, Texts, NEW text, text \in Seq(Chars), Separate(text, HiddenBy),
           \A v \in Hidden : Foreign(v)
    PROVE  /\ Redact(text, revealed) = Masked(text, HiddenBy)
           /\ Logged(text, revealed) = Lines(Masked(text, HiddenBy))
<1>1. HiddenBy = revealed
  BY HidesRevealed
<1>2. DOMAIN revealed \subseteq Names
  BY HiddenIsRevealed
<1>3. \A n \in DOMAIN revealed : revealed[n] \in Seq(Chars)
  BY HiddenIsRevealed
<1>4. \A n \in DOMAIN revealed : Len(revealed[n]) >= 1 /\ Clear(revealed[n], revealed)
  BY HiddenIsRevealed, ForeignIsClear
<1>5. Separate(text, revealed)
  BY <1>1
<1>6. Redact(text, revealed) = Masked(text, revealed)
  BY <1>2, <1>3, <1>4, <1>5, RedactIsMasked
<1> QED
  BY <1>1, <1>6 DEF Logged

LEMMA StepMasks ==
    ASSUME IInv, Texts, MasksWholeValues, [Next]_vars
    PROVE  MasksWholeValues'
<1> DEFINE Other == \A v \in Hidden : Foreign(v)
<1>h. ASSUME UNCHANGED given PROVE HiddenBy' = HiddenBy /\ (Other' <=> Other)
  <2>1. HiddenBy' = HiddenBy /\ Hidden' = Hidden /\ Masks' = Masks
    BY <1>h DEF HiddenBy, Hidden, Masks
  <2> QED
    BY <2>1 DEF Foreign
<1>1. ASSUME Quiet PROVE MasksWholeValues'
  <2>1. /\ shown'.cmd = <<>> /\ raw'.cmd = <<>>
        /\ \A s \in Streams : shown'[s] = <<>> /\ raw'[s] = <<>>
    BY <1>1 DEF Quiet, NoLogs, Nothing, Streams
  <2> QED
    BY <2>1, EmptyStays DEF MasksWholeValues
<1>2. ASSUME NEW cmd \in Commands, StartSh(cmd) PROVE MasksWholeValues'
  <2>1. /\ shown'.cmd = Redact(cmd, revealed) /\ raw'.cmd = cmd
        /\ \A s \in Streams : shown'[s] = <<>> /\ raw'[s] = <<>>
        /\ UNCHANGED given
    BY <1>2 DEF StartSh, NoLogs, Nothing, Streams
  <2>2. cmd \in Seq(Chars)
    BY TextsAssumption
  <2>3. Other /\ Separate(cmd, HiddenBy) => Redact(cmd, revealed) = Masked(cmd, HiddenBy)
    BY <2>2, RecordedIsMasked
  <2> QED
    BY <1>h, <2>1, <2>3, EmptyStays DEF MasksWholeValues
<1>3. ASSUME NEW out \in Outputs, FinishSh(out) PROVE MasksWholeValues'
  <2>1. /\ shown'.cmd = <<>> /\ raw'.cmd = <<>>
        /\ shown'["stdout"] = Logged(out.stdout, revealed) /\ raw'["stdout"] = out.stdout
        /\ shown'["stderr"] = Logged(out.stderr, revealed) /\ raw'["stderr"] = out.stderr
        /\ UNCHANGED given
    BY <1>3 DEF FinishSh, Nothing
  <2>2. out.stdout \in Seq(Chars) /\ out.stderr \in Seq(Chars)
    BY TextsAssumption
  <2>3. /\ Other /\ Separate(out.stdout, HiddenBy) =>
             Logged(out.stdout, revealed) = Lines(Masked(out.stdout, HiddenBy))
        /\ Other /\ Separate(out.stderr, HiddenBy) =>
             Logged(out.stderr, revealed) = Lines(Masked(out.stderr, HiddenBy))
    BY <2>2, RecordedIsMasked
  <2>4. \A s \in Streams : s = "stdout" \/ s = "stderr"
    BY DEF Streams
  <2> QED
    BY <1>h, <2>1, <2>3, <2>4, EmptyStays DEF MasksWholeValues
<1>4. CASE UNCHANGED vars
  BY <1>4, <1>h DEF MasksWholeValues, vars
<1> QED
  BY <1>1, <1>2, <1>3, <1>4
     DEF Next, Server, Rewrite, Die, Restart, Script, ResolveCached, ResolveFetched, ResolveFails,
         Command, SpawnFails, EndRun, NextRun

\* Redaction masks each outermost occurrence of a given value as a whole, and touches
\* nothing else, in every text in which these occurrences are apart, if no value meets
\* a marker: replacing one value after the other comes to the same as masking them all
\* at once.
THEOREM ValuesAreMasked == Spec => []MasksWholeValues
<1>1. Init => IInv
  BY EmptyRegistry DEF Init
<1>2. Init => Texts
  <2>1. [Declared -> Contents] \subseteq [Declared -> Contents \cup {Missing}]
    OBVIOUS
  <2> QED
    BY <2>1 DEF Init, Texts, NoSecrets
<1>3. Init => MasksWholeValues
  BY EmptyStays DEF Init, MasksWholeValues, NoLogs, Nothing, Streams
<1> QED
  BY <1>1, <1>2, <1>3, StepIInv, TextsHold, StepMasks, PTL DEF Spec
=============================================================================
