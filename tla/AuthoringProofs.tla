----------------------------- MODULE AuthoringProofs -----------------------------
(***************************************************************************)
(* Proofs about what an author writes and the market that runs on it.      *)
(* First the order market, for every fleet, every set of companies, every  *)
(* cooperation structure and every planner profile: MarketInv says what    *)
(* each phase of a tick has settled, and, towards convergence, which       *)
(* companies have no claim left to make while nothing was committed in the *)
(* round.  Then the files of ScenarioStore, then the rules of              *)
(* FacilityRules.                                                          *)
(***************************************************************************)
EXTENDS OrderMarket, Authoring, FiniteSetTheorems, SequenceTheorems, WellFoundedInduction, TLAPS

LEMMA LeastElement ==
  ASSUME NEW T \in SUBSET Nat, T # {}
  PROVE  \E x \in T : \A y \in T : x <= y
<1> DEFINE R == OpToRel(<, Nat)
<1>1. IsWellFoundedOn(R, Nat)
  BY NatLessThanWellFounded
<1>2. \A x \in T, y \in T : y < x => <<y, x>> \in R
  BY DEF OpToRel
<1> HIDE DEF R
<1>3. PICK x \in T : \A y \in T : ~ (<<y, x>> \in R)
  BY <1>1, WFMin, Zenon
<1>4. \A y \in T : ~ (y < x)
  BY <1>2, <1>3, Zenon
<1>5. \A y \in T : x \in Int /\ y \in Int
  OBVIOUS
<1> QED
  BY <1>4, <1>5

\* Folding a sequence s from a0 with the step f passes through values of A, one per element.
StepsOf(A, B) == [A \X B -> A]
FoldGoesThrough(A, f, a0, s) ==
  \E w \in [0 .. Len(s) -> A] :
    w[0] = a0 /\ \A i \in 1 .. Len(s) : w[i] = f[<<w[i - 1], s[i]>>]
LEMMA FoldRuns ==
  ASSUME NEW A, NEW B, NEW f \in StepsOf(A, B), NEW a0 \in A, NEW s \in Seq(B)
  PROVE  FoldGoesThrough(A, f, a0, s)
<1> USE DEF StepsOf, FoldGoesThrough
<1> DEFINE Good(w, n) == /\ w \in [0 .. n -> A] /\ w[0] = a0
                         /\ \A i \in 1 .. n : w[i] = f[<<w[i - 1], s[i]>>]
           T == {n \in 0 .. Len(s) : ~ \E w : Good(w, n)}
<1>1. Len(s) \in Nat
  OBVIOUS
<1>2. ASSUME T # {} PROVE FALSE
  <2>1. T \in SUBSET Nat
    BY <1>1
  <2>2. PICK n \in T : \A m \in T : n <= m
    <3> HIDE DEF T
    <3> QED BY <1>2, <2>1, LeastElement
  <2>3. n \in 0 .. Len(s) /\ ~ \E w : Good(w, n)
    OBVIOUS
  <2>4. CASE n = 0
    <3>1. Good([i \in 0 .. 0 |-> a0], 0)
      OBVIOUS
    <3> QED BY <2>3, <2>4, <3>1
  <2>5. CASE n # 0
    <3>1. n - 1 \in 0 .. Len(s) /\ n - 1 \notin T
      BY <1>1, <2>2, <2>3, <2>5
    <3>2. PICK w : Good(w, n - 1)
      BY <3>1
    <3> DEFINE v == [i \in 0 .. n |-> IF i = n THEN f[<<w[n - 1], s[n]>>] ELSE w[i]]
    <3>3. n \in 1 .. Len(s) /\ s[n] \in B
      BY <1>1, <2>3, <2>5
    <3>4. w[n - 1] \in A
      BY <3>2, <3>3
    <3>5. v \in [0 .. n -> A]
      BY <3>2, <3>3, <3>4
    <3>6. ASSUME NEW i \in 1 .. n PROVE v[i] = f[<<v[i - 1], s[i]>>]
      <4>1. CASE i = n
        <5>1. n \in 0 .. n /\ n - 1 \in 0 .. n /\ n - 1 # n
          BY <3>3
        <5>2. v[n] = f[<<w[n - 1], s[n]>>] /\ v[n - 1] = w[n - 1]
          BY <5>1
        <5> HIDE DEF v
        <5> QED BY <4>1, <5>2
      <4>2. CASE i # n
        <5>1. i \in 1 .. n - 1 /\ i \in 0 .. n /\ i - 1 \in 0 .. n /\ i - 1 # n
          BY <3>3, <4>2
        <5>2. v[i] = w[i] /\ v[i - 1] = w[i - 1]
          BY <4>2, <5>1
        <5>3. w[i] = f[<<w[i - 1], s[i]>>]
          BY <3>2, <5>1
        <5> HIDE DEF v
        <5> QED BY <5>2, <5>3
      <4> QED BY <4>1, <4>2
    <3>7. v[0] = a0
      BY <3>2, <3>3
    <3>8. Good(v, n)
      <4> HIDE DEF v
      <4> QED BY <3>5, <3>6, <3>7
    <3> HIDE DEF v, Good
    <3> QED
      BY <2>3, <3>8
  <2> QED
    BY <2>4, <2>5
<1>3. Len(s) \notin T
  BY <1>2
<1> QED
  BY <1>1, <1>3

\* Induction along a run: a set of steps that has the first and, with each, the next.
LEMMA AllAlong ==
  ASSUME NEW n \in Nat, NEW Q, 0 \in Q, \A i \in 1 .. n : i - 1 \in Q => i \in Q
  PROVE  \A i \in 0 .. n : i \in Q
<1> DEFINE T == {i \in 0 .. n : i \notin Q}
<1>1. ASSUME T # {} PROVE FALSE
  <2>1. T \in SUBSET Nat
    OBVIOUS
  <2>2. PICK i \in T : \A m \in T : i <= m
    <3> HIDE DEF T
    <3> QED BY <1>1, <2>1, LeastElement
  <2>3. i \in 0 .. n /\ i \notin Q
    OBVIOUS
  <2>4. i # 0
    BY <2>3
  <2>5. i \in 1 .. n /\ i - 1 \in 0 .. n /\ ~ (i <= i - 1)
    BY <2>3, <2>4
  <2>6. i - 1 \notin T
    <3> HIDE DEF T
    <3> QED BY <2>2, <2>5
  <2> QED BY <2>3, <2>5, <2>6
<1> QED BY <1>1

\* Two runs of a fold that start alike and step alike are alike.
LEMMA SameRun ==
  ASSUME NEW n \in Nat, NEW v, NEW w, v[0] = w[0],
         \A i \in 1 .. n : v[i - 1] = w[i - 1] => v[i] = w[i]
  PROVE  \A i \in 0 .. n : v[i] = w[i]
<1> DEFINE Q == {i \in 0 .. n : v[i] = w[i]}
<1>1. 0 \in Q
  OBVIOUS
<1>2. \A i \in 1 .. n : i - 1 \in Q => i \in Q
  OBVIOUS
<1>3. \A i \in 0 .. n : i \in Q
  <2> HIDE DEF Q
  <2> QED BY <1>1, <1>2, AllAlong
<1> QED BY <1>3


LEMMA Listed ==
  ASSUME MarketFacts
  PROVE  /\ Hauliers \in Seq(Companies) /\ Len(Hauliers) \in Nat
         /\ DOMAIN Hauliers = 1 .. Len(Hauliers)
         /\ \A i \in 1 .. Len(Hauliers) : Hauliers[i] \in Companies
         /\ \A h \in Companies : \E i \in 1 .. Len(Hauliers) : Hauliers[i] = h
         /\ \A i, j \in 1 .. Len(Hauliers) : Hauliers[i] = Hauliers[j] => i = j
<1>1. Hauliers \in Seq(Companies)
  BY DEF MarketFacts
<1>2. Len(Hauliers) \in Nat /\ DOMAIN Hauliers = 1 .. Len(Hauliers)
      /\ \A i \in 1 .. Len(Hauliers) : Hauliers[i] \in Companies
  <2> HIDE DEF Companies
  <2> QED BY <1>1
<1>3. \A h \in Companies : \E i \in 1 .. Len(Hauliers) : Hauliers[i] = h
  BY <1>2, Zenon DEF Companies, Range
<1>4. \A i, j \in 1 .. Len(Hauliers) : Hauliers[i] = Hauliers[j] => i = j
  BY <1>2, Zenon DEF MarketFacts
<1> QED
  BY <1>1, <1>2, <1>3, <1>4, Zenon

\* There are no more companies than entries of the list.
LEMMA FewCompanies ==
  ASSUME MarketFacts, NEW S \in SUBSET Companies
  PROVE  IsFiniteSet(S) /\ Cardinality(S) \in Nat /\ Cardinality(S) <= Len(Hauliers)
<1>1. Len(Hauliers) \in Nat /\ Hauliers \in Surjection(1 .. Len(Hauliers), Companies)
  <2>1. Hauliers \in [1 .. Len(Hauliers) -> Companies]
    BY Listed
  <2> QED BY <2>1, Listed, Zenon DEF Surjection
<1>2. 1 \in Int /\ Len(Hauliers) \in Int
  BY <1>1
<1>3. IsFiniteSet(1 .. Len(Hauliers)) /\ Cardinality(1 .. Len(Hauliers)) = Len(Hauliers)
  BY <1>1, <1>2, FS_Interval
<1>4. IsFiniteSet(Companies) /\ Cardinality(Companies) <= Len(Hauliers)
  BY <1>1, <1>3, FS_Surjection
<1>5. IsFiniteSet(S) /\ Cardinality(S) <= Cardinality(Companies)
  BY <1>4, FS_Subset
<1>6. Cardinality(S) \in Nat /\ Cardinality(Companies) \in Nat
  BY <1>4, <1>5, FS_CardinalityType
<1> QED
  BY <1>1, <1>4, <1>5, <1>6

\* A pool has a number that is not NoPool, and companies for members.
LEMMA EdgeIds ==
  ASSUME MarketFacts, NEW E \in SUBSET Structure.edges, NEW e \in E
  PROVE  (CHOOSE i \in DOMAIN SetToSeq(E) : SetToSeq(E)[i] = e) \in Nat \ {0}
<1> DEFINE n == Cardinality(E)
           F == {f \in [1 .. n -> E] : IsInjective(f)}
<1>1. IsFiniteSet(E) /\ n \in Nat
  BY FS_Subset, FS_CardinalityType DEF MarketFacts
<1>2. PICK b \in Bijection(1 .. n, E) : TRUE
  BY <1>1, FS_CardinalityType DEF ExistsBijection
<1>3. b \in F
  BY <1>2 DEF Bijection, Injection, Surjection, IsInjective
<1> DEFINE s == SetToSeq(E)
<1>4. s \in F
  BY <1>3 DEF SetToSeq
<1>5. s \in [1 .. n -> E] /\ \A i, j \in 1 .. n : s[i] = s[j] => i = j
  BY <1>4, Zenon DEF IsInjective
<1> HIDE DEF s, F
<1>6. s \in Injection(1 .. n, E)
  BY <1>5, Zenon DEF Injection, IsInjective
<1>7. IsFiniteSet(1 .. n) /\ Cardinality(1 .. n) = n
  <2>1. 1 \in Int /\ n \in Int
    BY <1>1
  <2> HIDE DEF n
  <2> QED BY <1>1, <2>1, FS_Interval
<1>8. s \in Surjection(1 .. n, E)
  BY <1>1, <1>6, <1>7, FS_Injection
<1>9. PICK i \in 1 .. n : s[i] = e
  BY <1>8, Zenon DEF Surjection
<1>10. DOMAIN s = 1 .. n
  BY <1>5
<1>11. (CHOOSE j \in DOMAIN s : s[j] = e) \in 1 .. n
  <2> HIDE DEF n
  <2> QED BY <1>9, <1>10, Zenon
<1>12. 1 .. n \subseteq Nat \ {0}
  <2> HIDE DEF n
  <2> QED OBVIOUS
<1> QED
  BY <1>11, <1>12, Zenon DEF s

LEMMA PoolsHoldCompanies ==
  ASSUME MarketFacts, NEW p \in DOMAIN Pools
  PROVE  p \in Nat /\ p # NoPool /\ Pools[p] \subseteq Companies
<1>1. \A q \in pools_from_structure : q.id \in Nat \ {0} /\ q.members \subseteq Companies
  <2>1. CASE "pools" \in DOMAIN Structure
    <3>1. pools_from_structure \subseteq Structure.pools
      BY <2>1, Zenon DEF pools_from_structure
    <3> QED BY <2>1, <3>1, Zenon DEF MarketFacts, NoPool
  <2>2. CASE "pools" \notin DOMAIN Structure
    <3> DEFINE E == {e \in Structure.edges : Cardinality(e) = 2}
               num(e) == CHOOSE i \in DOMAIN SetToSeq(E) : SetToSeq(E)[i] = e
    <3>1. pools_from_structure = {[id |-> num(e), members |-> e] : e \in E}
      BY <2>2, Zenon DEF pools_from_structure, pools_from_edges
    <3>2. \A e \in E : num(e) \in Nat \ {0} /\ e \subseteq Companies
      <4> TAKE e \in E
      <4>1. E \in SUBSET Structure.edges
        OBVIOUS
      <4>2. num(e) \in Nat \ {0}
        <5> HIDE DEF E
        <5> QED BY <4>1, EdgeIds
      <4>3. e \in SUBSET Companies
        BY Zenon DEF MarketFacts
      <4> QED BY <4>2, <4>3
    <3> HIDE DEF E, num
    <3> QED BY <3>1, <3>2
  <2> QED BY <2>1, <2>2
<1>2. PICK q \in pools_from_structure : q.id = p
  BY Zenon DEF Pools
<1>3. Pools[p] = (CHOOSE r \in pools_from_structure : r.id = p).members
  BY DEF Pools
<1>4. (CHOOSE r \in pools_from_structure : r.id = p) \in pools_from_structure
  BY <1>2, Zenon
<1> QED
  BY <1>1, <1>2, <1>3, <1>4 DEF NoPool

\* Partnership is mutual.
LEMMA PartnersMutual ==
  ASSUME MarketFacts, NEW g, NEW h
  PROVE  /\ g \in Partners(h) <=> g # h /\ \E p \in DOMAIN Pools : g \in Pools[p] /\ h \in Pools[p]
         /\ g \in Partners(h) => g \in Companies /\ h \in Companies /\ h \in Partners(g)
<1>1. ASSUME NEW x, NEW y
      PROVE  x \in Partners(y) <=> x # y /\ \E p \in DOMAIN Pools : x \in Pools[p] /\ y \in Pools[p]
  <2> DEFINE Q == {q \in DOMAIN Pools : y \in Pools[q]}
  <2>1. Partners(y) = (UNION {Pools[p] : p \in Q}) \ {y}
    BY DEF Partners
  <2>2. x \in UNION {Pools[p] : p \in Q} <=> \E p \in Q : x \in Pools[p]
    <3> HIDE DEF Q
    <3> QED BY Zenon
  <2> QED BY <2>1, <2>2
<1> QED
  BY <1>1, PoolsHoldCompanies, Zenon

-----------------------------------------------------------------------------
(* Components of cooperating companies.                                    *)

Grow(S) == S \cup UNION {Partners(g) : g \in S}
SelfContained(S) == \A g \in S : Partners(g) \subseteq S

LEMMA GrowStays ==
  ASSUME MarketFacts, NEW S \in SUBSET Companies
  PROVE  /\ Grow(S) \in SUBSET Companies /\ S \subseteq Grow(S)
         /\ Grow(S) = S => SelfContained(S)
         /\ \A T : S \subseteq T /\ SelfContained(T) => Grow(S) \subseteq T
<1>1. \A x : x \in Grow(S) <=> x \in S \/ \E g \in S : x \in Partners(g)
  <2> TAKE x
  <2>1. x \in UNION {Partners(g) : g \in S} <=> \E g \in S : x \in Partners(g)
    BY Zenon
  <2> QED BY <2>1, Zenon DEF Grow
<1>2. \A g, x : x \in Partners(g) => x \in Companies
  BY PartnersMutual
<1> QED
  BY <1>1, <1>2, Zenon DEF SelfContained

\* The growth of {h}, step by step, ends in Component(h).
LEMMA ComponentGrows ==
  ASSUME MarketFacts, NEW h \in Companies
  PROVE  \E w \in [0 .. Len(Hauliers) -> SUBSET Companies] :
           /\ w[0] = {h} /\ Component(h) = w[Len(Hauliers)]
           /\ \A i \in 1 .. Len(Hauliers) : w[i] = Grow(w[i - 1])
<1> DEFINE N == Len(Hauliers)
           A == SUBSET Companies
           f == [x \in A \X Companies |-> Grow(x[1])]
           V == CHOOSE v : v = [n \in 0 .. N |-> IF n = 0 THEN {h}
                                ELSE v[n - 1] \cup UNION {Partners(g) : g \in v[n - 1]}]
<1>1. \A S \in A : Grow(S) \in A
  BY GrowStays
<1>2. PICK w \in [0 .. N -> A] : w[0] = {h} /\ \A i \in 1 .. N : w[i] = f[<<w[i - 1], Hauliers[i]>>]
  <2>1. f \in StepsOf(A, Companies)
    <3> HIDE DEF A
    <3>1. \A x \in A \X Companies : x[1] \in A
      OBVIOUS
    <3> QED BY <1>1, <3>1, Zenon DEF StepsOf
  <2>2. {h} \in A
    OBVIOUS
  <2> HIDE DEF f, A
  <2>3. FoldGoesThrough(A, f, {h}, Hauliers)
    BY <2>1, <2>2, FoldRuns, Listed
  <2> QED BY <2>3, Zenon DEF FoldGoesThrough
<1>3. N \in Nat
  BY Listed
<1> HIDE DEF N
<1>4. \A i \in 1 .. N : w[i] = Grow(w[i - 1])
  <2> TAKE i \in 1 .. N
  <2>1. i - 1 \in 0 .. N
    BY <1>3
  <2>2. w[i - 1] \in A /\ Hauliers[i] \in Companies
    <3> HIDE DEF A
    <3> QED BY <1>2, <2>1, Listed DEF N
  <2>3. ASSUME NEW S \in A, NEW c \in Companies PROVE f[<<S, c>>] = Grow(S)
    <3> HIDE DEF A
    <3>1. <<S, c>> \in A \X Companies /\ <<S, c>>[1] = S
      OBVIOUS
    <3> QED BY <3>1, Zenon
  <2> HIDE DEF f, A
  <2> QED BY <1>2, <2>2, <2>3
<1>5. w = [n \in 0 .. N |-> IF n = 0 THEN {h} ELSE w[n - 1] \cup UNION {Partners(g) : g \in w[n - 1]}]
  <2>1. \A n \in 0 .. N : w[n] = IF n = 0 THEN {h} ELSE w[n - 1] \cup UNION {Partners(g) : g \in w[n - 1]}
    <3> TAKE n \in 0 .. N
    <3>1. n = 0 \/ n \in 1 .. N
      BY <1>3
    <3> QED BY <1>2, <1>4, <3>1, Zenon DEF Grow
  <2>2. w = [n \in 0 .. N |-> w[n]]
    BY <1>2
  <2> QED BY <2>1, <2>2, Zenon
<1>6. V = [n \in 0 .. N |-> IF n = 0 THEN {h} ELSE V[n - 1] \cup UNION {Partners(g) : g \in V[n - 1]}]
  BY <1>5, Zenon
<1>7. Component(h) = V[N]
  BY Zenon DEF Component, N
<1> HIDE DEF V, f
<1>8. N \in 0 .. N
  BY <1>3
<1>9. ASSUME NEW i \in 1 .. N, V[i - 1] = w[i - 1] PROVE V[i] = w[i]
  <2>1. i \in 0 .. N /\ i # 0
    OBVIOUS
  <2>2. V[i] = V[i - 1] \cup UNION {Partners(g) : g \in V[i - 1]}
    BY <1>6, <2>1, Zenon
  <2> QED BY <1>4, <1>9, <2>2, Zenon DEF Grow
<1>10. V[0] = w[0]
  <2>1. 0 \in 0 .. N
    BY <1>3
  <2> QED BY <1>2, <1>6, <2>1, Zenon
<1>11. V[N] = w[N]
  <2> DEFINE Q == {i \in 0 .. N : V[i] = w[i]}
  <2>1. 0 \in Q
    BY <1>3, <1>10
  <2>2. \A i \in 1 .. N : i - 1 \in Q => i \in Q
    BY <1>9
  <2>3. \A i \in 0 .. N : i \in Q
    <3> HIDE DEF Q
    <3> QED BY <1>3, <2>1, <2>2, AllAlong
  <2> QED BY <1>8, <2>3
<1> QED
  BY <1>2, <1>4, <1>7, <1>11, Zenon DEF N

\* Component(h) is the least set of companies with h that its partnerships do not leave:
\* it has had as many steps to grow as there are companies.
LEMMA ComponentIsLeast ==
  ASSUME MarketFacts, NEW h \in Companies
  PROVE  /\ h \in Component(h) /\ Component(h) \in SUBSET Companies
         /\ SelfContained(Component(h))
         /\ \A T : h \in T /\ SelfContained(T) => Component(h) \subseteq T
<1> DEFINE N == Len(Hauliers)
<1>1. PICK w \in [0 .. N -> SUBSET Companies] :
        /\ w[0] = {h} /\ Component(h) = w[N]
        /\ \A i \in 1 .. N : w[i] = Grow(w[i - 1])
  BY ComponentGrows
<1>2. N \in Nat
  BY Listed
<1> HIDE DEF N
<1>3. \A i \in 0 .. N : w[i] \in SUBSET Companies
  BY <1>1
<1>4. \A i \in 1 .. N : i - 1 \in 0 .. N /\ i \in 0 .. N
  BY <1>2
<1>5. \A i \in 0 .. N : h \in w[i]
  <2> DEFINE Q == {i \in 0 .. N : h \in w[i]}
  <2>1. 0 \in Q
    BY <1>1, <1>2
  <2>2. \A i \in 1 .. N : i - 1 \in Q => i \in Q
    <3> TAKE i \in 1 .. N
    <3>1. w[i - 1] \subseteq w[i]
      BY <1>1, <1>3, <1>4, GrowStays
    <3> QED BY <1>4, <3>1
  <2>3. \A i \in 0 .. N : i \in Q
    <3> HIDE DEF Q
    <3> QED BY <1>2, <2>1, <2>2, AllAlong
  <2> QED BY <2>3
<1>6. ASSUME NEW T, h \in T, SelfContained(T) PROVE \A i \in 0 .. N : w[i] \subseteq T
  <2> DEFINE Q == {i \in 0 .. N : w[i] \subseteq T}
  <2>1. 0 \in Q
    BY <1>1, <1>2, <1>6
  <2>2. \A i \in 1 .. N : i - 1 \in Q => i \in Q
    <3> TAKE i \in 1 .. N
    <3>1. w[i - 1] \subseteq T => w[i] \subseteq T
      BY <1>1, <1>3, <1>4, <1>6, GrowStays
    <3> QED BY <1>4, <3>1
  <2>3. \A i \in 0 .. N : i \in Q
    <3> HIDE DEF Q
    <3> QED BY <1>2, <2>1, <2>2, AllAlong
  <2> QED BY <2>3
<1>7. \A i \in 0 .. N : SelfContained(w[i]) \/ Cardinality(w[i]) > i
  <2> DEFINE Q == {i \in 0 .. N : SelfContained(w[i]) \/ Cardinality(w[i]) > i}
  <2>1. 0 \in Q
    <3>1. Cardinality(w[0]) = 1
      BY <1>1, FS_Singleton
    <3>2. 0 \in 0 .. N
      BY <1>2
    <3> QED BY <3>1, <3>2
  <2>2. \A i \in 1 .. N : i - 1 \in Q => i \in Q
    <3> SUFFICES ASSUME NEW i \in 1 .. N, i - 1 \in Q PROVE i \in Q
      OBVIOUS
    <3> DEFINE S == w[i - 1]
               G == w[i]
    <3>1. S \in SUBSET Companies /\ G \in SUBSET Companies /\ G = Grow(S)
      BY <1>1, <1>3, <1>4
    <3>2. SelfContained(S) \/ Cardinality(S) > i - 1
      OBVIOUS
    <3> HIDE DEF S, G
    <3>3. S \subseteq G
      BY <3>1, GrowStays
    <3>4. CASE SelfContained(S)
      <4>1. G = S
        BY <3>1, <3>3, <3>4, GrowStays
      <4> QED BY <1>4, <3>4, <4>1 DEF G
    <3>5. CASE G = S
      <4>1. SelfContained(S)
        BY <3>1, <3>5, GrowStays
      <4> QED BY <1>4, <3>5, <4>1 DEF G
    <3>6. CASE ~SelfContained(S) /\ G # S
      <4>1. IsFiniteSet(G) /\ Cardinality(G) \in Nat /\ Cardinality(S) \in Nat
        BY <3>1, FewCompanies
      <4>2. Cardinality(S) <= Cardinality(G) /\ Cardinality(S) # Cardinality(G)
        BY <3>3, <3>6, <4>1, FS_Subset
      <4>3. Cardinality(G) > i
        BY <3>2, <3>6, <4>1, <4>2
      <4> QED BY <1>4, <4>3 DEF G
    <3> QED BY <3>4, <3>5, <3>6
  <2>3. \A i \in 0 .. N : i \in Q
    <3> HIDE DEF Q
    <3> QED BY <1>2, <2>1, <2>2, AllAlong
  <2> QED BY <2>3
<1>8. N \in 0 .. N
  BY <1>2
<1>9. SelfContained(w[N])
  <2>1. Cardinality(w[N]) \in Nat /\ Cardinality(w[N]) <= N
    BY <1>3, <1>8, FewCompanies DEF N
  <2> QED BY <1>2, <1>7, <1>8, <2>1
<1> QED
  BY <1>1, <1>3, <1>5, <1>6, <1>8, <1>9, Zenon

\* Components are the classes of an equivalence: what a component leaves out, its partners
\* leave out too, so two components that meet hold each other's companies.
LEMMA ComponentsPart ==
  ASSUME MarketFacts, NEW g \in Companies, NEW h \in Companies,
         NEW x \in Component(g), x \in Component(h)
  PROVE  g \in Component(h)
<1> DEFINE T == {c \in Companies : c \notin Component(h)}
<1>1. ASSUME g \notin Component(h) PROVE FALSE
  <2>1. SelfContained(T)
    <3> SUFFICES ASSUME NEW c \in T, NEW d \in Partners(c) PROVE d \in T
      BY Zenon DEF SelfContained
    <3>1. d \in Companies /\ c \in Partners(d)
      BY PartnersMutual
    <3>2. d \in Component(h) => c \in Component(h)
      BY <3>1, ComponentIsLeast, Zenon DEF SelfContained
    <3> QED BY <3>1, <3>2
  <2>2. g \in T
    BY <1>1
  <2> HIDE DEF T
  <2>3. x \in T
    BY <2>1, <2>2, ComponentIsLeast
  <2> QED BY <2>3 DEF T
<1> QED BY <1>1

-----------------------------------------------------------------------------
(* Costs, candidates and sweeps.                                           *)

Where == at \in [Trucks \cup Orders -> Int]

LEMMA LeastOf ==
  ASSUME NEW T \in SUBSET Nat, T # {}
  PROVE  Min(T) \in T /\ \A y \in T : Min(T) <= y
<1>1. \E x \in T : \A y \in T : x <= y
  BY LeastElement
<1> QED
  BY <1>1, Zenon DEF Min

LEMMA CostIsNat ==
  ASSUME MarketFacts, Where, NEW t \in Trucks, NEW o \in Orders
  PROVE  assignment_cost(t, o) \in Nat
<1>1. at[t] \in Int /\ at[o] \in Int
  BY DEF Where
<1>2. Distance(t, o) \in Nat
  BY <1>1 DEF Distance, Unknown, Abs
<1>3. Bonus \in Nat
  BY DEF MarketFacts
<1> DEFINE d == Distance(t, o)
           chained == <<t, o>> \in Chained
<1>4. assignment_cost(t, o) =
        IF d = Unknown THEN Unknown ELSE IF chained THEN (IF d > Bonus THEN d - Bonus ELSE 0) ELSE d
  BY DEF assignment_cost
<1>5. d \in Nat
  BY <1>2
<1> HIDE DEF d, chained
<1> QED
  BY <1>3, <1>4, <1>5 DEF Unknown

\* A sample of a fleet is the fleet when the cap is no smaller.
LEMMA SamplesOf ==
  ASSUME MarketFacts, NEW S \in SUBSET Trucks, NEW s \in Sampled(S)
  PROVE  s \subseteq S /\ (Cardinality(S) <= FleetCap => s = S)
<1> DEFINE n == Min({FleetCap, Cardinality(S)})
<1>1. IsFiniteSet(S) /\ Cardinality(S) \in Nat /\ FleetCap \in Nat
  BY FS_Subset, FS_CardinalityType DEF MarketFacts
<1>2. s \in SUBSET S /\ Cardinality(s) = n
  BY DEF Sampled, kSubset
<1>3. n \in {FleetCap, Cardinality(S)} /\ n <= FleetCap /\ n <= Cardinality(S)
  <2>1. {FleetCap, Cardinality(S)} \in SUBSET Nat /\ {FleetCap, Cardinality(S)} # {}
    BY <1>1
  <2> QED BY <2>1, LeastOf
<1> HIDE DEF n
<1>4. Cardinality(S) <= FleetCap => n = Cardinality(S)
  BY <1>1, <1>3
<1> QED
  BY <1>1, <1>2, <1>4, FS_Subset

\* Every truck in sight is among the candidates.
LEMMA NearbyOf ==
  ASSUME MarketFacts, NEW o, NEW S \in SUBSET Trucks, NEW s \in nearby(o, S)
  PROVE  s \subseteq S /\ \A t \in S : InSight(t, o) => t \in s
<1> DEFINE reach == {t \in S : at[o] = Nowhere \/ Ring(t, o) <= MaxRings + (IF at[t] = Nowhere THEN 1 ELSE 0)}
           n == Min({PerOrder, Cardinality(reach)})
<1>1. reach \in SUBSET S /\ reach \in SUBSET Trucks
  OBVIOUS
<1>2. \A t \in S : InSight(t, o) => t \in reach
  <2> SUFFICES ASSUME NEW t \in S, InSight(t, o)
               PROVE  at[o] = Nowhere \/ Ring(t, o) <= MaxRings + (IF at[t] = Nowhere THEN 1 ELSE 0)
    OBVIOUS
  <2>1. MaxRings \in Nat
    BY DEF MarketFacts
  <2>2. CASE at[t] = Nowhere
    <3>1. Ring(t, o) = MaxRings + 1
      BY <2>2 DEF Ring
    <3> QED BY <2>1, <2>2, <3>1
  <2>3. CASE at[t] # Nowhere
    BY <2>1, <2>3 DEF InSight
  <2> QED BY <2>2, <2>3
<1>3. s \in SUBSET reach /\ Cardinality(s) = n
  BY DEF nearby, kSubset
<1> HIDE DEF reach
<1>4. IsFiniteSet(reach) /\ Cardinality(reach) \in Nat /\ Cardinality(reach) <= Cardinality(Trucks)
      /\ Cardinality(Trucks) \in Nat /\ PerOrder \in Nat
  BY <1>1, FS_Subset, FS_CardinalityType DEF MarketFacts
<1>5. n \in {PerOrder, Cardinality(reach)} /\ n <= PerOrder /\ n <= Cardinality(reach)
  <2>1. {PerOrder, Cardinality(reach)} \in SUBSET Nat /\ {PerOrder, Cardinality(reach)} # {}
    BY <1>4
  <2> QED BY <2>1, LeastOf
<1> HIDE DEF n
<1>6. Cardinality(Trucks) <= PerOrder => n = Cardinality(reach)
  BY <1>4, <1>5
<1>7. Cardinality(Trucks) <= PerOrder => s = reach
  BY <1>3, <1>4, <1>6, FS_Subset
<1>8. \A t \in S : InSight(t, o) => Cardinality(Trucks) <= PerOrder
  BY DEF InSight
<1> QED
  BY <1>1, <1>2, <1>3, <1>7, <1>8

\* The candidate pairs: feasible, each order over its own trucks, none in sight left out.
LEMMA CandidatesOf ==
  ASSUME MarketFacts, NEW f, NEW F, NEW P \in CandidatePairs(f, F),
         \A o \in DOMAIN f : f[o] \in SUBSET Trucks,
         \A p \in F : p[2] \in DOMAIN f
  PROVE  /\ \A p \in P : p \in F /\ p[1] \in f[p[2]]
         /\ \A p \in F : p[1] \in f[p[2]] /\ InSight(p[1], p[2]) => p \in P
<1> DEFINE choices == [o \in DOMAIN f |-> nearby(o, f[o])]
<1>1. PICK near : /\ \A o \in DOMAIN f : near[o] \in choices[o]
                  /\ P = {p \in F : p[1] \in near[p[2]]}
  BY Zenon DEF CandidatePairs
<1>2. \A o \in DOMAIN f : near[o] \in nearby(o, f[o])
  BY <1>1
<1> HIDE DEF choices
<1>3. \A o \in DOMAIN f : near[o] \subseteq f[o] /\ \A t \in f[o] : InSight(t, o) => t \in near[o]
  BY <1>2, NearbyOf
<1> QED
  BY <1>1, <1>3

\* A sweep leaves a pair out only for one it meets and ranked no worse.
LEMMA SolutionsOf ==
  ASSUME NEW P, NEW m \in Solve(P)
  PROVE  /\ m \subseteq P /\ IsMatching(m)
         /\ P # {} => m # {}
         /\ get_solver = "GreedyNearest" =>
              \A p \in P : p \in m \/ \E q \in m : Meets(p, q) /\ Cost(q) <= Cost(p)
<1>1. CASE get_solver = "GreedyNearest"
  <2>1. m \in SUBSET P /\ IsMatching(m)
        /\ \A p \in P \ m : \E q \in m : Meets(p, q) /\ Nearest(P)[q] <= Nearest(P)[p]
    BY <1>1, Zenon DEF Solve, Sweeps
  <2>2. \A p \in P : Nearest(P)[p] = Cost(p)
    BY DEF Nearest
  <2> QED BY <2>1, <2>2
<1>2. CASE get_solver # "GreedyNearest"
  <2>1. m \in SUBSET P /\ IsMatching(m) /\ \A p \in P \ m : \E q \in m : Meets(p, q)
    BY <1>2, Zenon DEF Solve, Sweeps
  <2> QED BY <1>2, <2>1
<1> QED
  BY <1>1, <1>2

-----------------------------------------------------------------------------
(* The invariant.                                                          *)

Papers == [truck : Trucks, order : Orders, carrier : Companies, owner : Companies,
           cost : Nat, pool : Nat, round : Nat]
Turns == 1 .. Len(Hauliers)

\* An award or a bid: whose it is, that it is feasible, and that neither side is gone.
Sound(b) ==
  /\ b \in Papers /\ b.round <= round
  /\ b.carrier = HaulierOf[b.truck] /\ b.owner = HaulierOf[b.order]
  /\ b.cost = assignment_cost(b.truck, b.order)
  /\ b.truck \notin gone /\ b.order \notin gone
  /\ pair_allowed_ignoring_haulier(b.truck, b.order)

\* A partner carries an order: through a pool of both when the planner is pooled.
Travels(a) ==
  a.carrier # a.owner =>
    /\ a.carrier \in Partners(a.owner)
    /\ resolved_topology = "pooled" =>
         /\ a.pool \in placed[a.order]
         /\ {a.carrier, a.owner} \subseteq Pools[a.pool]

MarketTyped ==
  /\ Where
  /\ phase \in {"open", "round", "bid", "assigned", "recorded", "closed"}
  /\ turn \in Nat \ {0} /\ round \in Nat
  /\ offered \subseteq Trucks \X Orders
  /\ private \in BOOLEAN /\ converged \in BOOLEAN
  /\ \A o \in Orders : placed[o] \subseteq {p \in DOMAIN Pools : HaulierOf[o] \in Pools[p]}

Apart ==
  /\ \A b \in awards : Sound(b) /\ Travels(b)
  /\ \A a, b \in awards : a # b => a.truck # b.truck /\ a.order # b.order

Phases ==
  /\ phase = "open" => round = 0 /\ bids = {} /\ (resolved_topology = "pooled" => awards = {})
  /\ phase \in {"open", "round", "bid"} => ~converged
  /\ phase \in {"round", "bid"} => resolved_topology = "pooled"
  /\ resolved_topology = "partitioned" => ~converged

\* The partitioned planner: components whose turn is to come are untouched, and a partner's
\* truck was no dearer than the owner's trucks that stay free.
IsFirst(i) == \A j \in 1 .. i - 1 : Hauliers[j] \notin Component(Hauliers[i])
Untouched ==
  (phase = "open" /\ resolved_topology = "partitioned") =>
    \A a \in awards, i \in Turns : i >= turn /\ IsFirst(i) =>
      a.carrier \notin Component(Hauliers[i]) /\ a.owner \notin Component(Hauliers[i])
OwnNoCheaper(a) ==
  \A t \in Fleet(a.owner) \ Taken : pair_allowed(t, a.order) => a.cost <= assignment_cost(t, a.order)
Fair ==
  (resolved_topology = "partitioned" /\ get_solver = "GreedyNearest") =>
    \A a \in awards : (a.carrier # a.owner /\ \A t \in Fleet(a.owner) : InSight(t, a.order)) =>
      OwnNoCheaper(a)

\* A round in progress: what is offered to companies still to move is free, bids are on free
\* sides, one per truck, and what was committed meanwhile was private.
Offer(p) ==
  /\ p[1] \notin gone /\ p[2] \notin gone /\ HaulierOf[p[2]] # None
  /\ HaulierOf[p[1]] \in eligible_carriers(p[2]) /\ pair_allowed_for(p[1], p[2])
Bid(b) ==
  /\ Sound(b) /\ b.round = round
  /\ b.truck \notin Taken /\ b.order \notin Taken
  /\ b.pool = pool_of_order(b.order, b.carrier) /\ b.pool \in placed[b.order] \cap pools_for(b.carrier)
OfferedIsFree ==
  phase = "bid" => \A p \in offered :
    /\ Offer(p)
    /\ \A i \in Turns : i >= turn /\ HaulierOf[p[1]] = Hauliers[i] => p[1] \notin Taken /\ p[2] \notin Taken
BidsStand ==
  phase = "bid" =>
    /\ \A b \in bids : Bid(b) /\ \E i \in Turns : i < turn /\ b.carrier = Hauliers[i]
    /\ \A b, c \in bids : b.truck = c.truck => b = c
    /\ \A a \in awards : a.round = round => a.carrier = a.owner

\* Every round that is over committed something.
Awarded(r) == \E a \in awards : a.round = r
RoundsAward ==
  /\ phase = "round" => \A r \in 1 .. round : Awarded(r)
  /\ phase = "bid" =>
       /\ \A r \in 1 .. round - 1 : Awarded(r)
       /\ private => Awarded(round)
       /\ ~private => FreeOrders # {}

\* While a round has committed nothing, the companies that have moved had nothing to claim.
Spent(h) == SureToClaim(h) => ~\E t \in FreeTrucks(h), o \in FreeOrders : Servable(t, o)
OfferedIsAll ==
  get_solver = "GreedyNearest" =>
    \A o \in FreeOrders : \A h \in eligible_carriers(o) : \A t \in FreeTrucks(h) :
      pair_allowed_for(t, o) /\ InSight(t, o) => <<t, o>> \in offered
NothingLeft ==
  (phase = "bid" /\ NothingCommitted) =>
    OfferedIsAll /\ \A i \in Turns : i < turn => Spent(Hauliers[i])

Settled == OwnersKeepTheirs /\ EveryRoundAwards /\ ConvergedIsExhausted

\* The statistics.
Counts == [ticks : Int, drain : Int, idle : Int, auctions : Int, sum : Int, max : Int,
           truncated : Int, pushedMax : Int]
Reported ==
  /\ tick \in Nat /\ faults \in Nat /\ stats \in Counts /\ stats.ticks >= 0
  /\ stats.auctions + stats.idle = stats.ticks
  /\ stats.ticks = 0 => published = round_stats(stats)
  /\ faults = 0 => published.truncated = stats.truncated
  /\ phase = "closed" /\ faults = 0 => published = round_stats(stats)

MarketInv ==
  /\ MarketTyped /\ Apart /\ Phases /\ Untouched /\ Fair
  /\ OfferedIsFree /\ BidsStand /\ RoundsAward /\ NothingLeft /\ Settled /\ Reported

LEMMA SameWorld ==
  ASSUME UNCHANGED <<at, planner>>
  PROVE  /\ \A t, o : assignment_cost(t, o)' = assignment_cost(t, o)
         /\ \A t, o : pair_allowed_ignoring_haulier(t, o)' <=> pair_allowed_ignoring_haulier(t, o)
         /\ \A t, o : pair_allowed(t, o)' <=> pair_allowed(t, o)
         /\ \A t, o : pair_allowed_for(t, o)' <=> pair_allowed_for(t, o)
         /\ \A t, o : InSight(t, o)' <=> InSight(t, o)
         /\ get_solver' = get_solver /\ resolved_topology' = resolved_topology
         /\ get_claim_policy' = get_claim_policy /\ get_arbitration_rule' = get_arbitration_rule
<1>1. ASSUME NEW t, NEW o
      PROVE  /\ Distance(t, o)' = Distance(t, o)
             /\ Ring(t, o)' = Ring(t, o)
  BY DEF Distance, Ring
<1>2. ASSUME NEW t, NEW o
      PROVE  /\ assignment_cost(t, o)' = assignment_cost(t, o)
             /\ within_max_reposition(t, o)' <=> within_max_reposition(t, o)
  BY <1>1 DEF assignment_cost, within_max_reposition
<1>3. ASSUME NEW t, NEW o
      PROVE  pair_allowed_ignoring_haulier(t, o)' <=> pair_allowed_ignoring_haulier(t, o)
  BY <1>2 DEF pair_allowed_ignoring_haulier, size_compatible, restricted_area_blocks
<1>4. ASSUME NEW t, NEW o
      PROVE  pair_allowed(t, o)' <=> pair_allowed(t, o)
  BY <1>3 DEF pair_allowed, haulier_matches
<1>5. ASSUME NEW t, NEW o
      PROVE  pair_allowed_for(t, o)' <=> pair_allowed_for(t, o)
  BY <1>3, <1>4 DEF pair_allowed_for
<1>6. ASSUME NEW t, NEW o
      PROVE  InSight(t, o)' <=> InSight(t, o)
  BY <1>1 DEF InSight
<1>7. get_solver' = get_solver /\ resolved_topology' = resolved_topology
      /\ get_claim_policy' = get_claim_policy /\ get_arbitration_rule' = get_arbitration_rule
  BY DEF get_solver, resolved_topology, get_claim_policy, get_arbitration_rule
<1> QED
  BY <1>2, <1>3, <1>4, <1>5, <1>6, <1>7

LEMMA SoundStays ==
  ASSUME UNCHANGED <<at, planner, gone>>, round \in Nat, round' \in Nat, round <= round', NEW b, Sound(b)
  PROVE  Sound(b)'
<1>1. b.round \in Nat
  BY DEF Sound, Papers
<1>2. b.round <= round'
  BY <1>1 DEF Sound
<1> QED
  BY <1>2, SameWorld DEF Sound, Papers

LEMMA ApartStays ==
  ASSUME Apart, UNCHANGED <<at, planner, gone, placed, awards>>,
         round \in Nat, round' \in Nat, round <= round'
  PROVE  Apart'
<1>1. \A b : Travels(b)' <=> Travels(b)
  BY SameWorld DEF Travels
<1> QED
  BY <1>1, SoundStays DEF Apart

LEMMA FairStays ==
  ASSUME Fair, UNCHANGED <<at, planner, gone, awards>>
  PROVE  Fair'
<1>1. \A h : Fleet(h)' = Fleet(h)
  BY DEF Fleet, AssignableTrucks
<1>2. Taken' = Taken
  BY DEF Taken
<1>3. \A a : OwnNoCheaper(a)' <=> OwnNoCheaper(a)
  BY <1>1, <1>2, SameWorld DEF OwnNoCheaper
<1> QED
  BY <1>1, <1>3, SameWorld DEF Fair

LEMMA ReportedStays ==
  ASSUME Reported, UNCHANGED <<tick, stats, published, faults>>, phase' # "closed"
  PROVE  Reported'
BY DEF Reported, round_stats

\* Free trucks and free orders, told apart from what is taken.
LEMMA FreeSets ==
  /\ \A t, h : t \in FreeTrucks(h) <=> t \in Trucks /\ t \notin gone /\ HaulierOf[t] = h /\ t \notin Taken
  /\ \A o : o \in FreeOrders <=> o \in Orders /\ o \notin gone /\ o \notin Taken /\ HaulierOf[o] # None
BY DEF FreeTrucks, FreeOrders, Fleet, AssignableTrucks, UnassignedOrders

LEMMA TakenIs == \A x : x \in Taken <=> \E a \in awards : x = a.truck \/ x = a.order
BY DEF Taken

\* The paper that commits or bids a feasible pair of free sides.
LEMMA AwardOf ==
  ASSUME MarketFacts, Where, round \in Nat, NEW t \in Trucks, NEW o \in Orders, NEW pool \in Nat,
         HaulierOf[t] \in Companies, HaulierOf[o] # None,
         t \notin gone, o \notin gone, pair_allowed_ignoring_haulier(t, o),
         NEW h, h = HaulierOf[t]
  PROVE  LET b == Award(h, <<t, o>>, pool)
         IN /\ Sound(b) /\ b.round = round /\ b.pool = pool
            /\ b.truck = t /\ b.order = o /\ b.carrier = h /\ b.owner = HaulierOf[o]
            /\ b.cost = Cost(<<t, o>>)
<1>1. HaulierOf[o] \in Companies
  BY DEF MarketFacts
<1>2. assignment_cost(t, o) \in Nat
  BY CostIsNat
<1>3. Award(h, <<t, o>>, pool) =
        [truck |-> t, order |-> o, carrier |-> h, owner |-> HaulierOf[o],
         cost |-> assignment_cost(t, o), pool |-> pool, round |-> round]
  BY DEF Award, Cost
<1>4. Cost(<<t, o>>) = assignment_cost(t, o)
  BY DEF Cost
<1> QED
  BY <1>1, <1>2, <1>3, <1>4 DEF Sound, Papers

LEMMA InitMarket == ASSUME MarketFacts, Init PROVE MarketInv
<1>0. /\ phase = "open" /\ turn = 1 /\ gone = {} /\ placed = [o \in Orders |-> {}] /\ offered = {}
      /\ bids = {} /\ private = FALSE /\ awards = {} /\ round = 0 /\ converged = FALSE
      /\ tick = 0 /\ stats = NoStats /\ published = round_stats(NoStats) /\ faults = 0
  BY Zenon DEF Init
<1>1. MarketTyped
  <2>1. Where
    <3>1. at \in [Trucks \cup Orders -> TruckPlaces \cup OrderPlaces]
      BY Zenon DEF Init
    <3> QED BY <3>1 DEF Where, MarketFacts
  <2>2. \A o \in Orders : placed[o] = {}
    BY <1>0
  <2>3. phase = "open" /\ turn \in Nat \ {0} /\ round \in Nat /\ offered = {}
    BY <1>0
  <2>4. private \in BOOLEAN /\ converged \in BOOLEAN
    BY <1>0, Zenon
  <2> QED BY <2>1, <2>2, <2>3, <2>4 DEF MarketTyped
<1>2. Apart /\ Phases /\ Untouched /\ Fair
  BY <1>0 DEF Apart, Phases, Untouched, Fair
<1>3. OfferedIsFree /\ BidsStand /\ RoundsAward /\ NothingLeft
  BY <1>0 DEF OfferedIsFree, BidsStand, RoundsAward, NothingLeft
<1>4. Settled
  BY <1>0 DEF Settled, OwnersKeepTheirs, EveryRoundAwards, ConvergedIsExhausted
<1>5. Reported
  BY <1>0 DEF Reported, NoStats, round_stats, Counts, Unset
<1> QED
  BY <1>1, <1>2, <1>3, <1>4, <1>5 DEF MarketInv

-----------------------------------------------------------------------------
(* The partitioned planner.                                                *)

LEMMA BucketPairsOf ==
  ASSUME MarketFacts, NEW h \in Companies, NEW P \in BucketPairs(Component(h))
  PROVE  /\ P \subseteq Trucks \X Orders
         /\ \A p \in P :
              /\ p[1] \notin gone /\ p[2] \notin gone
              /\ HaulierOf[p[1]] \in Component(h) /\ HaulierOf[p[2]] \in Component(h)
              /\ pair_allowed_partitioned(p[1], p[2])
         /\ get_solver = "GreedyNearest" =>
              \A t, o : t \in Trucks \ gone /\ o \in Orders \ gone /\ HaulierOf[o] \in Component(h)
                        /\ pair_allowed(t, o) /\ InSight(t, o) => <<t, o>> \in P
<1> DEFINE C == Component(h)
           os == UNION {OrdersOf(c) : c \in C}
           ts == UNION {Fleet(c) : c \in C}
           F == {p \in Trucks \X os : pair_allowed_partitioned(p[1], p[2])}
           f == [o \in os |-> Serves(o)]
<1>1. \A x : x \in os <=> x \in Orders /\ x \notin gone /\ HaulierOf[x] \in C
  <2>1. \A x : x \in os <=> \E c \in C : x \in OrdersOf(c)
    BY Zenon
  <2> HIDE DEF os
  <2> QED BY <2>1 DEF OrdersOf, UnassignedOrders
<1>2. \A x : x \in ts <=> x \in Trucks /\ x \notin gone /\ HaulierOf[x] \in C
  <2>1. \A x : x \in ts <=> \E c \in C : x \in Fleet(c)
    BY Zenon
  <2> HIDE DEF ts
  <2> QED BY <2>1 DEF Fleet, AssignableTrucks
<1>3. C \subseteq Companies /\ SelfContained(C)
  BY ComponentIsLeast
<1>4. CASE get_solver = "GreedyNearest"
  <2>1. P \in CandidatePairs(f, F)
    BY <1>4, Zenon DEF BucketPairs
  <2>2. \A o \in os : Serves(o) \in SUBSET Trucks
    BY DEF Serves, AssignableTrucks
  <2>3. DOMAIN f = os /\ \A o \in os : f[o] = Serves(o)
    BY Zenon
  <2>4. \A p \in F : p \in Trucks \X Orders /\ p[2] \in os /\ pair_allowed_partitioned(p[1], p[2])
    <3> HIDE DEF os
    <3> QED BY <1>1
  <2>5. \A t \in Trucks, o \in os : pair_allowed_partitioned(t, o) => <<t, o>> \in F
    <3> HIDE DEF os
    <3> QED OBVIOUS
  <2> HIDE DEF F, f, os
  <2>6. /\ \A p \in P : p \in F /\ p[1] \in Serves(p[2])
        /\ \A p \in F : p[1] \in Serves(p[2]) /\ InSight(p[1], p[2]) => p \in P
    <3>1. \A o \in DOMAIN f : f[o] \in SUBSET Trucks
      BY <2>2, <2>3
    <3>2. \A p \in F : p[2] \in DOMAIN f
      BY <2>3, <2>4
    <3>3. /\ \A p \in P : p \in F /\ p[1] \in f[p[2]]
          /\ \A p \in F : p[1] \in f[p[2]] /\ InSight(p[1], p[2]) => p \in P
      BY <2>1, <3>1, <3>2, CandidatesOf
    <3> QED BY <2>3, <2>4, <3>3, Zenon
  <2>7. ASSUME NEW p \in P PROVE p[1] \notin gone /\ HaulierOf[p[1]] \in C
    <3>1. p[1] \in Serves(p[2]) /\ HaulierOf[p[2]] \in C
      BY <1>1, <2>4, <2>6
    <3>2. p[1] \notin gone
          /\ (HaulierOf[p[1]] = HaulierOf[p[2]] \/ HaulierOf[p[2]] \in Partners(HaulierOf[p[1]]))
      BY <3>1 DEF Serves, AssignableTrucks, share_eligible
    <3>3. HaulierOf[p[2]] \in Partners(HaulierOf[p[1]]) => HaulierOf[p[1]] \in Partners(HaulierOf[p[2]])
      BY PartnersMutual
    <3> QED BY <1>3, <3>1, <3>2, <3>3, Zenon DEF SelfContained
  <2>8. ASSUME NEW t, NEW o, t \in Trucks \ gone, o \in Orders \ gone, HaulierOf[o] \in C,
               pair_allowed(t, o), InSight(t, o)
        PROVE  <<t, o>> \in P
    <3>1. o \in os /\ t \in Serves(o) /\ pair_allowed_partitioned(t, o)
      BY <1>1, <2>8 DEF Serves, AssignableTrucks, pair_allowed_partitioned, pair_allowed, haulier_matches
    <3>2. <<t, o>> \in F
      BY <2>5, <2>8, <3>1
    <3>3. <<t, o>>[1] = t /\ <<t, o>>[2] = o
      OBVIOUS
    <3> QED BY <2>6, <2>8, <3>1, <3>2, <3>3
  <2> HIDE DEF C
  <2> QED BY <1>1, <2>4, <2>6, <2>7, <2>8 DEF C
<1>5. CASE get_solver # "GreedyNearest"
  <2>1. PICK s \in Sampled(ts) : P = {p \in s \X os : pair_allowed_partitioned(p[1], p[2])}
    BY <1>5, Zenon DEF BucketPairs
  <2> HIDE DEF ts, os
  <2>2. ts \in SUBSET Trucks
    BY <1>2
  <2>3. s \subseteq ts
    BY <2>1, <2>2, SamplesOf
  <2> HIDE DEF C
  <2>4. \A p \in P : /\ p \in Trucks \X Orders /\ p[1] \in ts /\ p[2] \in os
                     /\ pair_allowed_partitioned(p[1], p[2])
    BY <1>1, <1>2, <2>1, <2>3
  <2> QED BY <1>1, <1>2, <1>5, <2>4 DEF C
<1> QED
  BY <1>4, <1>5

\* A company whose turn it is gets its component solved, unless an earlier company of it did.
LEMMA FirstOfComponent ==
  ASSUME MarketFacts, NEW i \in Turns,
         i = CHOOSE k \in DOMAIN Hauliers :
               /\ Hauliers[k] \in Component(Hauliers[i])
               /\ \A j \in 1 .. k - 1 : Hauliers[j] \notin Component(Hauliers[i])
  PROVE  IsFirst(i)
<1> DEFINE h == Hauliers[i]
           T == {k \in Turns : Hauliers[k] \in Component(h)}
<1>1. h \in Companies /\ Turns \in SUBSET Nat /\ DOMAIN Hauliers = Turns /\ i \in T
  BY Listed, ComponentIsLeast DEF Turns
<1>2. PICK k \in T : \A j \in T : k <= j
  <2> HIDE DEF T
  <2>1. T \in SUBSET Nat /\ T # {}
    BY <1>1 DEF T
  <2> QED BY <2>1, LeastElement
<1>3. \A j \in 1 .. k - 1 : Hauliers[j] \notin Component(h)
  <2> SUFFICES ASSUME NEW j \in 1 .. k - 1 PROVE j \notin T
    <3>1. \A j \in 1 .. k - 1 : j \in Turns
      BY <1>1, Listed DEF Turns
    <3> QED BY <3>1
  <2>1. j \in Int /\ k \in Nat /\ j < k
    BY <1>1
  <2> HIDE DEF T
  <2> QED BY <1>2, <2>1
<1>4. k \in DOMAIN Hauliers /\ Hauliers[k] \in Component(h)
  BY <1>1
<1> HIDE DEF T, h
<1> QED
  BY <1>3, <1>4, Zenon DEF IsFirst, h

LEMMA AssignPartitionedStep ==
  ASSUME MarketFacts, MarketInv, AssignPartitioned
  PROVE  MarketInv'
<1> DEFINE h == Hauliers[turn]
           N == Len(Hauliers)
<1>1. /\ phase = "open" /\ resolved_topology = "partitioned" /\ turn <= N
      /\ turn' = turn + 1
      /\ UNCHANGED <<at, planner, phase, placed, offered, bids, private, round, converged,
                     tick, stats, published, faults, gone>>
  BY DEF AssignPartitioned, book
<1>2. /\ MarketTyped /\ Apart /\ Phases /\ Untouched /\ Fair /\ Reported
  BY DEF MarketInv
<1>3. turn \in Nat \ {0} /\ turn \in Turns /\ turn' \in Nat \ {0} /\ turn' > turn /\ round \in Nat /\ Where
      /\ turn \in Int /\ turn' \in Int
  BY <1>1, <1>2, Listed DEF MarketTyped, Turns
<1>4. h \in Companies /\ Turns \in SUBSET Nat
  BY <1>3, Listed DEF Turns
<1>5. resolved_topology' = "partitioned" /\ ~converged /\ bids = {} /\ round = 0
  BY <1>1, <1>2, SameWorld DEF Phases
<1>6. MarketTyped' /\ Phases' /\ OfferedIsFree' /\ BidsStand' /\ RoundsAward' /\ NothingLeft' /\ Settled'
  <2>1. MarketTyped'
    BY <1>1, <1>2, <1>3, Zenon DEF MarketTyped, Where
  <2>2. Phases'
    BY <1>1, <1>5 DEF Phases
  <2>3. OfferedIsFree' /\ BidsStand' /\ RoundsAward' /\ NothingLeft'
    BY <1>1 DEF OfferedIsFree, BidsStand, RoundsAward, NothingLeft
  <2>4. Settled'
    BY <1>1 DEF Settled, OwnersKeepTheirs, EveryRoundAwards, ConvergedIsExhausted
  <2> QED BY <2>1, <2>2, <2>3, <2>4
<1>7. Reported'
  BY <1>1, <1>2, ReportedStays
<1>8. CASE UNCHANGED awards
  <2>1. Apart' /\ Fair'
    BY <1>1, <1>2, <1>3, <1>8, ApartStays, FairStays
  <2>2. Untouched'
    <3>1. \A i \in Turns : i >= turn' => i >= turn
      BY <1>3, <1>4
    <3> QED BY <1>1, <1>2, <1>8, <3>1, Zenon DEF Untouched
  <2> QED BY <1>6, <1>7, <2>1, <2>2 DEF MarketInv
<1>9. CASE ~ UNCHANGED awards
  <2>1. /\ turn = CHOOSE i \in DOMAIN Hauliers :
                    /\ Hauliers[i] \in Component(Hauliers[turn])
                    /\ \A j \in 1 .. i - 1 : Hauliers[j] \notin Component(Hauliers[turn])
        /\ \E pairs \in BucketPairs(Component(h)) : \E m \in Solve(pairs) :
             awards' = awards \cup {Award(HaulierOf[p[1]], p, NoPool) : p \in m}
    BY <1>9, Zenon DEF AssignPartitioned
  <2>20. PICK pairs \in BucketPairs(Component(h)) : \E m \in Solve(pairs) :
           awards' = awards \cup {Award(HaulierOf[p[1]], p, NoPool) : p \in m}
    BY <2>1, Zenon
  <2>2. PICK m \in Solve(pairs) :
          awards' = awards \cup {Award(HaulierOf[p[1]], p, NoPool) : p \in m}
    BY <2>20, Zenon
  <2>3. IsFirst(turn)
    BY <1>3, <2>1, FirstOfComponent
  <2> DEFINE C == Component(h)
             new(p) == Award(HaulierOf[p[1]], p, NoPool)
  <2>4. C \subseteq Companies /\ h \in C
    BY <1>4, ComponentIsLeast
  <2>5. /\ m \subseteq pairs /\ IsMatching(m)
        /\ get_solver = "GreedyNearest" =>
             \A p \in pairs : p \in m \/ \E q \in m : Meets(p, q) /\ Cost(q) <= Cost(p)
    BY SolutionsOf
  <2>6. /\ pairs \subseteq Trucks \X Orders
        /\ \A p \in pairs :
              /\ p[1] \notin gone /\ p[2] \notin gone
              /\ HaulierOf[p[1]] \in C /\ HaulierOf[p[2]] \in C
              /\ pair_allowed_partitioned(p[1], p[2])
        /\ get_solver = "GreedyNearest" =>
              \A t, o : t \in Trucks \ gone /\ o \in Orders \ gone /\ HaulierOf[o] \in C
                        /\ pair_allowed(t, o) /\ InSight(t, o) => <<t, o>> \in pairs
    BY <1>4, BucketPairsOf
  <2> HIDE DEF C, h, N
  <2>7. ASSUME NEW p \in m
        PROVE  /\ p \in Trucks \X Orders /\ p = <<p[1], p[2]>>
               /\ Sound(new(p)) /\ Travels(new(p))
               /\ new(p).truck = p[1] /\ new(p).order = p[2] /\ new(p).cost = Cost(p)
               /\ new(p).carrier = HaulierOf[p[1]] /\ new(p).owner = HaulierOf[p[2]]
               /\ new(p).carrier \in C /\ new(p).owner \in C
    <3>1. p \in Trucks \X Orders /\ p = <<p[1], p[2]>> /\ p[1] \in Trucks /\ p[2] \in Orders
      BY <2>5, <2>6
    <3>2. /\ p[1] \notin gone /\ p[2] \notin gone
          /\ HaulierOf[p[1]] \in C /\ HaulierOf[p[2]] \in C
          /\ pair_allowed_partitioned(p[1], p[2])
      BY <2>5, <2>6
    <3>3. /\ pair_allowed_ignoring_haulier(p[1], p[2])
          /\ HaulierOf[p[1]] = HaulierOf[p[2]] \/ HaulierOf[p[2]] \in Partners(HaulierOf[p[1]])
      BY <3>2, Zenon DEF pair_allowed_partitioned, pair_allowed, haulier_matches, share_eligible
    <3>4. HaulierOf[p[1]] \in Companies /\ HaulierOf[p[2]] # None /\ NoPool \in Nat
      BY <2>4, <3>2 DEF MarketFacts, NoPool
    <3> DEFINE b == Award(HaulierOf[p[1]], <<p[1], p[2]>>, NoPool)
    <3>5. /\ Sound(b) /\ b.truck = p[1] /\ b.order = p[2] /\ b.carrier = HaulierOf[p[1]]
          /\ b.owner = HaulierOf[p[2]] /\ b.cost = Cost(<<p[1], p[2]>>)
      BY <1>3, <3>1, <3>2, <3>3, <3>4, AwardOf
    <3>6. new(p) = b
      BY <3>1, Zenon
    <3> HIDE DEF b, new
    <3>7. Travels(new(p))
      <4>1. HaulierOf[p[2]] \in Partners(HaulierOf[p[1]]) => HaulierOf[p[1]] \in Partners(HaulierOf[p[2]])
        BY PartnersMutual
      <4> QED BY <1>1, <3>3, <3>5, <3>6, <4>1 DEF Travels
    <3> QED BY <3>1, <3>2, <3>5, <3>6, <3>7
  <2> HIDE DEF new
  <2>8. \A a : a \in awards' <=> a \in awards \/ \E p \in m : a = new(p)
    BY <2>2 DEF new
  <2>9. ASSUME NEW a \in awards, NEW p \in m
        PROVE  a.truck # p[1] /\ a.order # p[2]
    <3>1. a.carrier \notin C /\ a.owner \notin C
      BY <1>1, <1>2, <1>3, <2>3 DEF Untouched, C, h
    <3>2. a.carrier = HaulierOf[a.truck] /\ a.owner = HaulierOf[a.order]
      BY <1>2 DEF Apart, Sound
    <3> QED BY <2>7, <3>1, <3>2
  <2>10. ASSUME NEW p \in m, NEW q \in m, p # q PROVE p[1] # q[1] /\ p[2] # q[2]
    BY <2>5, <2>10, Zenon DEF IsMatching, Meets
  <2>11. Apart'
    <3>1. \A b : Sound(b) => Sound(b)'
      BY <1>1, <1>3, SoundStays
    <3>2. \A b : Travels(b)' <=> Travels(b)
      BY <1>1, SameWorld DEF Travels
    <3>3. \A b \in awards' : Sound(b)' /\ Travels(b)'
      BY <1>2, <2>7, <2>8, <3>1, <3>2 DEF Apart
    <3>4. ASSUME NEW a \in awards', NEW b \in awards', a # b
          PROVE  a.truck # b.truck /\ a.order # b.order
      <4>1. CASE a \in awards /\ b \in awards
        BY <1>2, <3>4, <4>1 DEF Apart
      <4>2. ASSUME NEW p \in m, a = new(p), b \in awards PROVE a.truck # b.truck /\ a.order # b.order
        BY <2>7, <2>9, <4>2
      <4>3. ASSUME NEW p \in m, b = new(p), a \in awards PROVE a.truck # b.truck /\ a.order # b.order
        BY <2>7, <2>9, <4>3
      <4>4. ASSUME NEW p \in m, NEW q \in m, a = new(p), b = new(q)
            PROVE  a.truck # b.truck /\ a.order # b.order
        <5>1. p # q
          BY <3>4, <4>4
        <5> QED BY <2>7, <2>10, <4>4, <5>1
      <4> QED BY <2>8, <4>1, <4>2, <4>3, <4>4, Zenon
    <3> QED BY <3>3, <3>4 DEF Apart
  <2>12. Untouched'
    <3> SUFFICES ASSUME NEW a \in awards', NEW i \in Turns, i >= turn', IsFirst(i)
                 PROVE  a.carrier \notin Component(Hauliers[i]) /\ a.owner \notin Component(Hauliers[i])
      BY Zenon DEF Untouched, IsFirst
    <3>1. i >= turn /\ turn \in 1 .. i - 1
      BY <1>3, <1>4
    <3>2. CASE a \in awards
      BY <1>1, <1>2, <3>1, <3>2 DEF Untouched
    <3>3. ASSUME NEW p \in m, a = new(p)
          PROVE  a.carrier \notin Component(Hauliers[i]) /\ a.owner \notin Component(Hauliers[i])
      <4>1. a.carrier \in C /\ a.owner \in C
        BY <2>7, <3>3
      <4>2. h \notin Component(Hauliers[i])
        BY <3>1 DEF IsFirst, h
      <4>3. Hauliers[i] \in Companies
        BY Listed DEF Turns
      <4>4. ASSUME NEW x, x \in C, x \in Component(Hauliers[i]) PROVE FALSE
        BY <1>4, <4>2, <4>3, <4>4, ComponentsPart DEF C
      <4> QED BY <4>1, <4>4
    <3> QED BY <2>8, <3>2, <3>3, Zenon
  <2>13. Fair'
    <3> SUFFICES ASSUME get_solver = "GreedyNearest", NEW a \in awards', a.carrier # a.owner,
                        \A t \in Fleet(a.owner) : InSight(t, a.order),
                        NEW t \in Fleet(a.owner) \ Taken', pair_allowed(t, a.order)
                 PROVE  a.cost <= assignment_cost(t, a.order)
      <4>1. \A f : Fleet(f)' = Fleet(f)
        BY <1>1 DEF Fleet, AssignableTrucks
      <4> QED BY <1>1, <4>1, SameWorld, Zenon DEF Fair, OwnNoCheaper
    <3>1. \A x : x \in Taken' <=> \E b \in awards' : x = b.truck \/ x = b.order
      BY DEF Taken
    <3>2. CASE a \in awards
      <4>1. t \notin Taken
        BY <2>8, <3>1, TakenIs
      <4> QED BY <1>1, <1>2, <3>2, <4>1 DEF Fair, OwnNoCheaper
    <3>3. ASSUME NEW p \in m, a = new(p)
          PROVE  a.cost <= assignment_cost(t, a.order)
      <4>1. /\ p \in Trucks \X Orders /\ p = <<p[1], p[2]>> /\ a.order = p[2] /\ a.cost = Cost(p)
            /\ a.owner = HaulierOf[p[2]] /\ a.owner \in C
        BY <2>7, <3>3
      <4>2. t \in Trucks \ gone /\ p[2] \in Orders \ gone /\ InSight(t, p[2]) /\ HaulierOf[p[2]] \in C
        BY <2>5, <2>6, <4>1 DEF Fleet, AssignableTrucks
      <4>3. <<t, p[2]>> \in pairs
        BY <2>6, <4>1, <4>2
      <4>4. \A q \in m : q[1] # t
        BY <2>7, <2>8, <3>1
      <4>5. <<t, p[2]>> \notin m
        BY <4>4
      <4>6. PICK q \in m : Meets(<<t, p[2]>>, q) /\ Cost(q) <= Cost(<<t, p[2]>>)
        BY <2>5, <4>3, <4>5
      <4>7. q = p
        <5>1. q[2] = p[2]
          BY <4>4, <4>6 DEF Meets
        <5> QED BY <2>10, <5>1
      <4>8. Cost(<<t, p[2]>>) = assignment_cost(t, p[2])
        BY DEF Cost
      <4> QED BY <4>1, <4>6, <4>7, <4>8
    <3> QED BY <2>8, <3>2, <3>3, Zenon
  <2> QED BY <1>6, <1>7, <2>11, <2>12, <2>13 DEF MarketInv
<1> QED
  BY <1>8, <1>9

LEMMA PartitionedDoneStep ==
  ASSUME MarketFacts, MarketInv, PartitionedDone
  PROVE  MarketInv'
<1>1. /\ phase = "open" /\ resolved_topology = "partitioned" /\ phase' = "assigned" /\ turn' = 1
      /\ UNCHANGED <<at, planner, placed, offered, bids, private, awards, round, converged,
                     tick, stats, published, faults, gone>>
  BY DEF PartitionedDone, book, market
<1>2. /\ MarketTyped /\ Apart /\ Phases /\ Fair /\ Reported /\ round \in Nat
  BY DEF MarketInv, MarketTyped
<1>3. resolved_topology' = "partitioned" /\ ~converged /\ bids = {}
  BY <1>1, <1>2, SameWorld DEF Phases
<1>4. MarketTyped'
  <2>1. turn' \in Nat \ {0}
    BY <1>1
  <2>2. phase' = "assigned"
    BY <1>1
  <2> QED BY <1>1, <1>2, <2>1, <2>2, Zenon DEF MarketTyped, Where
<1>5. Phases' /\ Untouched'
  BY <1>1, <1>3 DEF Phases, Untouched
<1>6. OfferedIsFree' /\ BidsStand' /\ RoundsAward' /\ NothingLeft'
  BY <1>1 DEF OfferedIsFree, BidsStand, RoundsAward, NothingLeft
<1>7. Settled'
  BY <1>1, <1>3 DEF Settled, OwnersKeepTheirs, EveryRoundAwards, ConvergedIsExhausted
<1>8. Reported' /\ Apart' /\ Fair'
  BY <1>1, <1>2, ReportedStays, ApartStays, FairStays
<1> QED
  BY <1>4, <1>5, <1>6, <1>7, <1>8 DEF MarketInv

-----------------------------------------------------------------------------
(* The pooled planner: contributions and the ends of a round.              *)

LEMMA ContributeStep ==
  ASSUME MarketFacts, MarketInv, Contribute
  PROVE  MarketInv'
<1>1. /\ phase = "open" /\ resolved_topology = "pooled" /\ phase' = "round"
      /\ placed' = [o \in Orders |-> contribute(o)]
      /\ UNCHANGED <<at, planner, turn, offered, bids, private, awards, round, converged,
                     tick, stats, published, faults, gone>>
  BY DEF Contribute, book
<1>2. /\ MarketTyped /\ Phases /\ Reported
  BY DEF MarketInv
<1>3. resolved_topology' = "pooled" /\ ~converged /\ awards = {} /\ round = 0
  BY <1>1, <1>2, SameWorld DEF Phases
<1>4. ASSUME NEW o \in Orders PROVE placed'[o] \subseteq {p \in DOMAIN Pools : HaulierOf[o] \in Pools[p]}
  <2>1. placed'[o] = UNION {pools_for(h) : h \in {g \in Companies : HaulierOf[o] = g /\ o \in offer(g)}}
    BY <1>1 DEF contribute
  <2>2. \A p : p \in placed'[o] =>
                 \E h \in {g \in Companies : HaulierOf[o] = g /\ o \in offer(g)} : p \in pools_for(h)
    BY <2>1, Zenon
  <2> QED BY <2>2 DEF pools_for
<1>5. MarketTyped'
  BY <1>1, <1>2, <1>4, Zenon DEF MarketTyped, Where
<1>6. Apart' /\ Fair' /\ Untouched'
  BY <1>1, <1>3 DEF Apart, Fair, Untouched
<1>7. Phases'
  BY <1>1, <1>3 DEF Phases
<1>8. OfferedIsFree' /\ BidsStand' /\ RoundsAward' /\ NothingLeft'
  BY <1>1, <1>3 DEF OfferedIsFree, BidsStand, RoundsAward, NothingLeft
<1>9. Settled'
  BY <1>1, <1>3 DEF Settled, OwnersKeepTheirs, EveryRoundAwards, ConvergedIsExhausted
<1>10. Reported'
  BY <1>1, <1>2, ReportedStays
<1> QED
  BY <1>5, <1>6, <1>7, <1>8, <1>9, <1>10 DEF MarketInv

\* The candidates of a round: free on both sides, and all in sight when the search is greedy.
LEMMA RoundCandidatesOf ==
  ASSUME MarketFacts, NEW P \in build_round_candidates
  PROVE  /\ P \subseteq Trucks \X Orders
         /\ \A p \in P : Offer(p) /\ p[1] \notin Taken /\ p[2] \notin Taken
         /\ get_solver = "GreedyNearest" =>
              \A o \in FreeOrders : \A h \in eligible_carriers(o) : \A t \in FreeTrucks(h) :
                pair_allowed_for(t, o) /\ InSight(t, o) => <<t, o>> \in P
<1> DEFINE carry(o) == UNION {FreeTrucks(h) : h \in eligible_carriers(o)}
           f == [o \in FreeOrders |-> carry(o)]
           F == {p \in Trucks \X FreeOrders : pair_allowed_for(p[1], p[2])}
<1>1. CASE get_solver # "GreedyNearest"
  <2>1. P = {}
    BY <1>1 DEF build_round_candidates
  <2> QED BY <1>1, <2>1
<1>2. CASE get_solver = "GreedyNearest"
  <2>1. P \in CandidatePairs(f, F)
    BY <1>2, Zenon DEF build_round_candidates
  <2>2. \A o, t : t \in carry(o) <=> \E h \in eligible_carriers(o) : t \in FreeTrucks(h)
    BY Zenon
  <2>3. \A o : carry(o) \in SUBSET Trucks
    <3> HIDE DEF carry
    <3> QED BY <2>2, FreeSets
  <2>4. DOMAIN f = FreeOrders /\ \A o \in FreeOrders : f[o] = carry(o)
    BY Zenon
  <2>5. \A p \in F : p \in Trucks \X Orders /\ p[2] \in FreeOrders /\ pair_allowed_for(p[1], p[2])
    BY FreeSets
  <2>6. \A t \in Trucks, o \in FreeOrders : pair_allowed_for(t, o) => <<t, o>> \in F
    OBVIOUS
  <2> HIDE DEF F, f, carry
  <2>7. /\ \A p \in P : p \in F /\ p[1] \in carry(p[2])
        /\ \A p \in F : p[1] \in carry(p[2]) /\ InSight(p[1], p[2]) => p \in P
    <3>1. \A o \in DOMAIN f : f[o] \in SUBSET Trucks
      BY <2>3, <2>4
    <3>2. \A p \in F : p[2] \in DOMAIN f
      BY <2>4, <2>5
    <3>3. /\ \A p \in P : p \in F /\ p[1] \in f[p[2]]
          /\ \A p \in F : p[1] \in f[p[2]] /\ InSight(p[1], p[2]) => p \in P
      BY <2>1, <3>1, <3>2, CandidatesOf
    <3> QED BY <2>4, <2>5, <3>3, Zenon
  <2>8. ASSUME NEW p \in P PROVE p \in Trucks \X Orders /\ Offer(p) /\ p[1] \notin Taken /\ p[2] \notin Taken
    <3>1. p \in Trucks \X Orders /\ p[2] \in FreeOrders /\ pair_allowed_for(p[1], p[2])
      BY <2>5, <2>7
    <3>2. PICK h \in eligible_carriers(p[2]) : p[1] \in FreeTrucks(h)
      BY <2>2, <2>7
    <3> QED BY <3>1, <3>2, FreeSets DEF Offer
  <2>9. ASSUME NEW o \in FreeOrders, NEW h \in eligible_carriers(o), NEW t \in FreeTrucks(h),
               pair_allowed_for(t, o), InSight(t, o)
        PROVE  <<t, o>> \in P
    <3>1. t \in Trucks /\ t \in carry(o)
      BY <2>2, FreeSets
    <3>2. <<t, o>> \in F /\ <<t, o>>[1] = t /\ <<t, o>>[2] = o
      BY <2>6, <2>9, <3>1
    <3> QED BY <2>7, <2>9, <3>1, <3>2
  <2> QED BY <2>8, <2>9
<1> QED
  BY <1>1, <1>2

LEMMA SameFree ==
  ASSUME UNCHANGED <<gone, awards>>
  PROVE  /\ Taken' = Taken /\ FreeOrders' = FreeOrders
         /\ \A h : FreeTrucks(h)' = FreeTrucks(h) /\ OrdersOf(h)' = OrdersOf(h)
BY DEF Taken, FreeOrders, FreeTrucks, Fleet, AssignableTrucks, UnassignedOrders, OrdersOf

LEMMA OpenRoundStep ==
  ASSUME MarketFacts, MarketInv, OpenRound
  PROVE  MarketInv'
<1>1. /\ phase = "round" /\ FreeOrders # {} /\ offered' \in build_round_candidates
      /\ round' = round + 1 /\ turn' = 1 /\ bids' = {} /\ private' = FALSE /\ phase' = "bid"
      /\ UNCHANGED <<at, planner, placed, awards, converged, tick, stats, published, faults, gone>>
  BY DEF OpenRound, book
<1>2. /\ MarketTyped /\ Apart /\ Phases /\ Fair /\ RoundsAward /\ Reported
  BY DEF MarketInv
<1>3. round \in Nat /\ round' \in Nat /\ round <= round' /\ turn' \in Nat \ {0}
  BY <1>1, <1>2 DEF MarketTyped
<1>4. resolved_topology' = "pooled" /\ resolved_topology = "pooled" /\ ~converged
  BY <1>1, <1>2, SameWorld DEF Phases
<1>5. Taken' = Taken /\ FreeOrders' = FreeOrders /\ \A h : FreeTrucks(h)' = FreeTrucks(h)
  BY <1>1, SameFree
<1>6. /\ offered' \subseteq Trucks \X Orders
      /\ \A p \in offered' : Offer(p) /\ p[1] \notin Taken /\ p[2] \notin Taken
      /\ get_solver = "GreedyNearest" =>
           \A o \in FreeOrders : \A h \in eligible_carriers(o) : \A t \in FreeTrucks(h) :
             pair_allowed_for(t, o) /\ InSight(t, o) => <<t, o>> \in offered'
  BY <1>1, RoundCandidatesOf
<1>7. MarketTyped'
  <2>1. private' \in BOOLEAN
    BY <1>1, Zenon
  <2>2. phase' = "bid"
    BY <1>1
  <2> QED BY <1>1, <1>2, <1>3, <1>6, <2>1, <2>2, Zenon DEF MarketTyped, Where
<1>8. Apart' /\ Fair' /\ Reported'
  BY <1>1, <1>2, <1>3, ApartStays, FairStays, ReportedStays
<1>9. Phases' /\ Untouched'
  BY <1>1, <1>4 DEF Phases, Untouched
<1>10. OfferedIsFree'
  <2>1. \A p : Offer(p) => Offer(p)'
    BY <1>1, SameWorld DEF Offer, eligible_carriers
  <2> QED BY <1>5, <1>6, <2>1, Zenon DEF OfferedIsFree
<1>11. BidsStand'
  <2>1. \A a \in awards : a.round # round'
    <3> TAKE a \in awards
    <3>1. a.round \in Nat /\ a.round <= round
      BY <1>2 DEF Apart, Sound, Papers
    <3> QED BY <1>1, <1>3, <3>1
  <2> QED BY <1>1, <2>1 DEF BidsStand
<1>12. RoundsAward'
  <2>1. \A r \in 1 .. round' - 1 : Awarded(r)'
    BY <1>1, <1>2, <1>3 DEF RoundsAward, Awarded
  <2> QED BY <1>1, <1>5, <2>1 DEF RoundsAward
<1>13. NothingLeft'
  <2>1. \A o : eligible_carriers(o)' = eligible_carriers(o)
    BY <1>1 DEF eligible_carriers
  <2>2. OfferedIsAll'
    BY <1>1, <1>5, <1>6, <2>1, SameWorld DEF OfferedIsAll
  <2>3. \A i \in Turns : ~ (i < turn')
    BY <1>1, Listed DEF Turns
  <2> QED BY <2>2, <2>3 DEF NothingLeft
<1>14. Settled'
  BY <1>1 DEF Settled, OwnersKeepTheirs, EveryRoundAwards, ConvergedIsExhausted
<1> QED
  BY <1>7, <1>8, <1>9, <1>10, <1>11, <1>12, <1>13, <1>14 DEF MarketInv

LEMMA EndRoundsStep ==
  ASSUME MarketFacts, MarketInv, EndRounds
  PROVE  MarketInv'
<1>1. /\ phase = "round" /\ converged' = (FreeOrders = {}) /\ phase' = "assigned" /\ turn' = 1
      /\ UNCHANGED <<at, planner, placed, offered, bids, private, awards, round,
                     tick, stats, published, faults, gone>>
  BY DEF EndRounds, book
<1>2. /\ MarketTyped /\ Apart /\ Phases /\ Fair /\ RoundsAward /\ Settled /\ Reported /\ round \in Nat
  BY DEF MarketInv, MarketTyped
<1>3. resolved_topology' = "pooled" /\ resolved_topology = "pooled"
  BY <1>1, <1>2, SameWorld DEF Phases
<1>4. FreeOrders' = FreeOrders
  BY <1>1, SameFree
<1>5. MarketTyped'
  <2>1. converged' \in BOOLEAN
    BY <1>1, Zenon
  <2>2. phase' = "assigned" /\ turn' \in Nat \ {0}
    BY <1>1
  <2> QED BY <1>1, <1>2, <2>1, <2>2, Zenon DEF MarketTyped, Where
<1>6. Apart' /\ Fair' /\ Reported'
  BY <1>1, <1>2, ApartStays, FairStays, ReportedStays
<1>7. Phases' /\ Untouched'
  BY <1>1, <1>3 DEF Phases, Untouched
<1>8. OfferedIsFree' /\ BidsStand' /\ RoundsAward' /\ NothingLeft'
  BY <1>1 DEF OfferedIsFree, BidsStand, RoundsAward, NothingLeft
<1>9. OwnersKeepTheirs'
  BY <1>1, <1>2, SameWorld DEF Settled, OwnersKeepTheirs
<1>10. EveryRoundAwards'
  <2>1. \A r \in 1 .. round : \E a \in awards : a.round = r
    BY <1>1, <1>2 DEF RoundsAward, Awarded
  <2>2. ~ (converged' /\ FreeOrders' # {})
    BY <1>1, <1>4
  <2> QED BY <1>1, <2>1, <2>2 DEF EveryRoundAwards
<1>11. ConvergedIsExhausted'
  BY <1>1, <1>4, Zenon DEF ConvergedIsExhausted
<1> QED
  BY <1>5, <1>6, <1>7, <1>8, <1>9, <1>10, <1>11 DEF MarketInv, Settled

-----------------------------------------------------------------------------
(* A company's turn in a round.                                            *)

LEMMA PoolOf ==
  ASSUME MarketFacts, MarketTyped, NEW o \in Orders, NEW h, placed[o] \cap pools_for(h) # {}
  PROVE  /\ pool_of_order(o, h) \in placed[o] \cap pools_for(h)
         /\ pool_of_order(o, h) \in Nat /\ pool_of_order(o, h) # NoPool
<1> DEFINE X == placed[o] \cap pools_for(h)
<1>1. X \in SUBSET Nat /\ NoPool \notin X
  BY PoolsHoldCompanies DEF MarketTyped
<1>2. pool_of_order(o, h) = Min(X)
  BY DEF pool_of_order
<1>3. X # {}
  OBVIOUS
<1> HIDE DEF X
<1>4. Min(X) \in X
  BY <1>1, <1>3, LeastOf
<1> QED
  BY <1>1, <1>2, <1>4 DEF X

\* A bid claims planned pairs; one that is sure to claim does, when there are any.
LEMMA ClaimsOf ==
  ASSUME NEW A, NEW B
  PROVE  /\ Claimed(A, B) \subseteq A
         /\ get_claim_policy = "ClaimAllPlanned" => Claimed(A, B) = A
         /\ get_claim_policy = "ClaimIfGainExceeds" /\ B = {} => Claimed(A, B) = A
<1>1. get_claim_policy \in {"ClaimAllPlanned", "ClaimNone", "ClaimIfGainExceeds"}
  BY DEF get_claim_policy, Known, Claims
<1>2. CASE get_claim_policy = "ClaimAllPlanned"
  <2>1. Claimed(A, B) = A
    BY <1>2 DEF Claimed
  <2> QED BY <1>2, <2>1
<1>3. CASE get_claim_policy = "ClaimNone"
  <2>1. Claimed(A, B) = {}
    BY <1>3 DEF Claimed
  <2> QED BY <1>3, <2>1
<1>4. CASE get_claim_policy = "ClaimIfGainExceeds"
  <2>1. Claimed(A, B) = {p \in A : GainSuffices(p, B)}
    BY <1>4 DEF Claimed
  <2>2. ASSUME B = {} PROVE \A p \in A : GainSuffices(p, B)
    BY <2>2, Zenon DEF GainSuffices
  <2> QED BY <1>4, <2>1, <2>2
<1> QED
  BY <1>1, <1>2, <1>3, <1>4

LEMMA CompanyPairsOf ==
  ASSUME MarketFacts, MarketInv, phase = "bid", turn \in Turns,
         NEW h, h = Hauliers[turn], NEW P \in CompanyPairs(h)
  PROVE  /\ \A p \in P :
              /\ p \in Trucks \X Orders /\ p = <<p[1], p[2]>>
              /\ p[1] \in FreeTrucks(h) /\ p[2] \in FreeOrders
              /\ pair_allowed_for(p[1], p[2])
              /\ HaulierOf[p[2]] # h => placed[p[2]] \cap pools_for(h) # {}
         /\ NothingCommitted =>
              \A t \in FreeTrucks(h), o \in FreeOrders : Servable(t, o) => <<t, o>> \in P
<1>1. turn \in Nat /\ turn >= turn /\ offered \subseteq Trucks \X Orders
      /\ \A o \in Orders : placed[o] \subseteq DOMAIN Pools
  BY DEF MarketInv, MarketTyped
<1>2. ASSUME NEW o \in Orders, h \in eligible_carriers(o), HaulierOf[o] # h
      PROVE  placed[o] \cap pools_for(h) # {}
  <2>1. h \in UNION {Pools[q] : q \in placed[o]}
    BY <1>2 DEF eligible_carriers
  <2>2. PICK q \in placed[o] : h \in Pools[q]
    BY <2>1, Zenon
  <2> QED BY <1>1, <2>2 DEF pools_for
<1>3. CASE get_solver = "GreedyNearest"
  <2>1. P = {p \in offered : HaulierOf[p[1]] = h}
    BY <1>3 DEF CompanyPairs
  <2>2. ASSUME NEW p \in P
        PROVE  /\ p \in Trucks \X Orders /\ p = <<p[1], p[2]>>
               /\ p[1] \in FreeTrucks(h) /\ p[2] \in FreeOrders
               /\ pair_allowed_for(p[1], p[2])
               /\ HaulierOf[p[2]] # h => placed[p[2]] \cap pools_for(h) # {}
    <3>1. p \in offered /\ HaulierOf[p[1]] = h /\ p \in Trucks \X Orders /\ p = <<p[1], p[2]>>
          /\ p[1] \in Trucks /\ p[2] \in Orders
      BY <1>1, <2>1
    <3>2. Offer(p) /\ p[1] \notin Taken /\ p[2] \notin Taken
      BY <1>1, <3>1 DEF MarketInv, OfferedIsFree
    <3>3. h \in eligible_carriers(p[2])
      BY <3>1, <3>2 DEF Offer
    <3> QED BY <1>2, <3>1, <3>2, <3>3, FreeSets DEF Offer
  <2>3. ASSUME NothingCommitted, NEW t \in FreeTrucks(h), NEW o \in FreeOrders, Servable(t, o)
        PROVE  <<t, o>> \in P
    <3>1. OfferedIsAll
      BY <2>3 DEF MarketInv, NothingLeft
    <3>2. HaulierOf[t] = h /\ h \in eligible_carriers(o) /\ pair_allowed_for(t, o) /\ InSight(t, o)
      BY <1>3, <2>3, FreeSets DEF Servable, InSearch
    <3>3. <<t, o>> \in offered
      BY <1>3, <3>1, <3>2 DEF OfferedIsAll
    <3> QED BY <2>1, <3>2, <3>3
  <2> QED BY <2>2, <2>3
<1>4. CASE get_solver # "GreedyNearest"
  <2> DEFINE os == FreeOrders \cap (OrdersOf(h) \cup visible_pooled_order_ids(h))
  <2>1. PICK s \in Sampled(FreeTrucks(h)) : P = {p \in s \X os : pair_allowed_for(p[1], p[2])}
    BY <1>4, Zenon DEF CompanyPairs
  <2>2. FreeTrucks(h) \in SUBSET Trucks
    BY FreeSets
  <2>3. s \subseteq FreeTrucks(h) /\ (Cardinality(FreeTrucks(h)) <= FleetCap => s = FreeTrucks(h))
    BY <2>1, <2>2, SamplesOf
  <2>4. \A o : o \in os <=> o \in FreeOrders /\ (HaulierOf[o] = h \/ placed[o] \cap pools_for(h) # {})
    BY FreeSets DEF OrdersOf, UnassignedOrders, visible_pooled_order_ids
  <2> HIDE DEF os
  <2>5. ASSUME NEW p \in P
        PROVE  /\ p \in Trucks \X Orders /\ p = <<p[1], p[2]>>
               /\ p[1] \in FreeTrucks(h) /\ p[2] \in FreeOrders
               /\ pair_allowed_for(p[1], p[2])
               /\ HaulierOf[p[2]] # h => placed[p[2]] \cap pools_for(h) # {}
    <3>1. p \in s \X os /\ p = <<p[1], p[2]>> /\ p[1] \in s /\ p[2] \in os /\ pair_allowed_for(p[1], p[2])
      BY <2>1
    <3>2. p[1] \in Trucks /\ p[2] \in Orders
      BY <2>2, <2>3, <2>4, <3>1, FreeSets
    <3> QED BY <2>3, <2>4, <3>1, <3>2
  <2>6. ASSUME NEW t \in FreeTrucks(h), NEW o \in FreeOrders, Servable(t, o)
        PROVE  <<t, o>> \in P
    <3>1. HaulierOf[t] = h /\ o \in Orders
      BY FreeSets
    <3>2. h \in eligible_carriers(o) /\ pair_allowed_for(t, o) /\ Cardinality(FreeTrucks(h)) <= FleetCap
      BY <1>4, <2>6, <3>1 DEF Servable, InSearch
    <3>3. t \in s /\ o \in os
      BY <1>2, <2>3, <2>4, <3>1, <3>2
    <3> QED BY <2>1, <3>2, <3>3
  <2> QED BY <2>5, <2>6
<1> QED
  BY <1>3, <1>4

LEMMA SpentStays ==
  ASSUME UNCHANGED <<at, planner, gone, awards, placed>>, NEW h, Spent(h)
  PROVE  Spent(h)'
<1>1. /\ Taken' = Taken /\ FreeOrders' = FreeOrders
      /\ \A g : FreeTrucks(g)' = FreeTrucks(g) /\ OrdersOf(g)' = OrdersOf(g)
  BY SameFree
<1>2. \A o : eligible_carriers(o)' = eligible_carriers(o)
  BY DEF eligible_carriers
<1>3. \A t, o : Servable(t, o)' <=> Servable(t, o)
  BY <1>1, <1>2, SameWorld DEF Servable, InSearch
<1>4. SureToClaim(h)' <=> SureToClaim(h)
  BY <1>1, SameWorld DEF SureToClaim
<1> QED
  BY <1>1, <1>3, <1>4 DEF Spent

LEMMA CompanyBidsStep ==
  ASSUME MarketFacts, MarketInv, CompanyBids
  PROVE  MarketInv'
<1> DEFINE h == Hauliers[turn]
<1>1. /\ phase = "bid" /\ turn <= Len(Hauliers) /\ turn' = turn + 1
      /\ UNCHANGED <<at, planner, phase, placed, offered, round, converged,
                     tick, stats, published, faults, gone>>
      /\ \E pairs \in CompanyPairs(h) : \E plan \in Solve(pairs) :
           LET direct == PrivateCommits(h, plan)
               claims == Claimed(plan \ direct, {p \in plan : HaulierOf[p[2]] = h})
           IN /\ awards' = awards \cup {Award(h, p, NoPool) : p \in direct}
              /\ private' = (private \/ direct # {})
              /\ bids' = bids \cup {Award(h, p, pool_of_order(p[2], h)) : p \in claims}
  BY Zenon DEF CompanyBids, book
<1>2. /\ MarketTyped /\ Apart /\ Phases /\ OfferedIsFree /\ BidsStand /\ RoundsAward
      /\ NothingLeft /\ Reported /\ round \in Nat /\ private \in BOOLEAN
  BY Zenon DEF MarketInv, MarketTyped
<1>3. turn \in Nat \ {0} /\ turn \in Turns /\ turn' \in Nat \ {0} /\ turn \in Nat /\ turn' \in Nat /\ Where
      /\ Turns \in SUBSET Nat
  BY <1>1, <1>2, Listed DEF MarketTyped, Turns
<1>4. h \in Companies /\ \A i \in Turns : Hauliers[i] = h => i = turn
  BY <1>3, Listed DEF Turns
<1>5. resolved_topology' = "pooled" /\ resolved_topology = "pooled" /\ ~converged
  BY <1>1, <1>2, SameWorld DEF Phases
<1>6. PICK pairs \in CompanyPairs(h) : \E plan \in Solve(pairs) :
        LET direct == PrivateCommits(h, plan)
            claims == Claimed(plan \ direct, {p \in plan : HaulierOf[p[2]] = h})
        IN /\ awards' = awards \cup {Award(h, p, NoPool) : p \in direct}
           /\ private' = (private \/ direct # {})
           /\ bids' = bids \cup {Award(h, p, pool_of_order(p[2], h)) : p \in claims}
  BY <1>1, Zenon
<1>7. PICK plan \in Solve(pairs) :
        LET direct == PrivateCommits(h, plan)
            claims == Claimed(plan \ direct, {p \in plan : HaulierOf[p[2]] = h})
        IN /\ awards' = awards \cup {Award(h, p, NoPool) : p \in direct}
           /\ private' = (private \/ direct # {})
           /\ bids' = bids \cup {Award(h, p, pool_of_order(p[2], h)) : p \in claims}
  BY <1>6, Zenon
<1> DEFINE direct == PrivateCommits(h, plan)
           mine == {p \in plan : HaulierOf[p[2]] = h}
           claims == Claimed(plan \ direct, mine)
           deal(p) == Award(h, p, NoPool)
           bid(p) == Award(h, p, pool_of_order(p[2], h))
<1>8. /\ awards' = awards \cup {deal(p) : p \in direct}
      /\ private' = (private \/ direct # {})
      /\ bids' = bids \cup {bid(p) : p \in claims}
  BY <1>7, Zenon
<1>9. plan \subseteq pairs /\ IsMatching(plan) /\ (pairs # {} => plan # {})
  BY SolutionsOf
<1>10. \A p \in direct : p \in plan /\ HaulierOf[p[2]] = h /\ placed[p[2]] = {}
  BY DEF PrivateCommits
<1>11. \A p \in claims : p \in plan /\ p \notin direct
  BY ClaimsOf
<1>12. \A p \in plan : HaulierOf[p[2]] = h /\ placed[p[2]] = {} => p \in direct
  BY DEF PrivateCommits
<1> HIDE DEF h, direct, claims, mine
<1>13. ASSUME NEW p \in plan
       PROVE  /\ p = <<p[1], p[2]>> /\ p[1] \in Trucks /\ p[2] \in Orders
              /\ p[1] \in FreeTrucks(h) /\ p[2] \in FreeOrders
              /\ HaulierOf[p[1]] = h /\ p[1] \notin Taken /\ p[2] \notin Taken
              /\ p[1] \notin gone /\ p[2] \notin gone /\ HaulierOf[p[2]] # None
              /\ pair_allowed_for(p[1], p[2]) /\ pair_allowed_ignoring_haulier(p[1], p[2])
              /\ HaulierOf[p[2]] # h => placed[p[2]] \cap pools_for(h) # {}
  <2>1. /\ p \in Trucks \X Orders /\ p = <<p[1], p[2]>>
        /\ p[1] \in FreeTrucks(h) /\ p[2] \in FreeOrders
        /\ pair_allowed_for(p[1], p[2])
        /\ HaulierOf[p[2]] # h => placed[p[2]] \cap pools_for(h) # {}
    BY <1>1, <1>3, <1>9, CompanyPairsOf DEF h
  <2>2. pair_allowed_ignoring_haulier(p[1], p[2])
    BY <2>1, Zenon DEF pair_allowed_for, pair_allowed
  <2> QED BY <2>1, <2>2, FreeSets
<1>14. ASSUME NEW p \in plan, NEW q \in plan, p # q PROVE p[1] # q[1] /\ p[2] # q[2]
  BY <1>9, <1>14, Zenon DEF IsMatching, Meets
<1>15. ASSUME NEW p \in direct
       PROVE  /\ Sound(deal(p)) /\ deal(p).truck = p[1] /\ deal(p).order = p[2]
              /\ deal(p).carrier = h /\ deal(p).owner = h /\ deal(p).round = round
  <2>1. p \in plan /\ HaulierOf[p[2]] = h
    BY <1>10
  <2>2. NoPool \in Nat
    BY DEF NoPool
  <2> DEFINE b == Award(h, <<p[1], p[2]>>, NoPool)
  <2>3. /\ Sound(b) /\ b.truck = p[1] /\ b.order = p[2]
        /\ b.carrier = h /\ b.owner = HaulierOf[p[2]] /\ b.round = round
    BY <1>2, <1>3, <1>4, <1>13, <2>1, <2>2, AwardOf
  <2>4. deal(p) = b
    BY <1>13, <2>1, Zenon
  <2> HIDE DEF b, deal
  <2> QED BY <2>1, <2>3, <2>4
<1>16. ASSUME NEW p \in claims
       PROVE  /\ Sound(bid(p)) /\ bid(p).truck = p[1] /\ bid(p).order = p[2]
              /\ bid(p).carrier = h /\ bid(p).round = round
              /\ bid(p).pool = pool_of_order(p[2], h)
              /\ bid(p).pool \in placed[p[2]] \cap pools_for(h)
  <2>1. p \in plan /\ p \notin direct
    BY <1>11
  <2>2. placed[p[2]] \cap pools_for(h) # {}
    <3>1. CASE HaulierOf[p[2]] # h
      BY <1>13, <2>1, <3>1
    <3>2. CASE HaulierOf[p[2]] = h
      <4>1. placed[p[2]] # {} /\ placed[p[2]] \subseteq {q \in DOMAIN Pools : h \in Pools[q]}
        BY <1>2, <1>12, <1>13, <2>1, <3>2 DEF MarketTyped
      <4> QED BY <4>1 DEF pools_for
    <3> QED BY <3>1, <3>2
  <2>3. pool_of_order(p[2], h) \in placed[p[2]] \cap pools_for(h) /\ pool_of_order(p[2], h) \in Nat
    BY <1>2, <1>13, <2>1, <2>2, PoolOf
  <2> DEFINE b == Award(h, <<p[1], p[2]>>, pool_of_order(p[2], h))
  <2>4. /\ Sound(b) /\ b.truck = p[1] /\ b.order = p[2] /\ b.pool = pool_of_order(p[2], h)
        /\ b.carrier = h /\ b.round = round
    BY <1>2, <1>3, <1>4, <1>13, <2>1, <2>3, AwardOf
  <2>5. bid(p) = b
    BY <1>13, <2>1, Zenon
  <2> HIDE DEF b, bid
  <2> QED BY <2>3, <2>4, <2>5
<1> HIDE DEF deal, bid
<1>17. \A a : a \in awards' <=> a \in awards \/ \E p \in direct : a = deal(p)
  BY <1>8
<1>18. \A b : b \in bids' <=> b \in bids \/ \E p \in claims : b = bid(p)
  BY <1>8
<1>19. \A x : x \in Taken' <=> x \in Taken \/ \E p \in direct : x = p[1] \/ x = p[2]
  <2>1. \A x : x \in Taken' <=> \E a \in awards' : x = a.truck \/ x = a.order
    BY DEF Taken
  <2> QED BY <1>15, <1>17, <2>1, TakenIs
<1>20. \A b : Sound(b) => Sound(b)'
  BY <1>1, <1>2, SoundStays
<1>21. \A p \in direct : p \in plan /\ p[1] \in Trucks /\ p[2] \in Orders /\ HaulierOf[p[1]] = h
  BY <1>10, <1>13
<1>22. MarketTyped'
  <2>1. private' \in BOOLEAN
    BY <1>2, <1>8, Zenon
  <2> QED BY <1>1, <1>2, <1>3, <2>1, Zenon DEF MarketTyped, Where
<1>23. Phases' /\ Untouched' /\ Fair'
  BY <1>1, <1>5 DEF Phases, Untouched, Fair
<1>24. Reported'
  BY <1>1, <1>2, ReportedStays
<1>25. Settled'
  BY <1>1 DEF Settled, OwnersKeepTheirs, EveryRoundAwards, ConvergedIsExhausted
<1>26. Apart'
  <2>1. \A b : Travels(b)' <=> Travels(b)
    BY <1>1, SameWorld DEF Travels
  <2>2. \A p \in direct : Travels(deal(p))
    BY <1>15 DEF Travels
  <2>3. \A b \in awards' : Sound(b)' /\ Travels(b)'
    BY <1>2, <1>15, <1>17, <1>20, <2>1, <2>2 DEF Apart
  <2>4. ASSUME NEW a \in awards, NEW p \in direct PROVE a.truck # p[1] /\ a.order # p[2]
    BY <1>13, <1>21, TakenIs
  <2>5. ASSUME NEW a \in awards', NEW b \in awards', a # b PROVE a.truck # b.truck /\ a.order # b.order
    <3>1. CASE a \in awards /\ b \in awards
      BY <1>2, <2>5, <3>1 DEF Apart
    <3>2. ASSUME NEW p \in direct, a = deal(p), b \in awards PROVE a.truck # b.truck /\ a.order # b.order
      BY <1>15, <2>4, <3>2
    <3>3. ASSUME NEW p \in direct, b = deal(p), a \in awards PROVE a.truck # b.truck /\ a.order # b.order
      BY <1>15, <2>4, <3>3
    <3>4. ASSUME NEW p \in direct, NEW q \in direct, a = deal(p), b = deal(q)
          PROVE  a.truck # b.truck /\ a.order # b.order
      <4>1. p # q
        BY <2>5, <3>4
      <4> QED BY <1>14, <1>15, <1>21, <3>4, <4>1
    <3> QED BY <1>17, <3>1, <3>2, <3>3, <3>4, Zenon
  <2> QED BY <2>3, <2>5 DEF Apart
<1>27. OfferedIsFree'
  <2>1. \A p : Offer(p) => Offer(p)'
    BY <1>1, SameWorld DEF Offer, eligible_carriers
  <2>2. ASSUME NEW p \in offered, NEW i \in Turns, i >= turn', HaulierOf[p[1]] = Hauliers[i]
        PROVE  p[1] \notin Taken' /\ p[2] \notin Taken'
    <3>1. Offer(p) /\ i >= turn /\ i # turn
      BY <1>1, <1>2, <1>3, <2>2 DEF OfferedIsFree
    <3>2. p[1] \notin Taken /\ p[2] \notin Taken /\ HaulierOf[p[1]] # h
      BY <1>1, <1>2, <1>4, <2>2, <3>1 DEF OfferedIsFree
    <3>3. p[1] \in Trucks /\ p[2] \in Orders
      BY <1>2 DEF MarketTyped
    <3>4. ASSUME NEW q \in direct PROVE p[1] # q[1] /\ p[1] # q[2] /\ p[2] # q[1] /\ p[2] # q[2]
      <4>1. p[1] # q[1] /\ p[1] # q[2] /\ p[2] # q[1]
        BY <1>21, <3>2, <3>3 DEF MarketFacts
      <4>2. eligible_carriers(q[2]) = {h}
        BY <1>10, <1>21 DEF eligible_carriers
      <4>3. p[2] # q[2]
        BY <3>1, <3>2, <4>2 DEF Offer
      <4> QED BY <4>1, <4>3
    <3> QED BY <1>19, <3>2, <3>4
  <2> QED BY <1>1, <1>2, <2>1, <2>2 DEF OfferedIsFree
<1>28. BidsStand'
  <2>1. \A o, g : pool_of_order(o, g)' = pool_of_order(o, g)
    BY <1>1 DEF pool_of_order
  <2>2. ASSUME NEW b \in bids
        PROVE  /\ Bid(b) /\ b.carrier # h /\ b.truck \in Trucks /\ b.order \in Orders
               /\ b.carrier = HaulierOf[b.truck] /\ placed[b.order] # {}
               /\ \E i \in Turns : i < turn' /\ b.carrier = Hauliers[i]
    <3>1. Bid(b)
      BY <1>1, <1>2 DEF BidsStand
    <3>2. PICK i \in Turns : i < turn /\ b.carrier = Hauliers[i]
      BY <1>1, <1>2 DEF BidsStand
    <3>3. i < turn' /\ i # turn
      BY <1>1, <1>3, <3>2
    <3> QED BY <1>4, <3>1, <3>2, <3>3 DEF Bid, Sound, Papers
  <2>3. ASSUME NEW b \in bids PROVE b.truck \notin Taken' /\ b.order \notin Taken'
    <3>1. b.truck \notin Taken /\ b.order \notin Taken
      BY <2>2 DEF Bid
    <3>2. ASSUME NEW q \in direct
          PROVE  b.truck # q[1] /\ b.truck # q[2] /\ b.order # q[1] /\ b.order # q[2]
      BY <1>10, <1>21, <2>2 DEF MarketFacts
    <3> QED BY <1>19, <3>1, <3>2
  <2>4. ASSUME NEW p \in claims PROVE p[1] \notin Taken' /\ p[2] \notin Taken'
    <3>1. p \in plan /\ p \notin direct
      BY <1>11
    <3>2. p[1] \notin Taken /\ p[2] \notin Taken /\ p[1] \in Trucks /\ p[2] \in Orders
      BY <1>13, <3>1
    <3>3. ASSUME NEW q \in direct PROVE p[1] # q[1] /\ p[1] # q[2] /\ p[2] # q[1] /\ p[2] # q[2]
      BY <1>14, <1>21, <3>1, <3>2 DEF MarketFacts
    <3> QED BY <1>19, <3>2, <3>3
  <2>5. ASSUME NEW b \in bids' PROVE Bid(b)' /\ \E i \in Turns : i < turn' /\ b.carrier = Hauliers[i]
    <3>1. CASE b \in bids
      <4>1. Sound(b)'
        BY <1>20, <2>2, <3>1 DEF Bid
      <4>2. Bid(b)'
        BY <1>1, <2>1, <2>2, <2>3, <3>1, <4>1 DEF Bid, pools_for
      <4> QED BY <2>2, <3>1, <4>2
    <3>2. ASSUME NEW p \in claims, b = bid(p)
          PROVE  Bid(b)' /\ \E i \in Turns : i < turn' /\ b.carrier = Hauliers[i]
      <4>1. Sound(b)' /\ b.truck = p[1] /\ b.order = p[2] /\ b.carrier = h /\ b.round = round
            /\ b.pool = pool_of_order(p[2], h) /\ b.pool \in placed[p[2]] \cap pools_for(h)
        BY <1>16, <1>20, <3>2
      <4>2. Bid(b)'
        BY <1>1, <2>1, <2>4, <4>1 DEF Bid, pools_for
      <4>3. turn < turn' /\ b.carrier = Hauliers[turn]
        BY <1>1, <1>3, <4>1 DEF h
      <4> QED BY <1>3, <4>2, <4>3
    <3> QED BY <1>18, <3>1, <3>2
  <2>6. ASSUME NEW b \in bids', NEW c \in bids', b.truck = c.truck PROVE b = c
    <3>1. CASE b \in bids /\ c \in bids
      BY <1>1, <1>2, <2>6, <3>1 DEF BidsStand
    <3>2. ASSUME NEW p \in claims, b = bid(p), c \in bids PROVE FALSE
      <4>1. HaulierOf[b.truck] = h /\ HaulierOf[c.truck] # h
        BY <1>11, <1>13, <1>16, <2>2, <3>2
      <4> QED BY <2>6, <4>1
    <3>3. ASSUME NEW p \in claims, c = bid(p), b \in bids PROVE FALSE
      <4>1. HaulierOf[c.truck] = h /\ HaulierOf[b.truck] # h
        BY <1>11, <1>13, <1>16, <2>2, <3>3
      <4> QED BY <2>6, <4>1
    <3>4. ASSUME NEW p \in claims, NEW q \in claims, b = bid(p), c = bid(q) PROVE b = c
      <4>1. p[1] = q[1] /\ p \in plan /\ q \in plan
        BY <1>11, <1>16, <2>6, <3>4
      <4>2. p = q
        BY <1>14, <4>1
      <4> QED BY <3>4, <4>2
    <3> QED BY <1>18, <3>1, <3>2, <3>3, <3>4, Zenon
  <2>7. ASSUME NEW a \in awards', a.round = round PROVE a.carrier = a.owner
    BY <1>1, <1>2, <1>15, <1>17, <2>7 DEF BidsStand
  <2> QED BY <1>1, <2>5, <2>6, <2>7 DEF BidsStand
<1>29. CASE direct = {}
  <2>1. awards' = awards /\ private' = private
    BY <1>2, <1>8, <1>29, Zenon
  <2>2. /\ Taken' = Taken /\ FreeOrders' = FreeOrders
        /\ \A g : FreeTrucks(g)' = FreeTrucks(g) /\ OrdersOf(g)' = OrdersOf(g)
    BY <1>1, <2>1, SameFree
  <2>3. RoundsAward'
    BY <1>1, <1>2, <2>1, <2>2 DEF RoundsAward, Awarded
  <2>4. NothingLeft'
    <3> SUFFICES ASSUME NothingCommitted'
                 PROVE  OfferedIsAll' /\ \A i \in Turns : i < turn' => Spent(Hauliers[i])'
      BY DEF NothingLeft
    <3>1. NothingCommitted /\ claims = {}
      BY <1>18, <2>1 DEF NothingCommitted
    <3>2. OfferedIsAll /\ \A i \in Turns : i < turn => Spent(Hauliers[i])
      BY <1>1, <1>2, <3>1 DEF NothingLeft
    <3>3. \A o : eligible_carriers(o)' = eligible_carriers(o)
      BY <1>1 DEF eligible_carriers
    <3>4. OfferedIsAll'
      BY <1>1, <2>2, <3>2, <3>3, SameWorld DEF OfferedIsAll
    <3>5. Spent(h)
      <4> SUFFICES ASSUME SureToClaim(h), NEW t \in FreeTrucks(h), NEW o \in FreeOrders, Servable(t, o)
                   PROVE  FALSE
        BY DEF Spent
      <4>1. <<t, o>> \in pairs
        BY <1>1, <1>3, <3>1, CompanyPairsOf DEF h
      <4>2. plan # {} /\ plan \ direct = plan
        BY <1>9, <1>29, <4>1
      <4>3. get_claim_policy # "ClaimAllPlanned"
        <5>1. claims = Claimed(plan, mine)
          BY <4>2 DEF claims
        <5> QED BY <3>1, <4>2, <5>1, ClaimsOf
      <4>4. /\ get_claim_policy = "ClaimIfGainExceeds"
            /\ ~\E u \in FreeTrucks(h), r \in FreeOrders \cap OrdersOf(h) : pair_allowed(u, r)
        BY <4>3, Zenon DEF SureToClaim
      <4>5. ASSUME NEW p \in mine PROVE FALSE
        <5>1. p \in plan /\ HaulierOf[p[2]] = h
          BY DEF mine
        <5>2. p[1] \in FreeTrucks(h) /\ p[2] \in FreeOrders /\ HaulierOf[p[1]] = h
              /\ pair_allowed_for(p[1], p[2]) /\ p[2] \in Orders /\ p[2] \notin gone
          BY <1>13, <5>1
        <5>3. pair_allowed(p[1], p[2]) /\ p[2] \in OrdersOf(h)
          BY <5>1, <5>2 DEF pair_allowed_for, OrdersOf, UnassignedOrders
        <5> QED BY <4>4, <5>2, <5>3
      <4>6. mine = {}
        BY <4>5
      <4>7. claims = Claimed(plan, mine)
        BY <4>2 DEF claims
      <4> QED BY <3>1, <4>2, <4>4, <4>6, <4>7, ClaimsOf
    <3>6. \A g : Spent(g) => Spent(g)'
      BY <1>1, <2>1, SpentStays
    <3>7. \A i \in Turns : i < turn' => i < turn \/ i = turn
      BY <1>1, <1>3
    <3> QED BY <3>2, <3>4, <3>5, <3>6, <3>7 DEF h
  <2> QED BY <1>22, <1>23, <1>24, <1>25, <1>26, <1>27, <1>28, <2>3, <2>4 DEF MarketInv
<1>30. CASE direct # {}
  <2>1. PICK p \in direct : TRUE
    BY <1>30
  <2>2. private'
    BY <1>8, <1>30, Zenon
  <2>3. deal(p) \in awards' /\ deal(p).round = round
    BY <1>15, <1>17
  <2>4. RoundsAward'
    <3>1. \A r \in 1 .. round - 1 : \E a \in awards' : a.round = r
      BY <1>1, <1>2, <1>17 DEF RoundsAward, Awarded
    <3>2. \E a \in awards' : a.round = round
      BY <2>3
    <3> QED BY <1>1, <2>2, <3>1, <3>2, Zenon DEF RoundsAward, Awarded
  <2>5. NothingLeft'
    BY <2>2, Zenon DEF NothingLeft, NothingCommitted
  <2> QED BY <1>22, <1>23, <1>24, <1>25, <1>26, <1>27, <1>28, <2>4, <2>5 DEF MarketInv
<1> QED
  BY <1>29, <1>30

-----------------------------------------------------------------------------
(* Arbitration and the end of the auction.                                 *)

\* Everything the sweep of the bids awards is committed.
LEMMA BidsCommit ==
  ASSUME MarketFacts, MarketTyped, NEW b, Bid(b)
  PROVE  Committable(b) /\ Sound(b) /\ Travels(b)
<1>1. /\ Sound(b) /\ b.truck \notin Taken /\ b.order \notin Taken /\ b.order \in Orders
      /\ b.pool = pool_of_order(b.order, b.carrier) /\ b.pool \in placed[b.order]
      /\ b.pool \in pools_for(b.carrier) /\ b.owner = HaulierOf[b.order]
  BY DEF Bid, Sound, Papers
<1>2. b.pool \in DOMAIN Pools /\ b.owner \in Pools[b.pool] /\ b.carrier \in Pools[b.pool]
  BY <1>1 DEF MarketTyped, pools_for
<1>3. b.pool # NoPool
  BY <1>2, PoolsHoldCompanies
<1>4. b.carrier # b.owner => b.carrier \in Partners(b.owner)
  BY <1>2, PartnersMutual
<1>5. Travels(b)
  BY <1>1, <1>2, <1>4 DEF Travels
<1> QED
  BY <1>1, <1>3, <1>5 DEF Committable

LEMMA ArbitrateStep ==
  ASSUME MarketFacts, MarketInv, Arbitrate
  PROVE  MarketInv'
<1>1. /\ phase = "bid" /\ ~NothingCommitted /\ phase' = "round"
      /\ \E won \in AwardSets : awards' = awards \cup {b \in won : Committable(b)}
      /\ UNCHANGED <<at, planner, turn, placed, offered, bids, private, round, converged,
                     tick, stats, published, faults, gone>>
  BY DEF Arbitrate, book
<1>2. /\ MarketTyped /\ Apart /\ Phases /\ BidsStand /\ RoundsAward /\ Reported /\ round \in Nat
  BY DEF MarketInv, MarketTyped
<1>3. PICK won \in AwardSets : awards' = awards \cup {b \in won : Committable(b)}
  BY <1>1
<1>4. /\ won \subseteq bids
      /\ \A b, c \in won : b # c => ~Rivals(b, c)
      /\ \A b \in bids \ won : \E c \in won : Rivals(b, c) /\ NoWorseBid(c, b)
  BY <1>3 DEF AwardSets
<1>5. \A b \in won : Bid(b) /\ Committable(b) /\ Sound(b) /\ Travels(b) /\ b.round = round
                     /\ b.truck \notin Taken /\ b.order \notin Taken
  BY <1>1, <1>2, <1>4, BidsCommit DEF BidsStand, Bid
<1>6. \A a : a \in awards' <=> a \in awards \/ a \in won
  BY <1>3, <1>5
<1>7. resolved_topology' = "pooled" /\ resolved_topology = "pooled" /\ ~converged
      /\ get_arbitration_rule' = get_arbitration_rule
  BY <1>1, <1>2, SameWorld DEF Phases
<1>8. MarketTyped'
  BY <1>1, <1>2, Zenon DEF MarketTyped, Where
<1>9. Apart'
  <2>1. \A b : Travels(b)' <=> Travels(b)
    BY <1>1, SameWorld DEF Travels
  <2>2. \A b : Sound(b) => Sound(b)'
    BY <1>1, <1>2, SoundStays
  <2>3. \A b \in awards' : Sound(b)' /\ Travels(b)'
    BY <1>2, <1>5, <1>6, <2>1, <2>2 DEF Apart
  <2>4. ASSUME NEW a \in awards', NEW b \in awards', a # b PROVE a.truck # b.truck /\ a.order # b.order
    <3>1. CASE a \in awards /\ b \in awards
      BY <1>2, <2>4, <3>1 DEF Apart
    <3>2. CASE a \in won /\ b \in awards
      BY <1>5, <3>2, TakenIs
    <3>3. CASE a \in awards /\ b \in won
      BY <1>5, <3>3, TakenIs
    <3>4. CASE a \in won /\ b \in won
      BY <1>4, <2>4, <3>4 DEF Rivals
    <3> QED BY <1>6, <3>1, <3>2, <3>3, <3>4
  <2> QED BY <2>3, <2>4 DEF Apart
<1>10. Phases' /\ Untouched' /\ Fair'
  BY <1>1, <1>7 DEF Phases, Untouched, Fair
<1>11. OfferedIsFree' /\ BidsStand' /\ NothingLeft'
  BY <1>1 DEF OfferedIsFree, BidsStand, NothingLeft
<1>12. RoundsAward'
  <2>1. \A r \in 1 .. round - 1 : \E a \in awards' : a.round = r
    BY <1>1, <1>2, <1>6 DEF RoundsAward, Awarded
  <2>2. \E a \in awards' : a.round = round
    <3>1. CASE private
      BY <1>1, <1>2, <1>6, <3>1 DEF RoundsAward, Awarded
    <3>2. CASE ~private
      <4>1. bids # {}
        BY <1>1, <3>2, Zenon DEF NothingCommitted
      <4>2. won # {}
        BY <1>4, <4>1
      <4> QED BY <1>5, <1>6, <4>2
    <3> QED BY <3>1, <3>2
  <2>3. \A r \in 1 .. round : r \in 1 .. round - 1 \/ r = round
    BY <1>2
  <2> QED BY <1>1, <2>1, <2>2, <2>3 DEF RoundsAward, Awarded
<1>13. OwnersKeepTheirs'
  <2> SUFFICES ASSUME get_arbitration_rule = "OwnerFirst", NEW a \in awards', a.carrier # a.owner,
                      a.round = round, NEW b \in bids, b.order = a.order, OwnBid(b)
               PROVE  FALSE
    BY <1>1, <1>7, Zenon DEF OwnersKeepTheirs, OwnBid
  <2>1. a \in won
    BY <1>1, <1>2, <1>6 DEF BidsStand
  <2>2. b # a /\ Rivals(a, b)
    BY DEF OwnBid, Rivals
  <2>3. b \notin won
    BY <1>4, <2>1, <2>2
  <2>4. PICK c \in won : Rivals(b, c) /\ NoWorseBid(c, b)
    BY <1>4, <2>3
  <2>5. OwnBid(c)
    BY <2>4 DEF NoWorseBid
  <2>6. c # a /\ c.order # a.order
    <3>1. c # a
      BY <2>5 DEF OwnBid
    <3> QED BY <1>4, <2>1, <3>1 DEF Rivals
  <2>7. b.truck = c.truck
    BY <2>4, <2>6 DEF Rivals
  <2>8. b = c
    BY <1>1, <1>2, <1>4, <2>7 DEF BidsStand
  <2> QED BY <2>3, <2>8
<1>14. Settled'
  BY <1>1, <1>13 DEF Settled, EveryRoundAwards, ConvergedIsExhausted
<1>15. Reported'
  BY <1>1, <1>2, ReportedStays
<1> QED
  BY <1>8, <1>9, <1>10, <1>11, <1>12, <1>14, <1>15 DEF MarketInv

LEMMA ConvergeStep ==
  ASSUME MarketFacts, MarketInv, Converge
  PROVE  MarketInv'
<1>1. /\ phase = "bid" /\ turn > Len(Hauliers) /\ bids = {} /\ ~private
      /\ converged' = TRUE /\ phase' = "assigned" /\ turn' = 1
      /\ UNCHANGED <<at, planner, placed, offered, bids, private, awards, round,
                     tick, stats, published, faults, gone>>
  BY DEF Converge, NothingCommitted, book
<1>2. /\ MarketTyped /\ Apart /\ Phases /\ Fair /\ RoundsAward /\ NothingLeft /\ Reported /\ round \in Nat
  BY DEF MarketInv, MarketTyped
<1>3. resolved_topology' = "pooled" /\ resolved_topology = "pooled"
  BY <1>1, <1>2, SameWorld DEF Phases
<1>4. MarketTyped'
  <2>1. converged' \in BOOLEAN
    BY <1>1, Zenon
  <2>2. phase' = "assigned" /\ turn' \in Nat \ {0}
    BY <1>1
  <2> QED BY <1>1, <1>2, <2>1, <2>2, Zenon DEF MarketTyped, Where
<1>5. Apart' /\ Fair' /\ Reported'
  BY <1>1, <1>2, ApartStays, FairStays, ReportedStays
<1>6. Phases' /\ Untouched'
  BY <1>1, <1>3 DEF Phases, Untouched
<1>7. OfferedIsFree' /\ BidsStand' /\ RoundsAward' /\ NothingLeft'
  BY <1>1 DEF OfferedIsFree, BidsStand, RoundsAward, NothingLeft
<1>8. OwnersKeepTheirs'
  BY <1>1 DEF OwnersKeepTheirs
<1>9. /\ Taken' = Taken /\ FreeOrders' = FreeOrders
      /\ \A g : FreeTrucks(g)' = FreeTrucks(g) /\ OrdersOf(g)' = OrdersOf(g)
  BY <1>1, SameFree
<1>10. EveryRoundAwards'
  <2>1. \A r \in 1 .. round - 1 : \E a \in awards : a.round = r
    BY <1>1, <1>2 DEF RoundsAward, Awarded
  <2>2. FreeOrders' # {} /\ converged'
    BY <1>1, <1>2, <1>9, Zenon DEF RoundsAward
  <2> QED BY <1>1, <2>1, <2>2 DEF EveryRoundAwards
<1>11. ConvergedIsExhausted'
  <2>1. \A k \in Companies : Spent(k)
    <3> TAKE k \in Companies
    <3>1. PICK i \in Turns : Hauliers[i] = k
      BY Listed DEF Turns
    <3>2. i < turn
      BY <1>1, <1>2, Listed DEF Turns, MarketTyped
    <3>3. NothingCommitted
      BY <1>1, Zenon DEF NothingCommitted
    <3> QED BY <1>1, <1>2, <3>1, <3>2, <3>3 DEF NothingLeft
  <2>2. \A k \in Companies : Spent(k)'
    BY <1>1, <2>1, SpentStays
  <2> QED BY <2>2, Zenon DEF ConvergedIsExhausted, Spent
<1> QED
  BY <1>4, <1>5, <1>6, <1>7, <1>8, <1>10, <1>11 DEF MarketInv, Settled

-----------------------------------------------------------------------------
(* After the tick.                                                         *)

LEMMA GreaterOf ==
  ASSUME NEW a \in Int, NEW b \in Int
  PROVE  Max({a, b}) \in Int
<1>1. \E x \in {a, b} : \A y \in {a, b} : x >= y
  OBVIOUS
<1>2. Max({a, b}) \in {a, b}
  BY <1>1, Zenon DEF Max
<1> QED
  BY <1>2

LEMMA RecordRoundStatsStep ==
  ASSUME MarketFacts, MarketInv, NEW ok \in BOOLEAN, RecordRoundStats(ok)
  PROVE  MarketInv'
<1> DEFINE s == Recorded
           pushes == Forced \/ Due(s)
           pushed == IF pushes THEN Patched(s) ELSE s
<1>1. /\ phase = "assigned" /\ phase' = "recorded"
      /\ (~ok) => pushes /\ faults < MaxFaults
      /\ faults' = IF ok THEN faults ELSE faults + 1
      /\ stats' = pushed
      /\ published' = IF pushes /\ ok THEN round_stats(pushed) ELSE published
      /\ UNCHANGED <<at, planner, turn, placed, offered, bids, private, awards, round, converged, tick, gone>>
  BY Zenon DEF RecordRoundStats, market
<1>2. /\ MarketTyped /\ Apart /\ Phases /\ Fair /\ Reported /\ round \in Nat /\ converged \in BOOLEAN
  BY DEF MarketInv, MarketTyped
<1>3. /\ s \in Counts /\ s.ticks = stats.ticks + 1 /\ s.ticks # 0 /\ s.ticks >= 0
      /\ s.auctions + s.idle = s.ticks
      /\ ~Forced => s.truncated = stats.truncated
  <2>1. stats \in Counts /\ stats.ticks >= 0 /\ stats.auctions + stats.idle = stats.ticks
    BY <1>2 DEF Reported
  <2>2. /\ stats.ticks \in Int /\ stats.drain \in Int /\ stats.idle \in Int /\ stats.auctions \in Int
        /\ stats.sum \in Int /\ stats.max \in Int /\ stats.truncated \in Int /\ stats.pushedMax \in Int
    BY <2>1 DEF Counts
  <2>3. Max({stats.max, round}) \in Int
    BY <1>2, <2>2, GreaterOf
  <2>4. (IF stats.max = Unset THEN round ELSE Max({stats.max, round})) \in Int
    BY <1>2, <2>3
  <2>5. /\ s.ticks = stats.ticks + 1
        /\ s.idle = (IF round = 0 THEN stats.idle + 1 ELSE stats.idle)
        /\ s.auctions = (IF round > 0 THEN stats.auctions + 1 ELSE stats.auctions)
        /\ s.truncated = (IF converged THEN stats.truncated ELSE stats.truncated + 1)
    BY DEF Recorded
  <2>6. s \in Counts
    <3> DEFINE m == IF stats.max = Unset THEN round ELSE Max({stats.max, round})
    <3>1. Recorded = [ticks |-> stats.ticks + 1,
                      drain |-> IF tick >= Horizon THEN stats.drain + 1 ELSE stats.drain,
                      idle |-> IF round = 0 THEN stats.idle + 1 ELSE stats.idle,
                      auctions |-> IF round > 0 THEN stats.auctions + 1 ELSE stats.auctions,
                      sum |-> stats.sum + round, max |-> m,
                      truncated |-> IF converged THEN stats.truncated ELSE stats.truncated + 1,
                      pushedMax |-> stats.pushedMax]
      BY DEF Recorded
    <3>2. m \in Int
      BY <2>4
    <3> HIDE DEF m
    <3> QED BY <1>2, <2>2, <3>1, <3>2 DEF Counts
  <2>7. ~Forced => s.truncated = stats.truncated
    BY <2>5 DEF Forced
  <2> HIDE DEF s
  <2> QED BY <1>2, <2>1, <2>2, <2>5, <2>6, <2>7
<1> HIDE DEF s
<1>4. /\ Patched(s) \in Counts /\ Patched(s).ticks = s.ticks /\ Patched(s).auctions = s.auctions
      /\ Patched(s).idle = s.idle /\ Patched(s).truncated = s.truncated
  BY <1>3 DEF Patched, Counts
<1>5. /\ pushed \in Counts /\ pushed.ticks = s.ticks /\ pushed.auctions = s.auctions
      /\ pushed.idle = s.idle /\ pushed.truncated = s.truncated
  BY <1>3, <1>4
<1>6. round_stats(pushed).truncated = pushed.truncated
  BY DEF round_stats
<1> HIDE DEF pushed
<1>7. Reported'
  <2>1. faults \in Nat /\ tick \in Nat /\ (faults = 0 => published.truncated = stats.truncated)
    BY <1>2 DEF Reported
  <2>2. faults' \in Nat
    BY <1>1, <2>1
  <2>3. faults' = 0 => ok /\ faults = 0
    BY <1>1, <2>1
  <2>4. faults' = 0 => published'.truncated = stats'.truncated
    <3>1. CASE pushes
      BY <1>1, <1>6, <2>3, <3>1
    <3>2. CASE ~pushes
      <4>1. published' = published /\ ~Forced
        BY <1>1, <3>2
      <4> QED BY <1>1, <1>3, <1>5, <2>1, <2>3, <4>1
    <3> QED BY <3>1, <3>2
  <2>5. stats' \in Counts /\ stats'.ticks >= 0 /\ stats'.ticks # 0 /\ stats'.auctions + stats'.idle = stats'.ticks
    BY <1>1, <1>3, <1>5
  <2> QED BY <1>1, <2>1, <2>2, <2>4, <2>5 DEF Reported
<1>8. MarketTyped'
  <2>1. phase' = "recorded"
    BY <1>1
  <2> QED BY <1>1, <1>2, <2>1, Zenon DEF MarketTyped, Where
<1>9. Apart' /\ Fair'
  BY <1>1, <1>2, ApartStays, FairStays
<1>10. Phases' /\ Untouched'
  BY <1>1, <1>2, SameWorld DEF Phases, Untouched
<1>11. OfferedIsFree' /\ BidsStand' /\ RoundsAward' /\ NothingLeft'
  BY <1>1 DEF OfferedIsFree, BidsStand, RoundsAward, NothingLeft
<1>12. Settled'
  BY <1>1 DEF Settled, OwnersKeepTheirs, EveryRoundAwards, ConvergedIsExhausted
<1> QED
  BY <1>7, <1>8, <1>9, <1>10, <1>11, <1>12 DEF MarketInv

LEMMA NextTickStep ==
  ASSUME MarketFacts, MarketInv, NextTick
  PROVE  MarketInv'
<1>1. /\ tick' = tick + 1 /\ phase' = "open" /\ turn' = 1
      /\ placed' = [o \in Orders |-> {}] /\ offered' = {} /\ bids' = {} /\ private' = FALSE
      /\ awards' = {} /\ round' = 0 /\ converged' = FALSE
      /\ UNCHANGED <<at, planner, stats, published, faults>>
  BY DEF NextTick
<1>2. MarketTyped /\ Reported
  BY DEF MarketInv
<1>3. MarketTyped'
  <2>1. \A o \in Orders : placed'[o] = {}
    BY <1>1
  <2>2. phase' = "open" /\ turn' \in Nat \ {0} /\ round' \in Nat /\ offered' = {}
    BY <1>1
  <2>3. private' \in BOOLEAN /\ converged' \in BOOLEAN
    BY <1>1, Zenon
  <2>4. Where'
    BY <1>1, <1>2 DEF Where, MarketTyped
  <2> QED BY <2>1, <2>2, <2>3, <2>4 DEF MarketTyped
<1>4. Apart' /\ Phases' /\ Untouched' /\ Fair'
  BY <1>1 DEF Apart, Phases, Untouched, Fair
<1>5. OfferedIsFree' /\ BidsStand' /\ RoundsAward' /\ NothingLeft'
  BY <1>1 DEF OfferedIsFree, BidsStand, RoundsAward, NothingLeft
<1>6. Settled'
  BY <1>1 DEF Settled, OwnersKeepTheirs, EveryRoundAwards, ConvergedIsExhausted
<1>7. Reported'
  BY <1>1, <1>2 DEF Reported, round_stats
<1> QED
  BY <1>3, <1>4, <1>5, <1>6, <1>7 DEF MarketInv

LEMMA CloseStep ==
  ASSUME MarketFacts, MarketInv, NEW ok \in BOOLEAN, Close(ok)
  PROVE  MarketInv'
<1>1. /\ phase' = "closed"
      /\ UNCHANGED <<at, planner, turn, placed, offered, bids, private, awards, round, converged, tick, gone>>
  BY DEF Close, market
<1>2. /\ MarketTyped /\ Apart /\ Phases /\ Fair /\ Reported /\ round \in Nat
  BY DEF MarketInv, MarketTyped
<1>3. Reported'
  <2>1. /\ tick \in Nat /\ faults \in Nat /\ stats \in Counts /\ stats.ticks >= 0
        /\ stats.auctions + stats.idle = stats.ticks
        /\ stats.ticks = 0 => published = round_stats(stats)
        /\ faults = 0 => published.truncated = stats.truncated
    BY <1>2 DEF Reported
  <2>2. CASE stats.ticks = 0
    <3>1. UNCHANGED <<stats, published, faults>>
      BY <2>2 DEF Close
    <3>2. round_stats(stats)' = round_stats(stats)
      BY <3>1 DEF round_stats
    <3> QED BY <1>1, <2>1, <2>2, <3>1, <3>2 DEF Reported
  <2>3. CASE stats.ticks # 0
    <3>1. /\ stats' = Patched(stats) /\ published' = IF ok THEN round_stats(stats) ELSE published
          /\ faults' = IF ok THEN faults ELSE faults + 1
      BY <2>3 DEF Close
    <3>2. /\ stats' \in Counts /\ stats'.ticks = stats.ticks /\ stats'.auctions = stats.auctions
          /\ stats'.idle = stats.idle /\ stats'.truncated = stats.truncated
          /\ stats'.drain = stats.drain /\ stats'.sum = stats.sum /\ stats'.max = stats.max
      BY <2>1, <3>1 DEF Patched, Counts
    <3>3. round_stats(stats)' = round_stats(stats)
      BY <3>2 DEF round_stats
    <3>4. faults' \in Nat /\ (faults' = 0 => ok)
      BY <2>1, <3>1
    <3>5. round_stats(stats).truncated = stats.truncated
      BY DEF round_stats
    <3>6. faults' = 0 => published' = round_stats(stats)' /\ published'.truncated = stats'.truncated
      BY <3>1, <3>2, <3>3, <3>4, <3>5
    <3> QED BY <1>1, <2>1, <2>3, <3>2, <3>4, <3>6 DEF Reported
  <2> QED BY <2>2, <2>3
<1>4. MarketTyped'
  <2>1. phase' = "closed"
    BY <1>1
  <2> QED BY <1>1, <1>2, <2>1, Zenon DEF MarketTyped, Where
<1>5. Apart' /\ Fair'
  BY <1>1, <1>2, ApartStays, FairStays
<1>6. Phases' /\ Untouched'
  BY <1>1, <1>2, SameWorld DEF Phases, Untouched
<1>7. OfferedIsFree' /\ BidsStand' /\ RoundsAward' /\ NothingLeft'
  BY <1>1 DEF OfferedIsFree, BidsStand, RoundsAward, NothingLeft
<1>8. Settled'
  BY <1>1 DEF Settled, OwnersKeepTheirs, EveryRoundAwards, ConvergedIsExhausted
<1> QED
  BY <1>3, <1>4, <1>5, <1>6, <1>7, <1>8 DEF MarketInv

-----------------------------------------------------------------------------
(* The theorem.                                                            *)

LEMMA MarketNextInv ==
  ASSUME MarketFacts, MarketInv, [Next]_vars
  PROVE  MarketInv'
<1>1. CASE UNCHANGED vars
  <2>1. UNCHANGED <<at, planner, phase, turn, placed, offered, bids, private, awards, round,
                    converged, gone, tick, stats, published, faults>>
    BY <1>1 DEF vars
  <2>2. /\ MarketTyped /\ Apart /\ Phases /\ Untouched /\ Fair /\ OfferedIsFree /\ BidsStand
        /\ RoundsAward /\ NothingLeft /\ Settled /\ Reported /\ round \in Nat
    BY DEF MarketInv, MarketTyped
  <2>3. /\ Taken' = Taken /\ FreeOrders' = FreeOrders
        /\ \A g : FreeTrucks(g)' = FreeTrucks(g) /\ OrdersOf(g)' = OrdersOf(g)
    BY <2>1, SameFree
  <2>4. MarketTyped' /\ Phases'
    BY <2>1, <2>2, SameWorld DEF MarketTyped, Where, Phases
  <2>5. Apart' /\ Fair'
    BY <2>1, <2>2, ApartStays, FairStays
  <2>6. Untouched'
    BY <2>1, <2>2, SameWorld DEF Untouched
  <2>7. OfferedIsFree'
    <3>1. \A p : Offer(p)' <=> Offer(p)
      BY <2>1, SameWorld DEF Offer, eligible_carriers
    <3> QED BY <2>1, <2>2, <2>3, <3>1 DEF OfferedIsFree
  <2>8. BidsStand'
    <3>1. \A b : Sound(b) => Sound(b)'
      BY <2>1, <2>2, SoundStays
    <3>2. \A o, g : pool_of_order(o, g)' = pool_of_order(o, g) /\ pools_for(g)' = pools_for(g)
      BY <2>1 DEF pool_of_order, pools_for
    <3>3. \A b : Bid(b) => Bid(b)'
      BY <2>1, <2>3, <3>1, <3>2 DEF Bid
    <3> QED BY <2>1, <2>2, <3>3 DEF BidsStand
  <2>9. RoundsAward'
    BY <2>1, <2>2, <2>3 DEF RoundsAward, Awarded
  <2>10. NothingLeft'
    <3>1. NothingCommitted' => NothingCommitted
      BY <2>1 DEF NothingCommitted
    <3>2. \A o : eligible_carriers(o)' = eligible_carriers(o)
      BY <2>1 DEF eligible_carriers
    <3>3. OfferedIsAll => OfferedIsAll'
      BY <2>1, <2>3, <3>2, SameWorld DEF OfferedIsAll
    <3>4. \A h : Spent(h) => Spent(h)'
      BY <2>1, SpentStays
    <3> QED BY <2>1, <2>2, <3>1, <3>3, <3>4 DEF NothingLeft
  <2>11. Settled'
    <3>1. OwnersKeepTheirs'
      BY <2>1, <2>2, SameWorld DEF Settled, OwnersKeepTheirs
    <3>2. EveryRoundAwards'
      BY <2>1, <2>2, <2>3, SameWorld DEF Settled, EveryRoundAwards
    <3>3. ConvergedIsExhausted'
      <4>1. phase = "assigned" /\ converged => \A h \in Companies : Spent(h)
        BY <2>2, Zenon DEF Settled, ConvergedIsExhausted, Spent
      <4>2. \A h : Spent(h) => Spent(h)'
        BY <2>1, SpentStays
      <4>3. phase' = "assigned" /\ converged' => \A h \in Companies : Spent(h)'
        BY <2>1, <4>1, <4>2, Zenon
      <4> QED BY <4>3, Zenon DEF ConvergedIsExhausted, Spent
    <3> QED BY <3>1, <3>2, <3>3 DEF Settled
  <2>12. Reported'
    BY <2>1, <2>2 DEF Reported, round_stats
  <2> QED BY <2>4, <2>5, <2>6, <2>7, <2>8, <2>9, <2>10, <2>11, <2>12 DEF MarketInv
<1>2. CASE Next
  BY <1>2, AssignPartitionedStep, PartitionedDoneStep, ContributeStep, OpenRoundStep, EndRoundsStep,
     CompanyBidsStep, ArbitrateStep, ConvergeStep, RecordRoundStatsStep, NextTickStep, CloseStep, Zenon
     DEF Next
<1> QED
  BY <1>1, <1>2

\* What is published of a tick is the tag of an award no owner could have served cheaper.
LEMMA FairShares ==
  ASSUME MarketFacts, MarketInv
  PROVE  SharingNeverCostsMore
<1> SUFFICES ASSUME resolved_topology = "partitioned", get_solver = "GreedyNearest",
                    NEW a \in awards, a.carrier # a.owner,
                    \A t \in Fleet(a.owner) : InSight(t, a.order)
             PROVE  benefit_km(a) >= 0
  BY DEF SharingNeverCostsMore
<1>1. Where /\ Sound(a) /\ OwnNoCheaper(a)
  BY DEF MarketInv, MarketTyped, Apart, Fair
<1>2. a.order \in Orders /\ a.cost \in Nat /\ a.owner = HaulierOf[a.order]
  BY <1>1 DEF Sound, Papers
<1> DEFINE own == {u \in Fleet(HaulierOf[a.order]) \ Taken : pair_allowed(u, a.order)}
           costs == {Unknown} \cup {assignment_cost(t, a.order) : t \in own}
<1>3. \A t \in own : t \in Trucks /\ assignment_cost(t, a.order) \in Nat
                     /\ a.cost <= assignment_cost(t, a.order)
  <2> TAKE t \in own
  <2>1. t \in Trucks
    BY DEF Fleet, AssignableTrucks
  <2>2. assignment_cost(t, a.order) \in Nat
    BY <1>1, <1>2, <2>1, CostIsNat
  <2>3. a.cost <= assignment_cost(t, a.order)
    BY <1>1, <1>2 DEF OwnNoCheaper
  <2> QED BY <2>1, <2>2, <2>3
<1>4. owner_reserve_km(a.order) = Min(costs)
  BY DEF owner_reserve_km
<1> HIDE DEF own
<1>5. costs \in SUBSET Nat /\ costs # {}
  BY <1>3 DEF Unknown
<1>6. \A c \in costs : c = Unknown \/ a.cost <= c
  BY <1>3
<1> HIDE DEF costs
<1>7. Min(costs) \in costs
  BY <1>5, LeastOf
<1>8. Min(costs) \in Nat /\ (Min(costs) = Unknown \/ a.cost <= Min(costs))
  BY <1>5, <1>6, <1>7
<1> QED
  BY <1>2, <1>4, <1>8 DEF benefit_km, Unknown

LEMMA MarketInvSafe ==
  ASSUME MarketFacts, MarketInv
  PROVE  MarketSafe /\ ConvergedIsExhausted
<1>1. Apart /\ Settled /\ Reported
  BY DEF MarketInv
<1>2. OneToOne
  BY <1>1 DEF OneToOne, Apart, Sound
<1>3. OnlySharedTravels
  BY <1>1 DEF OnlySharedTravels, Apart, Travels
<1>4. TruncationIsShown
  BY <1>1 DEF TruncationIsShown, Reported
<1>5. SharingNeverCostsMore
  BY FairShares
<1> QED
  BY <1>1, <1>2, <1>3, <1>4, <1>5 DEF MarketSafe, Settled

LEMMA MarketInvAlways == Spec => []MarketInv
<1>1. Init => MarketInv
  BY InitMarket, MarketAssumption
<1>2. MarketInv /\ [Next]_vars => MarketInv'
  BY MarketNextInv, MarketAssumption
<1> QED
  BY <1>1, <1>2, PTL DEF Spec

\* Whatever the fleet, the structure, the planner profile and the ties: an
\* allocation is one to one and feasible, only a contributed order is carried by a
\* partner, the owner's bid wins its own order under OwnerFirst, every round but the
\* last awards something, sharing never costs more than an own truck left free, and a
\* truncated tick is published (assign(), commit(), arbitrate, _record_round_stats).
THEOREM MarketSafeAlways == Spec => []MarketSafe
<1>1. MarketInv => MarketSafe
  BY MarketInvSafe, MarketAssumption
<1> QED
  BY <1>1, MarketInvAlways, PTL

\* run_pooled_market: whatever the fleet and the number of rounds, a tick that reports
\* convergence left no work undone: no company sure to claim has a free truck that may
\* serve a free order its search would have reached.
THEOREM ConvergedIsExhaustedAlways == Spec => []ConvergedIsExhausted
<1>1. MarketInv => ConvergedIsExhausted
  BY MarketInvSafe, MarketAssumption
<1> QED
  BY <1>1, MarketInvAlways, PTL

-----------------------------------------------------------------------------
(* The scenario store, for any structures and any number of saves, hand    *)
(* edits, kills and launches.  StoreInv says what the files tell of one    *)
(* another, and what a save in flight still owes the recipe it read.       *)

-----------------------------------------------------------------------------
(* Types.                                                                  *)

RecipeKinds == {"recipe", "blank", "absent", "garbled"}
Recipes ==
  [coop : [Structures -> Store!Shapes \cup {"clash"}], planner : {"unset", "pooled", "partitioned"},
   rules : {"null", "empty", "some"}, world : {Store!NoWorld} \cup Store!Worlds, matrix : Store!Worlds,
   multiday : BOOLEAN, kind : RecipeKinds]
Bundles == [recipe : Recipes, applied : BOOLEAN, sites : {Store!NoWorld} \cup Store!Worlds,
            realized : {"none", "days times rate", "count"}, stamp : 0 .. 4]
Entries == [chip : {"none", "unset", "pooled", "partitioned"}, stamp : 0 .. 4]
Stages == {"idle", "compile", "remove", "rename", "refresh", "unlist", "baseline"}

DiskTypes ==
  /\ spec \in Recipes /\ bundle \in Bundles /\ sources \in BOOLEAN /\ edited \in BOOLEAN
  /\ index \in Entries /\ rollup \in Entries
OpTypes ==
  /\ saving.stage \in Stages /\ saving.carry \in BOOLEAN /\ saving.before \in Recipes
       /\ saving.payload \in Recipes
  /\ saving = [stage |-> saving.stage, request |-> saving.request, reset |-> saving.reset,
       before |-> saving.before,
           payload |-> saving.payload, carry |-> saving.carry]

\* What was compiled is what will be renamed in, and keeps what was authored.
CompiledInv == saving.stage \in {"remove", "rename"} => Store!Compiles(saving.payload)
KeptInv ==
  saving.stage \in {"compile", "remove", "rename"} /\ Store!Readable(saving.before)
    => Store!Keeps(saving.before, Store!Recipe(saving.payload), saving.request, saving.reset)

\* An entry with the bundle's mtime tells of the bundle.
EntryInv ==
  Store!bundle_exists => /\ rollup.stamp = bundle.stamp => rollup.chip = bundle.recipe.planner
                         /\ index.stamp = bundle.stamp => index.chip = bundle.recipe.planner

\* A compile alone realizes a per-day rate, and only of a recipe with many days.
RealizedInv ==
  Store!bundle_exists => /\ bundle.realized \in {"days times rate", "count"}
                         /\ bundle.realized = "days times rate" => bundle.recipe.multiday

EditedInv ==
  Store!bundle_exists /\ Store!Readable(bundle.recipe) /\ Store!Readable(spec) /\ spec # bundle.recipe
    /\ ~Store!RewrittenByLaunch => edited

DiskInv == DiskTypes /\ EntryInv /\ RealizedInv /\ EditedInv /\ Store!BundleHonoursRules
OpInv == OpTypes /\ CompiledInv /\ KeptInv
StoreInv == DiskInv /\ OpInv

-----------------------------------------------------------------------------
(* The operators of the store.                                             *)

\* NewStamp: an mtime none of the indexes recorded.
LEMMA FreshStamp ==
  ASSUME DiskTypes
  PROVE  Store!NewStamp \in 1 .. 4 /\ Store!NewStamp \notin {bundle.stamp, index.stamp, rollup.stamp}
<1> DEFINE S == (1 .. 4) \ {bundle.stamp, index.stamp, rollup.stamp}
<1>1. \E x \in S : \A y \in S : x <= y
  <2>1. \E x \in 1 .. 4 : x \notin {bundle.stamp, index.stamp, rollup.stamp}
    OBVIOUS
  <2>2. CASE 1 \in S
    BY <2>2
  <2>3. CASE 1 \notin S /\ 2 \in S
    BY <2>3
  <2>4. CASE 1 \notin S /\ 2 \notin S /\ 3 \in S
    BY <2>4
  <2>5. CASE 1 \notin S /\ 2 \notin S /\ 3 \notin S
    BY <2>1, <2>5
  <2> QED
    BY <2>2, <2>3, <2>4, <2>5
<1>2. Store!NewStamp \in S
  BY <1>1, Zenon DEF Store!NewStamp, Store!Min
<1> QED
  BY <1>2

LEMMA RequestTypes ==
  ASSUME NEW r \in Store!Requests
  PROVE  /\ r.coop = Store!Unspoken \/ r.coop \in [Structures -> Store!Shapes]
         /\ r.planner \in {"unspoken", "null", "pooled"} /\ r.rules \in {"unspoken", "null", "empty", "some"}
         /\ r.matrix \in {Store!NoWorld, 1} /\ r.multiday \in {"unspoken", "yes"}
         /\ r = [coop |-> r.coop, planner |-> r.planner, rules |-> r.rules, matrix |-> r.matrix,
              multiday |-> r.multiday]
<1>1. Store!AllCliques \in Store!Coops /\ Store!Unspoken \in Store!Coops
  BY DEF Store!AllCliques, Store!Coops, Store!Shapes
<1>2. \A c \in Store!Coops : c = Store!Unspoken \/ c \in [Structures -> Store!Shapes]
  BY DEF Store!Coops
<1>3. PICK c \in Store!Coops : r = [Store!Silent EXCEPT !.coop = c] \/ r \in Store!Spoken(c)
  BY <1>1 DEF Store!Requests
<1> QED
  BY <1>2, <1>3 DEF Store!Spoken, Store!Silent

LEMMA Assembled ==
  ASSUME NEW r, NEW b \in Recipes, NEW c,
         c = Store!Unspoken \/ c \in [Structures -> Store!Shapes \cup {"clash"}],
         r.coop = c, r.planner \in {"unspoken", "null", "pooled"}, r.rules \in {"unspoken", "null",
           "empty", "some"},
         r.matrix \in {Store!NoWorld, 1}, r.multiday \in {"unspoken", "yes"}
  PROVE  /\ Store!assemble_spec(r, b) \in Recipes
         /\ Store!assemble_spec(r, b).world = b.world
         /\ Store!Readable(b) /\ r.planner = "unspoken" => Store!assemble_spec(r, b).planner = b.planner
         /\ Store!Readable(b) /\ r.rules \in {"unspoken", "null"} => Store!assemble_spec(r, b).rules = b.rules
         /\ \A s \in Structures : b.coop[s] = "trio" /\ c[s] \in {"clique", "trio"}
              => Store!assemble_spec(r, b).coop[s] = "trio"
<1> DEFINE p == Store!Take("planner", r.planner, "unset", b)
           q == Store!Take("rules", r.rules, "null", b)
           k == Store!carry_authored_pools(r.coop, b.coop)
<1>1. p \in {"unset", "pooled", "partitioned"} /\ (Store!Readable(b) /\ r.planner = "unspoken" => p = b.planner)
  BY DEF Store!Take, Store!key_supplied, Recipes, Store!Readable
<1>2. q \in {"null", "empty", "some"} /\ (Store!Readable(b) /\ r.rules \in {"unspoken", "null"} => q = b.rules)
  BY DEF Store!Take, Store!key_supplied, Recipes, Store!Readable
<1>3. \A s \in Structures : c[s] \in Store!Shapes \cup {"clash", "unspoken"}
  BY DEF Store!Unspoken
<1>4. /\ k \in [Structures -> Store!Shapes \cup {"clash"}]
      /\ \A s \in Structures : b.coop[s] = "trio" /\ c[s] \in {"clique", "trio"} => k[s] = "trio"
  BY <1>3 DEF Store!carry_authored_pools, Store!Shapes
<1> DEFINE m == IF r.matrix # Store!NoWorld THEN r.matrix ELSE b.matrix
           d == IF r.multiday = "yes" THEN TRUE ELSE b.multiday
<1>5. m \in Store!Worlds
  BY DEF Recipes, Store!Worlds, Store!NoWorld
<1>6. d \in BOOLEAN /\ b.world \in {Store!NoWorld} \cup Store!Worlds
  BY DEF Recipes
<1>7. Store!assemble_spec(r, b) = [coop |-> k, planner |-> p, rules |-> q, world |-> b.world, matrix |-> m,
                            multiday |-> d, kind |-> "recipe"]
  BY DEF Store!assemble_spec
<1> HIDE DEF p, q, k, m, d
<1>8. Store!assemble_spec(r, b) \in Recipes
  BY <1>1, <1>2, <1>4, <1>5, <1>6, <1>7 DEF Recipes, RecipeKinds
<1>9. /\ Store!assemble_spec(r, b).coop = k /\ Store!assemble_spec(r, b).planner = p
      /\ Store!assemble_spec(r, b).rules = q /\ Store!assemble_spec(r, b).world = b.world
  BY <1>7
<1> QED
  BY <1>1, <1>2, <1>4, <1>8, <1>9
\* What is on disk, read as a recipe.
LEMMA Loaded ==
  ASSUME DiskTypes
  PROVE  Store!load_generation_spec \in Recipes /\ Store!NoSpec \in Recipes
           /\ Store!Garbled \in Recipes /\ Store!Blank \in Recipes
<1>1. Store!Blank \in Recipes
  BY DEF Store!Blank, Recipes, Store!Shapes, RecipeKinds, Store!Worlds
<1>2. Store!NoSpec \in Recipes /\ Store!Garbled \in Recipes
  BY <1>1 DEF Store!NoSpec, Store!Garbled, Recipes, RecipeKinds
<1> QED
  BY <1>1, <1>2 DEF Store!load_generation_spec, DiskTypes, Bundles

LEMMA Echoed ==
  ASSUME NEW b \in Recipes
  PROVE  /\ Store!Recipe(b) \in Recipes /\ Store!Recipe(b).planner # "unset"
         /\ b.planner # "unset" => Store!Recipe(b).planner = b.planner
         /\ Store!Recipe(b).coop = b.coop /\ Store!Recipe(b).rules = b.rules /\ Store!Recipe(b).world = b.world
         /\ Store!Recipe(b).matrix = b.matrix /\ Store!Recipe(b).multiday = b.multiday
              /\ Store!Recipe(b).kind = b.kind
BY DEF Store!Recipe, Recipes

LEMMA Scoped ==
  ASSUME NEW b \in Recipes, NEW c
  PROVE  /\ Store!scoped_to_untouched(b, c) \in Recipes
         /\ \A s \in Structures : s \notin Store!Lost(b, c) =>
              Store!scoped_to_untouched(b, c).coop[s] = b.coop[s]
         /\ Store!scoped_to_untouched(b, c).planner = b.planner
              /\ Store!scoped_to_untouched(b, c).rules = b.rules
         /\ Store!scoped_to_untouched(b, c).world = b.world /\ Store!scoped_to_untouched(b, c).kind = b.kind
<1> DEFINE k == [s \in Structures |-> IF s \in Store!Lost(b, c) THEN "missing" ELSE b.coop[s]]
<1>1. k \in [Structures -> Store!Shapes \cup {"clash"}]
  BY DEF Recipes, Store!Shapes
<1>2. Store!scoped_to_untouched(b, c) = [b EXCEPT !.coop = k]
  BY DEF Store!scoped_to_untouched, Recipes
<1> HIDE DEF k
<1>3. Store!scoped_to_untouched(b, c) \in Recipes
  BY <1>1, <1>2 DEF Recipes
<1> QED
  BY <1>2, <1>3 DEF k, Recipes

\* A save that passed the guard keeps what its request does not speak of.
LEMMA SaveKeeps ==
  ASSUME NEW request \in Store!Requests, NEW reset \in BOOLEAN, NEW b \in Recipes, NEW raw, NEW c,
         c = Store!Unspoken \/ c \in [Structures -> Store!Shapes \cup {"clash"}],
         raw.coop = c, raw.planner = request.planner, raw.rules = request.rules,
         raw.matrix = request.matrix, raw.multiday = request.multiday,
         c = request.coop \/ request.coop = Store!Unspoken,
         ~Store!guard_refuses(b, c, reset)
  PROVE  LET payload == Store!assemble_spec(raw, IF reset THEN Store!scoped_to_untouched(b, c) ELSE b) IN
         payload \in Recipes /\ (Store!Readable(b) => Store!Keeps(b, Store!Recipe(payload), request, reset))
<1> DEFINE from == IF reset THEN Store!scoped_to_untouched(b, c) ELSE b
           payload == Store!assemble_spec(raw, from)
<1>1. /\ from \in Recipes /\ from.planner = b.planner /\ from.rules = b.rules /\ from.world = b.world
      /\ from.kind = b.kind /\ \A s \in Structures : s \notin Store!Lost(b, c) => from.coop[s] = b.coop[s]
  BY Scoped
<1>2. /\ request.planner \in {"unspoken", "null", "pooled"}
           /\ request.rules \in {"unspoken", "null", "empty", "some"}
      /\ request.matrix \in {Store!NoWorld, 1} /\ request.multiday \in {"unspoken", "yes"}
  BY RequestTypes
<1> HIDE DEF from
<1>3. /\ payload \in Recipes /\ payload.world = from.world
      /\ Store!Readable(from) /\ request.planner = "unspoken" => payload.planner = from.planner
      /\ Store!Readable(from) /\ request.rules \in {"unspoken", "null"} => payload.rules = from.rules
      /\ \A s \in Structures : from.coop[s] = "trio" /\ c[s] \in {"clique", "trio"} => payload.coop[s] = "trio"
  BY <1>1, <1>2, Assembled
<1> HIDE DEF payload
<1>4. ASSUME NEW s \in Structures, b.coop[s] = "trio", ~reset \/ request.coop[s] = "clique"
      PROVE  payload.coop[s] = "trio"
  <2>1. c[s] \in {"clique", "trio"} /\ s \notin Store!Lost(b, c)
    <3>1. CASE ~reset
      BY <1>4, <3>1 DEF Store!guard_refuses, Store!Lost, Store!content_ids
    <3>2. CASE reset
      <4>1. c = request.coop
        BY <1>4, <3>2 DEF Store!Unspoken
      <4> QED
        BY <1>4, <3>2, <4>1 DEF Store!Lost, Store!content_ids
    <3> QED
      BY <3>1, <3>2
  <2> QED
    BY <1>1, <1>3, <1>4, <2>1
<1>5. Store!Readable(b) => Store!Keeps(b, Store!Recipe(payload), request, reset)
  BY <1>1, <1>3, <1>4, Echoed DEF Store!Keeps, Store!Readable
<1> QED
  BY <1>3, <1>5 DEF payload, from
-----------------------------------------------------------------------------
(* The steps.                                                              *)

LEMMA IdleOp == Store!Idle.stage = "idle" /\ Store!Idle.before \in Recipes
    /\ Store!Idle.payload \in Recipes /\ Store!Idle.carry = FALSE
<1>1. Store!NoSpec \in Recipes
  <2>1. Store!Blank \in Recipes
    BY DEF Store!Blank, Recipes, Store!Shapes, RecipeKinds, Store!Worlds
  <2> QED
    BY <2>1 DEF Store!NoSpec, Recipes, RecipeKinds
<1> QED
  BY <1>1 DEF Store!Idle

LEMMA InitStore == Store!Init => StoreInv
<1> SUFFICES ASSUME Store!Init PROVE StoreInv
  OBVIOUS
<1>1. Store!NoSpec \in Recipes
  BY IdleOp DEF Store!Idle
<1>2. DiskInv
  <2>1. Store!NoBundle \in Bundles /\ Store!NoEntry \in Entries /\ Store!NoBundle.stamp = 0
    BY <1>1 DEF Store!NoBundle, Store!NoEntry, Bundles, Entries
  <2>2. ~Store!bundle_exists
    BY <2>1 DEF Store!Init, Store!bundle_exists
  <2> QED
    BY <1>1, <2>1, <2>2 DEF Store!Init, DiskInv, DiskTypes, EntryInv, RealizedInv, EditedInv,
       Store!BundleHonoursRules
<1>3. OpInv
  BY <1>1 DEF Store!Init, OpInv, OpTypes, Store!Idle, Stages, CompiledInv, KeptInv
<1> QED
  BY <1>2, <1>3 DEF StoreInv

LEMMA DiskStays ==
  ASSUME DiskInv, UNCHANGED <<spec, bundle, edited, index, rollup>>, sources' \in BOOLEAN PROVE DiskInv'
BY DEF DiskInv, DiskTypes, EntryInv, RealizedInv, EditedInv, Store!BundleHonoursRules,
   Store!RewrittenByLaunch, Store!bundle_exists

LEMMA OpStays == ASSUME OpInv, UNCHANGED saving PROVE OpInv'
BY DEF OpInv, OpTypes, CompiledInv, KeptInv

LEMMA OpIdles == ASSUME saving' = Store!Idle PROVE OpInv'
BY IdleOp DEF OpInv, OpTypes, CompiledInv, KeptInv, Stages, Store!Idle

\* The next stage of a save keeps what was assembled.
LEMMA OpAdvances ==
  ASSUME OpInv, NEW q \in {"remove", "rename", "refresh"}, saving' = [saving EXCEPT !.stage = q],
         saving.stage \in {"compile", "remove", "rename"},
         saving.stage = "compile" => Store!Compiles(saving.payload)
  PROVE  OpInv'
<1>1. /\ saving'.stage = q /\ saving'.request = saving.request /\ saving'.reset = saving.reset
      /\ saving'.before = saving.before /\ saving'.payload = saving.payload /\ saving'.carry = saving.carry
  BY DEF OpInv, OpTypes
<1>2. OpTypes'
  <2>1. saving' = [stage |-> q, request |-> saving.request, reset |-> saving.reset, before |-> saving.before,
               payload |-> saving.payload, carry |-> saving.carry]
    BY DEF OpInv, OpTypes
  <2> QED
    BY <1>1, <2>1 DEF OpInv, OpTypes, Stages
<1>3. CompiledInv'
  BY <1>1 DEF OpInv, CompiledInv, Store!Compiles, Store!normalize_cooperation,
     Store!validate_world_baseline, Store!site_digest
<1>4. KeptInv'
  BY <1>1 DEF OpInv, KeptInv, Store!Keeps, Store!Recipe, Store!Readable
<1> QED
  BY <1>2, <1>3, <1>4 DEF OpInv

LEMMA BeginKeeps ==
  ASSUME StoreInv, NEW request, NEW reset, NEW before \in Recipes, NEW payload \in Recipes,
         NEW carry \in BOOLEAN,
         Store!Begin(request, reset, before, payload, carry),
         Store!Readable(before) => Store!Keeps(before, Store!Recipe(payload), request, reset)
  PROVE  StoreInv'
<1>1. DiskInv'
  BY DiskStays DEF StoreInv, Store!Begin, Store!DiskUnchanged, DiskInv, DiskTypes
<1>2. saving' = [stage |-> "compile", request |-> request, reset |-> reset, before |-> before,
             payload |-> payload, carry |-> carry /\ sources]
  BY DEF Store!Begin
<1>3. OpInv'
  <2>1. (carry /\ sources) \in BOOLEAN
    OBVIOUS
  <2> QED
    BY <1>2, <2>1 DEF OpInv, OpTypes, CompiledInv, KeptInv, Stages, Store!Keeps, Store!Recipe, Store!Readable
<1> QED
  BY <1>1, <1>3 DEF StoreInv

LEMMA GenerateKeeps ==
  ASSUME StoreInv, NEW request \in Store!Requests, NEW reset \in BOOLEAN, Store!Generate(request, reset)
  PROVE  StoreInv'
<1> DEFINE b == Store!load_generation_spec
           payload == Store!assemble_spec(request,
                        IF reset THEN Store!scoped_to_untouched(b, request.coop) ELSE b)
<1>1. b \in Recipes
  BY Loaded DEF StoreInv, DiskInv
<1>2. ~Store!guard_refuses(b, request.coop, reset) /\ Store!Begin(request, reset, b, payload, FALSE)
  BY DEF Store!Generate
<1>3. request.coop = Store!Unspoken \/ request.coop \in [Structures -> Store!Shapes \cup {"clash"}]
  BY RequestTypes
<1> HIDE DEF b
<1>4. payload \in Recipes /\ (Store!Readable(b) => Store!Keeps(b, Store!Recipe(payload), request, reset))
  BY <1>1, <1>2, <1>3, SaveKeeps
<1> HIDE DEF payload
<1> QED
  BY <1>1, <1>2, <1>4, BeginKeeps

LEMMA EditKeeps ==
  ASSUME StoreInv, NEW patch \in Store!Requests, NEW reset \in BOOLEAN, Store!Edit(patch, reset)
  PROVE  StoreInv'
<1> DEFINE b == Store!load_generation_spec
           merged == Store!Merged(b, patch)
           payload == Store!assemble_spec(merged,
                        IF reset THEN Store!scoped_to_untouched(b, merged.coop) ELSE b)
<1>1. b \in Recipes
  BY Loaded DEF StoreInv, DiskInv
<1>2. ~Store!guard_refuses(b, merged.coop, reset) /\ Store!Begin(patch, reset, b, payload, TRUE)
  BY DEF Store!Edit
<1> HIDE DEF b
<1>3. /\ merged.coop = (IF patch.coop = Store!Unspoken THEN b.coop ELSE patch.coop)
      /\ merged.planner = patch.planner /\ merged.rules = patch.rules
      /\ merged.matrix = patch.matrix /\ merged.multiday = patch.multiday
  BY RequestTypes DEF Store!Merged
<1>4. merged.coop \in [Structures -> Store!Shapes \cup {"clash"}]
  BY <1>1, <1>3, RequestTypes DEF Recipes
<1>5. merged.coop = patch.coop \/ patch.coop = Store!Unspoken
  BY <1>3
<1> HIDE DEF merged
<1>6. payload \in Recipes /\ (Store!Readable(b) => Store!Keeps(b, Store!Recipe(payload), patch, reset))
  BY <1>1, <1>2, <1>3, <1>4, <1>5, SaveKeeps
<1> HIDE DEF payload
<1> QED
  BY <1>1, <1>2, <1>6, BeginKeeps
LEMMA RecompileKeeps == ASSUME StoreInv, Store!Recompile PROVE StoreInv'
<1> DEFINE b == Store!load_generation_spec
<1>1. b \in Recipes /\ Store!Begin(Store!Silent, FALSE, b, b, TRUE)
  BY Loaded DEF StoreInv, DiskInv, Store!Recompile
<1> HIDE DEF b
<1>2. Store!Keeps(b, Store!Recipe(b), Store!Silent, FALSE)
  BY <1>1, Echoed DEF Store!Keeps
<1> QED
  BY <1>1, <1>2, BeginKeeps

\* The folder is gone: nothing is said of what is not there.
LEMMA GoneKeeps ==
  ASSUME DiskInv, spec' = Store!NoSpec, bundle' = Store!NoBundle, sources' = FALSE, edited' = FALSE,
           index' = Store!NoEntry,
         rollup' = rollup
  PROVE  DiskInv'
<1>1. Store!NoSpec \in Recipes /\ Store!NoBundle \in Bundles /\ Store!NoEntry \in Entries
        /\ Store!NoBundle.stamp = 0
  BY IdleOp DEF Store!Idle, Store!NoBundle, Store!NoEntry, Bundles, Entries
<1>2. ~Store!bundle_exists'
  BY <1>1 DEF Store!bundle_exists
<1> QED
  BY <1>1, <1>2 DEF DiskInv, DiskTypes, EntryInv, RealizedInv, EditedInv, Store!BundleHonoursRules

LEMMA RenameKeeps == ASSUME StoreInv, Store!Rename PROVE StoreInv'
<1> DEFINE b == Store!compile_spec_to_bundle(saving.payload)
           r == Store!Recipe(saving.payload)
<1>1. saving.payload \in Recipes /\ Store!Compiles(saving.payload) /\ OpInv
  BY DEF StoreInv, OpInv, OpTypes, CompiledInv, Store!Rename
<1>2. /\ r \in Recipes /\ r.rules = saving.payload.rules /\ r.world = saving.payload.world
           /\ r.multiday = saving.payload.multiday
      /\ r.planner # "unset"
  BY <1>1, Echoed
<1>3. Store!NewStamp \in 1 .. 4 /\ Store!NewStamp \notin {bundle.stamp, index.stamp, rollup.stamp}
  BY FreshStamp DEF StoreInv, DiskInv
<1> HIDE DEF r
<1>4. b = [recipe |-> r, applied |-> saving.payload.rules = "some", sites |-> saving.payload.matrix,
           realized |-> IF saving.payload.multiday THEN "days times rate" ELSE "count",
           stamp |-> Store!NewStamp]
  BY DEF Store!compile_spec_to_bundle, Store!site_digest, r
<1>5. b \in Bundles
  <2> DEFINE z == IF saving.payload.multiday THEN "days times rate" ELSE "count"
             y == saving.payload.rules = "some"
  <2>1. saving.payload.matrix \in {Store!NoWorld} \cup Store!Worlds
          /\ z \in {"none", "days times rate", "count"} /\ y \in BOOLEAN
    BY <1>1 DEF Recipes
  <2>2. b = [recipe |-> r, applied |-> y, sites |-> saving.payload.matrix, realized |-> z,
          stamp |-> Store!NewStamp]
    BY <1>4
  <2> HIDE DEF z, y
  <2>3. Store!NewStamp \in 0 .. 4
    BY <1>3
  <2>4. \A rr \in Recipes, yy \in BOOLEAN, ss \in {Store!NoWorld} \cup Store!Worlds, zz \in {"none",
          "days times rate", "count"}, nn \in 0 .. 4 :
          [recipe |-> rr, applied |-> yy, sites |-> ss, realized |-> zz, stamp |-> nn] \in Bundles
    BY DEF Bundles
  <2> QED
    BY <1>2, <2>1, <2>2, <2>3, <2>4, Zenon
<1>6. /\ bundle' = b /\ spec' = b.recipe /\ sources' = saving.carry /\ edited' = FALSE
           /\ saving' = [saving EXCEPT !.stage = "refresh"]
      /\ UNCHANGED <<index, rollup>>
  BY DEF Store!Rename
<1> HIDE DEF b
<1>7. DiskTypes'
  BY <1>1, <1>2, <1>4, <1>5, <1>6 DEF StoreInv, DiskInv, DiskTypes, OpInv, OpTypes
<1>8. EntryInv' /\ RealizedInv' /\ EditedInv'
  BY <1>2, <1>3, <1>4, <1>6 DEF EntryInv, RealizedInv, EditedInv
<1>9. Store!BundleHonoursRules'
  BY <1>1, <1>2, <1>4, <1>6 DEF Store!BundleHonoursRules, Store!Compiles,
     Store!validate_world_baseline, Store!site_digest
<1>10. OpInv'
  BY <1>1, <1>6, OpAdvances DEF Store!Rename
<1> QED
  BY <1>7, <1>8, <1>9, <1>10 DEF StoreInv, DiskInv

\* The browse indexes rebuilt from the bundle tell of it.
LEMMA RefreshKeeps ==
  ASSUME DiskInv, Store!bundle_exists, Store!refresh_scenario, UNCHANGED <<spec, bundle, sources, edited>>
  PROVE  DiskInv'
<1>1. index' = Store!EntryOf(bundle) /\ rollup' = Store!EntryOf(bundle)
  BY DEF Store!refresh_scenario, Store!upsert_rollup
<1>2. Store!EntryOf(bundle) \in Entries
  BY DEF DiskInv, DiskTypes, Bundles, Recipes, Entries, Store!EntryOf
<1>3. Store!EntryOf(bundle).chip = bundle.recipe.planner
  BY DEF Store!EntryOf
<1> QED
  BY <1>1, <1>2, <1>3 DEF DiskInv, DiskTypes, EntryInv, RealizedInv, EditedInv,
     Store!BundleHonoursRules, Store!RewrittenByLaunch,
     Store!bundle_exists

LEMMA RecordKeeps == ASSUME StoreInv, Store!RecordWorld PROVE StoreInv'
<1>1. OpInv'
  BY OpIdles DEF Store!RecordWorld
<1>2. CASE ~Store!Readable(spec)
  BY <1>1, <1>2, DiskStays DEF Store!RecordWorld, StoreInv, DiskInv, DiskTypes
<1>3. CASE Store!Readable(spec)
  <2>1. spec' = [spec EXCEPT !.world = Store!site_digest(saving.payload)] /\ edited' = TRUE
          /\ UNCHANGED <<bundle, sources, index, rollup>>
    BY <1>3 DEF Store!RecordWorld
  <2>2. spec' \in Recipes
    BY <2>1 DEF StoreInv, DiskInv, DiskTypes, OpInv, OpTypes, Recipes, Store!site_digest
  <2> QED
    BY <1>1, <2>1, <2>2 DEF StoreInv, DiskInv, DiskTypes, EntryInv, RealizedInv, EditedInv,
       Store!BundleHonoursRules, Store!bundle_exists
<1> QED
  BY <1>2, <1>3

LEMMA HandKeeps == ASSUME StoreInv, Store!HandWrite \/ Store!HandEdit PROVE StoreInv'
<1>1. OpInv'
  BY OpStays DEF Store!HandWrite, Store!HandEdit, StoreInv
<1>2. CASE Store!HandWrite
  <2>1. spec' \in Recipes /\ ~Store!bundle_exists /\ UNCHANGED <<bundle, sources, edited, index, rollup>>
    <3>1. Store!Blank \in Recipes
      BY Loaded DEF StoreInv, DiskInv
    <3> QED
      BY <1>2, <3>1 DEF Store!HandWrite, Store!Exists, Recipes, RecipeKinds, Store!Shapes
  <2> QED
    BY <1>1, <2>1 DEF StoreInv, DiskInv, DiskTypes, EntryInv, RealizedInv, EditedInv,
       Store!BundleHonoursRules, Store!bundle_exists
<1>3. CASE Store!HandEdit
  <2>1. /\ spec' \in {Store!Garbled, [spec EXCEPT !.matrix = 1 - spec.matrix],
             [spec EXCEPT !.rules = "some"], [spec EXCEPT !.rules = "empty"]}
        /\ edited' = TRUE /\ UNCHANGED <<bundle, sources, index, rollup>>
    BY <1>3 DEF Store!HandEdit, StoreInv, DiskInv, DiskTypes, Recipes
  <2>2. spec' \in Recipes
    <3>1. Store!Garbled \in Recipes /\ spec \in Recipes
      BY Loaded DEF StoreInv, DiskInv, DiskTypes
    <3>2. 1 - spec.matrix \in Store!Worlds
      BY <3>1 DEF Recipes, Store!Worlds
    <3> QED
      BY <2>1, <3>1, <3>2 DEF Recipes
  <2> QED
    BY <1>1, <2>1, <2>2 DEF StoreInv, DiskInv, DiskTypes, EntryInv, RealizedInv, EditedInv,
       Store!BundleHonoursRules, Store!bundle_exists
<1> QED
  BY <1>2, <1>3

LEMMA LaunchKeeps == ASSUME StoreInv, Store!LaunchRegenerates \/ Store!LaunchGenerates PROVE StoreInv'
<1>1. OpInv'
  BY OpStays DEF Store!LaunchRegenerates, Store!LaunchGenerates, StoreInv
<1>2. Store!NewStamp \in 1 .. 4 /\ Store!NewStamp \notin {bundle.stamp, index.stamp, rollup.stamp}
  BY FreshStamp DEF StoreInv, DiskInv
<1>3. \A r \in Recipes :
        /\ Store!Regenerated(r) = [recipe |-> r, applied |-> FALSE, sites |-> 0, realized |-> "count",
                                   stamp |-> Store!NewStamp]
        /\ Store!Regenerated(r) \in Bundles
  BY <1>2 DEF Store!Regenerated, Store!expected_behavior_counts, Store!site_digest,
     Store!normalize_generate_spec, Store!Blank, Bundles, Store!Worlds
<1>4. PICK r \in Recipes :
        /\ r.rules # "some" /\ bundle' = Store!Regenerated(r) /\ edited' = FALSE
             /\ UNCHANGED <<spec, sources, index, rollup>>
        /\ r.world = Store!NoWorld
        /\ Store!Readable(r) => r.multiday
  <2>1. CASE Store!LaunchRegenerates
    <3>1. /\ Store!bundle_exists /\ bundle.realized # "count" /\ bundle.recipe.rules # "some"
               /\ bundle' = Store!Regenerated(bundle.recipe)
          /\ edited' = FALSE /\ UNCHANGED <<spec, sources, index, rollup>>
      BY <2>1 DEF Store!LaunchRegenerates, Store!loaded_behaviors_match,
         Store!expected_behavior_counts, Store!generate_random_behaviors,
         Store!refuse_facility_rules, Store!normalize_generate_spec, Store!Blank
    <3>2. bundle.recipe \in Recipes /\ bundle.recipe.world = Store!NoWorld /\ bundle.recipe.multiday
      BY <3>1 DEF StoreInv, DiskInv, DiskTypes, Bundles, Store!BundleHonoursRules, RealizedInv
    <3> QED
      BY <3>1, <3>2
  <2>2. CASE Store!LaunchGenerates
    <3> DEFINE r == [Store!Blank EXCEPT !.planner = "partitioned"]
    <3>1. r \in Recipes /\ r.rules = "null" /\ r.world = Store!NoWorld /\ r.kind = "blank"
      BY Loaded DEF StoreInv, DiskInv, Store!Blank, Recipes
    <3>2. bundle' = Store!Regenerated(r) /\ edited' = FALSE /\ UNCHANGED <<spec, sources, index, rollup>>
      BY <2>2 DEF Store!LaunchGenerates, Store!generate_random_behaviors
    <3> QED
      BY <3>1, <3>2 DEF Store!Readable
  <2> QED
    BY <2>1, <2>2
<1>5. /\ bundle' \in Bundles /\ bundle'.recipe = r /\ bundle'.realized = "count"
           /\ bundle'.stamp = Store!NewStamp
  BY <1>3, <1>4
<1> QED
  BY <1>1, <1>2, <1>4, <1>5 DEF StoreInv, DiskInv, DiskTypes, EntryInv, RealizedInv, EditedInv,
     Store!BundleHonoursRules,
     Store!RewrittenByLaunch, Store!bundle_exists

LEMMA StoreStep == ASSUME StoreInv, [Store!Next]_(Store!vars) PROVE StoreInv'
<1>1. ASSUME NEW request \in Store!Requests, NEW reset \in BOOLEAN, Store!Generate(request, reset)
                   \/ Store!Edit(request, reset) PROVE StoreInv'
  BY <1>1, GenerateKeeps, EditKeeps
<1>2. CASE Store!Recompile
  BY <1>2, RecompileKeeps
<1>3. CASE Store!StageSources
  BY <1>3, DiskStays, OpStays DEF Store!StageSources, StoreInv
<1>4. CASE Store!Compile
  BY <1>4, DiskStays, OpAdvances DEF Store!Compile, Store!DiskUnchanged, StoreInv, DiskInv, DiskTypes
<1>5. CASE Store!RemoveTarget
  BY <1>5, GoneKeeps, OpAdvances DEF Store!RemoveTarget, StoreInv
<1>6. CASE Store!Rename
  BY <1>6, RenameKeeps
<1>7. CASE Store!Refresh
  BY <1>7, RefreshKeeps, OpIdles DEF Store!Refresh, StoreInv
<1>8. CASE Store!Fail \/ Store!Crash
  BY <1>8, DiskStays, OpIdles DEF Store!Fail, Store!Crash, StoreInv, DiskInv, DiskTypes
<1>9. CASE Store!Delete
  <2>1. DiskInv'
    BY <1>9, GoneKeeps DEF Store!Delete, StoreInv
  <2>2. saving' = [Store!Idle EXCEPT !.stage = "unlist"]
    BY <1>9 DEF Store!Delete
  <2> QED
    BY <2>1, <2>2, IdleOp DEF StoreInv, OpInv, OpTypes, CompiledInv, KeptInv, Stages, Store!Idle
<1>10. CASE Store!Unlist
  <2>1. rollup' = Store!NoEntry /\ UNCHANGED <<spec, bundle, sources, edited, index>> /\ saving' = Store!Idle
    BY <1>10 DEF Store!Unlist, Store!remove_from_rollup
  <2>2. Store!NoEntry \in Entries /\ Store!NoEntry.stamp = 0
    BY DEF Store!NoEntry, Entries
  <2>3. DiskInv'
    BY <2>1, <2>2 DEF StoreInv, DiskInv, DiskTypes, EntryInv, RealizedInv, EditedInv,
       Store!BundleHonoursRules, Store!bundle_exists,
       Store!RewrittenByLaunch
  <2> QED
    BY <2>1, <2>3, OpIdles DEF StoreInv
<1>11. CASE Store!Probe
  <2>1. DiskInv'
    BY <1>11, DiskStays DEF Store!Probe, Store!DiskUnchanged, StoreInv, DiskInv, DiskTypes
  <2>2. saving' = [Store!Idle EXCEPT !.stage = "baseline", !.payload = spec] /\ spec \in Recipes
    BY <1>11 DEF Store!Probe, StoreInv, DiskInv, DiskTypes
  <2> QED
    BY <2>1, <2>2, IdleOp DEF StoreInv, OpInv, OpTypes, CompiledInv, KeptInv, Stages, Store!Idle
<1>12. CASE Store!RecordWorld
  BY <1>12, RecordKeeps
<1>13. CASE Store!Browse
  BY <1>13, RefreshKeeps, OpStays DEF Store!Browse, StoreInv
<1>14. CASE Store!HandWrite \/ Store!HandEdit
  BY <1>14, HandKeeps
<1>15. CASE Store!LaunchRegenerates \/ Store!LaunchGenerates
  BY <1>15, LaunchKeeps
<1>16. CASE UNCHANGED Store!vars
  BY <1>16, DiskStays, OpStays DEF Store!vars, StoreInv, DiskInv, DiskTypes
<1> QED
  BY <1>1, <1>2, <1>3, <1>4, <1>5, <1>6, <1>7, <1>8, <1>9, <1>10, <1>11, <1>12, <1>13, <1>14, <1>15, <1>16
     DEF Store!Next

LEMMA StoreSafe == StoreInv => Store!ScenarioSafe
<1> SUFFICES ASSUME StoreInv PROVE Store!ScenarioSafe
  OBVIOUS
<1>1. Store!BrowseTellsTruth
  BY DEF StoreInv, DiskInv, EntryInv, Store!BrowseTellsTruth, Store!Listed, Store!Detail, Store!Served,
     Store!is_fresh, Store!EntryOf
<1>2. Store!StaleIsShown
  BY DEF StoreInv, DiskInv, EditedInv, Store!StaleIsShown, Store!State, Store!derive_state, Store!Readable
<1> QED
  BY <1>1, <1>2 DEF StoreInv, DiskInv, Store!ScenarioSafe

\* The scenario store (scenario_store, scenario_index, facility_rules): whatever saves,
\* kills, hand edits and launches did, a bundle on disk honours its recipe's facility
\* rules, the browse indexes serve what is on disk, and an edited recipe reads as stale.
THEOREM ScenarioSafeAlways == Store!Spec => []ScenarioSafe
<1>1. StoreInv /\ [Store!Next]_(Store!vars) => StoreInv'
  BY StoreStep
<1> QED
  BY <1>1, InitStore, StoreSafe, PTL DEF Store!Spec, ScenarioSafe

\* A save keeps what its request did not speak of (_compile_into_folder,
\* _destructive_save_guard), for any structures and any number of saves and failures.
THEOREM AuthoredSurvivesAlways == Store!Spec => AuthoredSurvives
<1>1. StoreInv /\ [Store!Next]_(Store!vars) => StoreInv'
  BY StoreStep
<1>2. ASSUME StoreInv, [Store!Next]_(Store!vars), saving.stage = "rename", saving'.stage = "refresh",
               Store!Readable(saving.before)
      PROVE  Store!Keeps(saving.before, spec', saving.request, saving.reset)
  <2>1. Store!Keeps(saving.before, Store!Recipe(saving.payload), saving.request, saving.reset)
    BY <1>2 DEF StoreInv, OpInv, KeptInv
  <2>2. CASE Store!Rename
    BY <2>1, <2>2 DEF Store!Rename, Store!compile_spec_to_bundle
  <2>3. CASE ~Store!Rename
    BY <1>2, <2>3 DEF Store!Next, Store!vars, Store!Generate, Store!Edit, Store!Recompile, Store!Begin,
       Store!IsIdle, Store!StageSources, Store!Compile, Store!RemoveTarget, Store!Refresh, Store!Fail,
       Store!Crash, Store!Delete, Store!Unlist, Store!Probe, Store!RecordWorld, Store!Browse,
         Store!HandWrite, Store!HandEdit, Store!LaunchRegenerates, Store!LaunchGenerates, Store!Idle
  <2> QED
    BY <2>2, <2>3
<1> QED
  BY <1>1, <1>2, InitStore, PTL DEF Store!Spec, Store!AuthoredSurvives, AuthoredSurvives

-----------------------------------------------------------------------------
(* The rules of the facilities, for any facilities, schedules and rules.   *)
(* RulesInv says that what a compile left is what compiling the scenario   *)
(* as it now stands gives, and that a run's record is the one of the       *)
(* bundle it started on.                                                   *)

LEMMA LeastIndex ==
  ASSUME NEW S \in SUBSET Nat, S # {}
  PROVE  \E t \in S : \A u \in S : t <= u
<1>1. IsWellFoundedOn(OpToRel(<, Nat), Nat)
  BY NatLessThanWellFounded
<1>2. PICK t \in S : \A u \in S : ~(<<u, t>> \in OpToRel(<, Nat))
  BY <1>1, WFMin, Zenon
<1>3. ASSUME NEW u \in S PROVE t <= u
  <2>1. ~(u < t)
    BY <1>2 DEF OpToRel
  <2> QED BY <2>1
<1> QED BY <1>2, <1>3

-----------------------------------------------------------------------------
(* One value for a key: what an author is promised is what is resolved.    *)

Saying(R, n, k, by) == {r \in R : r.by = by /\ Site!Sets(r, k) /\ r.of = IF by = "name" THEN n ELSE CodeOf[n]}

\* What a set of rules over a blanket promises a facility.
PromisedBy(R, b, n, k) ==
  IF Saying(R, n, k, "name") # {} THEN {r.set[k] : r \in Saying(R, n, k, "name")}
  ELSE IF Saying(R, n, k, "code") # {} THEN {r.set[k] : r \in Saying(R, n, k, "code")}
  ELSE {Site!blanket_value(k, b)}

LEMMA PromisedIs ==
  ASSUME NEW n, NEW k
  PROVE  Site!Promised(n, k) = PromisedBy(Site!ToSet(rule_spec.rules), Site!merged_overrides(rule_spec), n, k)
BY DEF Site!Promised, PromisedBy, Saying, Site!blanket_value

LEMMA Speakers ==
  ASSUME NEW rules \in Seq(SiteRules), NEW n, NEW k, NEW i \in Site!candidates(rules, n, k)
  PROVE  /\ i \in DOMAIN rules /\ rules[i] \in Site!ToSet(rules)
         /\ \/ Site!rule_rank(rules[i]) = 30 /\ rules[i] \in Saying(Site!ToSet(rules), n, k, "name")
            \/ Site!rule_rank(rules[i]) = 10 /\ rules[i] \in Saying(Site!ToSet(rules), n, k, "code")
<1>1. i \in DOMAIN rules /\ Site!rule_matches(rules[i], n) /\ Site!Sets(rules[i], k)
  BY DEF Site!candidates
<1>2. rules[i] \in Site!ToSet(rules) /\ rules[i] \in SiteRules
  BY <1>1 DEF Site!ToSet
<1>3. rules[i].by \in {"name", "code"}
  BY <1>2, RulesAssumption DEF Site!RulesFacts
<1>4. CASE rules[i].by = "name"
  BY <1>1, <1>2, <1>4 DEF Site!rule_rank, Site!rule_matches, Saying
<1>5. CASE rules[i].by = "code"
  BY <1>1, <1>2, <1>5 DEF Site!rule_rank, Site!rule_matches, Saying
<1> QED
  BY <1>1, <1>2, <1>3, <1>4, <1>5

LEMMA Spoken ==
  ASSUME NEW rules \in Seq(SiteRules), NEW n, NEW k, NEW by \in {"name", "code"},
         NEW r \in Saying(Site!ToSet(rules), n, k, by)
  PROVE  \E i \in Site!candidates(rules, n, k) :
           rules[i] = r /\ Site!rule_rank(rules[i]) = IF by = "name" THEN 30 ELSE 10
<1>1. PICK i \in DOMAIN rules : rules[i] = r
  BY DEF Saying, Site!ToSet
<1>2. r.by = by /\ Site!Sets(r, k) /\ r.of = IF by = "name" THEN n ELSE CodeOf[n]
  BY DEF Saying
<1>3. i \in Site!candidates(rules, n, k)
  BY <1>1, <1>2 DEF Site!candidates, Site!rule_matches
<1> QED
  BY <1>1, <1>2, <1>3 DEF Site!rule_rank

\* The candidates no other outranks.
Best(rules, n, k) ==
  {i \in Site!candidates(rules, n, k) : \A j \in Site!candidates(rules, n, k) :
      Site!rule_rank(rules[j]) <= Site!rule_rank(rules[i])}

LEMMA SomeBest ==
  ASSUME NEW rules \in Seq(SiteRules), NEW n, NEW k, Site!candidates(rules, n, k) # {}
  PROVE  Best(rules, n, k) # {}
<1>1. \A i \in Site!candidates(rules, n, k) : Site!rule_rank(rules[i]) \in {10, 30}
  BY Speakers
<1>2. CASE \E i \in Site!candidates(rules, n, k) : Site!rule_rank(rules[i]) = 30
  <2>1. PICK i \in Site!candidates(rules, n, k) : Site!rule_rank(rules[i]) = 30
    BY <1>2
  <2>2. \A j \in Site!candidates(rules, n, k) : Site!rule_rank(rules[j]) <= Site!rule_rank(rules[i])
    BY <1>1, <2>1
  <2> QED
    BY <2>2 DEF Best
<1>3. CASE \A i \in Site!candidates(rules, n, k) : Site!rule_rank(rules[i]) = 10
  <2>1. \A i, j \in Site!candidates(rules, n, k) : Site!rule_rank(rules[j]) <= Site!rule_rank(rules[i])
    BY <1>3
  <2> QED
    BY <2>1 DEF Best
<1> QED
  BY <1>1, <1>2, <1>3

LEMMA BestIsPromised ==
  ASSUME NEW rules \in Seq(SiteRules), NEW b, NEW n, NEW k, NEW i \in Best(rules, n, k)
  PROVE  rules[i].set[k] \in PromisedBy(Site!ToSet(rules), b, n, k)
<1>1. i \in Site!candidates(rules, n, k) /\ \A j \in Site!candidates(rules, n, k) :
        Site!rule_rank(rules[j]) <= Site!rule_rank(rules[i])
  BY DEF Best
<1>2. CASE Site!rule_rank(rules[i]) = 30 /\ rules[i] \in Saying(Site!ToSet(rules), n, k, "name")
  BY <1>2 DEF PromisedBy
<1>3. CASE Site!rule_rank(rules[i]) = 10 /\ rules[i] \in Saying(Site!ToSet(rules), n, k, "code")
  <2>1. Saying(Site!ToSet(rules), n, k, "name") = {}
    <3>1. ASSUME NEW r \in Saying(Site!ToSet(rules), n, k, "name") PROVE FALSE
      <4>1. PICK j \in Site!candidates(rules, n, k) : Site!rule_rank(rules[j]) = 30
        BY Spoken
      <4> QED
        BY <1>1, <1>3, <4>1
    <3> QED BY <3>1
  <2> QED
    BY <1>3, <2>1 DEF PromisedBy
<1> QED
  BY <1>1, <1>2, <1>3, Speakers

LEMMA OneBest ==
  ASSUME NEW rules \in Seq(SiteRules), ~ Site!equal_rank_conflict(rules), NEW n \in Site!Names,
         NEW k \in Site!Keys,
         NEW i \in Best(rules, n, k), NEW j \in Best(rules, n, k)
  PROVE  i = j
<1>1. /\ i \in Site!candidates(rules, n, k) /\ j \in Site!candidates(rules, n, k)
      /\ Site!rule_rank(rules[i]) <= Site!rule_rank(rules[j])
           /\ Site!rule_rank(rules[j]) <= Site!rule_rank(rules[i])
  BY DEF Best
<1>2. Site!rule_rank(rules[i]) = Site!rule_rank(rules[j])
  BY <1>1, Speakers
<1>3. i \in Nat /\ j \in Nat
  BY <1>1 DEF Site!candidates
<1>4. ~ (i < j) /\ ~ (j < i)
  BY <1>1, <1>2 DEF Site!equal_rank_conflict, Site!candidates
<1> QED
  BY <1>3, <1>4

LEMMA ResolvedIsPromised ==
  ASSUME NEW rules \in Seq(SiteRules), ~ Site!equal_rank_conflict(rules), NEW b,
         NEW n \in Site!Names, NEW k \in Site!Keys
  PROVE  PromisedBy(Site!ToSet(rules), b, n, k) = {Site!resolve_facility_rules(rules, b, n, k)}
<1>1. CASE Site!candidates(rules, n, k) = {}
  <2>1. Saying(Site!ToSet(rules), n, k, "name") = {} /\ Saying(Site!ToSet(rules), n, k, "code") = {}
    BY <1>1, Spoken
  <2> QED
    BY <1>1, <2>1 DEF PromisedBy, Site!resolve_facility_rules
<1>2. CASE Site!candidates(rules, n, k) # {}
  <2> DEFINE w == CHOOSE i \in Best(rules, n, k) : TRUE
  <2>1. w \in Best(rules, n, k)
    BY <1>2, SomeBest
  <2>2. Site!resolve_facility_rules(rules, b, n, k) = rules[w].set[k]
    BY <1>2 DEF Site!resolve_facility_rules, Best
  <2> HIDE DEF w
  <2>3. rules[w].set[k] \in PromisedBy(Site!ToSet(rules), b, n, k)
    BY <2>1, BestIsPromised
  <2>4. ASSUME NEW x \in PromisedBy(Site!ToSet(rules), b, n, k) PROVE x = rules[w].set[k]
    <3>1. CASE Saying(Site!ToSet(rules), n, k, "name") # {}
      <4>1. PICK r \in Saying(Site!ToSet(rules), n, k, "name") : x = r.set[k]
        BY <2>4, <3>1 DEF PromisedBy
      <4>2. PICK j \in Site!candidates(rules, n, k) : rules[j] = r /\ Site!rule_rank(rules[j]) = 30
        BY Spoken
      <4>3. \A a \in Site!candidates(rules, n, k) : Site!rule_rank(rules[a]) <= 30
        BY Speakers
      <4>4. j \in Best(rules, n, k)
        BY <4>2, <4>3 DEF Best
      <4> QED
        BY <2>1, <4>1, <4>2, <4>4, OneBest
    <3>2. CASE Saying(Site!ToSet(rules), n, k, "name") = {}
      <4>1. \A a \in Site!candidates(rules, n, k) : Site!rule_rank(rules[a]) = 10
        BY <3>2, Speakers
      <4>2. Saying(Site!ToSet(rules), n, k, "code") # {}
        BY <1>2, <3>2, Speakers
      <4>3. PICK r \in Saying(Site!ToSet(rules), n, k, "code") : x = r.set[k]
        BY <2>4, <3>2, <4>2 DEF PromisedBy
      <4>4. PICK j \in Site!candidates(rules, n, k) : rules[j] = r /\ Site!rule_rank(rules[j]) = 10
        BY Spoken
      <4>5. j \in Best(rules, n, k)
        BY <4>1, <4>4 DEF Best
      <4> QED
        BY <2>1, <4>3, <4>4, <4>5, OneBest
    <3> QED
      BY <3>1, <3>2
  <2> QED
    BY <2>2, <2>3, <2>4
<1> QED
  BY <1>1, <1>2

-----------------------------------------------------------------------------
(* The order of the rules decides nothing.                                 *)

LEMMA SameRulesSameResolution ==
  ASSUME NEW rules \in Seq(SiteRules), NEW others \in Seq(SiteRules), Site!ToSet(others) = Site!ToSet(rules),
         ~ Site!equal_rank_conflict(rules), ~ Site!equal_rank_conflict(others), NEW b,
             NEW n \in Site!Names, NEW k \in Site!Keys
  PROVE  Site!resolve_facility_rules(others, b, n, k) = Site!resolve_facility_rules(rules, b, n, k)
<1> DEFINE u == Site!resolve_facility_rules(others, b, n, k)
           v == Site!resolve_facility_rules(rules, b, n, k)
<1>1. PromisedBy(Site!ToSet(rules), b, n, k) = {v}
  BY ResolvedIsPromised, Zenon
<1>2. PromisedBy(Site!ToSet(others), b, n, k) = {u}
  BY ResolvedIsPromised, Zenon
<1> HIDE DEF u, v
<1>3. {u} = {v}
  BY <1>1, <1>2
<1>4. u = v
  BY <1>3
<1> QED
  BY <1>4 DEF u, v

LEMMA ReversedRules ==
  ASSUME NEW S, NEW rules \in Seq(S)
  PROVE  /\ Site!Reverse(rules) \in Seq(S) /\ Len(Site!Reverse(rules)) = Len(rules)
         /\ \A i \in 1 .. Len(rules) : Site!Reverse(rules)[i] = rules[Len(rules) + 1 - i]
         /\ Site!Reverse(Site!Reverse(rules)) = rules /\ Site!ToSet(Site!Reverse(rules)) = Site!ToSet(rules)
<1> DEFINE l == Len(rules)
<1>1. l \in Nat /\ rules = [i \in 1 .. l |-> rules[i]] /\ \A i \in 1 .. l : rules[i] \in S
  OBVIOUS
<1>2. Site!Reverse(rules) = [i \in 1 .. l |-> rules[(l - i) + 1]]
  BY DEF Site!Reverse
<1> HIDE DEF l
<1>3. \A i \in 1 .. l : (l - i) + 1 \in 1 .. l /\ l + 1 - i \in 1 .. l /\ (l - i) + 1 = l + 1 - i
  BY <1>1
<1> DEFINE q == [i \in 1 .. l |-> rules[(l - i) + 1]]
<1>31. \A i \in 1 .. l : q[i] \in S
  BY <1>1, <1>3
<1>32. q \in Seq(S) /\ Len(q) = l
  <2> HIDE DEF q
  <2>1. q \in [1 .. l -> S]
    BY <1>31 DEF q
  <2> QED
    BY <1>1, <2>1
<1>4. Site!Reverse(rules) \in Seq(S) /\ Len(Site!Reverse(rules)) = l
  BY <1>2, <1>32
<1> HIDE DEF q
<1>5. \A i \in 1 .. l : Site!Reverse(rules)[i] = rules[l + 1 - i]
  BY <1>2, <1>3
<1>6. Site!Reverse(Site!Reverse(rules)) = [i \in 1 .. l |-> Site!Reverse(rules)[(l - i) + 1]]
  BY <1>4 DEF Site!Reverse
<1>7. \A i \in 1 .. l : Site!Reverse(rules)[(l - i) + 1] = rules[i]
  <2>1. ASSUME NEW i \in 1 .. l PROVE Site!Reverse(rules)[(l - i) + 1] = rules[i]
    <3>1. l + 1 - ((l - i) + 1) = i
      BY <1>1
    <3> QED BY <1>3, <1>5, <3>1
  <2> QED BY <2>1
<1>8. Site!Reverse(Site!Reverse(rules)) = rules
  BY <1>1, <1>6, <1>7
<1>9. Site!ToSet(Site!Reverse(rules)) = Site!ToSet(rules)
  <2>1. DOMAIN rules = 1 .. l /\ DOMAIN Site!Reverse(rules) = 1 .. l
    BY <1>1, <1>2
  <2>2. \A i \in 1 .. l : Site!Reverse(rules)[i] \in Site!ToSet(rules)
    BY <1>3, <1>5, <2>1 DEF Site!ToSet
  <2>3. \A i \in 1 .. l : rules[i] \in Site!ToSet(Site!Reverse(rules))
    BY <1>3, <1>7, <2>1 DEF Site!ToSet
  <2> QED
    BY <2>1, <2>2, <2>3 DEF Site!ToSet
<1> QED
  BY <1>4, <1>5, <1>8, <1>9 DEF l

LEMMA ConflictReverses ==
  ASSUME NEW rules \in Seq(SiteRules), Site!equal_rank_conflict(rules)
  PROVE  Site!equal_rank_conflict(Site!Reverse(rules))
<1>1. PICK i, j \in DOMAIN rules, k \in Site!Keys, n \in Site!Names :
        /\ i < j /\ Site!rule_rank(rules[i]) = Site!rule_rank(rules[j])
        /\ Site!Sets(rules[i], k) /\ Site!Sets(rules[j], k)
        /\ Site!rule_matches(rules[i], n) /\ Site!rule_matches(rules[j], n)
  BY DEF Site!equal_rank_conflict
<1> DEFINE l == Len(rules)
           q == Site!Reverse(rules)
           u == l + 1 - j
           v == l + 1 - i
<1>2. l \in Nat /\ DOMAIN rules = 1 .. l /\ DOMAIN q = 1 .. l
  BY ReversedRules
<1>3. u \in 1 .. l /\ v \in 1 .. l /\ u < v /\ l + 1 - u = j /\ l + 1 - v = i
  BY <1>1, <1>2
<1>4. q[u] = rules[j] /\ q[v] = rules[i]
  BY <1>3, ReversedRules
<1> HIDE DEF l, q, u, v
<1>5. Site!equal_rank_conflict(q)
  <2>1. /\ u \in DOMAIN q /\ v \in DOMAIN q /\ u < v /\ Site!rule_rank(q[u]) = Site!rule_rank(q[v])
        /\ Site!Sets(q[u], k) /\ Site!Sets(q[v], k) /\ Site!rule_matches(q[u], n) /\ Site!rule_matches(q[v], n)
    BY <1>1, <1>2, <1>3, <1>4
  <2> QED
    BY <2>1 DEF Site!equal_rank_conflict
<1> QED
  BY <1>5 DEF q

\* A scenario: rules in a sequence, beside the blanket and the epoch.
IsSpec(s) ==
  /\ s = [rules |-> s.rules, legacy |-> s.legacy, overrides |-> s.overrides, midnight |-> s.midnight]
  /\ s.rules \in Seq(SiteRules)

LEMMA CompileReversed ==
  ASSUME NEW s, IsSpec(s)
  PROVE  Site!compile([s EXCEPT !.rules = Site!Reverse(@)]) = Site!compile(s)
<1> DEFINE t == [s EXCEPT !.rules = Site!Reverse(@)]
           b == Site!merged_overrides(s)
<1>1. /\ t.rules = Site!Reverse(s.rules) /\ t.legacy = s.legacy /\ t.overrides = s.overrides
      /\ t.midnight = s.midnight
  BY DEF IsSpec
<1> HIDE DEF t
<1>2. Site!merged_overrides(t) = b
  BY <1>1 DEF Site!merged_overrides
<1> HIDE DEF b
<1>3. /\ s.rules \in Seq(SiteRules) /\ t.rules \in Seq(SiteRules) /\ Site!ToSet(t.rules) = Site!ToSet(s.rules)
      /\ Site!Reverse(t.rules) = s.rules
  BY <1>1, ReversedRules DEF IsSpec
<1>4. Site!equal_rank_conflict(t.rules) <=> Site!equal_rank_conflict(s.rules)
  BY <1>1, <1>3, ConflictReverses
<1>5. Site!validate_facility_rules(t.rules) <=> Site!validate_facility_rules(s.rules)
  BY <1>3 DEF Site!validate_facility_rules
<1>6. CASE Site!equal_rank_conflict(s.rules)
  <2>1. Site!compile(s) = [status |-> "refused", sites |-> Site!NoSites]
    BY <1>6 DEF Site!compile
  <2>2. Site!compile(t) = [status |-> "refused", sites |-> Site!NoSites]
    BY <1>4, <1>6 DEF Site!compile
  <2> QED
    BY <2>1, <2>2 DEF t
<1>7. CASE ~ Site!equal_rank_conflict(s.rules)
  <2>1. \A n \in Site!Names, k \in Site!Keys :
          Site!resolve_facility_rules(t.rules, b, n, k) = Site!resolve_facility_rules(s.rules, b, n, k)
    BY <1>3, <1>4, <1>7, SameRulesSameResolution
  <2>2. Site!apply_resolution(t.rules, b) = Site!apply_resolution(s.rules, b)
    BY <2>1 DEF Site!apply_resolution, Site!Keys
  <2>3. Site!compile(t) = Site!compile(s)
    BY <1>1, <1>2, <1>4, <1>5, <2>2 DEF Site!compile, b
  <2> QED
    BY <2>3 DEF t
<1> QED
  BY <1>6, <1>7

LEMMA CompileRecipe ==
  ASSUME NEW s, IsSpec(s)
  PROVE  IsSpec(Site!recipe(s)) /\ Site!compile(Site!recipe(s)) = Site!compile(s)
<1> DEFINE t == Site!recipe(s)
<1>1. /\ t = [rules |-> s.rules, legacy |-> Site!Unset, overrides |-> Site!merged_overrides(s),
           midnight |-> s.midnight]
      /\ t.rules = s.rules /\ t.legacy = Site!Unset /\ t.overrides = Site!merged_overrides(s)
      /\ t.midnight = s.midnight
  BY DEF Site!recipe
<1> HIDE DEF t
<1>2. IsSpec(t)
  BY <1>1 DEF IsSpec
<1>3. Site!merged_overrides(t) = Site!merged_overrides(s)
  <2>1. Site!merged_overrides(t) =
          [k \in Site!Keys |-> IF Site!merged_overrides(s)[k] # "" THEN Site!merged_overrides(s)[k] ELSE ""]
    BY <1>1 DEF Site!merged_overrides, Site!Unset
  <2>2. \A k \in Site!Keys :
          (IF Site!merged_overrides(s)[k] # "" THEN Site!merged_overrides(s)[k] ELSE "") = Site!merged_overrides(s)[k]
    OBVIOUS
  <2>3. Site!merged_overrides(s) = [k \in Site!Keys |-> Site!merged_overrides(s)[k]]
    BY DEF Site!merged_overrides
  <2> QED
    BY <2>1, <2>2, <2>3
<1>4. Site!compile(t) = Site!compile(s)
  BY <1>1, <1>3 DEF Site!compile
<1> QED
  BY <1>2, <1>4 DEF t

-----------------------------------------------------------------------------
(* The price an arrival is paid.                                           *)

LEMMA BlockIsABlock ==
  ASSUME NEW b
  PROVE  Site!as_block(b) # Site!NoBlock
<1>1. HoursPerDay \in Nat \ {0}
  BY RulesAssumption DEF Site!RulesFacts
<1> DEFINE p == [i \in 1 .. HoursPerDay |-> [hour |-> i - 1, amount |-> Site!parse_rebate_schedule(b)[i - 1]]]
<1>2. Site!as_block(b).points = p
  BY DEF Site!as_block
<1>3. 1 \in DOMAIN p
  BY <1>1
<1>4. DOMAIN Site!NoBlock.points = {}
  BY DEF Site!NoBlock
<1> QED
  BY <1>2, <1>3, <1>4

LEMMA DenseIsWhatIsListed ==
  ASSUME NEW b, NEW h \in Site!Hours
  PROVE  Site!parse_rebate_schedule(Site!as_block(b))[h] = Site!parse_rebate_schedule(b)[h]
<1>1. HoursPerDay \in Nat \ {0}
  BY RulesAssumption DEF Site!RulesFacts
<1> DEFINE d(i) == Site!parse_rebate_schedule(b)[i]
           p == [i \in 1 .. HoursPerDay |-> [hour |-> i - 1, amount |-> d(i - 1)]]
           S == Site!ToSet(p)
<1>2. Site!as_block(b).points = p
  BY DEF Site!as_block
<1>3. h + 1 \in 1 .. HoursPerDay /\ (h + 1) - 1 = h /\ h \in Int
  BY <1>1 DEF Site!Hours
<1> HIDE DEF d
<1>4. p[h + 1] = [hour |-> h, amount |-> d(h)]
  BY <1>3
<1>5. [hour |-> h, amount |-> d(h)] \in S
  <2>1. p[h + 1] \in S
    BY <1>3 DEF Site!ToSet
  <2> QED BY <1>4, <2>1
<1>6. ASSUME NEW q \in S, q.hour = h PROVE q.amount = d(h)
  <2>1. PICK i \in 1 .. HoursPerDay : q = [hour |-> i - 1, amount |-> d(i - 1)]
    BY DEF Site!ToSet
  <2>2. i - 1 = h
    BY <1>6, <2>1
  <2> QED BY <2>1, <2>2
<1> HIDE DEF p, S
<1>7. (CHOOSE q \in S : q.hour = h).amount = d(h)
  BY <1>5, <1>6
<1>8. \E q \in S : q.hour = h
  BY <1>5
<1>9. Site!parse_rebate_schedule(Site!as_block(b))[h] =
        IF \E q \in S : q.hour = h THEN (CHOOSE q \in S : q.hour = h).amount ELSE 0
  BY <1>2 DEF Site!parse_rebate_schedule, S
<1> QED
  BY <1>7, <1>8, <1>9 DEF d

LEMMA ListedIsPaid ==
  ASSUME NEW b, Site!well_formed(b), NEW h \in Site!Hours
  PROVE  LET listed == {p.amount : p \in {q \in Site!ToSet(b.points) : q.hour = h}} IN
         Site!parse_rebate_schedule(b)[h] = IF listed = {} THEN 0 ELSE CHOOSE a \in listed : TRUE
<1> DEFINE S == Site!ToSet(b.points)
           listed == {p.amount : p \in {q \in S : q.hour = h}}
           c == CHOOSE p \in S : p.hour = h
<1>1. Site!parse_rebate_schedule(b)[h] = IF \E p \in S : p.hour = h THEN c.amount ELSE 0
  BY DEF Site!parse_rebate_schedule
<1>2. ASSUME NEW p \in S, NEW q \in S, p.hour = h, q.hour = h PROVE p = q
  BY <1>2 DEF Site!well_formed, Site!ToSet
<1> HIDE DEF S
<1>3. CASE \E p \in S : p.hour = h
  <2>1. c \in S /\ c.hour = h
    BY <1>3
  <2> HIDE DEF c
  <2>2. listed = {c.amount}
    BY <1>2, <2>1
  <2>3. (CHOOSE a \in listed : TRUE) = c.amount
    BY <2>2
  <2> QED
    BY <1>1, <1>3, <2>2, <2>3 DEF S
<1>4. CASE ~ \E p \in S : p.hour = h
  <2>1. listed = {}
    BY <1>4
  <2> QED
    BY <1>1, <1>4, <2>1 DEF S
<1> QED
  BY <1>3, <1>4

-----------------------------------------------------------------------------
(* What an accepted scenario compiles to.                                  *)

LEMMA Accepted ==
  ASSUME NEW s, Site!compile(s).status = "ok"
  PROVE  /\ Site!compile(s).sites = Site!apply_resolution(s.rules, Site!merged_overrides(s))
         /\ Site!blanket_is_legal(Site!merged_overrides(s)) /\ Site!validate_facility_rules(s.rules)
         /\ ~ Site!equal_rank_conflict(s.rules)
         /\ Site!validate_facility_rebate(Site!compile(s).sites, s.midnight)
<1> DEFINE b == Site!merged_overrides(s)
           sites == Site!apply_resolution(s.rules, b)
           accepted == /\ Site!blanket_is_legal(b) /\ Site!validate_facility_rules(s.rules)
                       /\ ~ Site!equal_rank_conflict(s.rules)
                       /\ Site!validate_facility_rebate(sites, s.midnight)
<1>1. Site!compile(s) = IF accepted THEN [status |-> "ok", sites |-> sites]
        ELSE [status |-> "refused", sites |-> Site!NoSites]
  BY DEF Site!compile
<1> HIDE DEF accepted, sites
<1>2. accepted /\ Site!compile(s).sites = sites
  BY <1>1
<1> QED
  BY <1>2 DEF accepted, sites

LEMMA ResolvedFrom ==
  ASSUME NEW rules \in Seq(SiteRules), NEW b, NEW n, NEW k
  PROVE  \/ Site!resolve_facility_rules(rules, b, n, k) = Site!blanket_value(k, b)
         \/ \E r \in Site!ToSet(rules) : Site!Sets(r, k)
              /\ Site!resolve_facility_rules(rules, b, n, k) = r.set[k]
<1>1. CASE Site!candidates(rules, n, k) = {}
  BY <1>1 DEF Site!resolve_facility_rules
<1>2. CASE Site!candidates(rules, n, k) # {}
  <2> DEFINE w == CHOOSE i \in Best(rules, n, k) : TRUE
  <2>1. w \in Best(rules, n, k)
    BY <1>2, SomeBest
  <2>2. Site!resolve_facility_rules(rules, b, n, k) = rules[w].set[k]
    BY <1>2 DEF Site!resolve_facility_rules, Best
  <2> HIDE DEF w
  <2>3. rules[w] \in Site!ToSet(rules) /\ Site!Sets(rules[w], k)
    BY <2>1 DEF Best, Site!candidates, Site!ToSet
  <2> QED
    BY <2>2, <2>3
<1> QED
  BY <1>1, <1>2

LEMMA LegalValues ==
  ASSUME NEW rules \in Seq(SiteRules),
         NEW b, Site!blanket_is_legal(b), Site!validate_facility_rules(rules), NEW n
  PROVE  /\ Site!resolve_facility_rules(rules, b, n, "gate_count") \in {"one", "two"}
         /\ \/ Site!resolve_facility_rules(rules, b, n, "rebate") = "null"
            \/ /\ Site!resolve_facility_rules(rules, b, n, "rebate") \in DOMAIN Schedules
               /\ Site!well_formed(Schedules[Site!resolve_facility_rules(rules, b, n, "rebate")])
<1>1. ASSUME NEW k \in Site!Keys
      PROVE  \/ Site!coerce(k, Site!resolve_facility_rules(rules, b, n, k))
             \/ k = "gate_count" /\ Site!resolve_facility_rules(rules, b, n, k) = "one"
             \/ k = "rebate" /\ Site!resolve_facility_rules(rules, b, n, k) = "null"
  <2>1. CASE Site!resolve_facility_rules(rules, b, n, k) = Site!blanket_value(k, b)
    <3>1. b[k] \in Site!Null \/ Site!coerce(k, b[k])
      BY DEF Site!blanket_is_legal
    <3>2. k = "gate_count" \/ k = "rebate"
      BY DEF Site!Keys
    <3> QED
      BY <2>1, <3>1, <3>2 DEF Site!blanket_value
  <2>2. ASSUME NEW r \in Site!ToSet(rules), Site!Sets(r, k),
               Site!resolve_facility_rules(rules, b, n, k) = r.set[k]
        PROVE  \/ Site!coerce(k, Site!resolve_facility_rules(rules, b, n, k))
               \/ k = "rebate" /\ Site!resolve_facility_rules(rules, b, n, k) = "null"
    <3>1. IF r.set[k] = "null" THEN k = "rebate" ELSE Site!coerce(k, r.set[k])
      BY <2>2 DEF Site!validate_facility_rules
    <3> QED
      BY <2>2, <3>1
  <2> QED
    BY <2>1, <2>2, ResolvedFrom
<1>2. "gate_count" \in Site!Keys /\ "rebate" \in Site!Keys
  BY DEF Site!Keys
<1> QED
  BY <1>1, <1>2 DEF Site!coerce

LEMMA FacilityCount == \A S : Site!Cardinality(S) = Cardinality(S)
BY DEF Site!Cardinality, Cardinality

LEMMA OneCurrency ==
  ASSUME NEW sites, NEW midnight, Site!validate_facility_rebate(sites, midnight),
         NEW n \in Site!Names, sites[n].rebate # Site!NoBlock,
         NEW m \in Site!Names, sites[m].rebate # Site!NoBlock
  PROVE  midnight /\ sites[n].rebate.currency = sites[m].rebate.currency
<1> DEFINE paid == {x \in Site!Names : sites[x].rebate # Site!NoBlock}
           cur == {sites[x].rebate.currency : x \in paid}
<1>1. n \in paid /\ m \in paid
  OBVIOUS
<1>2. midnight /\ Cardinality(cur) = 1
  BY <1>1, FacilityCount DEF Site!validate_facility_rebate
<1>3. IsFiniteSet(Site!Names)
  <2>1. Facilities \in Seq(STRING)
    BY RulesAssumption DEF Site!RulesFacts
  <2>2. PICK l \in Nat : DOMAIN Facilities = 1 .. l
    BY <2>1
  <2>3. 1 \in Int /\ l \in Int
    OBVIOUS
  <2>4. IsFiniteSet(1 .. l)
    BY <2>3, FS_Interval
  <2>5. Site!Names = {Facilities[i] : i \in 1 .. l} /\ Facilities = [i \in 1 .. l |-> Facilities[i]]
    BY <2>1, <2>2 DEF Site!Names, Site!ToSet
  <2>6. Facilities \in Surjection(1 .. l, Site!Names)
    BY <2>5 DEF Surjection
  <2> QED
    BY <2>4, <2>6, FS_Surjection
<1>4. IsFiniteSet(paid)
  BY <1>3, FS_Subset
<1>5. IsFiniteSet(cur)
  <2> DEFINE f == [x \in paid |-> sites[x].rebate.currency]
  <2> HIDE DEF paid
  <2>1. f \in Surjection(paid, cur)
    BY DEF Surjection
  <2> QED
    BY <1>4, <2>1, FS_Surjection
<1>6. sites[n].rebate.currency \in cur /\ sites[m].rebate.currency \in cur
  BY <1>1
<1> HIDE DEF paid, cur
<1>7. \E x : cur = {x}
  BY <1>2, <1>5, FS_Singleton
<1> QED
  BY <1>2, <1>6, <1>7

Resolved(n, k) == Site!resolve_facility_rules(rule_spec.rules, Site!merged_overrides(rule_spec), n, k)

\* What an accepted scenario promises each facility is what it compiles to.
LEMMA CompiledPays ==
  ASSUME IsSpec(rule_spec), rule_out = Site!compile(rule_spec), Site!Compiled
  PROVE  Site!PaysAsPromised
<1> DEFINE b == Site!merged_overrides(rule_spec)
<1>1. /\ rule_out.sites = Site!apply_resolution(rule_spec.rules, b)
      /\ Site!blanket_is_legal(b) /\ Site!validate_facility_rules(rule_spec.rules)
      /\ ~ Site!equal_rank_conflict(rule_spec.rules)
  BY Accepted DEF Site!Compiled
<1>2. rule_spec.rules \in Seq(SiteRules)
  BY DEF IsSpec
<1>3. \A n \in Site!Names, k \in Site!Keys : Site!Promised(n, k) = {Resolved(n, k)}
  <2>1. ASSUME NEW n \in Site!Names, NEW k \in Site!Keys PROVE Site!Promised(n, k) = {Resolved(n, k)}
    <3>1. PromisedBy(Site!ToSet(rule_spec.rules), b, n, k) = {Resolved(n, k)}
      BY <1>1, <1>2, ResolvedIsPromised DEF Resolved
    <3> QED
      BY <3>1, PromisedIs DEF Resolved
  <2> QED BY <2>1
<1>4. ASSUME NEW n \in Site!Names
      PROVE  /\ rule_out.sites[n].gate_count = Resolved(n, "gate_count")
             /\ Resolved(n, "rebate") = "null" => rule_out.sites[n].rebate = Site!NoBlock
             /\ Resolved(n, "rebate") # "null" =>
                  rule_out.sites[n].rebate = Site!as_block(Schedules[Resolved(n, "rebate")])
  <2> DEFINE rebate == Resolved(n, "rebate")
             e == IF rebate = "null" THEN Site!NoBlock ELSE Site!as_block(Schedules[rebate])
             g == Resolved(n, "gate_count")
  <2>1. Site!apply_resolution(rule_spec.rules, b)[n] = [gate_count |-> g, rebate |-> e]
    BY DEF Site!apply_resolution, Resolved
  <2>2. rule_out.sites[n] = [gate_count |-> g, rebate |-> e]
    BY <1>1, <2>1
  <2> HIDE DEF e, g
  <2>3. rule_out.sites[n].gate_count = g /\ rule_out.sites[n].rebate = e
    BY <2>2
  <2> QED
    BY <2>3 DEF e, g
<1>5. \A n \in Site!Names : Resolved(n, "rebate") = "null" \/ Site!well_formed(Schedules[Resolved(n, "rebate")])
  BY <1>1, <1>2, LegalValues DEF Resolved
<1>6. "gate_count" \in Site!Keys /\ "rebate" \in Site!Keys
  BY DEF Site!Keys
<1> HIDE DEF b
<1>7. ASSUME NEW n \in Site!Names, NEW h \in Site!Hours
      PROVE  LET s == Resolved(n, "rebate")
                 listed == {p.amount : p \in {q \in Site!ToSet(Schedules[s].points) : q.hour = h}} IN
             IF s = "null" THEN ~ Site!price_at(rule_out.sites[n], h).priced
             ELSE Site!price_at(rule_out.sites[n], h) =
                    [priced |-> TRUE, amount |-> IF listed = {} THEN 0 ELSE CHOOSE a \in listed : TRUE]
  <2> DEFINE s == Resolved(n, "rebate")
             x == Schedules[s]
  <2>1. CASE s = "null"
    <3>1. rule_out.sites[n].rebate = Site!NoBlock
      BY <1>4, <2>1
    <3>2. ~ Site!price_at(rule_out.sites[n], h).priced
      BY <3>1 DEF Site!price_at
    <3> QED BY <2>1, <3>2
  <2>2. CASE s # "null"
    <3>1. rule_out.sites[n].rebate = Site!as_block(x) /\ Site!well_formed(x)
      BY <1>4, <1>5, <2>2
    <3>2. Site!price_at(rule_out.sites[n], h) =
            [priced |-> TRUE, amount |-> Site!parse_rebate_schedule(Site!as_block(x))[h]]
      BY <3>1, BlockIsABlock DEF Site!price_at
    <3>3. Site!parse_rebate_schedule(Site!as_block(x))[h] = Site!parse_rebate_schedule(x)[h]
      BY DenseIsWhatIsListed
    <3> HIDE DEF x, s
    <3>4. LET listed == {p.amount : p \in {q \in Site!ToSet(x.points) : q.hour = h}} IN
          Site!parse_rebate_schedule(x)[h] = IF listed = {} THEN 0 ELSE CHOOSE a \in listed : TRUE
      BY <3>1, ListedIsPaid
    <3> QED
      BY <2>2, <3>2, <3>3, <3>4 DEF x, s
  <2> QED
    BY <2>1, <2>2
<1>8. ASSUME NEW n \in Site!Names
      PROVE  /\ Site!Promised(n, "gate_count") = {rule_out.sites[n].gate_count}
             /\ \E s \in Site!Promised(n, "rebate") : \A h \in Site!Hours :
                  IF s = "null" THEN ~ Site!price_at(rule_out.sites[n], h).priced
                  ELSE LET listed == {p.amount : p \in {q \in Site!ToSet(Schedules[s].points) : q.hour = h}} IN
                       Site!price_at(rule_out.sites[n], h) =
                           [priced |-> TRUE, amount |-> IF listed = {} THEN 0 ELSE CHOOSE a \in listed : TRUE]
  <2>1. Site!Promised(n, "gate_count") = {rule_out.sites[n].gate_count}
    BY <1>3, <1>4, <1>6
  <2>2. Resolved(n, "rebate") \in Site!Promised(n, "rebate")
    BY <1>3, <1>6
  <2> QED
    BY <1>7, <2>1, <2>2
<1> QED
  BY <1>8 DEF Site!PaysAsPromised

-----------------------------------------------------------------------------
(* What a run records of its rules.                                        *)

Same(n, k) == {i \in DOMAIN Facilities : patched[Facilities[i]][k] = patched[n][k]}
Speaker(n, k) == Facilities[CHOOSE i \in Same(n, k) : \A j \in Same(n, k) : i <= j]

LEMMA Groups ==
  ASSUME NEW n \in Site!Names, NEW k
  PROVE  /\ Site!group_of(n, k).key = k /\ n \in Site!group_of(n, k).members
         /\ Site!group_of(n, k).source = Site!attribute(Speaker(n, k), k)
         /\ Speaker(n, k) \in Site!Names /\ Speaker(n, k) \in Site!group_of(n, k).members
         /\ \A m \in Site!group_of(n, k).members : Site!group_of(m, k) = Site!group_of(n, k)
<1>1. Facilities \in Seq(STRING) /\ DOMAIN Facilities \subseteq Nat
  <2>1. Facilities \in Seq(STRING)
    BY RulesAssumption DEF Site!RulesFacts
  <2>2. DOMAIN Facilities = 1 .. Len(Facilities)
    BY <2>1
  <2> QED
    BY <2>1, <2>2
<1> DEFINE S == Same(n, k)
           g == Site!group_of(n, k)
<1>2. S \subseteq DOMAIN Facilities /\ S \in SUBSET Nat
  BY <1>1 DEF Same
<1>3. PICK i \in DOMAIN Facilities : Facilities[i] = n
  BY DEF Site!Names, Site!ToSet
<1>4. i \in S
  BY <1>3 DEF Same
<1>5. g = [key |-> k, members |-> {Facilities[j] : j \in S}, source |-> Site!attribute(Speaker(n, k), k)]
  BY DEF Site!group_of, Same, Speaker
<1> DEFINE e == CHOOSE x \in S : \A j \in S : x <= j
<1>6. e \in S
  BY <1>2, <1>4, LeastIndex
<1>7. Speaker(n, k) = Facilities[e]
  BY DEF Speaker
<1>8. ASSUME NEW m \in {Facilities[j] : j \in S} PROVE Site!group_of(m, k) = g
  <2>1. patched[m][k] = patched[n][k]
    BY DEF Same
  <2>2. Same(m, k) = S
    BY <2>1 DEF Same
  <2>3. Speaker(m, k) = Speaker(n, k)
    BY <2>2 DEF Speaker
  <2>4. Site!group_of(m, k) = [key |-> k, members |-> {Facilities[j] : j \in Same(m, k)},
                                source |-> Site!attribute(Speaker(m, k), k)]
    BY DEF Site!group_of, Same, Speaker
  <2> QED
    BY <1>5, <2>2, <2>3, <2>4
<1> HIDE DEF S, e, g
<1>9. g.key = k /\ g.members = {Facilities[j] : j \in S} /\ g.source = Site!attribute(Speaker(n, k), k)
  BY <1>5
<1>10. n \in g.members /\ Speaker(n, k) \in g.members /\ Speaker(n, k) \in Site!Names
  BY <1>2, <1>3, <1>4, <1>6, <1>7, <1>9 DEF Site!Names, Site!ToSet
<1> QED
  BY <1>8, <1>9, <1>10 DEF g

LEMMA AttributedIsBest ==
  ASSUME rule_spec.rules \in Seq(SiteRules), NEW n, NEW k, Site!attribute(n, k) # 0
  PROVE  Site!attribute(n, k) \in Best(rule_spec.rules, n, k)
<1> DEFINE B == Best(rule_spec.rules, n, k)
           i == CHOOSE x \in B : \A y \in B : x <= y
           fits == IF k = "rebate" THEN (rule_spec.rules[i].set[k] = "null") =
                                          (patched[n].rebate = Site!NoBlock)
                                   ELSE rule_spec.rules[i].set[k] = patched[n].gate_count
<1>1. Site!attribute(n, k) = IF Site!candidates(rule_spec.rules, n, k) = {} THEN 0 ELSE IF fits THEN i ELSE 0
  BY DEF Site!attribute, Best
<1> HIDE DEF fits
<1>2. Site!candidates(rule_spec.rules, n, k) # {} /\ Site!attribute(n, k) = i
  BY <1>1
<1>3. B # {} /\ B \in SUBSET Nat
  <2>1. DOMAIN rule_spec.rules \subseteq Nat
    OBVIOUS
  <2> QED
    BY <1>2, <2>1, SomeBest DEF Best, Site!candidates
<1>4. \E t \in B : \A u \in B : t <= u
  BY <1>3, LeastIndex
<1> HIDE DEF B
<1>5. i \in B
  BY <1>4
<1> QED
  BY <1>2, <1>5 DEF B

\* The record of a launch, as Launch writes it.
Stamped ==
  LET paying == {n \in Site!Names : patched[n].rebate # Site!NoBlock} IN
  [on |-> TRUE, enabled |-> paying # {}, currencies |-> {patched[n].rebate.currency : n \in paying},
   groups |-> {Site!group_of(n, k) : n \in Site!Names, k \in Site!Keys}]

LEMMA StampTells ==
  ASSUME IsSpec(rule_spec), stamp = Stamped
  PROVE  /\ stamp.enabled <=> \E n \in Site!Names, h \in Site!Hours : Site!price_at(patched[n], h).priced
         /\ \A n \in Site!Names, k \in Site!Keys : Site!Cardinality({g \in stamp.groups :
              g.key = k /\ n \in g.members}) = 1
         /\ \A g \in stamp.groups : g.source # 0 =>
              \E n \in g.members : rule_spec.rules[g.source].set[g.key] \in Site!Promised(n, g.key)
<1> DEFINE paying == {n \in Site!Names : patched[n].rebate # Site!NoBlock}
           G == {Site!group_of(n, k) : n \in Site!Names, k \in Site!Keys}
           cur == {patched[n].rebate.currency : n \in paying}
           P == paying # {}
<1>1. stamp = [on |-> TRUE, enabled |-> P, currencies |-> cur, groups |-> G]
  BY DEF Stamped
<1>2. stamp.groups = G /\ (stamp.enabled <=> P)
  <2> HIDE DEF P, cur, G
  <2>1. stamp.groups = G
    BY <1>1
  <2>2. CASE P
    <3>1. P = TRUE
      BY <2>2, Zenon
    <3>2. stamp = [on |-> TRUE, enabled |-> TRUE, currencies |-> cur, groups |-> G]
      BY <1>1, <3>1, Zenon
    <3>3. stamp.enabled
      BY <3>2
    <3> QED BY <2>1, <2>2, <3>3, Zenon
  <2>3. CASE ~ P
    <3>1. P = FALSE
      <4>1. P \in BOOLEAN
        BY DEF P
      <4> HIDE DEF P
      <4> QED BY <2>3, <4>1
    <3>2. stamp = [on |-> TRUE, enabled |-> FALSE, currencies |-> cur, groups |-> G]
      BY <1>1, <3>1, Zenon
    <3>3. ~ stamp.enabled
      BY <3>2
    <3> QED BY <2>1, <2>3, <3>3, Zenon
  <2> QED
    BY <2>2, <2>3, Zenon
<1>3. stamp.enabled <=> \E n \in Site!Names, h \in Site!Hours : Site!price_at(patched[n], h).priced
  <2>1. 0 \in Site!Hours
    <3>1. HoursPerDay \in Nat \ {0}
      BY RulesAssumption DEF Site!RulesFacts
    <3> QED BY <3>1 DEF Site!Hours
  <2>2. \A n \in Site!Names, h \in Site!Hours :
          Site!price_at(patched[n], h).priced <=> patched[n].rebate # Site!NoBlock
    BY DEF Site!price_at
  <2>3. P <=> \E n \in Site!Names, h \in Site!Hours : Site!price_at(patched[n], h).priced
    BY <2>1, <2>2
  <2> HIDE DEF P
  <2> QED
    BY <1>2, <2>3, Zenon
<1>4. ASSUME NEW n \in Site!Names, NEW k \in Site!Keys
      PROVE  Site!Cardinality({g \in stamp.groups : g.key = k /\ n \in g.members}) = 1
  <2> DEFINE O == {g \in stamp.groups : g.key = k /\ n \in g.members}
  <2>1. Site!group_of(n, k) \in O
    BY <1>2, Groups
  <2>2. ASSUME NEW g \in O PROVE g = Site!group_of(n, k)
    <3>1. PICK m \in Site!Names, kk \in Site!Keys : g = Site!group_of(m, kk)
      BY <1>2
    <3>2. kk = k /\ n \in Site!group_of(m, kk).members
      BY <3>1, Groups
    <3> QED
      BY <3>1, <3>2, Groups
  <2> HIDE DEF O
  <2>3. O = {Site!group_of(n, k)}
    BY <2>1, <2>2
  <2>4. Site!Cardinality(O) = 1
    BY <2>3, FS_Singleton, FacilityCount
  <2> QED
    BY <2>4 DEF O
<1>5. ASSUME NEW g \in stamp.groups, g.source # 0
      PROVE  \E n \in g.members : rule_spec.rules[g.source].set[g.key] \in Site!Promised(n, g.key)
  <2>1. PICK m \in Site!Names, k \in Site!Keys : g = Site!group_of(m, k)
    BY <1>2
  <2> DEFINE f == Speaker(m, k)
  <2>2. g.key = k /\ f \in g.members /\ g.source = Site!attribute(f, k)
    BY <2>1, Groups
  <2>3. rule_spec.rules \in Seq(SiteRules)
    BY DEF IsSpec
  <2> HIDE DEF f
  <2>4. g.source \in Best(rule_spec.rules, f, k)
    BY <1>5, <2>2, <2>3, AttributedIsBest
  <2>5. rule_spec.rules[g.source].set[k] \in PromisedBy(Site!ToSet(rule_spec.rules),
          Site!merged_overrides(rule_spec), f, k)
    BY <2>3, <2>4, BestIsPromised
  <2>6. Site!Promised(f, k) = PromisedBy(Site!ToSet(rule_spec.rules), Site!merged_overrides(rule_spec), f, k)
    BY PromisedIs
  <2> QED
    BY <2>2, <2>5, <2>6
<1> QED
  BY <1>3, <1>4, <1>5

-----------------------------------------------------------------------------
(* The invariant.                                                          *)

NothingYet == [status |-> "none", sites |-> Site!NoSites]

RulesInv ==
  /\ IsSpec(rule_spec)
  /\ rule_out = NothingYet \/ rule_out = Site!compile(rule_spec)
  /\ rule_out.status = "none" => rule_first = Site!NoSites /\ ~ stamp.on
  /\ rule_first # Site!NoSites => rule_out.sites = rule_first
  /\ stamp.on => stamp = Stamped

LEMMA Statuses ==
  ASSUME NEW s
  PROVE  Site!compile(s).status \in {"ok", "refused"} /\ Site!compile(s).status # "none"
<1> DEFINE sites == Site!apply_resolution(s.rules, Site!merged_overrides(s))
           accepted == /\ Site!blanket_is_legal(Site!merged_overrides(s))
                       /\ Site!validate_facility_rules(s.rules)
                       /\ ~ Site!equal_rank_conflict(s.rules)
                       /\ Site!validate_facility_rebate(sites, s.midnight)
<1>1. Site!compile(s) = IF accepted THEN [status |-> "ok", sites |-> sites]
        ELSE [status |-> "refused", sites |-> Site!NoSites]
  BY DEF Site!compile
<1> HIDE DEF accepted, sites
<1> QED
  BY <1>1

LEMMA StampedStays ==
  ASSUME UNCHANGED <<rule_spec, patched>>
  PROVE  Stamped' = Stamped
<1>1. rule_spec' = rule_spec /\ patched' = patched
  OBVIOUS
<1>2. ASSUME NEW n, NEW k PROVE Site!attribute(n, k)' = Site!attribute(n, k)
  BY <1>1 DEF Site!attribute
<1>3. \A n, k : Site!group_of(n, k)' = Site!group_of(n, k)
  BY <1>1, <1>2, Zenon DEF Site!group_of
<1> DEFINE G == {Site!group_of(n, k) : n \in Site!Names, k \in Site!Keys}
           cur == {patched[n].rebate.currency : n \in {x \in Site!Names : patched[x].rebate # Site!NoBlock}}
           P == {x \in Site!Names : patched[x].rebate # Site!NoBlock} # {}
<1>4. G' = G
  BY <1>3
<1>5. cur' = cur /\ P' = P
  BY <1>1
<1>6. Stamped = [on |-> TRUE, enabled |-> P, currencies |-> cur, groups |-> G]
  BY DEF Stamped
<1>7. Stamped' = [on |-> TRUE, enabled |-> P', currencies |-> cur', groups |-> G']
  BY DEF Stamped
<1> HIDE DEF G, cur, P
<1> QED
  BY <1>4, <1>5, <1>6, <1>7, Zenon

LEMMA RulesInvSafe ==
  ASSUME RulesInv
  PROVE  Site!RulesSafe
<1>1. IsSpec(rule_spec)
  BY DEF RulesInv
<1>2. Site!Attempted => rule_out = Site!compile(rule_spec)
  BY DEF RulesInv, Site!Attempted, NothingYet
<1>3. Site!Compiled => Site!Attempted
  BY DEF Site!Compiled, Site!Attempted
<1>4. Site!PaysAsPromised
  <2>1. CASE Site!Compiled
    BY <1>1, <1>2, <1>3, <2>1, CompiledPays
  <2>2. CASE ~ Site!Compiled
    BY <2>2 DEF Site!PaysAsPromised
  <2> QED
    BY <2>1, <2>2
<1>5. Site!Attempted => Site!compile([rule_spec EXCEPT !.rules = Site!Reverse(@)]) = rule_out
  <2>1. Site!compile([rule_spec EXCEPT !.rules = Site!Reverse(@)]) = Site!compile(rule_spec)
    BY <1>1, CompileReversed
  <2> QED
    BY <1>2, <2>1
<1>6. ASSUME Site!Compiled, NEW n \in Site!Names, NEW m \in Site!Names
      PROVE  /\ rule_out.sites[n].gate_count \in {"one", "two"}
             /\ rule_out.sites[n].rebate # Site!NoBlock => rule_spec.midnight
             /\ Site!NoBlock \notin {rule_out.sites[n].rebate, rule_out.sites[m].rebate} =>
                  rule_out.sites[n].rebate.currency = rule_out.sites[m].rebate.currency
  <2> DEFINE b == Site!merged_overrides(rule_spec)
  <2>1. rule_out = Site!compile(rule_spec) /\ Site!compile(rule_spec).status = "ok"
    BY <1>2, <1>3, <1>6 DEF Site!Compiled
  <2>2. /\ rule_out.sites = Site!apply_resolution(rule_spec.rules, b) /\ Site!blanket_is_legal(b)
        /\ Site!validate_facility_rules(rule_spec.rules)
             /\ Site!validate_facility_rebate(rule_out.sites, rule_spec.midnight)
    BY <2>1, Accepted
  <2>3. rule_out.sites[n].gate_count = Site!resolve_facility_rules(rule_spec.rules, b, n, "gate_count")
    BY <2>2 DEF Site!apply_resolution
  <2>4. rule_out.sites[n].gate_count \in {"one", "two"}
    BY <1>1, <2>2, <2>3, LegalValues DEF IsSpec
  <2>5. rule_out.sites[n].rebate # Site!NoBlock => rule_spec.midnight
    BY <2>2, OneCurrency
  <2>6. rule_out.sites[n].rebate # Site!NoBlock /\ rule_out.sites[m].rebate # Site!NoBlock =>
          rule_out.sites[n].rebate.currency = rule_out.sites[m].rebate.currency
    BY <2>2, OneCurrency
  <2> QED
    BY <2>4, <2>5, <2>6
<1>7. rule_first # Site!NoSites => rule_out.sites = rule_first
  BY DEF RulesInv
<1>8. stamp.on =>
        /\ stamp.enabled <=> \E n \in Site!Names, h \in Site!Hours : Site!price_at(patched[n], h).priced
        /\ \A n \in Site!Names, k \in Site!Keys : Site!Cardinality({g \in stamp.groups :
             g.key = k /\ n \in g.members}) = 1
        /\ patched = rule_out.sites => \A g \in stamp.groups : g.source # 0 =>
             \E n \in g.members : rule_spec.rules[g.source].set[g.key] \in Site!Promised(n, g.key)
  <2>1. CASE stamp.on
    <3>1. stamp = Stamped
      BY <2>1 DEF RulesInv
    <3> QED
      BY <1>1, <3>1, StampTells
  <2> QED BY <2>1
<1> QED
  BY <1>4, <1>5, <1>6, <1>7, <1>8 DEF Site!RulesSafe

LEMMA RulesInit == Site!Init => RulesInv
<1> SUFFICES ASSUME Site!Init PROVE RulesInv
  OBVIOUS
<1>1. PICK b \in Blankets, m \in BOOLEAN :
        rule_spec = [rules |-> <<>>, legacy |-> b.legacy, overrides |-> b.overrides, midnight |-> m]
  BY DEF Site!Init
<1>2. IsSpec(rule_spec)
  BY <1>1 DEF IsSpec
<1>3. rule_out = NothingYet /\ rule_first = Site!NoSites /\ ~ stamp.on
  BY DEF Site!Init, NothingYet, Site!NoStamp
<1> QED
  BY <1>2, <1>3 DEF RulesInv

LEMMA RulesStep == RulesInv /\ [Site!Next]_(Site!vars) => RulesInv'
<1> SUFFICES ASSUME RulesInv, [Site!Next]_(Site!vars) PROVE RulesInv'
  OBVIOUS
<1>1. ASSUME NEW r \in SiteRules, Site!AddRule(r) PROVE RulesInv'
  <2>1. /\ rule_out.status = "none" /\ rule_spec' = [rule_spec EXCEPT !.rules = Append(@, r)]
        /\ UNCHANGED <<rule_out, rule_first, patched, stamp>>
    BY <1>1 DEF Site!AddRule
  <2>2. IsSpec(rule_spec)'
    <3> DEFINE R == rule_spec.rules
               L == rule_spec.legacy
               O == rule_spec.overrides
               M == rule_spec.midnight
    <3>1. rule_spec = [rules |-> R, legacy |-> L, overrides |-> O, midnight |-> M] /\ R \in Seq(SiteRules)
      BY DEF RulesInv, IsSpec
    <3> HIDE DEF R, L, O, M
    <3>2. rule_spec' = [rules |-> Append(R, r), legacy |-> L, overrides |-> O, midnight |-> M]
      BY <2>1, <3>1
    <3>3. Append(R, r) \in Seq(SiteRules)
      BY <3>1
    <3> QED
      BY <3>2, <3>3 DEF IsSpec
  <2>3. rule_out = NothingYet
    BY <2>1, Statuses DEF RulesInv
  <2> QED
    BY <2>1, <2>2, <2>3 DEF RulesInv, NothingYet
<1>2. CASE Site!Compile
  <2>1. /\ rule_out.status = "none" /\ rule_out' = Site!compile(rule_spec)
             /\ UNCHANGED <<rule_spec, rule_first, stamp>>
    BY <1>2 DEF Site!Compile
  <2>2. rule_first' = Site!NoSites /\ ~ stamp'.on
    BY <2>1 DEF RulesInv
  <2>3. rule_out' = Site!compile(rule_spec')
    BY <2>1
  <2>4. IsSpec(rule_spec)'
    BY <2>1 DEF RulesInv, IsSpec
  <2> QED
    BY <2>2, <2>3, <2>4 DEF RulesInv
<1>3. CASE Site!Recompile
  <2>1. /\ rule_out.status = "ok" /\ ~ stamp.on /\ rule_first' = rule_out.sites
             /\ rule_spec' = Site!recipe(rule_spec)
        /\ rule_out' = Site!compile(Site!recipe(rule_spec)) /\ stamp' = stamp
    BY <1>3 DEF Site!Recompile
  <2>2. IsSpec(rule_spec) /\ rule_out = Site!compile(rule_spec)
    BY <2>1 DEF RulesInv, NothingYet
  <2>3. IsSpec(rule_spec') /\ rule_out' = rule_out /\ rule_out' = Site!compile(rule_spec')
    BY <2>1, <2>2, CompileRecipe
  <2> QED
    BY <2>1, <2>3 DEF RulesInv, IsSpec
<1>4. ASSUME NEW n, NEW k, NEW v, Site!HandPatch(n, k, v) PROVE RulesInv'
  <2>1. ~ stamp.on /\ UNCHANGED <<rule_spec, rule_out, rule_first, stamp>>
    BY <1>4 DEF Site!HandPatch
  <2> QED
    BY <2>1 DEF RulesInv, IsSpec, NothingYet
<1>5. CASE Site!Launch
  <2>1. rule_out.status = "ok" /\ stamp' = Stamped /\ UNCHANGED <<rule_spec, rule_out, rule_first, patched>>
    BY <1>5 DEF Site!Launch, Stamped
  <2>2. Stamped' = Stamped
    BY <2>1, StampedStays
  <2>3. IsSpec(rule_spec)'
    BY <2>1 DEF RulesInv, IsSpec
  <2> QED
    BY <2>1, <2>2, <2>3 DEF RulesInv, NothingYet
<1>6. CASE UNCHANGED Site!vars
  <2>1. UNCHANGED <<rule_spec, rule_out, rule_first, patched, stamp>>
    BY <1>6 DEF Site!vars
  <2>2. Stamped' = Stamped
    BY <2>1, StampedStays
  <2>3. IsSpec(rule_spec)'
    BY <2>1 DEF RulesInv, IsSpec
  <2> QED
    BY <2>1, <2>2, <2>3 DEF RulesInv, NothingYet
<1> QED
  BY <1>1, <1>2, <1>3, <1>4, <1>5, <1>6 DEF Site!Next

\* Whatever rules, blanket and schedules an author writes, for any facilities: each
\* facility gets what its most specific rule promises, in whatever order the rules are
\* written, and a run records which rule that was.
THEOREM RulesSafeAlways == Site!Spec => []RulesSafe
<1>1. Site!Spec => []RulesInv
  BY RulesInit, RulesStep, PTL DEF Site!Spec
<1>2. RulesInv => RulesSafe
  BY RulesInvSafe DEF RulesSafe
<1> QED
  BY <1>1, <1>2, PTL

=============================================================================
