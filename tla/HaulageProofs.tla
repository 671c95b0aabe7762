---------------------------- MODULE HaulageProofs ----------------------------
(***************************************************************************)
(* What the haul workflow guarantees for every number of trucks, orders,   *)
(* facilities and gates: a completed haul is recorded, no order is hauled  *)
(* twice, a facility and a truck agree on every visit, and the order       *)
(* documents implement OrderLifecycle.                                     *)
(***************************************************************************)
EXTENDS Haulage, FiniteSetTheorems, SequenceTheorems, WellFoundedInduction, TLAPS

-----------------------------------------------------------------------------
(* Induction over data.                                                    *)

\* A set of naturals has a least element: what every induction below rests on.
LEMMA LeastElement ==
  ASSUME NEW T \in SUBSET Nat, T # {}
  PROVE  \E x \in T : \A y \in T : x <= y
<1> DEFINE R == OpToRel(<, Nat)
<1>1. IsWellFoundedOn(R, Nat)
  BY NatLessThanWellFounded
<1>2. \A x \in T, y \in T : y < x => <<y, x>> \in R
  BY DEF OpToRel
<1> HIDE DEF R
<1>3. PICK x \in T : \A y \in T : ~ (<<y, x>> \in R)
  BY <1>1, WFMin, Zenon
<1>4. \A y \in T : ~ (y < x)
  BY <1>2, <1>3, Zenon
<1>5. \A y \in T : x \in Int /\ y \in Int
  OBVIOUS
<1> QED
  BY <1>4, <1>5

\* Folding a sequence s from a0 with the step f passes through values of A, one per element.
StepsOf(A, B) == [A \X B -> A]
FoldGoesThrough(A, f, a0, s) ==
  \E w \in [0 .. Len(s) -> A] :
    w[0] = a0 /\ \A i \in 1 .. Len(s) : w[i] = f[<<w[i - 1], s[i]>>]
LEMMA FoldRuns ==
  ASSUME NEW A, NEW B, NEW f \in StepsOf(A, B), NEW a0 \in A, NEW s \in Seq(B)
  PROVE  FoldGoesThrough(A, f, a0, s)
<1> USE DEF StepsOf, FoldGoesThrough
<1> DEFINE Good(w, n) == /\ w \in [0 .. n -> A] /\ w[0] = a0
                         /\ \A i \in 1 .. n : w[i] = f[<<w[i - 1], s[i]>>]
           T == {n \in 0 .. Len(s) : ~ \E w : Good(w, n)}
<1>1. Len(s) \in Nat
  OBVIOUS
<1>2. ASSUME T # {} PROVE FALSE
  <2>1. T \in SUBSET Nat
    BY <1>1
  <2>2. PICK n \in T : \A m \in T : n <= m
    <3> HIDE DEF T
    <3> QED BY <1>2, <2>1, LeastElement
  <2>3. n \in 0 .. Len(s) /\ ~ \E w : Good(w, n)
    OBVIOUS
  <2>4. CASE n = 0
    <3>1. Good([i \in 0 .. 0 |-> a0], 0)
      OBVIOUS
    <3> QED BY <2>3, <2>4, <3>1
  <2>5. CASE n # 0
    <3>1. n - 1 \in 0 .. Len(s) /\ n - 1 \notin T
      BY <1>1, <2>2, <2>3, <2>5
    <3>2. PICK w : Good(w, n - 1)
      BY <3>1
    <3> DEFINE v == [i \in 0 .. n |-> IF i = n THEN f[<<w[n - 1], s[n]>>] ELSE w[i]]
    <3>3. n \in 1 .. Len(s) /\ s[n] \in B
      BY <1>1, <2>3, <2>5
    <3>4. w[n - 1] \in A
      BY <3>2, <3>3
    <3>5. v \in [0 .. n -> A]
      BY <3>2, <3>3, <3>4
    <3>6. ASSUME NEW i \in 1 .. n PROVE v[i] = f[<<v[i - 1], s[i]>>]
      <4>1. CASE i = n
        <5>1. n \in 0 .. n /\ n - 1 \in 0 .. n /\ n - 1 # n
          BY <3>3
        <5>2. v[n] = f[<<w[n - 1], s[n]>>] /\ v[n - 1] = w[n - 1]
          BY <5>1
        <5> HIDE DEF v
        <5> QED BY <4>1, <5>2
      <4>2. CASE i # n
        <5>1. i \in 1 .. n - 1 /\ i \in 0 .. n /\ i - 1 \in 0 .. n /\ i - 1 # n
          BY <3>3, <4>2
        <5>2. v[i] = w[i] /\ v[i - 1] = w[i - 1]
          BY <4>2, <5>1
        <5>3. w[i] = f[<<w[i - 1], s[i]>>]
          BY <3>2, <5>1
        <5> HIDE DEF v
        <5> QED BY <5>2, <5>3
      <4> QED BY <4>1, <4>2
    <3>7. v[0] = a0
      BY <3>2, <3>3
    <3>8. Good(v, n)
      <4> HIDE DEF v
      <4> QED BY <3>5, <3>6, <3>7
    <3> HIDE DEF v, Good
    <3> QED
      BY <2>3, <3>8
  <2> QED
    BY <2>4, <2>5
<1>3. Len(s) \notin T
  BY <1>2
<1> QED
  BY <1>1, <1>3

\* Induction along a run: a set of steps that has the first and, with each, the next.
LEMMA AllAlong ==
  ASSUME NEW n \in Nat, NEW Q, 0 \in Q, \A i \in 1 .. n : i - 1 \in Q => i \in Q
  PROVE  \A i \in 0 .. n : i \in Q
<1> DEFINE T == {i \in 0 .. n : i \notin Q}
<1>1. ASSUME T # {} PROVE FALSE
  <2>1. T \in SUBSET Nat
    OBVIOUS
  <2>2. PICK i \in T : \A m \in T : i <= m
    <3> HIDE DEF T
    <3> QED BY <1>1, <2>1, LeastElement
  <2>3. i \in 0 .. n /\ i \notin Q
    OBVIOUS
  <2>4. i # 0
    BY <2>3
  <2>5. i \in 1 .. n /\ i - 1 \in 0 .. n /\ ~ (i <= i - 1)
    BY <2>3, <2>4
  <2>6. i - 1 \notin T
    <3> HIDE DEF T
    <3> QED BY <2>2, <2>5
  <2> QED BY <2>3, <2>5, <2>6
<1> QED BY <1>1

\* Two runs of a fold that start alike and step alike are alike.
LEMMA SameRun ==
  ASSUME NEW n \in Nat, NEW v, NEW w, v[0] = w[0],
         \A i \in 1 .. n : v[i - 1] = w[i - 1] => v[i] = w[i]
  PROVE  \A i \in 0 .. n : v[i] = w[i]
<1> DEFINE Q == {i \in 0 .. n : v[i] = w[i]}
<1>1. 0 \in Q
  OBVIOUS
<1>2. \A i \in 1 .. n : i - 1 \in Q => i \in Q
  OBVIOUS
<1>3. \A i \in 0 .. n : i \in Q
  <2> HIDE DEF Q
  <2> QED BY <1>1, <1>2, AllAlong
<1> QED BY <1>3

\* Gates are taken in index order: InOrder enumerates a set of gates without repetition.
LEMMA GatesInOrder ==
  ASSUME NEW gs \in SUBSET Gates
  PROVE  /\ Cardinality(gs) \in Nat
         /\ InOrder(gs) \in [1 .. Cardinality(gs) -> gs]
         /\ \A i, j \in 1 .. Cardinality(gs) : i < j => InOrder(gs)[i] < InOrder(gs)[j]
<1> DEFINE Sorted(S, n, s) == /\ s \in [1 .. n -> S]
                              /\ \A i, j \in 1 .. n : i < j => s[i] < s[j]
           T == {n \in Nat : \E S \in SUBSET Gates :
                               Cardinality(S) = n /\ ~ \E s : Sorted(S, n, s)}
<1>1. \A S \in SUBSET Gates : IsFiniteSet(S) /\ Cardinality(S) \in Nat /\ S \in SUBSET Nat
  BY HaulageConstants, FS_Subset, FS_CardinalityType
<1>2. ASSUME T # {} PROVE FALSE
  <2>1. PICK n \in T : \A m \in T : n <= m
    <3>1. T \in SUBSET Nat
      OBVIOUS
    <3> HIDE DEF T
    <3> QED BY <1>2, <3>1, LeastElement
  <2>2. PICK S \in SUBSET Gates : Cardinality(S) = n /\ ~ \E s : Sorted(S, n, s)
    OBVIOUS
  <2>3. n \in Nat
    OBVIOUS
  <2>4. CASE n = 0
    <3>1. Sorted(S, 0, [i \in 1 .. 0 |-> 0])
      OBVIOUS
    <3> QED BY <2>2, <2>4, <3>1
  <2>5. CASE n # 0
    <3>1. S # {}
      BY <2>2, <2>5, FS_EmptySet
    <3>2. PICK x \in S : \A y \in S : x <= y
      BY <1>1, <3>1, LeastElement
    <3>3. Cardinality(S \ {x}) = n - 1 /\ S \ {x} \in SUBSET Gates
      BY <1>1, <2>2, FS_RemoveElement
    <3>4. n - 1 \in Nat /\ n - 1 \notin T
      BY <2>1, <2>3, <2>5
    <3>5. PICK t : Sorted(S \ {x}, n - 1, t)
      BY <3>3, <3>4
    <3> DEFINE s == [i \in 1 .. n |-> IF i = 1 THEN x ELSE t[i - 1]]
    <3>6. \A i \in 1 .. n : i # 1 => i - 1 \in 1 .. n - 1 /\ s[i] = t[i - 1] /\ t[i - 1] \in S \ {x}
      BY <2>3, <3>5
    <3>7. s \in [1 .. n -> S]
      BY <3>6
    <3>8. s[1] = x
      BY <2>3, <2>5
    <3>9. \A y \in S : y \in Int
      BY <1>1
    <3>10. ASSUME NEW i \in 1 .. n, NEW j \in 1 .. n, i < j PROVE s[i] < s[j]
      <4> HIDE DEF s
      <4>1. j # 1 /\ s[j] = t[j - 1] /\ s[j] \in S /\ s[j] # x /\ j - 1 \in 1 .. n - 1
        BY <3>6, <3>10
      <4>2. CASE i = 1
        BY <3>2, <3>8, <3>9, <4>1, <4>2
      <4>3. CASE i # 1
        <5>1. s[i] = t[i - 1] /\ i - 1 \in 1 .. n - 1 /\ i - 1 < j - 1
          BY <3>6, <3>10, <4>3
        <5> QED BY <3>5, <4>1, <5>1
      <4> QED BY <4>2, <4>3
    <3>11. Sorted(S, n, s)
      <4> HIDE DEF s
      <4> QED BY <3>7, <3>10
    <3> HIDE DEF s, Sorted
    <3> QED BY <2>2, <3>11
  <2> QED BY <2>4, <2>5
<1>3. \E s : Sorted(gs, Cardinality(gs), s)
  <2> HIDE DEF Sorted
  <2> QED BY <1>1, <1>2
<1>4. \E s \in [1 .. Cardinality(gs) -> gs] : \A i, j \in 1 .. Cardinality(gs) : i < j => s[i] < s[j]
  BY <1>3
<1>5. /\ InOrder(gs) \in [1 .. Cardinality(gs) -> gs]
      /\ \A i, j \in 1 .. Cardinality(gs) : i < j => InOrder(gs)[i] < InOrder(gs)[j]
  BY <1>4, Zenon DEF InOrder
<1> QED
  BY <1>1, <1>5

-----------------------------------------------------------------------------
(* The types of the messages and documents.                                *)

\* The states an event may give an order, and what a document may hold.
OrderNews == {"assigned", "pickup_in_progress", "in_transit", "dropoff_in_progress",
              "completed", "cancelled"}
BookStates == {"created", "unassigned"} \cup OrderNews
Reasons == {"none", "overdue"}
Docs == [st : BookStates, why : Reasons]
Beliefs == [st : BookStates \cup {"unknown"}, why : Reasons,
            set : OrderNews \cup {"nothing"}, clear : BOOLEAN]

\* The documents' states are those of the path, and a cancel.
LEMMA StatesOfPath ==
  /\ OrderPath = <<"created", "unassigned", "assigned", "pickup_in_progress",
                   "in_transit", "dropoff_in_progress", "completed">>
  /\ OrderStates = BookStates
<1>1. DOMAIN OrderPath = 1 .. 7
  BY DEF OrderPath
<1>2. Range(OrderPath) = {OrderPath[i] : i \in 1 .. 7}
  BY <1>1 DEF Range
<1> QED
  BY <1>2 DEF OrderPath, OrderStates, BookStates, OrderNews

\* FoldEvent keeps the type of a belief; it writes the event or changes nothing.
LEMMA FoldEventType ==
  ASSUME NEW p \in Beliefs, NEW to \in OrderNews
  PROVE  /\ FoldEvent(p, to) \in Beliefs
         /\ \/ FoldEvent(p, to) = p /\ (\/ Resurrectable(p) /\ to = "cancelled"
                                        \/ ~Resurrectable(p) /\ p.st \in Terminal)
            \/ /\ FoldEvent(p, to).st = to /\ FoldEvent(p, to).set = to
               /\ FoldEvent(p, to).why = "none"
               /\ Resurrectable(p) \/ p.st \notin Terminal
               /\ FoldEvent(p, to).clear <=> p.clear \/ Resurrectable(p)
<1> DEFINE q == [st |-> to, why |-> "none", set |-> to, clear |-> p.clear \/ Resurrectable(p)]
<1>1. Resurrectable(p) \in BOOLEAN /\ p.clear \in BOOLEAN
  BY DEF Beliefs, Resurrectable
<1>2. q \in Beliefs
  BY <1>1, Zenon DEF Beliefs, BookStates, Reasons
<1>3. CASE \/ Resurrectable(p) /\ to = "cancelled"
           \/ ~Resurrectable(p) /\ p.st \in Terminal
  <2>1. FoldEvent(p, to) = p
    BY <1>3, Zenon DEF FoldEvent
  <2> QED BY <1>3, <2>1, Zenon
<1>4. CASE ~ (\/ Resurrectable(p) /\ to = "cancelled"
              \/ ~Resurrectable(p) /\ p.st \in Terminal)
  <2>1. FoldEvent(p, to) = q
    BY <1>4, Zenon DEF FoldEvent
  <2>2. q.st = to /\ q.set = to /\ q.why = "none" /\ (q.clear <=> p.clear \/ Resurrectable(p))
    BY Zenon
  <2> QED BY <1>2, <1>4, <2>1, <2>2, Zenon
<1> QED BY <1>3, <1>4

\* plan_event_updates goes through the events one by one.
LEMMA EventsFold ==
  ASSUME NEW p \in Beliefs, NEW es \in Seq(OrderNews)
  PROVE  \E w \in [0 .. Len(es) -> Beliefs] :
           /\ w[0] = p /\ FoldEvents(p, es) = w[Len(es)]
           /\ \A i \in 1 .. Len(es) : w[i] = FoldEvent(w[i - 1], es[i])
<1> DEFINE f == [x \in Beliefs \X OrderNews |-> FoldEvent(x[1], x[2])]
           V == CHOOSE v : v = [i \in 0 .. Len(es) |-> IF i = 0 THEN p ELSE FoldEvent(v[i - 1], es[i])]
<1>1. f \in [Beliefs \X OrderNews -> Beliefs]
  BY FoldEventType
<1>2. PICK w \in [0 .. Len(es) -> Beliefs] :
        w[0] = p /\ \A i \in 1 .. Len(es) : w[i] = f[<<w[i - 1], es[i]>>]
  <2>1. f \in StepsOf(Beliefs, OrderNews)
    BY <1>1, Zenon DEF StepsOf
  <2> HIDE DEF f
  <2>2. FoldGoesThrough(Beliefs, f, p, es)
    BY <2>1, FoldRuns
  <2> QED BY <2>2, Zenon DEF FoldGoesThrough
<1>3. \A i \in 1 .. Len(es) : w[i] = FoldEvent(w[i - 1], es[i])
  <2> TAKE i \in 1 .. Len(es)
  <2>1. w[i - 1] \in Beliefs /\ es[i] \in OrderNews
    <3>1. i - 1 \in 0 .. Len(es)
      OBVIOUS
    <3> QED BY <3>1
  <2>2. f[<<w[i - 1], es[i]>>] = FoldEvent(w[i - 1], es[i])
    <3>1. ASSUME NEW x \in Beliefs, NEW e \in OrderNews PROVE f[<<x, e>>] = FoldEvent(x, e)
      <4>1. <<x, e>> \in Beliefs \X OrderNews /\ <<x, e>>[1] = x /\ <<x, e>>[2] = e
        OBVIOUS
      <4> QED BY <4>1, Zenon
    <3> HIDE DEF f
    <3> QED BY <2>1, <3>1
  <2> HIDE DEF f
  <2> QED BY <1>2, <2>2
<1>4. w = [i \in 0 .. Len(es) |-> IF i = 0 THEN p ELSE FoldEvent(w[i - 1], es[i])]
  <2>1. \A i \in 0 .. Len(es) : w[i] = IF i = 0 THEN p ELSE FoldEvent(w[i - 1], es[i])
    <3> TAKE i \in 0 .. Len(es)
    <3>1. i = 0 \/ i \in 1 .. Len(es)
      OBVIOUS
    <3> QED BY <1>2, <1>3, <3>1, Zenon
  <2>2. w = [i \in 0 .. Len(es) |-> w[i]]
    OBVIOUS
  <2> QED BY <2>1, <2>2, Zenon
<1>5. V = [i \in 0 .. Len(es) |-> IF i = 0 THEN p ELSE FoldEvent(V[i - 1], es[i])]
  BY <1>4, Zenon
<1>6. FoldEvents(p, es) = V[Len(es)]
  BY Zenon DEF FoldEvents
<1> HIDE DEF V, f
<1>7. Len(es) \in Nat /\ Len(es) \in 0 .. Len(es)
  OBVIOUS
<1>8. ASSUME NEW i \in 1 .. Len(es), V[i - 1] = w[i - 1] PROVE V[i] = w[i]
  <2>1. i \in 0 .. Len(es) /\ i # 0
    OBVIOUS
  <2>2. V[i] = FoldEvent(V[i - 1], es[i])
    BY <1>5, <2>1, Zenon
  <2> QED BY <1>3, <1>8, <2>2, Zenon
<1>9. V[0] = w[0]
  <2>1. 0 \in 0 .. Len(es)
    OBVIOUS
  <2> QED BY <1>2, <1>5, <2>1, Zenon
<1>10. V[Len(es)] = w[Len(es)]
  BY <1>7, <1>8, <1>9, SameRun
<1> QED
  BY <1>2, <1>3, <1>6, <1>10, Zenon

\* apply_events for one order: a finally terminal document is untouched; what is written is the
\* state of one of the events; an open document with news changes; and a completion that no
\* cancel precedes ends in a completed document unless the cancel was final.
FinallyCancelled(d) == d.st = "cancelled" /\ d.why # "overdue"
CompletesUncancelled(es) ==
  \E i \in 1 .. Len(es) : es[i] = "completed" /\ \A j \in 1 .. i : es[j] # "cancelled"
LEMMA ApplyEventsFacts ==
  ASSUME NEW d \in Docs, NEW es \in Seq(OrderNews), NEW known \in BOOLEAN
  PROVE  /\ ApplyEvents(d, es, known) \in Docs
         /\ d.st \in Terminal /\ ~Resurrectable(d) => ApplyEvents(d, es, known) = d
         /\ \/ ApplyEvents(d, es, known) = d
            \/ \E i \in 1 .. Len(es) : ApplyEvents(d, es, known).st = es[i]
         /\ d.st \notin Terminal /\ es # <<>> =>
              \E i \in 1 .. Len(es) : ApplyEvents(d, es, known).st = es[i]
         /\ CompletesUncancelled(es) /\ ~FinallyCancelled(d) =>
              ApplyEvents(d, es, known).st = "completed"
<1> DEFINE p0 == [st |-> IF known THEN d.st ELSE "unknown", why |-> IF known THEN d.why ELSE "none",
                  set |-> "nothing", clear |-> FALSE]
           a == ApplyEvents(d, es, known)
<1>1. p0 \in Beliefs
  BY Zenon DEF Beliefs, Docs, Reasons
<1>2. p0.set = "nothing" /\ p0.st \in {d.st, "unknown"} /\ p0.clear = FALSE
      /\ (known => p0.st = d.st /\ p0.why = d.why) /\ (~known => p0.st = "unknown")
  BY Zenon
<1>3. a = IF FoldEvents(p0, es).set = "nothing" \/ (d.st \in Terminal /\ ~Resurrectable(d)) THEN d
          ELSE [st |-> FoldEvents(p0, es).set,
                why |-> IF FoldEvents(p0, es).clear THEN "none" ELSE d.why]
  BY Zenon DEF ApplyEvents
<1> HIDE DEF p0, a
<1>4. PICK w \in [0 .. Len(es) -> Beliefs] :
        /\ w[0] = p0 /\ FoldEvents(p0, es) = w[Len(es)]
        /\ \A i \in 1 .. Len(es) : w[i] = FoldEvent(w[i - 1], es[i])
  BY <1>1, EventsFold
<1>5. Len(es) \in Nat /\ Len(es) \in 0 .. Len(es) /\ \A i \in 1 .. Len(es) : i - 1 \in 0 .. Len(es) /\ i \in 0 .. Len(es)
  OBVIOUS
<1>6. \A i \in 1 .. Len(es) :
        /\ w[i - 1] \in Beliefs /\ es[i] \in OrderNews
        /\ \/ w[i] = w[i - 1] /\ (\/ Resurrectable(w[i - 1]) /\ es[i] = "cancelled"
                                  \/ ~Resurrectable(w[i - 1]) /\ w[i - 1].st \in Terminal)
           \/ /\ w[i].st = es[i] /\ w[i].set = es[i] /\ w[i].why = "none"
              /\ Resurrectable(w[i - 1]) \/ w[i - 1].st \notin Terminal
  <2> TAKE i \in 1 .. Len(es)
  <2>1. w[i - 1] \in Beliefs /\ es[i] \in OrderNews /\ w[i] = FoldEvent(w[i - 1], es[i])
    BY <1>4, <1>5
  <2>2. ASSUME NEW x \in Beliefs, NEW e \in OrderNews
        PROVE  \/ FoldEvent(x, e) = x /\ (\/ Resurrectable(x) /\ e = "cancelled"
                                          \/ ~Resurrectable(x) /\ x.st \in Terminal)
               \/ /\ FoldEvent(x, e).st = e /\ FoldEvent(x, e).set = e /\ FoldEvent(x, e).why = "none"
                  /\ Resurrectable(x) \/ x.st \notin Terminal
    BY FoldEventType
  <2> QED BY <2>1, <2>2
<1>7. \A i \in 0 .. Len(es) : w[i].set = "nothing" \/ \E j \in 1 .. Len(es) : w[i].set = es[j]
  <2> DEFINE Q == {i \in 0 .. Len(es) : w[i].set = "nothing" \/ \E j \in 1 .. Len(es) : w[i].set = es[j]}
  <2>1. 0 \in Q
    BY <1>2, <1>4, <1>5
  <2>2. \A i \in 1 .. Len(es) : i - 1 \in Q => i \in Q
    BY <1>5, <1>6
  <2>3. \A i \in 0 .. Len(es) : i \in Q
    <3> HIDE DEF Q
    <3> QED BY <1>5, <2>1, <2>2, AllAlong
  <2> QED BY <2>3
<1>8. w[Len(es)] \in Beliefs /\ w[Len(es)].set \in OrderNews \cup {"nothing"}
  BY <1>5 DEF Beliefs
<1>9. a \in Docs
  <2>1. d.st \in BookStates /\ d.why \in Reasons
    BY DEF Docs
  <2>2. CASE w[Len(es)].set = "nothing" \/ (d.st \in Terminal /\ ~Resurrectable(d))
    BY <1>3, <1>4, <2>2
  <2>3. CASE ~ (w[Len(es)].set = "nothing" \/ (d.st \in Terminal /\ ~Resurrectable(d)))
    <3>1. a = [st |-> w[Len(es)].set, why |-> IF w[Len(es)].clear THEN "none" ELSE d.why]
      BY <1>3, <1>4, <2>3, Zenon
    <3>2. w[Len(es)].set \in BookStates
      BY <1>8, <2>3 DEF BookStates
    <3>3. (IF w[Len(es)].clear THEN "none" ELSE d.why) \in Reasons
      BY <2>1, Zenon DEF Reasons
    <3> QED BY <3>1, <3>2, <3>3, Zenon DEF Docs
  <2> QED BY <2>2, <2>3
<1>10. d.st \in Terminal /\ ~Resurrectable(d) => a = d
  BY <1>3, Zenon
<1>11. a = d \/ (w[Len(es)].set # "nothing" /\ a.st = w[Len(es)].set)
  BY <1>3, <1>4, Zenon
<1>12. a = d \/ \E i \in 1 .. Len(es) : a.st = es[i]
  BY <1>5, <1>7, <1>11
<1>13. ASSUME d.st \notin Terminal, es # <<>>
       PROVE  \E i \in 1 .. Len(es) : a.st = es[i]
  <2>1. 1 \in 1 .. Len(es)
    OBVIOUS
  <2>2. w[0].st \notin Terminal /\ ~Resurrectable(w[0])
    BY <1>2, <1>4, <1>13 DEF Resurrectable, Terminal
  <2>3. w[1].set = es[1] /\ w[1].set # "nothing"
    BY <1>6, <2>1, <2>2 DEF OrderNews
  <2> DEFINE Q == {i \in Nat : i = 0 \/ w[i].set # "nothing"}
  <2>4. \A i \in 1 .. Len(es) : i - 1 \in Q => i \in Q
    <3> TAKE i \in 1 .. Len(es)
    <3>1. CASE i = 1
      BY <2>3, <3>1
    <3>2. CASE i # 1
      <4>1. w[i] = w[i - 1] \/ w[i].set = es[i]
        BY <1>6
      <4>2. es[i] # "nothing"
        BY <1>6 DEF OrderNews
      <4>3. i - 1 \in Q => w[i - 1].set # "nothing"
        BY <3>2
      <4> QED BY <4>1, <4>2, <4>3
    <3> QED BY <3>1, <3>2
  <2>5. \A i \in 0 .. Len(es) : i \in Q
    <3>1. 0 \in Q
      OBVIOUS
    <3> HIDE DEF Q
    <3> QED BY <1>5, <2>4, <3>1, AllAlong
  <2>6. w[Len(es)].set # "nothing"
    BY <1>5, <2>1, <2>5
  <2>7. a.st = w[Len(es)].set
    BY <1>3, <1>4, <1>13, <2>6, Zenon
  <2> QED BY <1>5, <1>7, <2>6, <2>7
<1>14. ASSUME CompletesUncancelled(es), ~FinallyCancelled(d)
       PROVE  a.st = "completed"
  <2>1. PICK n \in 1 .. Len(es) : es[n] = "completed" /\ \A j \in 1 .. n : es[j] # "cancelled"
    BY <1>14 DEF CompletesUncancelled
  <2> DEFINE Undecided(p) == p.st \notin Terminal \/ Resurrectable(p)
             Done(p) == p.st = "completed" /\ (p.set = "completed" \/ (p.set = "nothing" /\ d.st = "completed"))
             Q == {i \in Nat : \/ i < n /\ (Undecided(w[i]) \/ Done(w[i]))
                               \/ Done(w[i])}
  <2>2. 0 \in Q
    <3>1. CASE known
      <4>1. Undecided(d) \/ d.st = "completed"
        BY <1>14 DEF FinallyCancelled, Terminal, Resurrectable
      <4>2. w[0].st = d.st /\ w[0].why = d.why /\ w[0].set = "nothing"
        BY <1>2, <1>4, <3>1
      <4> QED BY <2>1, <4>1, <4>2 DEF Resurrectable
    <3>2. CASE ~known
      <4>1. w[0].st \notin Terminal
        BY <1>2, <1>4, <3>2 DEF Terminal
      <4> QED BY <2>1, <4>1
    <3> QED BY <3>1, <3>2
  <2>3. ASSUME NEW i \in 1 .. Len(es), i - 1 \in Q PROVE i \in Q
    <3>1. Done(w[i - 1]) \/ (i <= n /\ Undecided(w[i - 1]))
      BY <2>1, <2>3
    <3>2. CASE Done(w[i - 1])
      <4>1. w[i] = w[i - 1]
        BY <1>6, <3>2 DEF Resurrectable, Terminal
      <4> QED BY <3>2, <4>1
    <3>3. CASE i <= n /\ Undecided(w[i - 1])
      <4>1. es[i] # "cancelled"
        BY <2>1, <3>3
      <4>2. w[i].st = es[i] /\ w[i].set = es[i]
        BY <1>6, <3>3, <4>1
      <4>3. CASE es[i] = "completed"
        BY <4>2, <4>3
      <4>4. CASE es[i] # "completed"
        <5>1. i < n
          BY <2>1, <3>3, <4>4
        <5>2. es[i] \notin Terminal
          BY <4>1, <4>4 DEF Terminal
        <5> QED BY <4>2, <5>1, <5>2
      <4> QED BY <4>3, <4>4
    <3> QED BY <3>1, <3>2, <3>3
  <2>4. \A i \in 0 .. Len(es) : i \in Q
    <3> HIDE DEF Q
    <3> QED BY <1>5, <2>2, <2>3, AllAlong
  <2>5. Done(w[Len(es)])
    BY <1>5, <2>1, <2>4
  <2>6. CASE d.st \in Terminal /\ ~Resurrectable(d)
    BY <1>10, <1>14, <2>6 DEF FinallyCancelled, Terminal, Resurrectable
  <2>7. CASE ~ (d.st \in Terminal /\ ~Resurrectable(d)) /\ w[Len(es)].set = "nothing"
    BY <2>5, <2>7 DEF Terminal, Resurrectable
  <2>8. CASE ~ (d.st \in Terminal /\ ~Resurrectable(d)) /\ w[Len(es)].set # "nothing"
    <3>1. a.st = w[Len(es)].set
      BY <1>3, <1>4, <2>8, Zenon
    <3> QED BY <2>5, <2>8, <3>1
  <2> QED BY <2>6, <2>7, <2>8
<1> QED
  BY <1>9, <1>10, <1>12, <1>13, <1>14 DEF a

\* How far along the haul a document is.  A cancel comes after everything.
Pos == [created |-> 1, unassigned |-> 2, assigned |-> 3, pickup_in_progress |-> 4,
        in_transit |-> 5, dropoff_in_progress |-> 6, completed |-> 7, cancelled |-> 8]
LEMMA PosOfState ==
  \A s \in BookStates : /\ Pos[s] \in 1 .. 8
                        /\ s \in Terminal <=> Pos[s] >= 7
                        /\ s \in OrderNews <=> Pos[s] >= 3
                        /\ s = "cancelled" <=> Pos[s] = 8
                        /\ s = "completed" <=> Pos[s] = 7
                        /\ s = "created" <=> Pos[s] = 1
                        /\ s = "unassigned" <=> Pos[s] = 2
BY DEF Pos, BookStates, OrderNews, Terminal

LEMMA PosOfNews == \A e \in OrderNews : Pos[e] \in Int /\ e \in BookStates
BY DEF Pos, OrderNews, BookStates

\* One event at an order agent moves an open document forward, or changes nothing.
LEMMA AgentAppliesFacts ==
  ASSUME NEW d \in Docs, NEW to \in OrderNews
  PROVE  /\ AgentApplies(d, to) \in Docs
         /\ \/ AgentApplies(d, to) = d
            \/ d.st \notin Terminal /\ AgentApplies(d, to) = [st |-> to, why |-> d.why]
               /\ Pos[d.st] < Pos[to]
<1>1. d = [st |-> d.st, why |-> d.why] /\ d.st \in BookStates /\ d.why \in Reasons
  BY DEF Docs
<1>2. [d EXCEPT !.st = to] = [st |-> to, why |-> d.why]
  BY <1>1
<1>3. to \in BookStates
  BY DEF BookStates
<1>4. [st |-> to, why |-> d.why] \in Docs
  BY <1>1, <1>3 DEF Docs
<1>5. ASSUME \/ to = "cancelled" /\ d.st \notin Terminal
             \/ \E i \in 1 .. 6 : OrderPath[i] = d.st /\ OrderPath[i + 1] = to
      PROVE  d.st \notin Terminal /\ Pos[d.st] < Pos[to]
  <2>1. CASE to = "cancelled" /\ d.st \notin Terminal
    BY <1>1, <1>3, <2>1, PosOfState
  <2>2. ASSUME NEW i \in 1 .. 6, OrderPath[i] = d.st, OrderPath[i + 1] = to
        PROVE  d.st \notin Terminal /\ Pos[d.st] < Pos[to]
    <3>1. i = 1 \/ i = 2 \/ i = 3 \/ i = 4 \/ i = 5 \/ i = 6
      OBVIOUS
    <3>2. Pos[d.st] = i /\ Pos[to] = i + 1
      BY <2>2, <3>1 DEF OrderPath, Pos
    <3> QED BY <1>1, <3>2, PosOfState
  <2> QED BY <1>5, <2>1, <2>2
<1> QED
  BY <1>2, <1>4, <1>5 DEF AgentApplies

\* The messages an order agent handles in one step.
LEMMA AgentHearsFacts ==
  ASSUME NEW d \in Docs, NEW es \in Seq(OrderNews)
  PROVE  /\ AgentHears(d, es) \in Docs
         /\ AgentHears(d, es).why = d.why
         /\ Pos[d.st] <= Pos[AgentHears(d, es).st]
         /\ d.st \in Terminal => AgentHears(d, es) = d
<1> DEFINE f == [x \in Docs \X OrderNews |-> AgentApplies(x[1], x[2])]
           V == CHOOSE v : v = [i \in 0 .. Len(es) |-> IF i = 0 THEN d ELSE AgentApplies(v[i - 1], es[i])]
<1>1. ASSUME NEW x \in Docs, NEW e \in OrderNews PROVE f[<<x, e>>] = AgentApplies(x, e)
  <2>1. <<x, e>> \in Docs \X OrderNews /\ <<x, e>>[1] = x /\ <<x, e>>[2] = e
    OBVIOUS
  <2> QED BY <2>1, Zenon
<1>2. f \in StepsOf(Docs, OrderNews)
  BY AgentAppliesFacts DEF StepsOf
<1>3. AgentHears(d, es) = V[Len(es)]
  BY Zenon DEF AgentHears
<1>4. ASSUME NEW w, w = [i \in 0 .. Len(es) |-> IF i = 0 THEN d ELSE AgentApplies(w[i - 1], es[i])]
      PROVE  V = [i \in 0 .. Len(es) |-> IF i = 0 THEN d ELSE AgentApplies(V[i - 1], es[i])]
  BY <1>4, Zenon
<1> HIDE DEF V, f
<1>5. FoldGoesThrough(Docs, f, d, es)
  BY <1>2, FoldRuns
<1>6. PICK w \in [0 .. Len(es) -> Docs] :
        w[0] = d /\ \A i \in 1 .. Len(es) : w[i] = f[<<w[i - 1], es[i]>>]
  BY <1>5, Zenon DEF FoldGoesThrough
<1>7. Len(es) \in Nat /\ 0 \in 0 .. Len(es) /\ Len(es) \in 0 .. Len(es)
      /\ \A i \in 1 .. Len(es) : i - 1 \in 0 .. Len(es) /\ i \in 0 .. Len(es) /\ i # 0
  OBVIOUS
<1>8. \A i \in 1 .. Len(es) : /\ w[i - 1] \in Docs /\ w[i] \in Docs /\ es[i] \in OrderNews
                              /\ w[i] = AgentApplies(w[i - 1], es[i])
  <2> TAKE i \in 1 .. Len(es)
  <2>1. w[i - 1] \in Docs /\ w[i] \in Docs /\ es[i] \in OrderNews
    BY <1>7
  <2>2. w[i] = f[<<w[i - 1], es[i]>>]
    BY <1>6
  <2>3. f[<<w[i - 1], es[i]>>] = AgentApplies(w[i - 1], es[i])
    BY <1>1, <2>1, Zenon
  <2> QED BY <2>1, <2>2, <2>3
<1>9. w = [i \in 0 .. Len(es) |-> IF i = 0 THEN d ELSE AgentApplies(w[i - 1], es[i])]
  <2>1. \A i \in 0 .. Len(es) : w[i] = IF i = 0 THEN d ELSE AgentApplies(w[i - 1], es[i])
    <3> TAKE i \in 0 .. Len(es)
    <3>1. i = 0 \/ i \in 1 .. Len(es)
      OBVIOUS
    <3> QED BY <1>6, <1>8, <3>1, Zenon
  <2>2. w = [i \in 0 .. Len(es) |-> w[i]]
    OBVIOUS
  <2> QED BY <2>1, <2>2, Zenon
<1>10. V = [i \in 0 .. Len(es) |-> IF i = 0 THEN d ELSE AgentApplies(V[i - 1], es[i])]
  BY <1>4, <1>9, Zenon
<1>11. V[0] = w[0]
  BY <1>6, <1>7, <1>10, Zenon
<1>12. AgentHears(d, es) = w[Len(es)]
  <2>1. ASSUME NEW i \in 1 .. Len(es), V[i - 1] = w[i - 1] PROVE V[i] = w[i]
    <3>1. V[i] = AgentApplies(V[i - 1], es[i])
      BY <1>7, <1>10, Zenon
    <3> QED BY <1>8, <2>1, <3>1, Zenon
  <2>2. Len(es) \in Nat /\ Len(es) \in 0 .. Len(es)
    OBVIOUS
  <2>3. V[Len(es)] = w[Len(es)]
    BY <1>11, <2>1, <2>2, SameRun
  <2> QED BY <1>3, <2>3
<1> DEFINE Q == {i \in 0 .. Len(es) : /\ w[i].why = d.why /\ Pos[d.st] <= Pos[w[i].st]
                                      /\ d.st \in Terminal => w[i] = d}
<1>13. \A x \in Docs : x.st \in BookStates /\ Pos[x.st] \in Int
  BY PosOfState DEF Docs
<1>14. 0 \in Q
  BY <1>6, <1>7, <1>13
<1>15. ASSUME NEW i \in 1 .. Len(es), i - 1 \in Q PROVE i \in Q
  <2>1. w[i - 1].why = d.why /\ Pos[d.st] <= Pos[w[i - 1].st] /\ (d.st \in Terminal => w[i - 1] = d)
    BY <1>15
  <2>2. \/ w[i] = w[i - 1]
        \/ w[i - 1].st \notin Terminal /\ w[i] = [st |-> es[i], why |-> w[i - 1].why]
           /\ Pos[w[i - 1].st] < Pos[es[i]]
    BY <1>8, AgentAppliesFacts
  <2>3. w[i].why = d.why
    BY <2>1, <2>2
  <2>4. d.st \in Terminal => w[i] = d
    BY <2>1, <2>2
  <2>5. Pos[d.st] <= Pos[w[i].st]
    <3>1. Pos[w[i].st] \in Int /\ Pos[w[i - 1].st] \in Int /\ Pos[d.st] \in Int
      BY <1>8, <1>13
    <3>2. w[i].st = w[i - 1].st \/ (w[i].st = es[i] /\ Pos[w[i - 1].st] < Pos[es[i]])
      BY <2>2
    <3> QED BY <2>1, <3>1, <3>2
  <2> QED BY <1>7, <2>3, <2>4, <2>5
<1>16. \A i \in 0 .. Len(es) : i \in Q
  <2> HIDE DEF Q
  <2> QED BY <1>7, <1>14, <1>15, AllAlong
<1>17. w[Len(es)] \in Docs
  BY <1>7
<1> QED
  BY <1>7, <1>12, <1>16, <1>17

-----------------------------------------------------------------------------
(* The truck and its trip.                                                 *)

OpenTrip == {"created", "assigned", "repositioning_to_pickup", "queued_for_pickup",
             "at_pickup_gate", "loaded_in_transit", "queued_for_dropoff", "at_dropoff_gate"}
TripSt == OpenTrip \cup Terminal
Trips == [st : TripSt, ord : Orders]
Kinds == {"pickup", "dropoff"}
Spoken == [trip : {NoTrip} \cup Trips, orders : Seq(OrderNews), visits : [Facilities -> Seq(Kinds)]]

\* The transition t leads from s to s2, as the table of the haul trip's state machine has it.
Leads(t, s, s2) ==
  \/ t = "assign" /\ s = "created" /\ s2 = "assigned"
  \/ t = "start_empty_reposition" /\ s = "assigned" /\ s2 = "repositioning_to_pickup"
  \/ t = "arrive_pickup_queue" /\ s = "assigned" /\ s2 = "queued_for_pickup"
  \/ t = "arrive_pickup_queue" /\ s = "repositioning_to_pickup" /\ s2 = "queued_for_pickup"
  \/ t = "enter_pickup_gate" /\ s = "queued_for_pickup" /\ s2 = "at_pickup_gate"
  \/ t = "finish_pickup_service" /\ s = "at_pickup_gate" /\ s2 = "loaded_in_transit"
  \/ t = "arrive_dropoff_queue" /\ s = "loaded_in_transit" /\ s2 = "queued_for_dropoff"
  \/ t = "enter_dropoff_gate" /\ s = "queued_for_dropoff" /\ s2 = "at_dropoff_gate"
  \/ t = "finish_dropoff_service" /\ s = "at_dropoff_gate" /\ s2 = "completed"
  \/ t = "cancel" /\ s \in OpenTrip /\ s2 = "cancelled"

LEMMA TransitionTable ==
  /\ \A h \in HaulTransitions : h = <<h[1], h[2], h[3]>> /\ Leads(h[1], h[2], h[3])
  /\ \A t, s, s2 : Leads(t, s, s2) => <<t, s, s2>> \in HaulTransitions
<1>1. ASSUME NEW h \in HaulTransitions
      PROVE  h = <<h[1], h[2], h[3]>> /\ Leads(h[1], h[2], h[3])
  <2>1. CASE h \in {<<"cancel", s, "cancelled">> :
            s \in {"created", "assigned", "repositioning_to_pickup", "queued_for_pickup",
                   "at_pickup_gate", "loaded_in_transit", "queued_for_dropoff",
                   "at_dropoff_gate"}}
    BY <2>1 DEF Leads, OpenTrip
  <2>2. CASE ~ (h \in {<<"cancel", s, "cancelled">> :
            s \in {"created", "assigned", "repositioning_to_pickup", "queued_for_pickup",
                   "at_pickup_gate", "loaded_in_transit", "queued_for_dropoff",
                   "at_dropoff_gate"}})
    BY <2>2 DEF Leads, HaulTransitions
  <2> QED BY <2>1, <2>2
<1>2. ASSUME NEW t, NEW s, NEW s2, Leads(t, s, s2)
      PROVE  <<t, s, s2>> \in HaulTransitions
  BY <1>2 DEF Leads, HaulTransitions, OpenTrip
<1> QED BY <1>1, <1>2

\* What a PATCH leaves: the next state with what it published, or nothing changed.
Patched(w, t, s2) ==
  [trip |-> [st |-> s2, ord |-> w.trip.ord],
   orders |-> IF t \in DOMAIN OrderEvents THEN Append(w.orders, OrderEvents[t]) ELSE w.orders,
   visits |-> IF t \in DOMAIN GateEvents
              THEN [w.visits EXCEPT ![Visit(GateEvents[t], w.trip.ord)] = Append(@, GateEvents[t])]
              ELSE w.visits]
LEMMA PatchFires ==
  ASSUME NEW w \in Spoken, NEW t, NEW bad, NEW s2, Leads(t, w.trip.st, s2), t # bad
  PROVE  ApplyTripTransitionAndNotify(w, t, bad) = Patched(w, t, s2) /\ w.trip \in Trips
<1> DEFINE fired == {h \in HaulTransitions : h[1] = t /\ h[2] = w.trip.st /\ t # bad}
<1>1. w.trip \in Trips
  <2>1. w.trip \in {NoTrip} \cup Trips
    BY DEF Spoken
  <2>2. w.trip.st # "none"
    BY DEF Leads, OpenTrip
  <2> QED BY <2>1, <2>2 DEF NoTrip
<1>2. <<t, w.trip.st, s2>> \in fired
  BY TransitionTable
<1>3. \A h \in fired : h[3] = s2
  <2> TAKE h \in fired
  <2>1. Leads(t, w.trip.st, h[3])
    BY TransitionTable
  <2> QED BY <2>1 DEF Leads, OpenTrip
<1>4. (CHOOSE h \in fired : TRUE)[3] = s2 /\ fired # {}
  BY <1>2, <1>3
<1>5. [w.trip EXCEPT !.st = s2] = [st |-> s2, ord |-> w.trip.ord]
  BY <1>1 DEF Trips
<1>6. ApplyTripTransitionAndNotify(w, t, bad) =
        [trip |-> [w.trip EXCEPT !.st = (CHOOSE h \in fired : TRUE)[3]],
         orders |-> IF t \in DOMAIN OrderEvents THEN Append(w.orders, OrderEvents[t]) ELSE w.orders,
         visits |-> IF t \in DOMAIN GateEvents
                    THEN [w.visits EXCEPT ![Visit(GateEvents[t], w.trip.ord)] = Append(@, GateEvents[t])]
                    ELSE w.visits]
  BY <1>4, Zenon DEF ApplyTripTransitionAndNotify
<1> HIDE DEF fired
<1> QED
  BY <1>1, <1>4, <1>5, <1>6, Zenon DEF Patched

LEMMA PatchRefused ==
  ASSUME NEW w, NEW t, NEW bad, t = bad \/ \A s2 : ~Leads(t, w.trip.st, s2)
  PROVE  ApplyTripTransitionAndNotify(w, t, bad) = w
<1>1. {h \in HaulTransitions : h[1] = t /\ h[2] = w.trip.st /\ t # bad} = {}
  BY TransitionTable
<1> QED
  BY <1>1, Zenon DEF ApplyTripTransitionAndNotify

\* The news of a transition, and its rank: a trip is as far as the last thing it said.
TripRank == [none |-> 2, created |-> 2, assigned |-> 3, repositioning_to_pickup |-> 3,
             queued_for_pickup |-> 3, at_pickup_gate |-> 4, loaded_in_transit |-> 5,
             queued_for_dropoff |-> 5, at_dropoff_gate |-> 6, completed |-> 7, cancelled |-> 8]
LEMMA NewsOfPatch ==
  ASSUME NEW w \in Spoken, NEW t, NEW s2, Leads(t, w.trip.st, s2)
  PROVE  /\ Patched(w, t, s2) \in Spoken
         /\ s2 \in TripSt /\ w.trip.st \in TripSt /\ w.trip \in Trips
         /\ TripRank[s2] \in Int /\ TripRank[w.trip.st] \in Int /\ TripRank[w.trip.st] <= TripRank[s2]
         /\ t \in DOMAIN OrderEvents =>
              /\ OrderEvents[t] \in OrderNews /\ Pos[OrderEvents[t]] = TripRank[s2]
              /\ OrderEvents[t] = "cancelled" => t = "cancel"
              /\ OrderEvents[t] = "completed" => t = "finish_dropoff_service"
<1>1. s2 \in TripSt /\ w.trip.st \in TripSt
  BY DEF Leads, TripSt, OpenTrip, Terminal
<1>2. w.trip \in Trips /\ w.trip.ord \in Orders
  <2>1. w.trip \in {NoTrip} \cup Trips
    BY DEF Spoken
  <2>2. w.trip.st # "none"
    BY <1>1 DEF TripSt, OpenTrip, Terminal
  <2> QED BY <2>1, <2>2 DEF NoTrip, Trips
<1>3. TripRank[s2] \in Int /\ TripRank[w.trip.st] \in Int /\ TripRank[w.trip.st] <= TripRank[s2]
  BY DEF Leads, TripRank, OpenTrip
<1>4. t \in DOMAIN OrderEvents =>
              /\ OrderEvents[t] \in OrderNews /\ Pos[OrderEvents[t]] = TripRank[s2]
              /\ OrderEvents[t] = "cancelled" => t = "cancel"
              /\ OrderEvents[t] = "completed" => t = "finish_dropoff_service"
  BY DEF Leads, OrderEvents, OrderNews, Pos, TripRank
<1>5. t \in DOMAIN GateEvents => GateEvents[t] \in Kinds
  BY DEF GateEvents, Kinds
<1>6. w.orders \in Seq(OrderNews) /\ w.visits \in [Facilities -> Seq(Kinds)]
  BY DEF Spoken
<1>7. (IF t \in DOMAIN OrderEvents THEN Append(w.orders, OrderEvents[t]) ELSE w.orders) \in Seq(OrderNews)
  BY <1>4, <1>6
<1>8. \A v \in Kinds : [w.visits EXCEPT ![Visit(v, w.trip.ord)] = Append(@, v)] \in [Facilities -> Seq(Kinds)]
  BY <1>2, <1>6, HaulageConstants DEF Visit
<1>9. (IF t \in DOMAIN GateEvents
       THEN [w.visits EXCEPT ![Visit(GateEvents[t], w.trip.ord)] = Append(@, GateEvents[t])]
       ELSE w.visits) \in [Facilities -> Seq(Kinds)]
  BY <1>5, <1>6, <1>8, Zenon
<1>10. [st |-> s2, ord |-> w.trip.ord] \in Trips
  BY <1>1, <1>2 DEF Trips
<1>11. Patched(w, t, s2) \in Spoken
  BY <1>7, <1>9, <1>10, Zenon DEF Patched, Spoken
<1> QED
  BY <1>1, <1>2, <1>3, <1>4, <1>11

\* What a truck may have said in a step it began with trip t0: news of its own order, no
\* cancel, none behind where the trip was, none ahead of where it is.
Tells(t0) ==
  {w \in Spoken :
     /\ t0 = NoTrip => w = Unsaid(NoTrip)
     /\ t0 # NoTrip =>
          /\ w.trip \in Trips /\ w.trip.ord = t0.ord
          /\ TripRank[t0.st] <= TripRank[w.trip.st]
          /\ \A i \in 1 .. Len(w.orders) :
               /\ w.orders[i] # "cancelled"
               /\ TripRank[t0.st] <= Pos[w.orders[i]] /\ Pos[w.orders[i]] <= TripRank[w.trip.st]}
LEMMA RankOfTrip == \A s \in TripSt : TripRank[s] \in 2 .. 8
BY DEF TripRank, TripSt, OpenTrip, Terminal

LEMMA UnsaidTells ==
  ASSUME NEW t0 \in {NoTrip} \cup Trips
  PROVE  Unsaid(t0) \in Tells(t0) /\ Unsaid(t0) \in Spoken /\ Unsaid(t0).trip = t0
         /\ Unsaid(t0).orders = <<>>
<1>1. Unsaid(t0) \in Spoken
  <2>1. [f \in Facilities |-> <<>>] \in [Facilities -> Seq(Kinds)] /\ <<>> \in Seq(OrderNews)
    OBVIOUS
  <2> QED BY <2>1, Zenon DEF Unsaid, Spoken
<1>2. Unsaid(t0).trip = t0 /\ Unsaid(t0).orders = <<>>
  BY DEF Unsaid
<1>3. t0 # NoTrip => TripRank[t0.st] <= TripRank[t0.st]
  BY RankOfTrip DEF Trips
<1> QED BY <1>1, <1>2, <1>3 DEF Tells

LEMMA PatchTells ==
  ASSUME NEW t0 \in {NoTrip} \cup Trips, NEW w \in Tells(t0), NEW t, t # "cancel", NEW bad
  PROVE  ApplyTripTransitionAndNotify(w, t, bad) \in Tells(t0)
<1>1. w \in Spoken
  BY DEF Tells
<1>2. CASE t = bad \/ \A s2 : ~Leads(t, w.trip.st, s2)
  <2>1. ApplyTripTransitionAndNotify(w, t, bad) = w
    BY <1>2, PatchRefused
  <2> QED BY <2>1
<1>3. ASSUME NEW s2, Leads(t, w.trip.st, s2), t # bad
      PROVE  ApplyTripTransitionAndNotify(w, t, bad) \in Tells(t0)
  <2> DEFINE v == Patched(w, t, s2)
  <2>1. ApplyTripTransitionAndNotify(w, t, bad) = v
    BY <1>1, <1>3, PatchFires
  <2>2. /\ v \in Spoken /\ s2 \in TripSt /\ w.trip.st \in TripSt /\ w.trip \in Trips
        /\ TripRank[s2] \in Int /\ TripRank[w.trip.st] \in Int /\ TripRank[w.trip.st] <= TripRank[s2]
    BY <1>1, <1>3, NewsOfPatch
  <2>3. t0 # NoTrip
    <3>1. w = Unsaid(NoTrip) => w.trip = NoTrip
      BY DEF Unsaid
    <3>2. NoTrip \notin Trips
      BY DEF NoTrip, Trips, TripSt, OpenTrip, Terminal
    <3> QED BY <2>2, <3>1, <3>2 DEF Tells
  <2>4. /\ w.trip.ord = t0.ord /\ TripRank[t0.st] <= TripRank[w.trip.st]
        /\ \A i \in 1 .. Len(w.orders) :
               /\ w.orders[i] # "cancelled"
               /\ TripRank[t0.st] <= Pos[w.orders[i]] /\ Pos[w.orders[i]] <= TripRank[w.trip.st]
    BY <2>3 DEF Tells
  <2>5. TripRank[t0.st] \in Int
    BY <2>3, RankOfTrip DEF Trips
  <2>6. v.trip = [st |-> s2, ord |-> w.trip.ord]
    BY DEF Patched
  <2>7. v.trip \in Trips /\ v.trip.ord = t0.ord /\ v.trip.st = s2
    BY <2>2, <2>4, <2>6 DEF Trips
  <2>8. w.orders \in Seq(OrderNews) /\ \A e \in OrderNews : Pos[e] \in Int
    <3>1. \A e \in OrderNews : Pos[e] \in Int
      BY PosOfNews
    <3>2. w.orders \in Seq(OrderNews)
      BY <1>1 DEF Spoken
    <3> QED BY <3>1, <3>2
  <2>9. ASSUME NEW i \in 1 .. Len(v.orders)
        PROVE  /\ v.orders[i] # "cancelled"
               /\ TripRank[t0.st] <= Pos[v.orders[i]] /\ Pos[v.orders[i]] <= TripRank[s2]
    <3>1. CASE t \notin DOMAIN OrderEvents
      <4>1. v.orders = w.orders
        BY <3>1, Zenon DEF Patched
      <4> QED BY <2>2, <2>4, <2>5, <2>8, <4>1
    <3>2. CASE t \in DOMAIN OrderEvents
      <4>1. v.orders = Append(w.orders, OrderEvents[t])
        BY <3>2, Zenon DEF Patched
      <4>2. OrderEvents[t] \in OrderNews /\ Pos[OrderEvents[t]] = TripRank[s2] /\ OrderEvents[t] # "cancelled"
        BY <1>1, <1>3, <3>2, NewsOfPatch
      <4> HIDE DEF v
      <4>3. i \in 1 .. Len(w.orders) + 1
        BY <2>8, <2>9, <4>1, <4>2
      <4>4. v.orders[i] = IF i <= Len(w.orders) THEN w.orders[i] ELSE OrderEvents[t]
        BY <2>8, <4>1, <4>2, <4>3
      <4> QED BY <2>2, <2>4, <2>5, <2>8, <4>2, <4>3, <4>4
    <3> QED BY <3>1, <3>2
  <2> HIDE DEF v
  <2>10. TripRank[t0.st] <= TripRank[v.trip.st]
    BY <2>2, <2>4, <2>5, <2>7
  <2> QED BY <2>1, <2>2, <2>3, <2>7, <2>9, <2>10 DEF Tells
<1> QED BY <1>2, <1>3

\* consume_messages goes through the gate messages one by one.
GateMsgs == {"pickup_slot", "pickup_done", "dropoff_slot", "dropoff_done"}
ConsumedOneByOne(t0, w0, ms, bad) ==
  \E w \in [0 .. Len(ms) -> Tells(t0)] :
    /\ w[0] = w0 /\ ConsumeMessages(w0, ms, bad) = w[Len(ms)]
    /\ \A i \in 1 .. Len(ms) :
         w[i] = ApplyTripTransitionAndNotify(w[i - 1], OnGateMessage[ms[i]], bad)
LEMMA MessagesConsumed ==
  ASSUME NEW t0 \in {NoTrip} \cup Trips, NEW w0 \in Tells(t0), NEW ms \in Seq(GateMsgs), NEW bad
  PROVE  ConsumedOneByOne(t0, w0, ms, bad)
<1> DEFINE Hear(x, m) == ApplyTripTransitionAndNotify(x, OnGateMessage[m], bad)
           f == [x \in Tells(t0) \X GateMsgs |-> Hear(x[1], x[2])]
           V == CHOOSE v : v = [i \in 0 .. Len(ms) |-> IF i = 0 THEN w0 ELSE Hear(v[i - 1], ms[i])]
<1>1. ConsumeMessages(w0, ms, bad) = V[Len(ms)]
  BY Zenon DEF ConsumeMessages
<1>2. ASSUME NEW x \in Tells(t0), NEW m \in GateMsgs PROVE Hear(x, m) \in Tells(t0)
  <2>1. OnGateMessage[m] # "cancel"
    BY DEF OnGateMessage, GateMsgs
  <2> QED BY <2>1, PatchTells
<1> HIDE DEF Hear
<1>3. ASSUME NEW x \in Tells(t0), NEW m \in GateMsgs PROVE f[<<x, m>>] = Hear(x, m)
  <2>1. <<x, m>> \in Tells(t0) \X GateMsgs /\ <<x, m>>[1] = x /\ <<x, m>>[2] = m
    OBVIOUS
  <2> QED BY <2>1, Zenon
<1>4. f \in StepsOf(Tells(t0), GateMsgs)
  BY <1>2 DEF StepsOf
<1>5. ASSUME NEW w, w = [i \in 0 .. Len(ms) |-> IF i = 0 THEN w0 ELSE Hear(w[i - 1], ms[i])]
      PROVE  V = [i \in 0 .. Len(ms) |-> IF i = 0 THEN w0 ELSE Hear(V[i - 1], ms[i])]
  BY <1>5, Zenon
<1> HIDE DEF V, f
<1>6. FoldGoesThrough(Tells(t0), f, w0, ms)
  BY <1>4, FoldRuns
<1>7. PICK w \in [0 .. Len(ms) -> Tells(t0)] :
        w[0] = w0 /\ \A i \in 1 .. Len(ms) : w[i] = f[<<w[i - 1], ms[i]>>]
  BY <1>6, Zenon DEF FoldGoesThrough
<1>8. Len(ms) \in Nat /\ 0 \in 0 .. Len(ms)
      /\ \A i \in 1 .. Len(ms) : i - 1 \in 0 .. Len(ms) /\ i \in 0 .. Len(ms) /\ i # 0
  OBVIOUS
<1>9. \A i \in 1 .. Len(ms) : w[i] = Hear(w[i - 1], ms[i])
  <2> TAKE i \in 1 .. Len(ms)
  <2>1. w[i - 1] \in Tells(t0) /\ ms[i] \in GateMsgs
    BY <1>8
  <2>2. w[i] = f[<<w[i - 1], ms[i]>>]
    BY <1>7
  <2>3. f[<<w[i - 1], ms[i]>>] = Hear(w[i - 1], ms[i])
    BY <1>3, <2>1, Zenon
  <2> QED BY <2>2, <2>3
<1>10. w = [i \in 0 .. Len(ms) |-> IF i = 0 THEN w0 ELSE Hear(w[i - 1], ms[i])]
  <2>1. \A i \in 0 .. Len(ms) : w[i] = IF i = 0 THEN w0 ELSE Hear(w[i - 1], ms[i])
    <3> TAKE i \in 0 .. Len(ms)
    <3>1. i = 0 \/ i \in 1 .. Len(ms)
      OBVIOUS
    <3> QED BY <1>7, <1>9, <3>1, Zenon
  <2>2. w = [i \in 0 .. Len(ms) |-> w[i]]
    OBVIOUS
  <2> QED BY <2>1, <2>2, Zenon
<1>11. V = [i \in 0 .. Len(ms) |-> IF i = 0 THEN w0 ELSE Hear(V[i - 1], ms[i])]
  BY <1>5, <1>10, Zenon
<1>12. V[0] = w[0]
  BY <1>7, <1>8, <1>11, Zenon
<1>13. V[Len(ms)] = w[Len(ms)]
  <2>1. ASSUME NEW i \in 1 .. Len(ms), V[i - 1] = w[i - 1] PROVE V[i] = w[i]
    <3>1. V[i] = Hear(V[i - 1], ms[i])
      BY <1>8, <1>11, Zenon
    <3> QED BY <1>9, <2>1, <3>1, Zenon
  <2>2. Len(ms) \in Nat /\ Len(ms) \in 0 .. Len(ms)
    OBVIOUS
  <2> QED BY <1>12, <2>1, <2>2, SameRun
<1> QED
  BY <1>1, <1>7, <1>9, <1>13, Zenon DEF Hear, ConsumedOneByOne

\* At most two gate messages wait at a truck: what consume_messages makes of them.
LEMMA FewMessages ==
  ASSUME NEW t0 \in {NoTrip} \cup Trips, NEW w0 \in Tells(t0), NEW bad
  PROVE  /\ ConsumeMessages(w0, <<>>, bad) = w0
         /\ \A m \in GateMsgs : ConsumeMessages(w0, <<m>>, bad) =
              ApplyTripTransitionAndNotify(w0, OnGateMessage[m], bad)
<1> DEFINE Hear(x, m) == ApplyTripTransitionAndNotify(x, OnGateMessage[m], bad)
<1>1. ConsumeMessages(w0, <<>>, bad) = w0
  <2>1. <<>> \in Seq(GateMsgs) /\ Len(<<>>) = 0
    OBVIOUS
  <2>2. ConsumedOneByOne(t0, w0, <<>>, bad)
    BY <2>1, MessagesConsumed
  <2>3. PICK w \in [0 .. Len(<<>>) -> Tells(t0)] :
          w[0] = w0 /\ ConsumeMessages(w0, <<>>, bad) = w[Len(<<>>)]
    BY <2>2, Zenon DEF ConsumedOneByOne
  <2> QED BY <2>1, <2>3
<1>2. ASSUME NEW m \in GateMsgs PROVE ConsumeMessages(w0, <<m>>, bad) = Hear(w0, m)
  <2>1. <<m>> \in Seq(GateMsgs) /\ Len(<<m>>) = 1 /\ <<m>>[1] = m
    OBVIOUS
  <2> DEFINE s == <<m>>
  <2>2. s \in Seq(GateMsgs) /\ Len(s) = 1 /\ s[1] = m
    BY <2>1
  <2> HIDE DEF s, Hear
  <2>3. PICK w \in [0 .. Len(s) -> Tells(t0)] :
          /\ w[0] = w0 /\ ConsumeMessages(w0, s, bad) = w[Len(s)]
          /\ \A i \in 1 .. Len(s) : w[i] = Hear(w[i - 1], s[i])
    <3>1. ConsumedOneByOne(t0, w0, s, bad)
      BY <2>2, MessagesConsumed
    <3> QED BY <3>1, Zenon DEF ConsumedOneByOne, Hear
  <2>4. w[1] = Hear(w[0], s[1])
    <3>1. 1 \in 1 .. Len(s) /\ 1 - 1 = 0
      BY <2>2
    <3> QED BY <2>3, <3>1
  <2> QED BY <2>2, <2>3, <2>4 DEF s
<1> QED
  BY <1>1, <1>2

LEMMA TwoMessages ==
  ASSUME NEW t0 \in {NoTrip} \cup Trips, NEW w0 \in Tells(t0), NEW bad,
         NEW m \in GateMsgs, NEW n \in GateMsgs
  PROVE  ConsumeMessages(w0, <<m, n>>, bad) =
           ApplyTripTransitionAndNotify(ApplyTripTransitionAndNotify(w0, OnGateMessage[m], bad),
                                        OnGateMessage[n], bad)
<1> DEFINE Hear(x, y) == ApplyTripTransitionAndNotify(x, OnGateMessage[y], bad)
<1>1. <<m, n>> \in Seq(GateMsgs) /\ Len(<<m, n>>) = 2 /\ <<m, n>>[1] = m /\ <<m, n>>[2] = n
  OBVIOUS
<1> DEFINE s == <<m, n>>
<1>2. s \in Seq(GateMsgs) /\ Len(s) = 2 /\ s[1] = m /\ s[2] = n
  BY <1>1
<1> HIDE DEF s, Hear
<1>3. PICK w \in [0 .. Len(s) -> Tells(t0)] :
        /\ w[0] = w0 /\ ConsumeMessages(w0, s, bad) = w[Len(s)]
        /\ \A i \in 1 .. Len(s) : w[i] = Hear(w[i - 1], s[i])
  <2>1. ConsumedOneByOne(t0, w0, s, bad)
    BY <1>2, MessagesConsumed
  <2> QED BY <2>1, Zenon DEF ConsumedOneByOne, Hear
<1>4. w[1] = Hear(w[0], s[1]) /\ w[2] = Hear(w[1], s[2])
  <2>1. 1 \in 1 .. Len(s) /\ 1 - 1 = 0 /\ 2 \in 1 .. Len(s) /\ 2 - 1 = 1
    BY <1>2
  <2> QED BY <1>3, <2>1
<1> QED BY <1>2, <1>3, <1>4 DEF s, Hear

\* The truck's own step after the messages: it sets out or arrives, with one visit announced.
Nothing == [f \in Facilities |-> <<>>]
OneVisit(v, o) == [Nothing EXCEPT ![Visit(v, o)] = <<v>>]
Moving == {"assigned", "repositioning_to_pickup", "loaded_in_transit"}
QueuedFor(v) == IF v = "pickup" THEN "queued_for_pickup" ELSE "queued_for_dropoff"
AtGateOf(v) == IF v = "pickup" THEN "at_pickup_gate" ELSE "at_dropoff_gate"
Ahead(s) == IF s = "loaded_in_transit" THEN "dropoff" ELSE "pickup"

LEMMA WorkflowOutcome ==
  ASSUME NEW t0 \in {NoTrip} \cup Trips, NEW w \in Tells(t0), w.visits = Nothing,
         NEW there \in BOOLEAN, NEW bad
  PROVE  LET p == PerformWorkflowActions(w, there, bad)
         IN /\ p \in Tells(t0)
            /\ w.trip.st \notin Moving => p = w
            /\ w.trip.st \in Moving =>
                 \/ p = w /\ bad # "none"
                 \/ /\ p.visits = Nothing /\ w.trip.st = "assigned"
                    /\ p.trip.st = "repositioning_to_pickup"
                 \/ /\ p.visits = OneVisit(Ahead(w.trip.st), w.trip.ord)
                    /\ p.trip.st = QueuedFor(Ahead(w.trip.st)) /\ w.trip \in Trips
<1> DEFINE p == PerformWorkflowActions(w, there, bad)
           st == w.trip.st
<1>1. w \in Spoken
  BY DEF Tells
<1>2. ASSUME st \notin Moving PROVE p = w
  <2>1. st # "assigned" /\ st \notin DOMAIN OnStateMoving
    BY <1>2 DEF OnStateMoving, Moving
  <2> QED BY <2>1, Zenon DEF PerformWorkflowActions
<1>3. ASSUME st \in Moving
      PROVE  \E t \in {"start_empty_reposition", "arrive_pickup_queue", "arrive_dropoff_queue"} :
               /\ p = ApplyTripTransitionAndNotify(w, t, bad)
               /\ \/ t = "start_empty_reposition" /\ Leads(t, st, "repositioning_to_pickup")
                     /\ st = "assigned"
                  \/ t = "arrive_pickup_queue" /\ Leads(t, st, QueuedFor(Ahead(st))) /\ Ahead(st) = "pickup"
                  \/ t = "arrive_dropoff_queue" /\ Leads(t, st, QueuedFor(Ahead(st))) /\ Ahead(st) = "dropoff"
  <2>1. CASE st = "assigned"
    <3>1. p = ApplyTripTransitionAndNotify(w, OnStateAssigned(there), bad)
      BY <2>1, Zenon DEF PerformWorkflowActions
    <3>2. OnStateAssigned(there) \in {"arrive_pickup_queue", "start_empty_reposition"}
      BY DEF OnStateAssigned
    <3> HIDE DEF p
    <3> QED BY <2>1, <3>1, <3>2 DEF Leads, QueuedFor, Ahead
  <2>2. CASE st # "assigned"
    <3>1. st \in DOMAIN OnStateMoving
      BY <1>3, <2>2 DEF OnStateMoving, Moving
    <3>2. p = ApplyTripTransitionAndNotify(w, OnStateMoving[st], bad)
      BY <2>2, <3>1, Zenon DEF PerformWorkflowActions
    <3> HIDE DEF p
    <3>3. \/ st = "repositioning_to_pickup" /\ OnStateMoving[st] = "arrive_pickup_queue"
          \/ st = "loaded_in_transit" /\ OnStateMoving[st] = "arrive_dropoff_queue"
      BY <1>3, <2>2 DEF Moving, OnStateMoving
    <3> QED BY <3>2, <3>3 DEF Leads, QueuedFor, Ahead
  <2> QED BY <2>1, <2>2
<1>4. ASSUME st \in Moving
      PROVE  /\ p \in Tells(t0)
             /\ \/ p = w /\ bad # "none"
                \/ /\ p.visits = Nothing /\ st = "assigned"
                   /\ p.trip.st = "repositioning_to_pickup"
                \/ /\ p.visits = OneVisit(Ahead(st), w.trip.ord)
                   /\ p.trip.st = QueuedFor(Ahead(st)) /\ w.trip \in Trips
  <2> HIDE DEF p
  <2>1. PICK t \in {"start_empty_reposition", "arrive_pickup_queue", "arrive_dropoff_queue"} :
               /\ p = ApplyTripTransitionAndNotify(w, t, bad)
               /\ \/ t = "start_empty_reposition" /\ Leads(t, st, "repositioning_to_pickup")
                     /\ st = "assigned"
                  \/ t = "arrive_pickup_queue" /\ Leads(t, st, QueuedFor(Ahead(st))) /\ Ahead(st) = "pickup"
                  \/ t = "arrive_dropoff_queue" /\ Leads(t, st, QueuedFor(Ahead(st))) /\ Ahead(st) = "dropoff"
    BY <1>3, <1>4
  <2>2. p \in Tells(t0)
    BY <2>1, PatchTells
  <2>3. CASE t = bad
    <3>1. p = w
      BY <2>1, <2>3, PatchRefused
    <3> QED BY <2>1, <2>2, <2>3, <3>1
  <2>4. CASE t # bad /\ t = "start_empty_reposition"
    <3>1. p = Patched(w, t, "repositioning_to_pickup") /\ st = "assigned"
      BY <1>1, <2>1, <2>4, PatchFires
    <3>2. t \notin DOMAIN GateEvents
      BY <2>4 DEF GateEvents
    <3>3. p.visits = Nothing /\ p.trip.st = "repositioning_to_pickup"
      BY <3>1, <3>2, Zenon DEF Patched
    <3> QED BY <2>2, <3>1, <3>3
  <2>5. CASE t # bad /\ t # "start_empty_reposition"
    <3>1. p = Patched(w, t, QueuedFor(Ahead(st))) /\ w.trip \in Trips
      BY <1>1, <2>1, <2>5, PatchFires
    <3>2. t \in DOMAIN GateEvents /\ GateEvents[t] = Ahead(st)
      BY <2>1, <2>5 DEF GateEvents
    <3>3. p.visits = [Nothing EXCEPT ![Visit(Ahead(st), w.trip.ord)] = Append(@, Ahead(st))]
          /\ p.trip.st = QueuedFor(Ahead(st))
      BY <3>1, <3>2, Zenon DEF Patched
    <3>4. Visit(Ahead(st), w.trip.ord) \in Facilities
      BY <3>1, HaulageConstants DEF Visit, Trips
    <3>5. [Nothing EXCEPT ![Visit(Ahead(st), w.trip.ord)] = Append(@, Ahead(st))] = OneVisit(Ahead(st), w.trip.ord)
      BY <3>4 DEF Nothing, OneVisit
    <3> QED BY <2>2, <3>1, <3>3, <3>5
  <2> QED BY <2>3, <2>4, <2>5
<1> HIDE DEF p
<1>5. p \in Tells(t0)
  BY <1>2, <1>4
<1> QED
  BY <1>2, <1>4, <1>5 DEF p

\* One gate message: the truck enters or leaves the gate, or the PATCH is refused.
AfterGate(v) == IF v = "pickup" THEN "loaded_in_transit" ELSE "completed"
LEMMA GateMessageHeard ==
  ASSUME NEW t0 \in {NoTrip} \cup Trips, NEW w \in Tells(t0), w.visits = Nothing,
         NEW v \in Kinds, NEW bad
  PROVE  /\ Slot[v] \in GateMsgs /\ DoneMsg[v] \in GateMsgs
         /\ LET x == ApplyTripTransitionAndNotify(w, OnGateMessage[Slot[v]], bad)
            IN /\ x \in Tells(t0) /\ x.visits = Nothing
               /\ w.trip.st = QueuedFor(v) => (x = w /\ bad # "none") \/ x.trip.st = AtGateOf(v)
         /\ LET x == ApplyTripTransitionAndNotify(w, OnGateMessage[DoneMsg[v]], bad)
            IN /\ x \in Tells(t0) /\ x.visits = Nothing
               /\ w.trip.st = AtGateOf(v) => (x = w /\ bad # "none") \/ x.trip.st = AfterGate(v)
               /\ w.trip.st = QueuedFor(v) => x = w
<1> DEFINE enter == OnGateMessage[Slot[v]]
           finish == OnGateMessage[DoneMsg[v]]
<1>1. w \in Spoken
  BY DEF Tells
<1>2. Slot[v] \in GateMsgs /\ DoneMsg[v] \in GateMsgs
  BY DEF Slot, DoneMsg, GateMsgs, Kinds
<1>3. /\ enter # "cancel" /\ finish # "cancel" /\ enter # "none" /\ finish # "none"
      /\ enter \notin DOMAIN GateEvents /\ finish \notin DOMAIN GateEvents
      /\ Leads(enter, QueuedFor(v), AtGateOf(v)) /\ Leads(finish, AtGateOf(v), AfterGate(v))
      /\ \A s2 : ~Leads(finish, QueuedFor(v), s2)
  BY DEF Kinds, OnGateMessage, Slot, DoneMsg, GateEvents, Leads, QueuedFor, AtGateOf, AfterGate
<1> HIDE DEF enter, finish
<1>4. ASSUME NEW t, t # "cancel", t \notin DOMAIN GateEvents
      PROVE  /\ ApplyTripTransitionAndNotify(w, t, bad) \in Tells(t0)
             /\ ApplyTripTransitionAndNotify(w, t, bad).visits = Nothing
             /\ t = bad => ApplyTripTransitionAndNotify(w, t, bad) = w
             /\ \A s2 : t # bad /\ Leads(t, w.trip.st, s2) =>
                          ApplyTripTransitionAndNotify(w, t, bad).trip.st = s2
  <2>1. ApplyTripTransitionAndNotify(w, t, bad) \in Tells(t0)
    BY <1>4, PatchTells
  <2>2. t = bad \/ (\A s2 : ~Leads(t, w.trip.st, s2)) => ApplyTripTransitionAndNotify(w, t, bad) = w
    BY PatchRefused
  <2>3. ASSUME NEW s2, t # bad, Leads(t, w.trip.st, s2)
        PROVE  /\ ApplyTripTransitionAndNotify(w, t, bad).visits = Nothing
               /\ ApplyTripTransitionAndNotify(w, t, bad).trip.st = s2
    <3>1. ApplyTripTransitionAndNotify(w, t, bad) = Patched(w, t, s2)
      BY <1>1, <2>3, PatchFires
    <3>2. Patched(w, t, s2).visits = w.visits /\ Patched(w, t, s2).trip.st = s2
      BY <1>4, Zenon DEF Patched
    <3> QED BY <3>1, <3>2
  <2> QED BY <2>1, <2>2, <2>3
<1>5. LET x == ApplyTripTransitionAndNotify(w, enter, bad)
      IN /\ x \in Tells(t0) /\ x.visits = Nothing
         /\ w.trip.st = QueuedFor(v) => (x = w /\ bad # "none") \/ x.trip.st = AtGateOf(v)
  BY <1>3, <1>4
<1>6. LET x == ApplyTripTransitionAndNotify(w, finish, bad)
      IN /\ x \in Tells(t0) /\ x.visits = Nothing
         /\ w.trip.st = AtGateOf(v) => (x = w /\ bad # "none") \/ x.trip.st = AfterGate(v)
         /\ w.trip.st = QueuedFor(v) => x = w
  <2>1. w.trip.st = QueuedFor(v) => ApplyTripTransitionAndNotify(w, finish, bad) = w
    BY <1>3, PatchRefused
  <2> QED BY <1>3, <1>4, <2>1
<1> QED
  BY <1>2, <1>5, <1>6 DEF enter, finish

\* What a step of a truck does to its trip and what it announces, by the messages it finds.
Outcome(t0, ms, there, bad) ==
  PerformWorkflowActions(ConsumeMessages(Unsaid(t0), ms, bad), there, bad)

LEMMA OutcomeTells ==
  ASSUME NEW t0 \in {NoTrip} \cup Trips, NEW ms \in Seq(GateMsgs), NEW there \in BOOLEAN, NEW bad
  PROVE  Outcome(t0, ms, there, bad) \in Tells(t0)
<1> DEFINE c == ConsumeMessages(Unsaid(t0), ms, bad)
<1>1. c \in Tells(t0)
  <2>1. ConsumedOneByOne(t0, Unsaid(t0), ms, bad)
    BY UnsaidTells, MessagesConsumed
  <2>2. PICK w \in [0 .. Len(ms) -> Tells(t0)] : c = w[Len(ms)]
    BY <2>1, Zenon DEF ConsumedOneByOne
  <2>3. Len(ms) \in 0 .. Len(ms)
    OBVIOUS
  <2> HIDE DEF c
  <2> QED BY <2>2, <2>3
<1> HIDE DEF c
<1>2. OnStateAssigned(there) # "cancel" /\ \A s \in DOMAIN OnStateMoving : OnStateMoving[s] # "cancel"
  BY DEF OnStateAssigned, OnStateMoving
<1>3. PerformWorkflowActions(c, there, bad) \in Tells(t0)
  <2>1. CASE c.trip.st = "assigned"
    <3>1. PerformWorkflowActions(c, there, bad) = ApplyTripTransitionAndNotify(c, OnStateAssigned(there), bad)
      BY <2>1, Zenon DEF PerformWorkflowActions
    <3> QED BY <1>1, <1>2, <3>1, PatchTells
  <2>2. CASE c.trip.st # "assigned" /\ c.trip.st \in DOMAIN OnStateMoving
    <3>1. PerformWorkflowActions(c, there, bad) = ApplyTripTransitionAndNotify(c, OnStateMoving[c.trip.st], bad)
      BY <2>2, Zenon DEF PerformWorkflowActions
    <3> QED BY <1>1, <1>2, <2>2, <3>1, PatchTells
  <2>3. CASE c.trip.st # "assigned" /\ c.trip.st \notin DOMAIN OnStateMoving
    <3>1. PerformWorkflowActions(c, there, bad) = c
      BY <2>3, Zenon DEF PerformWorkflowActions
    <3> QED BY <1>1, <3>1
  <2> QED BY <2>1, <2>2, <2>3
<1> QED BY <1>3 DEF Outcome, c

\* With no message: the truck stands still, or it moves on by itself.
LEMMA OutcomeAlone ==
  ASSUME NEW t0 \in {NoTrip} \cup Trips, NEW there \in BOOLEAN, NEW bad
  PROVE  LET p == Outcome(t0, <<>>, there, bad)
         IN /\ t0.st \notin Moving => p = Unsaid(t0)
            /\ t0.st \in Moving =>
                 \/ p = Unsaid(t0) /\ bad # "none"
                 \/ /\ p.visits = Nothing /\ t0.st = "assigned"
                    /\ p.trip.st = "repositioning_to_pickup"
                 \/ /\ p.visits = OneVisit(Ahead(t0.st), t0.ord)
                    /\ p.trip.st = QueuedFor(Ahead(t0.st))
<1>1. Unsaid(t0) \in Tells(t0) /\ Unsaid(t0).trip = t0
  BY UnsaidTells
<1>2. ConsumeMessages(Unsaid(t0), <<>>, bad) = Unsaid(t0)
  BY <1>1, FewMessages
<1>3. Unsaid(t0).visits = Nothing
  BY DEF Unsaid, Nothing
<1> QED
  BY <1>1, <1>2, <1>3, WorkflowOutcome DEF Outcome

\* With the slot of the visit it queues for: it enters the gate.
LEMMA OutcomeSlot ==
  ASSUME NEW t0 \in Trips, NEW v \in Kinds, t0.st = QueuedFor(v), NEW there \in BOOLEAN, NEW bad
  PROVE  LET p == Outcome(t0, <<Slot[v]>>, there, bad)
         IN /\ p.visits = Nothing
            /\ p.trip.st = AtGateOf(v) \/ (p.trip.st = QueuedFor(v) /\ bad # "none")
<1>1. Unsaid(t0) \in Tells(t0) /\ Unsaid(t0).trip = t0 /\ Unsaid(t0).visits = Nothing
  BY UnsaidTells DEF Unsaid, Nothing
<1> DEFINE c == ApplyTripTransitionAndNotify(Unsaid(t0), OnGateMessage[Slot[v]], bad)
<1>2. Slot[v] \in GateMsgs
  BY DEF Slot, Kinds, GateMsgs
<1>3. ConsumeMessages(Unsaid(t0), <<Slot[v]>>, bad) = c
  BY <1>1, <1>2, FewMessages
<1>4. /\ c \in Tells(t0) /\ c.visits = Nothing
      /\ c.trip.st = AtGateOf(v) \/ (c.trip.st = QueuedFor(v) /\ bad # "none")
  BY <1>1, GateMessageHeard
<1> HIDE DEF c
<1>5. c.trip.st \notin Moving
  BY <1>4 DEF AtGateOf, QueuedFor, Moving
<1>6. PerformWorkflowActions(c, there, bad) = c
  BY <1>4, <1>5, WorkflowOutcome
<1> QED
  BY <1>3, <1>4, <1>6 DEF Outcome

\* With the end of service, alone or behind the slot: it leaves the gate, and a loaded truck
\* drives on to the dropoff in the same step.
Leaves(t0, v, bad, p) ==
  \/ /\ p.visits = Nothing
     /\ p.trip.st = AfterGate(v) \/ p.trip.st \in {QueuedFor(v), AtGateOf(v)}
     /\ bad = "none" => v = "dropoff" /\ p.trip.st = "completed"
  \/ /\ v = "pickup" /\ p.visits = OneVisit("dropoff", t0.ord)
     /\ p.trip.st = QueuedFor("dropoff")
LEMMA LeavesGate ==
  ASSUME NEW t0 \in Trips, NEW v \in Kinds, NEW c \in Tells(t0), c.visits = Nothing,
         NEW there \in BOOLEAN, NEW bad,
         \/ c.trip.st = AfterGate(v)
         \/ c.trip.st \in {QueuedFor(v), AtGateOf(v)} /\ bad # "none"
  PROVE  Leaves(t0, v, bad, PerformWorkflowActions(c, there, bad))
<1> DEFINE p == PerformWorkflowActions(c, there, bad)
<1>1. CASE c.trip.st \notin Moving
  <2>1. p = c
    BY <1>1, WorkflowOutcome
  <2>2. c.trip.st = AfterGate(v) => v = "dropoff" /\ c.trip.st = "completed"
    BY <1>1 DEF AfterGate, Moving, Kinds
  <2> QED BY <2>1, <2>2 DEF Leaves
<1>2. CASE c.trip.st \in Moving
  <2>1. c.trip.st = "loaded_in_transit" /\ v = "pickup"
    BY <1>2 DEF AfterGate, Moving, Kinds, QueuedFor, AtGateOf
  <2>2. \/ p = c /\ bad # "none"
        \/ /\ p.visits = OneVisit(Ahead(c.trip.st), c.trip.ord)
           /\ p.trip.st = QueuedFor(Ahead(c.trip.st))
    BY <1>2, <2>1, WorkflowOutcome
  <2>3. c.trip.ord = t0.ord /\ Ahead(c.trip.st) = "dropoff"
    <3>1. t0 # NoTrip
      BY DEF Trips, NoTrip, TripSt, OpenTrip, Terminal
    <3> QED BY <2>1, <3>1 DEF Tells, Ahead
  <2> HIDE DEF p
  <2> QED BY <2>1, <2>2, <2>3 DEF Leaves, AfterGate, p
<1> QED BY <1>1, <1>2
LEMMA OutcomeDone ==
  ASSUME NEW t0 \in Trips, NEW v \in Kinds, NEW there \in BOOLEAN, NEW bad
  PROVE  /\ t0.st = AtGateOf(v) => Leaves(t0, v, bad, Outcome(t0, <<DoneMsg[v]>>, there, bad))
         /\ t0.st = QueuedFor(v) => Outcome(t0, <<DoneMsg[v]>>, there, bad) = Unsaid(t0)
         /\ t0.st = QueuedFor(v) =>
              Leaves(t0, v, bad, Outcome(t0, <<Slot[v], DoneMsg[v]>>, there, bad))
<1> DEFINE u == Unsaid(t0)
           Done(x) == ApplyTripTransitionAndNotify(x, OnGateMessage[DoneMsg[v]], bad)
           Enter(x) == ApplyTripTransitionAndNotify(x, OnGateMessage[Slot[v]], bad)
<1>0. t0 \in {NoTrip} \cup Trips
  OBVIOUS
<1>1. u \in Tells(t0) /\ u.trip = t0 /\ u.visits = Nothing
  BY UnsaidTells DEF Unsaid, Nothing
<1>2. Slot[v] \in GateMsgs /\ DoneMsg[v] \in GateMsgs
  BY DEF Slot, DoneMsg, Kinds, GateMsgs
<1>3. /\ ConsumeMessages(u, <<DoneMsg[v]>>, bad) = Done(u)
      /\ ConsumeMessages(u, <<Slot[v], DoneMsg[v]>>, bad) = Done(Enter(u))
  <2>1. PICK m \in GateMsgs : m = Slot[v]
    BY <1>2
  <2>2. PICK n \in GateMsgs : n = DoneMsg[v]
    BY <1>2
  <2> HIDE DEF u
  <2>3. ConsumeMessages(u, <<n>>, bad) = ApplyTripTransitionAndNotify(u, OnGateMessage[n], bad)
    BY <1>1, FewMessages
  <2>4. ConsumeMessages(u, <<m, n>>, bad)
          = ApplyTripTransitionAndNotify(ApplyTripTransitionAndNotify(u, OnGateMessage[m], bad),
                                         OnGateMessage[n], bad)
    BY <1>0, <1>1, TwoMessages
  <2> QED BY <2>1, <2>2, <2>3, <2>4
<1>4. \A x \in Tells(t0) : x.visits = Nothing =>
        /\ Done(x) \in Tells(t0) /\ Done(x).visits = Nothing
        /\ x.trip.st = AtGateOf(v) => (Done(x) = x /\ bad # "none") \/ Done(x).trip.st = AfterGate(v)
        /\ x.trip.st = QueuedFor(v) => Done(x) = x
        /\ Enter(x) \in Tells(t0) /\ Enter(x).visits = Nothing
        /\ x.trip.st = QueuedFor(v) => (Enter(x) = x /\ bad # "none") \/ Enter(x).trip.st = AtGateOf(v)
  BY GateMessageHeard
<1> HIDE DEF u, Done, Enter
<1>5. ASSUME t0.st = AtGateOf(v)
      PROVE  Leaves(t0, v, bad, Outcome(t0, <<DoneMsg[v]>>, there, bad))
  BY <1>1, <1>3, <1>4, <1>5, LeavesGate DEF Outcome, u
<1>6. ASSUME t0.st = QueuedFor(v)
      PROVE  Outcome(t0, <<DoneMsg[v]>>, there, bad) = Unsaid(t0)
  <2>1. Done(u) = u /\ u.trip.st \notin Moving
    BY <1>1, <1>4, <1>6 DEF QueuedFor, Moving
  <2>2. PerformWorkflowActions(u, there, bad) = u
    BY <1>1, <2>1, WorkflowOutcome
  <2> QED BY <1>3, <2>1, <2>2 DEF Outcome, u
<1>7. ASSUME t0.st = QueuedFor(v)
      PROVE  Leaves(t0, v, bad, Outcome(t0, <<Slot[v], DoneMsg[v]>>, there, bad))
  <2>1. /\ Enter(u) \in Tells(t0) /\ Enter(u).visits = Nothing
        /\ (Enter(u) = u /\ bad # "none") \/ Enter(u).trip.st = AtGateOf(v)
    BY <1>1, <1>4, <1>7
  <2>2. /\ Done(Enter(u)) \in Tells(t0) /\ Done(Enter(u)).visits = Nothing
        /\ \/ Done(Enter(u)).trip.st = AfterGate(v)
           \/ Done(Enter(u)).trip.st \in {QueuedFor(v), AtGateOf(v)} /\ bad # "none"
    BY <1>1, <1>4, <1>7, <2>1
  <2>3. Leaves(t0, v, bad, PerformWorkflowActions(Done(Enter(u)), there, bad))
    BY <2>2, LeavesGate
  <2> QED BY <1>3, <2>3 DEF Outcome, u
<1> QED BY <1>5, <1>6, <1>7

-----------------------------------------------------------------------------
(* The facility and its gates.                                             *)

Visits == [truck : Trucks, visit : Kinds]
Fronts == [queue : Seq(Visits), gate : [Gates -> Visits \cup {Free}]]

\* An allocation: the first of the line, one each, take gates that were free, and those only.
Allocated(fac, r) ==
  \E n \in 0 .. Len(fac.queue) : \E c \in [1 .. n -> Gates] :
    /\ \A i, j \in 1 .. n : c[i] = c[j] => i = j
    /\ \A g : g \in r.given <=> \E i \in 1 .. n : c[i] = g
    /\ \A i \in 1 .. n : fac.gate[c[i]] = Free /\ r.gate[c[i]] = fac.queue[i]
    /\ \A g \in Gates \ r.given : r.gate[g] = fac.gate[g]
    /\ r.queue = SubSeq(fac.queue, n + 1, Len(fac.queue))

\* What is left of a line when the first n went.
LEMMA RestOfLine ==
  ASSUME NEW S, NEW s \in Seq(S), NEW n \in 0 .. Len(s)
  PROVE  LET r == SubSeq(s, n + 1, Len(s))
         IN r \in Seq(S) /\ Len(r) = Len(s) - n /\ \A i \in 1 .. Len(r) : r[i] = s[n + i]
<1>1. PICK l \in Nat : l = Len(s) /\ n \in 0 .. l
  OBVIOUS
<1>2. \A i \in (n + 1) .. l : s[i] \in S
  BY <1>1
<1>3. /\ SubSeq(s, n + 1, l) \in Seq(S)
      /\ Len(SubSeq(s, n + 1, l)) = IF n + 1 <= l THEN l - (n + 1) + 1 ELSE 0
      /\ \A i \in 1 .. l - (n + 1) + 1 : SubSeq(s, n + 1, l)[i] = s[n + 1 + i - 1]
  <2>1. n + 1 \in Int /\ l \in Int
    BY <1>1
  <2> QED BY <1>2, <2>1, SubSeqProperties
<1>4. Len(SubSeq(s, n + 1, l)) = l - n
  BY <1>1, <1>3
<1>5. ASSUME NEW i \in 1 .. l - n PROVE SubSeq(s, n + 1, l)[i] = s[n + i]
  BY <1>1, <1>3, <1>5
<1> QED BY <1>1, <1>3, <1>4, <1>5

LEMMA GatesAllocated ==
  ASSUME NEW fac \in Fronts
  PROVE  LET r == AssignAvailableGates(fac)
         IN /\ r.queue \in Seq(Visits) /\ r.gate \in [Gates -> Visits \cup {Free}]
            /\ r.given \in SUBSET Gates
            /\ Allocated(fac, r)
            /\ r = [queue |-> r.queue, gate |-> r.gate, given |-> r.given]
<1> DEFINE r == AssignAvailableGates(fac)
           fs == {g \in Gates : fac.gate[g] = Free}
           q == fac.queue
           free == FreeGates(fac)
           n == IF Len(free) < Len(q) THEN Len(free) ELSE Len(q)
           given == [i \in 1 .. n |-> free[i]]
<1>1. PICK l \in Nat : l = Cardinality(fs)
  BY GatesInOrder
<1>2. /\ free \in [1 .. l -> fs]
      /\ \A i, j \in 1 .. l : i < j => free[i] < free[j]
  BY <1>1, GatesInOrder DEF FreeGates
<1>3. Len(free) = l
  BY <1>1, <1>2
<1>4. q \in Seq(Visits) /\ Len(q) \in Nat
  BY DEF Fronts
<1> HIDE DEF free, q
<1>5. n \in 0 .. Len(q) /\ n <= l
  BY <1>1, <1>3, <1>4
<1>6. r = [queue |-> SubSeq(q, n + 1, Len(q)),
           gate |-> [g \in Gates |->
                  IF \E i \in 1..n : given[i] = g
                  THEN q[CHOOSE i \in 1..n : given[i] = g] ELSE fac.gate[g]],
           given |-> Range(given)]
  BY DEF AssignAvailableGates, free, q
<1> HIDE DEF n, r
<1>7. /\ given \in [1 .. n -> Gates]
      /\ \A i \in 1 .. n : fac.gate[given[i]] = Free
  <2>1. \A i \in 1 .. n : i \in 1 .. l
    BY <1>1, <1>5
  <2>2. \A i \in 1 .. n : free[i] \in fs
    BY <1>2, <2>1
  <2> QED BY <2>2
<1>8. \A i, j \in 1 .. n : given[i] = given[j] => i = j
  <2> SUFFICES ASSUME NEW i \in 1 .. n, NEW j \in 1 .. n, given[i] = given[j] PROVE i = j
    OBVIOUS
  <2>1. i \in 1 .. l /\ j \in 1 .. l /\ free[i] = free[j]
    BY <1>1, <1>5
  <2>2. free[i] \in Nat
    BY <1>2, <2>1, HaulageConstants
  <2>3. ~(i < j) /\ ~(j < i)
    BY <1>2, <2>1, <2>2
  <2> QED BY <1>5, <2>3
<1>9. r.given = {given[i] : i \in 1 .. n}
  BY <1>6 DEF Range
<1> HIDE DEF given
<1>10. \A i \in 1 .. n : r.gate[given[i]] = q[i]
  <2> TAKE i \in 1 .. n
  <2>1. given[i] \in Gates /\ \E j \in 1 .. n : given[j] = given[i]
    BY <1>7
  <2>2. (CHOOSE j \in 1 .. n : given[j] = given[i]) = i
    BY <1>8
  <2> QED BY <1>6, <2>1, <2>2
<1>11. \A g \in Gates \ r.given : r.gate[g] = fac.gate[g]
  BY <1>6, <1>9
<1>12. r.given \in SUBSET Gates /\ \A g : g \in r.given <=> \E i \in 1 .. n : given[i] = g
  BY <1>7, <1>9
<1>13. r.queue = SubSeq(q, n + 1, Len(q)) /\ r.queue \in Seq(Visits)
  <2>1. r.queue = SubSeq(q, n + 1, Len(q))
    BY <1>6
  <2> QED BY <1>4, <1>5, <2>1, RestOfLine
<1>14. r.gate \in [Gates -> Visits \cup {Free}]
  <2>1. r.gate = [g \in Gates |-> r.gate[g]]
    BY <1>6
  <2>2. ASSUME NEW g \in Gates PROVE r.gate[g] \in Visits \cup {Free}
    <3>1. CASE g \in r.given
      <4>1. PICK i \in 1 .. n : given[i] = g
        BY <1>12, <3>1
      <4>2. q[i] \in Visits
        BY <1>4, <1>5
      <4> QED BY <1>10, <4>1, <4>2
    <3>2. CASE g \notin r.given
      BY <1>11, <3>2 DEF Fronts
    <3> QED BY <3>1, <3>2
  <2> QED BY <2>1, <2>2
<1> DEFINE Takes(m, c) ==
             /\ \A i, j \in 1 .. m : c[i] = c[j] => i = j
             /\ \A g : g \in r.given <=> \E i \in 1 .. m : c[i] = g
             /\ \A i \in 1 .. m : fac.gate[c[i]] = Free /\ r.gate[c[i]] = fac.queue[i]
             /\ \A g \in Gates \ r.given : r.gate[g] = fac.gate[g]
             /\ r.queue = SubSeq(fac.queue, m + 1, Len(fac.queue))
<1>15. Allocated(fac, r)
  <2>1. /\ r.given \subseteq Gates
        /\ \A i \in 1 .. n : fac.gate[given[i]] = Free /\ r.gate[given[i]] = q[i]
    BY <1>7, <1>10, <1>12
  <2>2. n \in 0 .. Len(q) /\ given \in [1 .. n -> Gates]
    BY <1>5, <1>7
  <2>3. Takes(n, given)
    BY <1>8, <1>11, <1>12, <1>13, <2>1, Zenon DEF Takes, q
  <2> QED BY <2>2, <2>3, Zenon DEF Allocated, Takes, q
<1>16. r = [queue |-> r.queue, gate |-> r.gate, given |-> r.given]
  BY <1>6
<1> QED BY <1>12, <1>13, <1>14, <1>15, <1>16 DEF r

\* The messages to a truck: one for each of its gates, of the visit the gate serves.
LEMMA NoticesType ==
  ASSUME NEW k \in Trucks, NEW at \in [Gates -> Visits \cup {Free}], NEW gs \in SUBSET Gates,
         NEW msg \in {Slot, DoneMsg}
  PROVE  /\ Notices(k, at, gs, msg) \in Seq(GateMsgs)
         /\ (\A g \in gs : at[g].truck # k) => Notices(k, at, gs, msg) = <<>>
         /\ \A g \in gs : at[g].truck = k /\ (\A h \in gs : at[h].truck = k => h = g) =>
              Notices(k, at, gs, msg) = <<msg[at[g].visit]>>
<1> DEFINE mine == {g \in gs : at[g].truck = k}
<1>1. PICK l \in Nat : l = Cardinality(mine)
  BY GatesInOrder
<1>2. InOrder(mine) \in [1 .. l -> mine]
  BY <1>1, GatesInOrder
<1> DEFINE s == [i \in 1 .. l |-> msg[at[InOrder(mine)[i]].visit]]
<1>3. Notices(k, at, gs, msg) = s
  BY <1>1 DEF Notices
<1>4. \A g \in mine : at[g] \in Visits
  <2> TAKE g \in mine
  <2>1. g \in Gates /\ at[g].truck = k
    OBVIOUS
  <2>2. at[g] # Free
    BY <2>1, HaulageConstants DEF Free
  <2> QED BY <2>1, <2>2
<1>5. \A m \in Kinds : msg[m] \in GateMsgs
  BY DEF Slot, DoneMsg, Kinds, GateMsgs
<1>6. s \in Seq(GateMsgs)
  <2>1. \A i \in 1 .. l : s[i] \in GateMsgs
    BY <1>1, <1>2, <1>4, <1>5 DEF Visits
  <2> QED BY <1>1, <2>1
<1>7. (\A g \in gs : at[g].truck # k) => s = <<>>
  <2> HAVE \A g \in gs : at[g].truck # k
  <2>1. mine = {}
    OBVIOUS
  <2>2. l = 0
    BY <1>1, <2>1, FS_EmptySet
  <2> QED BY <2>2
<1>8. ASSUME NEW g \in gs, at[g].truck = k, \A h \in gs : at[h].truck = k => h = g
      PROVE  s = <<msg[at[g].visit]>>
  <2>1. mine = {g}
    BY <1>8
  <2>2. l = 1
    BY <1>1, <2>1, FS_Singleton
  <2>3. InOrder(mine)[1] = g
    BY <1>2, <2>1, <2>2
  <2> QED BY <2>2, <2>3
<1> QED BY <1>3, <1>6, <1>7, <1>8

-----------------------------------------------------------------------------
(* The types of the state.                                                 *)

TruckTypes ==
  /\ trip \in [Trucks -> {NoTrip} \cup Trips] /\ online \in SUBSET Trucks
  /\ offer \in [Trucks -> Seq(Orders)] /\ tq \in [Trucks -> Seq(GateMsgs)]
  /\ hauls \in [Orders -> Nat] /\ delivered \in SUBSET Orders
GateTypes ==
  /\ fq \in [Facilities -> Seq(Visits)] /\ queue \in [Facilities -> Seq(Visits)]
  /\ gate \in [Facilities -> [Gates -> Visits \cup {Free}]]
  /\ ends \in [Facilities -> SUBSET Gates]
OrderTypes == doc \in [Orders -> Docs] /\ mail \in [Orders -> Seq(OrderNews)]
RunTypes ==
  /\ scene \in Scenes /\ stage \in {"run", "horizon", "closing", "ended"}
  /\ failed \in BOOLEAN /\ drained \in BOOLEAN
  /\ round \in {NoRound} \cup [ph : {"read"}, trucks : SUBSET Trucks, orders : SUBSET Orders]
TypeInv == TruckTypes /\ GateTypes /\ OrderTypes /\ RunTypes

\* What a truck publishes keeps the types, and touches its own trip and its own order only.
LEMMA PublishedFacts ==
  ASSUME TypeInv, NEW k \in Trucks, NEW w \in Spoken, w.trip = NoTrip => w.orders = <<>>,
         Published(k, w)
  PROVE  /\ trip' \in [Trucks -> {NoTrip} \cup Trips]
         /\ trip'[k] = w.trip /\ \A j \in Trucks : j # k => trip'[j] = trip[j]
         /\ mail' \in [Orders -> Seq(OrderNews)]
         /\ \A o \in Orders : mail'[o] = IF w.trip # NoTrip /\ w.trip.ord = o
                                         THEN mail[o] \o w.orders ELSE mail[o]
         /\ fq' \in [Facilities -> Seq(Visits)]
         /\ delivered' \in SUBSET Orders
         /\ \A o \in delivered' : o \in delivered \/ (/\ w.trip # NoTrip /\ w.trip.ord = o
                                                      /\ "completed" \in Range(w.orders))
<1>1. trip' = [trip EXCEPT ![k] = w.trip] /\ trip \in [Trucks -> {NoTrip} \cup Trips]
      /\ w.trip \in {NoTrip} \cup Trips /\ w.orders \in Seq(OrderNews)
  BY DEF Published, TypeInv, TruckTypes, Spoken
<1>2. /\ trip' \in [Trucks -> {NoTrip} \cup Trips]
      /\ trip'[k] = w.trip /\ \A j \in Trucks : j # k => trip'[j] = trip[j]
  BY <1>1
<1>3. mail \in [Orders -> Seq(OrderNews)] /\ delivered \in SUBSET Orders
      /\ fq \in [Facilities -> Seq(Visits)]
  BY DEF TypeInv, OrderTypes, TruckTypes, GateTypes
<1>4. \A o \in Orders : mail[o] \o w.orders \in Seq(OrderNews)
  BY <1>1, <1>3
<1>5. w.trip # NoTrip => w.trip.ord \in Orders
  BY <1>1 DEF Trips
<1>6. mail' = IF w.trip = NoTrip THEN mail ELSE [mail EXCEPT ![w.trip.ord] = @ \o w.orders]
  BY DEF Published
<1>7. /\ mail' \in [Orders -> Seq(OrderNews)]
      /\ \A o \in Orders : mail'[o] = IF w.trip # NoTrip /\ w.trip.ord = o
                                      THEN mail[o] \o w.orders ELSE mail[o]
  BY <1>3, <1>4, <1>5, <1>6
<1>8. fq' \in [Facilities -> Seq(Visits)]
  <2> SUFFICES ASSUME NEW f \in Facilities
      PROVE fq[f] \o [i \in 1..Len(w.visits[f]) |-> [truck |-> k, visit |-> w.visits[f][i]]]
              \in Seq(Visits)
    BY DEF Published
  <2>1. w.visits[f] \in Seq(Kinds) /\ fq[f] \in Seq(Visits)
    BY <1>3 DEF Spoken
  <2>2. PICK n \in Nat : n = Len(w.visits[f])
    BY <2>1
  <2>3. [i \in 1..n |-> [truck |-> k, visit |-> w.visits[f][i]]] \in Seq(Visits)
    BY <2>1, <2>2 DEF Visits
  <2> QED BY <2>1, <2>2, <2>3
<1>9. "completed" \in Range(w.orders) => w.trip # NoTrip
  BY DEF Range
<1>10. delivered' = IF "completed" \in Range(w.orders)
                    THEN delivered \cup {w.trip.ord} ELSE delivered
  BY DEF Published
<1>11. /\ delivered' \in SUBSET Orders
       /\ \A o \in delivered' : o \in delivered \/ (/\ w.trip # NoTrip /\ w.trip.ord = o
                                                      /\ "completed" \in Range(w.orders))
  BY <1>3, <1>5, <1>9, <1>10
<1> QED BY <1>2, <1>7, <1>8, <1>11

\* What a truck holds at the start of its step, and what it has said by its end.
LEMMA HeldType ==
  ASSUME TypeInv, NEW k \in Trucks
  PROVE  Held(k) \in {NoTrip} \cup Trips /\ trip[k] \in {NoTrip} \cup Trips
  BY DEF TypeInv, TruckTypes, Held
LEMMA TellsFacts ==
  ASSUME NEW t0 \in {NoTrip} \cup Trips, NEW w \in Tells(t0)
  PROVE  /\ w \in Spoken /\ (w.trip = NoTrip => w.orders = <<>>)
         /\ \A i \in 1 .. Len(w.orders) : w.orders[i] # "cancelled"
  BY DEF Tells, Unsaid, Trips, NoTrip, TripSt, OpenTrip, Terminal
LEMMA StepTells ==
  ASSUME TypeInv, NEW k \in Trucks, NEW there \in BOOLEAN, NEW bad
  PROVE  Outcome(Held(k), tq[k], there, bad) \in Tells(Held(k))
<1>1. tq[k] \in Seq(GateMsgs)
  BY DEF TypeInv, TruckTypes
<1> QED BY <1>1, HeldType, OutcomeTells

\* The trip of an accepted assignment, posted and PATCHed to assigned.
LEMMA AssignTells ==
  ASSUME NEW o \in Orders, NEW bad
  PROVE  LET t0 == [st |-> "created", ord |-> o]
             w == ApplyTripTransitionAndNotify(NewTrip(o), "assign", bad)
         IN /\ t0 \in Trips /\ w \in Tells(t0) /\ w.visits = Nothing
            /\ \/ w.trip = t0 /\ w.orders = <<>> /\ bad = "assign"
               \/ w.trip = [st |-> "assigned", ord |-> o] /\ w.orders = <<"assigned">>
<1> DEFINE t0 == [st |-> "created", ord |-> o]
           w == ApplyTripTransitionAndNotify(NewTrip(o), "assign", bad)
<1>1. t0 \in Trips
  BY DEF Trips, TripSt, OpenTrip
<1>2. /\ NewTrip(o) = Unsaid(t0) /\ NewTrip(o) \in Tells(t0) /\ NewTrip(o) \in Spoken
      /\ NewTrip(o).trip = t0 /\ NewTrip(o).orders = <<>> /\ NewTrip(o).visits = Nothing
  BY <1>1, UnsaidTells DEF NewTrip, Unsaid, Nothing
<1>3. w \in Tells(t0)
  BY <1>1, <1>2, PatchTells
<1>4. CASE bad = "assign"
  <2>1. w = NewTrip(o)
    BY <1>4, PatchRefused
  <2> QED BY <1>1, <1>2, <1>3, <1>4, <2>1
<1>5. CASE bad # "assign"
  <2>1. Leads("assign", NewTrip(o).trip.st, "assigned")
    BY <1>2 DEF Leads
  <2>2. w = Patched(NewTrip(o), "assign", "assigned")
    BY <1>2, <1>5, <2>1, PatchFires
  <2>3. "assign" \in DOMAIN OrderEvents /\ "assign" \notin DOMAIN GateEvents
        /\ OrderEvents["assign"] = "assigned"
    BY DEF OrderEvents, GateEvents
  <2>4. w.trip = [st |-> "assigned", ord |-> o] /\ w.orders = <<"assigned">> /\ w.visits = Nothing
    BY <1>2, <2>2, <2>3 DEF Patched
  <2> QED BY <1>1, <1>3, <2>4
<1> QED BY <1>4, <1>5

\* close of a truck cancels the open trip, and tells the order so.
LEMMA CloseTells ==
  ASSUME NEW t0 \in {NoTrip} \cup Trips
  PROVE  LET w == ApplyTripTransitionAndNotify(Unsaid(t0), "cancel", "none")
         IN /\ w \in Spoken /\ (w.trip = NoTrip => w.orders = <<>>)
            /\ w.trip # NoTrip <=> t0 # NoTrip
            /\ \/ w.trip = t0 /\ w.orders = <<>> /\ (t0 = NoTrip \/ t0.st \in Terminal)
               \/ /\ t0 \in Trips /\ w.trip = [st |-> "cancelled", ord |-> t0.ord]
                  /\ w.orders = <<"cancelled">> /\ t0.st \in OpenTrip
<1> DEFINE u == Unsaid(t0)
           w == ApplyTripTransitionAndNotify(u, "cancel", "none")
<1>1. u \in Spoken /\ u.trip = t0 /\ u.orders = <<>>
  BY UnsaidTells
<1>2. CASE t0 \in Trips /\ t0.st \in OpenTrip
  <2>1. Leads("cancel", u.trip.st, "cancelled")
    BY <1>1, <1>2 DEF Leads
  <2>2. w = Patched(u, "cancel", "cancelled") /\ w \in Spoken
    <3>1. Patched(u, "cancel", "cancelled") \in Spoken
      BY <1>1, <2>1, NewsOfPatch
    <3>2. "cancel" # "none"
      OBVIOUS
    <3> HIDE DEF u
    <3>3. w = Patched(u, "cancel", "cancelled")
      BY <1>1, <2>1, <3>2, PatchFires
    <3> QED BY <3>1, <3>3
  <2>3. "cancel" \in DOMAIN OrderEvents /\ OrderEvents["cancel"] = "cancelled"
    BY DEF OrderEvents
  <2>4. w.trip = [st |-> "cancelled", ord |-> t0.ord] /\ w.orders = <<"cancelled">>
    BY <1>1, <2>2, <2>3 DEF Patched
  <2>5. t0 # NoTrip /\ w.trip # NoTrip
    <3>1. t0.st # "none" /\ w.trip.st # "none"
      BY <1>2, <2>4 DEF OpenTrip
    <3> QED BY <3>1 DEF NoTrip
  <2> QED BY <1>2, <2>2, <2>4, <2>5
<1>3. CASE t0 = NoTrip \/ t0.st \in Terminal
  <2>1. t0.st \notin OpenTrip
    BY <1>3 DEF NoTrip, OpenTrip, Terminal
  <2>2. \A s2 : ~Leads("cancel", u.trip.st, s2)
    BY <1>1, <2>1 DEF Leads
  <2>3. w = u
    BY <2>2, PatchRefused
  <2> QED BY <1>1, <1>3, <2>3
<1> QED BY <1>2, <1>3 DEF Trips, TripSt

\* The two allocations of a facility's step: after the arrivals, and after the due services.
Arrived(f) == [queue |-> queue[f] \o fq[f], gate |-> gate[f]]
First(f) == AssignAvailableGates(Arrived(f))
Freed(f, due) == [queue |-> First(f).queue,
                  gate |-> [g \in Gates |-> IF g \in due THEN Free ELSE First(f).gate[g]]]
Second(f, due) == IF due = {} THEN [First(f) EXCEPT !.given = {}]
                  ELSE AssignAvailableGates(Freed(f, due))
FacilityOutcome(f, due) ==
  /\ Acts(f) /\ due \subseteq ends[f]
  /\ queue' = [queue EXCEPT ![f] = Second(f, due).queue]
  /\ gate' = [gate EXCEPT ![f] = Second(f, due).gate]
  /\ ends' = [ends EXCEPT ![f] = ((@ \cup EndsOf(First(f).given)) \ due)
                                   \cup EndsOf(Second(f, due).given)]
  /\ tq' = [k \in Trucks |-> tq[k] \o Notices(k, First(f).gate, First(f).given, Slot)
                                   \o Notices(k, First(f).gate, due, DoneMsg)
                                   \o Notices(k, Second(f, due).gate, Second(f, due).given, Slot)]
  /\ fq' = [fq EXCEPT ![f] = <<>>]
  /\ UNCHANGED <<scene, stage, failed, truckVars, offer, round, mail, orderVars>>
LEMMA FacilityFacts ==
  ASSUME TypeInv, NEW f \in Facilities, NEW due \in SUBSET ends[f], FacilityStep(f, due)
  PROVE  /\ FacilityOutcome(f, due) /\ due \in SUBSET Gates
         /\ Arrived(f) \in Fronts /\ Freed(f, due) \in Fronts
         /\ Allocated(Arrived(f), First(f)) /\ Allocated(Freed(f, due), Second(f, due))
         /\ First(f).queue \in Seq(Visits) /\ First(f).gate \in [Gates -> Visits \cup {Free}]
         /\ First(f).given \in SUBSET Gates
         /\ Second(f, due).queue \in Seq(Visits)
         /\ Second(f, due).gate \in [Gates -> Visits \cup {Free}]
         /\ Second(f, due).given \in SUBSET Gates
<1>1. FacilityOutcome(f, due)
  BY Zenon DEF FacilityStep, FacilityOutcome, Arrived, First, Freed, Second
<1>2. due \in SUBSET Gates
  BY DEF TypeInv, GateTypes
<1>3. Arrived(f) \in Fronts
  <2>1. queue[f] \in Seq(Visits) /\ fq[f] \in Seq(Visits)
    BY DEF TypeInv, GateTypes
  <2>2. queue[f] \o fq[f] \in Seq(Visits)
    BY <2>1
  <2>3. gate[f] \in [Gates -> Visits \cup {Free}]
    BY DEF TypeInv, GateTypes
  <2> QED BY <2>2, <2>3 DEF Arrived, Fronts
<1>4. /\ First(f).queue \in Seq(Visits) /\ First(f).gate \in [Gates -> Visits \cup {Free}]
      /\ First(f).given \in SUBSET Gates /\ Allocated(Arrived(f), First(f))
      /\ First(f) = [queue |-> First(f).queue, gate |-> First(f).gate, given |-> First(f).given]
  BY <1>3, GatesAllocated, Zenon DEF First
<1>5. Freed(f, due) \in Fronts
  BY <1>4 DEF Freed, Fronts
<1>6. CASE due = {}
  <2>1. Second(f, due) = [First(f) EXCEPT !.given = {}]
    BY <1>6, Zenon DEF Second
  <2>2. /\ Second(f, due).queue = First(f).queue /\ Second(f, due).gate = First(f).gate
        /\ Second(f, due).given = {}
    BY <1>4, <2>1
  <2>3. /\ Freed(f, due).queue = First(f).queue
        /\ \A g \in Gates : Freed(f, due).gate[g] = First(f).gate[g]
    BY <1>6 DEF Freed
  <2>4. First(f).queue = SubSeq(First(f).queue, 1, Len(First(f).queue))
    BY <1>4, SubSeqFull
  <2> DEFINE c == [i \in 1 .. 0 |-> i]
  <2>5. c \in [1 .. 0 -> Gates] /\ 0 \in 0 .. Len(First(f).queue) /\ \A i \in 1 .. 0 : FALSE
        /\ 0 + 1 = 1
    BY <1>4
  <2> HIDE DEF c
  <2>6. Allocated(Freed(f, due), Second(f, due))
    <3> DEFINE Takes(n, d) ==
             /\ \A i, j \in 1 .. n : d[i] = d[j] => i = j
             /\ \A g : g \in Second(f, due).given <=> \E i \in 1 .. n : d[i] = g
             /\ \A i \in 1 .. n : Freed(f, due).gate[d[i]] = Free
                                  /\ Second(f, due).gate[d[i]] = Freed(f, due).queue[i]
             /\ \A g \in Gates \ Second(f, due).given : Second(f, due).gate[g] = Freed(f, due).gate[g]
             /\ Second(f, due).queue = SubSeq(Freed(f, due).queue, n + 1, Len(Freed(f, due).queue))
    <3>1. Takes(0, c)
      <4>1. Second(f, due).queue = SubSeq(Freed(f, due).queue, 0 + 1, Len(Freed(f, due).queue))
        BY <2>2, <2>3, <2>4
      <4>2. \A g \in Gates : Second(f, due).gate[g] = Freed(f, due).gate[g]
        BY <2>2, <2>3
      <4> QED BY <2>2, <2>5, <4>1, <4>2, Zenon DEF Takes
    <3>2. 0 \in 0 .. Len(Freed(f, due).queue)
      BY <2>3, <2>5
    <3> QED BY <2>5, <3>1, <3>2, Zenon DEF Allocated, Takes
  <2> QED BY <1>1, <1>2, <1>3, <1>4, <1>5, <2>2, <2>6
<1>7. CASE due # {}
  <2>1. Second(f, due) = AssignAvailableGates(Freed(f, due))
    BY <1>7, Zenon DEF Second
  <2> QED BY <1>1, <1>2, <1>3, <1>4, <1>5, <2>1, GatesAllocated, Zenon
<1> QED BY <1>6, <1>7

LEMMA FacilityTypes ==
  ASSUME TypeInv, NEW f \in Facilities, NEW due \in SUBSET ends[f], FacilityStep(f, due)
  PROVE  TypeInv'
<1>1. /\ First(f).gate \in [Gates -> Visits \cup {Free}]
      /\ First(f).given \in SUBSET Gates /\ due \in SUBSET Gates
      /\ Second(f, due).queue \in Seq(Visits)
      /\ Second(f, due).gate \in [Gates -> Visits \cup {Free}]
      /\ Second(f, due).given \in SUBSET Gates
  BY FacilityFacts
<1>2. FacilityOutcome(f, due)
  BY FacilityFacts
<1> HIDE DEF First, Second
<1>3. tq' \in [Trucks -> Seq(GateMsgs)]
  <2> SUFFICES ASSUME NEW k \in Trucks
      PROVE  tq[k] \o Notices(k, First(f).gate, First(f).given, Slot)
                   \o Notices(k, First(f).gate, due, DoneMsg)
                   \o Notices(k, Second(f, due).gate, Second(f, due).given, Slot) \in Seq(GateMsgs)
    BY <1>2 DEF FacilityOutcome
  <2>1. tq[k] \in Seq(GateMsgs)
    BY DEF TypeInv, TruckTypes
  <2>2. /\ Notices(k, First(f).gate, First(f).given, Slot) \in Seq(GateMsgs)
        /\ Notices(k, First(f).gate, due, DoneMsg) \in Seq(GateMsgs)
        /\ Notices(k, Second(f, due).gate, Second(f, due).given, Slot) \in Seq(GateMsgs)
    BY <1>1, NoticesType
  <2> QED BY <2>1, <2>2
<1>4. TruckTypes'
  BY <1>2, <1>3 DEF FacilityOutcome, TypeInv, TruckTypes, truckVars
<1>5. GateTypes'
  <2>1. <<>> \in Seq(Visits)
    OBVIOUS
  <2>2. EndsOf(First(f).given) \in SUBSET Gates /\ EndsOf(Second(f, due).given) \in SUBSET Gates
    BY <1>1 DEF EndsOf
  <2>3. ends' \in [Facilities -> SUBSET Gates]
    BY <1>1, <1>2, <2>2 DEF FacilityOutcome, TypeInv, GateTypes
  <2> QED BY <1>1, <1>2, <2>1, <2>3 DEF FacilityOutcome, TypeInv, GateTypes
<1>6. OrderTypes' /\ RunTypes'
  BY <1>2 DEF FacilityOutcome, TypeInv, OrderTypes, RunTypes, orderVars
<1> QED BY <1>4, <1>5, <1>6 DEF TypeInv

\* A step of the batch writer, for one order: its events, then the publication, then the sweep.
WriterEffect(o, known, lost) ==
  LET a == ApplyEvents(doc[o], mail[o], known)
  IN \/ doc'[o] = a
     \/ a.st = "created" /\ doc'[o] = [st |-> "unassigned", why |-> a.why]
     \/ /\ a.st = "unassigned" /\ doc'[o] = [st |-> "cancelled", why |-> "overdue"]
        /\ o \notin Protected(lost)
LEMMA WriterFacts ==
  ASSUME TypeInv, WriterStep
  PROVE  /\ mode = "service" /\ Acts(Writer) /\ failed' \in BOOLEAN
         /\ mail' = [o \in Orders |-> <<>>] /\ doc' \in [Orders -> Docs]
         /\ UNCHANGED <<scene, stage, truckVars, offer, tq, fq, gateVars, round, live, drained>>
         /\ \E known, lost \in BOOLEAN : \A o \in Orders : WriterEffect(o, known, lost)
<1>1. PICK due \in SUBSET Orders, overdue \in SUBSET Orders, bad \in {"none", "read", "sweep"} :
        LET applied == [o \in Orders |-> ApplyEvents(doc[o], mail[o], bad # "read")]
            shown == [o \in Orders |-> PublishDue(applied[o], o \in due)]
        IN /\ Acts(Writer) /\ mode = "service" /\ MayFail(bad, Bad(bad))
           /\ stage = "horizon" => due = {}
           /\ due \subseteq scene.orders
           /\ overdue \subseteq {o \in Orders : shown[o].st = "unassigned"}
                \ ({o \in due : applied[o].st = "created"} \cup Protected(bad = "sweep"))
           /\ doc' = [o \in Orders |-> IF o \in overdue THEN CancelOverdue(shown[o]) ELSE shown[o]]
           /\ mail' = [o \in Orders |-> <<>>]
           /\ UNCHANGED <<scene, stage, truckVars, offer, tq, fq, gateVars, round, live, drained>>
  BY Zenon DEF WriterStep
<1> DEFINE known == bad # "read"
           lost == bad = "sweep"
           applied(o) == ApplyEvents(doc[o], mail[o], known)
           shown(o) == PublishDue(applied(o), o \in due)
<1>2. known \in BOOLEAN /\ lost \in BOOLEAN
  OBVIOUS
<1>3. \A o \in Orders : doc[o] \in Docs /\ mail[o] \in Seq(OrderNews)
  BY DEF TypeInv, OrderTypes
<1> HIDE DEF known, lost
<1>4. \A o \in Orders : applied(o) \in Docs
  BY <1>2, <1>3, ApplyEventsFacts
<1>5. \A o \in Orders : doc'[o] = IF o \in overdue THEN CancelOverdue(shown(o)) ELSE shown(o)
  BY <1>1 DEF known
<1>6. \A o \in overdue : /\ shown(o).st = "unassigned" /\ ~(o \in due /\ applied(o).st = "created")
                         /\ o \notin Protected(lost)
  BY <1>1, Zenon DEF known, lost
<1> HIDE DEF applied
<1>7. ASSUME NEW o \in Orders
      PROVE  /\ doc'[o] \in Docs /\ WriterEffect(o, known, lost)
  <2>1. applied(o) \in Docs
    BY <1>4
  <2>2. shown(o) = IF o \in due /\ applied(o).st = "created"
                   THEN [st |-> "unassigned", why |-> applied(o).why] ELSE applied(o)
    BY <2>1 DEF PublishDue, Docs
  <2> HIDE DEF shown
  <2>3. shown(o) \in Docs
    BY <2>1, <2>2 DEF Docs, BookStates
  <2>4. CASE o \in overdue
    <3>1. doc'[o] = [st |-> "cancelled", why |-> "overdue"]
      BY <1>5, <2>4 DEF CancelOverdue
    <3>2. applied(o).st = "unassigned" /\ o \notin Protected(lost)
      BY <1>6, <2>2, <2>4
    <3> QED BY <3>1, <3>2 DEF WriterEffect, applied, Docs, BookStates, OrderNews, Reasons
  <2>5. CASE o \notin overdue
    <3>1. doc'[o] = shown(o)
      BY <1>5, <2>5
    <3> QED BY <2>2, <2>3, <3>1 DEF WriterEffect, applied
  <2> QED BY <2>4, <2>5
<1>8. doc' \in [Orders -> Docs]
  <2>1. doc' = [o \in Orders |-> doc'[o]]
    BY <1>1
  <2> QED BY <1>7, <2>1
<1>9. failed' \in BOOLEAN
  BY <1>1 DEF MayFail
<1> QED BY <1>1, <1>2, <1>7, <1>8, <1>9

\* A step of an order's own agent: its publication, its events, and its patience.
AgentEffect(o) ==
  \E d0 \in Docs :
    /\ \/ d0 = doc[o]
       \/ doc[o].st = "created" /\ d0 = [st |-> "unassigned", why |-> doc[o].why]
    /\ LET d1 == AgentHears(d0, mail[o])
       IN \/ doc'[o] = d1
          \/ d1.st = "unassigned" /\ doc'[o] = [st |-> "cancelled", why |-> d1.why]
LEMMA AgentFacts ==
  ASSUME TypeInv, NEW o \in Orders, OrderAgentStep(o)
  PROVE  /\ mode = "agent" /\ Acts(o)
         /\ mail' = [mail EXCEPT ![o] = <<>>] /\ doc' \in [Orders -> Docs]
         /\ UNCHANGED <<scene, stage, failed, truckVars, offer, tq, fq, gateVars, round, drained>>
         /\ \A p \in Orders : p # o => doc'[p] = doc[p]
         /\ AgentEffect(o) /\ live' \subseteq live
<1>1. PICK due, overdue \in BOOLEAN :
        LET d0 == IF due /\ doc[o].st = "created" THEN [doc[o] EXCEPT !.st = "unassigned"] ELSE doc[o]
            d1 == AgentHears(d0, mail[o])
            sheds == overdue /\ d1.st = "unassigned"
        IN /\ mode = "agent" /\ Acts(o)
           /\ doc' = [doc EXCEPT ![o] = IF sheds THEN [d1 EXCEPT !.st = "cancelled"] ELSE d1]
           /\ mail' = [mail EXCEPT ![o] = <<>>]
           /\ live' \subseteq live
           /\ UNCHANGED <<scene, stage, failed, truckVars, offer, tq, fq, gateVars, round, drained>>
  BY DEF OrderAgentStep
<1> DEFINE d0 == IF due /\ doc[o].st = "created" THEN [doc[o] EXCEPT !.st = "unassigned"] ELSE doc[o]
           d1 == AgentHears(d0, mail[o])
           dd == IF overdue /\ d1.st = "unassigned" THEN [d1 EXCEPT !.st = "cancelled"] ELSE d1
<1>2. doc[o] \in Docs /\ mail[o] \in Seq(OrderNews)
  BY DEF TypeInv, OrderTypes
<1>3. /\ d0 \in Docs
      /\ d0 = doc[o] \/ (doc[o].st = "created" /\ d0 = [st |-> "unassigned", why |-> doc[o].why])
  BY <1>2 DEF Docs, BookStates
<1>4. doc' = [doc EXCEPT ![o] = dd]
  BY <1>1, Zenon
<1> HIDE DEF d0
<1>5. d1 \in Docs
  BY <1>2, <1>3, AgentHearsFacts
<1> HIDE DEF d1
<1>6. /\ dd \in Docs
      /\ dd = d1 \/ (d1.st = "unassigned" /\ dd = [st |-> "cancelled", why |-> d1.why])
  BY <1>5 DEF Docs, BookStates, OrderNews
<1> HIDE DEF dd
<1>7. doc' \in [Orders -> Docs] /\ doc'[o] = dd /\ \A p \in Orders : p # o => doc'[p] = doc[p]
  BY <1>4, <1>6 DEF TypeInv, OrderTypes
<1>8. AgentEffect(o)
  BY <1>3, <1>6, <1>7, Zenon DEF AgentEffect, d1
<1> QED BY <1>1, <1>7, <1>8

\* The offers of a matching round: at most one to a truck, each an order the round had read.
LEMMA MatchFacts ==
  ASSUME TypeInv, Match
  PROVE  /\ round # NoRound /\ Acts(Assigner) /\ round' = NoRound /\ failed' \in BOOLEAN
         /\ UNCHANGED <<scene, stage, truckVars, tq, fq, gateVars, mail, orderVars>>
         /\ offer' \in [Trucks -> Seq(Orders)]
         /\ \E lost \in BOOLEAN : \E m \in Matchings(round.trucks, round.orders) :
              /\ MayFail("match", lost)
              /\ \A k \in Trucks : offer'[k] = IF k \in DOMAIN m THEN Append(offer[k], m[k]) ELSE offer[k]
              /\ \A k \in DOMAIN m : /\ k \in round.trucks /\ (~lost => k \notin Hauling)
                                     /\ m[k] \in round.orders /\ m[k] \notin Protected(lost)
              /\ \A j, k \in DOMAIN m : m[j] = m[k] => j = k
<1> DEFINE ts(lost) == round.trucks \ (IF lost THEN {} ELSE Hauling)
           os(lost) == round.orders \ Protected(lost)
<1>1. PICK lost \in BOOLEAN :
        /\ round # NoRound /\ Acts(Assigner) /\ MayFail("match", lost)
        /\ \E m \in Matchings(ts(lost), os(lost)) :
             offer' = [k \in Trucks |-> IF k \in DOMAIN m THEN Append(offer[k], m[k]) ELSE offer[k]]
        /\ round' = NoRound
        /\ UNCHANGED <<scene, stage, truckVars, tq, fq, gateVars, mail, orderVars>>
  BY Zenon DEF Match
<1>2. PICK m \in Matchings(ts(lost), os(lost)) :
        offer' = [k \in Trucks |-> IF k \in DOMAIN m THEN Append(offer[k], m[k]) ELSE offer[k]]
  BY <1>1
<1>3. PICK S \in SUBSET ts(lost) : m \in [S -> os(lost)]
  BY <1>2 DEF Matchings
<1>4. \A j, k \in DOMAIN m : m[j] = m[k] => j = k
  BY <1>2 DEF Matchings
<1>5. \A k \in DOMAIN m : /\ k \in round.trucks /\ (~lost => k \notin Hauling)
                          /\ m[k] \in round.orders /\ m[k] \notin Protected(lost)
  BY <1>3
<1>6. m \in Matchings(round.trucks, round.orders)
  <2>1. S \in SUBSET round.trucks /\ m \in [S -> round.orders]
    BY <1>3
  <2> QED BY <1>4, <2>1 DEF Matchings
<1>7. round.orders \subseteq Orders
  BY <1>1 DEF TypeInv, RunTypes
<1>8. offer' \in [Trucks -> Seq(Orders)]
  <2> SUFFICES ASSUME NEW k \in Trucks
      PROVE (IF k \in DOMAIN m THEN Append(offer[k], m[k]) ELSE offer[k]) \in Seq(Orders)
    BY <1>2
  <2>1. offer[k] \in Seq(Orders)
    BY DEF TypeInv, TruckTypes
  <2> QED BY <1>5, <1>7, <2>1
<1>9. failed' \in BOOLEAN
  BY <1>1 DEF MayFail
<1>10. \A k \in Trucks : offer'[k] = IF k \in DOMAIN m THEN Append(offer[k], m[k]) ELSE offer[k]
  BY <1>2
<1> QED BY <1>1, <1>4, <1>5, <1>6, <1>8, <1>9, <1>10

\* An assignment handled: dropped, lost with its POST, or turned into a trip.
Dropped(k) == /\ k \notin online \/ trip[k] # NoTrip
              /\ UNCHANGED <<failed, trip, fq, mail, hauls, delivered>>
Lost == failed' \in BOOLEAN /\ UNCHANGED <<trip, fq, mail, hauls, delivered>>
Accepted(k, o, bad) ==
  /\ k \in online /\ trip[k] = NoTrip /\ failed' \in BOOLEAN
  /\ bad = "assign" => CanFail("api") /\ failed'
  /\ Published(k, ApplyTripTransitionAndNotify(NewTrip(o), "assign", bad))
  /\ hauls' = [hauls EXCEPT ![o] = @ + 1]
LEMMA AssignmentFacts ==
  ASSUME TypeInv, NEW k \in Trucks, HandleAssignment(k)
  PROVE  /\ Running /\ offer[k] # <<>> /\ Head(offer[k]) \in Orders
         /\ offer' = [offer EXCEPT ![k] = Tail(@)] /\ offer' \in [Trucks -> Seq(Orders)]
         /\ UNCHANGED <<scene, stage, turn, online, tq, gateVars, round, orderVars>>
         /\ Dropped(k) \/ Lost \/ \E bad : Accepted(k, Head(offer[k]), bad)
<1>1. offer \in [Trucks -> Seq(Orders)] /\ failed \in BOOLEAN
  BY DEF TypeInv, TruckTypes, RunTypes
<1>2. /\ Running /\ offer[k] # <<>> /\ offer' = [offer EXCEPT ![k] = Tail(@)]
      /\ UNCHANGED <<scene, stage, turn, online, tq, gateVars, round, orderVars>>
  BY DEF HandleAssignment
<1>3. Head(offer[k]) \in Orders /\ Tail(offer[k]) \in Seq(Orders)
  BY <1>1, <1>2
<1>4. Dropped(k) \/ Lost \/ \E bad : Accepted(k, Head(offer[k]), bad)
  <2>1. CASE k \notin online \/ trip[k] # NoTrip
    BY <2>1 DEF HandleAssignment, Dropped
  <2>2. CASE k \in online /\ trip[k] = NoTrip
    <3>1. \/ MayFail("api", TRUE) /\ UNCHANGED <<trip, fq, mail, hauls, delivered>>
          \/ \E bad \in Refusals \cap {"none", "assign"} :
               /\ MayFail("api", Bad(bad))
               /\ Published(k, ApplyTripTransitionAndNotify(NewTrip(Head(offer[k])), "assign", bad))
               /\ hauls' = [hauls EXCEPT ![Head(offer[k])] = @ + 1]
      BY <2>2 DEF HandleAssignment
    <3>2. CASE MayFail("api", TRUE) /\ UNCHANGED <<trip, fq, mail, hauls, delivered>>
      BY <1>1, <3>2 DEF Lost, MayFail
    <3>3. ASSUME NEW bad \in Refusals \cap {"none", "assign"}, MayFail("api", Bad(bad)),
                 Published(k, ApplyTripTransitionAndNotify(NewTrip(Head(offer[k])), "assign", bad)),
                 hauls' = [hauls EXCEPT ![Head(offer[k])] = @ + 1]
          PROVE  Accepted(k, Head(offer[k]), bad)
      <4>1. failed' \in BOOLEAN /\ (bad = "assign" => CanFail("api") /\ failed')
        BY <1>1, <3>3 DEF MayFail, Bad
      <4> QED BY <2>2, <3>3, <4>1 DEF Accepted
    <3> QED BY <3>1, <3>2, <3>3
  <2> QED BY <2>1, <2>2
<1> QED BY <1>1, <1>2, <1>3, <1>4

\* Every step keeps the types.
LEMMA TypesKept == TypeInv /\ [Next]_vars => TypeInv'
<1> SUFFICES ASSUME TypeInv, [Next]_vars PROVE TypeInv'
  OBVIOUS
<1> USE DEF TruckTypes, GateTypes, OrderTypes, RunTypes
<1>1. ASSUME NEW k \in Trucks, HandleAssignment(k) PROVE TypeInv'
  <2>1. /\ offer' \in [Trucks -> Seq(Orders)] /\ Head(offer[k]) \in Orders
        /\ UNCHANGED <<scene, stage, turn, online, tq, gateVars, round, orderVars>>
    BY <1>1, AssignmentFacts
  <2>2. CASE Dropped(k) \/ Lost
    BY <2>1, <2>2 DEF Dropped, Lost, TypeInv, gateVars, orderVars
  <2>3. ASSUME NEW bad, Accepted(k, Head(offer[k]), bad) PROVE TypeInv'
    <3> DEFINE o == Head(offer[k])
               w == ApplyTripTransitionAndNotify(NewTrip(o), "assign", bad)
    <3>1. w \in Spoken /\ (w.trip = NoTrip => w.orders = <<>>) /\ Published(k, w)
      <4>1. Published(k, w)
        BY <2>3 DEF Accepted
      <4>2. PICK t0 \in Trips : w \in Tells(t0)
        BY <2>1, AssignTells
      <4> QED BY <4>1, <4>2, TellsFacts
    <3> HIDE DEF w
    <3>2. /\ trip' \in [Trucks -> {NoTrip} \cup Trips] /\ mail' \in [Orders -> Seq(OrderNews)]
          /\ fq' \in [Facilities -> Seq(Visits)] /\ delivered' \in SUBSET Orders
      BY <3>1, PublishedFacts
    <3>3. hauls' \in [Orders -> Nat] /\ failed' \in BOOLEAN
      BY <2>1, <2>3 DEF Accepted, TypeInv
    <3> QED BY <2>1, <3>2, <3>3 DEF TypeInv, gateVars, orderVars
  <2> QED BY <1>1, <2>2, <2>3, AssignmentFacts
<1>2. ASSUME NEW k \in Trucks, TruckStep(k) PROVE TypeInv'
  <2>1. PICK there \in BOOLEAN, bad \in Refusals :
          /\ Published(k, Outcome(Held(k), tq[k], there, bad))
          /\ MayFail("api", Bad(bad)) /\ tq' = [tq EXCEPT ![k] = <<>>]
          /\ UNCHANGED <<scene, stage, online, offer, gateVars, round, orderVars, hauls>>
    BY <1>2, Zenon DEF TruckStep, Outcome
  <2> DEFINE w == Outcome(Held(k), tq[k], there, bad)
  <2>2. w \in Spoken /\ (w.trip = NoTrip => w.orders = <<>>)
    BY HeldType, StepTells, TellsFacts
  <2> HIDE DEF w
  <2>3. /\ trip' \in [Trucks -> {NoTrip} \cup Trips] /\ mail' \in [Orders -> Seq(OrderNews)]
        /\ fq' \in [Facilities -> Seq(Visits)] /\ delivered' \in SUBSET Orders
    BY <2>1, <2>2, PublishedFacts DEF w
  <2>4. failed' \in BOOLEAN /\ tq' \in [Trucks -> Seq(GateMsgs)]
    BY <2>1 DEF TypeInv, MayFail
  <2> QED BY <2>1, <2>3, <2>4 DEF TypeInv, gateVars, orderVars
<1>3. ASSUME NEW k \in Trucks, TruckWaits(k) PROVE TypeInv'
  BY <1>3 DEF TruckWaits, TypeInv, truckVars, gateVars, orderVars
<1>4. ASSUME NEW k \in Trucks, TruckLeaves(k) PROVE TypeInv'
  BY <1>4 DEF TruckLeaves, TypeInv, gateVars, orderVars
<1>5. ASSUME NEW k \in Trucks, TruckCloses(k) PROVE TypeInv'
  <2> DEFINE w == ApplyTripTransitionAndNotify(Unsaid(trip[k]), "cancel", "none")
  <2>1. /\ Published(k, w) /\ online' \in SUBSET Trucks
        /\ UNCHANGED <<scene, stage, turn, failed, offer, tq, gateVars, round, orderVars, hauls>>
    BY <1>5 DEF TruckCloses, TypeInv
  <2>2. w \in Spoken /\ (w.trip = NoTrip => w.orders = <<>>)
    BY HeldType, CloseTells
  <2> HIDE DEF w
  <2>3. /\ trip' \in [Trucks -> {NoTrip} \cup Trips] /\ mail' \in [Orders -> Seq(OrderNews)]
        /\ fq' \in [Facilities -> Seq(Visits)] /\ delivered' \in SUBSET Orders
    BY <2>1, <2>2, PublishedFacts
  <2> QED BY <2>1, <2>3 DEF TypeInv, gateVars, orderVars
<1>6. ASSUME NEW f \in Facilities, NEW due \in SUBSET ends[f], FacilityStep(f, due) PROVE TypeInv'
  BY <1>6, FacilityTypes
<1>7. ASSUME WriterStep PROVE TypeInv'
  <2>1. [o \in Orders |-> <<>>] \in [Orders -> Seq(OrderNews)]
    OBVIOUS
  <2> QED BY <1>7, <2>1, WriterFacts DEF TypeInv, truckVars, gateVars
<1>8. ASSUME WriterCloses PROVE TypeInv'
  <2>1. \A o \in Orders : ApplyEvents(doc[o], mail[o], TRUE) \in Docs
    <3>1. \A o \in Orders : doc[o] \in Docs /\ mail[o] \in Seq(OrderNews)
      BY DEF TypeInv
    <3> QED BY <3>1, ApplyEventsFacts
  <2>2. doc' \in [Orders -> Docs] /\ mail' \in [Orders -> Seq(OrderNews)]
        /\ failed' \in BOOLEAN /\ drained' \in BOOLEAN
    <3>1. CASE /\ doc' = [o \in Orders |-> ApplyEvents(doc[o], mail[o], TRUE)]
               /\ mail' = [o \in Orders |-> <<>>]
               /\ UNCHANGED <<failed, drained>>
      <4>1. doc' \in [Orders -> Docs]
        BY <2>1, <3>1
      <4>2. mail' \in [Orders -> Seq(OrderNews)]
        BY <3>1
      <4> QED BY <3>1, <4>1, <4>2 DEF TypeInv
    <3>2. CASE MayFail("drain", TRUE) /\ drained' = FALSE /\ UNCHANGED <<doc, mail>>
      BY <3>2 DEF TypeInv, MayFail
    <3> QED BY <1>8, <3>1, <3>2 DEF WriterCloses
  <2>3. UNCHANGED <<scene, stage, turn, truckVars, offer, tq, fq, gateVars, round>>
    BY <1>8 DEF WriterCloses
  <2> QED BY <2>2, <2>3 DEF TypeInv, truckVars, gateVars
<1>9. ASSUME ReadMarket PROVE TypeInv'
  BY <1>9 DEF ReadMarket, TypeInv, truckVars, gateVars, orderVars
<1>10. ASSUME Match PROVE TypeInv'
  BY <1>10, MatchFacts DEF TypeInv, truckVars, gateVars, orderVars
<1>11. ASSUME NEW o \in Orders, OrderAgentStep(o) PROVE TypeInv'
  <2>1. /\ mail' = [mail EXCEPT ![o] = <<>>] /\ doc' \in [Orders -> Docs]
        /\ UNCHANGED <<scene, stage, failed, truckVars, offer, tq, fq, gateVars, round, drained>>
    BY <1>11, AgentFacts
  <2>2. mail' \in [Orders -> Seq(OrderNews)]
    BY <2>1 DEF TypeInv
  <2> QED BY <2>1, <2>2 DEF TypeInv, truckVars, gateVars
<1>12. ASSUME NEW o \in Orders, OrderCloses(o) PROVE TypeInv'
  BY <1>12 DEF OrderCloses, TypeInv, truckVars, gateVars
<1>13. ASSUME Tick \/ Horizon \/ FinalStep PROVE TypeInv'
  BY <1>13 DEF Tick, Horizon, FinalStep, TypeInv, truckVars, gateVars, orderVars
<1>14. ASSUME BulkCancel PROVE TypeInv'
  <2>1. doc' \in [Orders -> Docs]
    BY <1>14 DEF BulkCancel, TypeInv, Docs, BookStates, OrderNews
  <2> QED BY <1>14, <2>1 DEF BulkCancel, TypeInv, truckVars, gateVars
<1>15. CASE UNCHANGED vars
  BY <1>15 DEF vars, TypeInv
<1> QED
  BY <1>1, <1>2, <1>3, <1>4, <1>5, <1>6, <1>7, <1>8, <1>9, <1>10, <1>11, <1>12, <1>13, <1>14,
     <1>15 DEF Next

\* A run is one scene from its start to its end.
LEMMA SceneFixed == TypeInv /\ [Next]_vars => scene' = scene
<1> SUFFICES ASSUME TypeInv, [Next]_vars PROVE scene' = scene
  OBVIOUS
<1>1. ASSUME NEW k \in Trucks, HandleAssignment(k) \/ TruckStep(k) \/ TruckWaits(k)
                               \/ TruckLeaves(k) \/ TruckCloses(k)
      PROVE  scene' = scene
  BY <1>1, AssignmentFacts DEF TruckStep, TruckWaits, TruckLeaves, TruckCloses
<1>2. ASSUME NEW f \in Facilities, NEW due \in SUBSET ends[f], FacilityStep(f, due)
      PROVE  scene' = scene
  BY <1>2, FacilityFacts DEF FacilityOutcome
<1>3. ASSUME WriterStep \/ Match PROVE scene' = scene
  BY <1>3, WriterFacts, MatchFacts
<1>4. ASSUME WriterCloses \/ ReadMarket \/ Tick \/ Horizon \/ FinalStep \/ BulkCancel
      PROVE  scene' = scene
  BY <1>4 DEF WriterCloses, ReadMarket, Tick, Horizon, FinalStep, BulkCancel
<1>5. ASSUME NEW o \in Orders, OrderAgentStep(o) \/ OrderCloses(o) PROVE scene' = scene
  BY <1>5, AgentFacts DEF OrderCloses
<1>6. CASE UNCHANGED vars
  BY <1>6 DEF vars
<1> QED BY <1>1, <1>2, <1>3, <1>4, <1>5, <1>6 DEF Next

-----------------------------------------------------------------------------
(* A haul that happened is recorded.                                       *)

Uncancelled(es) == \A i \in 1 .. Len(es) : es[i] # "cancelled"
RecordInv ==
  mode = "service" =>
    /\ Running => Writer \in live /\ \A o \in Orders : Uncancelled(mail[o])
    /\ Writer \in live => stage # "ended" /\ \A o \in Orders : ~FinallyCancelled(doc[o])
    /\ \A o \in delivered : doc[o].st = "completed" \/ CompletesUncancelled(mail[o])
    /\ Writer \notin live /\ drained => \A o \in delivered : doc[o].st = "completed"

\* More news behind a completion does not undo it, nor does news before it that cancels nothing.
LEMMA NewsAppended ==
  ASSUME NEW a \in Seq(OrderNews), NEW b \in Seq(OrderNews)
  PROVE  /\ CompletesUncancelled(a) => CompletesUncancelled(a \o b)
         /\ Uncancelled(a) /\ Uncancelled(b) => Uncancelled(a \o b)
         /\ Uncancelled(a) /\ Uncancelled(b) /\ "completed" \in Range(b) =>
              CompletesUncancelled(a \o b)
<1>1. PICK m \in Nat : m = Len(a)
  OBVIOUS
<1>2. PICK n \in Nat : n = Len(b)
  OBVIOUS
<1> DEFINE c == a \o b
<1>3. /\ Len(c) = m + n /\ \A i \in 1 .. m : c[i] = a[i]
      /\ \A i \in 1 .. n : c[m + i] = b[i]
  BY <1>1, <1>2
<1>4. \A i \in 1 .. m + n : i \in 1 .. m \/ \E j \in 1 .. n : i = m + j
  <2> TAKE i \in 1 .. m + n
  <2>1. CASE i > m
    <3>1. i - m \in 1 .. n /\ i = m + (i - m)
      BY <1>1, <1>2, <2>1
    <3> QED BY <3>1
  <2> QED BY <2>1, <1>1
<1> HIDE DEF c
<1>5. ASSUME CompletesUncancelled(a) PROVE CompletesUncancelled(c)
  <2>1. PICK i \in 1 .. m : a[i] = "completed" /\ \A j \in 1 .. i : a[j] # "cancelled"
    BY <1>1, <1>5 DEF CompletesUncancelled
  <2>2. i \in 1 .. m + n /\ \A j \in 1 .. i : j \in 1 .. m
    BY <1>1, <1>2, <2>1
  <2>3. c[i] = "completed" /\ \A j \in 1 .. i : c[j] # "cancelled"
    BY <1>3, <2>1, <2>2
  <2> QED BY <1>3, <2>2, <2>3 DEF CompletesUncancelled
<1>6. ASSUME Uncancelled(a), Uncancelled(b) PROVE \A i \in 1 .. m + n : c[i] # "cancelled"
  <2> SUFFICES ASSUME NEW i \in 1 .. m + n PROVE c[i] # "cancelled"
    OBVIOUS
  <2>1. CASE i \in 1 .. m
    BY <1>1, <1>3, <1>6, <2>1 DEF Uncancelled
  <2>2. ASSUME NEW j \in 1 .. n, i = m + j PROVE c[i] # "cancelled"
    BY <1>2, <1>3, <1>6, <2>2 DEF Uncancelled
  <2> QED BY <1>4, <2>1, <2>2
<1>7. ASSUME Uncancelled(a), Uncancelled(b), "completed" \in Range(b)
      PROVE  CompletesUncancelled(c)
  <2>1. PICK j \in 1 .. n : b[j] = "completed"
    BY <1>2, <1>7 DEF Range
  <2>2. m + j \in 1 .. m + n /\ c[m + j] = "completed"
    BY <1>1, <1>2, <1>3, <2>1
  <2>3. \A i \in 1 .. m + j : i \in 1 .. m + n
    BY <1>1, <1>2
  <2>4. \A i \in 1 .. m + j : c[i] # "cancelled"
    BY <1>6, <1>7, <2>3
  <2> QED BY <1>3, <2>2, <2>4 DEF CompletesUncancelled
<1> QED BY <1>3, <1>5, <1>6, <1>7 DEF c, Uncancelled

\* What a truck publishes while the run goes on: the recording stays intact.
LEMMA PublishedRecorded ==
  ASSUME TypeInv, RecordInv, mode = "service", Running,
         NEW k \in Trucks, NEW t0 \in {NoTrip} \cup Trips, NEW w \in Tells(t0), Published(k, w)
  PROVE  /\ \A o \in Orders : Uncancelled(mail'[o])
         /\ \A o \in delivered' : doc[o].st = "completed" \/ CompletesUncancelled(mail'[o])
<1>1. w \in Spoken /\ (w.trip = NoTrip => w.orders = <<>>) /\ Uncancelled(w.orders)
  BY TellsFacts DEF Uncancelled
<1>2. w.orders \in Seq(OrderNews)
  BY <1>1 DEF Spoken
<1>3. /\ \A o \in Orders : mail'[o] = IF w.trip # NoTrip /\ w.trip.ord = o
                                         THEN mail[o] \o w.orders ELSE mail[o]
      /\ delivered' \in SUBSET Orders
      /\ \A o \in delivered' : o \in delivered \/ (/\ w.trip # NoTrip /\ w.trip.ord = o
                                                   /\ "completed" \in Range(w.orders))
  BY <1>1, PublishedFacts
<1>4. \A o \in Orders : mail[o] \in Seq(OrderNews) /\ Uncancelled(mail[o])
  BY DEF TypeInv, OrderTypes, RecordInv
<1>5. \A o \in delivered : doc[o].st = "completed" \/ CompletesUncancelled(mail[o])
  BY DEF RecordInv
<1>6. ASSUME NEW o \in Orders PROVE Uncancelled(mail'[o])
  <2>1. Uncancelled(mail[o] \o w.orders)
    BY <1>1, <1>2, <1>4, NewsAppended
  <2> QED BY <1>3, <1>4, <2>1
<1>7. ASSUME NEW o \in delivered' PROVE doc[o].st = "completed" \/ CompletesUncancelled(mail'[o])
  <2>1. o \in Orders
    BY <1>3
  <2>2. CASE w.trip # NoTrip /\ w.trip.ord = o
    <3>1. mail'[o] = mail[o] \o w.orders
      BY <1>3, <2>1, <2>2
    <3>2. CASE o \in delivered
      <4>1. CompletesUncancelled(mail[o]) => CompletesUncancelled(mail[o] \o w.orders)
        BY <1>2, <1>4, <2>1, NewsAppended
      <4> QED BY <1>5, <3>1, <3>2, <4>1
    <3>3. CASE "completed" \in Range(w.orders)
      <4>1. CompletesUncancelled(mail[o] \o w.orders)
        BY <1>1, <1>2, <1>4, <2>1, <3>3, NewsAppended
      <4> QED BY <3>1, <4>1
    <3> QED BY <1>3, <3>2, <3>3
  <2>3. CASE ~(w.trip # NoTrip /\ w.trip.ord = o)
    <3>1. mail'[o] = mail[o] /\ o \in delivered
      BY <1>3, <2>1, <2>3
    <3> QED BY <1>5, <3>1
  <2> QED BY <2>2, <2>3
<1> QED BY <1>6, <1>7

LEMMA RecordsKept == TypeInv /\ RecordInv /\ [Next]_vars => RecordInv'
<1> SUFFICES ASSUME TypeInv, RecordInv, [Next]_vars PROVE RecordInv'
  OBVIOUS
<1>0. scene' = scene
  BY SceneFixed
<1> SUFFICES ASSUME mode = "service" PROVE RecordInv'
  BY <1>0 DEF RecordInv, mode
<1>1. /\ Running => Writer \in live /\ \A o \in Orders : Uncancelled(mail[o])
      /\ Writer \in live => stage # "ended" /\ \A o \in Orders : ~FinallyCancelled(doc[o])
      /\ \A o \in delivered : doc[o].st = "completed" \/ CompletesUncancelled(mail[o])
      /\ Writer \notin live /\ drained => \A o \in delivered : doc[o].st = "completed"
  BY DEF RecordInv
<1>2. delivered \in SUBSET Orders /\ doc \in [Orders -> Docs] /\ mail \in [Orders -> Seq(OrderNews)]
  BY DEF TypeInv, TruckTypes, OrderTypes
\* Steps that change neither the documents nor the news.
<1>3. ASSUME UNCHANGED <<doc, mail, delivered, live, drained>>, stage' = stage PROVE RecordInv'
  BY <1>1, <1>3 DEF RecordInv, Running, Uncancelled, FinallyCancelled, CompletesUncancelled
\* Steps in which a truck publishes while the run goes on.
<1>4. ASSUME Running, UNCHANGED <<stage, doc, live, drained>>, NEW k \in Trucks,
             NEW t0 \in {NoTrip} \cup Trips, NEW w \in Tells(t0), Published(k, w)
      PROVE  RecordInv'
  <2>1. /\ \A o \in Orders : Uncancelled(mail'[o])
        /\ \A o \in delivered' : doc[o].st = "completed" \/ CompletesUncancelled(mail'[o])
    BY <1>4, PublishedRecorded
  <2>2. Writer \in live /\ Writer \in live'
    BY <1>1, <1>4
  <2>3. stage' # "ended" /\ \A o \in Orders : ~FinallyCancelled(doc'[o])
    BY <1>1, <1>4, <2>2
  <2> QED BY <1>4, <2>1, <2>2, <2>3 DEF RecordInv
<1>5. ASSUME NEW k \in Trucks, HandleAssignment(k) PROVE RecordInv'
  <2>1. /\ UNCHANGED <<stage, doc, live, drained>> /\ Running /\ Head(offer[k]) \in Orders
        /\ Dropped(k) \/ Lost \/ \E bad : Accepted(k, Head(offer[k]), bad)
    BY <1>5, AssignmentFacts DEF orderVars
  <2>2. CASE Dropped(k) \/ Lost
    BY <1>3, <2>1, <2>2 DEF Dropped, Lost
  <2>3. ASSUME NEW bad, Accepted(k, Head(offer[k]), bad) PROVE RecordInv'
    <3> DEFINE w == ApplyTripTransitionAndNotify(NewTrip(Head(offer[k])), "assign", bad)
    <3>1. PICK t0 \in Trips : w \in Tells(t0)
      BY <2>1, AssignTells
    <3>2. Published(k, w)
      BY <2>3 DEF Accepted
    <3> QED BY <1>4, <2>1, <3>1, <3>2
  <2> QED BY <2>1, <2>2, <2>3
<1>6. ASSUME NEW k \in Trucks, TruckStep(k) PROVE RecordInv'
  <2>1. PICK there \in BOOLEAN, bad \in Refusals :
          /\ Acts(k) /\ Published(k, Outcome(Held(k), tq[k], there, bad))
          /\ UNCHANGED <<scene, stage, online, offer, gateVars, round, orderVars, hauls>>
    BY <1>6, Zenon DEF TruckStep, Outcome
  <2>2. UNCHANGED <<stage, doc, live, drained>> /\ Running
    BY <2>1 DEF orderVars, Acts
  <2>3. Outcome(Held(k), tq[k], there, bad) \in Tells(Held(k)) /\ Held(k) \in {NoTrip} \cup Trips
    BY HeldType, StepTells
  <2> QED BY <1>4, <2>1, <2>2, <2>3
<1>7. ASSUME NEW k \in Trucks, TruckCloses(k) PROVE RecordInv'
  <2> DEFINE w == ApplyTripTransitionAndNotify(Unsaid(trip[k]), "cancel", "none")
  <2>1. /\ w \in Spoken /\ (w.trip = NoTrip => w.orders = <<>>)
        /\ w.orders = <<>> \/ w.orders = <<"cancelled">>
    BY HeldType, CloseTells
  <2>2. Published(k, w) /\ UNCHANGED <<stage, doc, live, drained>> /\ stage = "closing"
    BY <1>7 DEF TruckCloses, orderVars
  <2>3. "completed" \notin Range(w.orders) /\ w.orders \in Seq(OrderNews)
    <3>1. <<>> \in Seq(OrderNews) /\ <<"cancelled">> \in Seq(OrderNews)
      BY DEF OrderNews
    <3>2. "completed" \notin Range(<<>>) /\ "completed" \notin Range(<<"cancelled">>)
      BY DEF Range
    <3> HIDE DEF w
    <3> QED BY <2>1, <3>1, <3>2
  <2> HIDE DEF w
  <2>4. /\ delivered' \in SUBSET Orders /\ \A o \in delivered' : o \in delivered
        /\ \A o \in Orders : mail'[o] = mail[o] \o w.orders \/ mail'[o] = mail[o]
    BY <2>1, <2>2, <2>3, PublishedFacts
  <2>5. \A o \in delivered' : doc'[o].st = "completed" \/ CompletesUncancelled(mail'[o])
    <3> TAKE o \in delivered'
    <3>1. o \in Orders /\ o \in delivered
      BY <2>4
    <3>2. CompletesUncancelled(mail[o]) => CompletesUncancelled(mail[o] \o w.orders)
      BY <1>2, <2>3, <3>1, NewsAppended
    <3> QED BY <1>1, <2>2, <2>4, <3>1, <3>2
  <2>6. ~Running'
    BY <2>2 DEF Running
  <2> QED BY <1>1, <2>2, <2>4, <2>5, <2>6 DEF RecordInv, FinallyCancelled
<1>8. ASSUME WriterStep PROVE RecordInv'
  <2>1. /\ mail' = [o \in Orders |-> <<>>] /\ doc' \in [Orders -> Docs]
        /\ Running /\ UNCHANGED <<stage, live, drained, delivered>>
    BY <1>8, WriterFacts DEF Acts, truckVars
  <2>2. PICK known, lost \in BOOLEAN : \A o \in Orders : WriterEffect(o, known, lost)
    BY <1>8, WriterFacts
  <2>3. \A o \in Orders : ~FinallyCancelled(doc[o]) /\ Uncancelled(mail[o])
    BY <1>1, <2>1
  <2>4. ASSUME NEW o \in Orders
        PROVE  /\ ~FinallyCancelled(doc'[o])
               /\ doc[o].st = "completed" \/ CompletesUncancelled(mail[o]) => doc'[o].st = "completed"
    <3> DEFINE a == ApplyEvents(doc[o], mail[o], known)
    <3>1. /\ a \in Docs
          /\ doc[o].st \in Terminal /\ ~Resurrectable(doc[o]) => a = doc[o]
          /\ a = doc[o] \/ \E i \in 1 .. Len(mail[o]) : a.st = mail[o][i]
          /\ CompletesUncancelled(mail[o]) /\ ~FinallyCancelled(doc[o]) => a.st = "completed"
      BY <1>2, ApplyEventsFacts
    <3>2. \/ doc'[o] = a
          \/ a.st = "created" /\ doc'[o] = [st |-> "unassigned", why |-> a.why]
          \/ a.st = "unassigned" /\ doc'[o] = [st |-> "cancelled", why |-> "overdue"]
      BY <2>2 DEF WriterEffect
    <3> HIDE DEF a
    <3>3. ~FinallyCancelled(a)
      BY <2>3, <3>1 DEF FinallyCancelled, Uncancelled
    <3>4. doc[o].st = "completed" => a = doc[o]
      BY <3>1 DEF Terminal, Resurrectable
    <3> QED BY <2>3, <3>1, <3>2, <3>3, <3>4 DEF FinallyCancelled
  <2>5. \A o \in Orders : Uncancelled(mail'[o])
    BY <2>1 DEF Uncancelled
  <2>6. Writer \in live' /\ stage' # "ended"
    BY <1>1, <2>1
  <2> QED BY <1>1, <1>2, <2>1, <2>4, <2>5, <2>6 DEF RecordInv
<1>9. ASSUME WriterCloses PROVE RecordInv'
  <2>1. /\ Writer \in live /\ Writer \notin live' /\ stage = "closing"
        /\ UNCHANGED <<stage, delivered>> /\ ~Running'
    BY <1>9 DEF WriterCloses, truckVars, Running
  <2>2. CASE doc' = [o \in Orders |-> ApplyEvents(doc[o], mail[o], TRUE)]
    <3>1. ASSUME NEW o \in delivered PROVE doc'[o].st = "completed"
      <4>1. doc'[o] = ApplyEvents(doc[o], mail[o], TRUE)
        BY <1>2, <2>2
      <4>2. /\ doc[o].st \in Terminal /\ ~Resurrectable(doc[o]) => doc'[o] = doc[o]
            /\ CompletesUncancelled(mail[o]) /\ ~FinallyCancelled(doc[o]) => doc'[o].st = "completed"
        <5>1. doc[o] \in Docs /\ mail[o] \in Seq(OrderNews)
          BY <1>2
        <5>2. PICK known \in BOOLEAN : known = TRUE
          OBVIOUS
        <5>3. LET a == ApplyEvents(doc[o], mail[o], known)
              IN /\ doc[o].st \in Terminal /\ ~Resurrectable(doc[o]) => a = doc[o]
                 /\ CompletesUncancelled(mail[o]) /\ ~FinallyCancelled(doc[o]) => a.st = "completed"
          BY <5>1, ApplyEventsFacts
        <5> QED BY <4>1, <5>2, <5>3
      <4> QED BY <1>1, <1>2, <2>1, <4>2 DEF Terminal, Resurrectable
    <3> QED BY <2>1, <3>1 DEF RecordInv
  <2>3. CASE MayFail("drain", TRUE) /\ drained' = FALSE /\ UNCHANGED <<doc, mail>>
    BY <1>1, <2>1, <2>3 DEF RecordInv, CompletesUncancelled
  <2> QED BY <1>9, <2>2, <2>3 DEF WriterCloses
<1>10. ASSUME BulkCancel PROVE RecordInv'
  <2>1. /\ stage' = "ended" /\ Writer \notin live' /\ ~Running'
        /\ UNCHANGED <<mail, delivered, live, drained>>
        /\ doc' = [o \in Orders |-> IF doc[o].st \in Terminal THEN doc[o]
                                    ELSE [doc[o] EXCEPT !.st = "cancelled"]]
    BY <1>10 DEF BulkCancel, OrderAgents, truckVars, Running
  <2>2. \A o \in delivered : doc[o].st = "completed" => doc'[o].st = "completed"
    BY <1>2, <2>1 DEF Terminal
  <2> QED BY <1>1, <2>1, <2>2 DEF RecordInv, CompletesUncancelled
<1>11. ASSUME Horizon \/ FinalStep PROVE RecordInv'
  <2>1. Running /\ stage' # "ended" /\ UNCHANGED <<doc, mail, delivered, live, drained>>
    BY <1>11 DEF Horizon, FinalStep, Running, truckVars, orderVars
  <2> QED BY <1>1, <2>1 DEF RecordInv, Uncancelled, FinallyCancelled, CompletesUncancelled
<1>12. ASSUME \/ Tick \/ ReadMarket
              \/ \E k \in Trucks : TruckWaits(k) \/ TruckLeaves(k)
              \/ \E f \in Facilities : \E due \in SUBSET ends[f] : FacilityStep(f, due)
       PROVE  RecordInv'
  <2>1. CASE Tick \/ ReadMarket
    BY <1>3, <2>1 DEF Tick, ReadMarket, truckVars, orderVars
  <2>2. ASSUME NEW k \in Trucks, TruckWaits(k) \/ TruckLeaves(k) PROVE RecordInv'
    BY <1>3, <2>2 DEF TruckWaits, TruckLeaves, truckVars, orderVars
  <2>3. ASSUME NEW f \in Facilities, NEW due \in SUBSET ends[f], FacilityStep(f, due)
        PROVE  RecordInv'
    <3>1. FacilityOutcome(f, due)
      BY <2>3, FacilityFacts
    <3> QED BY <1>3, <3>1 DEF FacilityOutcome, truckVars, orderVars
  <2> QED BY <1>12, <2>1, <2>2, <2>3
<1>13. ASSUME Match PROVE RecordInv'
  BY <1>3, <1>13, MatchFacts DEF truckVars, orderVars
<1>14. ASSUME NEW o \in Orders, OrderAgentStep(o) \/ OrderCloses(o) PROVE RecordInv'
  BY <1>14 DEF OrderAgentStep, OrderCloses
<1>15. CASE UNCHANGED vars
  BY <1>3, <1>15 DEF vars
<1> QED
  BY <1>5, <1>6, <1>7, <1>8, <1>9, <1>10, <1>11, <1>12, <1>13, <1>14, <1>15 DEF Next

LEMMA InitTyped == Init => TypeInv /\ RecordInv
<1> SUFFICES ASSUME Init PROVE TypeInv /\ RecordInv
  OBVIOUS
<1>1. scene \in Scenes /\ scene.trucks \in SUBSET Trucks
  BY HaulageConstants DEF Init
<1>2. TruckTypes
  BY <1>1 DEF Init, TruckTypes
<1>3. GateTypes
  BY DEF Init, GateTypes
<1>4. OrderTypes
  BY DEF Init, OrderTypes, Docs, BookStates, Reasons
<1>5. RunTypes
  BY <1>1 DEF Init, RunTypes
<1>6. RecordInv
  <2>1. mode = "service" => Writer \in live
    BY DEF Init, OrderAgents
  <2>2. \A o \in Orders : mail[o] = <<>> /\ doc[o].st = "created"
    BY DEF Init
  <2> QED BY <2>1, <2>2 DEF Init, RecordInv, Uncancelled, FinallyCancelled
<1> QED BY <1>2, <1>3, <1>4, <1>5, <1>6 DEF TypeInv

\* Types of the whole workflow: trips, messages, gates, documents and news are what the code
\* says they are, in both order-lifecycle modes.
THEOREM HaulageTyped == Spec => []TypeInv
<1>1. Init => TypeInv
  BY InitTyped
<1>2. TypeInv /\ [Next]_vars => TypeInv'
  BY TypesKept
<1> QED BY <1>1, <1>2, PTL DEF Spec

\* apply_events never loses a haul: a trip that completed has a completed order document or its
\* event is still on the way, whatever the sweep cancelled in the meantime and whichever single
\* call failed; and when the last drain went through, the run ends with the haul recorded.
THEOREM DeliveredIsRecordedAlways == Spec => []DeliveredIsRecorded
<1>1. Init => TypeInv /\ RecordInv
  BY InitTyped
<1>2. TypeInv /\ RecordInv /\ [Next]_vars => (TypeInv /\ RecordInv)'
  BY TypesKept, RecordsKept
<1>3. TypeInv /\ RecordInv => DeliveredIsRecorded
  <2> SUFFICES ASSUME TypeInv, RecordInv, mode = "service", NEW o \in delivered
      PROVE  /\ doc[o].st = "completed" \/ "completed" \in Range(mail[o])
             /\ stage = "ended" /\ drained => doc[o].st = "completed"
    BY DEF DeliveredIsRecorded
  <2>1. mail[o] \in Seq(OrderNews)
    BY DEF TypeInv, TruckTypes, OrderTypes
  <2>2. CompletesUncancelled(mail[o]) => "completed" \in Range(mail[o])
    BY <2>1 DEF CompletesUncancelled, Range
  <2> QED BY <2>2 DEF RecordInv
<1> QED BY <1>1, <1>2, <1>3, PTL DEF Spec

-----------------------------------------------------------------------------
(* How far one step takes a trip, whatever messages it finds.              *)

Young == {"created", "assigned", "repositioning_to_pickup", "queued_for_pickup"}
Mid == {"at_pickup_gate", "loaded_in_transit", "queued_for_dropoff"}

LEMMA PatchMoves ==
  ASSUME NEW w \in Spoken, NEW t, NEW bad
  PROVE  LET x == ApplyTripTransitionAndNotify(w, t, bad)
         IN x.trip.st = w.trip.st \/ Leads(t, w.trip.st, x.trip.st)
<1>1. CASE t = bad \/ \A s2 : ~Leads(t, w.trip.st, s2)
  BY <1>1, PatchRefused
<1>2. ASSUME NEW s2, Leads(t, w.trip.st, s2), t # bad
      PROVE  Leads(t, w.trip.st, ApplyTripTransitionAndNotify(w, t, bad).trip.st)
  <2>1. ApplyTripTransitionAndNotify(w, t, bad) = Patched(w, t, s2)
    BY <1>2, PatchFires
  <2>2. Patched(w, t, s2).trip.st = s2
    BY DEF Patched
  <2> QED BY <1>2, <2>1, <2>2
<1> QED BY <1>1, <1>2

\* A set of trip states that no gate message leads out of is not left by consume_messages.
LEMMA MessagesStayWithin ==
  ASSUME NEW t0 \in Trips, NEW ms \in Seq(GateMsgs), NEW bad, NEW S, t0.st \in S,
         \A m \in GateMsgs, s \in S : \A s2 : Leads(OnGateMessage[m], s, s2) => s2 \in S
  PROVE  LET c == ConsumeMessages(Unsaid(t0), ms, bad) IN c \in Tells(t0) /\ c.trip.st \in S
<1> DEFINE u == Unsaid(t0)
<1>1. t0 \in {NoTrip} \cup Trips
  OBVIOUS
<1>2. u \in Tells(t0) /\ u.trip = t0
  BY <1>1, UnsaidTells
<1> HIDE DEF u
<1>3. PICK n \in Nat : n = Len(ms)
  OBVIOUS
<1>4. PICK w \in [0 .. n -> Tells(t0)] :
        /\ w[0] = u /\ ConsumeMessages(u, ms, bad) = w[n]
        /\ \A i \in 1 .. n : w[i] = ApplyTripTransitionAndNotify(w[i - 1], OnGateMessage[ms[i]], bad)
  <2>1. ConsumedOneByOne(t0, u, ms, bad)
    BY <1>1, <1>2, MessagesConsumed
  <2> QED BY <1>3, <2>1, Zenon DEF ConsumedOneByOne
<1> DEFINE Q == {i \in 0 .. n : w[i].trip.st \in S}
<1>5. 0 \in Q
  BY <1>2, <1>3, <1>4
<1>6. ASSUME NEW i \in 1 .. n, i - 1 \in Q PROVE i \in Q
  <2>1. i \in 0 .. n /\ i - 1 \in 0 .. n /\ ms[i] \in GateMsgs
    BY <1>3
  <2>2. w[i - 1] \in Spoken /\ w[i - 1].trip.st \in S
    BY <1>4, <1>6, <2>1 DEF Tells
  <2>3. w[i].trip.st = w[i - 1].trip.st \/ Leads(OnGateMessage[ms[i]], w[i - 1].trip.st, w[i].trip.st)
    BY <1>4, <2>2, PatchMoves
  <2> QED BY <2>1, <2>2, <2>3
<1> HIDE DEF Q
<1>7. n \in Q
  <2>1. \A i \in 0 .. n : i \in Q
    BY <1>5, <1>6, AllAlong
  <2> QED BY <2>1
<1> QED BY <1>3, <1>4, <1>7 DEF Q, u

\* In one step a trip just posted or assigned gets to the pickup's queue at most, and a trip
\* that is no further than that queue gets to the dropoff's queue at most.
LEMMA OneStepAhead ==
  ASSUME NEW t0 \in Trips, NEW ms \in Seq(GateMsgs), NEW there \in BOOLEAN, NEW bad
  PROVE  LET st2 == Outcome(t0, ms, there, bad).trip.st
         IN /\ t0.st = "created" => st2 = "created"
            /\ t0.st = "assigned" => st2 \in Young \ {"created"}
            /\ t0.st \in Young => st2 \in Young \cup Mid
<1> DEFINE c == ConsumeMessages(Unsaid(t0), ms, bad)
           p == PerformWorkflowActions(c, there, bad)
<1>0. Outcome(t0, ms, there, bad) = p
  BY DEF Outcome
<1>1. \A m \in GateMsgs : OnGateMessage[m] \in {"enter_pickup_gate", "finish_pickup_service",
                                                "enter_dropoff_gate", "finish_dropoff_service"}
  BY DEF GateMsgs, OnGateMessage
<1>2. ASSUME c \in Spoken
      PROVE  /\ c.trip.st \notin Moving => p = c
             /\ c.trip.st = "assigned" => p.trip.st \in {"assigned", "repositioning_to_pickup",
                                                         "queued_for_pickup"}
             /\ c.trip.st = "repositioning_to_pickup" =>
                  p.trip.st \in {"repositioning_to_pickup", "queued_for_pickup"}
             /\ c.trip.st = "loaded_in_transit" =>
                  p.trip.st \in {"loaded_in_transit", "queued_for_dropoff"}
  <2>1. \A t : LET x == ApplyTripTransitionAndNotify(c, t, bad)
               IN x.trip.st = c.trip.st \/ Leads(t, c.trip.st, x.trip.st)
    BY <1>2, PatchMoves
  <2> HIDE DEF c
  <2>2. CASE c.trip.st = "assigned"
    <3>1. PICK t \in {"arrive_pickup_queue", "start_empty_reposition"} :
            p = ApplyTripTransitionAndNotify(c, t, bad)
      BY <2>2 DEF PerformWorkflowActions, OnStateAssigned
    <3> HIDE DEF p
    <3>2. p.trip.st = c.trip.st \/ Leads(t, c.trip.st, p.trip.st)
      BY <2>1, <3>1
    <3> QED BY <2>2, <3>1, <3>2 DEF Leads, Moving
  <2>3. CASE c.trip.st \in {"repositioning_to_pickup", "loaded_in_transit"}
    <3>1. /\ c.trip.st # "assigned" /\ c.trip.st \in DOMAIN OnStateMoving
          /\ OnStateMoving[c.trip.st] = IF c.trip.st = "loaded_in_transit"
                                        THEN "arrive_dropoff_queue" ELSE "arrive_pickup_queue"
      BY <2>3 DEF OnStateMoving
    <3>2. p = ApplyTripTransitionAndNotify(c, OnStateMoving[c.trip.st], bad)
      BY <3>1, Zenon DEF PerformWorkflowActions
    <3> HIDE DEF p
    <3>3. p.trip.st = c.trip.st \/ Leads(OnStateMoving[c.trip.st], c.trip.st, p.trip.st)
      BY <2>1, <3>2
    <3> QED BY <2>3, <3>1, <3>3 DEF Leads, Moving
  <2>4. CASE c.trip.st \notin Moving
    <3>1. c.trip.st # "assigned" /\ c.trip.st \notin DOMAIN OnStateMoving
      BY <2>4 DEF OnStateMoving, Moving
    <3>2. p = c
      BY <3>1, Zenon DEF PerformWorkflowActions
    <3> QED BY <2>4, <3>2 DEF Moving
  <2> QED BY <2>2, <2>3, <2>4 DEF Moving
<1>3. ASSUME NEW S, t0.st \in S,
             \A m \in GateMsgs, s \in S : \A s2 : Leads(OnGateMessage[m], s, s2) => s2 \in S
      PROVE  c \in Spoken /\ c.trip.st \in S
  <2>1. c \in Tells(t0) /\ c.trip.st \in S
    BY <1>3, MessagesStayWithin
  <2> QED BY <2>1 DEF Tells
<1> HIDE DEF c, p
<1>4. ASSUME t0.st = "created" PROVE p.trip.st = "created"
  <2>1. \A m \in GateMsgs, s \in {"created"} : \A s2 : Leads(OnGateMessage[m], s, s2) => s2 \in {"created"}
    BY <1>1 DEF Leads
  <2>2. c \in Spoken /\ c.trip.st \in {"created"}
    BY <1>3, <1>4, <2>1
  <2> QED BY <1>2, <2>2 DEF Moving
<1>5. ASSUME t0.st = "assigned" PROVE p.trip.st \in Young \ {"created"}
  <2>1. \A m \in GateMsgs, s \in {"assigned"} : \A s2 : Leads(OnGateMessage[m], s, s2) => s2 \in {"assigned"}
    BY <1>1 DEF Leads
  <2>2. c \in Spoken /\ c.trip.st \in {"assigned"}
    BY <1>3, <1>5, <2>1
  <2> QED BY <1>2, <2>2 DEF Young
<1>6. ASSUME t0.st \in Young PROVE p.trip.st \in Young \cup Mid
  <2> DEFINE S == Young \cup {"at_pickup_gate", "loaded_in_transit"}
  <2>1. \A m \in GateMsgs, s \in S : \A s2 : Leads(OnGateMessage[m], s, s2) => s2 \in S
    BY <1>1 DEF Leads, Young
  <2>2. c \in Spoken /\ c.trip.st \in S
    BY <1>3, <1>6, <2>1
  <2> QED BY <1>2, <2>2 DEF Young, Mid, Moving
<1> QED BY <1>0, <1>4, <1>5, <1>6

-----------------------------------------------------------------------------
(* No order is hauled twice.                                               *)

\* The theorem is about a run with the batch writer in which the query for open hauls works.
HaulScene == mode = "service" /\ "match" \notin scene.faults

Carries(k, o) == trip[k] # NoTrip /\ trip[k].ord = o
InRound(o) == round # NoRound /\ o \in round.orders
\* A trip of this simulation step, and one that is still open whatever its truck did in it.
Fresh(k, o) == /\ Carries(k, o)
               /\ \/ trip[k].st \in {"created", "assigned"}
                  \/ trip[k].st \in Young /\ k \notin turn
Near(k, o) == /\ Carries(k, o)
              /\ trip[k].st \in Young \/ (trip[k].st \in Mid /\ k \notin turn)
Posted(k, o) == Carries(k, o) /\ trip[k].st = "created"

OffersInv ==
  /\ round # NoRound => Assigner \in turn /\ \A k \in Trucks : offer[k] = <<>>
  /\ \A k \in Trucks : offer[k] # <<>> =>
       \E o \in Orders : offer[k] = <<o>> /\ hauls[o] = 0 /\ doc[o].st # "created"
  /\ \A j, k \in Trucks : offer[j] = offer[k] /\ offer[j] # <<>> => j = k
  /\ \A o \in Orders : hauls[o] >= 1 \/ InRound(o) => doc[o].st # "created"

\* The document of a hauled order lags: then a truck is still early on its haul, more so when
\* the writer has already acted in this step, and the news is on its way unless the first PATCH
\* was refused.
LagInv ==
  \A o \in Orders : hauls[o] >= 1 =>
    /\ doc[o].st = "unassigned" /\ Writer \notin turn => \E k \in Trucks : Fresh(k, o)
    /\ doc[o].st = "unassigned" \/ InRound(o) => \E k \in Trucks : Near(k, o)
    /\ doc[o].st = "unassigned" => mail[o] # <<>> \/ \E k \in Trucks : Posted(k, o)
HaulInv == HaulScene => NoOrderHauledTwice /\ (Running => OffersInv /\ LagInv)

\* A step of a truck keeps early trips early.
LEMMA TruckKeepsLag ==
  ASSUME TypeInv, NEW k \in Trucks, TruckStep(k), NEW j \in Trucks, NEW o \in Orders
  PROVE  /\ Fresh(j, o) => Fresh(j, o)'
         /\ Near(j, o) => Near(j, o)'
         /\ Posted(j, o) => Posted(j, o)'
         /\ mail[o] # <<>> => mail'[o] # <<>>
<1>1. PICK there \in BOOLEAN, bad \in Refusals :
        Acts(k) /\ Published(k, Outcome(Held(k), tq[k], there, bad))
  BY Zenon DEF TruckStep, Outcome
<1> DEFINE w == Outcome(Held(k), tq[k], there, bad)
<1>2. w \in Tells(Held(k)) /\ Held(k) \in {NoTrip} \cup Trips /\ trip[k] \in {NoTrip} \cup Trips
  BY HeldType, StepTells
<1>3. tq[k] \in Seq(GateMsgs) /\ mail[o] \in Seq(OrderNews)
  BY DEF TypeInv, TruckTypes, OrderTypes
<1>4. Held(k) \in Trips =>
        /\ Held(k).st = "created" => w.trip.st = "created"
        /\ Held(k).st = "assigned" => w.trip.st \in Young \ {"created"}
        /\ Held(k).st \in Young => w.trip.st \in Young \cup Mid
  BY <1>3, OneStepAhead
<1> HIDE DEF w
<1>5. w \in Spoken /\ (w.trip = NoTrip => w.orders = <<>>)
  BY <1>2, TellsFacts
<1>6. /\ trip'[k] = w.trip /\ (j # k => trip'[j] = trip[j])
      /\ mail'[o] = IF w.trip # NoTrip /\ w.trip.ord = o THEN mail[o] \o w.orders ELSE mail[o]
  BY <1>1, <1>5, PublishedFacts DEF w
<1>7. mail[o] # <<>> => mail'[o] # <<>>
  <2>1. w.orders \in Seq(OrderNews)
    BY <1>5 DEF Spoken
  <2>2. mail[o] # <<>> => mail[o] \o w.orders # <<>>
    BY <1>3, <2>1
  <2> QED BY <1>6, <2>2
<1>8. k \in turn /\ turn' = turn \ {k}
  BY <1>1 DEF Acts
<1>9. CASE j # k
  <2>1. trip'[j] = trip[j]
    BY <1>6, <1>9
  <2> QED BY <1>7, <1>8, <1>9, <2>1 DEF Fresh, Near, Posted, Carries
<1>10. CASE j = k
  <2>1. ASSUME Carries(k, o), trip[k].st \in Young PROVE Held(k) = trip[k] /\ Held(k) \in Trips
    BY <1>2, <2>1 DEF Held, Carries, Young, Terminal
  <2>2. ASSUME Held(k) = trip[k], Held(k) \in Trips, Carries(k, o) PROVE Carries(k, o)'
    <3>1. Held(k) # NoTrip /\ w.trip \in Trips /\ w.trip.ord = trip[k].ord
      BY <1>2, <2>2 DEF Tells, Carries
    <3>2. w.trip # NoTrip
      BY <3>1 DEF Trips, TripSt, OpenTrip, Terminal, NoTrip
    <3> QED BY <1>6, <2>2, <3>1, <3>2 DEF Carries
  <2>3. Fresh(k, o) => Fresh(k, o)'
    BY <1>4, <1>6, <1>8, <2>1, <2>2 DEF Fresh, Young
  <2>4. Near(k, o) => Near(k, o)'
    BY <1>4, <1>6, <1>8, <2>1, <2>2 DEF Near
  <2>5. Posted(k, o) => Posted(k, o)'
    BY <1>4, <1>6, <2>1, <2>2 DEF Posted, Young
  <2> QED BY <1>7, <1>10, <2>3, <2>4, <2>5
<1> QED BY <1>9, <1>10

\* Steps that leave documents, offers and rounds alone.
LEMMA QuietStep ==
  ASSUME TypeInv, HaulInv, HaulScene, Running,
         UNCHANGED <<scene, stage, doc, hauls, offer, round>>,
         turn' \subseteq turn, Writer \in turn => Writer \in turn',
         Assigner \in turn => Assigner \in turn',
         \A j \in Trucks, o \in Orders :
           /\ Fresh(j, o) => Fresh(j, o)'
           /\ Near(j, o) => Near(j, o)'
           /\ Posted(j, o) => Posted(j, o)',
         \A o \in Orders : mail[o] # <<>> => mail'[o] # <<>>
  PROVE  HaulInv'
<1>1. OffersInv /\ LagInv /\ NoOrderHauledTwice
  BY DEF HaulInv
<1>2. OffersInv'
  BY <1>1 DEF OffersInv, InRound
<1>3. \A o \in Orders : InRound(o)' <=> InRound(o)
  BY DEF InRound
<1>4. LagInv'
  <2> SUFFICES ASSUME NEW o \in Orders, hauls[o] >= 1
      PROVE  /\ doc[o].st = "unassigned" /\ Writer \notin turn => \E k \in Trucks : Fresh(k, o)'
             /\ doc[o].st = "unassigned" \/ InRound(o) => \E k \in Trucks : Near(k, o)'
             /\ doc[o].st = "unassigned" => mail'[o] # <<>> \/ \E k \in Trucks : Posted(k, o)'
    BY <1>3 DEF LagInv
  <2> QED BY <1>1, Zenon DEF LagInv
<1>5. NoOrderHauledTwice'
  BY <1>1 DEF NoOrderHauledTwice
<1> QED BY <1>2, <1>4, <1>5 DEF HaulInv

LEMMA AssignmentKeepsHauls ==
  ASSUME TypeInv, HaulInv, HaulScene, NEW k \in Trucks, HandleAssignment(k)
  PROVE  HaulInv'
<1>1. /\ Running /\ offer[k] # <<>> /\ Head(offer[k]) \in Orders
      /\ offer' = [offer EXCEPT ![k] = Tail(@)]
      /\ UNCHANGED <<scene, stage, turn, round, doc>>
      /\ Dropped(k) \/ Lost \/ \E bad : Accepted(k, Head(offer[k]), bad)
  BY AssignmentFacts DEF orderVars
<1>2. OffersInv /\ LagInv /\ NoOrderHauledTwice
  BY <1>1 DEF HaulInv
<1>3. PICK o \in Orders : offer[k] = <<o>> /\ hauls[o] = 0 /\ doc[o].st # "created"
  BY <1>1, <1>2 DEF OffersInv
<1>4. Head(offer[k]) = o /\ Tail(offer[k]) = <<>>
  BY <1>3
<1>5. offer \in [Trucks -> Seq(Orders)] /\ hauls \in [Orders -> Nat]
      /\ mail \in [Orders -> Seq(OrderNews)]
  BY DEF TypeInv, TruckTypes, OrderTypes
<1>6. offer'[k] = <<>> /\ \A j \in Trucks : j # k => offer'[j] = offer[j]
  BY <1>1, <1>4, <1>5
<1>7. round = NoRound /\ round' = NoRound
  BY <1>1, <1>2 DEF OffersInv
<1>8. \A j \in Trucks : j # k /\ offer[j] # <<>> => offer[j] # offer[k]
  BY <1>1, <1>2 DEF OffersInv
<1>9. CASE Dropped(k) \/ Lost
  <2>1. UNCHANGED <<trip, hauls, mail>>
    BY <1>9 DEF Dropped, Lost
  <2>2. OffersInv'
    BY <1>1, <1>2, <1>6, <1>7, <2>1 DEF OffersInv, InRound
  <2>3. LagInv'
    BY <1>1, <1>2, <1>7, <2>1 DEF LagInv, InRound, Fresh, Near, Posted, Carries
  <2> QED BY <1>2, <2>1, <2>2, <2>3 DEF HaulInv, NoOrderHauledTwice
<1>10. ASSUME NEW bad, Accepted(k, Head(offer[k]), bad) PROVE HaulInv'
  <2> DEFINE w == ApplyTripTransitionAndNotify(NewTrip(o), "assign", bad)
  <2>1. /\ trip[k] = NoTrip /\ Published(k, w) /\ hauls' = [hauls EXCEPT ![o] = @ + 1]
    BY <1>4, <1>10 DEF Accepted
  <2>2. PICK t0 \in Trips :
          /\ w \in Tells(t0)
          /\ \/ w.trip = [st |-> "created", ord |-> o] /\ w.orders = <<>>
             \/ w.trip = [st |-> "assigned", ord |-> o] /\ w.orders = <<"assigned">>
    BY AssignTells
  <2> HIDE DEF w
  <2>3. w \in Spoken /\ (w.trip = NoTrip => w.orders = <<>>)
    BY <2>2, TellsFacts
  <2>4. /\ trip'[k] = w.trip /\ \A j \in Trucks : j # k => trip'[j] = trip[j]
        /\ \A p \in Orders : mail'[p] = IF w.trip # NoTrip /\ w.trip.ord = p
                                        THEN mail[p] \o w.orders ELSE mail[p]
    BY <2>1, <2>3, PublishedFacts
  <2>5. w.trip # NoTrip /\ w.trip.ord = o /\ w.trip.st \in {"created", "assigned"}
    BY <2>2 DEF NoTrip
  <2>6. Fresh(k, o)' /\ Near(k, o)'
    BY <2>4, <2>5 DEF Fresh, Near, Carries, Young
  <2>7. Posted(k, o)' \/ mail'[o] # <<>>
    <3>1. CASE w.trip.st = "created"
      BY <2>4, <2>5, <3>1 DEF Posted, Carries
    <3>2. CASE w.orders = <<"assigned">>
      <4>1. mail'[o] = mail[o] \o <<"assigned">> /\ mail[o] \in Seq(OrderNews)
        BY <1>5, <2>4, <2>5, <3>2
      <4>2. "assigned" \in OrderNews
        BY DEF OrderNews
      <4> QED BY <4>1, <4>2
    <3> QED BY <2>2, <3>1, <3>2
  <2>8. hauls'[o] = 1 /\ \A p \in Orders : p # o => hauls'[p] = hauls[p] /\ mail'[p] = mail[p]
    BY <1>3, <1>5, <2>1, <2>4, <2>5
  <2>9. \A j \in Trucks, p \in Orders : /\ Fresh(j, p) => Fresh(j, p)'
                                        /\ Near(j, p) => Near(j, p)'
                                        /\ Posted(j, p) => Posted(j, p)'
    BY <1>1, <2>1, <2>4 DEF Fresh, Near, Posted, Carries
  <2>10. OffersInv'
    <3>1. \A j \in Trucks : offer'[j] # <<>> =>
            \E p \in Orders : offer'[j] = <<p>> /\ hauls'[p] = 0 /\ doc'[p].st # "created"
      <4> SUFFICES ASSUME NEW j \in Trucks, offer'[j] # <<>>
          PROVE \E p \in Orders : offer'[j] = <<p>> /\ hauls'[p] = 0 /\ doc'[p].st # "created"
        OBVIOUS
      <4>1. j # k /\ offer'[j] = offer[j]
        BY <1>6
      <4>2. PICK p \in Orders : offer[j] = <<p>> /\ hauls[p] = 0 /\ doc[p].st # "created"
        BY <1>2, <4>1 DEF OffersInv
      <4>3. p # o
        BY <1>3, <1>8, <4>1, <4>2
      <4> QED BY <1>1, <2>8, <4>1, <4>2, <4>3
    <3>2. \A i, j \in Trucks : offer'[i] = offer'[j] /\ offer'[i] # <<>> => i = j
      BY <1>2, <1>6 DEF OffersInv
    <3>3. \A p \in Orders : hauls'[p] >= 1 \/ InRound(p)' => doc'[p].st # "created"
      BY <1>1, <1>2, <1>3, <1>7, <2>8 DEF OffersInv, InRound
    <3> QED BY <1>7, <3>1, <3>2, <3>3 DEF OffersInv
  <2>11. LagInv'
    <3> SUFFICES ASSUME NEW p \in Orders, hauls'[p] >= 1
        PROVE  /\ doc[p].st = "unassigned" /\ Writer \notin turn => \E j \in Trucks : Fresh(j, p)'
               /\ doc[p].st = "unassigned" => \E j \in Trucks : Near(j, p)'
               /\ doc[p].st = "unassigned" => mail'[p] # <<>> \/ \E j \in Trucks : Posted(j, p)'
      BY <1>1, <1>7 DEF LagInv, InRound
    <3>1. CASE p = o
      BY <2>6, <2>7, <3>1
    <3>2. CASE p # o
      <4>1. hauls[p] >= 1 /\ mail'[p] = mail[p]
        BY <2>8, <3>2
      <4> QED BY <1>2, <2>9, <4>1 DEF LagInv
    <3> QED BY <3>1, <3>2
  <2>12. NoOrderHauledTwice'
    BY <1>2, <2>8 DEF NoOrderHauledTwice
  <2> QED BY <2>10, <2>11, <2>12 DEF HaulInv
<1> QED BY <1>1, <1>9, <1>10

LEMMA WriterKeepsHauls ==
  ASSUME TypeInv, HaulInv, HaulScene, WriterStep
  PROVE  HaulInv'
<1>1. /\ Acts(Writer) /\ mail' = [o \in Orders |-> <<>>] /\ doc' \in [Orders -> Docs]
      /\ UNCHANGED <<scene, stage, trip, hauls, offer, round>>
  BY WriterFacts DEF truckVars
<1>2. Running /\ turn' = turn \ {Writer}
  BY <1>1 DEF Acts
<1>3. OffersInv /\ LagInv /\ NoOrderHauledTwice
  BY <1>2 DEF HaulInv
<1>4. PICK known, lost \in BOOLEAN : \A o \in Orders : WriterEffect(o, known, lost)
  BY WriterFacts
<1>5. ASSUME NEW o \in Orders
      PROVE  /\ doc[o].st # "created" => doc'[o].st # "created"
             /\ doc[o].st # "created" /\ doc'[o].st = "unassigned" =>
                  doc[o].st = "unassigned" /\ mail[o] = <<>>
  <2> DEFINE a == ApplyEvents(doc[o], mail[o], known)
  <2>0. doc[o] \in Docs /\ mail[o] \in Seq(OrderNews)
    BY DEF TypeInv, OrderTypes
  <2>1. /\ a \in Docs
        /\ a = doc[o] \/ \E i \in 1 .. Len(mail[o]) : a.st = mail[o][i]
        /\ doc[o].st \notin Terminal /\ mail[o] # <<>> =>
             \E i \in 1 .. Len(mail[o]) : a.st = mail[o][i]
    BY <2>0, ApplyEventsFacts
  <2>2. \/ doc'[o] = a
        \/ a.st = "created" /\ doc'[o] = [st |-> "unassigned", why |-> a.why]
        \/ a.st = "unassigned" /\ doc'[o] = [st |-> "cancelled", why |-> "overdue"]
    BY <1>4 DEF WriterEffect
  <2> HIDE DEF a
  <2>3. \A i \in 1 .. Len(mail[o]) : mail[o][i] \in OrderNews
    BY <2>0
  <2>4. a = doc[o] \/ a.st \in OrderNews
    BY <2>1, <2>3
  <2>5. doc[o].st = "unassigned" /\ mail[o] # <<>> => a.st \in OrderNews
    BY <2>1, <2>3 DEF Terminal
  <2> QED BY <2>2, <2>4, <2>5 DEF OrderNews
<1>6. \A o \in Orders : InRound(o)' <=> InRound(o)
  BY <1>1 DEF InRound
<1>7. OffersInv'
  <2>1. round' # NoRound => Assigner \in turn' /\ \A k \in Trucks : offer'[k] = <<>>
    BY <1>1, <1>2, <1>3 DEF OffersInv, Assigner, Writer
  <2>2. \A k \in Trucks : offer'[k] # <<>> =>
          \E o \in Orders : offer'[k] = <<o>> /\ hauls'[o] = 0 /\ doc'[o].st # "created"
    BY <1>1, <1>3, <1>5 DEF OffersInv
  <2>3. \A o \in Orders : hauls'[o] >= 1 \/ InRound(o)' => doc'[o].st # "created"
    BY <1>1, <1>3, <1>5, <1>6 DEF OffersInv
  <2>4. \A j, k \in Trucks : offer'[j] = offer'[k] /\ offer'[j] # <<>> => j = k
    BY <1>1, <1>3 DEF OffersInv
  <2> QED BY <2>1, <2>2, <2>3, <2>4 DEF OffersInv
<1>8. \A k \in Trucks, o \in Orders : /\ Near(k, o) => Near(k, o)'
                                      /\ Posted(k, o) => Posted(k, o)' /\ Fresh(k, o)'
  BY <1>1, <1>2 DEF Near, Posted, Fresh, Carries
<1>9. LagInv'
  <2> SUFFICES ASSUME NEW o \in Orders, hauls[o] >= 1
      PROVE  /\ doc'[o].st = "unassigned" =>
                  (\E k \in Trucks : Fresh(k, o)') /\ (\E k \in Trucks : Posted(k, o)')
             /\ doc'[o].st = "unassigned" \/ InRound(o) => \E k \in Trucks : Near(k, o)'
    BY <1>1, <1>6 DEF LagInv
  <2>1. doc[o].st # "created"
    BY <1>3 DEF OffersInv
  <2>2. doc'[o].st = "unassigned" => doc[o].st = "unassigned" /\ \E k \in Trucks : Posted(k, o)
    BY <1>3, <1>5, <2>1 DEF LagInv
  <2>3. doc'[o].st = "unassigned" \/ InRound(o) => \E k \in Trucks : Near(k, o)
    BY <1>3, <2>2 DEF LagInv
  <2> QED BY <1>8, <2>2, <2>3
<1>10. NoOrderHauledTwice'
  BY <1>1, <1>3 DEF NoOrderHauledTwice
<1> QED BY <1>7, <1>9, <1>10 DEF HaulInv

LEMMA MatchKeepsHauls ==
  ASSUME TypeInv, HaulInv, HaulScene, Match
  PROVE  HaulInv'
<1>1. /\ round # NoRound /\ Acts(Assigner) /\ round' = NoRound
      /\ UNCHANGED <<scene, stage, trip, hauls, mail, doc>>
  BY MatchFacts DEF truckVars, orderVars
<1>2. Running /\ turn' = turn \ {Assigner}
  BY <1>1 DEF Acts
<1>3. OffersInv /\ LagInv /\ NoOrderHauledTwice
  BY <1>2 DEF HaulInv
<1>4. PICK lost \in BOOLEAN, m \in Matchings(round.trucks, round.orders) :
        /\ MayFail("match", lost)
        /\ \A k \in Trucks : offer'[k] = IF k \in DOMAIN m THEN Append(offer[k], m[k]) ELSE offer[k]
        /\ \A k \in DOMAIN m : m[k] \in round.orders /\ m[k] \notin Protected(lost)
        /\ \A j, k \in DOMAIN m : m[j] = m[k] => j = k
  BY MatchFacts
<1>5. ~lost
  BY <1>4 DEF MayFail, CanFail, HaulScene
<1>6. round.orders \subseteq Orders
  BY <1>1 DEF TypeInv, RunTypes
<1>7. ASSUME NEW k \in DOMAIN m PROVE m[k] \in Orders /\ hauls[m[k]] = 0 /\ doc[m[k]].st # "created"
  <2> DEFINE o == m[k]
  <2>1. o \in Orders /\ InRound(o) /\ o \notin OpenHauls
    BY <1>1, <1>4, <1>5, <1>6 DEF InRound, Protected
  <2> HIDE DEF o
  <2>2. doc[o].st # "created"
    BY <1>3, <2>1 DEF OffersInv
  <2>3. ~(hauls[o] >= 1)
    <3> SUFFICES ASSUME hauls[o] >= 1 PROVE FALSE
      OBVIOUS
    <3>1. PICK j \in Trucks : Near(j, o)
      BY <1>3, <2>1 DEF LagInv
    <3>2. trip[j].st \notin Terminal \cup {"none"} /\ trip[j].ord = o
      BY <3>1 DEF Near, Carries, Young, Mid, Terminal
    <3>3. o \in OpenHauls
      BY <3>2 DEF OpenHauls, Hauling
    <3> QED BY <2>1, <3>3
  <2>4. hauls[o] \in Nat
    BY <2>1 DEF TypeInv, TruckTypes
  <2> QED BY <2>1, <2>2, <2>3, <2>4 DEF o
<1>8. \A k \in Trucks : offer[k] = <<>>
  BY <1>1, <1>3 DEF OffersInv
<1>9. \A k \in Trucks : offer'[k] = IF k \in DOMAIN m THEN <<m[k]>> ELSE <<>>
  <2> TAKE k \in Trucks
  <2>1. CASE k \in DOMAIN m
    <3>1. PICK x \in Orders : x = m[k]
      BY <1>7, <2>1
    <3>2. offer'[k] = Append(<<>>, x)
      BY <1>4, <1>8, <2>1, <3>1
    <3>3. Append(<<>>, x) = <<x>>
      OBVIOUS
    <3> QED BY <2>1, <3>1, <3>2, <3>3
  <2>2. CASE k \notin DOMAIN m
    BY <1>4, <1>8, <2>2
  <2> QED BY <2>1, <2>2
<1>10. OffersInv'
  <2>1. \A k \in Trucks : offer'[k] # <<>> =>
          \E o \in Orders : offer'[k] = <<o>> /\ hauls'[o] = 0 /\ doc'[o].st # "created"
    <3> SUFFICES ASSUME NEW k \in Trucks, offer'[k] # <<>>
        PROVE \E o \in Orders : offer'[k] = <<o>> /\ hauls'[o] = 0 /\ doc'[o].st # "created"
      OBVIOUS
    <3>1. k \in DOMAIN m /\ offer'[k] = <<m[k]>>
      BY <1>9
    <3>2. m[k] \in Orders /\ hauls'[m[k]] = 0 /\ doc'[m[k]].st # "created"
      BY <1>1, <1>7, <3>1
    <3> QED BY <3>1, <3>2
  <2>2. \A j, k \in Trucks : offer'[j] = offer'[k] /\ offer'[j] # <<>> => j = k
    <3> SUFFICES ASSUME NEW j \in Trucks, NEW k \in Trucks, offer'[j] = offer'[k], offer'[j] # <<>>
        PROVE j = k
      OBVIOUS
    <3>1. j \in DOMAIN m /\ k \in DOMAIN m /\ <<m[j]>> = <<m[k]>>
      BY <1>9
    <3>2. m[j] = m[k]
      BY <3>1
    <3> QED BY <1>4, <3>1, <3>2
  <2>3. \A o \in Orders : hauls'[o] >= 1 \/ InRound(o)' => doc'[o].st # "created"
    BY <1>1, <1>3 DEF OffersInv, InRound
  <2> QED BY <1>1, <2>1, <2>2, <2>3 DEF OffersInv
<1>11. \A k \in Trucks, o \in Orders : /\ Near(k, o) => Near(k, o)'
                                       /\ Posted(k, o) => Posted(k, o)'
                                       /\ Fresh(k, o) => Fresh(k, o)'
  BY <1>1, <1>2 DEF Near, Posted, Fresh, Carries
<1>12. LagInv'
  <2> SUFFICES ASSUME NEW o \in Orders, hauls[o] >= 1, doc[o].st = "unassigned"
      PROVE  /\ Writer \notin turn => \E k \in Trucks : Fresh(k, o)'
             /\ \E k \in Trucks : Near(k, o)'
             /\ mail[o] # <<>> \/ \E k \in Trucks : Posted(k, o)'
    BY <1>1, <1>2 DEF LagInv, InRound, Writer, Assigner
  <2> QED BY <1>3, <1>11 DEF LagInv
<1>13. NoOrderHauledTwice'
  BY <1>1, <1>3 DEF NoOrderHauledTwice
<1> QED BY <1>10, <1>12, <1>13 DEF HaulInv

LEMMA TickKeepsHauls ==
  ASSUME TypeInv, RecordInv, HaulInv, HaulScene, Tick
  PROVE  HaulInv'
<1>1. /\ Running /\ turn \cap Alive = {} /\ turn' = Alive
      /\ UNCHANGED <<scene, stage, trip, hauls, mail, doc, offer, round>>
  BY DEF Tick, truckVars, orderVars
<1>2. OffersInv /\ LagInv /\ NoOrderHauledTwice
  BY <1>1 DEF HaulInv
<1>3. Writer \in Alive /\ Assigner \in Alive
  <2>1. Writer \in live /\ Writer \in OrderAgents
    BY <1>1, Zenon DEF OrderAgents, RecordInv, HaulScene
  <2> QED BY <2>1 DEF Alive
<1>4. round = NoRound /\ Writer \notin turn /\ Writer \in turn'
  BY <1>1, <1>2, <1>3 DEF OffersInv
<1>5. OffersInv'
  BY <1>1, <1>2, <1>4 DEF OffersInv, InRound
<1>6. \A k \in Trucks, o \in Orders : /\ Fresh(k, o) => Near(k, o)'
                                      /\ Posted(k, o) => Posted(k, o)'
  BY <1>1 DEF Near, Posted, Fresh, Carries, Young
<1>7. LagInv'
  <2> SUFFICES ASSUME NEW o \in Orders, hauls[o] >= 1, doc[o].st = "unassigned"
      PROVE  /\ \E k \in Trucks : Near(k, o)'
             /\ mail[o] # <<>> \/ \E k \in Trucks : Posted(k, o)'
    BY <1>1, <1>4 DEF LagInv, InRound
  <2> QED BY <1>2, <1>4, <1>6 DEF LagInv
<1>8. NoOrderHauledTwice'
  BY <1>1, <1>2 DEF NoOrderHauledTwice
<1> QED BY <1>5, <1>7, <1>8 DEF HaulInv

LEMMA HaulsKept ==
  ASSUME Punctual, TypeInv, RecordInv, HaulInv, [Next]_vars
  PROVE  HaulInv'
<1>0. scene' = scene
  BY SceneFixed
<1> SUFFICES ASSUME HaulScene PROVE HaulInv'
  BY <1>0 DEF HaulInv, HaulScene, mode
<1>1. ASSUME NEW k \in Trucks, HandleAssignment(k) PROVE HaulInv'
  BY <1>1, AssignmentKeepsHauls
<1>2. ASSUME NEW a \in Trucks \cup Facilities, Acts(a)
      PROVE  /\ Running /\ turn' \subseteq turn /\ (Writer \in turn => Writer \in turn')
             /\ Assigner \in turn => Assigner \in turn'
  BY <1>2, HaulageConstants DEF Acts, Writer, Assigner
<1>3. ASSUME NEW k \in Trucks, TruckStep(k) PROVE HaulInv'
  <2>1. Acts(k) /\ UNCHANGED <<scene, stage, doc, hauls, offer, round>>
    BY <1>3 DEF TruckStep, orderVars
  <2>2. /\ Running /\ turn' \subseteq turn /\ (Writer \in turn => Writer \in turn')
        /\ Assigner \in turn => Assigner \in turn'
    BY <1>2, <2>1
  <2>3. \A j \in Trucks, o \in Orders :
           /\ Fresh(j, o) => Fresh(j, o)'
           /\ Near(j, o) => Near(j, o)'
           /\ Posted(j, o) => Posted(j, o)'
    BY <1>3, TruckKeepsLag
  <2>4. \A o \in Orders : mail[o] # <<>> => mail'[o] # <<>>
    BY <1>3, TruckKeepsLag
  <2> QED BY <2>1, <2>2, <2>3, <2>4, QuietStep
<1>4. ASSUME NEW k \in Trucks, TruckWaits(k) \/ TruckLeaves(k) PROVE HaulInv'
  <2>1. Acts(k) /\ UNCHANGED <<scene, stage, doc, hauls, offer, round, mail>>
    BY <1>4 DEF TruckWaits, TruckLeaves, orderVars, truckVars
  <2>2. /\ Running /\ turn' \subseteq turn /\ (Writer \in turn => Writer \in turn')
        /\ Assigner \in turn => Assigner \in turn'
    BY <1>2, <2>1
  <2>3. \A j \in Trucks : trip'[j] = trip[j] \/ trip[j].st \notin Young \cup Mid
    <3>1. CASE TruckWaits(k)
      BY <3>1 DEF TruckWaits, truckVars
    <3>2. CASE TruckLeaves(k)
      <4>1. trip' = [trip EXCEPT ![k] = NoTrip] /\ (trip[k].st \in Terminal \/ trip[k] = NoTrip)
        BY <3>2 DEF TruckLeaves, OffShift, Held
      <4>2. trip[k].st \notin Young \cup Mid
        BY <4>1 DEF Terminal, NoTrip, Young, Mid
      <4> QED BY <4>1, <4>2 DEF TypeInv, TruckTypes
    <3> QED BY <1>4, <3>1, <3>2
  <2>4. \A j \in Trucks, o \in Orders :
           /\ Fresh(j, o) => Fresh(j, o)'
           /\ Near(j, o) => Near(j, o)'
           /\ Posted(j, o) => Posted(j, o)'
    BY <2>2, <2>3 DEF Fresh, Near, Posted, Carries, Young
  <2> QED BY <2>1, <2>2, <2>4, QuietStep
<1>5. ASSUME NEW f \in Facilities, NEW due \in SUBSET ends[f], FacilityStep(f, due) PROVE HaulInv'
  <2>1. Acts(f) /\ UNCHANGED <<scene, stage, doc, hauls, offer, round, mail, trip>>
    BY <1>5, FacilityFacts DEF FacilityOutcome, orderVars, truckVars
  <2>2. /\ Running /\ turn' \subseteq turn /\ (Writer \in turn => Writer \in turn')
        /\ Assigner \in turn => Assigner \in turn'
    BY <1>2, <2>1
  <2>3. \A j \in Trucks, o \in Orders :
           /\ Fresh(j, o) => Fresh(j, o)'
           /\ Near(j, o) => Near(j, o)'
           /\ Posted(j, o) => Posted(j, o)'
    BY <2>1, <2>2 DEF Fresh, Near, Posted, Carries
  <2> QED BY <2>1, <2>2, <2>3, QuietStep
<1>6. ASSUME WriterStep PROVE HaulInv'
  BY <1>6, WriterKeepsHauls
<1>7. ASSUME ReadMarket PROVE HaulInv'
  <2>1. /\ Running /\ Assigner \in turn /\ (\A k \in Trucks : offer[k] = <<>>)
        /\ round' = [ph |-> "read", trucks |-> online,
                     orders |-> {o \in Orders : doc[o].st = "unassigned"}]
        /\ UNCHANGED <<scene, stage, turn, trip, offer, mail, doc, hauls>>
    BY <1>7 DEF ReadMarket, truckVars, orderVars
  <2>2. OffersInv /\ LagInv /\ NoOrderHauledTwice
    BY <2>1 DEF HaulInv
  <2>3. \A o \in Orders : InRound(o)' => doc[o].st = "unassigned"
    BY <2>1 DEF InRound
  <2>4. OffersInv'
    BY <2>1, <2>2, <2>3 DEF OffersInv
  <2>5. \A j \in Trucks, o \in Orders :
           (Fresh(j, o) => Fresh(j, o)') /\ (Near(j, o) => Near(j, o)')
           /\ (Posted(j, o) => Posted(j, o)')
    BY <2>1 DEF Fresh, Near, Posted, Carries
  <2>6. LagInv'
    <3> SUFFICES ASSUME NEW o \in Orders, hauls[o] >= 1, doc[o].st = "unassigned"
        PROVE  /\ Writer \notin turn => \E k \in Trucks : Fresh(k, o)'
               /\ \E k \in Trucks : Near(k, o)'
               /\ mail[o] # <<>> \/ \E k \in Trucks : Posted(k, o)'
      BY <2>1, <2>3 DEF LagInv
    <3> QED BY <2>2, <2>5 DEF LagInv
  <2> QED BY <2>1, <2>2, <2>4, <2>6 DEF HaulInv, NoOrderHauledTwice
<1>8. ASSUME Match PROVE HaulInv'
  BY <1>8, MatchKeepsHauls
<1>9. ASSUME Tick PROVE HaulInv'
  BY <1>9, TickKeepsHauls
<1>10. ASSUME UNCHANGED <<hauls>>, ~Running' PROVE HaulInv'
  BY <1>10 DEF HaulInv, NoOrderHauledTwice
<1>11. ASSUME \/ WriterCloses \/ FinalStep \/ BulkCancel
              \/ \E k \in Trucks : TruckCloses(k)
              \/ \E o \in Orders : OrderCloses(o)
       PROVE  HaulInv'
  BY <1>10, <1>11 DEF WriterCloses, FinalStep, BulkCancel, TruckCloses, OrderCloses, truckVars, Running
<1>12. ASSUME NEW o \in Orders, OrderAgentStep(o) PROVE HaulInv'
  BY <1>12 DEF OrderAgentStep, HaulScene
<1>13. ASSUME Horizon PROVE HaulInv'
  BY <1>13 DEF Horizon, HaulInv, Running, OffersInv, LagInv, NoOrderHauledTwice, InRound, Fresh, Near,
               Posted, Carries, truckVars, orderVars
<1>14. CASE UNCHANGED vars
  BY <1>14 DEF vars, HaulInv, HaulScene, mode, Running, OffersInv, LagInv, NoOrderHauledTwice, InRound,
               Fresh, Near, Posted, Carries
<1> QED
  BY <1>1, <1>3, <1>4, <1>5, <1>6, <1>7, <1>8, <1>9, <1>11, <1>12, <1>13, <1>14 DEF Next

\* The open-haul exclusion of the matching round works although the order documents lag behind
\* the trucks: with the batch writer, and as long as assignments arrive before the next round
\* and the query for open hauls does not fail, no order is ever given a second trip.
THEOREM NoOrderHauledTwiceAlways ==
  ASSUME Punctual
  PROVE  Spec => [](HaulScene => NoOrderHauledTwice)
<1>1. Init => TypeInv /\ RecordInv /\ HaulInv
  <2> SUFFICES ASSUME Init PROVE HaulInv
    BY InitTyped
  <2>1. /\ round = NoRound /\ (\A k \in Trucks : offer[k] = <<>>) /\ \A o \in Orders : hauls[o] = 0
    BY DEF Init
  <2> QED BY <2>1 DEF HaulInv, NoOrderHauledTwice, OffersInv, LagInv, InRound
<1>2. TypeInv /\ RecordInv /\ HaulInv /\ [Next]_vars => (TypeInv /\ RecordInv /\ HaulInv)'
  BY TypesKept, RecordsKept, HaulsKept
<1>3. HaulInv => (HaulScene => NoOrderHauledTwice)
  BY DEF HaulInv
<1> QED BY <1>1, <1>2, <1>3, PTL DEF Spec

-----------------------------------------------------------------------------
(* The order documents implement OrderLifecycle.                           *)

\* With one trip per order, its news come in the order of the haul: the document, then the
\* events on their way, then the trip itself are never the wrong way round.
CarrierInv ==
  /\ \A k \in Trucks, o \in Orders : Carries(k, o) => hauls[o] >= 1
  /\ \A j, k \in Trucks, o \in Orders : Carries(j, o) /\ Carries(k, o) /\ j # k => hauls[o] >= 2
NothingYet == \A o \in Orders : hauls[o] = 0 =>
  mail[o] = <<>> /\ doc[o].st \in {"created", "unassigned", "cancelled"}
UpTo(o, r) ==
  /\ doc[o].st = "cancelled" \/ Pos[doc[o].st] <= r
  /\ \A i \in 1 .. Len(mail[o]) : Pos[mail[o][i]] <= r
TripAhead == \A k \in Trucks, o \in Orders :
  hauls[o] <= 1 /\ Carries(k, o) => UpTo(o, TripRank[trip[k].st])
NewsAhead == \A o \in Orders : hauls[o] <= 1 =>
  doc[o].st = "cancelled" \/ \A i \in 1 .. Len(mail[o]) : Pos[doc[o].st] <= Pos[mail[o][i]]
RankInv == CarrierInv /\ (mode = "service" => NothingYet /\ TripAhead /\ NewsAhead)

\* A truck speaks: of the order it carries, at or ahead of where its trip was.
LEMMA SpeakKeepsRank ==
  ASSUME TypeInv, RankInv, NEW k \in Trucks, NEW w \in Spoken, w.trip = NoTrip => w.orders = <<>>,
         Published(k, w), UNCHANGED <<scene, doc, hauls>>,
         w.trip # NoTrip =>
           /\ trip[k] # NoTrip /\ w.trip.ord = trip[k].ord
           /\ TripRank[trip[k].st] <= TripRank[w.trip.st]
           /\ \A i \in 1 .. Len(w.orders) : TripRank[trip[k].st] <= Pos[w.orders[i]]
                                            /\ Pos[w.orders[i]] <= TripRank[w.trip.st]
  PROVE  RankInv'
<1>1. /\ trip' \in [Trucks -> {NoTrip} \cup Trips]
      /\ trip'[k] = w.trip /\ \A j \in Trucks : j # k => trip'[j] = trip[j]
      /\ mail' \in [Orders -> Seq(OrderNews)]
      /\ \A o \in Orders : mail'[o] = IF w.trip # NoTrip /\ w.trip.ord = o
                                      THEN mail[o] \o w.orders ELSE mail[o]
  BY PublishedFacts
<1>2. \A j \in Trucks, o \in Orders : Carries(j, o)' => Carries(j, o)
  BY <1>1 DEF Carries
<1>3. CarrierInv'
  BY <1>2 DEF RankInv, CarrierInv
<1> SUFFICES ASSUME mode = "service" PROVE (NothingYet /\ TripAhead /\ NewsAhead)'
  BY <1>3 DEF RankInv, mode
<1>4. CarrierInv /\ NothingYet /\ TripAhead /\ NewsAhead
  BY DEF RankInv
<1>5. trip \in [Trucks -> {NoTrip} \cup Trips] /\ w.trip \in {NoTrip} \cup Trips
      /\ w.orders \in Seq(OrderNews) /\ mail \in [Orders -> Seq(OrderNews)]
      /\ doc \in [Orders -> Docs]
  BY DEF TypeInv, TruckTypes, OrderTypes, Spoken
<1>6. \A o \in Orders : mail'[o] = mail[o] \/ (/\ Carries(k, o) /\ Carries(k, o)'
                                               /\ mail'[o] = mail[o] \o w.orders)
  BY <1>1 DEF Carries
<1>7. NothingYet'
  <2> SUFFICES ASSUME NEW o \in Orders, hauls[o] = 0
      PROVE  mail'[o] = <<>> /\ doc[o].st \in {"created", "unassigned", "cancelled"}
    BY DEF NothingYet
  <2>1. ~Carries(k, o)
    BY <1>4 DEF CarrierInv
  <2> QED BY <1>4, <1>6, <2>1 DEF NothingYet
\* The events of a mailbox with the new ones behind.
<1>8. ASSUME NEW o \in Orders, NEW i \in 1 .. Len(mail'[o])
      PROVE  \/ i \in 1 .. Len(mail[o]) /\ mail'[o][i] = mail[o][i]
             \/ /\ Carries(k, o) /\ Carries(k, o)'
                /\ \E j \in 1 .. Len(w.orders) : mail'[o][i] = w.orders[j]
  <2>1. CASE mail'[o] = mail[o]
    BY <2>1
  <2>2. CASE Carries(k, o) /\ Carries(k, o)' /\ mail'[o] = mail[o] \o w.orders
    <3>1. PICK a \in Seq(OrderNews) : a = mail[o]
      BY <1>5
    <3>2. PICK b \in Seq(OrderNews) : b = w.orders
      BY <1>5
    <3>3. PICK m \in Nat : m = Len(a)
      OBVIOUS
    <3>4. PICK n \in Nat : n = Len(b)
      OBVIOUS
    <3>5. i \in 1 .. m + n /\ mail'[o] = a \o b
      <4>1. mail'[o] = a \o b
        BY <2>2, <3>1, <3>2
      <4>2. Len(a \o b) = m + n
        BY <3>3, <3>4
      <4> QED BY <4>1, <4>2
    <3>6. CASE i <= m
      <4>1. i \in 1 .. Len(a) /\ (a \o b)[i] = a[i]
        BY <3>3, <3>4, <3>5, <3>6
      <4> QED BY <3>1, <3>5, <4>1
    <3>7. CASE i > m
      <4>1. i - m \in 1 .. Len(b) /\ (a \o b)[i] = b[i - m]
        BY <3>3, <3>4, <3>5, <3>7
      <4> QED BY <2>2, <3>2, <3>5, <4>1
    <3> QED BY <3>3, <3>5, <3>6, <3>7
  <2> QED BY <1>6, <2>1, <2>2
<1>9. \A j \in Trucks : trip[j] # NoTrip => TripRank[trip[j].st] \in Int
  <2>1. \A j \in Trucks : trip[j] # NoTrip => trip[j].st \in TripSt
    BY <1>5 DEF Trips
  <2> QED BY <2>1, RankOfTrip
<1>10. w.trip # NoTrip => TripRank[w.trip.st] \in Int
  <2>1. w.trip # NoTrip => w.trip.st \in TripSt
    BY <1>5 DEF Trips
  <2> QED BY <2>1, RankOfTrip
<1>11. \A o \in Orders : /\ Pos[doc[o].st] \in Int
                         /\ \A i \in 1 .. Len(mail[o]) : Pos[mail[o][i]] \in Int
  <2>1. \A o \in Orders : doc[o].st \in BookStates /\ \A i \in 1 .. Len(mail[o]) : mail[o][i] \in OrderNews
    BY <1>5 DEF Docs
  <2> QED BY <2>1, PosOfState, PosOfNews
<1>12. \A i \in 1 .. Len(w.orders) : Pos[w.orders[i]] \in Int
  <2>1. \A i \in 1 .. Len(w.orders) : w.orders[i] \in OrderNews
    BY <1>5
  <2> QED BY <2>1, PosOfNews
<1>13. TripAhead'
  <2> SUFFICES ASSUME NEW j \in Trucks, NEW o \in Orders, hauls[o] <= 1, Carries(j, o)'
      PROVE  /\ doc[o].st = "cancelled" \/ Pos[doc[o].st] <= TripRank[trip'[j].st]
             /\ \A i \in 1 .. Len(mail'[o]) : Pos[mail'[o][i]] <= TripRank[trip'[j].st]
    BY DEF TripAhead, UpTo
  <2>1. Carries(j, o) /\ UpTo(o, TripRank[trip[j].st])
    BY <1>2, <1>4 DEF TripAhead
  <2>2. hauls[o] \in Nat
    BY DEF TypeInv, TruckTypes
  <2>3. CASE j # k
    <3>1. ~Carries(k, o)
      BY <1>4, <2>1, <2>2, <2>3 DEF CarrierInv
    <3>2. mail'[o] = mail[o] /\ trip'[j] = trip[j]
      BY <1>1, <1>6, <2>3, <3>1
    <3> QED BY <2>1, <3>2 DEF UpTo
  <2>4. CASE j = k
    <3>1. /\ w.trip # NoTrip /\ trip[k] # NoTrip /\ trip'[k] = w.trip
          /\ TripRank[trip[k].st] <= TripRank[w.trip.st]
      BY <1>1, <2>4 DEF Carries
    <3>2. ASSUME NEW i \in 1 .. Len(mail'[o]) PROVE Pos[mail'[o][i]] <= TripRank[w.trip.st]
      <4>1. CASE i \in 1 .. Len(mail[o]) /\ mail'[o][i] = mail[o][i]
        BY <1>9, <1>10, <1>11, <2>1, <2>4, <3>1, <4>1 DEF UpTo
      <4>2. ASSUME NEW h \in 1 .. Len(w.orders), mail'[o][i] = w.orders[h]
            PROVE  Pos[mail'[o][i]] <= TripRank[w.trip.st]
        BY <3>1, <4>2
      <4> QED BY <1>8, <4>1, <4>2
    <3>3. doc[o].st = "cancelled" \/ Pos[doc[o].st] <= TripRank[w.trip.st]
      BY <1>9, <1>10, <1>11, <2>1, <2>4, <3>1 DEF UpTo
    <3> QED BY <2>4, <3>1, <3>2, <3>3
  <2> QED BY <2>3, <2>4
<1>14. NewsAhead'
  <2> SUFFICES ASSUME NEW o \in Orders, hauls[o] <= 1, doc[o].st # "cancelled",
                      NEW i \in 1 .. Len(mail'[o])
      PROVE  Pos[doc[o].st] <= Pos[mail'[o][i]]
    BY DEF NewsAhead
  <2>1. CASE i \in 1 .. Len(mail[o]) /\ mail'[o][i] = mail[o][i]
    BY <1>4, <2>1 DEF NewsAhead
  <2>2. ASSUME Carries(k, o), Carries(k, o)', NEW h \in 1 .. Len(w.orders), mail'[o][i] = w.orders[h]
        PROVE  Pos[doc[o].st] <= Pos[mail'[o][i]]
    <3>1. Pos[doc[o].st] <= TripRank[trip[k].st]
      BY <1>4, <2>2 DEF TripAhead, UpTo
    <3>2. w.trip # NoTrip /\ trip[k] # NoTrip
      BY <1>1, <2>2 DEF Carries
    <3>3. TripRank[trip[k].st] <= Pos[w.orders[h]]
      BY <3>2
    <3> QED BY <1>9, <1>11, <1>12, <2>2, <3>1, <3>2, <3>3
  <2> QED BY <1>8, <2>1, <2>2
<1> QED BY <1>7, <1>13, <1>14

\* A drain of the writer moves the document up to one of its events, or to where it was.
LEMMA DrainKeepsRank ==
  ASSUME TypeInv, RankInv, mode = "service", UNCHANGED <<scene, trip, hauls>>,
         mail' = [o \in Orders |-> <<>>],
         \A o \in Orders :
           \E known \in BOOLEAN : LET a == ApplyEvents(doc[o], mail[o], known)
             IN \/ doc'[o] = a
                \/ a.st = "created" /\ doc'[o].st = "unassigned"
                \/ a.st = "unassigned" /\ doc'[o].st = "cancelled"
  PROVE  RankInv'
<1>1. CarrierInv'
  BY DEF RankInv, CarrierInv, Carries
<1>2. NothingYet /\ TripAhead
  BY DEF RankInv
<1>3. ASSUME NEW o \in Orders
      PROVE  \/ doc'[o] = doc[o]
             \/ doc[o].st = "created" /\ doc'[o].st = "unassigned"
             \/ doc[o].st = "unassigned" /\ doc'[o].st = "cancelled"
             \/ \E i \in 1 .. Len(mail[o]) : doc'[o].st = mail[o][i]
  <2>1. PICK known \in BOOLEAN : LET a == ApplyEvents(doc[o], mail[o], known)
             IN \/ doc'[o] = a
                \/ a.st = "created" /\ doc'[o].st = "unassigned"
                \/ a.st = "unassigned" /\ doc'[o].st = "cancelled"
    OBVIOUS
  <2> DEFINE a == ApplyEvents(doc[o], mail[o], known)
  <2>2. doc[o] \in Docs /\ mail[o] \in Seq(OrderNews)
    BY DEF TypeInv, OrderTypes
  <2>3. a = doc[o] \/ \E i \in 1 .. Len(mail[o]) : a.st = mail[o][i]
    BY <2>2, ApplyEventsFacts
  <2>4. \/ doc'[o] = a
        \/ a.st = "created" /\ doc'[o].st = "unassigned"
        \/ a.st = "unassigned" /\ doc'[o].st = "cancelled"
    BY <2>1
  <2> HIDE DEF a
  <2>5. \A i \in 1 .. Len(mail[o]) : mail[o][i] \in OrderNews
    BY <2>2
  <2>6. a = doc[o] \/ a.st \in OrderNews
    BY <2>3, <2>5
  <2> QED BY <2>3, <2>4, <2>6 DEF OrderNews
<1>4. \A o \in Orders : mail'[o] = <<>>
  OBVIOUS
<1>5. NothingYet'
  <2> SUFFICES ASSUME NEW o \in Orders, hauls[o] = 0
      PROVE  doc'[o].st \in {"created", "unassigned", "cancelled"}
    BY <1>4 DEF NothingYet
  <2>1. mail[o] = <<>> /\ doc[o].st \in {"created", "unassigned", "cancelled"}
    BY <1>2 DEF NothingYet
  <2>2. ~\E i \in 1 .. Len(mail[o]) : TRUE
    BY <2>1
  <2> QED BY <1>3, <2>1, <2>2
<1>6. TripAhead'
  <2> SUFFICES ASSUME NEW k \in Trucks, NEW o \in Orders, hauls[o] <= 1, Carries(k, o)
      PROVE  doc'[o].st = "cancelled" \/ Pos[doc'[o].st] <= TripRank[trip[k].st]
    BY <1>4 DEF TripAhead, UpTo, Carries
  <2>1. UpTo(o, TripRank[trip[k].st])
    BY <1>2 DEF TripAhead
  <2>2. trip[k].st \in TripSt
    BY DEF Carries, TypeInv, TruckTypes, Trips
  <2>3. TripRank[trip[k].st] \in 2 .. 8
    BY <2>2, RankOfTrip
  <2>4. Pos["unassigned"] = 2
    BY DEF Pos
  <2> QED BY <1>3, <2>1, <2>3, <2>4 DEF UpTo
<1>7. NewsAhead'
  BY <1>4 DEF NewsAhead
<1> QED BY <1>1, <1>5, <1>6, <1>7 DEF RankInv

LEMMA RanksKept ==
  ASSUME TypeInv, RankInv, [Next]_vars
  PROVE  RankInv'
<1>0. scene' = scene
  BY SceneFixed
<1>1. ASSUME UNCHANGED <<hauls, doc, mail>>,
             \A k \in Trucks : trip'[k] = trip[k] \/ trip'[k] = NoTrip
      PROVE  RankInv'
  <2>1. \A k \in Trucks, o \in Orders : Carries(k, o)' => Carries(k, o) /\ trip'[k] = trip[k]
    BY <1>1 DEF Carries
  <2> QED BY <1>0, <1>1, <2>1 DEF RankInv, CarrierInv, NothingYet, TripAhead, NewsAhead, UpTo, mode
<1>2. ASSUME NEW k \in Trucks, HandleAssignment(k) PROVE RankInv'
  <2>1. /\ Head(offer[k]) \in Orders /\ doc' = doc
        /\ Dropped(k) \/ Lost \/ \E bad : Accepted(k, Head(offer[k]), bad)
    BY <1>2, AssignmentFacts DEF orderVars
  <2>2. CASE Dropped(k) \/ Lost
    BY <1>1, <2>1, <2>2 DEF Dropped, Lost
  <2>3. ASSUME NEW bad, Accepted(k, Head(offer[k]), bad) PROVE RankInv'
    <3>1. PICK o \in Orders : o = Head(offer[k])
      BY <2>1
    <3> DEFINE w == ApplyTripTransitionAndNotify(NewTrip(o), "assign", bad)
    <3>2. trip[k] = NoTrip /\ Published(k, w) /\ hauls' = [hauls EXCEPT ![o] = @ + 1]
      BY <2>3, <3>1 DEF Accepted
    <3>3. PICK t0 \in Trips :
            /\ w \in Tells(t0)
            /\ \/ w.trip = [st |-> "created", ord |-> o] /\ w.orders = <<>>
               \/ w.trip = [st |-> "assigned", ord |-> o] /\ w.orders = <<"assigned">>
      BY AssignTells
    <3> HIDE DEF w
    <3>4. w \in Spoken /\ (w.trip = NoTrip => w.orders = <<>>)
      BY <3>3, TellsFacts
    <3>5. w.trip # NoTrip /\ w.trip.ord = o
      BY <3>3 DEF NoTrip
    <3>6. /\ trip'[k] = w.trip /\ \A j \in Trucks : j # k => trip'[j] = trip[j]
          /\ \A p \in Orders : mail'[p] = IF p = o THEN mail[p] \o w.orders ELSE mail[p]
      BY <3>2, <3>4, <3>5, PublishedFacts
    <3>7. /\ hauls \in [Orders -> Nat] /\ hauls'[o] = hauls[o] + 1
          /\ \A p \in Orders : p # o => hauls'[p] = hauls[p]
      BY <3>2 DEF TypeInv, TruckTypes
    <3>8. \A j \in Trucks, p \in Orders :
            Carries(j, p)' <=> (j = k /\ p = o) \/ (j # k /\ Carries(j, p))
      BY <3>2, <3>5, <3>6 DEF Carries
    <3>9. CarrierInv'
      BY <3>7, <3>8 DEF RankInv, CarrierInv
    <3> SUFFICES ASSUME mode = "service" PROVE (NothingYet /\ TripAhead /\ NewsAhead)'
      BY <1>0, <3>9 DEF RankInv, mode
    <3>10. CarrierInv /\ NothingYet /\ TripAhead /\ NewsAhead
      BY DEF RankInv
    <3>11. NothingYet'
      BY <2>1, <3>6, <3>7, <3>10 DEF NothingYet
    <3>12. ASSUME hauls[o] = 0
           PROVE  /\ doc[o].st \in {"created", "unassigned", "cancelled"} /\ mail[o] = <<>>
                  /\ mail'[o] = w.orders
      <4>1. mail'[o] = mail[o] \o w.orders /\ w.orders \in Seq(OrderNews)
        BY <3>4, <3>6 DEF Spoken
      <4>2. mail[o] = <<>> /\ doc[o].st \in {"created", "unassigned", "cancelled"}
        BY <3>10, <3>12 DEF NothingYet
      <4>3. PICK b \in Seq(OrderNews) : b = w.orders
        BY <4>1
      <4>4. <<>> \o b = b
        OBVIOUS
      <4> QED BY <4>1, <4>2, <4>3, <4>4
    <3>13. /\ \A i \in 1 .. Len(w.orders) : Pos[w.orders[i]] = 3
           /\ TripRank[w.trip.st] \in {2, 3} /\ (w.orders # <<>> => TripRank[w.trip.st] = 3)
      BY <3>3 DEF Pos, TripRank
    <3>14. Pos["created"] = 1 /\ Pos["unassigned"] = 2
      BY DEF Pos
    <3>15. TripAhead'
      <4> SUFFICES ASSUME NEW j \in Trucks, NEW p \in Orders, hauls'[p] <= 1, Carries(j, p)'
          PROVE  UpTo(p, TripRank[trip[j].st])'
        BY DEF TripAhead
      <4>1. CASE j = k /\ p = o
        <5>1. hauls[o] = 0
          BY <3>7, <4>1
        <5>2. \A i \in 1 .. Len(w.orders) : Pos[w.orders[i]] <= TripRank[w.trip.st]
          BY <3>3, <3>13
        <5> QED BY <2>1, <3>6, <3>12, <3>13, <3>14, <4>1, <5>1, <5>2 DEF UpTo
      <4>2. CASE j # k /\ Carries(j, p)
        <5>1. hauls[p] >= 1
          BY <3>10, <4>2 DEF CarrierInv
        <5>2. p # o
          BY <3>7, <5>1
        <5>3. UpTo(p, TripRank[trip[j].st])
          BY <3>7, <3>10, <4>2, <5>2 DEF TripAhead
        <5> QED BY <2>1, <3>6, <4>2, <5>2, <5>3 DEF UpTo
      <4> QED BY <3>8, <4>1, <4>2
    <3>16. NewsAhead'
      <4> SUFFICES ASSUME NEW p \in Orders, hauls'[p] <= 1, doc[p].st # "cancelled",
                          NEW i \in 1 .. Len(mail'[p])
          PROVE  Pos[doc[p].st] <= Pos[mail'[p][i]]
        BY <2>1 DEF NewsAhead
      <4>1. CASE p = o
        <5>1. hauls[o] = 0
          BY <3>7, <4>1
        <5> QED BY <3>12, <3>13, <3>14, <4>1, <5>1
      <4>2. CASE p # o
        BY <3>6, <3>7, <3>10, <4>2 DEF NewsAhead
      <4> QED BY <4>1, <4>2
    <3> QED BY <3>11, <3>15, <3>16
  <2> QED BY <2>1, <2>2, <2>3
<1>3. ASSUME NEW k \in Trucks, TruckStep(k) PROVE RankInv'
  <2>1. PICK there \in BOOLEAN, bad \in Refusals :
          /\ Published(k, Outcome(Held(k), tq[k], there, bad))
          /\ UNCHANGED <<scene, stage, online, offer, gateVars, round, orderVars, hauls>>
    BY <1>3, Zenon DEF TruckStep, Outcome
  <2> DEFINE w == Outcome(Held(k), tq[k], there, bad)
  <2>2. w \in Tells(Held(k)) /\ Held(k) \in {NoTrip} \cup Trips
    BY HeldType, StepTells
  <2> HIDE DEF w
  <2>3. w \in Spoken /\ (w.trip = NoTrip => w.orders = <<>>)
    BY <2>2, TellsFacts
  <2>4. w.trip # NoTrip => Held(k) # NoTrip /\ Held(k) = trip[k]
    BY <2>2 DEF Tells, Unsaid, Held
  <2>5. w.trip # NoTrip =>
           /\ trip[k] # NoTrip /\ w.trip.ord = trip[k].ord
           /\ TripRank[trip[k].st] <= TripRank[w.trip.st]
           /\ \A i \in 1 .. Len(w.orders) : TripRank[trip[k].st] <= Pos[w.orders[i]]
                                            /\ Pos[w.orders[i]] <= TripRank[w.trip.st]
    BY <2>2, <2>4 DEF Tells
  <2>6. UNCHANGED <<scene, doc, hauls>> /\ Published(k, w)
    BY <2>1 DEF orderVars, w
  <2> QED BY <2>3, <2>5, <2>6, SpeakKeepsRank
<1>4. ASSUME NEW k \in Trucks, TruckWaits(k) \/ TruckLeaves(k) PROVE RankInv'
  <2>1. UNCHANGED <<hauls, doc, mail>>
    BY <1>4 DEF TruckWaits, TruckLeaves, truckVars, orderVars
  <2>2. \A j \in Trucks : trip'[j] = trip[j] \/ trip'[j] = NoTrip
    BY <1>4 DEF TruckWaits, TruckLeaves, truckVars, TypeInv, TruckTypes
  <2> QED BY <1>1, <2>1, <2>2
<1>5. ASSUME NEW k \in Trucks, TruckCloses(k) PROVE RankInv'
  <2> DEFINE w == ApplyTripTransitionAndNotify(Unsaid(trip[k]), "cancel", "none")
  <2>1. Published(k, w) /\ UNCHANGED <<scene, doc, hauls>>
    BY <1>5 DEF TruckCloses, orderVars
  <2>2. /\ w \in Spoken /\ (w.trip = NoTrip => w.orders = <<>>)
        /\ w.trip # NoTrip <=> trip[k] # NoTrip
        /\ \/ w.trip = trip[k] /\ w.orders = <<>>
           \/ /\ w.trip = [st |-> "cancelled", ord |-> trip[k].ord] /\ w.orders = <<"cancelled">>
              /\ trip[k] \in Trips
    BY HeldType, CloseTells
  <2> HIDE DEF w
  <2>3. w.trip # NoTrip =>
           /\ trip[k] # NoTrip /\ w.trip.ord = trip[k].ord
           /\ TripRank[trip[k].st] <= TripRank[w.trip.st]
           /\ \A i \in 1 .. Len(w.orders) : TripRank[trip[k].st] <= Pos[w.orders[i]]
                                            /\ Pos[w.orders[i]] <= TripRank[w.trip.st]
    <3> SUFFICES ASSUME w.trip # NoTrip
        PROVE /\ w.trip.ord = trip[k].ord
              /\ TripRank[trip[k].st] <= TripRank[w.trip.st]
              /\ \A i \in 1 .. Len(w.orders) : TripRank[trip[k].st] <= Pos[w.orders[i]]
                                            /\ Pos[w.orders[i]] <= TripRank[w.trip.st]
      BY <2>2
    <3>1. trip[k] # NoTrip /\ trip[k].st \in TripSt
      BY <2>2, HeldType DEF Trips
    <3>2. TripRank[trip[k].st] \in 2 .. 8
      BY <3>1, RankOfTrip
    <3>3. CASE w.trip = trip[k] /\ w.orders = <<>>
      BY <3>2, <3>3
    <3>4. CASE w.trip = [st |-> "cancelled", ord |-> trip[k].ord] /\ w.orders = <<"cancelled">>
      <4>1. TripRank["cancelled"] = 8 /\ Pos["cancelled"] = 8
        BY DEF TripRank, Pos
      <4> QED BY <3>2, <3>4, <4>1
    <3> QED BY <2>2, <3>3, <3>4
  <2> QED BY <2>1, <2>2, <2>3, SpeakKeepsRank
<1>6. ASSUME WriterStep PROVE RankInv'
  <2>1. /\ mode = "service" /\ mail' = [o \in Orders |-> <<>>]
        /\ UNCHANGED <<scene, trip, hauls>>
    BY <1>6, WriterFacts DEF truckVars
  <2>2. PICK known, lost \in BOOLEAN : \A o \in Orders : WriterEffect(o, known, lost)
    BY <1>6, WriterFacts
  <2>3. \A o \in Orders :
           \E kn \in BOOLEAN : LET a == ApplyEvents(doc[o], mail[o], kn)
             IN \/ doc'[o] = a
                \/ a.st = "created" /\ doc'[o].st = "unassigned"
                \/ a.st = "unassigned" /\ doc'[o].st = "cancelled"
    <3> TAKE o \in Orders
    <3> DEFINE a == ApplyEvents(doc[o], mail[o], known)
    <3>1. \/ doc'[o] = a
          \/ a.st = "created" /\ doc'[o] = [st |-> "unassigned", why |-> a.why]
          \/ a.st = "unassigned" /\ doc'[o] = [st |-> "cancelled", why |-> "overdue"]
      BY <2>2, Zenon DEF WriterEffect
    <3> HIDE DEF a
    <3>2. \/ doc'[o] = a
          \/ a.st = "created" /\ doc'[o].st = "unassigned"
          \/ a.st = "unassigned" /\ doc'[o].st = "cancelled"
      BY <3>1
    <3> QED BY <3>2, Zenon DEF a
  <2> QED BY <2>1, <2>3, DrainKeepsRank
<1>7. ASSUME WriterCloses PROVE RankInv'
  <2>1. mode = "service" /\ UNCHANGED <<scene, trip, hauls>>
    BY <1>7 DEF WriterCloses, truckVars
  <2>2. CASE doc' = [o \in Orders |-> ApplyEvents(doc[o], mail[o], TRUE)]
             /\ mail' = [o \in Orders |-> <<>>]
    <3>1. \A o \in Orders :
           \E kn \in BOOLEAN : LET a == ApplyEvents(doc[o], mail[o], kn)
             IN \/ doc'[o] = a
                \/ a.st = "created" /\ doc'[o].st = "unassigned"
                \/ a.st = "unassigned" /\ doc'[o].st = "cancelled"
      <4> TAKE o \in Orders
      <4>1. doc'[o] = ApplyEvents(doc[o], mail[o], TRUE) /\ TRUE \in BOOLEAN
        BY <2>2
      <4> QED BY <4>1, Zenon
    <3> QED BY <2>1, <2>2, <3>1, DrainKeepsRank
  <2>3. CASE UNCHANGED <<doc, mail>>
    BY <1>1, <2>1, <2>3
  <2> QED BY <1>7, <2>2, <2>3 DEF WriterCloses
<1>8. ASSUME BulkCancel PROVE RankInv'
  <2>1. /\ UNCHANGED <<scene, trip, hauls, mail>>
        /\ doc' = [o \in Orders |-> IF doc[o].st \in Terminal THEN doc[o]
                                    ELSE [doc[o] EXCEPT !.st = "cancelled"]]
    BY <1>8 DEF BulkCancel, truckVars
  <2>2. \A o \in Orders : doc'[o] = doc[o] \/ doc'[o].st = "cancelled"
    BY <2>1 DEF TypeInv, OrderTypes, Docs
  <2> QED BY <2>1, <2>2
          DEF RankInv, CarrierInv, Carries, NothingYet, TripAhead, NewsAhead, UpTo, mode
<1>9. ASSUME NEW o \in Orders, OrderAgentStep(o) PROVE RankInv'
  <2>1. mode = "agent" /\ UNCHANGED <<trip, hauls>>
    BY <1>9, AgentFacts DEF truckVars
  <2> QED BY <1>0, <2>1 DEF RankInv, CarrierInv, Carries, mode
<1>10. ASSUME \/ Tick \/ Horizon \/ FinalStep \/ ReadMarket \/ Match
              \/ \E o \in Orders : OrderCloses(o)
              \/ \E f \in Facilities : \E due \in SUBSET ends[f] : FacilityStep(f, due)
       PROVE  UNCHANGED <<hauls, doc, mail, trip>>
  <2>1. CASE Tick \/ Horizon \/ FinalStep \/ ReadMarket
    BY <2>1 DEF Tick, Horizon, FinalStep, ReadMarket, truckVars, orderVars
  <2>2. CASE Match
    BY <2>2, MatchFacts DEF truckVars, orderVars
  <2>3. ASSUME NEW o \in Orders, OrderCloses(o) PROVE UNCHANGED <<hauls, doc, mail, trip>>
    BY <2>3 DEF OrderCloses, truckVars
  <2>4. ASSUME NEW f \in Facilities, NEW due \in SUBSET ends[f], FacilityStep(f, due)
        PROVE UNCHANGED <<hauls, doc, mail, trip>>
    BY <2>4, FacilityFacts DEF FacilityOutcome, truckVars, orderVars
  <2> QED BY <1>10, <2>1, <2>2, <2>3, <2>4
<1>11. CASE UNCHANGED vars
  BY <1>1, <1>11 DEF vars
<1> QED
  BY <1>1, <1>2, <1>3, <1>4, <1>5, <1>6, <1>7, <1>8, <1>9, <1>10, <1>11 DEF Next


(***************************************************************************)
(* The moves of an order document, and what they are to OrderLifecycle.    *)
(***************************************************************************)
DocMoves(d, d2) ==
  /\ \/ d2.st = d.st
     \/ d.st \notin Terminal /\ Pos[d.st] <= Pos[d2.st]
     \/ Resurrectable(d) /\ d2.st \in OrderNews
  /\ Resurrectable(d2) => Resurrectable(d) \/ d.st # "cancelled"

\* The rank of OrderLifecycle is the position used here.
LEMMA RankIsPos ==
  /\ Lifecycle!Open = BookStates \ {"completed", "cancelled"}
  /\ Lifecycle!States = BookStates
  /\ {Lifecycle!Path[i] : i \in 3 .. 7} = OrderNews \ {"cancelled"}
  /\ \A s \in BookStates \ {"cancelled"} : Lifecycle!Rank(s) = Pos[s]
<1> DEFINE P == Lifecycle!Path
<1>1. /\ P[1] = "created" /\ P[2] = "unassigned" /\ P[3] = "assigned"
      /\ P[4] = "pickup_in_progress" /\ P[5] = "in_transit" /\ P[6] = "dropoff_in_progress"
      /\ P[7] = "completed"
  BY DEF Lifecycle!Path
<1>2. Lifecycle!Open = {P[i] : i \in 1 .. 6} /\ Lifecycle!States = Lifecycle!Open \cup {"completed", "cancelled"}
  BY DEF Lifecycle!Open, Lifecycle!States
<1>3. ASSUME NEW s \in BookStates \ {"cancelled"} PROVE Lifecycle!Rank(s) = Pos[s]
  <2>1. Lifecycle!Rank(s) = CHOOSE i \in 1 .. 7 : P[i] = s
    BY DEF Lifecycle!Rank
  <2> HIDE DEF P
  <2>2. Pos[s] \in 1 .. 7 /\ P[Pos[s]] = s
    BY <1>1 DEF Pos, BookStates, OrderNews
  <2>3. \A i \in 1 .. 7 : P[i] = s => i = Pos[s]
    BY <1>1 DEF Pos
  <2> QED BY <2>1, <2>2, <2>3
<1> HIDE DEF P
<1>4. Lifecycle!Open = BookStates \ {"completed", "cancelled"}
  BY <1>1, <1>2 DEF BookStates, OrderNews
<1>5. Lifecycle!States = BookStates
  BY <1>2, <1>4 DEF BookStates, OrderNews
<1>6. {P[i] : i \in 3 .. 7} = OrderNews \ {"cancelled"}
  BY <1>1 DEF OrderNews
<1> QED BY <1>3, <1>4, <1>5, <1>6 DEF P

\* Documents that only make these moves make a step of OrderLifecycle.
LEMMA MovesImplement ==
  ASSUME doc \in [Orders -> Docs], doc' \in [Orders -> Docs],
         \A o \in Orders : DocMoves(doc[o], doc'[o])
  PROVE  Lifecycle!Write
<1> DEFINE b == [o \in Orders |-> doc[o].st]
           b2 == [o \in Orders |-> doc'[o].st]
           s == {o \in Orders : Resurrectable(doc[o])}
           s2 == {o \in Orders : Resurrectable(doc'[o])}
<1>1. b2 \in [Orders -> Lifecycle!States]
  BY RankIsPos DEF Docs
<1>2. ASSUME NEW o \in Orders
      PROVE  \/ b2[o] = b[o]
             \/ /\ b[o] \in Lifecycle!Open /\ b2[o] \in Lifecycle!Open \cup {"completed"}
                /\ Lifecycle!Rank(b[o]) <= Lifecycle!Rank(b2[o])
             \/ b[o] \in Lifecycle!Open /\ b2[o] = "cancelled"
             \/ o \in s /\ b2[o] \in {Lifecycle!Path[i] : i \in 3 .. 7}
  <2>1. doc[o].st \in BookStates /\ doc'[o].st \in BookStates
    BY DEF Docs
  <2>2. DocMoves(doc[o], doc'[o])
    OBVIOUS
  <2>3. CASE doc'[o].st = doc[o].st
    BY <2>3
  <2>4. CASE doc[o].st \notin Terminal /\ Pos[doc[o].st] <= Pos[doc'[o].st]
    <3>1. doc[o].st \in Lifecycle!Open /\ Lifecycle!Rank(doc[o].st) = Pos[doc[o].st]
      BY <2>1, <2>4, RankIsPos DEF Terminal
    <3>2. \/ doc'[o].st = "cancelled"
          \/ /\ doc'[o].st \in Lifecycle!Open \cup {"completed"}
             /\ Lifecycle!Rank(doc'[o].st) = Pos[doc'[o].st]
      BY <2>1, RankIsPos
    <3> QED BY <2>4, <3>1, <3>2
  <2>5. CASE Resurrectable(doc[o]) /\ doc'[o].st \in OrderNews
    <3>1. doc'[o].st = doc[o].st \/ doc'[o].st \in {Lifecycle!Path[i] : i \in 3 .. 7}
      BY <2>5, RankIsPos DEF Resurrectable
    <3> QED BY <2>5, <3>1
  <2> QED BY <2>2, <2>3, <2>4, <2>5 DEF DocMoves
<1>3. s2 \subseteq {o \in Orders : b2[o] = "cancelled"}
  BY DEF Resurrectable
<1>4. \A o \in s2 \ s : b[o] # "cancelled"
  BY DEF DocMoves
<1>5. b' = b2 /\ s' = s2
  OBVIOUS
<1> HIDE DEF b, b2, s, s2
<1> QED
  BY <1>1, <1>2, <1>3, <1>4
     DEF Lifecycle!Write, Lifecycle!Forward, Lifecycle!Cancel, Lifecycle!Revive, b, b2, s, s2


\* A drain of the writer only moves documents forward, or revives shed ones: the news
\* that waits is never behind the document while no order is hauled twice.
LEMMA DrainMoves ==
  ASSUME TypeInv, RankInv, mode = "service", NoOrderHauledTwice, NEW o \in Orders,
         NEW known \in BOOLEAN, NEW a, a = ApplyEvents(doc[o], mail[o], known),
         NEW d2, \/ d2 = a
                 \/ a.st = "created" /\ d2 = [st |-> "unassigned", why |-> a.why]
                 \/ a.st = "unassigned" /\ d2 = [st |-> "cancelled", why |-> "overdue"]
  PROVE  DocMoves(doc[o], d2)
<1>1. doc[o] \in Docs /\ mail[o] \in Seq(OrderNews)
  BY DEF TypeInv, OrderTypes
<1>2. PICK d \in Docs : d = doc[o]
  BY <1>1
<1>3. PICK es \in Seq(OrderNews) : es = mail[o]
  BY <1>1
<1>4. /\ a \in Docs /\ (d.st \in Terminal /\ ~Resurrectable(d) => a = d)
      /\ a = d \/ \E i \in 1 .. Len(es) : a.st = es[i]
  BY <1>2, <1>3, ApplyEventsFacts
<1>5. d.st = "cancelled" \/ \A i \in 1 .. Len(es) : Pos[d.st] <= Pos[es[i]]
  BY <1>2, <1>3 DEF RankInv, NewsAhead, NoOrderHauledTwice
<1>6. d.st \in BookStates
  BY DEF Docs
<1>7. CASE a = d
  <2>1. Pos["created"] = 1 /\ Pos["unassigned"] = 2 /\ Pos["cancelled"] = 8
    BY DEF Pos
  <2> QED BY <1>2, <1>7, <2>1 DEF DocMoves, Terminal, Resurrectable
<1>8. CASE a # d
  <2>1. PICK i \in 1 .. Len(es) : a.st = es[i]
    BY <1>4, <1>8
  <2>2. a.st \in OrderNews
    BY <2>1
  <2>3. d2 = a
    BY <2>2 DEF OrderNews
  <2>4. CASE d.st \notin Terminal
    <3>1. Pos[d.st] <= Pos[a.st]
      BY <1>5, <2>1, <2>4 DEF Terminal
    <3> QED BY <1>2, <2>3, <2>4, <3>1 DEF DocMoves, Terminal
  <2>5. CASE Resurrectable(d)
    BY <1>2, <2>2, <2>3, <2>5 DEF DocMoves
  <2> QED BY <1>4, <1>8, <2>4, <2>5
<1> QED BY <1>7, <1>8

\* An order's own agent only moves its document along the path, or cancels it.
LEMMA AgentMoves ==
  ASSUME TypeInv, NEW o \in Orders, AgentEffect(o)
  PROVE  DocMoves(doc[o], doc'[o])
<1>1. doc[o] \in Docs /\ mail[o] \in Seq(OrderNews)
  BY DEF TypeInv, OrderTypes
<1>2. PICK d \in Docs : d = doc[o]
  BY <1>1
<1>3. PICK d0 \in Docs :
        /\ d0 = d \/ (d.st = "created" /\ d0 = [st |-> "unassigned", why |-> d.why])
        /\ LET d1 == AgentHears(d0, mail[o])
           IN \/ doc'[o] = d1
              \/ d1.st = "unassigned" /\ doc'[o] = [st |-> "cancelled", why |-> d1.why]
  BY <1>2 DEF AgentEffect
<1>4. PICK d1 \in Docs : /\ d1 = AgentHears(d0, mail[o]) /\ Pos[d0.st] <= Pos[d1.st]
                         /\ (d0.st \in Terminal => d1 = d0)
  BY <1>1, AgentHearsFacts
<1>5. \/ doc'[o] = d1
      \/ d1.st = "unassigned" /\ doc'[o] = [st |-> "cancelled", why |-> d1.why]
  BY <1>3, <1>4
<1>6. /\ Pos["created"] = 1 /\ Pos["unassigned"] = 2 /\ Pos["cancelled"] = 8
      /\ d.st \in BookStates /\ d1.st \in BookStates /\ d0.st \in BookStates
  BY DEF Pos, Docs
<1>7. CASE d.st \in Terminal
  <2>1. d0 = d
    BY <1>3, <1>7 DEF Terminal
  <2>2. doc'[o] = d
    BY <1>4, <1>5, <1>7, <2>1 DEF Terminal
  <2> QED BY <1>2, <2>2 DEF DocMoves
<1>8. CASE d.st \notin Terminal
  <2>1. Pos[d.st] <= Pos[d0.st]
    BY <1>3, <1>6, PosOfState
  <2>2. Pos[d.st] \in 1 .. 8 /\ Pos[d0.st] \in 1 .. 8 /\ Pos[d1.st] \in 1 .. 8
    BY <1>6, PosOfState
  <2>3. Pos[d.st] <= Pos[doc'[o].st]
    BY <1>4, <1>5, <1>6, <2>1, <2>2
  <2> QED BY <1>2, <1>8, <2>3 DEF DocMoves, Terminal
<1> QED BY <1>7, <1>8

\* Every step of the haul workflow is a step of OrderLifecycle or leaves it alone.
LEMMA StepsImplement ==
  ASSUME TypeInv, TypeInv', RankInv, mode = "service" => NoOrderHauledTwice, [Next]_vars
  PROVE  [Lifecycle!Next]_(Lifecycle!vars)
<1>1. ASSUME doc' = doc PROVE UNCHANGED Lifecycle!vars
  BY <1>1 DEF Lifecycle!vars
<1>2. ASSUME \A o \in Orders : DocMoves(doc[o], doc'[o]) PROVE Lifecycle!Next
  BY <1>2, MovesImplement DEF Lifecycle!Next, TypeInv, OrderTypes
<1>3. ASSUME WriterStep PROVE Lifecycle!Next
  <2>1. mode = "service"
    BY <1>3, WriterFacts
  <2>2. PICK known, lost \in BOOLEAN : \A o \in Orders : WriterEffect(o, known, lost)
    BY <1>3, WriterFacts
  <2>3. ASSUME NEW o \in Orders PROVE DocMoves(doc[o], doc'[o])
    <3>1. PICK a : a = ApplyEvents(doc[o], mail[o], known)
      OBVIOUS
    <3>2. \/ doc'[o] = a
          \/ a.st = "created" /\ doc'[o] = [st |-> "unassigned", why |-> a.why]
          \/ a.st = "unassigned" /\ doc'[o] = [st |-> "cancelled", why |-> "overdue"]
      BY <2>2, <3>1, Zenon DEF WriterEffect
    <3> QED BY <2>1, <3>1, <3>2, DrainMoves
  <2> QED BY <1>2, <2>3
<1>4. ASSUME WriterCloses PROVE Lifecycle!Next \/ UNCHANGED Lifecycle!vars
  <2>1. mode = "service"
    BY <1>4 DEF WriterCloses
  <2>2. CASE doc' = [o \in Orders |-> ApplyEvents(doc[o], mail[o], TRUE)]
    <3>1. ASSUME NEW o \in Orders PROVE DocMoves(doc[o], doc'[o])
      <4>1. PICK a : a = ApplyEvents(doc[o], mail[o], TRUE)
        OBVIOUS
      <4>2. PICK kn \in BOOLEAN : a = ApplyEvents(doc[o], mail[o], kn)
        BY <4>1, Zenon
      <4>3. doc'[o] = a
        BY <2>2, <4>1
      <4> QED BY <2>1, <4>2, <4>3, DrainMoves
    <3> QED BY <1>2, <3>1
  <2>3. CASE UNCHANGED <<doc, mail>>
    BY <1>1, <2>3
  <2> QED BY <1>4, <2>2, <2>3 DEF WriterCloses
<1>5. ASSUME NEW o \in Orders, OrderAgentStep(o) PROVE Lifecycle!Next
  <2>1. AgentEffect(o) /\ \A p \in Orders : p # o => doc'[p] = doc[p]
    BY <1>5, AgentFacts
  <2>2. DocMoves(doc[o], doc'[o])
    BY <2>1, AgentMoves
  <2>3. \A p \in Orders : p # o => DocMoves(doc[p], doc'[p])
    BY <2>1 DEF DocMoves
  <2> QED BY <1>2, <2>2, <2>3
<1>6. ASSUME BulkCancel PROVE Lifecycle!Next
  <2>1. doc' = [o \in Orders |-> IF doc[o].st \in Terminal THEN doc[o]
                                 ELSE [doc[o] EXCEPT !.st = "cancelled"]]
    BY <1>6 DEF BulkCancel
  <2>2. ASSUME NEW o \in Orders PROVE DocMoves(doc[o], doc'[o])
    <3>1. doc[o] \in Docs /\ doc[o].st \in BookStates
      BY DEF TypeInv, OrderTypes, Docs
    <3>2. doc'[o] = doc[o] \/ (doc[o].st \notin Terminal /\ doc'[o].st = "cancelled")
      BY <2>1, <3>1 DEF Docs
    <3>3. Pos["cancelled"] = 8 /\ Pos[doc[o].st] <= 8
      BY <3>1, PosOfState DEF Pos
    <3> QED BY <3>2, <3>3 DEF DocMoves, Terminal
  <2> QED BY <1>2, <2>2
<1>7. ASSUME NEW k \in Trucks,
             HandleAssignment(k) \/ TruckStep(k) \/ TruckWaits(k) \/ TruckLeaves(k) \/ TruckCloses(k)
      PROVE  doc' = doc
  <2>1. CASE HandleAssignment(k)
    BY <2>1, AssignmentFacts DEF orderVars
  <2>2. CASE TruckStep(k) \/ TruckWaits(k) \/ TruckLeaves(k) \/ TruckCloses(k)
    BY <2>2 DEF TruckStep, TruckWaits, TruckLeaves, TruckCloses, orderVars
  <2> QED BY <1>7, <2>1, <2>2
<1>8. ASSUME NEW f \in Facilities, NEW due \in SUBSET ends[f], FacilityStep(f, due)
      PROVE  doc' = doc
  BY <1>8, FacilityFacts DEF FacilityOutcome, orderVars
<1>9. ASSUME Match PROVE doc' = doc
  BY <1>9, MatchFacts DEF orderVars
<1>10. ASSUME Tick \/ Horizon \/ FinalStep \/ ReadMarket \/ \E o \in Orders : OrderCloses(o)
       PROVE  doc' = doc
  BY <1>10 DEF Tick, Horizon, FinalStep, ReadMarket, OrderCloses, orderVars
<1>11. CASE UNCHANGED vars
  BY <1>1, <1>11 DEF vars
<1> QED
  BY <1>1, <1>3, <1>4, <1>5, <1>6, <1>7, <1>8, <1>9, <1>10, <1>11 DEF Next

\* The order documents implement OrderLifecycle, in both modes: whatever is folded in
\* batches, swept, jumped over, lost in a failed read or cancelled at the end, a
\* document never moves back and never leaves completed.  The matching rounds must be
\* punctual and their open-haul query must not fail in service mode: without either, an
\* order may be hauled twice, and the second haul takes its document back.
THEOREM LifecycleImplemented ==
  ASSUME Punctual, \A s \in Scenes : s.mode = "service" => "match" \notin s.faults
  PROVE  Spec => LifecycleSpec
<1> DEFINE Inv == TypeInv /\ RecordInv /\ HaulInv /\ RankInv
<1>1. Init => Inv
  <2> SUFFICES ASSUME Init PROVE HaulInv /\ RankInv
    BY InitTyped
  <2>1. /\ round = NoRound /\ (\A k \in Trucks : offer[k] = <<>> /\ trip[k] = NoTrip)
        /\ \A o \in Orders : hauls[o] = 0 /\ mail[o] = <<>> /\ doc[o].st = "created"
    BY DEF Init
  <2>2. HaulInv
    BY <2>1 DEF HaulInv, NoOrderHauledTwice, OffersInv, LagInv, InRound
  <2>3. RankInv
    BY <2>1 DEF RankInv, CarrierInv, Carries, NothingYet, TripAhead, NewsAhead
  <2> QED BY <2>2, <2>3
<1>2. Inv /\ [Next]_vars => Inv'
  BY TypesKept, RecordsKept, HaulsKept, RanksKept
<1>3. Init => Lifecycle!Init
  BY DEF Init, Lifecycle!Init, Resurrectable
<1>4. Inv /\ Inv' /\ [Next]_vars => [Lifecycle!Next]_(Lifecycle!vars)
  <2> SUFFICES ASSUME Inv, Inv', [Next]_vars PROVE [Lifecycle!Next]_(Lifecycle!vars)
    OBVIOUS
  <2>1. scene \in Scenes
    BY DEF TypeInv, RunTypes
  <2>2. mode = "service" => NoOrderHauledTwice
    BY <2>1 DEF HaulInv, HaulScene, mode
  <2> QED BY <2>2, StepsImplement
<1> HIDE DEF Inv
<1> QED BY <1>1, <1>2, <1>3, <1>4, PTL DEF Spec, LifecycleSpec, Lifecycle!Spec

-----------------------------------------------------------------------------
(* A truck's visit, seen from the facility and from the truck.             *)

\* Where a facility has a truck: nowhere, once in its line, at one gate.
Gone(fac, k) ==
  /\ \A i \in 1 .. Len(fac.queue) : fac.queue[i].truck # k
  /\ \A g \in Gates : fac.gate[g].truck # k
Waiting(fac, k, v) ==
  /\ \E i \in 1 .. Len(fac.queue) :
       /\ fac.queue[i] = [truck |-> k, visit |-> v]
       /\ \A j \in 1 .. Len(fac.queue) : fac.queue[j].truck = k => j = i
  /\ \A g \in Gates : fac.gate[g].truck # k
Served(fac, k, g, v) ==
  /\ fac.gate[g] = [truck |-> k, visit |-> v]
  /\ \A i \in 1 .. Len(fac.queue) : fac.queue[i].truck # k
  /\ \A h \in Gates : fac.gate[h].truck = k => h = g

LEMMA FreeIsNobody == \A k \in Trucks : Free.truck # k /\ \A v : [truck |-> k, visit |-> v] # Free
BY HaulageConstants DEF Free

\* An allocation, entry by entry.
LineOf(fac, r, n, c) ==
  /\ n <= Len(fac.queue) /\ Len(r.queue) = Len(fac.queue) - n
  /\ \A i \in 1 .. Len(r.queue) : r.queue[i] = fac.queue[n + i]
  /\ \A i \in 1 .. n : c[i] \in r.given /\ fac.gate[c[i]] = Free /\ r.gate[c[i]] = fac.queue[i]
  /\ \A g \in r.given : \E i \in 1 .. n : c[i] = g
  /\ \A i, j \in 1 .. n : c[i] = c[j] => i = j
  /\ \A g \in Gates \ r.given : r.gate[g] = fac.gate[g]
LEMMA AllocationLine ==
  ASSUME NEW fac \in Fronts, NEW r, Allocated(fac, r)
  PROVE  \E n \in Nat : \E c : LineOf(fac, r, n, c)
<1>1. fac.queue \in Seq(Visits)
  BY DEF Fronts
<1>2. PICK n \in 0 .. Len(fac.queue) : \E c \in [1 .. n -> Gates] :
        /\ \A i, j \in 1 .. n : c[i] = c[j] => i = j
        /\ \A g : g \in r.given <=> \E i \in 1 .. n : c[i] = g
        /\ \A i \in 1 .. n : fac.gate[c[i]] = Free /\ r.gate[c[i]] = fac.queue[i]
        /\ \A g \in Gates \ r.given : r.gate[g] = fac.gate[g]
        /\ r.queue = SubSeq(fac.queue, n + 1, Len(fac.queue))
  BY Zenon DEF Allocated
<1>3. PICK c \in [1 .. n -> Gates] :
        /\ \A i, j \in 1 .. n : c[i] = c[j] => i = j
        /\ \A g : g \in r.given <=> \E i \in 1 .. n : c[i] = g
        /\ \A i \in 1 .. n : fac.gate[c[i]] = Free /\ r.gate[c[i]] = fac.queue[i]
        /\ \A g \in Gates \ r.given : r.gate[g] = fac.gate[g]
        /\ r.queue = SubSeq(fac.queue, n + 1, Len(fac.queue))
  BY <1>2, Zenon
<1>4. Len(r.queue) = Len(fac.queue) - n /\ \A i \in 1 .. Len(r.queue) : r.queue[i] = fac.queue[n + i]
  BY <1>1, <1>3, RestOfLine
<1>5. n \in Nat /\ n <= Len(fac.queue)
  BY <1>1
<1>6. LineOf(fac, r, n, c)
  BY <1>3, <1>4, <1>5, Zenon DEF LineOf
<1> QED BY <1>5, <1>6

\* What an allocation does to the visit of one truck, and what the truck is told.
LEMMA AllocationSeen ==
  ASSUME NEW fac \in Fronts, NEW r, Allocated(fac, r), NEW k \in Trucks, NEW v \in Kinds,
         r.given \in SUBSET Gates, r.gate \in [Gates -> Visits \cup {Free}], r.queue \in Seq(Visits)
  PROVE  LET told == Notices(k, r.gate, r.given, Slot)
         IN /\ Gone(fac, k) => Gone(r, k) /\ told = <<>>
            /\ Waiting(fac, k, v) =>
                 \/ Waiting(r, k, v) /\ told = <<>>
                 \/ \E g \in r.given : Served(r, k, g, v) /\ told = <<Slot[v]>>
            /\ \A g \in Gates : Served(fac, k, g, v) =>
                 Served(r, k, g, v) /\ told = <<>>
<1> DEFINE told == Notices(k, r.gate, r.given, Slot)
<1>0. PICK n \in Nat : \E c : LineOf(fac, r, n, c)
  BY AllocationLine, Zenon
<1>1. PICK c : LineOf(fac, r, n, c)
  BY <1>0, Zenon
<1>2. PICK l \in Nat : l = Len(fac.queue)
  BY DEF Fronts
<1>3. n <= l /\ Len(r.queue) = l - n /\ \A i \in 1 .. l - n : r.queue[i] = fac.queue[n + i]
  BY <1>1, <1>2 DEF LineOf
<1>4. /\ \A i \in 1 .. n : c[i] \in r.given /\ c[i] \in Gates /\ fac.gate[c[i]] = Free /\ r.gate[c[i]] = fac.queue[i]
      /\ \A g \in r.given : \E i \in 1 .. n : c[i] = g
      /\ \A i, j \in 1 .. n : c[i] = c[j] => i = j
      /\ \A g \in Gates \ r.given : r.gate[g] = fac.gate[g]
  BY <1>1 DEF LineOf
<1>5. /\ (\A g \in r.given : r.gate[g].truck # k) => told = <<>>
      /\ \A g \in r.given : r.gate[g].truck = k /\ (\A h \in r.given : r.gate[h].truck = k => h = g) =>
           told = <<Slot[r.gate[g].visit]>>
  BY NoticesType
<1> HIDE DEF told
<1>6. \A g \in r.given : fac.gate[g] = Free /\ \E i \in 1 .. n : r.gate[g] = fac.queue[i] /\ i \in 1 .. l /\ c[i] = g
  BY <1>3, <1>4
<1>7. \A i \in 1 .. l - n : n + i \in 1 .. l
  BY <1>3
<1>8. ASSUME Gone(fac, k) PROVE Gone(r, k) /\ told = <<>>
  <2>1. (\A i \in 1 .. l : fac.queue[i].truck # k) /\ \A g \in Gates : fac.gate[g].truck # k
    BY <1>2, <1>8 DEF Gone
  <2>2. \A g \in Gates : r.gate[g].truck # k
    <3>1. \A g \in r.given : r.gate[g].truck # k
      BY <1>6, <2>1
    <3> QED BY <1>4, <2>1, <3>1
  <2>3. \A i \in 1 .. l - n : r.queue[i].truck # k
    BY <1>3, <1>7, <2>1
  <2> QED BY <1>3, <1>5, <2>2, <2>3 DEF Gone
<1>9. ASSUME NEW g \in Gates, Served(fac, k, g, v) PROVE Served(r, k, g, v) /\ told = <<>>
  <2>1. fac.gate[g] # Free
    BY <1>9, FreeIsNobody DEF Served
  <2>2. g \notin r.given /\ r.gate[g] = [truck |-> k, visit |-> v]
    BY <1>4, <1>6, <1>9, <2>1 DEF Served
  <2>3. \A h \in r.given : r.gate[h].truck # k
    BY <1>2, <1>6, <1>9 DEF Served
  <2>4. \A h \in Gates : r.gate[h].truck = k => h = g
    BY <1>4, <1>9, <2>3 DEF Served
  <2>5. \A i \in 1 .. l - n : r.queue[i].truck # k
    BY <1>2, <1>3, <1>7, <1>9 DEF Served
  <2> QED BY <1>3, <1>5, <2>2, <2>3, <2>4, <2>5 DEF Served
<1>10. ASSUME Waiting(fac, k, v)
       PROVE  \/ Waiting(r, k, v) /\ told = <<>>
              \/ \E g \in r.given : Served(r, k, g, v) /\ told = <<Slot[v]>>
  <2>1. PICK i \in 1 .. l : /\ fac.queue[i] = [truck |-> k, visit |-> v]
                            /\ \A j \in 1 .. l : fac.queue[j].truck = k => j = i
    BY <1>2, <1>10 DEF Waiting
  <2>2. \A g \in Gates \ r.given : r.gate[g].truck # k
    BY <1>4, <1>10 DEF Waiting
  <2>3. CASE i \in 1 .. n
    <3>1. c[i] \in r.given /\ c[i] \in Gates /\ r.gate[c[i]] = [truck |-> k, visit |-> v]
      BY <1>4, <2>1, <2>3
    <3>2. \A h \in Gates : r.gate[h].truck = k => h = c[i]
      <4> SUFFICES ASSUME NEW h \in Gates, r.gate[h].truck = k PROVE h = c[i]
        OBVIOUS
      <4>1. PICK j \in 1 .. n : r.gate[h] = fac.queue[j] /\ j \in 1 .. l /\ c[j] = h
        BY <1>6, <2>2
      <4> QED BY <2>1, <4>1
    <3>3. \A j \in 1 .. l - n : r.queue[j].truck # k
      <4> SUFFICES ASSUME NEW j \in 1 .. l - n, fac.queue[n + j].truck = k PROVE FALSE
        BY <1>3
      <4>1. n + j = i
        BY <1>7, <2>1
      <4> QED BY <2>3, <4>1
    <3>4. Served(r, k, c[i], v)
      BY <1>3, <3>1, <3>2, <3>3 DEF Served
    <3>5. r.gate[c[i]].truck = k /\ r.gate[c[i]].visit = v
      BY <3>1
    <3>6. told = <<Slot[v]>>
      BY <1>5, <3>1, <3>2, <3>5
    <3> QED BY <3>1, <3>4, <3>6
  <2>4. CASE i \notin 1 .. n
    <3>1. i - n \in 1 .. l - n /\ n + (i - n) = i
      BY <1>3, <2>4
    <3>2. r.queue[i - n] = [truck |-> k, visit |-> v]
      BY <1>3, <2>1, <3>1
    <3>3. \A j \in 1 .. l - n : r.queue[j].truck = k => j = i - n
      <4> SUFFICES ASSUME NEW j \in 1 .. l - n, fac.queue[n + j].truck = k PROVE j = i - n
        BY <1>3
      <4>1. n + j = i
        BY <1>7, <2>1
      <4> QED BY <4>1
    <3>4. \A g \in r.given : r.gate[g].truck # k
      <4> SUFFICES ASSUME NEW g \in r.given, r.gate[g].truck = k PROVE FALSE
        OBVIOUS
      <4>1. PICK j \in 1 .. n : r.gate[g] = fac.queue[j] /\ j \in 1 .. l
        BY <1>6
      <4> QED BY <2>1, <2>4, <4>1
    <3>5. Waiting(r, k, v)
      <4> DEFINE m == i - n
      <4>1. m \in 1 .. Len(r.queue) /\ r.queue[m] = [truck |-> k, visit |-> v]
            /\ \A j \in 1 .. Len(r.queue) : r.queue[j].truck = k => j = m
        BY <1>3, <3>1, <3>2, <3>3
      <4> HIDE DEF m
      <4> QED BY <2>2, <3>4, <4>1 DEF Waiting
    <3> QED BY <1>5, <3>4, <3>5
  <2> QED BY <2>3, <2>4
<1> QED BY <1>8, <1>9, <1>10 DEF told

\* The services that end at the gates in due, seen by one truck.
ServicesEnd(r, s, due) ==
  s.queue = r.queue /\ \A g \in Gates : s.gate[g] = IF g \in due THEN Free ELSE r.gate[g]
LEMMA EndSeen ==
  ASSUME NEW r, NEW s, NEW due \in SUBSET Gates, NEW k \in Trucks, NEW v \in Kinds,
         r.gate \in [Gates -> Visits \cup {Free}], r.queue \in Seq(Visits), ServicesEnd(r, s, due)
  PROVE  LET told == Notices(k, r.gate, due, DoneMsg)
         IN /\ Gone(r, k) => Gone(s, k) /\ told = <<>>
            /\ Waiting(r, k, v) => Waiting(s, k, v) /\ told = <<>>
            /\ \A g \in Gates : Served(r, k, g, v) =>
                 /\ g \in due => Gone(s, k) /\ told = <<DoneMsg[v]>>
                 /\ g \notin due => Served(s, k, g, v) /\ told = <<>>
<1> DEFINE told == Notices(k, r.gate, due, DoneMsg)
<1>1. /\ (\A g \in due : r.gate[g].truck # k) => told = <<>>
      /\ \A g \in due : r.gate[g].truck = k /\ (\A h \in due : r.gate[h].truck = k => h = g) =>
           told = <<DoneMsg[r.gate[g].visit]>>
  BY NoticesType
<1> HIDE DEF told
<1>0. s.queue = r.queue /\ \A g \in Gates : s.gate[g] = IF g \in due THEN Free ELSE r.gate[g]
  BY DEF ServicesEnd
<1>2. \A g \in Gates : s.gate[g].truck = k => g \notin due /\ r.gate[g].truck = k
  BY <1>0, FreeIsNobody
<1>3. ASSUME Gone(r, k) PROVE Gone(s, k) /\ told = <<>>
  BY <1>0, <1>1, <1>2, <1>3 DEF Gone
<1>4. ASSUME Waiting(r, k, v) PROVE Waiting(s, k, v) /\ told = <<>>
  <2>1. \A g \in Gates : r.gate[g].truck # k /\ s.gate[g].truck # k
    BY <1>0, <1>2, <1>4 DEF Waiting
  <2> QED BY <1>0, <1>1, <1>4, <2>1 DEF Waiting
<1>5. ASSUME NEW g \in Gates, Served(r, k, g, v)
      PROVE  /\ g \in due => Gone(s, k) /\ told = <<DoneMsg[v]>>
             /\ g \notin due => Served(s, k, g, v) /\ told = <<>>
  <2>1. /\ r.gate[g] = [truck |-> k, visit |-> v] /\ r.gate[g].truck = k /\ r.gate[g].visit = v
        /\ \A h \in Gates : r.gate[h].truck = k => h = g
        /\ \A i \in 1 .. Len(s.queue) : s.queue[i].truck # k
    BY <1>0, <1>5 DEF Served
  <2>2. CASE g \in due
    <3>1. told = <<DoneMsg[v]>>
      BY <1>0, <1>1, <2>1, <2>2
    <3>2. \A h \in Gates : s.gate[h].truck # k
      BY <1>0, <1>2, <2>1, <2>2
    <3> QED BY <2>1, <2>2, <3>1, <3>2 DEF Gone
  <2>3. CASE g \notin due
    <3>1. told = <<>> /\ s.gate[g] = [truck |-> k, visit |-> v]
      BY <1>0, <1>1, <2>1, <2>3
    <3> QED BY <1>0, <1>2, <2>1, <2>3, <3>1 DEF Served
  <2> QED BY <2>2, <2>3
<1> QED BY <1>3, <1>4, <1>5 DEF told

\* The gates an allocation gives out were free and are taken, the others stay as they are.
LEMMA AllocationBusy ==
  ASSUME NEW fac \in Fronts, NEW r, Allocated(fac, r), r.given \in SUBSET Gates
  PROVE  \A g \in Gates : /\ r.gate[g] # Free <=> (fac.gate[g] # Free \/ g \in r.given)
                          /\ g \in r.given => fac.gate[g] = Free
<1>0. PICK n \in Nat : \E c : LineOf(fac, r, n, c)
  BY AllocationLine, Zenon
<1>1. PICK c : LineOf(fac, r, n, c)
  BY <1>0, Zenon
<1>2. PICK l \in Nat : l = Len(fac.queue) /\ n <= l /\ \A i \in 1 .. l : fac.queue[i] \in Visits
  <2>1. fac.queue \in Seq(Visits)
    BY DEF Fronts
  <2>2. n <= Len(fac.queue)
    BY <1>1 DEF LineOf
  <2> QED BY <2>1, <2>2
<1>3. \A i \in 1 .. n : fac.queue[i] # Free
  <2> SUFFICES ASSUME NEW i \in 1 .. n PROVE fac.queue[i] # Free
    OBVIOUS
  <2>1. fac.queue[i] \in Visits
    BY <1>2
  <2> QED BY <2>1, FreeIsNobody DEF Visits
<1>4. \A g \in r.given : r.gate[g] # Free /\ fac.gate[g] = Free
  <2>1. /\ \A i \in 1 .. n : fac.gate[c[i]] = Free /\ r.gate[c[i]] = fac.queue[i]
        /\ \A g \in r.given : \E i \in 1 .. n : c[i] = g
    BY <1>1, Zenon DEF LineOf
  <2> SUFFICES ASSUME NEW g \in r.given PROVE r.gate[g] # Free /\ fac.gate[g] = Free
    OBVIOUS
  <2>2. PICK i \in 1 .. n : c[i] = g
    BY <2>1
  <2>3. fac.gate[g] = Free /\ r.gate[g] = fac.queue[i]
    BY <2>1, <2>2
  <2> QED BY <1>3, <2>3
<1>5. \A g \in Gates \ r.given : r.gate[g] = fac.gate[g]
  BY <1>1 DEF LineOf
<1> QED BY <1>4, <1>5

\* Arrivals behind a line: those of others change nothing for truck k, its own puts it there.
LEMMA LineGrows ==
  ASSUME NEW fac \in Fronts, NEW s, NEW es \in Seq(Visits), NEW k \in Trucks, NEW v \in Kinds,
         s.gate = fac.gate, s.queue = fac.queue \o es
  PROVE  /\ (\A i \in 1 .. Len(es) : es[i].truck # k) =>
              /\ Gone(fac, k) => Gone(s, k)
              /\ Waiting(fac, k, v) => Waiting(s, k, v)
              /\ \A g \in Gates : Served(fac, k, g, v) => Served(s, k, g, v)
         /\ es = <<[truck |-> k, visit |-> v]>> /\ Gone(fac, k) => Waiting(s, k, v)
<1>1. PICK l \in Nat, m \in Nat : l = Len(fac.queue) /\ m = Len(es)
  BY DEF Fronts
<1>2. /\ Len(s.queue) = l + m
      /\ \A i \in 1 .. l : s.queue[i] = fac.queue[i]
      /\ \A i \in l + 1 .. l + m : s.queue[i] = es[i - l]
  BY <1>1 DEF Fronts
<1>3. \A i \in 1 .. l + m : i \in 1 .. l \/ (i \in l + 1 .. l + m /\ i - l \in 1 .. m)
  OBVIOUS
<1>4. ASSUME \A i \in 1 .. Len(es) : es[i].truck # k
      PROVE  /\ Gone(fac, k) => Gone(s, k)
             /\ Waiting(fac, k, v) => Waiting(s, k, v)
             /\ \A g \in Gates : Served(fac, k, g, v) => Served(s, k, g, v)
  <2>1. \A i \in 1 .. l + m : s.queue[i].truck = k => i \in 1 .. l /\ fac.queue[i].truck = k
    BY <1>1, <1>2, <1>3, <1>4
  <2>2. Gone(fac, k) => Gone(s, k)
    BY <1>1, <1>2, <2>1 DEF Gone
  <2>3. \A g \in Gates : Served(fac, k, g, v) => Served(s, k, g, v)
    BY <1>1, <1>2, <2>1 DEF Served
  <2>4. ASSUME Waiting(fac, k, v) PROVE Waiting(s, k, v)
    <3>1. PICK i \in 1 .. l : /\ fac.queue[i] = [truck |-> k, visit |-> v]
                              /\ \A j \in 1 .. l : fac.queue[j].truck = k => j = i
      BY <1>1, <2>4 DEF Waiting
    <3>2. i \in 1 .. l + m /\ s.queue[i] = [truck |-> k, visit |-> v]
      BY <1>2, <3>1
    <3>3. \A j \in 1 .. l + m : s.queue[j].truck = k => j = i
      BY <2>1, <3>1
    <3> QED BY <1>2, <2>4, <3>2, <3>3 DEF Waiting
  <2> QED BY <2>2, <2>3, <2>4
<1>5. ASSUME es = <<[truck |-> k, visit |-> v]>>, Gone(fac, k) PROVE Waiting(s, k, v)
  <2>1. m = 1 /\ es[1] = [truck |-> k, visit |-> v]
    BY <1>1, <1>5
  <2>2. PICK i : i = l + 1
    OBVIOUS
  <2>3. i \in 1 .. l + m /\ s.queue[i] = [truck |-> k, visit |-> v]
    <3>1. i \in l + 1 .. l + m /\ i - l = 1
      BY <2>1, <2>2
    <3>2. s.queue[i] = es[1]
      BY <1>2, <3>1
    <3> QED BY <2>1, <3>1, <3>2
  <2>4. \A j \in 1 .. l + m : s.queue[j].truck = k => j = i
    BY <1>1, <1>2, <1>5, <2>1, <2>2 DEF Gone
  <2>5. \A g \in Gates : s.gate[g].truck # k
    BY <1>5 DEF Gone
  <2> QED BY <1>2, <2>3, <2>4, <2>5 DEF Waiting
<1> QED BY <1>4, <1>5

\* What the truck holds and has been told while the facilities do not have it, have it in
\* line, have it at a gate.  After a refused PATCH its trip may be behind its messages.
OnTheRoad(k) ==
  \/ tq[k] = <<>> /\ (failed \/ trip[k].st \notin Visiting)
  \/ \E v \in Kinds :
       \/ tq[k] = <<Slot[v], DoneMsg[v]>> /\ trip[k].st = QueuedFor(v)
       \/ tq[k] = <<DoneMsg[v]>> /\ (trip[k].st = AtGateOf(v) \/ (failed /\ trip[k].st = QueuedFor(v)))
InLineFor(k, v) == tq[k] = <<>> /\ trip[k].st = QueuedFor(v)
AtGateFor(k, v) ==
  \/ tq[k] = <<Slot[v]>> /\ trip[k].st = QueuedFor(v)
  \/ tq[k] = <<>> /\ (trip[k].st = AtGateOf(v) \/ (failed /\ trip[k].st = QueuedFor(v)))

\* A truck is in the books of one facility at most, and both sides agree on why.
Absent(k) == \A f \in Facilities : Gone(Arrived(f), k)
OnlyAt(k, f) == \A e \in Facilities : e # f => Gone(Arrived(e), k)
HeldAt(k, f, v) ==
  \/ InLineFor(k, v) /\ Waiting(Arrived(f), k, v)
  \/ AtGateFor(k, v) /\ \E g \in Gates : Served(Arrived(f), k, g, v)
VisitOf(k) ==
  \/ OnTheRoad(k) /\ Absent(k)
  \/ \E f \in Facilities, v \in Kinds : OnlyAt(k, f) /\ HeldAt(k, f, v)

\* The gates with an end of service are the busy ones, when services take time at all.
EndsInv ==
  \A f \in Facilities :
    /\ \A g \in ends[f] : gate[f][g] # Free
    /\ ServiceTime > 0 => \A g \in Gates : gate[f][g] # Free => g \in ends[f]
VisitInv == EndsInv /\ (Running => \A k \in Trucks : VisitOf(k))

\* A step that does not touch truck k nor what facilities know of it.
KeptFor(k) ==
  \A f \in Facilities, v \in Kinds :
    /\ Gone(Arrived(f), k) => Gone(Arrived(f), k)'
    /\ Waiting(Arrived(f), k, v) => Waiting(Arrived(f), k, v)'
    /\ \A g \in Gates : Served(Arrived(f), k, g, v) => Served(Arrived(f), k, g, v)'
LEMMA VisitKept ==
  ASSUME NEW k \in Trucks, VisitOf(k), trip'[k] = trip[k], tq'[k] = tq[k], failed => failed',
         KeptFor(k)
  PROVE  VisitOf(k)'
<1>1. OnTheRoad(k) => OnTheRoad(k)'
  BY DEF OnTheRoad
<1>2. \A v \in Kinds : (InLineFor(k, v) => InLineFor(k, v)') /\ (AtGateFor(k, v) => AtGateFor(k, v)')
  BY DEF InLineFor, AtGateFor
<1>3. CASE OnTheRoad(k) /\ Absent(k)
  <2>1. Absent(k)'
    <3>1. "pickup" \in Kinds
      BY DEF Kinds
    <3> QED BY <1>3, <3>1, Zenon DEF Absent, KeptFor
  <2> QED BY <1>1, <1>3, <2>1 DEF VisitOf
<1>4. CASE \E f \in Facilities, v \in Kinds : OnlyAt(k, f) /\ HeldAt(k, f, v)
  <2>1. PICK f \in Facilities, v \in Kinds : OnlyAt(k, f) /\ HeldAt(k, f, v)
    BY <1>4
  <2>2. OnlyAt(k, f)'
    BY <2>1, Zenon DEF OnlyAt, KeptFor
  <2>3. HeldAt(k, f, v)'
    BY <1>2, <2>1, Zenon DEF HeldAt, KeptFor
  <2> QED BY <2>2, <2>3, Zenon DEF VisitOf
<1> QED BY <1>3, <1>4 DEF VisitOf

\* A step of facility f, seen by one truck: where it is afterwards and what it is told.
SeenAtStep(f, k, v) ==
  /\ Gone(Arrived(f), k) => Gone(Arrived(f), k)' /\ tq'[k] = tq[k]
  /\ Waiting(Arrived(f), k, v) =>
       \/ Waiting(Arrived(f), k, v)' /\ tq'[k] = tq[k]
       \/ (\E g \in Gates : Served(Arrived(f), k, g, v)') /\ tq'[k] = tq[k] \o <<Slot[v]>>
  /\ \A g \in Gates : Served(Arrived(f), k, g, v) =>
       \/ Served(Arrived(f), k, g, v)' /\ tq'[k] = tq[k]
       \/ Gone(Arrived(f), k)' /\ tq'[k] = tq[k] \o <<DoneMsg[v]>>
LEMMA FacilitySeen ==
  ASSUME TypeInv, EndsInv, NEW f \in Facilities, NEW due \in SUBSET ends[f], FacilityStep(f, due),
         NEW k \in Trucks, NEW v \in Kinds
  PROVE  SeenAtStep(f, k, v)
<1>1. /\ FacilityOutcome(f, due) /\ due \in SUBSET Gates
      /\ Arrived(f) \in Fronts /\ Freed(f, due) \in Fronts
      /\ Allocated(Arrived(f), First(f)) /\ Allocated(Freed(f, due), Second(f, due))
      /\ First(f).queue \in Seq(Visits) /\ First(f).gate \in [Gates -> Visits \cup {Free}]
      /\ First(f).given \in SUBSET Gates
      /\ Second(f, due).queue \in Seq(Visits)
      /\ Second(f, due).gate \in [Gates -> Visits \cup {Free}]
      /\ Second(f, due).given \in SUBSET Gates
  BY FacilityFacts
<1> DEFINE r == First(f)
           s == Freed(f, due)
           z == Second(f, due)
           t1 == Notices(k, r.gate, r.given, Slot)
           t2 == Notices(k, r.gate, due, DoneMsg)
           t3 == Notices(k, z.gate, z.given, Slot)
<1>2. ServicesEnd(r, s, due)
  BY DEF Freed, ServicesEnd
<1>3. \A g \in r.given : g \notin due
  <2>1. \A g \in r.given : Arrived(f).gate[g] = Free
    BY <1>1, AllocationBusy
  <2> QED BY <2>1 DEF Arrived, EndsInv
<1>4. /\ Gone(Arrived(f), k) => Gone(r, k) /\ t1 = <<>>
      /\ Waiting(Arrived(f), k, v) =>
           \/ Waiting(r, k, v) /\ t1 = <<>>
           \/ \E g \in r.given : Served(r, k, g, v) /\ t1 = <<Slot[v]>>
      /\ \A g \in Gates : Served(Arrived(f), k, g, v) => Served(r, k, g, v) /\ t1 = <<>>
  BY <1>1, AllocationSeen
<1>5. /\ Gone(r, k) => Gone(s, k) /\ t2 = <<>>
      /\ Waiting(r, k, v) => Waiting(s, k, v) /\ t2 = <<>>
      /\ \A g \in Gates : Served(r, k, g, v) =>
           /\ g \in due => Gone(s, k) /\ t2 = <<DoneMsg[v]>>
           /\ g \notin due => Served(s, k, g, v) /\ t2 = <<>>
  <2>1. /\ r.gate \in [Gates -> Visits \cup {Free}] /\ r.queue \in Seq(Visits)
        /\ due \in SUBSET Gates
    BY <1>1
  <2> HIDE DEF r, s
  <2> QED BY <1>2, <2>1, EndSeen, Zenon DEF t2
<1>6. /\ Gone(s, k) => Gone(z, k) /\ t3 = <<>>
      /\ Waiting(s, k, v) =>
           \/ Waiting(z, k, v) /\ t3 = <<>>
           \/ \E g \in z.given : Served(z, k, g, v) /\ t3 = <<Slot[v]>>
      /\ \A g \in Gates : Served(s, k, g, v) => Served(z, k, g, v) /\ t3 = <<>>
  BY <1>1, AllocationSeen
<1>7. Arrived(f)'.queue = z.queue /\ Arrived(f)'.gate = z.gate
  <2>1. queue'[f] = z.queue /\ gate'[f] = z.gate /\ fq'[f] = <<>>
    BY <1>1 DEF FacilityOutcome, TypeInv, GateTypes
  <2>2. queue'[f] \o fq'[f] = z.queue
    BY <1>1, <2>1, ConcatEmptySeq
  <2> HIDE DEF z
  <2> QED BY <2>1, <2>2 DEF Arrived
<1>8. tq'[k] = tq[k] \o t1 \o t2 \o t3 /\ tq[k] \in Seq(GateMsgs)
  BY <1>1 DEF FacilityOutcome, TypeInv, TruckTypes
<1>9. /\ Gone(z, k) => Gone(Arrived(f), k)'
      /\ Waiting(z, k, v) => Waiting(Arrived(f), k, v)'
      /\ \A g \in Gates : Served(z, k, g, v) => Served(Arrived(f), k, g, v)'
  <2> HIDE DEF z
  <2>1. Gone(z, k) => Gone(Arrived(f), k)'
    BY <1>7 DEF Gone
  <2>2. Waiting(z, k, v) => Waiting(Arrived(f), k, v)'
    BY <1>7 DEF Waiting
  <2>3. \A g \in Gates : Served(z, k, g, v) => Served(Arrived(f), k, g, v)'
    BY <1>7 DEF Served
  <2> QED BY <2>1, <2>2, <2>3
<1>10. \A g \in r.given \cup z.given : g \in Gates
  BY <1>1
<1>11. Slot[v] \in GateMsgs /\ DoneMsg[v] \in GateMsgs
  BY DEF Kinds, Slot, DoneMsg, GateMsgs
<1> HIDE DEF r, s, z, t1, t2, t3
<1>12. PICK ms \in Seq(GateMsgs) : ms = tq[k]
  BY <1>8
<1>13. /\ ms \o <<>> \o <<>> \o <<>> = ms
       /\ \A m \in GateMsgs : /\ ms \o <<m>> \o <<>> \o <<>> = ms \o <<m>>
                              /\ ms \o <<>> \o <<m>> \o <<>> = ms \o <<m>>
                              /\ ms \o <<>> \o <<>> \o <<m>> = ms \o <<m>>
  BY ConcatEmptySeq
<1>14. ASSUME Gone(Arrived(f), k) PROVE Gone(Arrived(f), k)' /\ tq'[k] = tq[k]
  BY <1>4, <1>5, <1>6, <1>8, <1>9, <1>12, <1>13, <1>14, Zenon
<1>15. ASSUME Waiting(Arrived(f), k, v)
       PROVE  \/ Waiting(Arrived(f), k, v)' /\ tq'[k] = tq[k]
              \/ (\E g \in Gates : Served(Arrived(f), k, g, v)') /\ tq'[k] = tq[k] \o <<Slot[v]>>
  <2>1. CASE Waiting(r, k, v) /\ t1 = <<>>
    <3>1. Waiting(s, k, v) /\ t2 = <<>>
      BY <1>5, <2>1, Zenon
    <3>2. CASE Waiting(z, k, v) /\ t3 = <<>>
      BY <1>8, <1>9, <1>12, <1>13, <2>1, <3>1, <3>2, Zenon
    <3>3. ASSUME NEW g \in z.given, Served(z, k, g, v), t3 = <<Slot[v]>>
          PROVE  (\E h \in Gates : Served(Arrived(f), k, h, v)') /\ tq'[k] = tq[k] \o <<Slot[v]>>
      <4>1. g \in Gates /\ Served(Arrived(f), k, g, v)'
        BY <1>9, <1>10, <3>3
      <4>2. tq'[k] = tq[k] \o <<Slot[v]>>
        BY <1>8, <1>11, <1>12, <1>13, <2>1, <3>1, <3>3, Zenon
      <4> QED BY <4>1, <4>2, Zenon
    <3> QED BY <1>6, <3>1, <3>2, <3>3, Zenon
  <2>2. ASSUME NEW g \in r.given, Served(r, k, g, v), t1 = <<Slot[v]>>
        PROVE  (\E h \in Gates : Served(Arrived(f), k, h, v)') /\ tq'[k] = tq[k] \o <<Slot[v]>>
    <3>1. g \in Gates /\ Served(s, k, g, v) /\ t2 = <<>>
      BY <1>3, <1>5, <1>10, <2>2
    <3>2. Served(Arrived(f), k, g, v)' /\ t3 = <<>>
      BY <1>6, <1>9, <3>1
    <3>3. tq'[k] = tq[k] \o <<Slot[v]>>
      BY <1>8, <1>11, <1>12, <1>13, <2>2, <3>1, <3>2, Zenon
    <3> QED BY <3>1, <3>2, <3>3, Zenon
  <2> QED BY <1>4, <1>15, <2>1, <2>2, Zenon
<1>16. ASSUME NEW g \in Gates, Served(Arrived(f), k, g, v)
       PROVE  \/ Served(Arrived(f), k, g, v)' /\ tq'[k] = tq[k]
              \/ Gone(Arrived(f), k)' /\ tq'[k] = tq[k] \o <<DoneMsg[v]>>
  <2>1. Served(r, k, g, v) /\ t1 = <<>>
    BY <1>4, <1>16, Zenon
  <2>2. CASE g \in due
    <3>1. Gone(s, k) /\ t2 = <<DoneMsg[v]>>
      BY <1>5, <2>1, <2>2
    <3> QED BY <1>6, <1>8, <1>9, <1>11, <1>12, <1>13, <2>1, <3>1, Zenon
  <2>3. CASE g \notin due
    <3>1. Served(s, k, g, v) /\ t2 = <<>>
      BY <1>5, <2>1, <2>3
    <3> QED BY <1>6, <1>8, <1>9, <1>12, <1>13, <2>1, <3>1, Zenon
  <2> QED BY <2>2, <2>3
<1> QED BY <1>14, <1>15, <1>16, Zenon DEF SeenAtStep

LEMMA QueueMessages ==
  \A v \in Kinds : /\ <<>> \o <<Slot[v]>> = <<Slot[v]>> /\ <<>> \o <<DoneMsg[v]>> = <<DoneMsg[v]>>
                   /\ <<Slot[v]>> \o <<DoneMsg[v]>> = <<Slot[v], DoneMsg[v]>>
                   /\ QueuedFor(v) \in Visiting /\ AtGateOf(v) \in Visiting
<1> SUFFICES ASSUME NEW v \in Kinds
    PROVE  /\ <<>> \o <<Slot[v]>> = <<Slot[v]>> /\ <<>> \o <<DoneMsg[v]>> = <<DoneMsg[v]>>
           /\ <<Slot[v]>> \o <<DoneMsg[v]>> = <<Slot[v], DoneMsg[v]>>
           /\ QueuedFor(v) \in Visiting /\ AtGateOf(v) \in Visiting
  OBVIOUS
<1>1. QueuedFor(v) \in Visiting /\ AtGateOf(v) \in Visiting
  BY DEF Visiting, QueuedFor, AtGateOf
<1>2. PICK a, b : a = Slot[v] /\ b = DoneMsg[v]
  OBVIOUS
<1>3. <<>> \o <<a>> = <<a>> /\ <<>> \o <<b>> = <<b>> /\ <<a>> \o <<b>> = <<a, b>>
  <2>1. <<a>> \in Seq({a, b}) /\ <<b>> \in Seq({a, b})
    OBVIOUS
  <2>2. <<>> \o <<a>> = <<a>> /\ <<>> \o <<b>> = <<b>>
    BY <2>1, ConcatEmptySeq
  <2>3. <<a>> \o <<b>> = <<a, b>>
    <3>1. PICK s, t : s = <<a>> \o <<b>> /\ t = <<a, b>>
      OBVIOUS
    <3>2. s \in Seq({a, b}) /\ Len(s) = 2 /\ s[1] = a /\ s[2] = b
      BY <2>1, <3>1
    <3>3. t \in Seq({a, b}) /\ Len(t) = 2 /\ t[1] = a /\ t[2] = b
      BY <3>1
    <3>4. \A i \in 1 .. Len(s) : i = 1 \/ i = 2
      BY <3>2
    <3>5. s = t
      BY <3>2, <3>3, <3>4, SeqEqual
    <3> QED BY <3>1, <3>5
  <2> QED BY <2>2, <2>3
<1> QED BY <1>1, <1>2, <1>3

LEMMA FacilityVisits ==
  ASSUME TypeInv, EndsInv, NEW f \in Facilities, NEW due \in SUBSET ends[f], FacilityStep(f, due),
         NEW k \in Trucks, VisitOf(k)
  PROVE  VisitOf(k)'
<1>1. \A v \in Kinds : SeenAtStep(f, k, v)
  BY FacilitySeen
<1>2. FacilityOutcome(f, due)
  BY FacilityFacts
<1>3. trip' = trip /\ failed' = failed
  BY <1>2 DEF FacilityOutcome, truckVars
<1>4. \A e \in Facilities : e # f => Arrived(e)' = Arrived(e)
  BY <1>2 DEF FacilityOutcome, TypeInv, GateTypes, Arrived
<1>5. \A e \in Facilities : e # f =>
        /\ Gone(Arrived(e), k) => Gone(Arrived(e), k)'
        /\ \A v \in Kinds : /\ Waiting(Arrived(e), k, v) => Waiting(Arrived(e), k, v)'
                            /\ \A g \in Gates : Served(Arrived(e), k, g, v) => Served(Arrived(e), k, g, v)'
  BY <1>4 DEF Gone, Waiting, Served
<1>6. "pickup" \in Kinds
  BY DEF Kinds
<1>7. ASSUME tq'[k] = tq[k],
             \A v \in Kinds : 
               /\ Gone(Arrived(f), k) => Gone(Arrived(f), k)'
               /\ Waiting(Arrived(f), k, v) => Waiting(Arrived(f), k, v)'
               /\ \A g \in Gates : Served(Arrived(f), k, g, v) => Served(Arrived(f), k, g, v)'
      PROVE  VisitOf(k)'
  <2>1. KeptFor(k)
    BY <1>5, <1>7, Zenon DEF KeptFor
  <2>2. trip'[k] = trip[k] /\ (failed => failed')
    BY <1>3
  <2> QED BY <1>7, <2>1, <2>2, VisitKept, Zenon
<1>8. ASSUME Gone(Arrived(f), k) PROVE VisitOf(k)'
  <2>1. tq'[k] = tq[k] /\ Gone(Arrived(f), k)'
    BY <1>1, <1>6, <1>8, Zenon DEF SeenAtStep
  <2>2. \A v \in Kinds : ~Waiting(Arrived(f), k, v) /\ \A g \in Gates : ~Served(Arrived(f), k, g, v)
    BY <1>8 DEF Gone, Waiting, Served
  <2> QED BY <1>7, <2>1, <2>2, Zenon
<1>9. ASSUME ~Gone(Arrived(f), k) PROVE VisitOf(k)'
  <2>1. PICK v \in Kinds : OnlyAt(k, f) /\ HeldAt(k, f, v)
    BY <1>9, Zenon DEF VisitOf, Absent, OnlyAt
  <2>2. OnlyAt(k, f)'
    BY <1>5, <2>1, Zenon DEF OnlyAt
  <2>3. SeenAtStep(f, k, v)
    BY <1>1
  <2>4. trip'[k].st = trip[k].st /\ failed' = failed
    BY <1>3
  <2>5. ASSUME HeldAt(k, f, v)' PROVE VisitOf(k)'
    BY <2>2, <2>5, Zenon DEF VisitOf
  <2>6. ASSUME Gone(Arrived(f), k)', OnTheRoad(k)' PROVE VisitOf(k)'
    BY <2>2, <2>6, Zenon DEF VisitOf, OnlyAt, Absent
  <2>7. CASE InLineFor(k, v) /\ Waiting(Arrived(f), k, v)
    <3>1. CASE Waiting(Arrived(f), k, v)' /\ tq'[k] = tq[k]
      <4>1. InLineFor(k, v)'
        BY <2>4, <2>7, <3>1 DEF InLineFor
      <4> QED BY <2>5, <3>1, <4>1, Zenon DEF HeldAt
    <3>2. CASE (\E g \in Gates : Served(Arrived(f), k, g, v)') /\ tq'[k] = tq[k] \o <<Slot[v]>>
      <4>1. AtGateFor(k, v)'
        BY <2>4, <2>7, <3>2, QueueMessages DEF InLineFor, AtGateFor
      <4> QED BY <2>5, <3>2, <4>1, Zenon DEF HeldAt
    <3> QED BY <2>3, <2>7, <3>1, <3>2, Zenon DEF SeenAtStep
  <2>8. ASSUME NEW g \in Gates, AtGateFor(k, v), Served(Arrived(f), k, g, v) PROVE VisitOf(k)'
    <3>1. CASE Served(Arrived(f), k, g, v)' /\ tq'[k] = tq[k]
      <4>1. AtGateFor(k, v)'
        BY <2>4, <2>8, <3>1 DEF AtGateFor
      <4> QED BY <2>5, <3>1, <4>1, Zenon DEF HeldAt
    <3>2. CASE Gone(Arrived(f), k)' /\ tq'[k] = tq[k] \o <<DoneMsg[v]>>
      <4>1. OnTheRoad(k)'
        <5>1. CASE tq[k] = <<Slot[v]>> /\ trip[k].st = QueuedFor(v)
          <6>1. tq'[k] = <<Slot[v], DoneMsg[v]>> /\ trip'[k].st = QueuedFor(v)
            BY <2>4, <3>2, <5>1, QueueMessages
          <6> QED BY <6>1, Zenon DEF OnTheRoad
        <5>2. CASE tq[k] = <<>> /\ (trip[k].st = AtGateOf(v) \/ (failed /\ trip[k].st = QueuedFor(v)))
          <6>1. /\ tq'[k] = <<DoneMsg[v]>>
                /\ trip'[k].st = AtGateOf(v) \/ (failed' /\ trip'[k].st = QueuedFor(v))
            BY <2>4, <3>2, <5>2, QueueMessages
          <6> QED BY <6>1, Zenon DEF OnTheRoad
        <5> QED BY <2>8, <5>1, <5>2 DEF AtGateFor
      <4> QED BY <2>6, <3>2, <4>1
    <3> QED BY <2>3, <2>8, <3>1, <3>2, Zenon DEF SeenAtStep
  <2> QED BY <2>1, <2>7, <2>8, Zenon DEF HeldAt
<1> QED BY <1>8, <1>9

\* Services that take time have their end scheduled when their gate is given out.
LEMMA FacilityEnds ==
  ASSUME TypeInv, EndsInv, NEW f \in Facilities, NEW due \in SUBSET ends[f], FacilityStep(f, due)
  PROVE  EndsInv'
<1>1. /\ FacilityOutcome(f, due) /\ due \in SUBSET Gates
      /\ Arrived(f) \in Fronts /\ Freed(f, due) \in Fronts
      /\ Allocated(Arrived(f), First(f)) /\ Allocated(Freed(f, due), Second(f, due))
      /\ First(f).given \in SUBSET Gates
      /\ Second(f, due).given \in SUBSET Gates
  BY FacilityFacts
<1> DEFINE r == First(f)
           z == Second(f, due)
<1>2. \A g \in Gates : /\ r.gate[g] # Free <=> (gate[f][g] # Free \/ g \in r.given)
                       /\ g \in r.given => gate[f][g] = Free
  <2>1. \A g \in Gates : /\ r.gate[g] # Free <=> (Arrived(f).gate[g] # Free \/ g \in r.given)
                         /\ g \in r.given => Arrived(f).gate[g] = Free
    BY <1>1, AllocationBusy
  <2> HIDE DEF r
  <2> QED BY <2>1 DEF Arrived
<1>3. \A g \in Gates : z.gate[g] # Free <=> ((g \notin due /\ r.gate[g] # Free) \/ g \in z.given)
  <2>1. \A g \in Gates : z.gate[g] # Free <=> (Freed(f, due).gate[g] # Free \/ g \in z.given)
    BY <1>1, AllocationBusy
  <2>2. \A g \in Gates : Freed(f, due).gate[g] = IF g \in due THEN Free ELSE r.gate[g]
    BY DEF Freed
  <2> HIDE DEF r, z
  <2> QED BY <2>1, <2>2
<1>4. /\ gate'[f] = z.gate
      /\ ends'[f] = ((ends[f] \cup EndsOf(r.given)) \ due) \cup EndsOf(z.given)
      /\ \A e \in Facilities : e # f => gate'[e] = gate[e] /\ ends'[e] = ends[e]
  BY <1>1 DEF FacilityOutcome, TypeInv, GateTypes
<1>5. /\ \A g \in ends[f] : g \in Gates /\ gate[f][g] # Free
      /\ ServiceTime > 0 => \A g \in Gates : gate[f][g] # Free => g \in ends[f]
  BY DEF EndsInv, TypeInv, GateTypes
<1>6. /\ EndsOf(r.given) \subseteq r.given /\ EndsOf(z.given) \subseteq z.given
      /\ ServiceTime > 0 => EndsOf(r.given) = r.given /\ EndsOf(z.given) = z.given
  BY DEF EndsOf
<1>7. r.given \subseteq Gates /\ z.given \subseteq Gates
  BY <1>1
<1> HIDE DEF r, z
<1>8. \A g \in ends'[f] : gate'[f][g] # Free
  BY <1>2, <1>3, <1>4, <1>5, <1>6, <1>7
<1>9. ServiceTime > 0 => \A g \in Gates : gate'[f][g] # Free => g \in ends'[f]
  BY <1>2, <1>3, <1>4, <1>5, <1>6, <1>7
<1> QED BY <1>4, <1>8, <1>9 DEF EndsInv

\* What a truck publishes, seen at the facilities: nothing changes for the others, and its own
\* visit puts it in one line.
LEMMA PublishedSeen ==
  ASSUME TypeInv, NEW k \in Trucks, NEW w \in Spoken, Published(k, w), UNCHANGED gateVars
  PROVE  /\ \A j \in Trucks : j # k => KeptFor(j)
         /\ w.visits = Nothing => KeptFor(k)
         /\ \A v \in Kinds, o \in Orders : w.visits = OneVisit(v, o) /\ Absent(k) =>
              /\ Visit(v, o) \in Facilities /\ OnlyAt(k, Visit(v, o))'
              /\ Waiting(Arrived(Visit(v, o)), k, v)'
<1> DEFINE News(f) == [i \in 1 .. Len(w.visits[f]) |-> [truck |-> k, visit |-> w.visits[f][i]]]
<1>1. ASSUME NEW f \in Facilities
      PROVE  /\ Arrived(f) \in Fronts /\ Arrived(f)'.gate = Arrived(f).gate
             /\ News(f) \in Seq(Visits) /\ Arrived(f)'.queue = Arrived(f).queue \o News(f)
             /\ \A i \in 1 .. Len(News(f)) : News(f)[i].truck = k
             /\ w.visits[f] = <<>> => News(f) = <<>>
             /\ \A v \in Kinds : w.visits[f] = <<v>> => News(f) = <<[truck |-> k, visit |-> v]>>
  <2>1. /\ queue[f] \in Seq(Visits) /\ fq[f] \in Seq(Visits) /\ gate[f] \in [Gates -> Visits \cup {Free}]
        /\ w.visits[f] \in Seq(Kinds)
    BY DEF TypeInv, GateTypes, Spoken
  <2>2. PICK n \in Nat : n = Len(w.visits[f]) /\ \A i \in 1 .. n : w.visits[f][i] \in Kinds
    BY <2>1
  <2>3. News(f) = [i \in 1 .. n |-> [truck |-> k, visit |-> w.visits[f][i]]]
    BY <2>2
  <2>4. News(f) \in Seq(Visits) /\ Len(News(f)) = n
    BY <2>2, <2>3 DEF Visits
  <2>5. \A i \in 1 .. Len(News(f)) : News(f)[i].truck = k
    BY <2>3, <2>4
  <2>6. w.visits[f] = <<>> => News(f) = <<>>
    BY <2>2, <2>3, <2>4
  <2>7. ASSUME NEW v \in Kinds, w.visits[f] = <<v>> PROVE News(f) = <<[truck |-> k, visit |-> v]>>
    <3>1. n = 1 /\ w.visits[f][1] = v
      BY <2>2, <2>7
    <3>2. PICK t : t = <<[truck |-> k, visit |-> v]>>
      OBVIOUS
    <3>3. t \in Seq(Visits) /\ Len(t) = 1 /\ t[1] = [truck |-> k, visit |-> v]
      BY <3>2 DEF Visits
    <3>4. News(f)[1] = [truck |-> k, visit |-> v]
      BY <2>3, <3>1
    <3> HIDE DEF News
    <3>5. News(f) = t
      <4>1. \A i \in 1 .. Len(News(f)) : i = 1
        BY <2>4, <3>1
      <4> QED BY <2>4, <3>1, <3>3, <3>4, <4>1, SeqEqual
    <3> QED BY <3>2, <3>5
  <2>8. fq'[f] = fq[f] \o News(f) /\ queue'[f] = queue[f] /\ gate'[f] = gate[f]
    BY DEF Published, gateVars
  <2> HIDE DEF News
  <2>9. Arrived(f) \in Fronts
    <3>1. queue[f] \o fq[f] \in Seq(Visits)
      BY <2>1
    <3> QED BY <2>1, <3>1 DEF Arrived, Fronts
  <2>10. queue'[f] \o fq'[f] = (queue[f] \o fq[f]) \o News(f)
    <3>1. PICK a \in Seq(Visits), b \in Seq(Visits), c \in Seq(Visits) :
            a = queue[f] /\ b = fq[f] /\ c = News(f)
      BY <2>1, <2>4, Zenon
    <3>2. (a \o b) \o c = a \o (b \o c)
      <4>1. PICK S : S = Visits
        OBVIOUS
      <4>2. a \in Seq(S) /\ b \in Seq(S) /\ c \in Seq(S)
        BY <4>1
      <4> QED BY <4>2, ConcatAssociative
    <3> QED BY <2>8, <3>1, <3>2, Zenon
  <2>11. Arrived(f)'.gate = Arrived(f).gate /\ Arrived(f)'.queue = Arrived(f).queue \o News(f)
    BY <2>8, <2>10 DEF Arrived
  <2> QED BY <2>4, <2>5, <2>6, <2>7, <2>9, <2>11
<1> HIDE DEF News
<1>2. ASSUME NEW f \in Facilities, NEW j \in Trucks, j # k \/ w.visits[f] = <<>>, NEW v \in Kinds
      PROVE  /\ Gone(Arrived(f), j) => Gone(Arrived(f), j)'
             /\ Waiting(Arrived(f), j, v) => Waiting(Arrived(f), j, v)'
             /\ \A g \in Gates : Served(Arrived(f), j, g, v) => Served(Arrived(f), j, g, v)'
  <2>1. \A i \in 1 .. Len(News(f)) : News(f)[i].truck # j
    BY <1>1, <1>2
  <2> QED BY <1>1, <2>1, LineGrows
<1>3. \A j \in Trucks : j # k => KeptFor(j)
  BY <1>2, Zenon DEF KeptFor
<1>4. ASSUME w.visits = Nothing PROVE KeptFor(k)
  <2>1. \A f \in Facilities : w.visits[f] = <<>>
    BY <1>4 DEF Nothing
  <2> QED BY <1>2, <2>1, Zenon DEF KeptFor
<1>5. ASSUME NEW v \in Kinds, NEW o \in Orders, w.visits = OneVisit(v, o), Absent(k)
      PROVE  /\ Visit(v, o) \in Facilities /\ OnlyAt(k, Visit(v, o))'
             /\ Waiting(Arrived(Visit(v, o)), k, v)'
  <2>1. PICK f \in Facilities : f = Visit(v, o)
    BY HaulageConstants DEF Visit
  <2>2. w.visits[f] = <<v>> /\ \A e \in Facilities : e # f => w.visits[e] = <<>>
    BY <1>5, <2>1 DEF OneVisit, Nothing
  <2>3. Gone(Arrived(f), k)
    BY <1>5 DEF Absent
  <2>4. News(f) = <<[truck |-> k, visit |-> v]>>
    BY <1>1, <2>2
  <2>5. Waiting(Arrived(f), k, v)'
    BY <1>1, <2>3, <2>4, LineGrows
  <2>6. OnlyAt(k, f)'
    BY <1>2, <1>5, <2>2, Zenon DEF OnlyAt, Absent
  <2> QED BY <2>1, <2>5, <2>6
<1> QED BY <1>3, <1>4, <1>5

\* A truck on a visit holds the trip of that visit.
LEMMA OnVisit ==
  ASSUME TypeInv, NEW k \in Trucks, NEW v \in Kinds, trip[k].st = QueuedFor(v) \/ trip[k].st = AtGateOf(v)
  PROVE  /\ Held(k) = trip[k] /\ trip[k] \in Trips /\ trip[k].st \notin Moving
         /\ trip[k].st \in Visiting
<1>1. trip[k] \in {NoTrip} \cup Trips
  BY HeldType
<1>2. trip[k].st \in Visiting /\ trip[k].st \notin Moving /\ trip[k].st \notin Terminal /\ trip[k].st # "none"
  BY DEF QueuedFor, AtGateOf, Visiting, Moving, Terminal
<1> QED BY <1>1, <1>2 DEF Held, NoTrip

LEMMA TruckVisits ==
  ASSUME TypeInv, NEW k \in Trucks, TruckStep(k), \A j \in Trucks : VisitOf(j)
  PROVE  \A j \in Trucks : VisitOf(j)'
<1>1. PICK there \in BOOLEAN, bad \in Refusals :
        /\ Published(k, Outcome(Held(k), tq[k], there, bad))
        /\ MayFail("api", Bad(bad)) /\ tq' = [tq EXCEPT ![k] = <<>>]
        /\ UNCHANGED <<scene, stage, online, offer, gateVars, round, orderVars, hauls>>
  BY Zenon DEF TruckStep, Outcome
<1> DEFINE t0 == Held(k)
           w == Outcome(t0, tq[k], there, bad)
<1>2. /\ w \in Spoken /\ (w.trip = NoTrip => w.orders = <<>>)
      /\ t0 \in {NoTrip} \cup Trips
  BY HeldType, StepTells, TellsFacts
<1>3. /\ trip'[k] = w.trip /\ \A j \in Trucks : j # k => trip'[j] = trip[j]
  <2> HIDE DEF w
  <2> QED BY <1>1, <1>2, PublishedFacts DEF w
<1>4. /\ tq'[k] = <<>> /\ \A j \in Trucks : j # k => tq'[j] = tq[j]
  BY <1>1 DEF TypeInv, TruckTypes
<1>5. (failed => failed') /\ (bad # "none" => failed')
  BY <1>1 DEF MayFail, Bad
<1>6. /\ \A j \in Trucks : j # k => KeptFor(j)
      /\ w.visits = Nothing => KeptFor(k)
      /\ \A v \in Kinds, o \in Orders : w.visits = OneVisit(v, o) /\ Absent(k) =>
           /\ Visit(v, o) \in Facilities /\ OnlyAt(k, Visit(v, o))'
           /\ Waiting(Arrived(Visit(v, o)), k, v)'
  <2>1. UNCHANGED gateVars /\ Published(k, w)
    BY <1>1
  <2> HIDE DEF w
  <2> QED BY <1>2, <2>1, PublishedSeen
<1> HIDE DEF w, t0
<1>7. ASSUME NEW j \in Trucks, j # k PROVE VisitOf(j)'
  BY <1>3, <1>4, <1>5, <1>6, <1>7, VisitKept
<1>8. ASSUME w.visits = Nothing, Absent(k), failed' \/ w.trip.st \notin Visiting PROVE VisitOf(k)'
  <2>1. OnTheRoad(k)'
    BY <1>3, <1>4, <1>8 DEF OnTheRoad
  <2>2. Absent(k)'
    <3>1. "pickup" \in Kinds
      BY DEF Kinds
    <3> QED BY <1>6, <1>8, <3>1, Zenon DEF Absent, KeptFor
  <2> QED BY <2>1, <2>2 DEF VisitOf
<1>9. ASSUME NEW v \in Kinds, NEW o \in Orders, w.visits = OneVisit(v, o), Absent(k),
             w.trip.st = QueuedFor(v)
      PROVE  VisitOf(k)'
  <2>1. PICK f \in Facilities : OnlyAt(k, f)' /\ Waiting(Arrived(f), k, v)'
    BY <1>6, <1>9, Zenon
  <2>2. InLineFor(k, v)'
    BY <1>3, <1>4, <1>9 DEF InLineFor
  <2>3. HeldAt(k, f, v)'
    BY <2>1, <2>2, Zenon DEF HeldAt
  <2> QED BY <2>1, <2>3, Zenon DEF VisitOf
<1>10. ASSUME NEW f \in Facilities, NEW v \in Kinds, OnlyAt(k, f), w.visits = Nothing,
              \/ Waiting(Arrived(f), k, v) /\ w.trip.st = QueuedFor(v)
              \/ /\ \E g \in Gates : Served(Arrived(f), k, g, v)
                 /\ w.trip.st = AtGateOf(v) \/ (failed' /\ w.trip.st = QueuedFor(v))
       PROVE  VisitOf(k)'
  <2>1. OnlyAt(k, f)'
    BY <1>6, <1>10, Zenon DEF OnlyAt, KeptFor
  <2>2. CASE Waiting(Arrived(f), k, v) /\ w.trip.st = QueuedFor(v)
    <3>1. InLineFor(k, v)'
      BY <1>3, <1>4, <2>2 DEF InLineFor
    <3>2. HeldAt(k, f, v)'
      BY <1>6, <1>10, <2>2, <3>1, Zenon DEF HeldAt, KeptFor
    <3> QED BY <2>1, <3>2, Zenon DEF VisitOf
  <2>3. CASE /\ \E g \in Gates : Served(Arrived(f), k, g, v)
             /\ w.trip.st = AtGateOf(v) \/ (failed' /\ w.trip.st = QueuedFor(v))
    <3>1. AtGateFor(k, v)'
      BY <1>3, <1>4, <2>3 DEF AtGateFor
    <3>2. HeldAt(k, f, v)'
      BY <1>6, <1>10, <2>3, <3>1, Zenon DEF HeldAt, KeptFor
    <3> QED BY <2>1, <3>2, Zenon DEF VisitOf
  <2> QED BY <1>10, <2>2, <2>3
<1>11. ASSUME w = Unsaid(t0) PROVE w.visits = Nothing /\ w.trip = t0
  BY <1>11 DEF Unsaid, Nothing
<1>12. ASSUME NEW v \in Kinds, t0 \in Trips, Absent(k), Leaves(t0, v, bad, w) PROVE VisitOf(k)'
  <2>1. CASE v = "pickup" /\ w.visits = OneVisit("dropoff", t0.ord) /\ w.trip.st = QueuedFor("dropoff")
    <3>1. "dropoff" \in Kinds /\ t0.ord \in Orders
      BY <1>12 DEF Kinds, Trips
    <3> QED BY <1>9, <1>12, <2>1, <3>1
  <2>2. CASE w.visits = Nothing /\ (bad = "none" => w.trip.st = "completed")
    <3>1. failed' \/ w.trip.st \notin Visiting
      BY <1>5, <2>2 DEF Visiting
    <3> QED BY <1>8, <1>12, <2>2, <3>1
  <2> QED BY <1>12, <2>1, <2>2 DEF Leaves
<1>13. ASSUME OnTheRoad(k), Absent(k) PROVE VisitOf(k)'
  <2>1. CASE tq[k] = <<>> /\ (failed \/ trip[k].st \notin Visiting)
    <3>1. failed \/ t0.st \notin Visiting
      BY <2>1 DEF t0, Held, NoTrip, Visiting
    <3>2. w = Outcome(t0, <<>>, there, bad)
      BY <2>1 DEF w
    <3>3. CASE w = Unsaid(t0)
      <4>1. w.visits = Nothing /\ w.trip = t0
        BY <1>11, <3>3, Zenon
      <4>2. failed' \/ w.trip.st \notin Visiting
        BY <1>5, <3>1, <4>1, Zenon
      <4> QED BY <1>8, <1>13, <4>1, <4>2, Zenon
    <3>4. CASE w.visits = Nothing /\ w.trip.st = "repositioning_to_pickup"
      <4>1. w.trip.st \notin Visiting
        BY <3>4 DEF Visiting
      <4> QED BY <1>8, <1>13, <3>4, <4>1, Zenon
    <3>5. CASE /\ t0.st \in Moving /\ w.visits = OneVisit(Ahead(t0.st), t0.ord)
               /\ w.trip.st = QueuedFor(Ahead(t0.st))
      <4>1. Ahead(t0.st) \in Kinds
        BY DEF Ahead, Kinds
      <4>2. t0.ord \in Orders
        BY <1>2, <3>5 DEF Moving, NoTrip, Trips
      <4> QED BY <1>9, <1>13, <3>5, <4>1, <4>2, Zenon
    <3> QED BY <1>2, <3>2, <3>3, <3>4, <3>5, OutcomeAlone
  <2>2. ASSUME NEW v \in Kinds, tq[k] = <<Slot[v], DoneMsg[v]>>, trip[k].st = QueuedFor(v)
        PROVE  VisitOf(k)'
    <3>1. t0 = trip[k] /\ t0 \in Trips /\ t0.st = QueuedFor(v)
      BY <2>2, OnVisit DEF t0
    <3>2. w = Outcome(t0, <<Slot[v], DoneMsg[v]>>, there, bad)
      BY <2>2 DEF w
    <3>3. Leaves(t0, v, bad, w)
      BY <3>1, <3>2, OutcomeDone
    <3> QED BY <1>12, <1>13, <3>1, <3>3
  <2>3. ASSUME NEW v \in Kinds, tq[k] = <<DoneMsg[v]>>, trip[k].st = AtGateOf(v) \/ (failed /\ trip[k].st = QueuedFor(v))
        PROVE  VisitOf(k)'
    <3>1. t0 = trip[k] /\ t0 \in Trips
      BY <2>3, OnVisit DEF t0
    <3>2. w = Outcome(t0, <<DoneMsg[v]>>, there, bad)
      BY <2>3 DEF w
    <3>3. CASE trip[k].st = AtGateOf(v)
      <4>1. Leaves(t0, v, bad, w)
        BY <3>1, <3>2, <3>3, OutcomeDone
      <4> QED BY <1>12, <1>13, <3>1, <4>1
    <3>4. CASE failed /\ trip[k].st = QueuedFor(v)
      <4>1. w = Unsaid(t0)
        BY <3>1, <3>2, <3>4, OutcomeDone
      <4>2. w.visits = Nothing
        BY <1>11, <4>1, Zenon
      <4> QED BY <1>5, <1>8, <1>13, <3>4, <4>2, Zenon
    <3> QED BY <2>3, <3>3, <3>4
  <2> QED BY <1>13, <2>1, <2>2, <2>3, Zenon DEF OnTheRoad
<1>14. ASSUME NEW f \in Facilities, NEW v \in Kinds, OnlyAt(k, f), HeldAt(k, f, v) PROVE VisitOf(k)'
  <2>1. CASE tq[k] = <<>> /\ (trip[k].st = QueuedFor(v) \/ trip[k].st = AtGateOf(v))
    <3>1. t0 = trip[k] /\ t0 \in {NoTrip} \cup Trips /\ t0.st \notin Moving
      BY <2>1, OnVisit DEF t0
    <3>2. w = Unsaid(t0)
      BY <2>1, <3>1, OutcomeAlone DEF w
    <3>3. w.visits = Nothing /\ w.trip = trip[k]
      BY <1>11, <3>1, <3>2
    <3>4. CASE InLineFor(k, v) /\ Waiting(Arrived(f), k, v)
      <4>1. w.trip.st = QueuedFor(v)
        BY <3>3, <3>4 DEF InLineFor
      <4> QED BY <1>10, <1>14, <3>3, <3>4, <4>1
    <3>5. CASE AtGateFor(k, v) /\ \E g \in Gates : Served(Arrived(f), k, g, v)
      <4>1. w.trip.st = AtGateOf(v) \/ (failed' /\ w.trip.st = QueuedFor(v))
        BY <1>5, <2>1, <3>3, <3>5 DEF AtGateFor
      <4> QED BY <1>10, <1>14, <3>3, <3>5, <4>1
    <3> QED BY <1>14, <3>4, <3>5, Zenon DEF HeldAt
  <2>2. CASE tq[k] = <<Slot[v]>> /\ trip[k].st = QueuedFor(v) /\ \E g \in Gates : Served(Arrived(f), k, g, v)
    <3>1. t0 = trip[k] /\ t0 \in Trips /\ t0.st = QueuedFor(v)
      BY <2>2, OnVisit DEF t0
    <3>2. w = Outcome(t0, <<Slot[v]>>, there, bad)
      BY <2>2 DEF w
    <3>3. w.visits = Nothing /\ (w.trip.st = AtGateOf(v) \/ (w.trip.st = QueuedFor(v) /\ bad # "none"))
      BY <3>1, <3>2, OutcomeSlot
    <3> QED BY <1>5, <1>10, <1>14, <2>2, <3>3
  <2> QED BY <1>14, <2>1, <2>2 DEF HeldAt, InLineFor, AtGateFor
<1>15. VisitOf(k)'
  BY <1>13, <1>14, Zenon DEF VisitOf
<1> QED BY <1>7, <1>15

\* A step that leaves trips, gate messages and facilities alone.
LEMMA QuietVisits ==
  ASSUME VisitInv, UNCHANGED <<trip, tq, fq, gateVars>>, failed => failed', Running' => Running
  PROVE  VisitInv'
<1>1. EndsInv'
  BY DEF VisitInv, EndsInv, gateVars
<1>2. ASSUME Running', NEW k \in Trucks PROVE VisitOf(k)'
  <2>1. \A f \in Facilities : Arrived(f)' = Arrived(f)
    BY DEF Arrived, gateVars
  <2>2. KeptFor(k)
    BY <2>1 DEF KeptFor, Gone, Waiting, Served
  <2>3. VisitOf(k)
    BY <1>2 DEF VisitInv
  <2>4. trip'[k] = trip[k] /\ tq'[k] = tq[k]
    OBVIOUS
  <2> QED BY <2>2, <2>3, <2>4, VisitKept, Zenon
<1> QED BY <1>1, <1>2, Zenon DEF VisitInv

\* A truck that changes its trip outside a visit.
LEMMA RoadVisits ==
  ASSUME VisitInv, Running, NEW k \in Trucks, UNCHANGED <<tq, gateVars>>, failed => failed',
         trip[k].st \notin Visiting, trip'[k].st \notin Visiting,
         \A j \in Trucks : KeptFor(j) /\ (j # k => trip'[j] = trip[j])
  PROVE  VisitInv'
<1>1. EndsInv'
  BY DEF VisitInv, EndsInv, gateVars
<1>2. ASSUME NEW j \in Trucks, j # k PROVE VisitOf(j)'
  <2>1. VisitOf(j) /\ tq'[j] = tq[j] /\ trip'[j] = trip[j] /\ KeptFor(j)
    BY <1>2 DEF VisitInv
  <2> QED BY <2>1, VisitKept, Zenon
<1>3. VisitOf(k)'
  <2>1. OnTheRoad(k) /\ Absent(k) /\ tq[k] = <<>>
    <3>1. \A v \in Kinds : QueuedFor(v) \in Visiting /\ AtGateOf(v) \in Visiting
      BY QueueMessages
    <3>2. \A f \in Facilities, v \in Kinds : ~HeldAt(k, f, v)
      BY <3>1 DEF HeldAt, InLineFor, AtGateFor
    <3>3. OnTheRoad(k) /\ Absent(k)
      BY <3>2, Zenon DEF VisitInv, VisitOf
    <3> QED BY <3>1, <3>3 DEF OnTheRoad
  <2>2. OnTheRoad(k)'
    BY <2>1 DEF OnTheRoad
  <2>3. Absent(k)'
    <3>1. "pickup" \in Kinds
      BY DEF Kinds
    <3> QED BY <2>1, <3>1, Zenon DEF Absent, KeptFor
  <2> QED BY <2>2, <2>3 DEF VisitOf
<1> QED BY <1>1, <1>2, <1>3, Zenon DEF VisitInv

LEMMA AssignmentVisits ==
  ASSUME TypeInv, VisitInv, NEW k \in Trucks, HandleAssignment(k)
  PROVE  VisitInv'
<1>1. /\ Running /\ Head(offer[k]) \in Orders
      /\ UNCHANGED <<scene, stage, turn, online, tq, gateVars, round, orderVars>>
      /\ Dropped(k) \/ Lost \/ \E bad : Accepted(k, Head(offer[k]), bad)
  BY AssignmentFacts
<1>2. failed => failed'
  BY DEF HandleAssignment, MayFail
<1>3. CASE Dropped(k) \/ Lost
  <2>1. UNCHANGED <<trip, fq>>
    BY <1>3 DEF Dropped, Lost
  <2> QED BY <1>1, <1>2, <2>1, QuietVisits DEF Running
<1>4. ASSUME NEW bad, Accepted(k, Head(offer[k]), bad) PROVE VisitInv'
  <2> DEFINE w == ApplyTripTransitionAndNotify(NewTrip(Head(offer[k])), "assign", bad)
             t0 == [st |-> "created", ord |-> Head(offer[k])]
  <2>1. /\ t0 \in Trips /\ w \in Tells(t0) /\ w.visits = Nothing
        /\ w.trip.st \in {"created", "assigned"}
    <3>1. PICK o \in Orders : o = Head(offer[k])
      BY <1>1
    <3>2. PICK x : x = ApplyTripTransitionAndNotify(NewTrip(o), "assign", bad)
      OBVIOUS
    <3>3. PICK t : t = [st |-> "created", ord |-> o]
      OBVIOUS
    <3>4. /\ t \in Trips /\ x \in Tells(t) /\ x.visits = Nothing
          /\ x.trip = t \/ x.trip = [st |-> "assigned", ord |-> o]
      BY <3>2, <3>3, AssignTells
    <3>5. x.trip.st \in {"created", "assigned"}
      BY <3>3, <3>4
    <3> QED BY <3>1, <3>2, <3>3, <3>4, <3>5
  <2>2. w \in Spoken /\ (w.trip = NoTrip => w.orders = <<>>)
    BY <2>1, TellsFacts
  <2>3. Published(k, w) /\ trip[k] = NoTrip
    BY <1>4 DEF Accepted
  <2> HIDE DEF w, t0
  <2>4. trip'[k] = w.trip /\ \A j \in Trucks : j # k => trip'[j] = trip[j]
    BY <2>2, <2>3, PublishedFacts
  <2>5. UNCHANGED gateVars
    BY <1>1
  <2>6. \A j \in Trucks : KeptFor(j)
    BY <2>1, <2>2, <2>3, <2>5, PublishedSeen
  <2>7. trip[k].st \notin Visiting /\ trip'[k].st \notin Visiting
    BY <2>1, <2>3, <2>4 DEF NoTrip, Visiting
  <2>8. tq' = tq
    BY <1>1
  <2> QED BY <1>1, <1>2, <2>4, <2>5, <2>6, <2>7, <2>8, RoadVisits
<1> QED BY <1>1, <1>3, <1>4

LEMMA LeavingVisits ==
  ASSUME TypeInv, VisitInv, NEW k \in Trucks, TruckLeaves(k)
  PROVE  VisitInv'
<1>1. /\ Running /\ Held(k) = NoTrip /\ trip' = [trip EXCEPT ![k] = NoTrip]
      /\ UNCHANGED <<failed, tq, fq, gateVars>>
  BY DEF TruckLeaves, Acts, OffShift
<1>2. trip'[k] = NoTrip /\ \A j \in Trucks : j # k => trip'[j] = trip[j]
  BY <1>1 DEF TypeInv, TruckTypes
<1>3. trip[k].st \notin Visiting /\ trip'[k].st \notin Visiting
  <2>1. trip[k].st \in Terminal \/ trip[k] = NoTrip
    BY <1>1 DEF Held
  <2> QED BY <1>2, <2>1 DEF Terminal, NoTrip, Visiting
<1>4. \A f \in Facilities : Arrived(f)' = Arrived(f)
  BY <1>1 DEF Arrived, gateVars
<1>5. \A j \in Trucks : KeptFor(j)
  BY <1>4 DEF KeptFor, Gone, Waiting, Served
<1> QED BY <1>1, <1>2, <1>3, <1>5, RoadVisits

LEMMA VisitsKept ==
  ASSUME TypeInv, VisitInv, [Next]_vars
  PROVE  VisitInv'
<1>1. ASSUME NEW k \in Trucks, HandleAssignment(k) PROVE VisitInv'
  BY <1>1, AssignmentVisits
<1>2. ASSUME NEW k \in Trucks, TruckStep(k) PROVE VisitInv'
  <2>1. Running /\ UNCHANGED gateVars
    BY <1>2 DEF TruckStep, Acts
  <2>2. EndsInv'
    BY <2>1 DEF VisitInv, EndsInv, gateVars
  <2>3. \A j \in Trucks : VisitOf(j)
    BY <2>1 DEF VisitInv
  <2>4. \A j \in Trucks : VisitOf(j)'
    BY <1>2, <2>3, TruckVisits
  <2> QED BY <2>2, <2>4, Zenon DEF VisitInv
<1>3. ASSUME NEW k \in Trucks, TruckWaits(k) PROVE VisitInv'
  BY <1>3, QuietVisits DEF TruckWaits, truckVars, Running
<1>4. ASSUME NEW k \in Trucks, TruckLeaves(k) PROVE VisitInv'
  BY <1>4, LeavingVisits
<1>5. ASSUME NEW k \in Trucks, TruckCloses(k) PROVE VisitInv'
  <2>1. ~Running' /\ UNCHANGED gateVars
    BY <1>5 DEF TruckCloses, Running
  <2>2. EndsInv'
    BY <2>1 DEF VisitInv, EndsInv, gateVars
  <2> QED BY <2>1, <2>2, Zenon DEF VisitInv
<1>6. ASSUME NEW f \in Facilities, NEW due \in SUBSET ends[f], FacilityStep(f, due) PROVE VisitInv'
  <2>1. EndsInv
    BY DEF VisitInv
  <2>2. EndsInv'
    BY <1>6, <2>1, FacilityEnds
  <2>3. Running
    BY <1>6 DEF FacilityStep, Acts
  <2>4. \A k \in Trucks : VisitOf(k)'
    BY <1>6, <2>1, <2>3, FacilityVisits DEF VisitInv
  <2> QED BY <2>2, <2>4, Zenon DEF VisitInv
<1>7. ASSUME WriterStep PROVE VisitInv'
  <2>1. failed => failed'
    BY <1>7 DEF WriterStep, MayFail
  <2> QED BY <1>7, <2>1, WriterFacts, QuietVisits DEF truckVars, Running
<1>8. ASSUME WriterCloses PROVE VisitInv'
  <2>1. (failed => failed') /\ UNCHANGED <<trip, tq, fq, gateVars, stage>>
    <3>1. UNCHANGED <<stage, truckVars, tq, fq, gateVars>>
      BY <1>8, Zenon DEF WriterCloses
    <3>2. failed => failed'
      BY <1>8, Zenon DEF WriterCloses, MayFail
    <3> QED BY <3>1, <3>2 DEF truckVars
  <2> QED BY <2>1, QuietVisits DEF Running
<1>9. ASSUME ReadMarket PROVE VisitInv'
  BY <1>9, QuietVisits DEF ReadMarket, truckVars, Running
<1>10. ASSUME Match PROVE VisitInv'
  <2>1. failed => failed'
    BY <1>10 DEF Match, MayFail
  <2> QED BY <1>10, <2>1, MatchFacts, QuietVisits DEF truckVars, Running
<1>11. ASSUME NEW o \in Orders, OrderAgentStep(o) \/ OrderCloses(o) PROVE VisitInv'
  <2>1. CASE OrderAgentStep(o)
    BY <2>1, AgentFacts, QuietVisits DEF truckVars, Running
  <2>2. CASE OrderCloses(o)
    BY <2>2, QuietVisits DEF OrderCloses, truckVars, Running
  <2> QED BY <1>11, <2>1, <2>2
<1>12. ASSUME Tick \/ Horizon \/ FinalStep \/ BulkCancel PROVE VisitInv'
  BY <1>12, QuietVisits DEF Tick, Horizon, FinalStep, BulkCancel, truckVars, Running
<1>13. CASE UNCHANGED vars
  BY <1>13, QuietVisits DEF vars, gateVars, Running
<1> QED
  BY <1>1, <1>2, <1>3, <1>4, <1>5, <1>6, <1>7, <1>8, <1>9, <1>10, <1>11, <1>12, <1>13 DEF Next

\* What Known collects.
InMailAt(k, f, j) == j \in DOMAIN fq[f] /\ fq[f][j].truck = k
InLineAt(k, f, j) == j \in DOMAIN queue[f] /\ queue[f][j].truck = k
AtGateAt(k, f, g) == g \in Gates /\ gate[f][g].truck = k
LEMMA KnownWhere ==
  ASSUME NEW k
  PROVE  \A x : x \in Known(k) <=>
           \E f \in Facilities : \E i : \/ InMailAt(k, f, i) /\ x = <<f, "m", i>>
                                        \/ InLineAt(k, f, i) /\ x = <<f, "q", i>>
                                        \/ AtGateAt(k, f, i) /\ x = <<f, "g", i>>
<1> DEFINE M(f) == {j \in DOMAIN fq[f] : fq[f][j].truck = k}
           Q(f) == {j \in DOMAIN queue[f] : queue[f][j].truck = k}
           G(f) == {h \in Gates : gate[f][h].truck = k}
           Mail == UNION {{<<f, "m", i>> : i \in M(f)} : f \in Facilities}
           Line == UNION {{<<f, "q", i>> : i \in Q(f)} : f \in Facilities}
           Gate == UNION {{<<f, "g", i>> : i \in G(f)} : f \in Facilities}
<1>1. Known(k) = Mail \cup Line \cup Gate
  BY DEF Known
<1>2. \A f, i : /\ i \in M(f) <=> InMailAt(k, f, i)
                /\ i \in Q(f) <=> InLineAt(k, f, i)
                /\ i \in G(f) <=> AtGateAt(k, f, i)
  BY Zenon DEF InMailAt, InLineAt, AtGateAt
<1> HIDE DEF M, Q, G
<1>3. \A x : x \in Mail <=> \E f \in Facilities : \E i \in M(f) : x = <<f, "m", i>>
  OBVIOUS
<1>4. \A x : x \in Line <=> \E f \in Facilities : \E i \in Q(f) : x = <<f, "q", i>>
  OBVIOUS
<1>5. \A x : x \in Gate <=> \E f \in Facilities : \E i \in G(f) : x = <<f, "g", i>>
  OBVIOUS
<1> HIDE DEF Mail, Line, Gate
<1>6. \A x : x \in Known(k) <=> x \in Mail \/ x \in Line \/ x \in Gate
  BY <1>1
<1> SUFFICES ASSUME NEW x
             PROVE  x \in Known(k) <=>
                      \E f \in Facilities : \E i : \/ InMailAt(k, f, i) /\ x = <<f, "m", i>>
                                                   \/ InLineAt(k, f, i) /\ x = <<f, "q", i>>
                                                   \/ AtGateAt(k, f, i) /\ x = <<f, "g", i>>
  OBVIOUS
<1>7. ASSUME x \in Known(k)
      PROVE  \E f \in Facilities : \E i : \/ InMailAt(k, f, i) /\ x = <<f, "m", i>>
                                          \/ InLineAt(k, f, i) /\ x = <<f, "q", i>>
                                          \/ AtGateAt(k, f, i) /\ x = <<f, "g", i>>
  <2>1. CASE x \in Mail
    <3>1. PICK f, i : f \in Facilities /\ InMailAt(k, f, i) /\ x = <<f, "m", i>>
      BY <1>2, <1>3, <2>1, Zenon
    <3> QED BY <3>1, Zenon
  <2>2. CASE x \in Line
    <3>1. PICK f, i : f \in Facilities /\ InLineAt(k, f, i) /\ x = <<f, "q", i>>
      BY <1>2, <1>4, <2>2, Zenon
    <3> QED BY <3>1, Zenon
  <2>3. CASE x \in Gate
    <3>1. PICK f, i : f \in Facilities /\ AtGateAt(k, f, i) /\ x = <<f, "g", i>>
      BY <1>2, <1>5, <2>3, Zenon
    <3> QED BY <3>1, Zenon
  <2> QED BY <1>6, <1>7, <2>1, <2>2, <2>3
<1>8. ASSUME NEW f \in Facilities, NEW i,
             \/ InMailAt(k, f, i) /\ x = <<f, "m", i>>
             \/ InLineAt(k, f, i) /\ x = <<f, "q", i>>
             \/ AtGateAt(k, f, i) /\ x = <<f, "g", i>>
      PROVE  x \in Known(k)
  BY <1>2, <1>3, <1>4, <1>5, <1>6, <1>8, Zenon
<1> QED BY <1>7, <1>8, Zenon

\* A facility with the truck nowhere, in line or at a gate holds no, or one, trace of it.
LEMMA Traces ==
  ASSUME TypeInv, NEW k \in Trucks, NEW f \in Facilities
  PROVE  /\ Gone(Arrived(f), k) =>
              \A i : ~InMailAt(k, f, i) /\ ~InLineAt(k, f, i) /\ ~AtGateAt(k, f, i)
         /\ \A v \in Kinds : Waiting(Arrived(f), k, v) =>
              /\ \A i : ~AtGateAt(k, f, i)
              /\ \E i : \/ InMailAt(k, f, i) /\ (\A j : InMailAt(k, f, j) => j = i)
                           /\ \A j : ~InLineAt(k, f, j)
                        \/ InLineAt(k, f, i) /\ (\A j : InLineAt(k, f, j) => j = i)
                           /\ \A j : ~InMailAt(k, f, j)
         /\ \A v \in Kinds, g \in Gates : Served(Arrived(f), k, g, v) =>
              /\ AtGateAt(k, f, g) /\ \A i : AtGateAt(k, f, i) => i = g
              /\ \A i : ~InMailAt(k, f, i) /\ ~InLineAt(k, f, i)
<1>1. queue[f] \in Seq(Visits) /\ fq[f] \in Seq(Visits)
  BY DEF TypeInv, GateTypes
<1>2. PICK l \in Nat, m \in Nat : l = Len(queue[f]) /\ m = Len(fq[f])
  BY <1>1
<1>3. DOMAIN queue[f] = 1 .. l /\ DOMAIN fq[f] = 1 .. m
  BY <1>1, <1>2
<1>4. PICK q : q = queue[f] \o fq[f]
  OBVIOUS
<1>5. /\ Len(q) = l + m
      /\ \A i \in 1 .. l : q[i] = queue[f][i]
      /\ \A i \in 1 .. m : q[l + i] = fq[f][i]
  <2>1. /\ Len(q) = l + m
        /\ \A i \in 1 .. l + m : q[i] = IF i <= l THEN queue[f][i] ELSE fq[f][i - l]
    BY <1>1, <1>2, <1>4, ConcatProperties
  <2>2. \A i \in 1 .. l : i \in 1 .. l + m /\ i <= l
    OBVIOUS
  <2>3. \A i \in 1 .. m : l + i \in 1 .. l + m /\ ~(l + i <= l) /\ (l + i) - l = i
    OBVIOUS
  <2> QED BY <2>1, <2>2, <2>3
<1>6. Arrived(f).queue = q /\ Arrived(f).gate = gate[f]
  BY <1>4 DEF Arrived
<1>7. \A i : /\ InLineAt(k, f, i) <=> i \in 1 .. l /\ q[i].truck = k
             /\ InMailAt(k, f, i) <=> i \in 1 .. m /\ q[l + i].truck = k
  BY <1>3, <1>5 DEF InLineAt, InMailAt
<1>8. \A i \in 1 .. l : i \in 1 .. l + m
  OBVIOUS
<1>9. \A i \in 1 .. m : l + i \in 1 .. l + m /\ l + i \notin 1 .. l
  OBVIOUS
<1>10. \A i : i \in 1 .. l + m => i \in 1 .. l \/ (i - l \in 1 .. m /\ l + (i - l) = i)
  OBVIOUS
<1>11. ASSUME \A i \in 1 .. l + m : q[i].truck # k
       PROVE  \A i : ~InMailAt(k, f, i) /\ ~InLineAt(k, f, i)
  BY <1>7, <1>8, <1>9, <1>11
<1>12. ASSUME Gone(Arrived(f), k)
       PROVE  \A i : ~InMailAt(k, f, i) /\ ~InLineAt(k, f, i) /\ ~AtGateAt(k, f, i)
  <2>1. (\A i \in 1 .. l + m : q[i].truck # k) /\ \A i : ~AtGateAt(k, f, i)
    BY <1>5, <1>6, <1>12 DEF Gone, AtGateAt
  <2> QED BY <1>11, <2>1, Zenon
<1>13. ASSUME NEW v \in Kinds, NEW g \in Gates, Served(Arrived(f), k, g, v)
       PROVE  /\ AtGateAt(k, f, g) /\ \A i : AtGateAt(k, f, i) => i = g
              /\ \A i : ~InMailAt(k, f, i) /\ ~InLineAt(k, f, i)
  <2>1. \A i \in 1 .. l + m : q[i].truck # k
    BY <1>5, <1>6, <1>13 DEF Served
  <2>2. AtGateAt(k, f, g) /\ \A i : AtGateAt(k, f, i) => i = g
    BY <1>6, <1>13 DEF Served, AtGateAt
  <2> QED BY <1>11, <2>1, <2>2, Zenon
<1>14. ASSUME NEW v \in Kinds, Waiting(Arrived(f), k, v)
       PROVE  /\ \A i : ~AtGateAt(k, f, i)
              /\ \E i : \/ InMailAt(k, f, i) /\ (\A j : InMailAt(k, f, j) => j = i)
                           /\ \A j : ~InLineAt(k, f, j)
                        \/ InLineAt(k, f, i) /\ (\A j : InLineAt(k, f, j) => j = i)
                           /\ \A j : ~InMailAt(k, f, j)
  <2>1. \A i : ~AtGateAt(k, f, i)
    BY <1>6, <1>14 DEF Waiting, AtGateAt
  <2>2. PICK i \in 1 .. l + m : /\ q[i] = [truck |-> k, visit |-> v]
                                /\ \A j \in 1 .. l + m : q[j].truck = k => j = i
    BY <1>5, <1>6, <1>14 DEF Waiting
  <2>3. q[i].truck = k
    BY <2>2
  <2>4. CASE i \in 1 .. l
    <3>1. InLineAt(k, f, i) /\ (\A j : InLineAt(k, f, j) => j = i)
      BY <1>7, <1>8, <2>2, <2>3, <2>4
    <3>2. \A j : ~InMailAt(k, f, j)
      BY <1>7, <1>9, <2>2, <2>4
    <3> QED BY <2>1, <3>1, <3>2, Zenon
  <2>5. CASE i \notin 1 .. l
    <3>1. PICK n : n = i - l /\ n \in 1 .. m /\ l + n = i
      BY <1>10, <2>5
    <3>2. InMailAt(k, f, n)
      BY <1>7, <2>3, <3>1
    <3>3. \A j : InMailAt(k, f, j) => j = n
      BY <1>7, <1>9, <2>2, <3>1
    <3>4. \A j : ~InLineAt(k, f, j)
      BY <1>7, <1>8, <2>2, <2>5
    <3> QED BY <2>1, <3>2, <3>3, <3>4, Zenon
  <2> QED BY <2>4, <2>5
<1> QED BY <1>12, <1>13, <1>14

LEMMA VisitsTracked == TypeInv /\ VisitInv => VisitTracked
<1> SUFFICES ASSUME TypeInv, VisitInv PROVE VisitTracked
  OBVIOUS
<1>1. ServiceTime > 0 => \A f \in Facilities, g \in Gates : gate[f][g] # Free => g \in ends[f]
  BY DEF VisitInv, EndsInv
<1>2. ASSUME Running, ~failed, NEW k \in online
      PROVE  /\ Cardinality(Known(k)) <= 1
             /\ trip[k].st \in Visiting =>
                  Known(k) # {} \/ Range(tq[k]) \cap {"pickup_done", "dropoff_done"} # {}
             /\ Known(k) # {} => trip[k].st \in Visiting
  <2>1. k \in Trucks /\ VisitOf(k)
    BY <1>2 DEF TypeInv, TruckTypes, VisitInv
  <2>2. CASE OnTheRoad(k) /\ Absent(k)
    <3>1. Known(k) = {}
      <4>1. \A x : x \notin Known(k)
        BY <2>1, <2>2, Traces, KnownWhere, Zenon DEF Absent
      <4> QED BY <4>1
    <3>2. Cardinality(Known(k)) <= 1
      BY <3>1, FS_EmptySet
    <3>3. ASSUME trip[k].st \in Visiting PROVE Range(tq[k]) \cap {"pickup_done", "dropoff_done"} # {}
      <4>1. PICK v \in Kinds : tq[k] = <<Slot[v], DoneMsg[v]>> \/ tq[k] = <<DoneMsg[v]>>
        BY <1>2, <2>2, <3>3 DEF OnTheRoad
      <4>2. DoneMsg[v] \in {"pickup_done", "dropoff_done"}
        BY DEF Kinds, DoneMsg
      <4>3. PICK a, b : a = Slot[v] /\ b = DoneMsg[v]
        OBVIOUS
      <4>4. b \in Range(<<a, b>>) /\ b \in Range(<<b>>)
        <5>1. 2 \in DOMAIN <<a, b>> /\ <<a, b>>[2] = b /\ 1 \in DOMAIN <<b>> /\ <<b>>[1] = b
          OBVIOUS
        <5> QED BY <5>1, Zenon DEF Range
      <4> QED BY <4>1, <4>2, <4>3, <4>4
    <3> QED BY <3>1, <3>2, <3>3
  <2>3. ASSUME NEW f \in Facilities, NEW v \in Kinds, OnlyAt(k, f), HeldAt(k, f, v)
        PROVE  Cardinality(Known(k)) <= 1 /\ trip[k].st \in Visiting /\ Known(k) # {}
    <3>1. trip[k].st \in Visiting
      BY <2>3, QueueMessages DEF HeldAt, InLineFor, AtGateFor
    <3>2. \A e \in Facilities : \A i : InMailAt(k, e, i) \/ InLineAt(k, e, i) \/ AtGateAt(k, e, i) => e = f
      BY <2>1, <2>3, Traces, Zenon DEF OnlyAt
    <3>3. \A x : x \in Known(k) <=>
            \E i : \/ InMailAt(k, f, i) /\ x = <<f, "m", i>>
                   \/ InLineAt(k, f, i) /\ x = <<f, "q", i>>
                   \/ AtGateAt(k, f, i) /\ x = <<f, "g", i>>
      BY <3>2, KnownWhere, Zenon
    <3>4. \E x : Known(k) = {x}
      <4>1. CASE Waiting(Arrived(f), k, v)
        <5>1. /\ \A i : ~AtGateAt(k, f, i)
              /\ \E i : \/ InMailAt(k, f, i) /\ (\A j : InMailAt(k, f, j) => j = i)
                           /\ \A j : ~InLineAt(k, f, j)
                        \/ InLineAt(k, f, i) /\ (\A j : InLineAt(k, f, j) => j = i)
                           /\ \A j : ~InMailAt(k, f, j)
          BY <2>1, <4>1, Traces
        <5>2. PICK i : \/ InMailAt(k, f, i) /\ (\A j : InMailAt(k, f, j) => j = i)
                          /\ \A j : ~InLineAt(k, f, j)
                       \/ InLineAt(k, f, i) /\ (\A j : InLineAt(k, f, j) => j = i)
                          /\ \A j : ~InMailAt(k, f, j)
          BY <5>1, Zenon
        <5>3. CASE InMailAt(k, f, i)
          <6>1. PICK c : c = <<f, "m", i>>
            OBVIOUS
          <6>2. \A y : y \in Known(k) <=> y = c
            BY <3>3, <5>1, <5>2, <5>3, <6>1, Zenon
          <6>3. Known(k) = {c}
            BY <6>2
          <6> QED BY <6>3
        <5>4. CASE InLineAt(k, f, i)
          <6>1. PICK c : c = <<f, "q", i>>
            OBVIOUS
          <6>2. \A y : y \in Known(k) <=> y = c
            BY <3>3, <5>1, <5>2, <5>4, <6>1, Zenon
          <6>3. Known(k) = {c}
            BY <6>2
          <6> QED BY <6>3
        <5> QED BY <5>2, <5>3, <5>4, Zenon
      <4>2. ASSUME NEW g \in Gates, Served(Arrived(f), k, g, v) PROVE \E x : Known(k) = {x}
        <5>1. /\ AtGateAt(k, f, g) /\ \A i : AtGateAt(k, f, i) => i = g
              /\ \A i : ~InMailAt(k, f, i) /\ ~InLineAt(k, f, i)
          BY <2>1, <4>2, Traces
        <5>2. PICK c : c = <<f, "g", g>>
          OBVIOUS
        <5>3. \A y : y \in Known(k) <=> y = c
          BY <3>3, <5>1, <5>2, Zenon
        <5>4. Known(k) = {c}
          BY <5>3
        <5> QED BY <5>4
      <4> QED BY <2>3, <4>1, <4>2, Zenon DEF HeldAt
    <3>5. PICK x : Known(k) = {x}
      BY <3>4
    <3>6. Cardinality(Known(k)) = 1 /\ Known(k) # {}
      BY <3>5, FS_Singleton
    <3> QED BY <3>1, <3>6
  <2> QED BY <2>1, <2>2, <2>3, Zenon DEF VisitOf
<1> QED BY <1>1, <1>2, Zenon DEF VisitTracked

\* Facilities and trucks share only messages without a trip id, and still agree on every visit:
\* a truck is in the books of one place at most, is known there until its completion is on the
\* way, and is on that visit while it is known; and a busy gate has an end of service ahead.
\* It holds for any number of trucks, facilities and gates, until a call has failed.
THEOREM VisitTrackedAlways == Spec => []VisitTracked
<1>1. Init => TypeInv /\ VisitInv
  <2> SUFFICES ASSUME Init PROVE VisitInv
    BY InitTyped
  <2>1. /\ \A f \in Facilities : fq[f] = <<>> /\ queue[f] = <<>> /\ gate[f] = [g \in Gates |-> Free] /\ ends[f] = {}
        /\ \A k \in Trucks : tq[k] = <<>> /\ trip[k] = NoTrip
    BY DEF Init
  <2>2. EndsInv
    BY <2>1 DEF EndsInv
  <2>3. \A k \in Trucks : OnTheRoad(k)
    BY <2>1 DEF OnTheRoad, NoTrip, Visiting
  <2>4. ASSUME NEW k \in Trucks, NEW f \in Facilities PROVE Gone(Arrived(f), k)
    <3>1. Len(queue[f] \o fq[f]) = 0 /\ \A g \in Gates : gate[f][g] = Free
      <4>1. PICK s, t : s = queue[f] /\ t = fq[f] /\ s = <<>> /\ t = <<>>
        BY <2>1
      <4>2. s \in Seq(Visits) /\ t \in Seq(Visits) /\ Len(s) = 0 /\ Len(t) = 0
        BY <4>1
      <4>3. Len(s \o t) = 0
        BY <4>2
      <4> QED BY <2>1, <4>1, <4>3
    <3>2. Len(Arrived(f).queue) = 0 /\ Arrived(f).gate = gate[f]
      BY <3>1 DEF Arrived
    <3> QED BY <3>1, <3>2, FreeIsNobody DEF Gone
  <2> QED BY <2>2, <2>3, <2>4, Zenon DEF VisitInv, VisitOf, Absent
<1>2. TypeInv /\ VisitInv /\ [Next]_vars => (TypeInv /\ VisitInv)'
  BY TypesKept, VisitsKept
<1> QED BY <1>1, <1>2, VisitsTracked, PTL DEF Spec
=================================================================================
