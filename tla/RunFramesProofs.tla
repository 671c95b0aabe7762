--------------------------- MODULE RunFramesProofs ---------------------------
(***************************************************************************)
(* Proofs about the position series of a run, for every number of runs,    *)
(* trucks, sweep threads, faults and crashes: frames carry each index once *)
(* and each slot for one truck, a finished run stays out of the hot tier,  *)
(* and no position is lost without being counted.  The last part is about  *)
(* a viewer's live stream of such frames (LiveStream).                     *)
(***************************************************************************)
EXTENDS RunFrames, RunViews, FiniteSetTheorems, SequenceTheorems, WellFoundedInduction, TLAPS

-----------------------------------------------------------------------------
(* The highest element of a finite set, and the list of resident runs.     *)

\* A set of naturals has a least element.
LEMMA LeastElement ==
  ASSUME NEW T \in SUBSET Nat, T # {}
  PROVE  \E x \in T : \A y \in T : x <= y
<1> DEFINE R == OpToRel(<, Nat)
<1>1. IsWellFoundedOn(R, Nat)
  BY NatLessThanWellFounded
<1>2. \A x \in T, y \in T : y < x => <<y, x>> \in R
  BY DEF OpToRel
<1> HIDE DEF R
<1>3. PICK x \in T : \A y \in T : ~ (<<y, x>> \in R)
  BY <1>1, WFMin, Zenon
<1>4. \A y \in T : ~ (y < x)
  BY <1>2, <1>3, Zenon
<1>5. \A y \in T : x \in Int /\ y \in Int
  OBVIOUS
<1> QED
  BY <1>4, <1>5

\* A bounded set of integers has a highest element, which is what Highest chooses.
LEMMA HighestOf ==
  ASSUME NEW S \in SUBSET Int, NEW m \in Int, \A x \in S : x <= m, S # {}
  PROVE  Highest(S) \in S /\ \A y \in S : y <= Highest(S)
<1> DEFINE T == {m - x : x \in S}
<1>1. T \in SUBSET Nat /\ T # {}
  <2>1. \A x \in S : m - x \in Nat
    OBVIOUS
  <2>2. PICK x \in S : TRUE
    OBVIOUS
  <2>3. m - x \in T
    OBVIOUS
  <2>4. \A t \in T : t \in Nat
    BY <2>1
  <2> HIDE DEF T
  <2> QED BY <2>3, <2>4
<1>2. PICK t \in T : \A u \in T : t <= u
  <2> HIDE DEF T
  <2> QED BY <1>1, LeastElement, Zenon
<1>3. PICK x \in S : t = m - x
  BY <1>2
<1>4. \A y \in S : y <= x
  <2>1. ASSUME NEW y \in S PROVE y <= x
    <3>1. m - y \in T
      BY <2>1
    <3>2. t <= m - y
      BY <1>2, <3>1, Zenon
    <3> QED BY <1>3, <3>2
  <2> QED BY <2>1
<1> QED
  BY <1>4 DEF Highest

LEMMA HighestPair ==
  ASSUME NEW a \in Int, NEW b \in Int
  PROVE  Highest({a, b}) = IF a >= b THEN a ELSE b
<1>1. PICK m \in Int : m = IF a >= b THEN a ELSE b
  OBVIOUS
<1>2. Highest({a, b}) \in {a, b} /\ \A y \in {a, b} : y <= Highest({a, b})
  <2> DEFINE P == {a, b}
  <2>1. P \in SUBSET Int /\ P # {} /\ \A y \in P : y <= m
    BY <1>1
  <2> HIDE DEF P
  <2>2. Highest(P) \in P /\ \A y \in P : y <= Highest(P)
    BY <1>1, <2>1, HighestOf
  <2> QED BY <2>2 DEF P
<1> QED
  BY <1>2

LEMMA HighestTriple ==
  ASSUME NEW a \in Int, NEW b \in Int, NEW c \in Int
  PROVE  Highest({a, b, c}) \in {a, b, c} /\ Highest({a, b, c}) >= a /\ Highest({a, b, c}) >= b
         /\ Highest({a, b, c}) >= c
<1>1. PICK m \in Int : m >= a /\ m >= b /\ m >= c
  <2>1. CASE a >= b /\ a >= c
    BY <2>1
  <2>2. CASE b >= a /\ b >= c
    BY <2>2
  <2>3. CASE c >= a /\ c >= b
    BY <2>3
  <2> QED BY <2>1, <2>2, <2>3
<1> QED
  BY <1>1, HighestOf

\* A finite set of naturals is bounded.
LEMMA FiniteIsBounded ==
  ASSUME NEW S \in SUBSET Nat, IsFiniteSet(S)
  PROVE  \E m \in Nat : \A x \in S : x <= m
<1> DEFINE Bounded(U) == \E m \in Nat : \A x \in U : x <= m
           Bad == {n \in Nat : \E U \in SUBSET Nat : IsFiniteSet(U) /\ Cardinality(U) = n /\ ~Bounded(U)}
<1> SUFFICES ASSUME ~Bounded(S) PROVE FALSE
  OBVIOUS
<1>1. Cardinality(S) \in Bad
  BY FS_CardinalityType
<1>2. PICK n \in Bad : \A k \in Bad : n <= k
  <2>1. Bad \in SUBSET Nat /\ Bad # {}
    BY <1>1
  <2> HIDE DEF Bad
  <2> QED BY <2>1, LeastElement, Zenon
<1>3. PICK U \in SUBSET Nat : IsFiniteSet(U) /\ Cardinality(U) = n /\ ~Bounded(U)
  BY <1>2
<1>4. PICK x \in U : TRUE
  <2>1. U = {} => Bounded(U)
    OBVIOUS
  <2> QED BY <1>3, <2>1
<1>5. IsFiniteSet(U \ {x}) /\ Cardinality(U \ {x}) = n - 1 /\ n \in Nat /\ n - 1 \in Nat
  <2>1. IsFiniteSet(U \ {x}) /\ Cardinality(U \ {x}) = n - 1
    BY <1>3, <1>4, FS_RemoveElement
  <2>2. n - 1 \in Nat
    BY <2>1, FS_CardinalityType
  <2> QED BY <2>1, <2>2
<1>6. Bounded(U \ {x})
  <2>1. n - 1 \notin Bad
    BY <1>2, <1>5
  <2> HIDE DEF Bounded
  <2> QED BY <1>5, <2>1
<1>7. PICK m \in Nat : \A y \in U \ {x} : y <= m
  BY <1>6
<1>8. x \in Nat
  OBVIOUS
<1>9. PICK k \in Nat : k >= m /\ k >= x
  BY <1>8
<1>10. \A y \in U : y <= k
  BY <1>7, <1>9
<1> QED
  BY <1>3, <1>10

\* Positions of a list without repetition.
Elems(s) == {s[i] : i \in 1 .. Len(s)}
Distinct(s) == \A i, j \in 1 .. Len(s) : s[i] = s[j] => i = j

LEMMA DistinctCount ==
  ASSUME NEW S, NEW s \in Seq(S), Distinct(s)
  PROVE  IsFiniteSet(Elems(s)) /\ Cardinality(Elems(s)) = Len(s)
<1>1. PICK n \in Nat : n = Len(s)
  OBVIOUS
<1> DEFINE f == [i \in 1 .. n |-> s[i]]
<1>2. f \in Bijection(1 .. n, Elems(s))
  <2>1. f \in [1 .. n -> Elems(s)]
    BY <1>1 DEF Elems
  <2>2. \A i, j \in 1 .. n : f[i] = f[j] => i = j
    BY <1>1 DEF Distinct
  <2>3. \A x \in Elems(s) : \E i \in 1 .. n : f[i] = x
    BY <1>1 DEF Elems
  <2> HIDE DEF f
  <2>4. f \in Injection(1 .. n, Elems(s))
    BY <2>1, <2>2 DEF Injection, IsInjective
  <2>5. f \in Surjection(1 .. n, Elems(s))
    BY <2>1, <2>3 DEF Surjection
  <2> QED BY <2>4, <2>5 DEF Bijection
<1>3. IsFiniteSet(1 .. n) /\ Cardinality(1 .. n) = n
  <2>1. 1 \in Int /\ n \in Int
    OBVIOUS
  <2>2. IsFiniteSet(1 .. n) /\ Cardinality(1 .. n) = IF 1 > n THEN 0 ELSE n - 1 + 1
    BY <2>1, FS_Interval
  <2> QED BY <2>2
<1>4. ExistsBijection(1 .. n, Elems(s))
  BY <1>2 DEF ExistsBijection
<1> QED
  BY <1>1, <1>3, <1>4, FS_Bijection

LEMMA WithoutElems ==
  ASSUME NEW S, NEW s \in Seq(S), Distinct(s), NEW r
  PROVE  /\ Without(s, r) \in Seq(S) /\ Distinct(Without(s, r))
         /\ Elems(Without(s, r)) = Elems(s) \ {r}
         /\ Len(Without(s, r)) = IF r \in Elems(s) THEN Len(s) - 1 ELSE Len(s)
<1>1. CASE r \notin Elems(s)
  <2>1. Without(s, r) = s
    BY <1>1 DEF Without, Elems
  <2> QED BY <1>1, <2>1
<1>2. CASE r \in Elems(s)
  <2>1. PICK n \in Nat : n = Len(s)
    OBVIOUS
  <2> DEFINE p == CHOOSE i \in 1 .. Len(s) : s[i] = r
             w == [i \in 1 .. n - 1 |-> IF i < p THEN s[i] ELSE s[i + 1]]
  <2>2. p \in 1 .. n /\ s[p] = r
    BY <1>2, <2>1 DEF Elems
  <2>3. Without(s, r) = w
    BY <1>2, <2>1 DEF Without, Elems
  <2>4. n - 1 \in Nat
    BY <2>2
  <2> HIDE DEF p
  <2>5. \A i \in 1 .. n : s[i] \in S
    BY <2>1
  <2>6. \A i \in 1 .. n - 1 : w[i] \in S
    BY <2>2, <2>5
  <2>7. w \in Seq(S) /\ Len(w) = n - 1
    BY <2>4, <2>6
  <2>8. \A i, j \in 1 .. n : s[i] = s[j] => i = j
    BY <2>1 DEF Distinct
  <2>9. \A i \in 1 .. n - 1 : w[i] = IF i < p THEN s[i] ELSE s[i + 1]
    OBVIOUS
  <2> HIDE DEF w
  <2>10. Distinct(w)
    <3>1. ASSUME NEW i \in 1 .. n - 1, NEW j \in 1 .. n - 1, w[i] = w[j] PROVE i = j
      <4>1. PICK a \in 1 .. n : a = IF i < p THEN i ELSE i + 1
        BY <2>1, <2>2
      <4>2. PICK b \in 1 .. n : b = IF j < p THEN j ELSE j + 1
        BY <2>1, <2>2
      <4>3. w[i] = s[a] /\ w[j] = s[b]
        BY <2>9, <4>1, <4>2
      <4>4. a = b
        BY <2>8, <3>1, <4>3
      <4> QED BY <2>2, <4>1, <4>2, <4>4
    <3> QED BY <2>7, <3>1 DEF Distinct
  <2>11. \A i \in 1 .. n - 1 : w[i] \in Elems(s) \ {r}
    BY <2>1, <2>2, <2>8, <2>9 DEF Elems
  <2>12. \A i \in 1 .. n : s[i] # r => s[i] \in Elems(w)
    <3>1. ASSUME NEW i \in 1 .. n, s[i] # r PROVE s[i] \in Elems(w)
      <4>1. CASE i < p
        <5>1. i \in 1 .. n - 1 /\ w[i] = s[i]
          BY <2>2, <2>9, <4>1
        <5> QED BY <2>7, <5>1 DEF Elems
      <4>2. CASE i > p
        <5>1. i - 1 \in 1 .. n - 1 /\ w[i - 1] = s[i]
          BY <2>2, <2>9, <4>2
        <5> QED BY <2>7, <5>1 DEF Elems
      <4> QED BY <2>2, <3>1, <4>1, <4>2
    <3> QED BY <3>1
  <2>13. Elems(w) = Elems(s) \ {r}
    BY <2>1, <2>7, <2>11, <2>12 DEF Elems
  <2> QED BY <1>2, <2>1, <2>3, <2>7, <2>10, <2>13
<1> QED
  BY <1>1, <1>2

LEMMA AppendElems ==
  ASSUME NEW S, NEW s \in Seq(S), Distinct(s), NEW r \in S, r \notin Elems(s)
  PROVE  /\ Append(s, r) \in Seq(S) /\ Distinct(Append(s, r))
         /\ Elems(Append(s, r)) = Elems(s) \cup {r}
         /\ Len(Append(s, r)) = Len(s) + 1 /\ Append(s, r)[Len(s) + 1] = r
<1>1. PICK n, a : n = Len(s) /\ n \in Nat /\ a = Append(s, r)
  <2>1. Len(s) \in Nat
    OBVIOUS
  <2> QED BY <2>1, Zenon
<1>2. a \in Seq(S) /\ Len(a) = n + 1 /\ a[n + 1] = r /\ \A i \in 1 .. n : a[i] = s[i]
  BY <1>1
<1>3. \A i \in 1 .. n + 1 : i \in 1 .. n \/ i = n + 1
  BY <1>1
<1>4. Distinct(a)
  <2>1. \A i, j \in 1 .. n : s[i] = s[j] => i = j
    BY <1>1 DEF Distinct
  <2>2. \A i \in 1 .. n : a[i] # r
    BY <1>1, <1>2 DEF Elems
  <2>3. \A i, j \in 1 .. n + 1 : a[i] = a[j] => i = j
    BY <1>2, <1>3, <2>1, <2>2
  <2> QED BY <1>2, <2>3 DEF Distinct
<1>5. Elems(a) = Elems(s) \cup {r}
  <2>1. \A x \in Elems(a) : x \in Elems(s) \cup {r}
    <3>1. \A i \in 1 .. n + 1 : a[i] \in Elems(s) \cup {r}
      BY <1>1, <1>2, <1>3 DEF Elems
    <3> QED BY <1>2, <3>1 DEF Elems
  <2>2. \A x \in Elems(s) : x \in Elems(a)
    <3>1. \A i \in 1 .. n : a[i] = s[i] /\ i \in 1 .. n + 1
      BY <1>1, <1>2
    <3> QED BY <1>1, <1>2, <3>1 DEF Elems
  <2>3. r \in Elems(a)
    <3>1. n + 1 \in 1 .. n + 1
      BY <1>1
    <3> QED BY <1>2, <3>1 DEF Elems
  <2> QED BY <2>1, <2>2, <2>3
<1> QED
  BY <1>1, <1>2, <1>4, <1>5

-----------------------------------------------------------------------------
(* What every reachable state satisfies.  The parts that a restart or a refused  *)
(* call of the store voids say so.                                               *)

Indices == Nat \cup {Unset}
Books == {b \in SUBSET (Trucks \X Nat) : IsFiniteSet(b)}
RowSet == Trucks \X Nat \X (1 .. limit.updates)
FrameSet == [idx : Nat, rows : SUBSET RowSet]
Slabs == [Trucks -> 0 .. limit.updates]

StoreTyped ==
  /\ frames \in [Runs -> Seq(FrameSet)]
  /\ meta_book \in [Runs -> Books]
  /\ meta_max \in [Runs -> Indices]
  /\ meta_status \in [Runs -> BOOLEAN]

HotTyped ==
  /\ lru \in Seq(limit.runs) /\ Distinct(lru) /\ Len(lru) <= MaxRuns
  /\ book \in [Runs -> Books]
  /\ counter \in [Runs -> Nat]
  /\ slab \in [Runs -> Slabs]
  /\ \A r \in Runs : ~Empty(r) => r \in Resident

SvcTyped ==
  /\ updates \in [Runs -> Indices]
  /\ captured \in [Runs -> Indices]
  /\ max_idx \in [Runs -> Indices]
  /\ sig \in [Runs -> Indices]
  /\ restored \subseteq Runs /\ finalized \subseteq Runs /\ dropped \subseteq Runs

WorldTyped ==
  /\ limit \in Limits
  /\ ver \in 0 .. limit.updates
  /\ last \in [Runs -> Slabs]
  /\ terminal \in [Runs -> {"none", "sent", "done"}]
  /\ \A r \in Runs : terminal[r] # "none" => r \in limit.runs
  /\ faults \in Nat /\ crashes \in Nat /\ replays \in Nat

PollTyped ==
  /\ poll.pc \in {"idle", "update", "bump", "meta_read", "meta_write", "mark", "evict", "forget"}
  /\ poll.pc # "idle" => poll.run \in limit.runs
  /\ poll.pc = "update" => poll.truck \in Trucks /\ ver < limit.updates
  /\ poll.pc = "meta_write" => poll.book \in Books /\ poll.max \in Indices

\* What a sweep thread has in its hands: the runs to go, a run, a frame, a book.
InHand(w) ==
  /\ w.pc \in {"idle", "resident", "gone", "next", "snap", "write", "meta_read", "meta_write"}
  /\ w.pc \in {"resident", "gone"} => w.known \subseteq Runs
  /\ w.pc \in {"gone", "next", "snap", "write", "meta_read", "meta_write"} => w.todo \subseteq limit.runs
  /\ w.pc \in {"snap", "write", "meta_read", "meta_write"} => w.run \in limit.runs
  /\ w.pc \in {"snap", "write"} => w.seq \in Nat
  /\ w.pc = "write" => w.frame \in FrameSet
  /\ w.pc = "meta_write" => w.book \in Books /\ w.max \in Indices

SweepTyped == DOMAIN sweep = Sweepers /\ \A s \in Sweepers : InHand(sweep[s])

Holds(s) == sweep[s].pc \in {"snap", "write"}
LockInv == \A s, t \in Sweepers : Holds(s) /\ Holds(t) => s = t

TypeInv == StoreTyped /\ HotTyped /\ SvcTyped /\ WorldTyped /\ PollTyped /\ SweepTyped /\ LockInv

\* Sweep s has frame f of run r in its hands.
Writes(s, r) == sweep[s].pc = "write" /\ sweep[s].run = r
Writing(r) == \E s \in Sweepers : Writes(s, r)

\* A run is finalized from the mark on, and no position of it is taken after that.
FinishInv ==
  /\ poll.pc \in {"evict", "forget"} => poll.run \in finalized
  /\ poll.pc \in {"update", "bump"} => poll.run \notin finalized
  /\ crashes = 0 => \A r \in Runs : terminal[r] = "done" => r \in finalized

\* In the first process, what is on disk and in flight comes from the live book.
FirstProcess ==
  crashes = 0 =>
    /\ \A r \in Runs :
         /\ meta_book[r] \subseteq book[r]
         /\ sig[r] = Unset => meta_book[r] = {} /\ meta_max[r] = Unset
         /\ r \in Resident => ~Empty(r)
         /\ \A row \in Rows(r) : <<row[1], row[2]>> \in book[r]
    /\ poll.pc = "meta_write" => poll.book \subseteq book[poll.run]
    /\ \A s \in Sweepers :
         /\ sweep[s].pc = "meta_write" => sweep[s].book \subseteq book[sweep[s].run]
         /\ sweep[s].pc = "write" =>
              \A row \in sweep[s].frame.rows : <<row[1], row[2]>> \in book[sweep[s].run]

\* No slot for two trucks.
Inject(b) == \A e, f \in b : e[2] = f[2] => e = f

\* While the store refuses nothing, a run is resident only with what the disk knew of it.
Restored ==
  faults = 0 =>
    /\ \A r \in Runs :
         /\ Inject(meta_book[r])
         /\ r \in restored => meta_book[r] \subseteq book[r]
         /\ r \notin restored => book[r] = {} /\ r \notin Resident
         /\ sig[r] # Unset /\ r \notin restored =>
              r \in finalized \/ (poll.pc = "mark" /\ poll.run = r)
    /\ poll.pc = "update" => poll.run \in restored
    /\ poll.pc = "meta_write" =>
         IF poll.run \in restored THEN poll.book \subseteq book[poll.run]
         ELSE poll.book = meta_book[poll.run]
    /\ \A s \in Sweepers : sweep[s].pc = "meta_write" =>
         sweep[s].run \in restored /\ sweep[s].book \subseteq book[sweep[s].run]

BooksInject ==
  /\ BooksRestored => \A r \in Runs : Inject(book[r])
  /\ crashes <= 1 => \A r \in Runs : sig[r] = Unset => Inject(meta_book[r])

\* Every index is below the counter that the next frame takes it from.
Unique ==
  crashes = 0 \/ faults = 0 =>
    /\ \A r \in Runs :
         /\ \A i, j \in 1 .. Len(frames[r]) : frames[r][i].idx = frames[r][j].idx => i = j
         /\ crashes = 0 \/ r \in Resident =>
              \A i \in 1 .. Len(frames[r]) : frames[r][i].idx < counter[r]
    /\ \A s \in Sweepers : sweep[s].pc = "write" =>
         /\ sweep[s].frame.idx < counter[sweep[s].run]
         /\ \A i \in 1 .. Len(frames[sweep[s].run]) :
              frames[sweep[s].run][i].idx # sweep[s].frame.idx

\* No hole: the counter is the number of frames, one more while a frame is written.
Dense ==
  crashes = 0 /\ (faults = 0 \/ Room) =>
    /\ \A r \in Runs :
         /\ \A i \in 1 .. Len(frames[r]) : frames[r][i].idx = i - 1
         /\ r \in Resident \/ r \notin finalized =>
              /\ Writing(r) => counter[r] = Len(frames[r]) + 1
              /\ ~Writing(r) => counter[r] = Len(frames[r])
    /\ \A s \in Sweepers : sweep[s].pc = "write" =>
         sweep[s].frame.idx = Len(frames[sweep[s].run])

\* With room for every run, one leaves only when it is finalized.
Stays ==
  Room =>
    /\ \A r \in Runs :
         /\ r \in Resident => slab[r] = last[r]
         /\ r \notin Resident /\ r \notin finalized => last[r] = NoPositions
         /\ \A k \in Trucks : slab[r][k] > 0 => k \in TrucksOf(book[r])
    /\ \A s \in Sweepers : sweep[s].pc = "write" =>
         sweep[s].run \in Resident \/ sweep[s].run \in finalized

\* Every truck's newest position is in a frame of the run.
Covered(r) == \A k \in Trucks : ~Unwritten(r, k)

\* A position of the run waits to be counted.
Bumping(r) == poll.pc = "bump" /\ poll.run = r

\* The update sequence counts the positions, and the captured one is behind it.
Counts ==
  /\ \A r \in Runs : captured[r] <= RunSeq(r)
  /\ \A s \in Sweepers : Holds(s) => sweep[s].seq = RunSeq(sweep[s].run)

Finishing == {"meta_read", "meta_write", "mark", "evict", "forget"}

\* A capture that is up to date covers the run; one that is not is counted as a loss.
Counted ==
  Room /\ BooksRestored =>
    /\ \A r \in Runs :
         /\ updates[r] # Unset /\ captured[r] = updates[r] /\ ~Bumping(r) => Covered(r)
         /\ r \in Resident \/ Covered(r) \/ r \in dropped
    /\ poll.pc \in Finishing => Covered(poll.run) \/ poll.run \in dropped
    /\ \A s \in Sweepers : sweep[s].pc = "write" /\ ~Bumping(sweep[s].run) =>
         \A k \in Trucks : Unwritten(sweep[s].run, k) =>
           \E row \in sweep[s].frame.rows : row[1] = k /\ row[3] = last[sweep[s].run][k]

IInv ==
  /\ TypeInv /\ FinishInv /\ FirstProcess /\ Restored /\ BooksInject /\ Unique /\ Dense
  /\ Stays /\ Counts /\ Counted

-----------------------------------------------------------------------------
(* Books and indices.                                                      *)

\* Finitely many naturals named by a function have a bound.
LEMMA ImageIsBounded ==
  ASSUME NEW D, IsFiniteSet(D), NEW f \in [D -> Nat]
  PROVE  \E m \in Nat : \A x \in D : f[x] <= m
<1> DEFINE I == {f[x] : x \in D}
<1>1. f \in Surjection(D, I)
  BY DEF Surjection
<1>2. IsFiniteSet(I)
  <2> HIDE DEF I
  <2> QED BY <1>1, FS_Surjection
<1>3. I \in SUBSET Nat /\ \A x \in D : f[x] \in I
  OBVIOUS
<1>4. PICK m \in Nat : \A y \in I : y <= m
  <2> HIDE DEF I
  <2> QED BY <1>2, <1>3, FiniteIsBounded
<1> QED
  BY <1>3, <1>4

LEMMA BookFacts ==
  ASSUME NEW b \in Books
  PROVE  b \subseteq Trucks \X Nat /\ IsFiniteSet(b) /\ \A e \in b : e[1] \in Trucks /\ e[2] \in Nat
BY DEF Books

LEMMA SubBook ==
  ASSUME NEW b \in Books, NEW c \in SUBSET b
  PROVE  c \in Books
BY FS_Subset DEF Books

LEMMA EmptyBook == {} \in Books
BY FS_EmptySet DEF Books

\* The next slot is one that no truck of the book has.
LEMMA NextSlotIsFresh ==
  ASSUME NEW b \in Books
  PROVE  NextSlot(b) \in Nat /\ \A e \in b : e[2] < NextSlot(b)
<1>1. CASE b = {}
  BY <1>1 DEF NextSlot
<1>2. CASE b # {}
  <2> DEFINE f == [e \in b |-> e[2]]
  <2>1. f \in [b -> Nat]
    BY BookFacts
  <2>2. PICK m \in Nat : \A e \in b : f[e] <= m
    <3> HIDE DEF f
    <3> QED BY <2>1, BookFacts, ImageIsBounded, Zenon
  <2>3. SlotsOf(b) \in SUBSET Int /\ SlotsOf(b) # {} /\ \A x \in SlotsOf(b) : x <= m /\ x >= 0
    <3>1. \A e \in b : e[2] \in Nat /\ e[2] <= m
      BY <2>2, BookFacts
    <3> QED BY <1>2, <3>1 DEF SlotsOf
  <2>4. Highest(SlotsOf(b)) \in SlotsOf(b) /\ \A y \in SlotsOf(b) : y <= Highest(SlotsOf(b))
    <3>1. m \in Int
      OBVIOUS
    <3> QED BY <2>3, <3>1, HighestOf, Zenon
  <2>5. \A e \in b : e[2] \in SlotsOf(b)
    BY DEF SlotsOf
  <2>6. \A e \in b : e[2] \in Nat
    BY BookFacts
  <2> QED BY <1>2, <2>3, <2>4, <2>5, <2>6 DEF NextSlot
<1> QED
  BY <1>1, <1>2

LEMMA WithTruckBook ==
  ASSUME NEW b \in Books, NEW k \in Trucks
  PROVE  /\ WithTruck(b, k) \in Books /\ b \subseteq WithTruck(b, k)
         /\ k \in TrucksOf(WithTruck(b, k))
         /\ Inject(b) => Inject(WithTruck(b, k))
<1>1. CASE k \in TrucksOf(b)
  BY <1>1 DEF WithTruck
<1>2. CASE k \notin TrucksOf(b)
  <2>1. PICK e : e = <<k, NextSlot(b)>>
    OBVIOUS
  <2>2. WithTruck(b, k) = b \cup {e}
    BY <1>2, <2>1 DEF WithTruck
  <2>3. e \in Trucks \X Nat /\ e[1] = k /\ e[2] = NextSlot(b)
    BY <2>1, NextSlotIsFresh
  <2>4. IsFiniteSet(b \cup {e})
    BY BookFacts, FS_AddElement
  <2>5. b \cup {e} \in Books
    BY <2>3, <2>4, BookFacts DEF Books
  <2>6. Inject(b) => Inject(b \cup {e})
    <3>1. \A d \in b : d[2] # e[2]
      <4>1. \A d \in b : d[2] \in Nat /\ d[2] < NextSlot(b) /\ NextSlot(b) \in Nat
        BY BookFacts, NextSlotIsFresh
      <4> QED BY <2>3, <4>1
    <3> QED BY <3>1 DEF Inject
  <2>7. k \in TrucksOf(b \cup {e})
    BY <2>3 DEF TrucksOf
  <2> QED BY <2>2, <2>5, <2>6, <2>7
<1> QED
  BY <1>1, <1>2

\* A merge holds what is persisted, and of the live book no more than it has.
LEMMA MergeBook ==
  ASSUME NEW p \in Books, NEW l \in Books
  PROVE  /\ MergeCodeMap(p, l) \in Books
         /\ p \subseteq MergeCodeMap(p, l) /\ MergeCodeMap(p, l) \subseteq p \cup l
<1>1. MergeCodeMap(p, l) \in SUBSET (p \cup l) /\ p \subseteq MergeCodeMap(p, l)
  BY DEF MergeCodeMap
<1>2. p \cup l \in Books
  BY BookFacts, FS_Union DEF Books
<1> QED
  BY <1>1, <1>2, SubBook

\* A book that takes in another one keeps one truck for a slot.
LEMMA NonClashingBook ==
  ASSUME NEW c \in Books, NEW b \in Books
  PROVE  /\ c \cup NonClashing(c, b) \in Books
         /\ Inject(c) /\ Inject(b) => Inject(c \cup NonClashing(c, b))
<1>1. c \cup NonClashing(c, b) \in SUBSET (c \cup b)
  BY DEF NonClashing
<1>2. c \cup b \in Books
  BY BookFacts, FS_Union DEF Books
<1>3. ASSUME Inject(c), Inject(b) PROVE Inject(c \cup NonClashing(c, b))
  <2>1. \A e \in NonClashing(c, b) : e \in b /\ \A d \in c : d[2] # e[2]
    BY DEF NonClashing, SlotsOf
  <2> QED BY <1>3, <2>1 DEF Inject
<1> QED
  BY <1>1, <1>2, <1>3, SubBook

\* _seed_frame_idx: above every index on disk, and one of them below.
LEMMA SeededIsAbove ==
  ASSUME NEW r, NEW F, frames[r] \in Seq(F), \A i \in 1 .. Len(frames[r]) : frames[r][i].idx \in Nat
  PROVE  /\ SeededFrameIdx(r) \in Nat
         /\ \A i \in 1 .. Len(frames[r]) : frames[r][i].idx < SeededFrameIdx(r)
         /\ \/ Len(frames[r]) = 0 /\ SeededFrameIdx(r) = 0
            \/ \E i \in 1 .. Len(frames[r]) : SeededFrameIdx(r) = frames[r][i].idx + 1
<1>1. PICK n \in Nat : n = Len(frames[r])
  OBVIOUS
<1>2. CASE frames[r] = <<>>
  BY <1>2 DEF SeededFrameIdx
<1>3. CASE frames[r] # <<>>
  <2>1. n > 0
    BY <1>1, <1>3
  <2> DEFINE f == [i \in 1 .. n |-> frames[r][i].idx]
  <2>2. f \in [1 .. n -> Nat] /\ \A i \in 1 .. n : f[i] = frames[r][i].idx
    BY <1>1
  <2>3. IsFiniteSet(1 .. n)
    <3>1. 1 \in Int /\ n \in Int
      OBVIOUS
    <3> QED BY <3>1, FS_Interval
  <2>4. PICK m \in Nat : \A i \in 1 .. n : f[i] <= m
    <3> HIDE DEF f
    <3> QED BY <2>2, <2>3, ImageIsBounded, Zenon
  <2>5. Indexes(r) \in SUBSET Int /\ \A x \in Indexes(r) : x <= m
    <3>1. \A i \in 1 .. n : frames[r][i].idx \in Nat /\ frames[r][i].idx <= m
      BY <2>2, <2>4
    <3> QED BY <1>1, <3>1 DEF Indexes
  <2>6. Indexes(r) # {} /\ \A i \in 1 .. n : frames[r][i].idx \in Indexes(r)
    <3>1. \A i \in 1 .. n : frames[r][i].idx \in Indexes(r)
      BY <1>1 DEF Indexes
    <3>2. 1 \in 1 .. n
      BY <2>1
    <3> QED BY <3>1, <3>2, Zenon
  <2>7. PICK h : h = Highest(Indexes(r))
    OBVIOUS
  <2>8. h \in Indexes(r) /\ \A y \in Indexes(r) : y <= h
    <3>1. m \in Int
      OBVIOUS
    <3> QED BY <2>5, <2>6, <2>7, <3>1, HighestOf, Zenon
  <2>9. PICK i \in 1 .. n : h = frames[r][i].idx
    BY <1>1, <2>8 DEF Indexes
  <2>10. SeededFrameIdx(r) = h + 1
    BY <1>3, <2>7 DEF SeededFrameIdx
  <2>11. h \in Nat
    BY <1>1, <2>9
  <2> QED BY <1>1, <2>6, <2>8, <2>9, <2>10, <2>11
<1> QED
  BY <1>2, <1>3

-----------------------------------------------------------------------------
(* The list of resident runs.                                              *)

LEMMA LimitType ==
  ASSUME limit \in Limits
  PROVE  /\ limit.runs \in SUBSET Runs /\ IsFiniteSet(limit.runs) /\ limit.sweepers \in SUBSET Sweepers
         /\ limit.updates \in Nat /\ limit.faults \in Nat /\ limit.crashes \in Nat
         /\ limit.replays \in Nat /\ MaxRuns \in Nat /\ MaxRuns >= 1
<1>1. limit.runs \in SUBSET Runs /\ limit.sweepers \in SUBSET Sweepers /\ limit.updates \in Nat
      /\ limit.faults \in Nat /\ limit.crashes \in Nat /\ limit.replays \in Nat
  BY FramesAssumption
<1>2. IsFiniteSet(limit.runs)
  BY <1>1, FramesAssumption, FS_Subset
<1> QED
  BY <1>1, <1>2, FramesAssumption

\* A list with room loses nobody; without it, the run that was just touched stays.
LEMMA TouchedKept ==
  ASSUME limit \in Limits, lru \in Seq(limit.runs), Distinct(lru), Len(lru) <= MaxRuns,
         NEW r \in limit.runs
  PROVE  /\ Kept(Touched(r)) \in Seq(limit.runs) /\ Distinct(Kept(Touched(r)))
         /\ Len(Kept(Touched(r))) <= MaxRuns
         /\ r \in Elems(Kept(Touched(r))) /\ Elems(Kept(Touched(r))) \subseteq Elems(lru) \cup {r}
         /\ Room => Elems(Kept(Touched(r))) = Elems(lru) \cup {r}
<1>1. PICK w : w = Without(lru, r)
  OBVIOUS
<1>2. w \in Seq(limit.runs) /\ Distinct(w) /\ Elems(w) = Elems(lru) \ {r} /\ Len(w) <= Len(lru)
  <2>1. Len(lru) \in Nat
    OBVIOUS
  <2>2. Len(w) = IF r \in Elems(lru) THEN Len(lru) - 1 ELSE Len(lru)
    BY <1>1, WithoutElems
  <2>3. w \in Seq(limit.runs) /\ Distinct(w) /\ Elems(w) = Elems(lru) \ {r}
    BY <1>1, WithoutElems
  <2> QED BY <2>1, <2>2, <2>3
<1>3. PICK t : t = Touched(r)
  OBVIOUS
<1>4. t \in Seq(limit.runs) /\ Distinct(t) /\ Elems(t) = Elems(lru) \cup {r}
      /\ Len(t) = Len(w) + 1 /\ t[Len(w) + 1] = r
  <2>1. r \notin Elems(w)
    BY <1>2
  <2>2. t = Append(w, r)
    BY <1>1, <1>3 DEF Touched
  <2>3. t \in Seq(limit.runs) /\ Distinct(t) /\ Elems(t) = Elems(w) \cup {r}
        /\ Len(t) = Len(w) + 1 /\ t[Len(w) + 1] = r
    BY <1>2, <2>1, <2>2, AppendElems
  <2> QED BY <1>2, <2>3
<1>5. PICK n \in Nat : n = Len(w)
  BY <1>2
<1>6. MaxRuns \in Nat /\ MaxRuns >= 1
  BY LimitType
<1>7. CASE n + 1 > MaxRuns
  <2>1. n \in 1 .. MaxRuns
    <3>1. Len(lru) \in Nat
      OBVIOUS
    <3> QED BY <1>2, <1>5, <1>6, <1>7, <3>1
  <2>2. PICK u : u = Tail(t)
    OBVIOUS
  <2>3. u \in Seq(limit.runs) /\ Len(u) = n /\ \A i \in 1 .. n : u[i] = t[i + 1]
    BY <1>4, <1>5, <2>1, <2>2
  <2>4. Kept(Touched(r)) = u
    BY <1>3, <1>4, <1>5, <1>7, <2>2 DEF Kept
  <2>5. \A i, j \in 1 .. n + 1 : t[i] = t[j] => i = j
    BY <1>4, <1>5 DEF Distinct
  <2>6. Distinct(u)
    <3>1. \A i, j \in 1 .. n : u[i] = u[j] => i + 1 = j + 1
      BY <2>3, <2>5
    <3> QED BY <2>3, <3>1 DEF Distinct
  <2>7. \A i \in 1 .. n : u[i] \in Elems(t)
    BY <1>4, <1>5, <2>3 DEF Elems
  <2>8. \A x \in Elems(u) : x \in Elems(t)
    BY <2>3, <2>7 DEF Elems
  <2>9. u[n] = r /\ n \in 1 .. n
    BY <1>4, <1>5, <2>1, <2>3
  <2>10. r \in Elems(u)
    BY <2>3, <2>9 DEF Elems
  <2>11. ~ Room
    <3>1. IsFiniteSet(Elems(t)) /\ Cardinality(Elems(t)) = n + 1
      BY <1>4, <1>5, DistinctCount
    <3>2. Elems(t) \subseteq limit.runs
      BY <1>4 DEF Elems
    <3>3. n + 1 <= Cardinality(limit.runs) /\ Cardinality(limit.runs) \in Nat
      BY <3>1, <3>2, FS_Subset, FS_CardinalityType, LimitType
    <3> QED BY <1>6, <1>7, <3>3 DEF Room
  <2> QED BY <1>4, <2>1, <2>3, <2>4, <2>6, <2>8, <2>10, <2>11
<1>8. CASE ~ (n + 1 > MaxRuns)
  <2>1. Kept(Touched(r)) = t
    BY <1>3, <1>4, <1>5, <1>8 DEF Kept
  <2> QED BY <1>4, <1>5, <1>6, <1>8, <2>1
<1> QED
  BY <1>7, <1>8

LEMMA ResidentElems == Resident = Elems(lru)
BY DEF Resident, Elems

LEMMA ResidentElemsNext == Resident' = Elems(lru')
BY DEF Resident, Elems

LEMMA ResidentIsLimited ==
  ASSUME lru \in Seq(limit.runs)
  PROVE  Resident \subseteq limit.runs
BY DEF Resident

\* What the members of the typed functions are.
LEMMA SlabFacts ==
  ASSUME NEW f \in [Runs -> Slabs], NEW r \in Runs, limit.updates \in Nat
  PROVE  f[r] \in Slabs /\ DOMAIN f[r] = Trucks
         /\ \A k \in Trucks : f[r][k] \in Nat /\ f[r][k] <= limit.updates
BY DEF Slabs

LEMMA NoPositionsType ==
  ASSUME limit.updates \in Nat
  PROVE  NoPositions \in Slabs /\ \A k \in Trucks : NoPositions[k] = 0
BY DEF NoPositions, Slabs

-----------------------------------------------------------------------------
(* What the two critical sections of the hot tier do that make a run resident. *)

\* The run is resident; the tier has dropped others only for want of room.
Seats(r) ==
  /\ lru' \in Seq(limit.runs) /\ Distinct(lru') /\ Len(lru') <= MaxRuns
  /\ r \in Resident' /\ Resident' \subseteq Resident \cup {r}
  /\ Room => Resident' = Resident \cup {r}

\* Counters never go back, and one that starts without a refused lookup starts above
\* every frame of the run.
Numbers(r) ==
  /\ counter' \in [Runs -> Nat]
  /\ \A q \in Runs : counter'[q] >= counter[q] /\ (q # r => counter'[q] = counter[q])
  /\ r \notin Resident /\ faults' = faults => counter'[r] >= SeededFrameIdx(r)
  /\ faults' \in Nat /\ faults' >= faults

\* The others keep their positions as long as they stay.
DropsOthers(r) ==
  \A q \in Runs : q # r =>
    slab'[q] = IF q \in Resident /\ q \notin Resident' THEN NoPositions ELSE slab[q]

LEMMA FrameFacts ==
  ASSUME NEW f \in FrameSet
  PROVE  f.idx \in Nat /\ f.rows \subseteq RowSet
BY DEF FrameSet

LEMMA FrameAt ==
  ASSUME StoreTyped, NEW r \in Runs
  PROVE  /\ frames[r] \in Seq(FrameSet) /\ Len(frames[r]) \in Nat
         /\ \A i \in 1 .. Len(frames[r]) :
              frames[r][i] \in FrameSet /\ frames[r][i].idx \in Nat /\ frames[r][i].rows \subseteq RowSet
<1>1. frames[r] \in Seq(FrameSet)
  BY DEF StoreTyped
<1>2. \A i \in 1 .. Len(frames[r]) : frames[r][i] \in FrameSet
  BY <1>1
<1> QED
  BY <1>1, <1>2, FrameFacts

LEMMA SeededType ==
  ASSUME TypeInv, NEW r \in Runs
  PROVE  /\ SeededFrameIdx(r) \in Nat
         /\ \A i \in 1 .. Len(frames[r]) : frames[r][i].idx < SeededFrameIdx(r)
         /\ \/ Len(frames[r]) = 0 /\ SeededFrameIdx(r) = 0
            \/ \E i \in 1 .. Len(frames[r]) : SeededFrameIdx(r) = frames[r][i].idx + 1
<1>1. frames[r] \in Seq(FrameSet) /\ \A i \in 1 .. Len(frames[r]) : frames[r][i].idx \in Nat
  BY FrameAt DEF TypeInv
<1> QED
  BY <1>1, SeededIsAbove

LEMMA CreatedCounterIs ==
  ASSUME TypeInv, NEW r \in Runs, NEW seed \in {SeededFrameIdx(r), 0}, NEW start \in Nat
  PROVE  /\ CreatedCounter(r, seed, start) \in Nat
         /\ CreatedCounter(r, seed, start) >= counter[r] /\ CreatedCounter(r, seed, start) >= seed
         /\ CreatedCounter(r, seed, start) \in {seed, counter[r], start}
<1>1. counter[r] \in Nat
  BY DEF TypeInv, HotTyped
<1>2. seed \in Nat
  BY SeededType
<1>3. seed \in Int /\ counter[r] \in Int /\ start \in Int
  BY <1>1, <1>2
<1>4. PICK h : h = Highest({seed, counter[r], start})
  OBVIOUS
<1>5. h \in {seed, counter[r], start} /\ h >= seed /\ h >= counter[r]
  BY <1>3, <1>4, HighestTriple, Zenon
<1>6. CreatedCounter(r, seed, start) = h
  BY <1>4 DEF CreatedCounter
<1> QED
  BY <1>1, <1>2, <1>5, <1>6

LEMMA TouchedSeats ==
  ASSUME TypeInv, NEW r \in limit.runs, lru' = Kept(Touched(r))
  PROVE  Seats(r)
<1>1. limit \in Limits /\ lru \in Seq(limit.runs) /\ Distinct(lru) /\ Len(lru) <= MaxRuns
  BY DEF TypeInv, HotTyped, WorldTyped
<1> QED
  BY <1>1, TouchedKept, ResidentElems, ResidentElemsNext DEF Seats

LEMMA UpdateSeats ==
  ASSUME TypeInv, Update, NEW r, r = poll.run, NEW k, k = poll.truck
  PROVE  /\ r \in limit.runs /\ k \in Trucks /\ Seats(r) /\ Numbers(r) /\ DropsOthers(r)
         /\ book' = [book EXCEPT ![r] = WithTruck(book[r], k)]
         /\ slab' = [q \in Runs |-> slab'[q]] /\ slab'[r] = [slab[r] EXCEPT ![k] = ver + 1]
         /\ counter'[r] \in {0, counter[r], SeededFrameIdx(r)}
         /\ r \in Resident => counter'[r] = counter[r]
<1>1. r \in limit.runs /\ k \in Trucks /\ limit \in Limits /\ r \in Runs
  <2>1. limit \in Limits
    BY DEF TypeInv, WorldTyped
  <2> QED BY <2>1, LimitType DEF TypeInv, PollTyped, Update
<1>2. EnsureRun(r) /\ lru' = Kept(Touched(r))
  BY DEF Update, UpdatePosition
<1>3. Seats(r)
  BY <1>1, <1>2, TouchedSeats
<1>4. CreatedBook(r, {}) = book[r]
  BY DEF CreatedBook
<1>5. book' = [book EXCEPT ![r] = WithTruck(book[r], k)]
  BY <1>4 DEF Update, UpdatePosition
<1>6. PICK gone : gone = Resident \ Resident'
  OBVIOUS
<1>7. slab' = [DropSlabs(gone) EXCEPT ![r][k] = ver + 1]
  BY <1>6 DEF Update, UpdatePosition
<1>8. r \notin gone
  BY <1>3, <1>6 DEF Seats
<1>9. slab' = [q \in Runs |-> slab'[q]] /\ slab'[r] = [slab[r] EXCEPT ![k] = ver + 1]
      /\ \A q \in Runs : q # r => slab'[q] = IF q \in gone THEN NoPositions ELSE slab[q]
  BY <1>1, <1>7, <1>8 DEF DropSlabs
<1>10. DropsOthers(r)
  BY <1>6, <1>9 DEF DropsOthers
<1>11. counter \in [Runs -> Nat] /\ faults \in Nat
  BY DEF TypeInv, HotTyped, WorldTyped
<1>12. /\ Numbers(r) /\ counter'[r] \in {0, counter[r], SeededFrameIdx(r)}
       /\ r \in Resident => counter'[r] = counter[r]
  <2>1. CASE r \in Resident
    <3>1. counter' = counter /\ faults' = faults
      BY <1>2, <2>1 DEF EnsureRun
    <3> QED BY <1>1, <1>11, <2>1, <3>1 DEF Numbers
  <2>2. CASE r \notin Resident
    <3>1. PICK seed \in {SeededFrameIdx(r), 0} :
            SeedLookup(r, seed) /\ counter' = [counter EXCEPT ![r] = CreatedCounter(r, seed, 0)]
      BY <1>2, <2>2 DEF EnsureRun
    <3>2. PICK c : c = CreatedCounter(r, seed, 0)
      OBVIOUS
    <3>3. c \in Nat /\ c >= counter[r] /\ c >= seed /\ c \in {seed, counter[r], 0}
      BY <1>1, <3>2, CreatedCounterIs
    <3>4. (seed = SeededFrameIdx(r) /\ faults' = faults) \/ faults' = faults + 1
      BY <3>1 DEF SeedLookup, Fault
    <3>5. counter' = [counter EXCEPT ![r] = c]
      BY <3>1, <3>2
    <3>6. Numbers(r)
      BY <1>1, <1>11, <3>3, <3>4, <3>5 DEF Numbers
    <3>7. counter'[r] = c
      BY <1>1, <1>11, <3>5
    <3> QED BY <2>2, <3>3, <3>6, <3>7
  <2> QED BY <2>1, <2>2
<1> QED
  BY <1>1, <1>3, <1>5, <1>9, <1>10, <1>12

LEMMA RestoreSeats ==
  ASSUME TypeInv, NEW r \in Runs, NEW k, AdmitRestored(r, k)
  PROVE  /\ r \in limit.runs /\ Seats(r) /\ Numbers(r) /\ DropsOthers(r)
         /\ book' = [book EXCEPT ![r] =
              IF r \in Resident THEN book[r] \cup NonClashing(book[r], meta_book[r])
              ELSE CreatedBook(r, meta_book[r])]
         /\ slab' = [q \in Runs |-> slab'[q]] /\ slab'[r] = slab[r]
<1> DEFINE g == meta_book[r]
           start == meta_max[r] + 1
<1>1. r \in limit.runs /\ SeedRunIdentity(r, g, start)
  BY DEF AdmitRestored, Position
<1>2. lru \in Seq(limit.runs) /\ Distinct(lru) /\ Len(lru) <= MaxRuns /\ counter \in [Runs -> Nat]
      /\ faults \in Nat /\ slab = [q \in Runs |-> slab[q]] /\ limit \in Limits
  BY DEF TypeInv, HotTyped, WorldTyped
<1>3. start \in Nat
  BY DEF TypeInv, StoreTyped, Indices, Unset
<1> HIDE DEF g, start
<1>4. CASE r \in Resident
  <2>1. /\ book' = [book EXCEPT ![r] = book[r] \cup NonClashing(book[r], g)]
        /\ counter' = [counter EXCEPT ![r] = Highest({counter[r], start})]
        /\ lru' = lru /\ slab' = slab /\ faults' = faults
    BY <1>1, <1>4 DEF SeedRunIdentity
  <2>2. Resident' = Resident
    BY <2>1 DEF Resident
  <2>3. Seats(r)
    BY <1>2, <1>4, <2>1, <2>2 DEF Seats
  <2>4. PICK h : h = Highest({counter[r], start})
    OBVIOUS
  <2>5. h \in Nat /\ h >= counter[r]
    <3>1. counter[r] \in Int /\ start \in Int /\ counter[r] \in Nat
      BY <1>2, <1>3
    <3>2. h = IF counter[r] >= start THEN counter[r] ELSE start
      BY <2>4, <3>1, HighestPair, Zenon
    <3> QED BY <1>3, <3>1, <3>2
  <2>6. counter' = [counter EXCEPT ![r] = h]
    BY <2>1, <2>4
  <2>7. Numbers(r)
    <3>1. counter' \in [Runs -> Nat] /\ \A q \in Runs : counter'[q] >= counter[q] /\ (q # r => counter'[q] = counter[q])
      BY <1>2, <2>5, <2>6
    <3>2. faults' \in Nat /\ faults' >= faults
      BY <1>2, <2>1
    <3> QED BY <1>4, <3>1, <3>2 DEF Numbers
  <2>8. DropsOthers(r)
    BY <2>1, <2>2 DEF DropsOthers
  <2> QED BY <1>1, <1>2, <1>4, <2>1, <2>3, <2>7, <2>8 DEF g
<1>5. CASE r \notin Resident
  <2>1. /\ book' = [book EXCEPT ![r] = CreatedBook(r, g)]
        /\ lru' = Kept(Touched(r)) /\ slab' = DropSlabs(Resident \ Resident')
    BY <1>1, <1>5 DEF SeedRunIdentity
  <2>2. PICK seed \in {SeededFrameIdx(r), 0} :
          SeedLookup(r, seed) /\ counter' = [counter EXCEPT ![r] = CreatedCounter(r, seed, start)]
    BY <1>1, <1>5 DEF SeedRunIdentity
  <2>3. Seats(r)
    BY <1>1, <2>1, TouchedSeats
  <2>4. PICK c : c = CreatedCounter(r, seed, start)
    OBVIOUS
  <2>5. c \in Nat /\ c >= counter[r] /\ c >= seed
    BY <1>3, <2>4, CreatedCounterIs
  <2>6. (seed = SeededFrameIdx(r) /\ faults' = faults) \/ faults' = faults + 1
    BY <2>2 DEF SeedLookup, Fault
  <2>7. counter' = [counter EXCEPT ![r] = c]
    BY <2>2, <2>4
  <2>8. Numbers(r)
    BY <1>2, <2>5, <2>6, <2>7 DEF Numbers
  <2>9. PICK gone : gone = Resident \ Resident'
    OBVIOUS
  <2>10. slab' = [q \in Runs |-> slab'[q]] /\ \A q \in Runs : slab'[q] = IF q \in gone THEN NoPositions ELSE slab[q]
    BY <2>1, <2>9 DEF DropSlabs
  <2>11. r \notin gone
    BY <1>5, <2>9
  <2>12. DropsOthers(r)
    BY <2>9, <2>10 DEF DropsOthers
  <2> QED BY <1>1, <1>5, <2>1, <2>3, <2>8, <2>10, <2>11, <2>12 DEF g
<1> QED
  BY <1>4, <1>5

LEMMA EvictSeats ==
  ASSUME TypeInv, EvictRun, NEW r, r = poll.run
  PROVE  /\ r \in limit.runs
         /\ lru' \in Seq(limit.runs) /\ Distinct(lru') /\ Len(lru') <= MaxRuns
         /\ Resident' = Resident \ {r}
         /\ slab' = [q \in Runs |-> IF q = r THEN NoPositions ELSE slab[q]]
<1>1. lru \in Seq(limit.runs) /\ Distinct(lru) /\ Len(lru) <= MaxRuns /\ limit \in Limits
  BY DEF TypeInv, HotTyped, WorldTyped
<1>2. lru' = Without(lru, r) /\ slab' = DropSlabs({r})
  BY DEF EvictRun
<1>3. lru' \in Seq(limit.runs) /\ Distinct(lru') /\ Elems(lru') = Elems(lru) \ {r}
      /\ Len(lru') = IF r \in Elems(lru) THEN Len(lru) - 1 ELSE Len(lru)
  BY <1>1, <1>2, WithoutElems
<1>4. Len(lru') <= MaxRuns
  <2>1. Len(lru) \in Nat
    BY <1>1
  <2>2. MaxRuns \in Nat
    BY <1>1, LimitType
  <2> QED BY <1>1, <1>3, <2>1, <2>2
<1>5. slab' = [q \in Runs |-> IF q = r THEN NoPositions ELSE slab[q]]
  BY <1>2 DEF DropSlabs
<1>6. r \in limit.runs
  BY DEF TypeInv, PollTyped, EvictRun
<1> QED
  BY <1>3, <1>4, <1>5, <1>6, ResidentElems, ResidentElemsNext

-----------------------------------------------------------------------------
(* Snapshots and the frames they become.                                   *)

LEMMA SnapshotFacts ==
  ASSUME TypeInv, NEW r \in Runs
  PROVE  /\ Snapshot(r) \in FrameSet /\ Snapshot(r).idx = counter[r]
         /\ \A row \in Snapshot(r).rows : <<row[1], row[2]>> \in book[r]
         /\ Inject(book[r]) => \A k \in TrucksOf(book[r]) : slab[r][k] > 0 =>
              \E row \in Snapshot(r).rows : row[1] = k /\ row[3] = slab[r][k]
<1>1. book[r] \in Books /\ counter[r] \in Nat /\ slab \in [Runs -> Slabs] /\ limit.updates \in Nat
  <2>1. limit.updates \in Nat
    BY LimitType DEF TypeInv, WorldTyped
  <2> QED BY <2>1 DEF TypeInv, HotTyped
<1>2. PICK b : b = book[r]
  OBVIOUS
<1>3. \A e \in b : e[1] \in Trucks /\ e[2] \in Nat /\ e = <<e[1], e[2]>>
  BY <1>1, <1>2, BookFacts
<1>4. \A k \in Trucks : slab[r][k] \in Nat /\ slab[r][k] <= limit.updates
  BY <1>1, SlabFacts
<1> DEFINE Shown == {x \in b : slab[r][x[1]] > 0 /\ ~Shadowed(r, x)}
           rows == {<<e[1], e[2], slab[r][e[1]]>> : e \in Shown}
<1>5. Snapshot(r) = [idx |-> counter[r], rows |-> rows]
  BY <1>2 DEF Snapshot
<1>6. \A row \in rows : row \in RowSet /\ <<row[1], row[2]>> \in b
  <2>1. ASSUME NEW e \in Shown
        PROVE  /\ <<e[1], e[2], slab[r][e[1]]>> \in RowSet /\ <<e[1], e[2]>> \in b
    <3>1. e \in b /\ slab[r][e[1]] > 0
      BY <2>1
    <3>2. e[1] \in Trucks /\ e[2] \in Nat /\ slab[r][e[1]] \in 1 .. limit.updates
      BY <1>1, <1>3, <1>4, <3>1
    <3> QED BY <1>3, <3>1, <3>2 DEF RowSet
  <2>2. ASSUME NEW row \in rows PROVE row \in RowSet /\ <<row[1], row[2]>> \in b
    <3>1. PICK e \in Shown : row = <<e[1], e[2], slab[r][e[1]]>>
      BY <2>2
    <3>2. row[1] = e[1] /\ row[2] = e[2]
      BY <3>1
    <3> HIDE DEF Shown
    <3> QED BY <2>1, <3>1, <3>2
  <2> HIDE DEF rows
  <2> QED BY <2>2
<1>7. Inject(b) => \A k \in TrucksOf(b) : slab[r][k] > 0 => \E row \in rows : row[1] = k /\ row[3] = slab[r][k]
  <2>1. ASSUME Inject(b), NEW k \in TrucksOf(b), slab[r][k] > 0
        PROVE  \E row \in rows : row[1] = k /\ row[3] = slab[r][k]
    <3>1. PICK e \in b : e[1] = k
      BY DEF TrucksOf
    <3>2. k \in Trucks /\ slab[r][k] \in Nat
      BY <1>3, <1>4, <3>1
    <3>3. ~Shadowed(r, e)
      <4>1. \A x \in b : x[2] = e[2] => x[1] = k
        BY <2>1, <3>1 DEF Inject
      <4> QED BY <1>2, <3>1, <3>2, <4>1 DEF Shadowed
    <3>4. e \in Shown
      BY <2>1, <3>1, <3>3
    <3>5. <<e[1], e[2], slab[r][e[1]]>> \in rows
      BY <3>4
    <3>6. PICK row : row = <<e[1], e[2], slab[r][e[1]]>>
      OBVIOUS
    <3>7. row[1] = k /\ row[3] = slab[r][k]
      BY <3>1, <3>6
    <3> QED BY <3>5, <3>6, <3>7
  <2> QED BY <2>1
<1> HIDE DEF rows
<1>8. rows \in SUBSET RowSet
  BY <1>6
<1>9. Snapshot(r) \in FrameSet
  BY <1>1, <1>5, <1>8 DEF FrameSet
<1> QED
  BY <1>2, <1>5, <1>6, <1>7, <1>9

LEMMA WrittenFrames ==
  ASSUME TypeInv, NEW r \in Runs, NEW f \in FrameSet, NEW q \in Nat, FrameWritten(r, f, q)
  PROVE  /\ frames' \in [Runs -> Seq(FrameSet)] /\ \A p \in Runs : p # r => frames'[p] = frames[p]
         /\ Len(frames'[r]) = Len(frames[r]) + 1 /\ frames'[r][Len(frames[r]) + 1] = f
         /\ \A i \in 1 .. Len(frames[r]) : frames'[r][i] = frames[r][i]
         /\ captured' \in [Runs -> Indices] /\ captured'[r] = q
         /\ \A p \in Runs : p # r => captured'[p] = captured[p]
         /\ max_idx' \in [Runs -> Indices]
<1>1. frames \in [Runs -> Seq(FrameSet)] /\ captured \in [Runs -> Indices] /\ max_idx \in [Runs -> Indices]
  BY DEF TypeInv, StoreTyped, SvcTyped
<1>2. PICK g : g = Append(frames[r], f)
  OBVIOUS
<1>3. g \in Seq(FrameSet) /\ Len(g) = Len(frames[r]) + 1 /\ g[Len(frames[r]) + 1] = f
      /\ \A i \in 1 .. Len(frames[r]) : g[i] = frames[r][i]
  BY <1>1, <1>2
<1>4. frames' = [frames EXCEPT ![r] = g]
  BY <1>2 DEF FrameWritten
<1>5. PICK h : h = Highest({max_idx[r], f.idx})
  OBVIOUS
<1>6. h \in Indices
  <2>1. max_idx[r] \in Int /\ f.idx \in Int /\ max_idx[r] \in Indices /\ f.idx \in Indices
    BY <1>1, FrameFacts DEF Indices, Unset
  <2>2. h = IF max_idx[r] >= f.idx THEN max_idx[r] ELSE f.idx
    BY <1>5, <2>1, HighestPair, Zenon
  <2> QED BY <2>1, <2>2
<1>7. max_idx' = [max_idx EXCEPT ![r] = h] /\ captured' = [captured EXCEPT ![r] = q]
  BY <1>5 DEF FrameWritten
<1>8. q \in Indices
  BY DEF Indices
<1>9. max_idx' \in [Runs -> Indices] /\ captured' \in [Runs -> Indices] /\ captured'[r] = q
      /\ \A p \in Runs : p # r => captured'[p] = captured[p]
  BY <1>1, <1>6, <1>7, <1>8
<1>10. frames' \in [Runs -> Seq(FrameSet)] /\ frames'[r] = g /\ \A p \in Runs : p # r => frames'[p] = frames[p]
  BY <1>1, <1>3, <1>4
<1> QED
  BY <1>3, <1>9, <1>10

LEMMA RunSeqType ==
  ASSUME TypeInv, NEW r \in Runs
  PROVE  RunSeq(r) \in Nat
<1>1. updates[r] \in Indices
  BY DEF TypeInv, SvcTyped
<1> QED
  BY <1>1 DEF RunSeq, Indices

\* The terminal's capture, by what it found.
LEMMA FinalCaptureCases ==
  ASSUME TypeInv, NEW r \in Runs, FinalCapture(r)
  PROVE  /\ r \in limit.runs /\ poll = Idle /\ ~LockHeld
         /\ \/ /\ NothingNew(r) \/ r \notin Resident
               /\ UNCHANGED <<frames, captured, max_idx, counter>>
            \/ /\ ~NothingNew(r) /\ r \in Resident /\ Empty(r)
               /\ counter' = [counter EXCEPT ![r] = counter[r] + 1]
               /\ captured' = [captured EXCEPT ![r] = RunSeq(r)]
               /\ UNCHANGED <<frames, max_idx>>
            \/ /\ ~NothingNew(r) /\ r \in Resident /\ ~Empty(r)
               /\ counter' = [counter EXCEPT ![r] = counter[r] + 1]
               /\ FrameWritten(r, Snapshot(r), RunSeq(r))
<1>1. r \in limit.runs
  BY DEF TypeInv, WorldTyped, FinalCapture, Terminal
<1>2. poll = Idle /\ ~LockHeld
  BY DEF FinalCapture, Terminal
<1>3. CASE NothingNew(r) \/ r \notin Resident
  BY <1>1, <1>2, <1>3, Zenon DEF FinalCapture
<1>4. CASE ~NothingNew(r) /\ r \in Resident /\ Empty(r)
  BY <1>1, <1>2, <1>4, Zenon DEF FinalCapture
<1>5. CASE ~NothingNew(r) /\ r \in Resident /\ ~Empty(r)
  BY <1>1, <1>2, <1>5, Zenon DEF FinalCapture
<1> QED
  BY <1>3, <1>4, <1>5

-----------------------------------------------------------------------------
(* Types.                                                                  *)

LEMMA SameSets ==
  ASSUME UNCHANGED limit
  PROVE  RowSet' = RowSet /\ FrameSet' = FrameSet /\ Slabs' = Slabs /\ Room' = Room
BY DEF RowSet, FrameSet, Slabs, Room

\* Which steps write to the store.
LEMMA StoreChanges ==
  ASSUME Step
  PROVE  \/ UNCHANGED store
         \/ \E r \in Runs : FinalCapture(r)
         \/ FinalMetaWrite
         \/ \E s \in Sweepers : SweepWrite(s) \/ SweepMetaWrite(s)
<1>1. ASSUME NEW r \in Runs, NEW k \in Trucks, AdmitKnown(r, k) \/ AdmitRestored(r, k) \/ AdmitUnread(r, k)
      PROVE  UNCHANGED store
  BY <1>1 DEF AdmitKnown, AdmitRestored, AdmitUnread
<1>2. ASSUME NEW r \in Runs, TerminalArrives(r) \/ FinalCaptureFails(r)
      PROVE  UNCHANGED store
  BY <1>2 DEF TerminalArrives, FinalCaptureFails
<1>3. CASE Update \/ Bump \/ Crash
  BY <1>3 DEF Update, Bump, Crash
<1>4. CASE Finalizing
  BY <1>4, Zenon DEF Finalizing, FinalMetaRead, FinalMetaWriteFails, MarkFinalized, EvictRun, ForgetRun
<1>5. ASSUME NEW s \in Sweepers, Sweeping(s)
      PROVE  UNCHANGED store \/ SweepWrite(s) \/ SweepMetaWrite(s)
  BY <1>5, Zenon DEF Sweeping, SweepKnown, SweepResident, SweepGone, SweepLock, SweepSnapshot,
    SweepWriteFails, SweepMetaRead, SweepMetaWriteFails
<1> QED
  BY <1>1, <1>2, <1>3, <1>4, <1>5, Zenon DEF Step

LEMMA RunMetaTyped ==
  ASSUME TypeInv, NEW r \in Runs, NEW b \in Books, NEW m \in Indices, UpsertRunMeta(r, b, m)
  PROVE  /\ meta_book' \in [Runs -> Books] /\ meta_max' \in [Runs -> Indices] /\ sig' \in [Runs -> Indices]
         /\ sig'[r] # Unset
         /\ meta_book'[r] = IF b # {} THEN b ELSE meta_book[r]
         /\ \A q \in Runs : q # r => /\ meta_book'[q] = meta_book[q] /\ meta_max'[q] = meta_max[q]
                                     /\ sig'[q] = sig[q]
<1>1. meta_book \in [Runs -> Books] /\ meta_max \in [Runs -> Indices] /\ sig \in [Runs -> Indices]
  BY DEF TypeInv, StoreTyped, SvcTyped
<1>2. Cardinality(b) \in Nat
  BY BookFacts, FS_CardinalityType
<1>3. Cardinality(b) \in Indices /\ Cardinality(b) # Unset
  BY <1>2 DEF Indices, Unset
<1>4. PICK bb \in Books : bb = IF b # {} THEN b ELSE meta_book[r]
  BY <1>1
<1>5. PICK mm \in Indices : mm = IF m # Unset THEN m ELSE meta_max[r]
  BY <1>1
<1>6. meta_book' = [meta_book EXCEPT ![r] = bb]
  BY <1>4 DEF UpsertRunMeta
<1>7. meta_max' = [meta_max EXCEPT ![r] = mm]
  BY <1>5 DEF UpsertRunMeta
<1>8. PICK c \in Indices : c = Cardinality(b) /\ c # Unset
  BY <1>3
<1>9. sig' = [sig EXCEPT ![r] = c]
  BY <1>8 DEF UpsertRunMeta
<1>10. /\ meta_book' \in [Runs -> Books] /\ meta_book'[r] = bb
       /\ \A q \in Runs : q # r => meta_book'[q] = meta_book[q]
  BY <1>1, <1>6
<1>11. meta_max' \in [Runs -> Indices] /\ \A q \in Runs : q # r => meta_max'[q] = meta_max[q]
  BY <1>1, <1>7
<1>12. sig' \in [Runs -> Indices] /\ sig'[r] = c /\ \A q \in Runs : q # r => sig'[q] = sig[q]
  BY <1>1, <1>9
<1> QED
  BY <1>4, <1>8, <1>10, <1>11, <1>12

LEMMA StoreTypedNext ==
  ASSUME TypeInv, Step, UNCHANGED limit
  PROVE  StoreTyped'
<1>1. StoreTyped /\ limit \in Limits /\ limit.runs \subseteq Runs
  BY LimitType DEF TypeInv, WorldTyped
<1>2. FrameSet' = FrameSet
  BY SameSets
<1>3. CASE UNCHANGED store
  BY <1>1, <1>2, <1>3 DEF StoreTyped, store
<1>4. ASSUME NEW r \in Runs, NEW f \in FrameSet, NEW q \in Nat, FrameWritten(r, f, q),
             UNCHANGED <<meta_book, meta_max, meta_status>>
      PROVE  StoreTyped'
  <2>1. frames' \in [Runs -> Seq(FrameSet)]
    BY <1>4, WrittenFrames
  <2> QED BY <1>1, <1>2, <1>4, <2>1 DEF StoreTyped
<1>5. ASSUME NEW r \in Runs, FinalCapture(r) PROVE StoreTyped'
  <2>1. UNCHANGED <<meta_book, meta_max, meta_status>>
    BY <1>5 DEF FinalCapture
  <2>2. CASE UNCHANGED frames
    BY <1>1, <1>2, <2>1, <2>2 DEF StoreTyped
  <2>3. CASE FrameWritten(r, Snapshot(r), RunSeq(r))
    BY <1>4, <2>1, <2>3, SnapshotFacts, RunSeqType
  <2> QED BY <1>5, <2>2, <2>3, FinalCaptureCases
<1>6. CASE FinalMetaWrite
  <2>1. poll.run \in Runs /\ poll.book \in Books /\ poll.max \in Indices
    BY <1>1, <1>6 DEF TypeInv, PollTyped, FinalMetaWrite
  <2>2. meta_book' \in [Runs -> Books] /\ meta_max' \in [Runs -> Indices]
    BY <1>6, <2>1, RunMetaTyped DEF FinalMetaWrite
  <2>3. meta_status' \in [Runs -> BOOLEAN] /\ frames' = frames
    BY <1>1, <1>6 DEF FinalMetaWrite, StoreTyped
  <2> QED BY <1>1, <1>2, <2>2, <2>3 DEF StoreTyped
<1>7. ASSUME NEW s \in Sweepers, SweepWrite(s) PROVE StoreTyped'
  <2>1. sweep[s].run \in Runs /\ sweep[s].frame \in FrameSet /\ sweep[s].seq \in Nat
    BY <1>1, <1>7 DEF TypeInv, SweepTyped, InHand, SweepWrite
  <2> QED BY <1>4, <1>7, <2>1 DEF SweepWrite
<1>8. ASSUME NEW s \in Sweepers, SweepMetaWrite(s) PROVE StoreTyped'
  <2>1. sweep[s].run \in Runs /\ sweep[s].book \in Books /\ sweep[s].max \in Indices
    BY <1>1, <1>8 DEF TypeInv, SweepTyped, InHand, SweepMetaWrite
  <2>2. meta_book' \in [Runs -> Books] /\ meta_max' \in [Runs -> Indices]
    BY <1>8, <2>1, RunMetaTyped DEF SweepMetaWrite
  <2> QED BY <1>1, <1>2, <1>8, <2>2 DEF StoreTyped, SweepMetaWrite
<1> QED
  BY <1>3, <1>5, <1>6, <1>7, <1>8, StoreChanges

LEMMA HotChanges ==
  ASSUME Step
  PROVE  \/ UNCHANGED hot
         \/ \E r \in Runs, k \in Trucks : AdmitRestored(r, k)
         \/ \E r \in Runs : FinalCapture(r)
         \/ Update \/ EvictRun \/ Crash
         \/ \E s \in Sweepers : SweepSnapshot(s) \/ SweepWriteFails(s)
<1>1. ASSUME NEW r \in Runs, NEW k \in Trucks, AdmitKnown(r, k) \/ AdmitUnread(r, k)
      PROVE  UNCHANGED hot
  BY <1>1 DEF AdmitKnown, AdmitUnread
<1>2. ASSUME NEW r \in Runs, TerminalArrives(r) \/ FinalCaptureFails(r)
      PROVE  UNCHANGED hot
  BY <1>2 DEF TerminalArrives, FinalCaptureFails
<1>3. CASE Bump
  BY <1>3 DEF Bump
<1>4. CASE Finalizing
  BY <1>4, Zenon DEF Finalizing, FinalMetaRead, FinalMetaWrite, FinalMetaWriteFails, MarkFinalized, ForgetRun
<1>5. ASSUME NEW s \in Sweepers, Sweeping(s)
      PROVE  UNCHANGED hot \/ SweepSnapshot(s) \/ SweepWriteFails(s)
  BY <1>5, Zenon DEF Sweeping, SweepKnown, SweepResident, SweepGone, SweepLock, SweepWrite,
    SweepMetaRead, SweepMetaWrite, SweepMetaWriteFails
<1> QED
  BY <1>1, <1>2, <1>3, <1>4, <1>5, Zenon DEF Step

LEMMA HotTypedNext ==
  ASSUME TypeInv, Step, UNCHANGED limit
  PROVE  HotTyped'
<1>1. HotTyped /\ limit \in Limits /\ limit.runs \subseteq Runs /\ limit.updates \in Nat /\ MaxRuns \in Nat
  BY LimitType DEF TypeInv, WorldTyped
<1>2. Slabs' = Slabs /\ NoPositions \in Slabs
  BY <1>1, SameSets, NoPositionsType
<1>3. CASE UNCHANGED hot
  BY <1>1, <1>2, <1>3 DEF HotTyped, hot, Empty, Resident
<1>4. ASSUME UNCHANGED <<lru, book, slab>>, counter' \in [Runs -> Nat] PROVE HotTyped'
  BY <1>1, <1>2, <1>4 DEF HotTyped, Empty, Resident
<1>5. ASSUME NEW r \in limit.runs, Seats(r), Numbers(r), DropsOthers(r), slab' = [q \in Runs |-> slab'[q]],
             slab'[r] \in Slabs, book' \in [Runs -> Books]
      PROVE  HotTyped'
  <2>1. \A q \in Runs : slab'[q] \in Slabs
    BY <1>1, <1>2, <1>5 DEF DropsOthers, HotTyped
  <2>2. slab' \in [Runs -> Slabs]
    BY <1>5, <2>1
  <2>3. \A q \in Runs : slab'[q] # NoPositions => q \in Resident'
    <3>1. ASSUME NEW q \in Runs, slab'[q] # NoPositions PROVE q \in Resident'
      <4>1. CASE q = r
        BY <1>5, <4>1 DEF Seats
      <4>2. CASE q # r
        BY <1>1, <1>5, <3>1, <4>2 DEF DropsOthers, HotTyped, Empty
      <4> QED BY <4>1, <4>2
    <3> QED BY <3>1
  <2>4. \A q \in Runs : ~(Empty(q)') => q \in Resident'
    BY <2>3 DEF Empty, NoPositions
  <2> QED BY <1>1, <1>2, <1>5, <2>2, <2>4 DEF HotTyped, Seats, Numbers
<1>6. ASSUME NEW r \in Runs, NEW k \in Trucks, AdmitRestored(r, k) PROVE HotTyped'
  <2>1. /\ r \in limit.runs /\ Seats(r) /\ Numbers(r) /\ DropsOthers(r)
        /\ book' = [book EXCEPT ![r] =
              IF r \in Resident THEN book[r] \cup NonClashing(book[r], meta_book[r])
              ELSE CreatedBook(r, meta_book[r])]
        /\ slab' = [q \in Runs |-> slab'[q]] /\ slab'[r] = slab[r]
    BY <1>6, RestoreSeats
  <2>2. book \in [Runs -> Books] /\ meta_book[r] \in Books /\ slab[r] \in Slabs
    BY <1>1 DEF HotTyped, TypeInv, StoreTyped
  <2>3. book[r] \cup NonClashing(book[r], meta_book[r]) \in Books
    BY <2>2, NonClashingBook
  <2>4. CreatedBook(r, meta_book[r]) \in Books
    BY <2>2 DEF CreatedBook
  <2>5. book' \in [Runs -> Books]
    BY <2>1, <2>2, <2>3, <2>4
  <2> QED BY <1>5, <2>1, <2>2, <2>5
<1>7. CASE Update
  <2>1. PICK r, k : r = poll.run /\ k = poll.truck
    OBVIOUS
  <2>2. /\ r \in limit.runs /\ k \in Trucks /\ Seats(r) /\ Numbers(r) /\ DropsOthers(r)
        /\ book' = [book EXCEPT ![r] = WithTruck(book[r], k)]
        /\ slab' = [q \in Runs |-> slab'[q]] /\ slab'[r] = [slab[r] EXCEPT ![k] = ver + 1]
    BY <1>7, <2>1, UpdateSeats
  <2>3. book \in [Runs -> Books] /\ slab[r] \in Slabs /\ WithTruck(book[r], k) \in Books
    BY <1>1, <2>2, WithTruckBook DEF HotTyped
  <2>4. ver + 1 \in 0 .. limit.updates
    BY <1>1, <1>7 DEF TypeInv, WorldTyped, PollTyped, Update
  <2>5. slab'[r] \in Slabs
    BY <2>2, <2>3, <2>4 DEF Slabs
  <2>6. book' \in [Runs -> Books]
    BY <2>2, <2>3
  <2> QED BY <1>5, <2>2, <2>5, <2>6
<1>8. ASSUME NEW r \in Runs, FinalCapture(r) PROVE HotTyped'
  <2>1. UNCHANGED <<lru, book, slab>>
    BY <1>8 DEF FinalCapture
  <2>2. counter \in [Runs -> Nat]
    BY <1>1 DEF HotTyped
  <2>3. counter' = counter \/ counter' = [counter EXCEPT ![r] = counter[r] + 1]
    BY <1>8, FinalCaptureCases
  <2> QED BY <1>4, <2>1, <2>2, <2>3
<1>9. CASE EvictRun
  <2>1. PICK r : r = poll.run
    OBVIOUS
  <2>2. /\ lru' \in Seq(limit.runs) /\ Distinct(lru') /\ Len(lru') <= MaxRuns
        /\ Resident' = Resident \ {r}
        /\ slab' = [q \in Runs |-> IF q = r THEN NoPositions ELSE slab[q]]
    BY <1>9, <2>1, EvictSeats
  <2>3. slab' \in [Runs -> Slabs]
    BY <1>1, <1>2, <2>2 DEF HotTyped
  <2>4. \A q \in Runs : slab'[q] # NoPositions => q \in Resident'
    BY <1>1, <2>2 DEF HotTyped, Empty
  <2>5. \A q \in Runs : ~(Empty(q)') => q \in Resident'
    BY <2>4 DEF Empty, NoPositions
  <2>6. UNCHANGED <<book, counter>>
    BY <1>9 DEF EvictRun
  <2> QED BY <1>1, <1>2, <2>2, <2>3, <2>5, <2>6 DEF HotTyped
<1>10. CASE Crash
  <2>1. lru' = <<>> /\ book' = [r \in Runs |-> {}] /\ counter' = [r \in Runs |-> 0]
        /\ slab' = [r \in Runs |-> NoPositions]
    BY <1>10 DEF Crash
  <2>2. lru' \in Seq(limit.runs) /\ Distinct(lru') /\ Len(lru') <= MaxRuns
    BY <1>1, <2>1 DEF Distinct
  <2>3. book' \in [Runs -> Books] /\ counter' \in [Runs -> Nat] /\ slab' \in [Runs -> Slabs]
    BY <1>2, <2>1, EmptyBook
  <2>4. \A q \in Runs : Empty(q)'
    BY <2>1 DEF Empty, NoPositions
  <2> QED BY <1>1, <1>2, <2>2, <2>3, <2>4 DEF HotTyped
<1>11. ASSUME NEW s \in Sweepers, SweepSnapshot(s) PROVE HotTyped'
  <2>1. counter \in [Runs -> Nat] /\ sweep[s].run \in Runs
    BY <1>1, <1>11 DEF HotTyped, TypeInv, SweepTyped, InHand, SweepSnapshot
  <2>2. UNCHANGED <<lru, book, slab>>
    BY <1>11 DEF SweepSnapshot
  <2>3. PICK r : r = sweep[s].run
    OBVIOUS
  <2>4. counter' = counter \/ counter' = [counter EXCEPT ![r] = counter[r] + 1]
    BY <1>11, <2>3 DEF SweepSnapshot
  <2> QED BY <1>4, <2>1, <2>2, <2>3, <2>4
<1>12. ASSUME NEW s \in Sweepers, SweepWriteFails(s) PROVE HotTyped'
  <2>1. counter \in [Runs -> Nat] /\ sweep[s].run \in Runs /\ sweep[s].frame.idx \in Nat
    BY <1>1, <1>12, FrameFacts DEF HotTyped, TypeInv, SweepTyped, InHand, SweepWriteFails
  <2>2. UNCHANGED <<lru, book, slab>>
    BY <1>12 DEF SweepWriteFails
  <2>3. PICK r, i : r = sweep[s].run /\ i = sweep[s].frame.idx
    OBVIOUS
  <2>4. counter' = counter \/ counter' = [counter EXCEPT ![r] = i]
    BY <1>12, <2>3 DEF SweepWriteFails
  <2> QED BY <1>4, <2>1, <2>2, <2>3, <2>4
<1> QED
  BY <1>3, <1>6, <1>7, <1>8, <1>9, <1>10, <1>11, <1>12, HotChanges

LEMMA SvcChanges ==
  ASSUME Step
  PROVE  \/ UNCHANGED svc
         \/ \E r \in Runs, k \in Trucks : AdmitKnown(r, k) \/ AdmitRestored(r, k)
         \/ \E r \in Runs : FinalCapture(r)
         \/ Bump \/ FinalMetaWrite \/ MarkFinalized \/ ForgetRun \/ Crash
         \/ \E s \in Sweepers : SweepGone(s) \/ SweepSnapshot(s) \/ SweepWrite(s) \/ SweepMetaWrite(s)
<1>1. ASSUME NEW r \in Runs, NEW k \in Trucks, AdmitUnread(r, k)
      PROVE  UNCHANGED svc
  BY <1>1 DEF AdmitUnread
<1>2. ASSUME NEW r \in Runs, TerminalArrives(r) \/ FinalCaptureFails(r)
      PROVE  UNCHANGED svc
  BY <1>2 DEF TerminalArrives, FinalCaptureFails
<1>3. CASE Update
  BY <1>3 DEF Update
<1>4. CASE Finalizing
  BY <1>4, Zenon DEF Finalizing, FinalMetaRead, FinalMetaWriteFails, EvictRun
<1>5. ASSUME NEW s \in Sweepers, Sweeping(s)
      PROVE  UNCHANGED svc \/ SweepGone(s) \/ SweepSnapshot(s) \/ SweepWrite(s) \/ SweepMetaWrite(s)
  BY <1>5, Zenon DEF Sweeping, SweepKnown, SweepResident, SweepLock, SweepWriteFails,
    SweepMetaRead, SweepMetaWriteFails
<1> QED
  BY <1>1, <1>2, <1>3, <1>4, <1>5, Zenon DEF Step

LEMMA SvcTypedNext ==
  ASSUME TypeInv, Step, UNCHANGED limit
  PROVE  SvcTyped'
<1>1. SvcTyped /\ limit.runs \subseteq Runs
  BY LimitType DEF TypeInv, WorldTyped
<1>2. \A n \in Nat : n \in Indices
  BY DEF Indices
<1>3. CASE UNCHANGED svc
  BY <1>1, <1>3 DEF SvcTyped, svc
<1>4. ASSUME NEW r \in Runs, NEW k \in Trucks, AdmitKnown(r, k) \/ AdmitRestored(r, k) PROVE SvcTyped'
  <2>1. meta_max[r] \in Indices
    BY DEF TypeInv, StoreTyped
  <2>2. PICK m \in Indices : m = IF meta_max[r] # Unset THEN meta_max[r] ELSE max_idx[r]
    BY <1>1, <2>1 DEF SvcTyped
  <2>3. max_idx' = max_idx \/ max_idx' = [max_idx EXCEPT ![r] = m]
    BY <1>4, <2>2 DEF AdmitKnown, AdmitRestored
  <2>4. restored' \subseteq restored \cup {r} /\ UNCHANGED <<updates, captured, sig, finalized, dropped>>
    BY <1>4 DEF AdmitKnown, AdmitRestored
  <2> QED BY <1>1, <2>3, <2>4 DEF SvcTyped
<1>5. ASSUME NEW r \in Runs, FinalCapture(r) PROVE SvcTyped'
  <2>1. dropped' \subseteq Runs /\ UNCHANGED <<updates, sig, restored, finalized>>
    BY <1>1, <1>5 DEF FinalCapture, CountLost, SvcTyped
  <2>2. captured' \in [Runs -> Indices] /\ max_idx' \in [Runs -> Indices]
    <3>1. CASE UNCHANGED <<captured, max_idx>>
      BY <1>1, <3>1 DEF SvcTyped
    <3>2. CASE captured' = [captured EXCEPT ![r] = RunSeq(r)] /\ UNCHANGED max_idx
      BY <1>1, <1>2, <3>2, RunSeqType DEF SvcTyped
    <3>3. CASE FrameWritten(r, Snapshot(r), RunSeq(r))
      BY <3>3, WrittenFrames, SnapshotFacts, RunSeqType
    <3> QED BY <1>5, <3>1, <3>2, <3>3, FinalCaptureCases
  <2> QED BY <1>1, <2>1, <2>2 DEF SvcTyped
<1>6. CASE Bump
  <2>1. poll.run \in Runs
    BY <1>1, <1>6 DEF TypeInv, PollTyped, Bump
  <2>2. PICK r \in Runs : r = poll.run
    BY <2>1
  <2>3. PICK n \in Indices : n = IF updates[r] = Unset THEN 1 ELSE updates[r] + 1
    BY <1>1 DEF SvcTyped, Indices, Unset
  <2>4. updates' = [updates EXCEPT ![r] = n]
    BY <1>6, <2>2, <2>3 DEF Bump
  <2>5. UNCHANGED <<captured, max_idx, sig, restored, finalized, dropped>>
    BY <1>6 DEF Bump
  <2> QED BY <1>1, <2>4, <2>5 DEF SvcTyped
<1>7. CASE FinalMetaWrite
  <2>1. poll.run \in Runs /\ poll.book \in Books /\ poll.max \in Indices
    BY <1>1, <1>7 DEF TypeInv, PollTyped, FinalMetaWrite
  <2>2. sig' \in [Runs -> Indices]
    BY <1>7, <2>1, RunMetaTyped DEF FinalMetaWrite
  <2> QED BY <1>1, <1>7, <2>2 DEF SvcTyped, FinalMetaWrite
<1>8. CASE MarkFinalized
  <2>1. poll.run \in Runs
    BY <1>1, <1>8 DEF TypeInv, PollTyped, MarkFinalized
  <2> QED BY <1>1, <1>8, <2>1 DEF SvcTyped, MarkFinalized
<1>9. CASE ForgetRun
  <2>1. Unset \in Indices
    BY DEF Indices
  <2> QED BY <1>1, <1>9, <2>1 DEF SvcTyped, ForgetRun
<1>10. CASE Crash
  <2>1. Unset \in Indices
    BY DEF Indices
  <2> QED BY <1>10, <2>1 DEF SvcTyped, Crash
<1>11. ASSUME NEW s \in Sweepers, SweepGone(s) PROVE SvcTyped'
  <2>1. Unset \in Indices
    BY DEF Indices
  <2>2. PICK gone : gone = {r \in sweep[s].known : r \notin sweep[s].todo /\ r \notin finalized}
    OBVIOUS
  <2>3. /\ updates' = [r \in Runs |-> IF r \in gone THEN Unset ELSE updates[r]]
        /\ captured' = [r \in Runs |-> IF r \in gone THEN Unset ELSE captured[r]]
    BY <1>11, <2>2 DEF SweepGone
  <2>4. updates' \in [Runs -> Indices] /\ captured' \in [Runs -> Indices]
    BY <1>1, <2>1, <2>3 DEF SvcTyped
  <2>5. sweep[s].known \subseteq Runs
    BY <1>11 DEF TypeInv, SweepTyped, InHand, SweepGone
  <2>6. dropped' \subseteq Runs
    BY <1>1, <1>11, <2>5 DEF SweepGone, SvcTyped
  <2> QED BY <1>1, <1>11, <2>4, <2>6 DEF SvcTyped, SweepGone
<1>12. ASSUME NEW s \in Sweepers, SweepSnapshot(s) PROVE SvcTyped'
  <2>1. PICK r, q : r = sweep[s].run /\ q = sweep[s].seq
    OBVIOUS
  <2>2. r \in Runs /\ q \in Indices
    BY <1>1, <1>2, <1>12, <2>1 DEF TypeInv, SweepTyped, InHand, SweepSnapshot
  <2>3. captured' = captured \/ captured' = [captured EXCEPT ![r] = q]
    BY <1>12, <2>1 DEF SweepSnapshot
  <2> QED BY <1>1, <1>12, <2>2, <2>3 DEF SvcTyped, SweepSnapshot
<1>13. ASSUME NEW s \in Sweepers, SweepWrite(s) PROVE SvcTyped'
  <2>1. sweep[s].run \in Runs /\ sweep[s].frame \in FrameSet /\ sweep[s].seq \in Nat
    BY <1>1, <1>13 DEF TypeInv, SweepTyped, InHand, SweepWrite
  <2>2. captured' \in [Runs -> Indices] /\ max_idx' \in [Runs -> Indices]
    BY <1>13, <2>1, WrittenFrames DEF SweepWrite
  <2> QED BY <1>1, <1>13, <2>2 DEF SvcTyped, SweepWrite
<1>14. ASSUME NEW s \in Sweepers, SweepMetaWrite(s) PROVE SvcTyped'
  <2>1. sweep[s].run \in Runs /\ sweep[s].book \in Books /\ sweep[s].max \in Indices
    BY <1>1, <1>14 DEF TypeInv, SweepTyped, InHand, SweepMetaWrite
  <2>2. sig' \in [Runs -> Indices]
    BY <1>14, <2>1, RunMetaTyped DEF SweepMetaWrite
  <2> QED BY <1>1, <1>14, <2>2 DEF SvcTyped, SweepMetaWrite
<1> QED
  BY <1>3, <1>4, <1>5, <1>6, <1>7, <1>8, <1>9, <1>10, <1>11, <1>12, <1>13, <1>14, SvcChanges

\* Which steps deliver, take a terminal, are refused by the store, or restart.
LEMMA WorldChanges ==
  ASSUME Step
  PROVE  \/ UNCHANGED <<ver, last, terminal, crashes, replays>>
         \/ Update \/ Crash \/ EvictRun \/ ForgetRun
         \/ \E r \in Runs : TerminalArrives(r) \/ FinalCapture(r) \/ FinalCaptureFails(r)
<1>1. ASSUME NEW r \in Runs, NEW k \in Trucks, AdmitKnown(r, k) \/ AdmitRestored(r, k) \/ AdmitUnread(r, k)
      PROVE  UNCHANGED <<ver, last, terminal, crashes, replays>>
  BY <1>1 DEF AdmitKnown, AdmitRestored, AdmitUnread, world
<1>2. CASE Bump
  BY <1>2 DEF Bump, world
<1>3. CASE Finalizing /\ ~EvictRun /\ ~ForgetRun
  BY <1>3 DEF Finalizing, FinalMetaRead, FinalMetaWrite, FinalMetaWriteFails, MarkFinalized, world
<1>4. ASSUME NEW s \in Sweepers, Sweeping(s)
      PROVE  UNCHANGED <<ver, last, terminal, crashes, replays>>
  BY <1>4 DEF Sweeping, SweepKnown, SweepResident, SweepGone, SweepLock, SweepSnapshot, SweepWrite,
    SweepWriteFails, SweepMetaRead, SweepMetaWrite, SweepMetaWriteFails, world
<1> QED
  BY <1>1, <1>2, <1>3, <1>4, Zenon DEF Step

\* The store's refusals only ever grow.
LEMMA FaultsGrow ==
  ASSUME TypeInv, Step
  PROVE  faults' \in Nat /\ faults' >= faults
<1>1. faults \in Nat /\ limit \in Limits
  BY DEF TypeInv, WorldTyped
<1>2. ASSUME NEW r \in Runs, NEW k \in Trucks, AdmitKnown(r, k) \/ AdmitUnread(r, k)
      PROVE  faults' \in Nat /\ faults' >= faults
  BY <1>1, <1>2 DEF AdmitKnown, AdmitUnread, world, Fault
<1>3. ASSUME NEW r \in Runs, NEW k \in Trucks, AdmitRestored(r, k)
      PROVE  faults' \in Nat /\ faults' >= faults
  BY <1>3, RestoreSeats DEF Numbers
<1>4. ASSUME NEW r \in Runs, TerminalArrives(r) \/ FinalCapture(r) \/ FinalCaptureFails(r)
      PROVE  faults' \in Nat /\ faults' >= faults
  BY <1>1, <1>4 DEF TerminalArrives, FinalCapture, FinalCaptureFails, Fault
<1>5. CASE Update
  BY <1>5, UpdateSeats DEF Numbers
<1>6. CASE Bump \/ Crash
  BY <1>1, <1>6 DEF Bump, Crash, world
<1>7. CASE Finalizing
  BY <1>1, <1>7 DEF Finalizing, FinalMetaRead, FinalMetaWrite, FinalMetaWriteFails, MarkFinalized,
    EvictRun, ForgetRun, world, Fault, BookOnDisk
<1>8. ASSUME NEW s \in Sweepers, Sweeping(s)
      PROVE  faults' \in Nat /\ faults' >= faults
  BY <1>1, <1>8 DEF Sweeping, SweepKnown, SweepResident, SweepGone, SweepLock, SweepSnapshot, SweepWrite,
    SweepWriteFails, SweepMetaRead, SweepMetaWrite, SweepMetaWriteFails, world, Fault, BookOnDisk
<1> QED
  BY <1>2, <1>3, <1>4, <1>5, <1>6, <1>7, <1>8 DEF Step

LEMMA WorldTypedNext ==
  ASSUME TypeInv, Step, UNCHANGED limit
  PROVE  WorldTyped' /\ crashes' >= crashes
<1>1. WorldTyped /\ limit.runs \subseteq Runs /\ limit.updates \in Nat /\ limit.replays \in Nat
  BY LimitType DEF TypeInv, WorldTyped
<1>2. faults' \in Nat /\ Slabs' = Slabs
  BY FaultsGrow, SameSets
<1>3. CASE UNCHANGED <<ver, last, terminal, crashes, replays>>
  BY <1>1, <1>2, <1>3 DEF WorldTyped
<1>4. CASE Update
  <2>1. PICK r, k : r = poll.run /\ k = poll.truck
    OBVIOUS
  <2>2. r \in Runs /\ k \in Trucks /\ ver + 1 \in 0 .. limit.updates
    BY <1>1, <1>4, <2>1 DEF TypeInv, PollTyped, Update, WorldTyped
  <2>3. last' = [last EXCEPT ![r][k] = ver + 1] /\ ver' = ver + 1 /\ UNCHANGED <<terminal, crashes, replays>>
    BY <1>4, <2>1 DEF Update
  <2>4. last' \in [Runs -> Slabs]
    BY <1>1, <2>2, <2>3 DEF WorldTyped, Slabs
  <2> QED BY <1>1, <1>2, <2>2, <2>3, <2>4 DEF WorldTyped
<1>5. CASE Crash
  <2>1. last' \in [Runs -> Slabs]
    BY <1>1, <1>5, NoPositionsType DEF Crash
  <2> QED BY <1>1, <1>2, <1>5, <2>1 DEF WorldTyped, Crash
<1>6. CASE EvictRun \/ ForgetRun
  <2>1. PICK r : r = poll.run
    OBVIOUS
  <2>2. r \in limit.runs
    BY <1>6, <2>1 DEF TypeInv, PollTyped, EvictRun, ForgetRun
  <2>3. terminal' = terminal \/ terminal' = [terminal EXCEPT ![r] = "done"]
    BY <1>6, <2>1 DEF EvictRun, ForgetRun
  <2>4. UNCHANGED <<ver, last, crashes, replays>>
    BY <1>6 DEF EvictRun, ForgetRun
  <2> QED BY <1>1, <1>2, <2>2, <2>3, <2>4 DEF WorldTyped
<1>7. ASSUME NEW r \in Runs, TerminalArrives(r) \/ FinalCapture(r) \/ FinalCaptureFails(r)
      PROVE  WorldTyped' /\ crashes' >= crashes
  <2>1. r \in limit.runs
    BY <1>1, <1>7 DEF TerminalArrives, FinalCapture, FinalCaptureFails, Terminal, WorldTyped
  <2>2. terminal' = terminal \/ terminal' = [terminal EXCEPT ![r] = "sent"]
    BY <1>7 DEF TerminalArrives, FinalCapture, FinalCaptureFails, Terminal
  <2>3. replays' = replays \/ replays' = replays + 1
    BY <1>7 DEF TerminalArrives, FinalCapture, FinalCaptureFails, Terminal
  <2>4. UNCHANGED <<ver, last, crashes>>
    BY <1>7 DEF TerminalArrives, FinalCapture, FinalCaptureFails
  <2> QED BY <1>1, <1>2, <2>1, <2>2, <2>3, <2>4 DEF WorldTyped
<1> QED
  BY <1>3, <1>4, <1>5, <1>6, <1>7, WorldChanges

LEMMA PollChanges ==
  ASSUME Step
  PROVE  \/ UNCHANGED <<poll, ver>>
         \/ \E r \in Runs, k \in Trucks : AdmitKnown(r, k) \/ AdmitRestored(r, k) \/ AdmitUnread(r, k)
         \/ \E r \in Runs : FinalCapture(r)
         \/ Update \/ Bump \/ Finalizing \/ Crash
<1>1. ASSUME NEW r \in Runs, TerminalArrives(r) \/ FinalCaptureFails(r)
      PROVE  UNCHANGED <<poll, ver>>
  BY <1>1 DEF TerminalArrives, FinalCaptureFails
<1>2. ASSUME NEW s \in Sweepers, Sweeping(s)
      PROVE  UNCHANGED <<poll, ver>>
  BY <1>2 DEF Sweeping, SweepKnown, SweepResident, SweepGone, SweepLock, SweepSnapshot, SweepWrite,
    SweepWriteFails, SweepMetaRead, SweepMetaWrite, SweepMetaWriteFails, world
<1> QED
  BY <1>1, <1>2, Zenon DEF Step

\* What the two threads write is a book.
LEMMA MergedType ==
  ASSUME TypeInv, NEW r \in Runs, NEW b \in {meta_book[r], {}}
  PROVE  /\ MergeCodeMap(b, LiveBook(r)) \in Books
         /\ b \subseteq MergeCodeMap(b, LiveBook(r)) /\ MergeCodeMap(b, LiveBook(r)) \subseteq b \cup LiveBook(r)
<1>1. meta_book[r] \in Books /\ book[r] \in Books
  BY DEF TypeInv, StoreTyped, HotTyped
<1>2. b \in Books /\ LiveBook(r) \in Books
  BY <1>1, EmptyBook DEF LiveBook
<1> QED
  BY <1>2, MergeBook

LEMMA PollTypedNext ==
  ASSUME TypeInv, Step, UNCHANGED limit
  PROVE  PollTyped'
<1>1. PollTyped /\ limit.runs \subseteq Runs
  BY LimitType DEF TypeInv, WorldTyped
<1>2. CASE UNCHANGED <<poll, ver>>
  BY <1>1, <1>2 DEF PollTyped
<1>3. ASSUME NEW r \in Runs, NEW k \in Trucks, AdmitKnown(r, k) \/ AdmitRestored(r, k) \/ AdmitUnread(r, k)
      PROVE  PollTyped'
  <2>1. poll' = [pc |-> "update", run |-> r, truck |-> k] /\ ver' = ver /\ Position(r)
    BY <1>3 DEF AdmitKnown, AdmitRestored, AdmitUnread, world
  <2> QED BY <2>1 DEF PollTyped, Position
<1>4. ASSUME NEW r \in Runs, FinalCapture(r) PROVE PollTyped'
  <2>1. r \in limit.runs /\ poll' = [pc |-> "meta_read", run |-> r]
    BY <1>4, FinalCaptureCases DEF FinalCapture
  <2> QED BY <2>1 DEF PollTyped
<1>5. CASE Update
  BY <1>1, <1>5 DEF PollTyped, Update
<1>6. CASE Bump \/ Crash
  BY <1>6 DEF PollTyped, Bump, Crash, Idle
<1>7. CASE FinalMetaRead
  <2>1. PICK r : r = poll.run
    OBVIOUS
  <2>2. r \in limit.runs /\ r \in Runs
    BY <1>1, <1>7, <2>1 DEF PollTyped, FinalMetaRead
  <2>3. PICK b \in {meta_book[r], {}} :
          poll' = [pc |-> "meta_write", run |-> r, book |-> MergeCodeMap(b, LiveBook(r)), max |-> max_idx[r]]
    BY <1>7, <2>1 DEF FinalMetaRead
  <2>4. MergeCodeMap(b, LiveBook(r)) \in Books /\ max_idx[r] \in Indices
    BY <2>2, MergedType DEF TypeInv, SvcTyped
  <2>5. PICK m : m = MergeCodeMap(b, LiveBook(r))
    OBVIOUS
  <2>6. poll' = [pc |-> "meta_write", run |-> r, book |-> m, max |-> max_idx[r]]
    BY <2>3, <2>5
  <2> QED BY <2>2, <2>4, <2>5, <2>6 DEF PollTyped
<1>8. CASE FinalMetaWrite \/ FinalMetaWriteFails \/ MarkFinalized \/ EvictRun \/ ForgetRun
  BY <1>1, <1>8 DEF PollTyped, FinalMetaWrite, FinalMetaWriteFails, MarkFinalized, EvictRun, ForgetRun, Idle
<1> QED
  BY <1>2, <1>3, <1>4, <1>5, <1>6, <1>7, <1>8, PollChanges DEF Finalizing

\* Only the sweep threads move a sweep, one at a time.
LEMMA SweepChanges ==
  ASSUME Step
  PROVE  UNCHANGED sweep \/ Crash \/ \E s \in Sweepers : Sweeping(s)
<1>1. ASSUME NEW r \in Runs, NEW k \in Trucks, AdmitKnown(r, k) \/ AdmitRestored(r, k) \/ AdmitUnread(r, k)
      PROVE  UNCHANGED sweep
  BY <1>1 DEF AdmitKnown, AdmitRestored, AdmitUnread
<1>2. ASSUME NEW r \in Runs, TerminalArrives(r) \/ FinalCapture(r) \/ FinalCaptureFails(r)
      PROVE  UNCHANGED sweep
  BY <1>2 DEF TerminalArrives, FinalCapture, FinalCaptureFails
<1>3. CASE Update \/ Bump
  BY <1>3 DEF Update, Bump
<1>4. CASE Finalizing
  BY <1>4, Zenon DEF Finalizing, FinalMetaRead, FinalMetaWrite, FinalMetaWriteFails, MarkFinalized, EvictRun,
    ForgetRun
<1> QED
  BY <1>1, <1>2, <1>3, <1>4, Zenon DEF Step

\* A sweep thread goes on to the next run, or is done.
LEMMA NextRunInHand ==
  ASSUME limit \in Limits, NEW todo \in SUBSET limit.runs
  PROVE  InHand(NextRun(todo)) /\ NextRun(todo).pc \in {"idle", "next"}
<1>1. CASE todo = {}
  BY <1>1 DEF NextRun, InHand, Idle
<1>2. CASE todo # {}
  BY <1>2 DEF NextRun, InHand
<1> QED
  BY <1>1, <1>2

\* What a sweep's step leaves in its hands, and that it takes _run_lock only when free.
LEMMA SweepMoves ==
  ASSUME TypeInv, NEW s \in Sweepers, Sweeping(s)
  PROVE  \E w : /\ sweep' = [sweep EXCEPT ![s] = w] /\ InHand(w)
                /\ w.pc \in {"snap", "write"} => Holds(s) \/ ~LockHeld
<1>1. /\ InHand(sweep[s]) /\ limit \in Limits /\ limit.runs \subseteq Runs /\ updates \in [Runs -> Indices]
      /\ lru \in Seq(limit.runs)
  BY LimitType DEF TypeInv, WorldTyped, SweepTyped, SvcTyped, HotTyped
<1>2. Idle.pc = "idle" /\ InHand(Idle)
  BY DEF Idle, InHand
<1> DEFINE Good(w) == /\ sweep' = [sweep EXCEPT ![s] = w] /\ InHand(w)
                      /\ w.pc \in {"snap", "write"} => Holds(s) \/ ~LockHeld
<1>3. ASSUME NEW w, w.pc \notin {"snap", "write"}, InHand(w), sweep' = [sweep EXCEPT ![s] = w] PROVE Good(w)
  BY <1>3
<1>4. CASE SweepKnown(s)
  <2>1. PICK w : w = [pc |-> "resident", known |-> {r \in Runs : updates[r] # Unset}]
    OBVIOUS
  <2>2. InHand(w) /\ w.pc = "resident"
    BY <2>1 DEF InHand
  <2> QED BY <1>4, <2>1, <2>2 DEF SweepKnown
<1>5. CASE SweepResident(s)
  <2>1. PICK w : w = [pc |-> "gone", known |-> sweep[s].known, todo |-> Resident]
    OBVIOUS
  <2>2. InHand(w) /\ w.pc = "gone"
    BY <1>1, <1>5, <2>1, ResidentIsLimited DEF InHand, SweepResident
  <2> QED BY <1>5, <2>1, <2>2 DEF SweepResident
<1>6. ASSUME NEW todo \in SUBSET limit.runs, sweep' = [sweep EXCEPT ![s] = NextRun(todo)]
      PROVE  \E w : Good(w)
  <2>1. PICK w : w = NextRun(todo)
    OBVIOUS
  <2>2. InHand(w) /\ w.pc \notin {"snap", "write"}
    BY <1>1, <2>1, NextRunInHand
  <2> QED BY <1>6, <2>1, <2>2
<1>7. CASE SweepGone(s)
  <2>1. sweep[s].todo \in SUBSET limit.runs
    BY <1>1, <1>7 DEF InHand, SweepGone
  <2> QED BY <1>6, <1>7, <2>1 DEF SweepGone
<1>8. ASSUME NEW r \in Runs, SweepLock(s, r) PROVE \E w : Good(w)
  <2>1. r \in limit.runs /\ sweep[s].todo \subseteq limit.runs /\ RunSeq(r) \in Nat
    BY <1>1, <1>8, RunSeqType DEF InHand, SweepLock
  <2>2. PICK w : w = IF NothingNew(r) THEN At(s, "meta_read", r)
                 ELSE [pc |-> "snap", todo |-> sweep[s].todo, run |-> r, seq |-> RunSeq(r)]
    OBVIOUS
  <2>3. InHand(w)
    BY <2>1, <2>2 DEF InHand, At
  <2> QED BY <1>8, <2>2, <2>3 DEF SweepLock
<1>9. ASSUME sweep[s].pc \in {"snap", "write"}, NEW r, r = sweep[s].run, sweep' = [sweep EXCEPT ![s] = At(s, "meta_read", r)]
      PROVE  \E w : Good(w)
  <2>1. PICK w : w = At(s, "meta_read", r)
    OBVIOUS
  <2>2. InHand(w) /\ w.pc = "meta_read"
    BY <1>1, <1>9, <2>1 DEF InHand, At
  <2> QED BY <1>9, <2>1, <2>2
<1>10. CASE SweepSnapshot(s)
  <2>1. PICK r : r = sweep[s].run
    OBVIOUS
  <2>2. r \in limit.runs /\ sweep[s].todo \subseteq limit.runs /\ sweep[s].seq \in Nat /\ sweep[s].pc = "snap"
    BY <1>1, <1>10, <2>1 DEF InHand, SweepSnapshot
  <2>3. CASE sweep' = [sweep EXCEPT ![s] = At(s, "meta_read", r)]
    BY <1>9, <2>1, <2>2, <2>3
  <2>4. CASE sweep' = [sweep EXCEPT ![s] = [pc |-> "write", todo |-> sweep[s].todo, run |-> r,
                                            seq |-> sweep[s].seq, frame |-> Snapshot(r)]]
    <3>1. PICK f \in FrameSet : f = Snapshot(r)
      BY <1>1, <2>2, SnapshotFacts
    <3>2. PICK w : w = [pc |-> "write", todo |-> sweep[s].todo, run |-> r, seq |-> sweep[s].seq, frame |-> f]
      OBVIOUS
    <3>3. InHand(w)
      BY <2>2, <3>1, <3>2 DEF InHand
    <3>4. Holds(s)
      BY <2>2 DEF Holds
    <3> QED BY <2>4, <3>1, <3>2, <3>3, <3>4
  <2> QED BY <1>10, <2>1, <2>3, <2>4 DEF SweepSnapshot
<1>11. CASE SweepWrite(s)
  <2>1. PICK r : r = sweep[s].run
    OBVIOUS
  <2> QED BY <1>9, <1>11, <2>1 DEF SweepWrite
<1>12. ASSUME sweep[s].pc \in {"write", "meta_read", "meta_write"}, sweep' = [sweep EXCEPT ![s] = Done(s)]
       PROVE  \E w : Good(w)
  <2>1. sweep[s].todo \ {sweep[s].run} \in SUBSET limit.runs
    BY <1>1, <1>12 DEF InHand
  <2> QED BY <1>6, <1>12, <2>1 DEF Done
<1>13. CASE SweepWriteFails(s) \/ SweepMetaWrite(s) \/ SweepMetaWriteFails(s)
  BY <1>12, <1>13 DEF SweepWriteFails, SweepMetaWrite, SweepMetaWriteFails
<1>14. CASE SweepMetaRead(s)
  <2>1. PICK r : r = sweep[s].run
    OBVIOUS
  <2>2. r \in limit.runs /\ r \in Runs /\ sweep[s].todo \subseteq limit.runs /\ sweep[s].pc = "meta_read"
    BY <1>1, <1>14, <2>1 DEF InHand, SweepMetaRead
  <2>3. PICK b \in {meta_book[r], {}} :
          sweep' = [sweep EXCEPT ![s] =
            IF r \notin Resident \/ sig[r] = Cardinality(MergeCodeMap(b, LiveBook(r))) THEN Done(s)
            ELSE [pc |-> "meta_write", todo |-> sweep[s].todo, run |-> r,
                  book |-> MergeCodeMap(b, LiveBook(r)), max |-> max_idx[r]]]
    BY <1>14, <2>1, Zenon DEF SweepMetaRead
  <2>4. PICK m \in Books : m = MergeCodeMap(b, LiveBook(r))
    BY <2>2, MergedType
  <2>5. max_idx[r] \in Indices
    BY <2>2 DEF TypeInv, SvcTyped
  <2>6. CASE r \notin Resident \/ sig[r] = Cardinality(m)
    <3>1. sweep' = [sweep EXCEPT ![s] = Done(s)]
      BY <2>3, <2>4, <2>6, Zenon
    <3> QED BY <1>12, <2>2, <3>1
  <2>7. CASE ~(r \notin Resident \/ sig[r] = Cardinality(m))
    <3>1. PICK w : w = [pc |-> "meta_write", todo |-> sweep[s].todo, run |-> r, book |-> m, max |-> max_idx[r]]
      OBVIOUS
    <3>2. sweep' = [sweep EXCEPT ![s] = w]
      BY <2>3, <2>4, <2>7, <3>1, Zenon
    <3>3. InHand(w) /\ w.pc = "meta_write"
      BY <2>2, <2>5, <3>1 DEF InHand
    <3> QED BY <3>2, <3>3
  <2> QED BY <2>6, <2>7
<1> QED
  BY <1>4, <1>5, <1>7, <1>8, <1>10, <1>11, <1>13, <1>14 DEF Sweeping

LEMMA InHandSame ==
  ASSUME UNCHANGED limit, NEW w
  PROVE  InHand(w)' <=> InHand(w)
<1>1. FrameSet' = FrameSet
  BY SameSets
<1> QED
  BY <1>1 DEF InHand

LEMMA SweepTypedNext ==
  ASSUME TypeInv, Step, UNCHANGED limit
  PROVE  SweepTyped' /\ LockInv'
<1>1. /\ DOMAIN sweep = Sweepers /\ \A s \in Sweepers : InHand(sweep[s])
      /\ \A s, t \in Sweepers : Holds(s) /\ Holds(t) => s = t
  BY DEF TypeInv, SweepTyped, LockInv
<1>2. CASE UNCHANGED sweep
  <2>1. ASSUME NEW s \in Sweepers PROVE InHand(sweep[s])'
    <3>1. PICK w : w = sweep[s]
      OBVIOUS
    <3>2. InHand(w)'
      BY <1>1, <3>1, InHandSame
    <3> QED BY <1>2, <3>1, <3>2 DEF InHand
  <2> QED BY <1>1, <1>2, <2>1 DEF SweepTyped, LockInv, Holds
<1>3. CASE Crash
  <2>1. sweep' = [s \in Sweepers |-> Idle] /\ Idle.pc = "idle"
    BY <1>3 DEF Crash, Idle
  <2>2. InHand(Idle)'
    BY DEF InHand, Idle
  <2> QED BY <2>1, <2>2 DEF SweepTyped, LockInv, Holds
<1>4. ASSUME NEW s \in Sweepers, Sweeping(s) PROVE SweepTyped' /\ LockInv'
  <2>1. PICK w : /\ sweep' = [sweep EXCEPT ![s] = w] /\ InHand(w)
                 /\ w.pc \in {"snap", "write"} => Holds(s) \/ ~LockHeld
    BY <1>4, SweepMoves
  <2>2. DOMAIN sweep' = Sweepers /\ sweep'[s] = w /\ \A t \in Sweepers : t # s => sweep'[t] = sweep[t]
    BY <1>1, <2>1
  <2>3. ASSUME NEW t \in Sweepers PROVE InHand(sweep[t])'
    <3>1. PICK v : v = sweep'[t]
      OBVIOUS
    <3>2. InHand(v)
      BY <1>1, <2>1, <2>2, <3>1
    <3>3. InHand(v)'
      BY <3>2, InHandSame
    <3> QED BY <3>1, <3>3 DEF InHand
  <2>4. \A t \in Sweepers : t # s /\ Holds(t)' => Holds(t)
    BY <2>2 DEF Holds
  <2>5. Holds(s)' => \A t \in Sweepers : t # s => ~Holds(t)
    BY <1>1, <2>1, <2>2 DEF Holds, LockHeld
  <2>6. LockInv'
    BY <1>1, <2>4, <2>5 DEF LockInv
  <2> QED BY <2>2, <2>3, <2>6 DEF SweepTyped
<1> QED
  BY <1>2, <1>3, <1>4, SweepChanges

LEMMA TypeNext ==
  ASSUME TypeInv, Step, UNCHANGED limit
  PROVE  TypeInv'
BY StoreTypedNext, HotTypedNext, SvcTypedNext, WorldTypedNext, PollTypedNext, SweepTypedNext, Zenon DEF TypeInv

LEMMA TypeStutter ==
  ASSUME TypeInv, UNCHANGED vars
  PROVE  TypeInv'
<1>1. UNCHANGED limit /\ UNCHANGED <<store, hot, svc, poll, sweep, world>>
  BY DEF vars
<1>2. FrameSet' = FrameSet /\ Slabs' = Slabs
  BY <1>1, SameSets
<1>3. StoreTyped'
  BY <1>1, <1>2 DEF TypeInv, StoreTyped, store
<1>4. HotTyped'
  BY <1>1, <1>2 DEF TypeInv, HotTyped, hot, Empty, Resident
<1>5. SvcTyped'
  BY <1>1 DEF TypeInv, SvcTyped, svc
<1>6. WorldTyped'
  BY <1>1, <1>2 DEF TypeInv, WorldTyped, world
<1>7. PollTyped'
  BY <1>1 DEF TypeInv, PollTyped, world
<1>8. SweepTyped'
  <2>1. ASSUME NEW s \in Sweepers PROVE InHand(sweep[s])'
    <3>1. PICK w : w = sweep[s]
      OBVIOUS
    <3>2. InHand(w)'
      BY <1>1, <3>1, InHandSame DEF TypeInv, SweepTyped
    <3> QED BY <1>1, <3>1, <3>2 DEF InHand
  <2> QED BY <1>1, <2>1 DEF TypeInv, SweepTyped
<1>9. LockInv'
  BY <1>1 DEF TypeInv, LockInv, Holds
<1> QED
  BY <1>3, <1>4, <1>5, <1>6, <1>7, <1>8, <1>9 DEF TypeInv

LEMMA TypeInit ==
  ASSUME Init
  PROVE  TypeInv
<1>1. limit \in Limits /\ limit.updates \in Nat /\ MaxRuns \in Nat
  BY LimitType DEF Init
<1>2. <<>> \in Seq(FrameSet) /\ {} \in Books /\ Unset \in Indices /\ NoPositions \in Slabs
  BY <1>1, EmptyBook, NoPositionsType DEF Indices
<1>3. StoreTyped
  BY <1>2 DEF Init, StoreTyped
<1>4. HotTyped
  BY <1>1, <1>2 DEF Init, HotTyped, Distinct, Empty
<1>5. SvcTyped
  BY <1>2 DEF Init, SvcTyped
<1>6. WorldTyped
  BY <1>1, <1>2 DEF Init, WorldTyped
<1>7. PollTyped
  BY DEF Init, PollTyped, Idle
<1>8. SweepTyped /\ LockInv
  <2>1. sweep = [s \in Sweepers |-> Idle] /\ Idle.pc = "idle"
    BY DEF Init, Idle
  <2>2. InHand(Idle)
    BY <2>1 DEF InHand
  <2> QED BY <2>1, <2>2 DEF SweepTyped, LockInv, Holds
<1> QED
  BY <1>3, <1>4, <1>5, <1>6, <1>7, <1>8 DEF TypeInv

-----------------------------------------------------------------------------
(* The end of a run.                                                       *)

LEMMA FinishInit ==
  ASSUME Init
  PROVE  FinishInv
BY DEF Init, FinishInv, Idle

LEMMA FinishNext ==
  ASSUME TypeInv, FinishInv, Step
  PROVE  FinishInv'
<1>1. /\ terminal \in [Runs -> {"none", "sent", "done"}] /\ crashes \in Nat
      /\ poll.pc # "idle" => poll.run \in Runs
  BY LimitType DEF TypeInv, WorldTyped, PollTyped
<1>2. ASSUME NEW s \in Sweepers, Sweeping(s) PROVE FinishInv'
  <2>1. UNCHANGED <<poll, finalized, terminal, crashes>>
    BY <1>2 DEF Sweeping, SweepKnown, SweepResident, SweepGone, SweepLock, SweepSnapshot, SweepWrite,
      SweepWriteFails, SweepMetaRead, SweepMetaWrite, SweepMetaWriteFails, world, svc
  <2> QED BY <2>1 DEF FinishInv
<1>3. ASSUME NEW r \in Runs, NEW k \in Trucks, AdmitKnown(r, k) \/ AdmitRestored(r, k) \/ AdmitUnread(r, k)
      PROVE  FinishInv'
  <2>1. /\ UNCHANGED <<finalized, terminal, crashes>> /\ r \notin finalized
        /\ poll' = [pc |-> "update", run |-> r, truck |-> k]
    BY <1>3 DEF AdmitKnown, AdmitRestored, AdmitUnread, world, svc
  <2> QED BY <2>1 DEF FinishInv
<1>4. ASSUME NEW r \in Runs, TerminalArrives(r) \/ FinalCapture(r) \/ FinalCaptureFails(r)
      PROVE  FinishInv'
  <2>1. UNCHANGED <<finalized, crashes>>
    BY <1>4 DEF TerminalArrives, FinalCapture, FinalCaptureFails, svc
  <2>2. terminal' = terminal \/ terminal' = [terminal EXCEPT ![r] = "sent"]
    BY <1>4 DEF TerminalArrives, FinalCapture, FinalCaptureFails, Terminal
  <2>3. poll' = poll \/ poll' = [pc |-> "meta_read", run |-> r]
    BY <1>4 DEF TerminalArrives, FinalCapture, FinalCaptureFails
  <2>4. \A q \in Runs : terminal'[q] = "done" => terminal[q] = "done"
    BY <1>1, <2>2
  <2> QED BY <2>1, <2>3, <2>4 DEF FinishInv
<1>5. CASE Update
  BY <1>5 DEF FinishInv, Update, svc
<1>6. CASE Bump
  BY <1>6 DEF FinishInv, Bump, Idle, world
<1>7. CASE Crash
  BY <1>1, <1>7 DEF FinishInv, Crash, Idle
<1>8. CASE FinalMetaRead \/ FinalMetaWrite \/ FinalMetaWriteFails \/ MarkFinalized
  BY <1>8 DEF FinishInv, FinalMetaRead, FinalMetaWrite, FinalMetaWriteFails, MarkFinalized, Idle, world, svc
<1>9. CASE EvictRun \/ ForgetRun
  <2>1. poll.run \in finalized /\ poll.run \in Runs /\ UNCHANGED <<finalized, crashes>>
    BY <1>1, <1>9 DEF FinishInv, EvictRun, ForgetRun, svc
  <2>2. terminal' = terminal \/ terminal' = [terminal EXCEPT ![poll.run] = "done"]
    BY <1>9 DEF EvictRun, ForgetRun
  <2>3. poll' = Idle \/ poll' = [pc |-> "forget", run |-> poll.run]
    BY <1>9 DEF EvictRun, ForgetRun
  <2>4. \A q \in Runs : terminal'[q] = "done" => terminal[q] = "done" \/ q = poll.run
    BY <1>1, <2>1, <2>2
  <2> QED BY <2>1, <2>3, <2>4 DEF FinishInv, Idle
<1> QED
  BY <1>2, <1>3, <1>4, <1>5, <1>6, <1>7, <1>8, <1>9 DEF Step, Finalizing

-----------------------------------------------------------------------------
(* What a thread has in its hands came from the state it read.             *)

\* A sweep thread starts to write what it has snapshot, and a book it has merged.
LEMMA SweepHands ==
  ASSUME TypeInv, NEW s \in Sweepers, Sweeping(s)
  PROVE  /\ \A t \in Sweepers : t # s => sweep'[t] = sweep[t]
         /\ sweep'[s].pc = "snap" => /\ ~LockHeld
                                     /\ sweep'[s].seq = RunSeq(sweep'[s].run)
                                     /\ UNCHANGED <<store, hot, svc, poll, world>>
         /\ sweep'[s].pc = "write" =>
              /\ SweepSnapshot(s) /\ sweep[s].pc = "snap"
              /\ sweep'[s].run = sweep[s].run /\ sweep'[s].seq = sweep[s].seq
              /\ sweep[s].run \in Resident /\ ~Empty(sweep[s].run)
              /\ sweep'[s].frame = Snapshot(sweep[s].run)
              /\ counter' = [counter EXCEPT ![sweep[s].run] = @ + 1] /\ UNCHANGED captured
         /\ sweep'[s].pc = "meta_write" =>
              /\ SweepMetaRead(s) /\ sweep'[s].run = sweep[s].run /\ sweep[s].run \in Resident
              /\ \E b \in {meta_book[sweep[s].run], {}} :
                   /\ BookOnDisk(sweep[s].run, b)
                   /\ sweep'[s].book = MergeCodeMap(b, LiveBook(sweep[s].run))
<1>1. DOMAIN sweep = Sweepers /\ limit \in Limits
  BY DEF TypeInv, SweepTyped, WorldTyped
<1>2. \A t \in Sweepers : t # s => sweep'[t] = sweep[t]
  <2>1. PICK w : sweep' = [sweep EXCEPT ![s] = w]
    BY SweepMoves
  <2> QED BY <1>1, <2>1
<1>3. ASSUME NEW w, sweep' = [sweep EXCEPT ![s] = w] PROVE sweep'[s] = w
  BY <1>1, <1>3
<1>4. \A todo : NextRun(todo).pc \in {"idle", "next"}
  BY DEF NextRun, Idle
<1>5. CASE SweepKnown(s) \/ SweepResident(s)
  <2>1. sweep'[s].pc \in {"resident", "gone"}
    BY <1>1, <1>5 DEF SweepKnown, SweepResident
  <2> QED BY <1>2, <2>1
<1>6. ASSUME NEW w, sweep' = [sweep EXCEPT ![s] = w], w.pc \in {"idle", "next", "meta_read"}
      PROVE  sweep'[s].pc \notin {"snap", "write", "meta_write"}
  BY <1>3, <1>6
<1>7. \A r : At(s, "meta_read", r).pc = "meta_read"
  BY DEF At
<1>8. CASE SweepGone(s)
  <2>1. sweep' = [sweep EXCEPT ![s] = NextRun(sweep[s].todo)]
    BY <1>8 DEF SweepGone
  <2>2. PICK w : w = NextRun(sweep[s].todo)
    OBVIOUS
  <2>3. sweep'[s].pc \notin {"snap", "write", "meta_write"}
    BY <1>4, <1>6, <2>1, <2>2
  <2> QED BY <1>2, <2>3
<1>9. ASSUME NEW r \in Runs, SweepLock(s, r)
      PROVE  /\ sweep'[s].pc \notin {"write", "meta_write"}
             /\ sweep'[s].pc = "snap" => /\ ~LockHeld
                                         /\ sweep'[s].seq = RunSeq(sweep'[s].run)
                                         /\ UNCHANGED <<store, hot, svc, poll, world>>
  <2>1. PICK w : w = IF NothingNew(r) THEN At(s, "meta_read", r)
                 ELSE [pc |-> "snap", todo |-> sweep[s].todo, run |-> r, seq |-> RunSeq(r)]
    OBVIOUS
  <2>2. sweep'[s] = w
    BY <1>3, <1>9, <2>1 DEF SweepLock
  <2>3. w.pc \notin {"write", "meta_write"} /\ (w.pc = "snap" => w.seq = RunSeq(w.run))
    BY <1>7, <2>1
  <2> QED BY <1>9, <2>2, <2>3 DEF SweepLock
<1>10. CASE SweepSnapshot(s)
  <2>1. PICK r : r = sweep[s].run
    OBVIOUS
  <2>2. CASE sweep' = [sweep EXCEPT ![s] = At(s, "meta_read", r)]
    <3>1. PICK w : w = At(s, "meta_read", r)
      OBVIOUS
    <3>2. sweep'[s].pc = "meta_read"
      BY <1>3, <1>7, <2>2, <3>1
    <3> QED BY <1>2, <3>2
  <2>3. CASE /\ sweep' = [sweep EXCEPT ![s] = [pc |-> "write", todo |-> sweep[s].todo, run |-> r,
                                               seq |-> sweep[s].seq, frame |-> Snapshot(r)]]
             /\ r \in Resident /\ ~Empty(r) /\ UNCHANGED captured /\ sweep[s].pc = "snap"
             /\ counter' = [counter EXCEPT ![r] = @ + 1]
    <3>1. PICK f : f = Snapshot(r)
      OBVIOUS
    <3>2. PICK w : w = [pc |-> "write", todo |-> sweep[s].todo, run |-> r, seq |-> sweep[s].seq, frame |-> f]
      OBVIOUS
    <3>3. sweep'[s] = w
      BY <1>3, <2>3, <3>1, <3>2
    <3>4. w.pc = "write" /\ w.run = r /\ w.seq = sweep[s].seq /\ w.frame = f
      BY <3>2
    <3> QED BY <1>2, <1>10, <2>1, <2>3, <3>1, <3>3, <3>4
  <2> QED BY <1>10, <2>1, <2>2, <2>3 DEF SweepSnapshot
<1>11. CASE SweepWrite(s)
  <2>1. PICK w : w = At(s, "meta_read", sweep[s].run)
    OBVIOUS
  <2>2. sweep' = [sweep EXCEPT ![s] = w]
    BY <1>11, <2>1 DEF SweepWrite
  <2>3. sweep'[s].pc = "meta_read"
    BY <1>3, <1>7, <2>1, <2>2
  <2> QED BY <1>2, <2>3
<1>12. ASSUME sweep' = [sweep EXCEPT ![s] = Done(s)] PROVE sweep'[s].pc \notin {"snap", "write", "meta_write"}
  <2>1. PICK w : w = Done(s)
    OBVIOUS
  <2>2. w.pc \in {"idle", "next"}
    BY <1>4, <2>1 DEF Done
  <2> QED BY <1>6, <1>12, <2>1, <2>2
<1>13. CASE SweepWriteFails(s) \/ SweepMetaWrite(s) \/ SweepMetaWriteFails(s)
  <2>1. sweep'[s].pc \notin {"snap", "write", "meta_write"}
    BY <1>12, <1>13 DEF SweepWriteFails, SweepMetaWrite, SweepMetaWriteFails
  <2> QED BY <1>2, <2>1
<1>14. CASE SweepMetaRead(s)
  <2>1. PICK r : r = sweep[s].run
    OBVIOUS
  <2>2. PICK b \in {meta_book[r], {}} :
          /\ BookOnDisk(r, b)
          /\ sweep' = [sweep EXCEPT ![s] =
            IF r \notin Resident \/ sig[r] = Cardinality(MergeCodeMap(b, LiveBook(r))) THEN Done(s)
            ELSE [pc |-> "meta_write", todo |-> sweep[s].todo, run |-> r,
                  book |-> MergeCodeMap(b, LiveBook(r)), max |-> max_idx[r]]]
    BY <1>14, <2>1, Zenon DEF SweepMetaRead
  <2>3. PICK m : m = MergeCodeMap(b, LiveBook(r))
    OBVIOUS
  <2>4. CASE r \notin Resident \/ sig[r] = Cardinality(m)
    <3>1. sweep' = [sweep EXCEPT ![s] = Done(s)]
      BY <2>2, <2>3, <2>4, Zenon
    <3> QED BY <1>2, <1>12, <3>1
  <2>5. CASE ~(r \notin Resident \/ sig[r] = Cardinality(m))
    <3>1. PICK w : w = [pc |-> "meta_write", todo |-> sweep[s].todo, run |-> r, book |-> m, max |-> max_idx[r]]
      OBVIOUS
    <3>2. sweep' = [sweep EXCEPT ![s] = w]
      BY <2>2, <2>3, <2>5, <3>1, Zenon
    <3>3. sweep'[s] = w
      BY <1>3, <3>2
    <3>4. w.pc = "meta_write" /\ w.run = r /\ w.book = m
      BY <3>1
    <3> QED BY <1>2, <1>14, <2>1, <2>2, <2>3, <2>5, <3>3, <3>4
  <2> QED BY <2>4, <2>5
<1> QED
  BY <1>2, <1>5, <1>8, <1>9, <1>10, <1>11, <1>13, <1>14 DEF Sweeping

LEMMA MetaChanges ==
  ASSUME Step
  PROVE  \/ UNCHANGED <<meta_book, meta_max, sig>>
         \/ Crash \/ FinalMetaWrite \/ \E s \in Sweepers : SweepMetaWrite(s)
<1>1. ASSUME NEW r \in Runs, NEW k \in Trucks, AdmitKnown(r, k) \/ AdmitRestored(r, k) \/ AdmitUnread(r, k)
      PROVE  UNCHANGED <<meta_book, meta_max, sig>>
  BY <1>1 DEF AdmitKnown, AdmitRestored, AdmitUnread, store, svc
<1>2. ASSUME NEW r \in Runs, TerminalArrives(r) \/ FinalCapture(r) \/ FinalCaptureFails(r)
      PROVE  UNCHANGED <<meta_book, meta_max, sig>>
  BY <1>2 DEF TerminalArrives, FinalCapture, FinalCaptureFails, store, svc
<1>3. CASE Update \/ Bump
  BY <1>3 DEF Update, Bump, store, svc
<1>4. CASE FinalMetaRead \/ FinalMetaWriteFails \/ MarkFinalized \/ EvictRun \/ ForgetRun
  BY <1>4 DEF FinalMetaRead, FinalMetaWriteFails, MarkFinalized, EvictRun, ForgetRun, store, svc
<1>5. ASSUME NEW s \in Sweepers, Sweeping(s)
      PROVE  UNCHANGED <<meta_book, meta_max, sig>> \/ SweepMetaWrite(s)
  BY <1>5 DEF Sweeping, SweepKnown, SweepResident, SweepGone, SweepLock, SweepSnapshot, SweepWrite,
    SweepWriteFails, SweepMetaRead, SweepMetaWriteFails, store, svc
<1> QED
  BY <1>1, <1>2, <1>3, <1>4, <1>5, Zenon DEF Step, Finalizing

\* The frames of a run are added to by its two producers alone.
LEMMA FrameChanges ==
  ASSUME TypeInv, Step
  PROVE  \/ UNCHANGED frames
         \/ \E r \in Runs : FinalCapture(r) /\ FrameWritten(r, Snapshot(r), RunSeq(r))
         \/ \E s \in Sweepers : SweepWrite(s)
<1>1. CASE UNCHANGED store
  BY <1>1 DEF store
<1>2. ASSUME NEW r \in Runs, FinalCapture(r)
      PROVE  UNCHANGED frames \/ FrameWritten(r, Snapshot(r), RunSeq(r))
  BY <1>2, FinalCaptureCases
<1>3. CASE FinalMetaWrite
  BY <1>3 DEF FinalMetaWrite
<1>4. ASSUME NEW s \in Sweepers, SweepMetaWrite(s) PROVE UNCHANGED frames
  BY <1>4 DEF SweepMetaWrite
<1> QED
  BY <1>1, <1>2, <1>3, <1>4, StoreChanges, Zenon

LEMMA RowsWritten ==
  ASSUME TypeInv, NEW r \in Runs, NEW f \in FrameSet, NEW q \in Nat, FrameWritten(r, f, q)
  PROVE  /\ Rows(r)' = Rows(r) \cup f.rows
         /\ \A p \in Runs : p # r => Rows(p)' = Rows(p)
<1>1. \A p \in Runs : p # r => frames'[p] = frames[p]
  BY WrittenFrames
<1>2. PICK n \in Nat : n = Len(frames[r])
  BY FrameAt DEF TypeInv
<1>3. Len(frames'[r]) = n + 1 /\ frames'[r][n + 1] = f /\ \A i \in 1 .. n : frames'[r][i] = frames[r][i]
  BY <1>2, WrittenFrames
<1>4. \A x : x \in Rows(r) <=> \E i \in 1 .. n : x \in frames[r][i].rows
  BY <1>2 DEF Rows
<1>5. \A x : x \in Rows(r)' <=> \E i \in 1 .. n + 1 : x \in frames'[r][i].rows
  BY <1>3 DEF Rows
<1>6. \A i \in 1 .. n + 1 : i \in 1 .. n \/ i = n + 1
  OBVIOUS
<1>7. \A x : x \in Rows(r)' <=> x \in Rows(r) \cup f.rows
  <2>1. \A x : x \in Rows(r)' => x \in Rows(r) \cup f.rows
    BY <1>3, <1>4, <1>5, <1>6
  <2>2. \A x \in Rows(r) : x \in Rows(r)'
    <3>1. \A i \in 1 .. n : i \in 1 .. n + 1
      OBVIOUS
    <3> QED BY <1>3, <1>4, <1>5, <3>1
  <2>3. \A x \in f.rows : x \in Rows(r)'
    <3>1. n + 1 \in 1 .. n + 1
      OBVIOUS
    <3> QED BY <1>3, <1>5, <3>1
  <2> QED BY <2>1, <2>2, <2>3
<1>8. Rows(r)' = Rows(r) \cup f.rows
  BY <1>7, Zenon
<1>9. \A p \in Runs : p # r => Rows(p)' = Rows(p)
  BY <1>1 DEF Rows
<1> QED
  BY <1>8, <1>9

-----------------------------------------------------------------------------
(* The first process.                                                      *)

\* Nothing is restored before the first restart, and books only grow.
LEMMA BooksGrow ==
  ASSUME TypeInv, FirstProcess, Step, UNCHANGED limit, crashes' = 0
  PROVE  /\ crashes = 0 /\ ~Crash
         /\ \A r \in Runs, k \in Trucks : ~AdmitRestored(r, k)
         /\ \A r \in Runs : book[r] \subseteq book'[r]
<1>1. crashes = 0 /\ ~Crash
  <2>1. crashes \in Nat /\ crashes' >= crashes
    BY WorldTypedNext DEF TypeInv, WorldTyped
  <2>2. Crash => crashes' = crashes + 1
    BY DEF Crash
  <2> QED BY <2>1, <2>2
<1>2. \A r \in Runs, k \in Trucks : ~AdmitRestored(r, k)
  BY <1>1 DEF FirstProcess, AdmitRestored
<1>3. book \in [Runs -> Books]
  BY DEF TypeInv, HotTyped
<1>4. CASE Update
  <2>1. PICK r, k : r = poll.run /\ k = poll.truck
    OBVIOUS
  <2>2. r \in limit.runs /\ k \in Trucks /\ book' = [book EXCEPT ![r] = WithTruck(book[r], k)]
    BY <1>4, <2>1, UpdateSeats
  <2>3. limit.runs \subseteq Runs
    BY LimitType DEF TypeInv, WorldTyped
  <2>4. book[r] \subseteq WithTruck(book[r], k)
    BY <1>3, <2>2, <2>3, WithTruckBook
  <2> QED BY <1>1, <1>2, <1>3, <2>2, <2>4
<1>5. CASE ~Update
  <2>1. UNCHANGED book
    BY <1>1, <1>2, <1>5, HotChanges DEF hot, FinalCapture, EvictRun, SweepSnapshot, SweepWriteFails
  <2> QED BY <1>1, <1>2, <2>1
<1> QED
  BY <1>4, <1>5

LEMMA FirstProcessInit ==
  ASSUME Init
  PROVE  FirstProcess
BY DEF Init, FirstProcess, Idle, Resident, Rows

LEMMA FirstProcessNext ==
  ASSUME TypeInv, FirstProcess, Step, UNCHANGED limit
  PROVE  FirstProcess'
<1> SUFFICES ASSUME crashes' = 0 PROVE FirstProcess'
  BY DEF FirstProcess
<1>1. /\ crashes = 0 /\ ~Crash /\ \A r \in Runs, k \in Trucks : ~AdmitRestored(r, k)
      /\ \A r \in Runs : book[r] \subseteq book'[r]
  BY BooksGrow
<1>2. /\ book \in [Runs -> Books] /\ meta_book \in [Runs -> Books] /\ limit.runs \subseteq Runs
      /\ limit.updates \in Nat /\ ver \in Nat
  BY LimitType DEF TypeInv, HotTyped, StoreTyped, WorldTyped
<1>3. /\ \A r \in Runs :
           /\ meta_book[r] \subseteq book[r]
           /\ sig[r] = Unset => meta_book[r] = {} /\ meta_max[r] = Unset
           /\ r \in Resident => ~Empty(r)
           /\ \A row \in Rows(r) : <<row[1], row[2]>> \in book[r]
      /\ poll.pc = "meta_write" => poll.book \subseteq book[poll.run]
      /\ \A s \in Sweepers :
           /\ sweep[s].pc = "meta_write" => sweep[s].book \subseteq book[sweep[s].run]
           /\ sweep[s].pc = "write" =>
                \A row \in sweep[s].frame.rows : <<row[1], row[2]>> \in book[sweep[s].run]
  BY <1>1 DEF FirstProcess
<1>4. \A r \in Runs : meta_book'[r] \subseteq book'[r] /\ (sig'[r] = Unset => meta_book'[r] = {} /\ meta_max'[r] = Unset)
  <2>1. CASE UNCHANGED <<meta_book, meta_max, sig>>
    BY <1>1, <1>3, <2>1
  <2>2. ASSUME NEW r \in Runs, NEW b \in Books, NEW m \in Indices, UpsertRunMeta(r, b, m), b \subseteq book[r]
        PROVE  \A q \in Runs : meta_book'[q] \subseteq book'[q] /\ (sig'[q] = Unset => meta_book'[q] = {} /\ meta_max'[q] = Unset)
    <3>1. /\ sig'[r] # Unset
          /\ meta_book'[r] = IF b # {} THEN b ELSE meta_book[r]
          /\ \A q \in Runs : q # r => /\ meta_book'[q] = meta_book[q] /\ meta_max'[q] = meta_max[q]
                                      /\ sig'[q] = sig[q]
      BY <2>2, RunMetaTyped
    <3> QED BY <1>1, <1>3, <2>2, <3>1
  <2>3. CASE FinalMetaWrite
    <3>1. poll.run \in Runs /\ poll.book \in Books /\ poll.max \in Indices /\ poll.book \subseteq book[poll.run]
      BY <1>2, <1>3, <2>3 DEF TypeInv, PollTyped, FinalMetaWrite
    <3> QED BY <2>2, <2>3, <3>1 DEF FinalMetaWrite
  <2>4. ASSUME NEW s \in Sweepers, SweepMetaWrite(s)
        PROVE  \A q \in Runs : meta_book'[q] \subseteq book'[q] /\ (sig'[q] = Unset => meta_book'[q] = {} /\ meta_max'[q] = Unset)
    <3>1. sweep[s].run \in Runs /\ sweep[s].book \in Books /\ sweep[s].max \in Indices
          /\ sweep[s].book \subseteq book[sweep[s].run]
      BY <1>2, <1>3, <2>4 DEF TypeInv, SweepTyped, InHand, SweepMetaWrite
    <3> QED BY <2>2, <2>4, <3>1 DEF SweepMetaWrite
  <2> QED BY <1>1, <2>1, <2>3, <2>4, MetaChanges
<1>5. \A r \in Runs : r \in Resident' => slab'[r] # NoPositions
  <2>1. CASE UNCHANGED <<lru, slab>>
    BY <1>3, <2>1 DEF Resident, Empty
  <2>2. CASE Update
    <3>1. PICK r, k : r = poll.run /\ k = poll.truck
      OBVIOUS
    <3>2. /\ r \in limit.runs /\ k \in Trucks /\ Seats(r) /\ DropsOthers(r)
          /\ slab'[r] = [slab[r] EXCEPT ![k] = ver + 1]
      BY <2>2, <3>1, UpdateSeats
    <3>3. slab'[r] # NoPositions
      <4>1. slab[r] \in Slabs
        BY <1>2, <3>2 DEF TypeInv, HotTyped
      <4>2. slab'[r][k] = ver + 1
        BY <3>2, <4>1 DEF Slabs
      <4> QED BY <1>2, <3>2, <4>2 DEF NoPositions
    <3>4. \A q \in Runs : q # r /\ q \in Resident' => slab'[q] = slab[q] /\ q \in Resident
      BY <3>2 DEF Seats, DropsOthers
    <3> QED BY <1>3, <3>3, <3>4 DEF Empty
  <2>3. CASE EvictRun
    <3>1. PICK r : r = poll.run
      OBVIOUS
    <3>2. /\ Resident' = Resident \ {r}
          /\ slab' = [q \in Runs |-> IF q = r THEN NoPositions ELSE slab[q]]
      BY <2>3, <3>1, EvictSeats
    <3> QED BY <1>3, <3>2 DEF Empty
  <2> QED BY <1>1, <2>1, <2>2, <2>3, HotChanges DEF hot, FinalCapture, SweepSnapshot, SweepWriteFails
<1>6. \A r \in Runs : \A row \in Rows(r)' : <<row[1], row[2]>> \in book'[r]
  <2>1. CASE UNCHANGED frames
    <3>1. \A r \in Runs : Rows(r)' = Rows(r)
      BY <2>1 DEF Rows
    <3> QED BY <1>1, <1>3, <3>1
  <2>2. ASSUME NEW r \in Runs, NEW f \in FrameSet, NEW q \in Nat, FrameWritten(r, f, q),
               \A row \in f.rows : <<row[1], row[2]>> \in book[r]
        PROVE  \A p \in Runs : \A row \in Rows(p)' : <<row[1], row[2]>> \in book'[p]
    <3>1. Rows(r)' = Rows(r) \cup f.rows /\ \A p \in Runs : p # r => Rows(p)' = Rows(p)
      BY <2>2, RowsWritten
    <3> QED BY <1>1, <1>3, <2>2, <3>1
  <2>3. ASSUME NEW r \in Runs, FrameWritten(r, Snapshot(r), RunSeq(r))
        PROVE  \A p \in Runs : \A row \in Rows(p)' : <<row[1], row[2]>> \in book'[p]
    BY <2>2, <2>3, SnapshotFacts, RunSeqType
  <2>4. ASSUME NEW s \in Sweepers, SweepWrite(s)
        PROVE  \A p \in Runs : \A row \in Rows(p)' : <<row[1], row[2]>> \in book'[p]
    <3>1. sweep[s].run \in Runs /\ sweep[s].frame \in FrameSet /\ sweep[s].seq \in Nat
      BY <1>2, <2>4 DEF TypeInv, SweepTyped, InHand, SweepWrite
    <3> QED BY <1>3, <2>2, <2>4, <3>1 DEF SweepWrite
  <2> QED BY <2>1, <2>3, <2>4, FrameChanges
<1>7. poll'.pc = "meta_write" => poll'.book \subseteq book'[poll'.run]
  <2>1. CASE UNCHANGED poll
    <3>1. poll.pc = "meta_write" => poll.run \in Runs
      BY <1>2 DEF TypeInv, PollTyped
    <3> QED BY <1>1, <1>3, <2>1, <3>1
  <2>2. CASE FinalMetaRead
    <3>1. PICK r \in Runs : r = poll.run
      BY <1>2, <2>2 DEF TypeInv, PollTyped, FinalMetaRead
    <3>2. PICK b \in {meta_book[r], {}} :
            poll' = [pc |-> "meta_write", run |-> r, book |-> MergeCodeMap(b, LiveBook(r)), max |-> max_idx[r]]
      BY <2>2, <3>1 DEF FinalMetaRead
    <3>3. PICK m : m = MergeCodeMap(b, LiveBook(r))
      OBVIOUS
    <3>4. m \subseteq book[r]
      BY <1>3, <3>3, MergedType DEF LiveBook
    <3> QED BY <1>1, <3>2, <3>3, <3>4
  <2>3. poll'.pc = "meta_write" => UNCHANGED poll \/ FinalMetaRead
    BY <1>1, PollChanges DEF Finalizing, AdmitKnown, AdmitUnread, FinalCapture, Update, Bump, FinalMetaWrite,
      FinalMetaWriteFails, MarkFinalized, EvictRun, ForgetRun, Idle
  <2> QED BY <2>1, <2>2, <2>3
<1>8. ASSUME NEW s \in Sweepers
      PROVE  /\ sweep'[s].pc = "meta_write" => sweep'[s].book \subseteq book'[sweep'[s].run]
             /\ sweep'[s].pc = "write" =>
                  \A row \in sweep'[s].frame.rows : <<row[1], row[2]>> \in book'[sweep'[s].run]
  <2>1. sweep[s].pc \in {"meta_write", "write"} => sweep[s].run \in Runs
    BY <1>2 DEF TypeInv, SweepTyped, InHand
  <2>2. CASE sweep'[s] = sweep[s]
    BY <1>1, <1>3, <2>1, <2>2
  <2>3. CASE Sweeping(s)
    <3>1. sweep'[s].pc = "meta_write" => sweep'[s].book \subseteq book'[sweep'[s].run]
      <4> SUFFICES ASSUME sweep'[s].pc = "meta_write" PROVE sweep'[s].book \subseteq book'[sweep'[s].run]
        OBVIOUS
      <4>1. PICK r : r = sweep[s].run /\ r = sweep'[s].run /\ SweepMetaRead(s)
        BY <2>3, SweepHands
      <4>2. r \in Runs
        BY <1>2, <4>1 DEF TypeInv, SweepTyped, InHand, SweepMetaRead
      <4>3. PICK b \in {meta_book[r], {}} : sweep'[s].book = MergeCodeMap(b, LiveBook(r))
        BY <2>3, <4>1, SweepHands
      <4>4. MergeCodeMap(b, LiveBook(r)) \subseteq book[r]
        BY <1>3, <4>2, MergedType DEF LiveBook
      <4> QED BY <1>1, <4>1, <4>2, <4>3, <4>4
    <3>2. sweep'[s].pc = "write" =>
                  \A row \in sweep'[s].frame.rows : <<row[1], row[2]>> \in book'[sweep'[s].run]
      <4> SUFFICES ASSUME sweep'[s].pc = "write"
                   PROVE  \A row \in sweep'[s].frame.rows : <<row[1], row[2]>> \in book'[sweep'[s].run]
        OBVIOUS
      <4>1. PICK r : r = sweep[s].run /\ r = sweep'[s].run /\ sweep'[s].frame = Snapshot(r) /\ SweepSnapshot(s)
        BY <2>3, SweepHands
      <4>2. r \in Runs
        BY <1>2, <4>1 DEF TypeInv, SweepTyped, InHand, SweepSnapshot
      <4> QED BY <1>1, <4>1, <4>2, SnapshotFacts
    <3> QED BY <3>1, <3>2
  <2>4. sweep'[s] = sweep[s] \/ Sweeping(s)
    BY <1>1, SweepChanges, SweepHands
  <2> QED BY <2>2, <2>3, <2>4
<1> QED
  BY <1>4, <1>5, <1>6, <1>7, <1>8 DEF FirstProcess, Empty, NoPositions

-----------------------------------------------------------------------------
(* Slots, across restarts.                                                 *)

LEMMA RestoredInit ==
  ASSUME Init
  PROVE  Restored /\ BooksInject
BY DEF Init, Restored, BooksInject, Inject, Idle, Resident

\* Books change when the hot tier admits a run, and are gone after a restart.
LEMMA BookChanges ==
  ASSUME Step
  PROVE  \/ UNCHANGED <<book, lru>> \/ Update \/ Crash \/ (UNCHANGED book /\ EvictRun)
         \/ \E r \in Runs, k \in Trucks : AdmitRestored(r, k)
BY HotChanges DEF hot, FinalCapture, EvictRun, SweepSnapshot, SweepWriteFails

LEMMA RestoredChanges ==
  ASSUME Step
  PROVE  \/ UNCHANGED restored \/ Crash
         \/ \E r \in Runs, k \in Trucks : AdmitKnown(r, k) \/ AdmitRestored(r, k)
BY SvcChanges DEF svc, FinalCapture, Bump, FinalMetaWrite, MarkFinalized, ForgetRun, SweepGone, SweepSnapshot,
  SweepWrite, SweepMetaWrite

\* A run that is restored takes what the disk knows.
LEMMA RestoredBook ==
  ASSUME TypeInv, Restored, faults = 0, NEW r \in Runs, NEW k, AdmitRestored(r, k)
  PROVE  /\ book' = [book EXCEPT ![r] = meta_book[r]] /\ book[r] = {}
         /\ Resident' \subseteq Resident \cup {r}
<1>1. r \notin Resident /\ book[r] = {}
  BY DEF AdmitRestored, Restored
<1>2. book' = [book EXCEPT ![r] = CreatedBook(r, meta_book[r])] /\ Resident' \subseteq Resident \cup {r}
  BY <1>1, RestoreSeats DEF Seats
<1>3. CreatedBook(r, meta_book[r]) = meta_book[r]
  BY <1>1 DEF CreatedBook
<1> QED
  BY <1>1, <1>2, <1>3

LEMMA NoRefusal ==
  ASSUME TypeInv, Step, faults' = 0
  PROVE  faults = 0 /\ ~Fault
<1>1. faults \in Nat /\ faults' >= faults
  BY FaultsGrow DEF TypeInv, WorldTyped
<1> QED
  BY <1>1 DEF Fault

\* What was restored stays so, its book only grows, and nothing else is resident.
Keeps ==
  \A r \in Runs :
    /\ r \in restored => r \in restored' /\ book[r] \subseteq book'[r]
    /\ r \notin restored' => book'[r] = {} /\ r \notin Resident'
    /\ r \in restored' /\ r \notin restored => meta_book[r] \subseteq book'[r] /\ poll.pc = "idle"

LEMMA RestoredKeeps ==
  ASSUME TypeInv, Restored, Step, UNCHANGED limit, faults' = 0, ~Crash
  PROVE  Keeps
<1>1. faults = 0 /\ ~Fault
  BY NoRefusal
<1>2. book \in [Runs -> Books] /\ meta_book \in [Runs -> Books] /\ limit.runs \subseteq Runs /\ restored \subseteq Runs
  BY LimitType DEF TypeInv, HotTyped, StoreTyped, WorldTyped, SvcTyped
<1>3. /\ \A r \in Runs : r \notin restored => book[r] = {} /\ r \notin Resident
      /\ poll.pc = "update" => poll.run \in restored
  BY <1>1 DEF Restored
<1>4. CASE Update
  <2>1. PICK r, k : r = poll.run /\ k = poll.truck
    OBVIOUS
  <2>2. /\ r \in Runs /\ k \in Trucks /\ book' = [book EXCEPT ![r] = WithTruck(book[r], k)]
        /\ Resident' \subseteq Resident \cup {r} /\ r \in restored /\ restored' = restored
    <3>1. r \in limit.runs /\ k \in Trucks /\ book' = [book EXCEPT ![r] = WithTruck(book[r], k)] /\ Seats(r)
      BY <1>4, <2>1, UpdateSeats
    <3>2. r \in restored /\ restored' = restored
      BY <1>3, <1>4, <2>1 DEF Update, svc
    <3> QED BY <1>2, <3>1, <3>2 DEF Seats
  <2>3. book[r] \subseteq WithTruck(book[r], k)
    BY <1>2, <2>2, WithTruckBook
  <2> QED BY <1>2, <1>3, <2>2, <2>3 DEF Keeps
<1>5. ASSUME NEW r \in Runs, NEW k \in Trucks, AdmitRestored(r, k) PROVE Keeps
  <2>1. /\ book' = [book EXCEPT ![r] = meta_book[r]] /\ book[r] = {} /\ Resident' \subseteq Resident \cup {r}
    BY <1>1, <1>5, RestoredBook
  <2>2. restored' = restored \cup {r} /\ poll.pc = "idle"
    BY <1>5 DEF AdmitRestored, Position, Idle
  <2> QED BY <1>2, <1>3, <2>1, <2>2 DEF Keeps
<1>6. ASSUME NEW r \in Runs, NEW k \in Trucks, AdmitKnown(r, k) PROVE Keeps
  <2>1. book' = book /\ Resident' = Resident /\ restored' \subseteq restored \cup {r} /\ restored \subseteq restored'
        /\ poll.pc = "idle"
    BY <1>6 DEF AdmitKnown, Position, hot, Resident, Idle
  <2>2. r \in restored' /\ r \notin restored => meta_book[r] = {}
    BY <1>6 DEF AdmitKnown
  <2> QED BY <1>3, <2>1, <2>2 DEF Keeps
<1>7. CASE UNCHANGED restored /\ UNCHANGED book /\ (UNCHANGED lru \/ EvictRun)
  <2>1. EvictRun => Resident' = Resident \ {poll.run}
    BY EvictSeats
  <2>2. UNCHANGED lru => Resident' = Resident
    BY DEF Resident
  <2>3. Resident' \subseteq Resident
    BY <1>7, <2>1, <2>2
  <2> QED BY <1>3, <1>7, <2>3 DEF Keeps
<1> QED
  BY <1>4, <1>5, <1>6, <1>7, BookChanges, RestoredChanges

LEMMA RestoredNext ==
  ASSUME TypeInv, Restored, BooksInject, Step, UNCHANGED limit
  PROVE  Restored'
<1> SUFFICES ASSUME faults' = 0 PROVE Restored'
  BY DEF Restored
<1>1. faults = 0 /\ ~Fault
  BY NoRefusal
<1>2. /\ book \in [Runs -> Books] /\ meta_book \in [Runs -> Books] /\ limit.runs \subseteq Runs
      /\ poll.pc # "idle" => poll.run \in Runs
      /\ \A s \in Sweepers : sweep[s].pc \in {"snap", "write", "meta_read", "meta_write"} => sweep[s].run \in Runs
  BY LimitType DEF TypeInv, HotTyped, StoreTyped, WorldTyped, PollTyped, SweepTyped, InHand
<1>3. /\ \A r \in Runs :
         /\ Inject(meta_book[r]) /\ Inject(book[r])
         /\ r \in restored => meta_book[r] \subseteq book[r]
         /\ r \notin restored => book[r] = {} /\ r \notin Resident
         /\ sig[r] # Unset /\ r \notin restored =>
              r \in finalized \/ (poll.pc = "mark" /\ poll.run = r)
      /\ poll.pc = "update" => poll.run \in restored
      /\ poll.pc = "meta_write" =>
         IF poll.run \in restored THEN poll.book \subseteq book[poll.run]
         ELSE poll.book = meta_book[poll.run]
      /\ \A s \in Sweepers : sweep[s].pc = "meta_write" =>
         sweep[s].run \in restored /\ sweep[s].book \subseteq book[sweep[s].run]
  BY <1>1 DEF Restored, BooksInject, BooksRestored
<1>4. CASE Crash
  <2>1. /\ restored' = {} /\ book' = [r \in Runs |-> {}] /\ lru' = <<>> /\ sig' = [r \in Runs |-> Unset]
        /\ meta_book' = meta_book /\ poll'.pc = "idle" /\ \A s \in Sweepers : sweep'[s].pc = "idle"
    BY <1>4 DEF Crash, Idle, store
  <2>2. Resident' = {}
    BY <2>1 DEF Resident
  <2>3. \A r \in Runs : Inject(meta_book[r])' <=> Inject(meta_book[r])
    BY <2>1 DEF Inject
  <2> QED BY <1>3, <2>1, <2>2, <2>3 DEF Restored
<1>5. CASE ~Crash
  <2>1. \A r \in Runs :
          /\ r \in restored => r \in restored' /\ book[r] \subseteq book'[r]
          /\ r \notin restored' => book'[r] = {} /\ r \notin Resident'
          /\ r \in restored' /\ r \notin restored => meta_book[r] \subseteq book'[r] /\ poll.pc = "idle"
    BY <1>5, RestoredKeeps DEF Keeps
  \* The books on disk.
  <2>2. \A r \in Runs : Inject(meta_book'[r]) /\ (r \in restored' => meta_book'[r] \subseteq book'[r])
    <3>1. CASE UNCHANGED meta_book
      BY <1>3, <2>1, <3>1
    <3>2. ASSUME NEW r \in Runs, NEW b \in Books, NEW m \in Indices, UpsertRunMeta(r, b, m), UNCHANGED <<book, restored>>,
                 IF r \in restored THEN b \subseteq book[r] ELSE b = meta_book[r]
          PROVE  \A q \in Runs : Inject(meta_book'[q]) /\ (q \in restored' => meta_book'[q] \subseteq book'[q])
      <4>1. /\ meta_book'[r] = IF b # {} THEN b ELSE meta_book[r]
            /\ \A q \in Runs : q # r => meta_book'[q] = meta_book[q]
        BY <3>2, RunMetaTyped
      <4>2. Inject(meta_book'[r])
        BY <1>3, <3>2, <4>1 DEF Inject
      <4> QED BY <1>3, <3>2, <4>1, <4>2
    <3>3. CASE FinalMetaWrite
      <4>1. poll.run \in Runs /\ poll.book \in Books /\ poll.max \in Indices /\ poll.pc = "meta_write"
        BY <1>2, <3>3 DEF TypeInv, PollTyped, FinalMetaWrite
      <4>2. UNCHANGED <<book, restored>>
        BY <3>3 DEF FinalMetaWrite, hot
      <4> QED BY <1>3, <3>2, <3>3, <4>1, <4>2 DEF FinalMetaWrite
    <3>4. ASSUME NEW s \in Sweepers, SweepMetaWrite(s)
          PROVE  \A q \in Runs : Inject(meta_book'[q]) /\ (q \in restored' => meta_book'[q] \subseteq book'[q])
      <4>1. sweep[s].run \in Runs /\ sweep[s].book \in Books /\ sweep[s].max \in Indices /\ sweep[s].pc = "meta_write"
        BY <1>2, <3>4 DEF TypeInv, SweepTyped, InHand, SweepMetaWrite
      <4>2. UNCHANGED <<book, restored>>
        BY <3>4 DEF SweepMetaWrite, hot
      <4> QED BY <1>3, <3>2, <3>4, <4>1, <4>2 DEF SweepMetaWrite
    <3> QED BY <1>5, <3>1, <3>3, <3>4, MetaChanges
  \* The poll thread.
  <2>3. poll'.pc = "update" => poll'.run \in restored'
    <3>1. ASSUME NEW r \in Runs, NEW k \in Trucks, AdmitKnown(r, k) PROVE poll'.run \in restored'
      <4>1. r \notin finalized /\ poll.pc = "idle" /\ poll'.run = r
        BY <3>1 DEF AdmitKnown, Position, Idle
      <4> QED BY <1>3, <3>1, <4>1 DEF AdmitKnown
    <3>2. ASSUME NEW r \in Runs, NEW k \in Trucks, AdmitRestored(r, k) PROVE poll'.run \in restored'
      BY <3>2 DEF AdmitRestored
    <3>3. ASSUME NEW r \in Runs, NEW k \in Trucks PROVE ~AdmitUnread(r, k)
      BY <1>1 DEF AdmitUnread
    <3>4. CASE UNCHANGED poll
      <4>1. poll.pc = "update" => poll.run \in Runs
        BY <1>2
      <4> QED BY <1>3, <2>1, <3>4, <4>1
    <3> QED BY <1>5, <3>1, <3>2, <3>3, <3>4, PollChanges DEF Finalizing, FinalCapture, Update, Bump,
          FinalMetaRead, FinalMetaWrite, FinalMetaWriteFails, MarkFinalized, EvictRun, ForgetRun, Idle
  <2>4. poll'.pc = "meta_write" =>
         IF poll'.run \in restored' THEN poll'.book \subseteq book'[poll'.run]
         ELSE poll'.book = meta_book'[poll'.run]
    <3>1. CASE UNCHANGED poll
      <4> SUFFICES ASSUME poll.pc = "meta_write"
                   PROVE  IF poll.run \in restored' THEN poll.book \subseteq book'[poll.run]
                          ELSE poll.book = meta_book'[poll.run]
        BY <3>1
      <4>1. PICK r \in Runs : r = poll.run
        BY <1>2
      <4>2. r \in restored' <=> r \in restored
        BY <2>1
      <4>3. r \notin restored => meta_book'[r] = meta_book[r]
        <5>1. ASSUME NEW s \in Sweepers, SweepMetaWrite(s), r \notin restored PROVE meta_book'[r] = meta_book[r]
          <6>1. PICK q \in Runs : q = sweep[s].run /\ q # r
            BY <1>2, <1>3, <5>1 DEF SweepMetaWrite
          <6> QED BY <5>1, <6>1 DEF SweepMetaWrite, UpsertRunMeta
        <5>2. ~FinalMetaWrite
          BY <3>1 DEF FinalMetaWrite
        <5> QED BY <1>5, <5>1, <5>2, MetaChanges
      <4> QED BY <1>3, <2>1, <4>1, <4>2, <4>3
    <3>2. CASE FinalMetaRead
      <4>1. PICK r \in Runs : r = poll.run
        BY <1>2, <3>2 DEF FinalMetaRead
      <4>2. PICK b \in {meta_book[r], {}} :
              /\ BookOnDisk(r, b)
              /\ poll' = [pc |-> "meta_write", run |-> r, book |-> MergeCodeMap(b, LiveBook(r)), max |-> max_idx[r]]
        BY <3>2, <4>1 DEF FinalMetaRead
      <4>3. PICK m : m = MergeCodeMap(b, LiveBook(r))
        OBVIOUS
      <4>4. b = meta_book[r] /\ b \subseteq m /\ m \subseteq b \cup LiveBook(r)
        BY <1>1, <4>2, <4>3, MergedType DEF BookOnDisk
      <4>5. UNCHANGED <<meta_book, book, restored>>
        BY <3>2 DEF FinalMetaRead, store, hot, svc
      <4>6. CASE r \in restored
        BY <1>3, <4>2, <4>3, <4>4, <4>5, <4>6 DEF LiveBook
      <4>7. CASE r \notin restored
        <5>1. LiveBook(r) = {}
          BY <1>3, <4>7 DEF LiveBook
        <5>2. m = meta_book[r]
          BY <4>4, <5>1
        <5> QED BY <4>2, <4>3, <4>5, <4>7, <5>2
      <4> QED BY <4>6, <4>7
    <3> QED BY <1>5, <3>1, <3>2, PollChanges DEF Finalizing, AdmitKnown, AdmitRestored, AdmitUnread, FinalCapture,
          Update, Bump, FinalMetaWrite, FinalMetaWriteFails, MarkFinalized, EvictRun, ForgetRun, Idle
  \* The sweeps.
  <2>5. ASSUME NEW s \in Sweepers, sweep'[s].pc = "meta_write"
        PROVE  sweep'[s].run \in restored' /\ sweep'[s].book \subseteq book'[sweep'[s].run]
    <3>1. CASE sweep'[s] = sweep[s]
      <4>1. sweep[s].run \in Runs /\ sweep[s].run \in restored /\ sweep[s].book \subseteq book[sweep[s].run]
        BY <1>2, <1>3, <2>5, <3>1
      <4> QED BY <2>1, <3>1, <4>1
    <3>2. CASE Sweeping(s)
      <4>1. PICK r : r = sweep[s].run /\ r = sweep'[s].run /\ SweepMetaRead(s) /\ r \in Resident
        BY <2>5, <3>2, SweepHands
      <4>2. r \in Runs
        BY <1>2, <4>1 DEF SweepMetaRead
      <4>3. PICK b \in {meta_book[r], {}} : BookOnDisk(r, b) /\ sweep'[s].book = MergeCodeMap(b, LiveBook(r))
        BY <2>5, <3>2, <4>1, SweepHands
      <4>4. r \in restored
        BY <1>3, <4>1, <4>2
      <4>5. MergeCodeMap(b, LiveBook(r)) \subseteq book[r]
        BY <1>3, <4>2, <4>3, <4>4, MergedType DEF LiveBook
      <4> QED BY <2>1, <4>1, <4>2, <4>3, <4>4, <4>5
    <3>3. sweep'[s] = sweep[s] \/ Sweeping(s)
      BY <1>5, SweepChanges, SweepHands
    <3> QED BY <3>1, <3>2, <3>3
  \* The signatures.
  <2>6. ASSUME NEW r \in Runs, sig'[r] # Unset, r \notin restored'
        PROVE  r \in finalized' \/ (poll'.pc = "mark" /\ poll'.run = r)
    <3>1. finalized \subseteq finalized'
      BY <1>5, SvcChanges DEF svc, AdmitKnown, AdmitRestored, FinalCapture, Bump, FinalMetaWrite, MarkFinalized,
        ForgetRun, SweepGone, SweepSnapshot, SweepWrite, SweepMetaWrite
    <3>2. r \notin restored
      BY <2>1, <2>6
    <3>3. CASE sig[r] # Unset
      <4>1. CASE r \in finalized
        BY <3>1, <4>1
      <4>2. CASE poll.pc = "mark" /\ poll.run = r
        <5>1. CASE MarkFinalized
          BY <4>2, <5>1 DEF MarkFinalized
        <5>2. CASE ~MarkFinalized
          <6>1. UNCHANGED poll
            BY <1>5, <4>2, <5>2, PollChanges DEF Finalizing, AdmitKnown, AdmitRestored, AdmitUnread, Position,
              FinalCapture, Terminal, Update, Bump, FinalMetaRead, FinalMetaWrite, FinalMetaWriteFails,
              EvictRun, ForgetRun, Idle
          <6> QED BY <4>2, <6>1
        <5> QED BY <5>1, <5>2
      <4> QED BY <1>3, <3>2, <3>3, <4>1, <4>2
    <3>4. CASE sig[r] = Unset
      <4>1. sig' # sig
        BY <2>6, <3>4
      <4>2. ASSUME NEW s \in Sweepers, SweepMetaWrite(s) PROVE FALSE
        <5>1. PICK q \in Runs : q = sweep[s].run /\ q # r
          BY <1>2, <1>3, <3>2, <4>2 DEF SweepMetaWrite
        <5>2. sig'[r] = sig[r]
          BY <4>2, <5>1 DEF SweepMetaWrite, UpsertRunMeta
        <5> QED BY <2>6, <3>4, <5>2
      <4>3. FinalMetaWrite
        BY <1>5, <4>1, <4>2, MetaChanges
      <4>4. poll.run = r
        <5>1. poll.run # r => sig'[r] = sig[r]
          BY <4>3 DEF FinalMetaWrite, UpsertRunMeta
        <5> QED BY <2>6, <3>4, <5>1
      <4> QED BY <4>3, <4>4 DEF FinalMetaWrite
    <3> QED BY <3>3, <3>4
  <2>7. \A r \in Runs : Inject(meta_book[r])' <=> Inject(meta_book'[r])
    BY DEF Inject
  <2> QED BY <2>1, <2>2, <2>3, <2>4, <2>5, <2>6, <2>7 DEF Restored
<1> QED
  BY <1>4, <1>5

LEMMA BooksInjectNext ==
  ASSUME TypeInv, FirstProcess, Restored, BooksInject, Step, UNCHANGED limit
  PROVE  BooksInject'
<1>1. /\ book \in [Runs -> Books] /\ meta_book \in [Runs -> Books] /\ limit.runs \subseteq Runs
      /\ crashes \in Nat /\ crashes' \in Nat /\ crashes' >= crashes /\ faults \in Nat /\ faults' \in Nat /\ faults' >= faults
  BY LimitType, WorldTypedNext, FaultsGrow DEF TypeInv, HotTyped, StoreTyped, WorldTyped
<1>2. ASSUME BooksRestored', NEW q \in Runs PROVE Inject(book'[q])
  <2>1. \A r \in Runs : Inject(book[r]) /\ (sig[r] = Unset => Inject(meta_book[r]))
    BY <1>1, <1>2 DEF BooksRestored, BooksInject, Restored
  <2>2. CASE Update
    <3>1. PICK r, k : r = poll.run /\ k = poll.truck
      OBVIOUS
    <3>2. r \in limit.runs /\ k \in Trucks /\ book' = [book EXCEPT ![r] = WithTruck(book[r], k)]
      BY <2>2, <3>1, UpdateSeats
    <3>3. Inject(WithTruck(book[r], k))
      BY <1>1, <2>1, <3>2, WithTruckBook
    <3> QED BY <1>1, <2>1, <3>2, <3>3
  <2>3. ASSUME NEW r \in Runs, NEW k \in Trucks, AdmitRestored(r, k) PROVE Inject(book'[q])
    <3>1. book' = [book EXCEPT ![r] =
              IF r \in Resident THEN book[r] \cup NonClashing(book[r], meta_book[r])
              ELSE CreatedBook(r, meta_book[r])]
      BY <2>3, RestoreSeats
    <3>2. Inject(meta_book[r])
      BY <2>1, <2>3 DEF AdmitRestored
    <3>3. Inject(book[r] \cup NonClashing(book[r], meta_book[r]))
      BY <1>1, <2>1, <3>2, NonClashingBook
    <3>4. Inject(CreatedBook(r, meta_book[r]))
      BY <2>1, <3>2 DEF CreatedBook
    <3> QED BY <1>1, <2>1, <3>1, <3>3, <3>4
  <2>4. CASE Crash
    BY <2>4 DEF Crash, Inject
  <2>5. CASE UNCHANGED book
    BY <2>1, <2>5
  <2> QED BY <2>2, <2>3, <2>4, <2>5, BookChanges
<1>3. ASSUME crashes' <= 1, NEW q \in Runs, sig'[q] = Unset PROVE Inject(meta_book'[q])
  <2>1. \A r \in Runs : Inject(book[r]) /\ (sig[r] = Unset => Inject(meta_book[r]))
    BY <1>1, <1>3 DEF BooksRestored, BooksInject
  <2>2. CASE Crash
    <3>1. crashes = 0 /\ meta_book' = meta_book
      BY <1>1, <1>3, <2>2 DEF Crash, store
    <3>2. meta_book[q] \subseteq book[q]
      BY <3>1 DEF FirstProcess
    <3>3. Inject(meta_book[q])
      BY <2>1, <3>2 DEF Inject
    <3> QED BY <3>1, <3>3
  <2>3. CASE UNCHANGED <<meta_book, meta_max, sig>>
    BY <1>3, <2>1, <2>3
  <2>4. ASSUME NEW r \in Runs, NEW b \in Books, NEW m \in Indices, UpsertRunMeta(r, b, m)
        PROVE  Inject(meta_book'[q])
    <3>1. sig'[r] # Unset /\ \A p \in Runs : p # r => meta_book'[p] = meta_book[p] /\ sig'[p] = sig[p]
      BY <2>4, RunMetaTyped
    <3> QED BY <1>3, <2>1, <3>1
  <2>5. CASE FinalMetaWrite
    <3>1. poll.run \in Runs /\ poll.book \in Books /\ poll.max \in Indices
      BY <1>1, <2>5 DEF TypeInv, PollTyped, FinalMetaWrite
    <3> QED BY <2>4, <2>5, <3>1 DEF FinalMetaWrite
  <2>6. ASSUME NEW s \in Sweepers, SweepMetaWrite(s) PROVE Inject(meta_book'[q])
    <3>1. sweep[s].run \in Runs /\ sweep[s].book \in Books /\ sweep[s].max \in Indices
      BY <1>1, <2>6 DEF TypeInv, SweepTyped, InHand, SweepMetaWrite
    <3> QED BY <2>4, <2>6, <3>1 DEF SweepMetaWrite
  <2> QED BY <2>2, <2>3, <2>5, <2>6, MetaChanges
<1>4. \A q \in Runs : (Inject(book[q])' <=> Inject(book'[q])) /\ (Inject(meta_book[q])' <=> Inject(meta_book'[q]))
  BY DEF Inject
<1> QED
  BY <1>2, <1>3, <1>4 DEF BooksInject

-----------------------------------------------------------------------------
(* The indices of a run's frames.                                          *)

LEMMA IndicesInit ==
  ASSUME Init
  PROVE  Unique /\ Dense
<1>1. /\ \A r \in Runs : frames[r] = <<>> /\ counter[r] = 0
      /\ \A s \in Sweepers : sweep[s].pc = "idle"
  BY DEF Init, Idle
<1>2. \A r \in Runs : ~Writing(r)
  BY <1>1 DEF Writing, Writes
<1>3. \A r \in Runs : Len(frames[r]) = 0
  BY <1>1
<1>4. \A i \in 1 .. 0 : FALSE
  OBVIOUS
<1>5. \A r \in Runs : counter[r] = Len(frames[r])
  BY <1>1, <1>3
<1>6. Unique
  BY <1>1, <1>3, <1>4 DEF Unique
<1> QED
  BY <1>1, <1>2, <1>3, <1>4, <1>5, <1>6 DEF Dense

\* What a capture adds to the run's frames.
LEMMA WrittenUnique ==
  ASSUME TypeInv, NEW r \in Runs, NEW f \in FrameSet, NEW q \in Nat, FrameWritten(r, f, q),
         \A i, j \in 1 .. Len(frames[r]) : frames[r][i].idx = frames[r][j].idx => i = j,
         \A i \in 1 .. Len(frames[r]) : frames[r][i].idx # f.idx
  PROVE  \A i, j \in 1 .. Len(frames'[r]) : frames'[r][i].idx = frames'[r][j].idx => i = j
<1>1. PICK n \in Nat : n = Len(frames[r])
  BY FrameAt DEF TypeInv
<1>2. Len(frames'[r]) = n + 1 /\ frames'[r][n + 1] = f /\ \A i \in 1 .. n : frames'[r][i] = frames[r][i]
  BY <1>1, WrittenFrames
<1>3. \A i \in 1 .. n + 1 : i \in 1 .. n \/ i = n + 1
  OBVIOUS
<1> QED
  BY <1>1, <1>2, <1>3

LEMMA WrittenBelow ==
  ASSUME TypeInv, NEW r \in Runs, NEW f \in FrameSet, NEW q \in Nat, FrameWritten(r, f, q), NEW c \in Nat,
         f.idx < c, \A i \in 1 .. Len(frames[r]) : frames[r][i].idx < c
  PROVE  \A i \in 1 .. Len(frames'[r]) : frames'[r][i].idx < c
<1>1. PICK n \in Nat : n = Len(frames[r])
  BY FrameAt DEF TypeInv
<1>2. Len(frames'[r]) = n + 1 /\ frames'[r][n + 1] = f /\ \A i \in 1 .. n : frames'[r][i] = frames[r][i]
  BY <1>1, WrittenFrames
<1>3. \A i \in 1 .. n + 1 : i \in 1 .. n \/ i = n + 1
  OBVIOUS
<1> QED
  BY <1>1, <1>2, <1>3

\* A counter goes back only when the thread that took its last index hands it back.
LEMMA CounterChanges ==
  ASSUME TypeInv, Step, UNCHANGED limit, ~Crash, NEW q \in Runs
  PROVE  \/ counter'[q] \in Nat /\ counter'[q] >= counter[q]
         \/ \E s \in Sweepers : /\ SweepWriteFails(s) /\ sweep[s].run = q /\ q \in Resident
                                /\ counter[q] = sweep[s].frame.idx + 1
                                /\ counter'[q] = sweep[s].frame.idx
<1>1. counter \in [Runs -> Nat] /\ counter[q] \in Nat /\ limit.runs \subseteq Runs
  BY LimitType DEF TypeInv, HotTyped, WorldTyped
<1>2. CASE UNCHANGED counter
  BY <1>1, <1>2
<1>3. CASE \E r : Numbers(r)
  BY <1>3 DEF Numbers
<1>4. CASE \E r \in Runs : counter' = [counter EXCEPT ![r] = @ + 1]
  BY <1>1, <1>4
<1>5. ASSUME NEW s \in Sweepers, SweepWriteFails(s), counter' # counter
      PROVE  /\ SweepWriteFails(s)
             /\ sweep[s].run \in Resident /\ counter[sweep[s].run] = sweep[s].frame.idx + 1
             /\ counter' = [counter EXCEPT ![sweep[s].run] = sweep[s].frame.idx]
  BY <1>5 DEF SweepWriteFails
<1>6. ASSUME NEW s \in Sweepers, SweepSnapshot(s) PROVE UNCHANGED counter \/ \E r \in Runs : counter' = [counter EXCEPT ![r] = @ + 1]
  <2>1. sweep[s].run \in Runs
    BY <1>1, <1>6 DEF TypeInv, SweepTyped, InHand, SweepSnapshot
  <2> QED BY <1>6, <2>1 DEF SweepSnapshot
<1>7. ASSUME NEW r \in Runs, FinalCapture(r) PROVE UNCHANGED counter \/ \E p \in Runs : counter' = [counter EXCEPT ![p] = @ + 1]
  BY <1>7, FinalCaptureCases
<1>8. ASSUME NEW s \in Sweepers, SweepWriteFails(s)
      PROVE  UNCHANGED counter
             \/ \E t \in Sweepers : /\ SweepWriteFails(t) /\ sweep[t].run = q /\ q \in Resident
                                    /\ counter[q] = sweep[t].frame.idx + 1
                                    /\ counter'[q] = sweep[t].frame.idx
             \/ counter'[q] = counter[q]
  <2>1. PICK r, i : r = sweep[s].run /\ i = sweep[s].frame.idx
    OBVIOUS
  <2>2. CASE counter' # counter /\ r = q
    <3>1. /\ SweepWriteFails(s) /\ r \in Resident /\ counter[r] = i + 1 /\ counter' = [counter EXCEPT ![r] = i]
      BY <1>5, <1>8, <2>1, <2>2
    <3>2. counter'[q] = i
      BY <1>1, <2>2, <3>1
    <3> QED BY <2>1, <2>2, <3>1, <3>2
  <2>3. CASE counter' # counter /\ r # q
    <3>1. counter' = [counter EXCEPT ![r] = i]
      BY <1>5, <1>8, <2>1, <2>3
    <3> QED BY <1>1, <2>3, <3>1
  <2> QED BY <2>2, <2>3
<1>9. Update => \E r : Numbers(r)
  BY UpdateSeats
<1>10. ASSUME NEW r \in Runs, NEW k \in Trucks, AdmitRestored(r, k) PROVE \E p : Numbers(p)
  BY <1>10, RestoreSeats
<1>11. EvictRun \/ UNCHANGED hot => UNCHANGED counter
  BY DEF EvictRun, hot
<1> QED
  BY <1>1, <1>2, <1>3, <1>4, <1>6, <1>7, <1>8, <1>9, <1>10, <1>11, HotChanges

\* Who has the lock: a write in flight is not disturbed by another capture.
LEMMA OneWriter ==
  ASSUME TypeInv, NEW s \in Sweepers, Holds(s)
  PROVE  /\ LockHeld /\ \A r \in Runs : ~FinalCapture(r)
         /\ \A t \in Sweepers : t # s => ~SweepWrite(t) /\ ~SweepWriteFails(t) /\ ~SweepSnapshot(t)
<1>1. LockHeld
  BY DEF LockHeld, Holds
<1>2. \A t \in Sweepers : t # s => ~Holds(t)
  BY DEF TypeInv, LockInv
<1> QED
  BY <1>1, <1>2 DEF FinalCapture, Terminal, SweepWrite, SweepWriteFails, SweepSnapshot, Holds

LEMMA UniqueNext ==
  ASSUME TypeInv, Unique, Step, UNCHANGED limit
  PROVE  Unique'
<1> SUFFICES ASSUME crashes' = 0 \/ faults' = 0 PROVE Unique'
  BY DEF Unique
<1>1. /\ counter \in [Runs -> Nat] /\ limit.runs \subseteq Runs
      /\ crashes \in Nat /\ crashes' \in Nat /\ crashes' >= crashes /\ faults \in Nat /\ faults' \in Nat /\ faults' >= faults
      /\ \A r \in Runs : /\ Len(frames[r]) \in Nat
                         /\ \A i \in 1 .. Len(frames[r]) : frames[r][i].idx \in Nat
  <2>1. counter \in [Runs -> Nat] /\ limit.runs \subseteq Runs /\ crashes \in Nat /\ faults \in Nat
    BY LimitType DEF TypeInv, HotTyped, WorldTyped
  <2>2. crashes' \in Nat /\ crashes' >= crashes
    BY WorldTypedNext DEF WorldTyped
  <2>3. faults' \in Nat /\ faults' >= faults
    BY FaultsGrow
  <2> QED BY <2>1, <2>2, <2>3, FrameAt DEF TypeInv
<1>2. \A s \in Sweepers : sweep[s].pc \in {"snap", "write"} => sweep[s].run \in Runs
  BY <1>1 DEF TypeInv, SweepTyped, InHand
<1>3. \A s \in Sweepers : sweep[s].pc = "write" =>
        sweep[s].frame \in FrameSet /\ sweep[s].seq \in Nat /\ sweep[s].frame.idx \in Nat
  BY FrameFacts DEF TypeInv, SweepTyped, InHand
<1>4. /\ crashes = 0 \/ faults = 0
      /\ \A r \in Runs :
         /\ \A i, j \in 1 .. Len(frames[r]) : frames[r][i].idx = frames[r][j].idx => i = j
         /\ crashes = 0 \/ r \in Resident =>
              \A i \in 1 .. Len(frames[r]) : frames[r][i].idx < counter[r]
      /\ \A s \in Sweepers : sweep[s].pc = "write" =>
         /\ sweep[s].frame.idx < counter[sweep[s].run]
         /\ \A i \in 1 .. Len(frames[sweep[s].run]) :
              frames[sweep[s].run][i].idx # sweep[s].frame.idx
  <2>1. crashes = 0 \/ faults = 0
    BY <1>1
  <2> QED BY <2>1, Zenon DEF Unique
<1>5. ASSUME NEW r \in Runs, FrameWritten(r, Snapshot(r), RunSeq(r)), r \in Resident
      PROVE  /\ Snapshot(r) \in FrameSet /\ RunSeq(r) \in Nat /\ Snapshot(r).idx = counter[r]
             /\ \A i \in 1 .. Len(frames[r]) : frames[r][i].idx < counter[r] /\ frames[r][i].idx # Snapshot(r).idx
  <2>1. Snapshot(r) \in FrameSet /\ RunSeq(r) \in Nat /\ Snapshot(r).idx = counter[r]
    BY SnapshotFacts, RunSeqType
  <2>2. \A i \in 1 .. Len(frames[r]) : frames[r][i].idx \in Nat /\ frames[r][i].idx < counter[r] /\ counter[r] \in Nat
    BY <1>1, <1>4, <1>5
  <2> QED BY <2>1, <2>2
<1>6. CASE Crash
  <2>1. crashes' # 0 /\ faults' = 0 /\ frames' = frames /\ lru' = <<>> /\ \A s \in Sweepers : sweep'[s].pc = "idle"
    BY <1>1, <1>6 DEF Crash, Idle, store
  <2>2. Resident' = {}
    BY <2>1 DEF Resident
  <2> QED BY <1>4, <2>1, <2>2 DEF Unique
<1>7. CASE ~Crash
  <2>1. ASSUME NEW q \in Runs, NEW i \in 1 .. Len(frames'[q]), NEW j \in 1 .. Len(frames'[q]),
               frames'[q][i].idx = frames'[q][j].idx
        PROVE  i = j
    <3>1. CASE UNCHANGED frames
      BY <1>4, <2>1, <3>1
    <3>2. ASSUME NEW r \in Runs, NEW f \in FrameSet, NEW n \in Nat, FrameWritten(r, f, n),
                 \A k \in 1 .. Len(frames[r]) : frames[r][k].idx # f.idx
          PROVE  i = j
      <4>1. \A p \in Runs : p # r => frames'[p] = frames[p]
        BY <3>2, WrittenFrames
      <4>2. \A k, l \in 1 .. Len(frames'[r]) : frames'[r][k].idx = frames'[r][l].idx => k = l
        BY <1>4, <3>2, WrittenUnique
      <4> QED BY <1>4, <2>1, <4>1, <4>2
    <3>3. ASSUME NEW r \in Runs, FinalCapture(r), FrameWritten(r, Snapshot(r), RunSeq(r)) PROVE i = j
      <4>1. r \in Resident \/ UNCHANGED frames
        BY <3>3, FinalCaptureCases
      <4> QED BY <1>5, <3>1, <3>2, <3>3, <4>1
    <3>4. ASSUME NEW s \in Sweepers, SweepWrite(s) PROVE i = j
      BY <1>2, <1>3, <1>4, <3>2, <3>4 DEF SweepWrite
    <3> QED BY <3>1, <3>3, <3>4, FrameChanges
  <2>2. ASSUME NEW q \in Runs, crashes' = 0 \/ q \in Resident', NEW i \in 1 .. Len(frames'[q])
        PROVE  frames'[q][i].idx < counter'[q]
    <3>1. CASE \E r \in Runs : FinalCapture(r) /\ frames' # frames
      <4>1. PICK r \in Runs : FinalCapture(r) /\ frames' # frames
        BY <3>1
      <4>2. r \in Resident /\ counter' = [counter EXCEPT ![r] = counter[r] + 1] /\ FrameWritten(r, Snapshot(r), RunSeq(r))
        BY <4>1, FinalCaptureCases
      <4>3. crashes' = crashes /\ Resident' = Resident
        BY <4>1 DEF FinalCapture, Resident
      <4>4. CASE q = r
        <5>1. counter'[r] = counter[r] + 1 /\ counter[r] \in Nat
          BY <1>1, <4>2
        <5>2. \A k \in 1 .. Len(frames[r]) : frames[r][k].idx < counter[r] + 1
          BY <1>1, <1>5, <4>2, <5>1
        <5>3. Snapshot(r) \in FrameSet /\ RunSeq(r) \in Nat /\ Snapshot(r).idx < counter[r] + 1
          BY <1>5, <4>2, <5>1
        <5>4. PICK c \in Nat : c = counter[r] + 1
          BY <5>1
        <5>5. \A k \in 1 .. Len(frames'[r]) : frames'[r][k].idx < c
          BY <4>2, <5>2, <5>3, <5>4, WrittenBelow
        <5> QED BY <2>2, <4>4, <5>1, <5>4, <5>5
      <4>5. CASE q # r
        <5>1. frames'[q] = frames[q]
          BY <1>5, <4>2, <4>5, WrittenFrames
        <5> QED BY <1>1, <1>4, <2>2, <4>2, <4>3, <4>5, <5>1
      <4> QED BY <4>4, <4>5
    <3>2. CASE \E s \in Sweepers : SweepWrite(s)
      <4>1. PICK s \in Sweepers : SweepWrite(s)
        BY <3>2
      <4>2. PICK r \in Runs : r = sweep[s].run
        BY <1>2, <4>1 DEF SweepWrite
      <4>3. PICK f \in FrameSet : f = sweep[s].frame
        BY <1>3, <4>1 DEF SweepWrite
      <4>4. PICK n \in Nat : n = sweep[s].seq
        BY <1>3, <4>1 DEF SweepWrite
      <4>5. FrameWritten(r, f, n) /\ crashes' = crashes /\ Resident' = Resident /\ counter' = counter
        BY <4>1, <4>2, <4>3, <4>4 DEF SweepWrite, world, hot, Resident
      <4>6. CASE q = r
        <5>1. \A k \in 1 .. Len(frames[r]) : frames[r][k].idx < counter[r]
          BY <1>4, <2>2, <4>5, <4>6
        <5>2. f.idx < counter[r] /\ counter[r] \in Nat
          BY <1>1, <1>4, <4>1, <4>2, <4>3 DEF SweepWrite
        <5>3. \A k \in 1 .. Len(frames'[r]) : frames'[r][k].idx < counter[r]
          BY <4>5, <5>1, <5>2, WrittenBelow
        <5> QED BY <2>2, <4>5, <4>6, <5>3
      <4>7. CASE q # r
        <5>1. frames'[q] = frames[q]
          BY <4>5, <4>7, WrittenFrames
        <5> QED BY <1>4, <2>2, <4>5, <5>1
      <4> QED BY <4>6, <4>7
    <3>3. CASE UNCHANGED frames
      <4>1. i \in 1 .. Len(frames[q]) /\ frames'[q][i].idx = frames[q][i].idx /\ frames[q][i].idx \in Nat /\ counter[q] \in Nat
        BY <1>1, <2>2, <3>3
      <4>2. CASE ~(crashes = 0 \/ q \in Resident)
        \* The run becomes resident in a process that was refused nothing.
        <5>1. faults' = faults /\ q \in Resident' /\ q \notin Resident
          BY <1>1, <1>4, <2>2, <4>2
        <5>2. \E r \in Runs : r = q /\ Numbers(r)
          <6>1. ASSUME NEW r \in Runs, NEW k \in Trucks, AdmitRestored(r, k) PROVE r = q /\ Numbers(r)
            BY <5>1, <6>1, RestoreSeats DEF Seats
          <6>2. CASE Update
            <7>1. PICK r, k : r = poll.run /\ k = poll.truck
              OBVIOUS
            <7>2. r \in limit.runs /\ Seats(r) /\ Numbers(r)
              BY <6>2, <7>1, UpdateSeats
            <7> QED BY <1>1, <5>1, <7>2 DEF Seats
          <6>3. CASE UNCHANGED lru
            BY <5>1, <6>3 DEF Resident
          <6>4. EvictRun => Resident' = Resident \ {poll.run}
            BY EvictSeats
          <6> QED BY <1>7, <5>1, <6>1, <6>2, <6>3, <6>4, BookChanges
        <5>3. counter'[q] >= SeededFrameIdx(q) /\ counter'[q] \in Nat
          BY <5>1, <5>2 DEF Numbers
        <5>4. frames[q][i].idx < SeededFrameIdx(q) /\ SeededFrameIdx(q) \in Nat
          BY <4>1, SeededType
        <5> QED BY <4>1, <5>3, <5>4
      <4>3. CASE crashes = 0 \/ q \in Resident
        <5>1. frames[q][i].idx < counter[q]
          BY <1>4, <4>1, <4>3
        <5>2. CASE counter'[q] \in Nat /\ counter'[q] >= counter[q]
          BY <4>1, <5>1, <5>2
        <5>3. ASSUME NEW s \in Sweepers, SweepWriteFails(s), sweep[s].run = q,
                     counter[q] = sweep[s].frame.idx + 1, counter'[q] = sweep[s].frame.idx
              PROVE  frames[q][i].idx < counter'[q]
          <6>1. frames[q][i].idx # sweep[s].frame.idx /\ sweep[s].frame.idx \in Nat
            BY <1>3, <1>4, <4>1, <5>3 DEF SweepWriteFails
          <6> QED BY <4>1, <5>1, <5>3, <6>1
        <5> QED BY <1>7, <4>1, <5>2, <5>3, CounterChanges
      <4> QED BY <4>2, <4>3
    <3> QED BY <3>1, <3>2, <3>3, FrameChanges
  <2>3. ASSUME NEW s \in Sweepers, sweep'[s].pc = "write"
        PROVE  /\ sweep'[s].frame.idx < counter'[sweep'[s].run]
               /\ \A i \in 1 .. Len(frames'[sweep'[s].run]) :
                    frames'[sweep'[s].run][i].idx # sweep'[s].frame.idx
    <3>1. CASE Sweeping(s)
      <4>1. PICK r : r = sweep[s].run /\ r = sweep'[s].run
        BY <2>3, <3>1, SweepHands
      <4>2. /\ SweepSnapshot(s) /\ r \in Resident /\ sweep'[s].frame = Snapshot(r)
            /\ counter' = [counter EXCEPT ![r] = @ + 1]
        BY <2>3, <3>1, <4>1, SweepHands
      <4>3. r \in Runs /\ frames' = frames
        BY <1>2, <4>1, <4>2 DEF SweepSnapshot, store
      <4>4. sweep'[s].frame.idx = counter[r] /\ counter'[r] = counter[r] + 1 /\ counter[r] \in Nat
        BY <1>1, <4>2, <4>3, SnapshotFacts
      <4>5. \A i \in 1 .. Len(frames[r]) : frames[r][i].idx \in Nat /\ frames[r][i].idx < counter[r]
        BY <1>1, <1>4, <4>2, <4>3
      <4> QED BY <4>1, <4>3, <4>4, <4>5
    <3>2. CASE ~Sweeping(s)
      <4>1. sweep'[s] = sweep[s]
        BY <1>7, <3>2, SweepChanges, SweepHands
      <4>2. sweep[s].pc = "write" /\ Holds(s)
        BY <2>3, <4>1 DEF Holds
      <4>3. PICK r \in Runs : r = sweep[s].run
        BY <1>2, <4>2
      <4>4. ~SweepWrite(s) /\ ~SweepWriteFails(s)
        BY <3>2 DEF Sweeping
      <4>5. UNCHANGED frames
        BY <4>2, <4>4, OneWriter, FrameChanges
      <4>6. counter'[r] \in Nat /\ counter'[r] >= counter[r] /\ counter[r] \in Nat
        BY <1>1, <1>7, <4>2, <4>4, OneWriter, CounterChanges
      <4>7. sweep[s].frame.idx \in Nat /\ sweep[s].frame.idx < counter[r]
        BY <1>3, <1>4, <4>2, <4>3
      <4>8. sweep[s].frame.idx < counter'[r]
        BY <4>6, <4>7
      <4> QED BY <1>4, <4>1, <4>2, <4>3, <4>5, <4>8
    <3> QED BY <3>1, <3>2
  <2> QED BY <2>1, <2>2, <2>3 DEF Unique
<1> QED
  BY <1>6, <1>7

-----------------------------------------------------------------------------
(* With room for every run.                                                *)

LEMMA FinalizedGrows ==
  ASSUME Step, ~Crash
  PROVE  finalized \subseteq finalized'
BY SvcChanges DEF svc, AdmitKnown, AdmitRestored, FinalCapture, Bump, FinalMetaWrite, MarkFinalized,
  ForgetRun, SweepGone, SweepSnapshot, SweepWrite, SweepMetaWrite

\* A run comes in when it is admitted, and leaves for want of room or when it is evicted.
LEMMA ResidentChanges ==
  ASSUME TypeInv, FinishInv, Step, UNCHANGED limit, ~Crash, NEW q \in Runs
  PROVE  /\ q \in Resident' /\ q \notin Resident => q \notin finalized
         /\ Room /\ q \in Resident => q \in Resident' \/ q \in finalized
<1>1. limit.runs \subseteq Runs
  BY LimitType DEF TypeInv, WorldTyped
<1>2. CASE Update
  <2>1. PICK r, k : r = poll.run /\ k = poll.truck
    OBVIOUS
  <2>2. Seats(r)
    BY <1>2, <2>1, UpdateSeats
  <2>3. r \notin finalized
    BY <1>2, <2>1 DEF FinishInv, Update
  <2> QED BY <2>2, <2>3 DEF Seats
<1>3. ASSUME NEW r \in Runs, NEW k \in Trucks, AdmitRestored(r, k)
      PROVE  /\ q \in Resident' /\ q \notin Resident => q \notin finalized
             /\ Room /\ q \in Resident => q \in Resident' \/ q \in finalized
  <2>1. Seats(r)
    BY <1>3, RestoreSeats
  <2>2. r \notin finalized
    BY <1>3 DEF AdmitRestored
  <2> QED BY <2>1, <2>2 DEF Seats
<1>4. CASE EvictRun
  <2>1. Resident' = Resident \ {poll.run}
    BY <1>4, EvictSeats
  <2>2. poll.run \in finalized
    BY <1>4 DEF FinishInv, EvictRun
  <2> QED BY <2>1, <2>2
<1>5. CASE UNCHANGED lru
  BY <1>5 DEF Resident
<1> QED
  BY <1>2, <1>3, <1>4, <1>5, BookChanges

LEMMA StaysInit ==
  ASSUME Init
  PROVE  Stays
BY DEF Init, Stays, Idle, Resident, NoPositions

LEMMA StaysNext ==
  ASSUME TypeInv, FinishInv, Stays, Step, UNCHANGED limit
  PROVE  Stays'
<1> SUFFICES ASSUME Room PROVE Stays'
  BY SameSets DEF Stays
<1>1. /\ \A r \in Runs :
         /\ r \in Resident => slab[r] = last[r]
         /\ r \notin Resident /\ r \notin finalized => last[r] = NoPositions
         /\ \A k \in Trucks : slab[r][k] > 0 => k \in TrucksOf(book[r])
      /\ \A s \in Sweepers : sweep[s].pc = "write" =>
         sweep[s].run \in Resident \/ sweep[s].run \in finalized
  BY DEF Stays
<1>2. /\ limit.runs \subseteq Runs /\ book \in [Runs -> Books] /\ slab \in [Runs -> Slabs] /\ last \in [Runs -> Slabs]
      /\ \A r \in Runs : r \notin Resident => slab[r] = NoPositions
      /\ \A k \in Trucks : NoPositions[k] = 0
  BY LimitType, NoPositionsType DEF TypeInv, WorldTyped, HotTyped, Empty
<1>3. CASE Crash
  <2>1. /\ lru' = <<>> /\ slab' = [r \in Runs |-> NoPositions] /\ last' = [r \in Runs |-> NoPositions]
        /\ \A s \in Sweepers : sweep'[s].pc = "idle"
    BY <1>3 DEF Crash, Idle
  <2>2. Resident' = {}
    BY <2>1 DEF Resident
  <2>3. NoPositions' = NoPositions
    BY DEF NoPositions
  <2> QED BY <1>2, <2>1, <2>2, <2>3 DEF Stays
<1>4. CASE ~Crash
  <2>1. finalized \subseteq finalized'
    BY <1>4, FinalizedGrows
  <2>2. \A r \in Runs : r \in Resident => r \in Resident' \/ r \in finalized
    BY <1>4, ResidentChanges
  <2>3. ASSUME NEW s \in Sweepers, sweep'[s].pc = "write"
        PROVE  sweep'[s].run \in Resident' \/ sweep'[s].run \in finalized'
    <3>1. CASE Sweeping(s)
      <4>1. sweep'[s].run \in Resident /\ SweepSnapshot(s)
        BY <2>3, <3>1, SweepHands
      <4>2. Resident' = Resident
        BY <4>1 DEF SweepSnapshot, Resident
      <4> QED BY <4>1, <4>2
    <3>2. CASE ~Sweeping(s)
      <4>1. sweep'[s] = sweep[s]
        BY <1>4, <3>2, SweepChanges, SweepHands
      <4>2. sweep[s].run \in Runs
        BY <1>2, <2>3, <4>1 DEF TypeInv, SweepTyped, InHand
      <4> QED BY <1>1, <2>1, <2>2, <2>3, <4>1, <4>2
    <3> QED BY <3>1, <3>2
  <2>4. ASSUME NEW q \in Runs
        PROVE  /\ q \in Resident' => slab'[q] = last'[q]
               /\ q \notin Resident' /\ q \notin finalized' => last'[q] = NoPositions
               /\ \A k \in Trucks : slab'[q][k] > 0 => k \in TrucksOf(book'[q])
    <3>1. CASE Update
      <4>1. PICK r, k : r = poll.run /\ k = poll.truck
        OBVIOUS
      <4>2. /\ r \in Runs /\ k \in Trucks /\ Seats(r) /\ DropsOthers(r)
            /\ book' = [book EXCEPT ![r] = WithTruck(book[r], k)]
            /\ slab'[r] = [slab[r] EXCEPT ![k] = ver + 1]
        BY <1>2, <3>1, <4>1, UpdateSeats
      <4>3. last' = [last EXCEPT ![r][k] = ver + 1]
        BY <3>1, <4>1 DEF Update
      <4>4. CASE q = r
        <5>1. slab[r] = last[r]
          <6>1. r \notin finalized
            BY <3>1, <4>1 DEF FinishInv, Update
          <6> QED BY <1>1, <1>2, <4>2, <6>1
        <5>2. slab'[q] = last'[q]
          BY <1>2, <4>2, <4>3, <4>4, <5>1
        <5>3. q \in Resident'
          BY <4>2, <4>4 DEF Seats
        <5>4. ASSUME NEW l \in Trucks, slab'[q][l] > 0 PROVE l \in TrucksOf(book'[q])
          <6>1. book'[q] = WithTruck(book[q], k) /\ book[q] \subseteq WithTruck(book[q], k)
                /\ k \in TrucksOf(WithTruck(book[q], k))
            BY <1>2, <4>2, <4>4, WithTruckBook
          <6>2. l # k => slab[q][l] > 0
            BY <1>2, <4>2, <4>4, <5>4 DEF Slabs
          <6>3. l # k => l \in TrucksOf(book[q])
            BY <1>1, <6>2
          <6> QED BY <6>1, <6>3 DEF TrucksOf
        <5> QED BY <5>2, <5>3, <5>4
      <4>5. CASE q # r
        <5>1. book'[q] = book[q] /\ last'[q] = last[q] /\ (q \in Resident' <=> q \in Resident)
              /\ slab'[q] = slab[q]
          BY <1>2, <4>2, <4>3, <4>5 DEF Seats, DropsOthers
        <5> QED BY <1>1, <2>1, <5>1
      <4> QED BY <4>4, <4>5
    <3>2. ASSUME NEW r \in Runs, NEW k \in Trucks, AdmitRestored(r, k)
          PROVE  /\ q \in Resident' => slab'[q] = last'[q]
                 /\ q \notin Resident' /\ q \notin finalized' => last'[q] = NoPositions
                 /\ \A l \in Trucks : slab'[q][l] > 0 => l \in TrucksOf(book'[q])
      <4>1. /\ Seats(r) /\ DropsOthers(r) /\ slab'[r] = slab[r]
            /\ book' = [book EXCEPT ![r] =
                 IF r \in Resident THEN book[r] \cup NonClashing(book[r], meta_book[r])
                 ELSE CreatedBook(r, meta_book[r])]
        BY <3>2, RestoreSeats
      <4>2. last' = last /\ r \notin finalized
        BY <3>2 DEF AdmitRestored
      <4>3. CASE q = r
        <5>1. slab[r] = last[r] /\ q \in Resident'
          BY <1>1, <1>2, <4>1, <4>2, <4>3 DEF Seats
        <5>2. ASSUME NEW l \in Trucks, slab'[q][l] > 0 PROVE l \in TrucksOf(book'[q])
          <6>1. slab[q][l] > 0
            BY <4>1, <4>3, <5>2
          <6>2. q \in Resident
            BY <1>2, <6>1
          <6>3. book[q] \subseteq book'[q]
            BY <1>2, <4>1, <4>3, <6>2
          <6>4. l \in TrucksOf(book[q])
            BY <1>1, <6>1
          <6> QED BY <6>3, <6>4 DEF TrucksOf
        <5> QED BY <4>1, <4>2, <4>3, <5>1, <5>2
      <4>4. CASE q # r
        <5>1. book'[q] = book[q] /\ last'[q] = last[q] /\ (q \in Resident' <=> q \in Resident)
              /\ slab'[q] = slab[q]
          BY <1>2, <4>1, <4>2, <4>4 DEF Seats, DropsOthers
        <5> QED BY <1>1, <2>1, <5>1
      <4> QED BY <4>3, <4>4
    <3>3. CASE EvictRun
      <4>1. PICK r : r = poll.run
        OBVIOUS
      <4>2. Resident' = Resident \ {r} /\ slab' = [p \in Runs |-> IF p = r THEN NoPositions ELSE slab[p]]
        BY <3>3, <4>1, EvictSeats
      <4>3. r \in finalized /\ UNCHANGED <<book, last>>
        BY <3>3, <4>1 DEF EvictRun, FinishInv
      <4>4. \A l \in Trucks : slab'[q][l] > 0 => slab[q][l] > 0
        BY <1>2, <4>2
      <4> QED BY <1>1, <2>1, <4>2, <4>3, <4>4
    <3>4. CASE ~Update /\ ~EvictRun /\ (\A r \in Runs, k \in Trucks : ~AdmitRestored(r, k))
      <4>1. UNCHANGED <<lru, book, slab>>
        BY <1>4, <3>4, HotChanges DEF hot, FinalCapture, SweepSnapshot, SweepWriteFails
      <4>2. UNCHANGED last
        BY <1>4, <3>4, WorldChanges DEF ForgetRun, TerminalArrives, FinalCapture, FinalCaptureFails
      <4>3. Resident' = Resident
        BY <4>1 DEF Resident
      <4> QED BY <1>1, <2>1, <4>1, <4>2, <4>3
    <3> QED BY <3>1, <3>2, <3>3, <3>4
  <2>5. NoPositions' = NoPositions
    BY DEF NoPositions
  <2>6. \A q \in Runs, k \in Trucks : k \in TrucksOf(book[q])' <=> k \in TrucksOf(book'[q])
    BY DEF TrucksOf
  <2> QED BY <2>3, <2>4, <2>5, <2>6 DEF Stays
<1> QED
  BY <1>3, <1>4

-----------------------------------------------------------------------------
(* No holes.                                                               *)

\* Who is writing a frame changes with the snapshot, the write and its failure alone.
LEMMA WritingStays ==
  ASSUME TypeInv, Step, ~Crash,
         \A s \in Sweepers : ~SweepSnapshot(s) /\ ~SweepWrite(s) /\ ~SweepWriteFails(s), NEW q \in Runs
  PROVE  Writing(q)' <=> Writing(q)
<1>1. ASSUME NEW t \in Sweepers PROVE Writes(t, q)' <=> Writes(t, q)
  <2>1. CASE UNCHANGED sweep
    BY <2>1 DEF Writes
  <2>2. ASSUME NEW s \in Sweepers, Sweeping(s) PROVE Writes(t, q)' <=> Writes(t, q)
    <3>1. CASE t # s
      <4>1. sweep'[t] = sweep[t]
        BY <2>2, <3>1, SweepHands
      <4> QED BY <4>1 DEF Writes
    <3>2. CASE t = s
      <4>1. sweep'[s].pc # "write"
        BY <2>2, SweepHands
      <4>2. sweep[s].pc # "write"
        BY <2>2 DEF Sweeping, SweepKnown, SweepResident, SweepGone, SweepLock, SweepMetaRead,
          SweepMetaWrite, SweepMetaWriteFails, IsIdle
      <4> QED BY <3>2, <4>1, <4>2 DEF Writes
    <3> QED BY <3>1, <3>2
  <2> QED BY <2>1, <2>2, SweepChanges
<1> QED
  BY <1>1 DEF Writing

\* A sweep that holds the lock is the only one that can be writing.
LEMMA WritingMoves ==
  ASSUME TypeInv, NEW s \in Sweepers, Sweeping(s), Holds(s), NEW q \in Runs
  PROVE  /\ Writing(q) <=> sweep[s].pc = "write" /\ sweep[s].run = q
         /\ Writing(q)' <=> sweep'[s].pc = "write" /\ sweep'[s].run = q
<1>1. \A t \in Sweepers : t # s => sweep[t].pc # "write" /\ sweep'[t] = sweep[t]
  BY SweepHands DEF TypeInv, LockInv, Holds
<1> QED
  BY <1>1 DEF Writing, Writes

LEMMA WrittenDense ==
  ASSUME TypeInv, NEW r \in Runs, NEW f \in FrameSet, NEW q \in Nat, FrameWritten(r, f, q),
         \A i \in 1 .. Len(frames[r]) : frames[r][i].idx = i - 1, f.idx = Len(frames[r])
  PROVE  \A i \in 1 .. Len(frames'[r]) : frames'[r][i].idx = i - 1
<1>1. PICK n \in Nat : n = Len(frames[r])
  BY FrameAt DEF TypeInv
<1>2. Len(frames'[r]) = n + 1 /\ frames'[r][n + 1] = f /\ \A i \in 1 .. n : frames'[r][i] = frames[r][i]
  BY <1>1, WrittenFrames
<1>3. \A i \in 1 .. n + 1 : i \in 1 .. n \/ i = n + 1
  OBVIOUS
<1> QED
  BY <1>1, <1>2, <1>3

\* The index that a lookup seeds the counter with, when the run has no hole.
LEMMA SeededDense ==
  ASSUME TypeInv, NEW r \in Runs, \A i \in 1 .. Len(frames[r]) : frames[r][i].idx = i - 1
  PROVE  SeededFrameIdx(r) \in Nat /\ SeededFrameIdx(r) <= Len(frames[r])
<1>1. Len(frames[r]) \in Nat
  BY FrameAt DEF TypeInv
<1>2. \/ Len(frames[r]) = 0 /\ SeededFrameIdx(r) = 0
      \/ \E i \in 1 .. Len(frames[r]) : SeededFrameIdx(r) = frames[r][i].idx + 1
  BY SeededType
<1>3. \A i \in 1 .. Len(frames[r]) : frames[r][i].idx + 1 = i
  BY <1>1
<1> QED
  BY <1>1, <1>2, <1>3, SeededType

LEMMA DenseNext ==
  ASSUME TypeInv, FinishInv, FirstProcess, Stays, Dense, Step, UNCHANGED limit
  PROVE  Dense'
<1> SUFFICES ASSUME crashes' = 0, faults' = 0 \/ Room' PROVE Dense'
  BY DEF Dense
<1>1. /\ crashes = 0 /\ ~Crash /\ (faults = 0 \/ Room) /\ (\A r \in Runs, k \in Trucks : ~AdmitRestored(r, k))
      /\ (faults' = 0 \/ Room)
      /\ faults \in Nat /\ faults' \in Nat /\ faults' >= faults
  <2>1. crashes = 0 /\ ~Crash /\ (\A r \in Runs, k \in Trucks : ~AdmitRestored(r, k))
    BY BooksGrow
  <2>2. faults \in Nat /\ faults' \in Nat /\ faults' >= faults
    BY FaultsGrow DEF TypeInv, WorldTyped
  <2>3. Room' = Room
    BY SameSets
  <2> QED BY <2>1, <2>2, <2>3
<1>2. /\ \A r \in Runs :
         /\ \A i \in 1 .. Len(frames[r]) : frames[r][i].idx = i - 1
         /\ r \in Resident \/ r \notin finalized =>
              /\ Writing(r) => counter[r] = Len(frames[r]) + 1
              /\ ~Writing(r) => counter[r] = Len(frames[r])
      /\ \A s \in Sweepers : sweep[s].pc = "write" =>
         sweep[s].frame.idx = Len(frames[sweep[s].run])
  BY <1>1, Zenon DEF Dense
<1>3. /\ counter \in [Runs -> Nat] /\ limit.runs \subseteq Runs
      /\ \A r \in Runs : Len(frames[r]) \in Nat
      /\ \A s \in Sweepers : sweep[s].pc \in {"snap", "write"} => sweep[s].run \in Runs
  <2>1. counter \in [Runs -> Nat] /\ limit.runs \subseteq Runs
    BY LimitType DEF TypeInv, HotTyped, WorldTyped
  <2> QED BY <2>1, FrameAt DEF TypeInv, SweepTyped, InHand
<1>4. \A r \in Runs : r \in Resident => ~Empty(r)
  BY <1>1 DEF FirstProcess
\* The lock is free: nobody writes.
<1>5. \A r \in Runs : ~LockHeld => ~Writing(r)
  BY DEF LockHeld, Writing, Writes
<1>6. ASSUME NEW r \in Runs, FinalCapture(r)
      PROVE  /\ \A q \in Runs : ~Writing(q) /\ ~Writing(q)'
             /\ Resident' = Resident /\ finalized' = finalized
             /\ \/ frames' = frames /\ counter' = counter
                \/ /\ r \in Resident /\ FrameWritten(r, Snapshot(r), RunSeq(r))
                   /\ counter' = [counter EXCEPT ![r] = counter[r] + 1] /\ counter[r] = Len(frames[r])
                   /\ Snapshot(r) \in FrameSet /\ RunSeq(r) \in Nat /\ Snapshot(r).idx = Len(frames[r])
  <2>1. \A q \in Runs : ~Writing(q)
    BY <1>5, <1>6, FinalCaptureCases
  <2>2. UNCHANGED sweep /\ Resident' = Resident /\ finalized' = finalized
    BY <1>6 DEF FinalCapture, Resident
  <2>3. \A q \in Runs : ~Writing(q)'
    BY <2>1, <2>2 DEF Writing, Writes
  <2>4. r \in Resident => counter[r] = Len(frames[r])
    BY <1>2, <2>1
  <2>5. Snapshot(r) \in FrameSet /\ Snapshot(r).idx = counter[r] /\ RunSeq(r) \in Nat
    BY SnapshotFacts, RunSeqType
  <2> QED BY <1>4, <1>6, <2>1, <2>2, <2>3, <2>4, <2>5, FinalCaptureCases
<1>7. ASSUME NEW s \in Sweepers, SweepWrite(s)
      PROVE  \E r \in Runs, f \in FrameSet, n \in Nat :
               /\ r = sweep[s].run /\ FrameWritten(r, f, n) /\ f.idx = Len(frames[r])
               /\ Writing(r) /\ counter' = counter
               /\ \A q \in Runs : ~Writing(q)' /\ (q # r => ~Writing(q))
  <2>1. PICK r, f, n : r = sweep[s].run /\ f = sweep[s].frame /\ n = sweep[s].seq
    OBVIOUS
  <2>2. sweep[s].pc = "write" /\ Holds(s)
    BY <1>7 DEF SweepWrite, Holds
  <2>3. r \in Runs /\ f \in FrameSet /\ n \in Nat
    BY <1>3, <2>1, <2>2 DEF TypeInv, SweepTyped, InHand
  <2>4. f.idx = Len(frames[r])
    BY <1>2, <2>1, <2>2
  <2>5. sweep'[s].pc # "write"
    <3>1. PICK w : w = At(s, "meta_read", r)
      OBVIOUS
    <3>2. w.pc = "meta_read"
      BY <3>1 DEF At
    <3>3. sweep' = [sweep EXCEPT ![s] = w]
      BY <1>7, <2>1, <3>1 DEF SweepWrite
    <3> QED BY <3>2, <3>3 DEF TypeInv, SweepTyped
  <2>6. \A q \in Runs : ~Writing(q)' /\ (Writing(q) <=> r = q)
    BY <1>7, <2>1, <2>2, <2>5, WritingMoves DEF Sweeping
  <2>7. FrameWritten(r, f, n) /\ counter' = counter
    BY <1>7, <2>1 DEF SweepWrite, hot
  <2> QED BY <2>1, <2>3, <2>4, <2>6, <2>7
<1>8. ASSUME NEW s \in Sweepers, SweepSnapshot(s)
      PROVE  /\ sweep[s].run \in Runs /\ \A q \in Runs : ~Writing(q)
             /\ UNCHANGED <<frames, lru, finalized>>
             /\ IF sweep[s].run \in Resident
                THEN /\ counter' = [counter EXCEPT ![sweep[s].run] = @ + 1]
                     /\ \A q \in Runs : Writing(q)' <=> q = sweep[s].run
                ELSE counter' = counter /\ \A q \in Runs : ~Writing(q)'
  <2>1. PICK r : r = sweep[s].run
    OBVIOUS
  <2>2. sweep[s].pc = "snap" /\ Holds(s)
    BY <1>8 DEF SweepSnapshot, Holds
  <2>3. r \in Runs
    BY <1>3, <2>1, <2>2
  <2>4. \A q \in Runs : /\ ~Writing(q)
                        /\ Writing(q)' <=> sweep'[s].pc = "write" /\ sweep'[s].run = q
    BY <1>8, <2>2, WritingMoves DEF Sweeping
  <2>5. UNCHANGED <<frames, lru, finalized>>
    BY <1>8 DEF SweepSnapshot, store
  <2>6. CASE r \in Resident
    <3>1. PICK w : w = [pc |-> "write", todo |-> sweep[s].todo, run |-> r, seq |-> sweep[s].seq,
                        frame |-> Snapshot(r)]
      OBVIOUS
    <3>2. sweep' = [sweep EXCEPT ![s] = w] /\ counter' = [counter EXCEPT ![r] = @ + 1]
      BY <1>4, <1>8, <2>1, <2>3, <2>6, <3>1 DEF SweepSnapshot
    <3>3. w.pc = "write" /\ w.run = r
      BY <3>1
    <3>4. sweep'[s].pc = "write" /\ sweep'[s].run = r
      BY <3>2, <3>3 DEF TypeInv, SweepTyped
    <3> QED BY <2>1, <2>3, <2>4, <2>5, <2>6, <3>2, <3>4
  <2>7. CASE r \notin Resident
    <3>1. PICK w : w = At(s, "meta_read", r)
      OBVIOUS
    <3>2. sweep' = [sweep EXCEPT ![s] = w] /\ counter' = counter
      BY <1>8, <2>1, <2>7, <3>1 DEF SweepSnapshot
    <3>3. w.pc = "meta_read"
      BY <3>1 DEF At
    <3>4. sweep'[s].pc # "write"
      BY <3>2, <3>3 DEF TypeInv, SweepTyped
    <3> QED BY <2>1, <2>3, <2>4, <2>5, <2>7, <3>2, <3>4
  <2> QED BY <2>6, <2>7
<1>9. ASSUME NEW q \in Runs, NEW i \in 1 .. Len(frames'[q]) PROVE frames'[q][i].idx = i - 1
  <2>1. ASSUME NEW r \in Runs, NEW f \in FrameSet, NEW n \in Nat, FrameWritten(r, f, n), f.idx = Len(frames[r])
        PROVE  frames'[q][i].idx = i - 1
    <3>1. \A p \in Runs : p # r => frames'[p] = frames[p]
      BY <2>1, WrittenFrames
    <3>2. \A j \in 1 .. Len(frames'[r]) : frames'[r][j].idx = j - 1
      BY <1>2, <2>1, WrittenDense
    <3> QED BY <1>2, <1>9, <3>1, <3>2
  <2>2. CASE UNCHANGED frames
    BY <1>2, <1>9, <2>2
  <2>3. ASSUME NEW r \in Runs, FinalCapture(r) PROVE frames'[q][i].idx = i - 1
    BY <1>6, <2>1, <2>2, <2>3
  <2>4. ASSUME NEW s \in Sweepers, SweepWrite(s) PROVE frames'[q][i].idx = i - 1
    BY <1>7, <2>1, <2>4
  <2> QED BY <2>2, <2>3, <2>4, FrameChanges
<1> DEFINE Level(q) == /\ Writing(q)' => counter'[q] = Len(frames'[q]) + 1
                       /\ ~Writing(q)' => counter'[q] = Len(frames'[q])
<1>10. ASSUME NEW q \in Runs, q \in Resident' \/ q \notin finalized' PROVE Level(q)
  <2>1. /\ Writing(q) => counter[q] = Len(frames[q]) + 1
        /\ ~Writing(q) => counter[q] = Len(frames[q])
    <3>1. q \in Resident \/ q \notin finalized
      BY <1>1, <1>10, FinalizedGrows, ResidentChanges
    <3> QED BY <1>2, <3>1
  <2>2. ASSUME NEW s \in Sweepers, SweepSnapshot(s) PROVE Level(q)
    BY <1>3, <1>8, <2>1, <2>2
  <2>3. ASSUME NEW s \in Sweepers, SweepWrite(s) PROVE Level(q)
    <3>1. PICK r \in Runs, f \in FrameSet, n \in Nat :
               /\ r = sweep[s].run /\ FrameWritten(r, f, n) /\ f.idx = Len(frames[r])
               /\ Writing(r) /\ counter' = counter
               /\ \A p \in Runs : ~Writing(p)' /\ (p # r => ~Writing(p))
      BY <1>7, <2>3
    <3>2. Len(frames'[r]) = Len(frames[r]) + 1 /\ \A p \in Runs : p # r => frames'[p] = frames[p]
      BY <3>1, WrittenFrames
    <3> QED BY <2>1, <3>1, <3>2
  <2>4. ASSUME NEW s \in Sweepers, SweepWriteFails(s) PROVE Level(q)
    <3>1. PICK r, i : r = sweep[s].run /\ i = sweep[s].frame.idx
      OBVIOUS
    <3>2. sweep[s].pc = "write" /\ Holds(s) /\ r \in Runs
      BY <1>3, <2>4, <3>1 DEF SweepWriteFails, Holds
    <3>3. sweep'[s].pc # "write"
      BY <2>4, <3>2, SweepHands DEF Sweeping, SweepSnapshot
    <3>4. ~Writing(q)' /\ (Writing(q) <=> q = r)
      BY <2>4, <3>1, <3>2, <3>3, WritingMoves DEF Sweeping
    <3>5. UNCHANGED <<frames, finalized, lru>> /\ faults' = faults + 1
          /\ counter' = IF r \in Resident /\ counter[r] = i + 1 THEN [counter EXCEPT ![r] = i] ELSE counter
      BY <2>4, <3>1 DEF SweepWriteFails, store, svc, Fault
    <3>6. CASE q # r
      BY <1>3, <2>1, <3>2, <3>4, <3>5, <3>6
    <3>7. CASE q = r
      <4>1. Room
        BY <1>1, <3>5
      <4>2. r \in Resident \/ r \in finalized
        BY <3>1, <3>2, <4>1 DEF Stays
      <4>3. Resident' = Resident
        BY <3>5 DEF Resident
      <4>4. r \in Resident
        BY <1>10, <3>5, <3>7, <4>2, <4>3
      <4>5. i = Len(frames[r]) /\ counter[r] = i + 1
        BY <1>2, <2>1, <3>1, <3>2, <3>4, <3>7
      <4> QED BY <1>3, <3>2, <3>4, <3>5, <3>7, <4>4, <4>5
    <3> QED BY <3>6, <3>7
  <2>5. ASSUME NEW r \in Runs, FinalCapture(r) PROVE Level(q)
    <3>1. CASE frames' = frames /\ counter' = counter
      BY <1>6, <2>1, <2>5, <3>1
    <3>2. CASE ~(frames' = frames /\ counter' = counter)
      <4>1. /\ FrameWritten(r, Snapshot(r), RunSeq(r)) /\ ~Writing(q) /\ ~Writing(q)'
            /\ counter' = [counter EXCEPT ![r] = counter[r] + 1] /\ counter[r] = Len(frames[r])
            /\ Snapshot(r) \in FrameSet /\ RunSeq(r) \in Nat
        BY <1>6, <2>5, <3>2
      <4>2. Len(frames'[r]) = Len(frames[r]) + 1 /\ \A p \in Runs : p # r => frames'[p] = frames[p]
        BY <4>1, WrittenFrames
      <4> QED BY <1>3, <2>1, <4>1, <4>2
    <3> QED BY <3>1, <3>2
  <2>6. CASE Update
    <3>1. PICK r, k : r = poll.run /\ k = poll.truck
      OBVIOUS
    <3>2. /\ r \in Runs /\ Numbers(r) /\ counter'[r] \in {0, counter[r], SeededFrameIdx(r)}
      BY <1>3, <2>6, <3>1, UpdateSeats
    <3>3. UNCHANGED <<frames, sweep>>
      BY <2>6 DEF Update, store
    <3>4. Writing(q)' <=> Writing(q)
      BY <3>3 DEF Writing, Writes
    <3>5. CASE q # r
      BY <2>1, <3>2, <3>3, <3>4, <3>5 DEF Numbers
    <3>6. CASE q = r
      <4>1. SeededFrameIdx(r) \in Nat /\ SeededFrameIdx(r) <= Len(frames[r])
        BY <1>2, <3>2, SeededDense
      <4>2. counter[r] \in Nat /\ Len(frames[r]) \in Nat /\ counter[r] >= Len(frames[r])
            /\ counter'[r] >= counter[r]
        BY <1>3, <2>1, <3>2, <3>6 DEF Numbers
      <4>3. counter'[r] = counter[r]
        BY <3>2, <4>1, <4>2
      <4> QED BY <2>1, <3>3, <3>4, <3>6, <4>3
    <3> QED BY <3>5, <3>6
  <2>7. CASE /\ \A s \in Sweepers : ~SweepSnapshot(s) /\ ~SweepWrite(s) /\ ~SweepWriteFails(s)
             /\ \A r \in Runs : ~FinalCapture(r)
             /\ ~Update
    <3>1. Writing(q)' <=> Writing(q)
      BY <1>1, <2>7, WritingStays
    <3>2. UNCHANGED frames
      BY <2>7, FrameChanges
    <3>3. UNCHANGED counter
      BY <1>1, <2>7, HotChanges DEF hot, EvictRun
    <3> QED BY <2>1, <3>1, <3>2, <3>3
  <2> HIDE DEF Level
  <2> QED BY <2>2, <2>3, <2>4, <2>5, <2>6, <2>7
<1>11. ASSUME NEW s \in Sweepers, sweep'[s].pc = "write"
       PROVE  sweep'[s].frame.idx = Len(frames'[sweep'[s].run])
  <2>1. CASE Sweeping(s)
    <3>1. /\ SweepSnapshot(s) /\ sweep'[s].run = sweep[s].run /\ sweep[s].run \in Resident
          /\ sweep'[s].frame = Snapshot(sweep[s].run)
      BY <1>11, <2>1, SweepHands
    <3>2. PICK r \in Runs : r = sweep[s].run
      BY <1>8, <3>1
    <3>3. counter[r] = Len(frames[r]) /\ frames' = frames
      BY <1>2, <1>8, <3>1, <3>2
    <3> QED BY <3>1, <3>2, <3>3, SnapshotFacts
  <2>2. CASE ~Sweeping(s)
    <3>1. sweep'[s] = sweep[s]
      BY <1>1, <2>2, SweepChanges, SweepHands
    <3>2. sweep[s].pc = "write" /\ Holds(s)
      BY <1>11, <3>1 DEF Holds
    <3>3. UNCHANGED frames
      BY <2>2, <3>2, OneWriter, FrameChanges DEF Sweeping
    <3> QED BY <1>2, <3>1, <3>2, <3>3
  <2> QED BY <2>1, <2>2
<1> HIDE DEF Level
<1>12. \A q \in Runs : q \in Resident' \/ q \notin finalized' => Level(q)
  BY <1>10
<1> QED
  BY <1>9, <1>11, <1>12 DEF Dense, Level

-----------------------------------------------------------------------------
(* The update sequence and the captures of it.                             *)

LEMMA CountsInit ==
  ASSUME Init
  PROVE  Counts
BY DEF Init, Counts, Idle, Holds, RunSeq, Unset

\* The sequences stand still while a sweep holds the lock, but for what it captures.
LEMMA SequenceChanges ==
  ASSUME TypeInv, Step, ~Crash
  PROVE  \/ UNCHANGED <<updates, captured>>
         \/ (Bump \/ ForgetRun) /\ ~LockHeld
         \/ \E r \in Runs : FinalCapture(r)
         \/ \E s \in Sweepers : (SweepGone(s) /\ ~LockHeld) \/ SweepSnapshot(s) \/ SweepWrite(s)
<1>1. CASE UNCHANGED svc
  BY <1>1 DEF svc
<1>2. ASSUME NEW r \in Runs, NEW k \in Trucks, AdmitKnown(r, k) \/ AdmitRestored(r, k)
      PROVE  UNCHANGED <<updates, captured>>
  BY <1>2 DEF AdmitKnown, AdmitRestored
<1>3. FinalMetaWrite \/ MarkFinalized => UNCHANGED <<updates, captured>>
  BY DEF FinalMetaWrite, MarkFinalized
<1>4. Bump \/ ForgetRun => ~LockHeld
  BY DEF Bump, ForgetRun
<1>5. ASSUME NEW s \in Sweepers
      PROVE  /\ SweepMetaWrite(s) => UNCHANGED <<updates, captured>>
             /\ SweepGone(s) => ~LockHeld
  BY DEF SweepMetaWrite, SweepGone
<1> QED
  BY <1>1, <1>2, <1>3, <1>4, <1>5, SvcChanges

LEMMA CountsNext ==
  ASSUME TypeInv, Counts, Step, UNCHANGED limit
  PROVE  Counts'
<1>1. /\ limit.runs \subseteq Runs /\ updates \in [Runs -> Indices] /\ captured \in [Runs -> Indices]
      /\ \A r \in Runs : RunSeq(r) \in Nat /\ captured[r] <= RunSeq(r) /\ captured[r] \in Indices
      /\ poll.pc # "idle" => poll.run \in Runs
  BY LimitType, RunSeqType DEF TypeInv, WorldTyped, SvcTyped, PollTyped, Counts
<1>2. \A s \in Sweepers : Holds(s) =>
        /\ sweep[s].run \in Runs /\ sweep[s].seq \in Nat /\ sweep[s].seq = RunSeq(sweep[s].run)
  BY <1>1 DEF TypeInv, SweepTyped, InHand, Holds, Counts
<1>3. \A r \in Runs : updates'[r] = updates[r] => RunSeq(r)' = RunSeq(r)
  BY DEF RunSeq
<1>4. CASE Crash
  BY <1>4 DEF Crash, Counts, Idle, Holds, RunSeq, Unset
<1>5. CASE ~Crash
  <2>1. ASSUME NEW s \in Sweepers, Holds(s)' PROVE \E r : r = sweep'[s].run /\ sweep'[s].seq = RunSeq(r)'
    <3>1. CASE UNCHANGED updates
      <4>1. \A r : RunSeq(r)' = RunSeq(r)
        BY <3>1 DEF RunSeq
      <4>2. CASE Sweeping(s)
        <5>1. CASE sweep'[s].pc = "snap"
          <6>1. sweep'[s].seq = RunSeq(sweep'[s].run)
            BY <4>2, <5>1, SweepHands
          <6>2. PICK r : r = sweep'[s].run
            OBVIOUS
          <6> QED BY <4>1, <6>1, <6>2
        <5>2. CASE sweep'[s].pc = "write"
          <6>1. sweep[s].pc = "snap" /\ sweep'[s].run = sweep[s].run /\ sweep'[s].seq = sweep[s].seq
            BY <4>2, <5>2, SweepHands
          <6>2. sweep[s].seq = RunSeq(sweep[s].run)
            BY <1>2, <6>1 DEF Holds
          <6>3. PICK r : r = sweep[s].run
            OBVIOUS
          <6> QED BY <4>1, <6>1, <6>2, <6>3
        <5> QED BY <2>1, <5>1, <5>2 DEF Holds
      <4>3. CASE ~Sweeping(s)
        <5>1. sweep'[s] = sweep[s]
          BY <1>5, <4>3, SweepChanges, SweepHands
        <5>2. PICK r : r = sweep[s].run
          OBVIOUS
        <5>3. sweep[s].seq = RunSeq(r)
          BY <1>2, <2>1, <5>1, <5>2 DEF Holds
        <5> QED BY <4>1, <5>1, <5>2, <5>3
      <4> QED BY <4>2, <4>3
    <3>2. CASE ~UNCHANGED updates
      \* Whoever changes a sequence has found the lock free, and takes none.
      <4>1. ~LockHeld /\ (Bump \/ ForgetRun \/ \E t \in Sweepers : SweepGone(t))
        <5>1. ASSUME NEW r \in Runs, FinalCapture(r) PROVE UNCHANGED updates
          BY <5>1 DEF FinalCapture
        <5>2. ASSUME NEW t \in Sweepers, SweepSnapshot(t) \/ SweepWrite(t) PROVE UNCHANGED updates
          BY <5>2 DEF SweepSnapshot, SweepWrite
        <5> QED BY <1>5, <3>2, <5>1, <5>2, SequenceChanges
      <4>2. ~Holds(s)
        BY <4>1 DEF LockHeld, Holds
      <4>3. CASE Bump \/ ForgetRun
        BY <2>1, <4>2, <4>3 DEF Bump, ForgetRun, Holds
      <4>4. ASSUME NEW t \in Sweepers, SweepGone(t) PROVE FALSE
        <5>1. sweep'[t].pc \notin {"snap", "write"}
          <6>1. PICK w : w = NextRun(sweep[t].todo)
            OBVIOUS
          <6>2. w.pc \notin {"snap", "write"}
            BY <6>1 DEF NextRun, Idle
          <6>3. sweep' = [sweep EXCEPT ![t] = w]
            BY <4>4, <6>1 DEF SweepGone
          <6> QED BY <6>2, <6>3 DEF TypeInv, SweepTyped
        <5>2. t # s
          BY <2>1, <5>1 DEF Holds
        <5>3. sweep'[s] = sweep[s]
          BY <4>4, <5>2, SweepHands DEF Sweeping
        <5> QED BY <2>1, <4>2, <5>3 DEF Holds
      <4> QED BY <4>1, <4>3, <4>4
    <3> QED BY <3>1, <3>2
  <2>2. ASSUME NEW q \in Runs PROVE captured'[q] <= RunSeq(q)'
    <3>1. CASE UNCHANGED <<updates, captured>>
      BY <1>1, <1>3, <3>1
    <3>2. CASE Bump
      <4>1. PICK r \in Runs : r = poll.run
        BY <1>1, <3>2 DEF Bump
      <4>2. updates' = [updates EXCEPT ![r] = IF @ = Unset THEN 1 ELSE @ + 1] /\ captured' = captured
        BY <3>2, <4>1 DEF Bump
      <4>3. CASE q = r
        <5>1. RunSeq(q)' = RunSeq(q) + 1
          BY <1>1, <4>2, <4>3 DEF RunSeq, Indices, Unset
        <5> QED BY <1>1, <4>2, <5>1 DEF Indices, Unset
      <4>4. CASE q # r
        BY <1>1, <1>3, <4>2, <4>4
      <4> QED BY <4>3, <4>4
    <3>3. CASE ForgetRun
      <4>1. PICK r \in Runs : r = poll.run
        BY <1>1, <3>3 DEF ForgetRun
      <4>2. updates' = [updates EXCEPT ![r] = Unset] /\ captured' = [captured EXCEPT ![r] = Unset]
        BY <3>3, <4>1 DEF ForgetRun
      <4>3. CASE q = r
        BY <1>1, <4>2, <4>3 DEF RunSeq, Unset
      <4>4. CASE q # r
        BY <1>1, <1>3, <4>2, <4>4
      <4> QED BY <4>3, <4>4
    <3>4. ASSUME NEW s \in Sweepers, SweepGone(s) PROVE captured'[q] <= RunSeq(q)'
      <4>1. PICK gone : /\ updates' = [r \in Runs |-> IF r \in gone THEN Unset ELSE updates[r]]
                        /\ captured' = [r \in Runs |-> IF r \in gone THEN Unset ELSE captured[r]]
        BY <3>4 DEF SweepGone
      <4>2. CASE q \in gone
        BY <4>1, <4>2 DEF RunSeq, Unset
      <4>3. CASE q \notin gone
        BY <1>1, <1>3, <4>1, <4>3
      <4> QED BY <4>2, <4>3
    <3>5. ASSUME UNCHANGED updates, NEW r \in Runs,
                 \/ captured' = captured
                 \/ captured' = [captured EXCEPT ![r] = RunSeq(r)]
          PROVE  captured'[q] <= RunSeq(q)'
      BY <1>1, <1>3, <3>5
    <3>6. ASSUME NEW r \in Runs, FinalCapture(r) PROVE captured'[q] <= RunSeq(q)'
      <4>1. updates' = updates
        BY <3>6 DEF FinalCapture
      <4> QED BY <3>5, <3>6, <4>1, FinalCaptureCases DEF FrameWritten
    <3>7. ASSUME NEW s \in Sweepers, SweepSnapshot(s) \/ SweepWrite(s) PROVE captured'[q] <= RunSeq(q)'
      <4>1. Holds(s)
        BY <3>7 DEF SweepSnapshot, SweepWrite, Holds
      <4>2. PICK r \in Runs : r = sweep[s].run /\ sweep[s].seq = RunSeq(r)
        BY <1>2, <4>1
      <4>3. updates' = updates /\ (captured' = captured \/ captured' = [captured EXCEPT ![r] = RunSeq(r)])
        BY <3>7, <4>2 DEF SweepSnapshot, SweepWrite, FrameWritten
      <4> QED BY <3>5, <4>3
    <3> QED BY <1>5, <3>1, <3>2, <3>3, <3>4, <3>6, <3>7, SequenceChanges
  <2>3. \A s \in Sweepers : (Holds(s) => sweep[s].seq = RunSeq(sweep[s].run))'
    <3>1. ASSUME NEW s \in Sweepers, Holds(s)' PROVE (sweep[s].seq = RunSeq(sweep[s].run))'
      BY <2>1, <3>1 DEF RunSeq
    <3> QED BY <3>1
  <2> QED BY <2>2, <2>3 DEF Counts
<1> QED
  BY <1>4, <1>5

-----------------------------------------------------------------------------
(* Every position is in a frame, or counted as lost.                       *)

LEMMA CountedInit ==
  ASSUME Init
  PROVE  Counted
<1>1. \A r \in Runs : Covered(r)
  BY DEF Init, Covered, Unwritten, NoPositions
<1> QED
  BY <1>1 DEF Init, Counted, Idle, Finishing

\* The positions taken of a run change with one step of the poll thread.
LEMMA LastChanges ==
  ASSUME TypeInv, Step, ~Crash, NEW q \in Runs
  PROVE  last'[q] = last[q] \/ (Update /\ poll.run = q)
<1>1. last \in [Runs -> Slabs] /\ limit.runs \subseteq Runs
  BY LimitType DEF TypeInv, WorldTyped
<1>2. CASE Update
  <2>1. poll.run \in Runs
    BY <1>1, <1>2 DEF TypeInv, PollTyped, Update
  <2> QED BY <1>1, <1>2, <2>1 DEF Update
<1>3. CASE ~Update
  BY <1>3, WorldChanges DEF EvictRun, ForgetRun, TerminalArrives, FinalCapture, FinalCaptureFails
<1> QED
  BY <1>2, <1>3

LEMMA RowsGrow ==
  ASSUME TypeInv, Step, NEW q \in Runs
  PROVE  Rows(q) \subseteq Rows(q)'
<1>1. CASE UNCHANGED frames
  BY <1>1 DEF Rows
<1>2. ASSUME NEW r \in Runs, NEW f \in FrameSet, NEW n \in Nat, FrameWritten(r, f, n)
      PROVE  Rows(q) \subseteq Rows(q)'
  BY <1>2, RowsWritten
<1>3. ASSUME NEW r \in Runs, FrameWritten(r, Snapshot(r), RunSeq(r))
      PROVE  Rows(q) \subseteq Rows(q)'
  BY <1>2, <1>3, SnapshotFacts, RunSeqType
<1>4. ASSUME NEW s \in Sweepers, SweepWrite(s)
      PROVE  Rows(q) \subseteq Rows(q)'
  <2>1. sweep[s].run \in Runs /\ sweep[s].frame \in FrameSet /\ sweep[s].seq \in Nat
    BY <1>4, LimitType DEF TypeInv, SweepTyped, InHand, SweepWrite, WorldTyped
  <2> QED BY <1>2, <1>4, <2>1 DEF SweepWrite
<1> QED
  BY <1>1, <1>3, <1>4, FrameChanges

\* While no further position is taken, what is written stays so.
LEMMA CoveredStays ==
  ASSUME TypeInv, Step, NEW q \in Runs, last'[q] = last[q]
  PROVE  /\ \A k \in Trucks : Unwritten(q, k)' => Unwritten(q, k)
         /\ Covered(q) => Covered(q)'
<1>1. \A k \in Trucks : Unwritten(q, k)' => Unwritten(q, k)
  BY RowsGrow DEF Unwritten
<1> QED
  BY <1>1 DEF Covered

\* A frame with the newest position of every truck covers the run.
LEMMA FrameCovers ==
  ASSUME TypeInv, Step, NEW q \in Runs, last'[q] = last[q],
         NEW f \in FrameSet, NEW n \in Nat, FrameWritten(q, f, n),
         \A k \in Trucks : Unwritten(q, k) => \E row \in f.rows : row[1] = k /\ row[3] = last[q][k]
  PROVE  Covered(q)'
<1>1. Rows(q)' = Rows(q) \cup f.rows
  BY RowsWritten
<1>2. ASSUME NEW k \in Trucks, Unwritten(q, k)' PROVE FALSE
  <2>1. Unwritten(q, k)
    BY <1>2, CoveredStays
  <2>2. PICK row \in f.rows : row[1] = k /\ row[3] = last[q][k]
    BY <2>1
  <2>3. row \in Rows(q)'
    BY <1>1
  <2> QED BY <1>2, <2>2, <2>3 DEF Unwritten
<1> QED
  BY <1>2 DEF Covered

\* With room for every run, the hot tier holds the newest positions, and a snapshot
\* shows them.
LEMMA SnapshotCovers ==
  ASSUME TypeInv, Stays, Room, NEW r \in Runs, r \in Resident, Inject(book[r])
  PROVE  /\ \A k \in Trucks : Unwritten(r, k) =>
              \E row \in Snapshot(r).rows : row[1] = k /\ row[3] = last[r][k]
         /\ Empty(r) => Covered(r)
<1>1. slab[r] = last[r] /\ \A k \in Trucks : slab[r][k] > 0 => k \in TrucksOf(book[r])
  BY DEF Stays
<1>2. \A k \in Trucks : Unwritten(r, k) =>
        \E row \in Snapshot(r).rows : row[1] = k /\ row[3] = last[r][k]
  BY <1>1, SnapshotFacts DEF Unwritten
<1>3. Empty(r) => Covered(r)
  BY <1>1 DEF Empty, NoPositions, Covered, Unwritten
<1> QED
  BY <1>2, <1>3

LEMMA DroppedGrows ==
  ASSUME Step, ~Crash
  PROVE  dropped \subseteq dropped'
BY SvcChanges DEF svc, AdmitKnown, AdmitRestored, FinalCapture, CountLost, Bump, FinalMetaWrite, MarkFinalized,
  ForgetRun, SweepGone, SweepSnapshot, SweepWrite, SweepMetaWrite

\* The poll thread counts a position before it takes anything else up, and goes
\* through the end of a run from its capture on.
LEMMA PollMoves ==
  ASSUME TypeInv, Step, ~Crash
  PROVE  /\ \A q : Bumping(q) => Bump \/ Bumping(q)'
         /\ poll'.pc \in Finishing =>
              \/ poll.pc \in Finishing /\ poll'.run = poll.run
              \/ \E r \in Runs : FinalCapture(r) /\ poll'.run = r
<1>1. CASE UNCHANGED poll
  BY <1>1 DEF Bumping
<1>2. ASSUME NEW r \in Runs, NEW k \in Trucks, AdmitKnown(r, k) \/ AdmitRestored(r, k) \/ AdmitUnread(r, k)
      PROVE  poll.pc = "idle" /\ poll'.pc = "update"
  BY <1>2 DEF AdmitKnown, AdmitRestored, AdmitUnread, Position, Idle
<1>3. ASSUME NEW r \in Runs, FinalCapture(r) PROVE poll.pc = "idle" /\ poll'.run = r
  BY <1>3 DEF FinalCapture, Terminal, Idle
<1>4. CASE Update \/ Bump
  BY <1>4 DEF Update, Bump, Bumping, Finishing, Idle
<1>5. CASE FinalMetaRead
  <2>1. poll.pc = "meta_read" /\ poll'.run = poll.run
    BY <1>5 DEF FinalMetaRead
  <2> QED BY <2>1 DEF Bumping, Finishing
<1>6. CASE Finalizing /\ ~FinalMetaRead
  BY <1>6 DEF Finalizing, FinalMetaWrite, FinalMetaWriteFails, MarkFinalized, EvictRun, ForgetRun, Bumping,
    Finishing, Idle
<1> QED
  BY <1>1, <1>2, <1>3, <1>4, <1>5, <1>6, PollChanges DEF Bumping, Finishing

\* With room, only evict_run takes a run out of the hot tier.
LEMMA OnlyEvicted ==
  ASSUME TypeInv, Step, UNCHANGED limit, ~Crash, Room, NEW q \in Runs, q \in Resident, q \notin Resident'
  PROVE  EvictRun /\ poll.run = q
<1>1. ~Update
  BY UpdateSeats DEF Seats
<1>2. \A r \in Runs, k \in Trucks : ~AdmitRestored(r, k)
  BY RestoreSeats DEF Seats
<1>3. ~UNCHANGED lru
  BY DEF Resident
<1>4. EvictRun
  BY <1>1, <1>2, <1>3, BookChanges
<1> QED
  BY <1>4, EvictSeats

LEMMA CountedNext ==
  ASSUME TypeInv, BooksInject, Stays, Counts, FinishInv, Counted, Step, UNCHANGED limit
  PROVE  Counted'
<1> SUFFICES ASSUME Room, BooksRestored' PROVE Counted'
  BY SameSets DEF Counted
<1>1. /\ limit.runs \subseteq Runs /\ updates \in [Runs -> Indices] /\ captured \in [Runs -> Indices]
      /\ poll.pc # "idle" => poll.run \in Runs
      /\ \A r \in Runs : RunSeq(r) \in Nat
      /\ \A s \in Sweepers : Holds(s) =>
           /\ sweep[s].run \in Runs /\ sweep[s].seq \in Nat /\ sweep[s].seq = RunSeq(sweep[s].run)
           /\ sweep[s].pc = "write" => sweep[s].frame \in FrameSet
  <2>1. limit.runs \subseteq Runs /\ updates \in [Runs -> Indices] /\ captured \in [Runs -> Indices]
    BY LimitType DEF TypeInv, WorldTyped, SvcTyped
  <2> QED BY <2>1, RunSeqType DEF TypeInv, PollTyped, SweepTyped, InHand, Holds, Counts
<1>2. BooksRestored /\ \A r \in Runs : Inject(book[r])
  <2>1. /\ crashes \in Nat /\ crashes' \in Nat /\ crashes' >= crashes
        /\ faults \in Nat /\ faults' \in Nat /\ faults' >= faults
    BY WorldTypedNext, FaultsGrow DEF TypeInv, WorldTyped
  <2>2. BooksRestored
    BY <2>1 DEF BooksRestored
  <2> QED BY <2>2 DEF BooksInject
<1>3. /\ \A r \in Runs :
         /\ updates[r] # Unset /\ captured[r] = updates[r] /\ ~Bumping(r) => Covered(r)
         /\ r \in Resident \/ Covered(r) \/ r \in dropped
      /\ poll.pc \in Finishing => Covered(poll.run) \/ poll.run \in dropped
      /\ \A s \in Sweepers : sweep[s].pc = "write" /\ ~Bumping(sweep[s].run) =>
         \A k \in Trucks : Unwritten(sweep[s].run, k) =>
           \E row \in sweep[s].frame.rows : row[1] = k /\ row[3] = last[sweep[s].run][k]
  BY <1>2, Zenon DEF Counted
<1>4. CASE Crash
  <2>1. /\ last' = [r \in Runs |-> NoPositions] /\ poll'.pc = "idle"
        /\ \A s \in Sweepers : sweep'[s].pc = "idle"
    BY <1>4 DEF Crash, Idle
  <2>2. \A r \in Runs : Covered(r)'
    BY <2>1 DEF Covered, Unwritten, NoPositions
  <2> QED BY <2>1, <2>2 DEF Counted, Finishing
<1>5. CASE ~Crash
  <2>1. dropped \subseteq dropped'
    BY <1>5, DroppedGrows
  \* Who still has the positions, or has counted them.
  <2>2. ASSUME NEW r \in Runs, FinalCapture(r) PROVE Covered(r)' \/ r \in dropped'
    <3>1. updates' = updates /\ last'[r] = last[r] /\ ~Bumping(r)
          /\ (updates[r] # captured'[r] => r \in dropped')
      BY <2>2 DEF FinalCapture, Terminal, CountLost, Bumping, Idle
    <3>2. CASE r \notin Resident
      BY <1>3, <2>1, <3>1, <3>2, CoveredStays
    <3>3. CASE NothingNew(r)
      <4>1. captured' = captured /\ captured[r] # Unset
        BY <2>2, <3>3, FinalCaptureCases DEF NothingNew
      <4>2. CASE captured[r] = updates[r]
        BY <1>3, <3>1, <4>1, <4>2, CoveredStays
      <4> QED BY <3>1, <4>1, <4>2
    <3>4. CASE r \in Resident /\ Empty(r)
      BY <1>2, <3>1, <3>4, SnapshotCovers, CoveredStays
    <3>5. CASE r \in Resident /\ ~Empty(r) /\ ~NothingNew(r)
      <4>1. FrameWritten(r, Snapshot(r), RunSeq(r)) /\ Snapshot(r) \in FrameSet /\ RunSeq(r) \in Nat
        BY <2>2, <3>5, FinalCaptureCases, SnapshotFacts, RunSeqType
      <4>2. \A k \in Trucks : Unwritten(r, k) =>
              \E row \in Snapshot(r).rows : row[1] = k /\ row[3] = last[r][k]
        BY <1>2, <3>5, SnapshotCovers
      <4> QED BY <3>1, <4>1, <4>2, FrameCovers
    <3> QED BY <3>2, <3>3, <3>4, <3>5
  <2>3. ASSUME NEW q \in Runs PROVE q \in Resident' \/ Covered(q)' \/ q \in dropped'
    <3>1. CASE q \in Resident
      <4>1. CASE q \in Resident'
        BY <4>1
      <4>2. CASE q \notin Resident'
        <5>1. EvictRun /\ poll.run = q
          BY <1>5, <3>1, <4>2, OnlyEvicted
        <5>2. poll.pc \in Finishing /\ last' = last
          BY <5>1 DEF EvictRun, Finishing
        <5>3. Covered(q) \/ q \in dropped
          BY <1>3, <5>1, <5>2
        <5> QED BY <2>1, <5>2, <5>3, CoveredStays
      <4> QED BY <4>1, <4>2
    <3>2. CASE q \notin Resident
      <4>1. CASE last'[q] = last[q]
        BY <1>3, <2>1, <3>2, <4>1, CoveredStays
      <4>2. CASE Update /\ poll.run = q
        <5>1. q \in Resident'
          BY <4>2, UpdateSeats DEF Seats
        <5> QED BY <5>1
      <4> QED BY <1>5, <4>1, <4>2, LastChanges
    <3> QED BY <3>1, <3>2
  <2>4. ASSUME poll'.pc \in Finishing, NEW q, q = poll'.run PROVE Covered(q)' \/ q \in dropped'
    <3>1. ASSUME NEW r \in Runs, FinalCapture(r), poll'.run = r PROVE Covered(q)' \/ q \in dropped'
      BY <2>2, <2>4, <3>1
    <3>2. CASE poll.pc \in Finishing /\ poll'.run = poll.run
      <4>1. q \in Runs /\ (Covered(q) \/ q \in dropped)
        BY <1>1, <1>3, <2>4, <3>2 DEF Finishing
      <4>2. last'[q] = last[q]
        BY <1>5, <3>2, <4>1, LastChanges DEF Update, Finishing
      <4> QED BY <2>1, <4>1, <4>2, CoveredStays
    <3> QED BY <1>5, <2>4, <3>1, <3>2, PollMoves
  <2>5. ASSUME NEW q \in Runs, updates'[q] # Unset, captured'[q] = updates'[q], ~Bumping(q)'
        PROVE  Covered(q)'
    <3>1. CASE updates'[q] = updates[q] /\ captured'[q] = captured[q] /\ ~Bumping(q)
      <4>1. ~(Update /\ poll.run = q)
        BY <2>5 DEF Update, Bumping
      <4>2. last'[q] = last[q]
        BY <1>5, <4>1, LastChanges
      <4> QED BY <1>3, <2>5, <3>1, <4>2, CoveredStays
    <3>2. CASE Bump
      <4>1. PICK r \in Runs : r = poll.run
        BY <1>1, <3>2 DEF Bump
      <4>2. updates' = [updates EXCEPT ![r] = IF @ = Unset THEN 1 ELSE @ + 1] /\ captured' = captured
        BY <3>2, <4>1 DEF Bump
      <4>3. CASE q = r
        <5>1. updates'[q] > captured[q] /\ captured[q] \in Int /\ updates'[q] \in Int
          BY <1>1, <4>2, <4>3 DEF Counts, RunSeq, Indices, Unset
        <5> QED BY <2>5, <4>2, <5>1
      <4>4. CASE q # r
        <5>1. ~Bumping(q)
          BY <4>1, <4>4 DEF Bumping
        <5> QED BY <1>1, <3>1, <4>2, <4>4, <5>1
      <4> QED BY <4>3, <4>4
    <3>3. CASE ~Bump /\ UNCHANGED <<updates, captured>>
      <4>1. ~Bumping(q)
        BY <1>5, <2>5, <3>3, PollMoves
      <4> QED BY <3>1, <3>3, <4>1
    <3>4. CASE ForgetRun
      <4>1. PICK r \in Runs : r = poll.run
        BY <1>1, <3>4 DEF ForgetRun
      <4>2. /\ updates' = [updates EXCEPT ![r] = Unset] /\ captured' = [captured EXCEPT ![r] = Unset]
            /\ poll.pc = "forget"
        BY <3>4, <4>1 DEF ForgetRun
      <4>3. q # r
        BY <1>1, <2>5, <4>2
      <4> QED BY <1>1, <3>1, <4>2, <4>3 DEF Bumping
    <3>5. ASSUME NEW s \in Sweepers, SweepGone(s) PROVE Covered(q)'
      <4>1. PICK gone : /\ updates' = [r \in Runs |-> IF r \in gone THEN Unset ELSE updates[r]]
                        /\ captured' = [r \in Runs |-> IF r \in gone THEN Unset ELSE captured[r]]
        BY <3>5 DEF SweepGone
      <4>2. q \notin gone
        BY <2>5, <4>1
      <4>3. poll' = poll
        BY <3>5 DEF SweepGone
      <4> QED BY <2>5, <3>1, <4>1, <4>2, <4>3 DEF Bumping
    <3>6. ASSUME NEW r \in Runs, FinalCapture(r) PROVE Covered(q)'
      <4>1. updates' = updates /\ last' = last /\ ~Bumping(q)
        BY <3>6 DEF FinalCapture, Terminal, Bumping, Idle
      <4>2. CASE captured'[q] = captured[q]
        BY <3>1, <4>1, <4>2
      <4>3. CASE captured'[q] # captured[q]
        <5>1. q = r /\ r \in Resident /\ ~NothingNew(r)
          BY <1>1, <3>6, <4>3, FinalCaptureCases DEF FrameWritten
        <5>2. CASE Empty(r)
          BY <1>2, <4>1, <5>1, <5>2, SnapshotCovers, CoveredStays
        <5>3. CASE ~Empty(r)
          <6>1. FrameWritten(r, Snapshot(r), RunSeq(r)) /\ Snapshot(r) \in FrameSet /\ RunSeq(r) \in Nat
            BY <3>6, <5>1, <5>3, FinalCaptureCases, SnapshotFacts, RunSeqType
          <6>2. \A k \in Trucks : Unwritten(r, k) =>
                  \E row \in Snapshot(r).rows : row[1] = k /\ row[3] = last[r][k]
            BY <1>2, <5>1, SnapshotCovers
          <6> QED BY <4>1, <5>1, <6>1, <6>2, FrameCovers
        <5> QED BY <5>2, <5>3
      <4> QED BY <4>2, <4>3
    <3>7. ASSUME NEW s \in Sweepers, SweepSnapshot(s) PROVE Covered(q)'
      <4>1. PICK r \in Runs : r = sweep[s].run
        BY <1>1, <3>7 DEF SweepSnapshot, Holds
      <4>2. updates' = updates /\ last' = last /\ poll' = poll
            /\ \/ captured' = captured
               \/ r \in Resident /\ Empty(r) /\ captured' = [captured EXCEPT ![r] = sweep[s].seq]
        BY <3>7, <4>1 DEF SweepSnapshot, world
      <4>3. CASE captured'[q] = captured[q]
        BY <2>5, <3>1, <4>2, <4>3 DEF Bumping
      <4>4. CASE captured'[q] # captured[q]
        <5>1. q = r /\ r \in Resident /\ Empty(r)
          BY <1>1, <4>2, <4>4
        <5> QED BY <1>2, <4>2, <5>1, SnapshotCovers, CoveredStays
      <4> QED BY <4>3, <4>4
    <3>8. ASSUME NEW s \in Sweepers, SweepWrite(s) PROVE Covered(q)'
      <4>1. Holds(s) /\ sweep[s].pc = "write"
        BY <3>8 DEF SweepWrite, Holds
      <4>2. PICK r \in Runs, f \in FrameSet, n \in Nat : r = sweep[s].run /\ f = sweep[s].frame /\ n = sweep[s].seq
        BY <1>1, <4>1
      <4>3. FrameWritten(r, f, n) /\ updates' = updates /\ last' = last /\ poll' = poll
        BY <3>8, <4>2 DEF SweepWrite, world
      <4>4. ~Bumping(q)
        BY <2>5, <4>3 DEF Bumping
      <4>5. CASE q = r
        <5>1. \A k \in Trucks : Unwritten(q, k) => \E row \in f.rows : row[1] = k /\ row[3] = last[q][k]
          BY <1>3, <4>1, <4>2, <4>4, <4>5
        <5> QED BY <4>3, <4>5, <5>1, FrameCovers
      <4>6. CASE q # r
        <5>1. captured'[q] = captured[q]
          BY <4>3, <4>6, WrittenFrames
        <5> QED BY <3>1, <4>3, <4>4, <5>1
      <4> QED BY <4>5, <4>6
    <3> QED BY <1>5, <3>2, <3>3, <3>4, <3>5, <3>6, <3>7, <3>8, SequenceChanges
  <2>6. ASSUME NEW s \in Sweepers, sweep'[s].pc = "write", NEW r, r = sweep'[s].run, ~Bumping(r)',
               NEW k \in Trucks, Unwritten(r, k)'
        PROVE  \E row \in sweep'[s].frame.rows : row[1] = k /\ row[3] = last'[r][k]
    <3>1. CASE Sweeping(s)
      <4>1. SweepSnapshot(s) /\ sweep[s].run = r /\ r \in Resident /\ sweep'[s].frame = Snapshot(r)
        BY <2>6, <3>1, SweepHands
      <4>2. r \in Runs /\ last' = last
        BY <1>1, <4>1 DEF SweepSnapshot, Holds, world
      <4>3. Unwritten(r, k)
        BY <2>6, <4>2, CoveredStays
      <4> QED BY <1>2, <4>1, <4>2, <4>3, SnapshotCovers
    <3>2. CASE ~Sweeping(s)
      <4>1. sweep'[s] = sweep[s]
        BY <1>5, <3>2, SweepChanges, SweepHands
      <4>2. Holds(s) /\ sweep[s].pc = "write" /\ r = sweep[s].run /\ r \in Runs
        BY <1>1, <2>6, <4>1 DEF Holds
      <4>3. ~Bump
        BY <4>2, OneWriter DEF Bump
      <4>4. ~Bumping(r)
        BY <1>5, <2>6, <4>3, PollMoves
      <4>5. ~(Update /\ poll.run = r)
        BY <2>6 DEF Update, Bumping
      <4>6. last'[r] = last[r]
        BY <1>5, <4>2, <4>5, LastChanges
      <4>7. Unwritten(r, k)
        BY <2>6, <4>2, <4>6, CoveredStays
      <4>8. \E row \in sweep[s].frame.rows : row[1] = k /\ row[3] = last[r][k]
        BY <1>3, <4>2, <4>4, <4>7
      <4> QED BY <4>1, <4>6, <4>8
    <3> QED BY <3>1, <3>2
  <2>7. (poll.pc \in Finishing => Covered(poll.run) \/ poll.run \in dropped)'
    <3>1. ASSUME poll'.pc \in Finishing PROVE (Covered(poll.run) \/ poll.run \in dropped)'
      BY <2>4, <3>1 DEF Covered, Unwritten
    <3> QED BY <3>1 DEF Finishing
  <2>8. \A s \in Sweepers : (sweep[s].pc = "write" /\ ~Bumping(sweep[s].run) =>
         \A k \in Trucks : Unwritten(sweep[s].run, k) =>
           \E row \in sweep[s].frame.rows : row[1] = k /\ row[3] = last[sweep[s].run][k])'
    <3>1. ASSUME NEW s \in Sweepers, sweep'[s].pc = "write", ~Bumping(sweep[s].run)',
                 NEW k \in Trucks, Unwritten(sweep[s].run, k)'
          PROVE  \E row \in sweep'[s].frame.rows : row[1] = k /\ row[3] = last'[sweep'[s].run][k]
      <4>1. PICK r : r = sweep'[s].run
        OBVIOUS
      <4>2. ~Bumping(r)' /\ Unwritten(r, k)'
        BY <3>1, <4>1 DEF Bumping, Unwritten, Rows
      <4> QED BY <2>6, <3>1, <4>1, <4>2
    <3> QED BY <3>1
  <2> QED BY <2>3, <2>5, <2>7, <2>8 DEF Counted
<1> QED
  BY <1>4, <1>5

-----------------------------------------------------------------------------
(* Every reachable state.                                                  *)

LEMMA InvInit ==
  ASSUME Init
  PROVE  IInv
<1>1. TypeInv /\ FinishInv /\ FirstProcess
  BY TypeInit, FinishInit, FirstProcessInit
<1>2. Restored /\ BooksInject
  BY RestoredInit
<1>3. Unique /\ Dense /\ Stays
  BY IndicesInit, StaysInit
<1>4. Counts /\ Counted
  BY CountsInit, CountedInit
<1> QED
  BY <1>1, <1>2, <1>3, <1>4 DEF IInv

LEMMA InvStep ==
  ASSUME IInv, Step, UNCHANGED limit
  PROVE  IInv'
<1>1. TypeInv /\ FinishInv /\ FirstProcess /\ Restored /\ BooksInject /\ Unique /\ Dense /\ Stays /\ Counts /\ Counted
  BY DEF IInv
<1>2. TypeInv' /\ FinishInv' /\ FirstProcess'
  BY <1>1, TypeNext, FinishNext, FirstProcessNext
<1>3. Restored' /\ BooksInject'
  BY <1>1, RestoredNext, BooksInjectNext
<1>4. Unique' /\ Dense' /\ Stays'
  BY <1>1, UniqueNext, DenseNext, StaysNext
<1>5. Counts' /\ Counted'
  BY <1>1, CountsNext, CountedNext
<1> QED
  BY <1>2, <1>3, <1>4, <1>5 DEF IInv

LEMMA InvStutter ==
  ASSUME IInv, UNCHANGED vars
  PROVE  IInv'
<1>1. /\ UNCHANGED <<frames, meta_book, meta_max, meta_status>> /\ UNCHANGED <<lru, book, counter, slab>>
      /\ UNCHANGED <<updates, captured, max_idx, sig, restored, finalized, dropped>>
      /\ UNCHANGED <<poll, sweep, limit>> /\ UNCHANGED <<ver, last, terminal, faults, crashes, replays>>
  BY DEF vars, store, hot, svc, world
<1>2. TypeInv'
  BY TypeStutter DEF IInv
<1>3. FinishInv'
  BY <1>1 DEF IInv, FinishInv
<1>4. FirstProcess'
  BY <1>1 DEF IInv, FirstProcess, Resident, Empty, NoPositions, Rows
<1>5. Restored'
  BY <1>1 DEF IInv, Restored, Resident, Inject
<1>6. BooksInject'
  BY <1>1 DEF IInv, BooksInject, BooksRestored, Inject
<1>7. Unique'
  BY <1>1 DEF IInv, Unique, Resident
<1>8. Room' = Room
  BY <1>1 DEF Room
<1>9. Dense'
  BY <1>1, <1>8 DEF IInv, Dense, Resident, Writing, Writes
<1>10. Stays'
  BY <1>1, <1>8 DEF IInv, Stays, Resident, NoPositions, TrucksOf
<1>11. Counts'
  BY <1>1 DEF IInv, Counts, Holds, RunSeq
<1>12. Counted'
  BY <1>1, <1>8 DEF IInv, Counted, BooksRestored, Bumping, Covered, Unwritten, Rows, Resident, Finishing
<1> QED
  BY <1>2, <1>3, <1>4, <1>5, <1>6, <1>7, <1>9, <1>10, <1>11, <1>12 DEF IInv

LEMMA InvNext ==
  ASSUME IInv, [Next]_vars
  PROVE  IInv'
BY InvStep, InvStutter DEF Next

LEMMA InvTypeOK ==
  ASSUME IInv
  PROVE  TypeOK
<1>1. StoreTyped /\ HotTyped /\ SvcTyped /\ WorldTyped /\ PollTyped /\ SweepTyped /\ limit.runs \subseteq Runs
  BY LimitType DEF IInv, TypeInv, WorldTyped
<1>2. \A r \in Runs : \A i \in 1 .. Len(frames[r]) :
        frames[r][i].idx \in Nat /\ frames[r][i].rows \subseteq Trucks \X Nat \X (1 .. limit.updates)
  BY <1>1, FrameAt DEF RowSet
<1>3. Resident \subseteq Runs /\ Len(lru) <= MaxRuns /\ Cardinality(Resident) = Len(lru)
  <2>1. lru \in Seq(limit.runs) /\ Distinct(lru) /\ Len(lru) <= MaxRuns
    BY <1>1 DEF HotTyped
  <2>2. Cardinality(Elems(lru)) = Len(lru)
    BY <2>1, DistinctCount
  <2> QED BY <1>1, <2>1, <2>2, ResidentElems, ResidentIsLimited
<1>4. \A r \in Runs : ~Empty(r) => r \in Resident
  BY <1>1 DEF HotTyped
<1>5. /\ book \in [Runs -> SUBSET (Trucks \X Nat)] /\ meta_book \in [Runs -> SUBSET (Trucks \X Nat)]
      /\ meta_max \in [Runs -> Nat \cup {Unset}] /\ meta_status \in [Runs -> BOOLEAN]
      /\ counter \in [Runs -> Nat] /\ slab \in [Runs -> [Trucks -> 0 .. limit.updates]]
      /\ updates \in [Runs -> Nat \cup {Unset}] /\ captured \in [Runs -> Nat \cup {Unset}]
      /\ restored \subseteq Runs /\ finalized \subseteq Runs /\ dropped \subseteq Runs
  <2>1. Books \subseteq SUBSET (Trucks \X Nat)
    BY DEF Books
  <2> QED BY <1>1, <2>1 DEF StoreTyped, HotTyped, SvcTyped, Indices, Slabs
<1>6. /\ poll.pc \in {"idle", "update", "bump", "meta_read", "meta_write", "mark", "evict", "forget"}
      /\ \A s \in Sweepers : sweep[s].pc \in
           {"idle", "resident", "gone", "next", "snap", "write", "meta_read", "meta_write"}
  BY <1>1 DEF PollTyped, SweepTyped, InHand
<1> QED
  BY <1>2, <1>3, <1>4, <1>5, <1>6, Zenon DEF TypeOK

LEMMA InvFramesDense ==
  ASSUME IInv
  PROVE  FramesDense
<1>1. ASSUME NEW r \in Runs, crashes = 0, faults = 0 \/ Room PROVE Indexes(r) = 0 .. Len(frames[r]) - 1
  <2>1. PICK n \in Nat : n = Len(frames[r])
    BY FrameAt DEF IInv, TypeInv
  <2>2. \A i \in 1 .. n : frames[r][i].idx = i - 1
    BY <1>1, <2>1 DEF IInv, Dense
  <2>3. \A x \in 0 .. n - 1 : x + 1 \in 1 .. n /\ x = (x + 1) - 1
    BY <2>1
  <2>4. \A x \in 0 .. n - 1 : \E i \in 1 .. n : x = frames[r][i].idx
    BY <2>2, <2>3
  <2>5. \A i \in 1 .. n : frames[r][i].idx \in 0 .. n - 1
    BY <2>1, <2>2
  <2> QED BY <2>1, <2>4, <2>5 DEF Indexes
<1>2. ASSUME NEW r \in Runs, crashes = 0 \/ faults = 0
      PROVE  \A i, j \in 1 .. Len(frames[r]) : frames[r][i].idx = frames[r][j].idx => i = j
  BY <1>2 DEF IInv, Unique
<1> QED
  BY <1>1, <1>2 DEF FramesDense

LEMMA InvSlots ==
  ASSUME IInv
  PROVE  SlotsMeanOneTruck
<1>1. ASSUME NEW r \in Runs, BooksRestored PROVE \A e, f \in book[r] : e[2] = f[2] => e = f
  BY <1>1 DEF IInv, BooksInject, Inject
<1>2. ASSUME NEW r \in Runs, crashes = 0, NEW x \in Rows(r), NEW y \in Rows(r), x[2] = y[2]
      PROVE  x[1] = y[1]
  <2>1. PICK e, f : e = <<x[1], x[2]>> /\ f = <<y[1], y[2]>>
    OBVIOUS
  <2>2. e \in book[r] /\ f \in book[r]
    BY <1>2, <2>1 DEF IInv, FirstProcess
  <2>3. e[1] = x[1] /\ e[2] = x[2] /\ f[1] = y[1] /\ f[2] = y[2]
    BY <2>1
  <2>4. BooksRestored
    BY <1>2 DEF BooksRestored
  <2>5. e = f
    BY <1>1, <1>2, <2>2, <2>3, <2>4
  <2> QED BY <2>3, <2>5
<1> QED
  BY <1>1, <1>2 DEF SlotsMeanOneTruck

LEMMA InvSafe ==
  ASSUME IInv
  PROVE  FramesSafe /\ NoPositionSilentlyLost
<1>1. FramesSafe
  BY InvTypeOK, InvFramesDense, InvSlots DEF FramesSafe
<1>2. NoPositionSilentlyLost
  BY DEF IInv, Counted, Covered, NoPositionSilentlyLost
<1> QED
  BY <1>1, <1>2

LEMMA NotReadmitted ==
  ASSUME IInv, Next, crashes = 0, NEW r \in Runs, terminal[r] = "done", r \in Resident'
  PROVE  r \in Resident
<1>1. r \in finalized
  BY DEF IInv, FinishInv
<1>2. CASE Crash
  <2>1. lru' = <<>>
    BY <1>2 DEF Crash
  <2>2. Resident' = {}
    BY <2>1 DEF Resident
  <2> QED BY <2>2
<1>3. CASE ~Crash
  BY <1>1, <1>3, ResidentChanges DEF IInv, Next
<1> QED
  BY <1>2, <1>3

-----------------------------------------------------------------------------

\* For every set of runs, trucks and sweep threads, every size of the hot tier, whatever
\* it evicts, the store refuses and a crash forgets (service.py: capture_run, restore_run_codes,
\* persist_run_meta; hot.py: snapshot, seed_run_identity, update_position): no index is used
\* twice, the frames have no hole, and a slot means one truck.
THEOREM FramesAlwaysSafe == Spec => []FramesSafe
<1>1. Init => IInv
  BY InvInit
<1>2. IInv /\ [Next]_vars => IInv'
  BY InvNext
<1>3. IInv => FramesSafe
  BY InvSafe
<1> QED
  BY <1>1, <1>2, <1>3, PTL DEF Spec

\* For every number of runs the hot tier has room for (service.py: finalize_run,
\* _positions_uncaptured): a run that is done and gone has the newest position of each
\* truck in a frame, or was counted among those that lost some, whatever the poll thread and
\* the sweeps did to it in between.
THEOREM PositionsNeverSilentlyLost == Spec => []NoPositionSilentlyLost
<1>1. Init => IInv
  BY InvInit
<1>2. IInv /\ [Next]_vars => IInv'
  BY InvNext
<1>3. IInv => NoPositionSilentlyLost
  BY InvSafe
<1> QED
  BY <1>1, <1>2, <1>3, PTL DEF Spec

\* For every configuration (service.py: on_trip_geo's check of _finalized_runs): the process
\* that finished a run never takes it into the hot tier again, positions and terminals
\* that are redelivered late included.
THEOREM FinishedStaysOut == Spec => FinishedNeverReadmitted
<1>1. Init => IInv
  BY InvInit
<1>2. IInv /\ [Next]_vars => IInv'
  BY InvNext
<1>3. IInv /\ [Next]_vars =>
        [crashes = 0 => \A r \in Runs : (terminal[r] = "done" /\ r \in Resident') => r \in Resident]_vars
  BY NotReadmitted
<1> QED
  BY <1>1, <1>2, <1>3, PTL DEF Spec, FinishedNeverReadmitted

-----------------------------------------------------------------------------
(* The live stream of one viewer, for any number of trucks, events,        *)
(* evictions and reconnections.  StreamInv says what the connection's      *)
(* cursor has behind it; what a frame tells follows from one turn.         *)

\* The instance counts with its own operator, and it is the same one.
LEMMA SameCount == \A S : Stream!Cardinality(S) = Cardinality(S)
BY DEF Stream!Cardinality, Cardinality

\* The agents of a run are named, and there are finitely many.
TrucksNamed == IsFiniteSet(Reporters) /\ "" \notin Reporters

SlotMap(s) ==
  /\ s \in Seq(Reporters)
  /\ \A i, j \in DOMAIN s : s[i] = s[j] => i = j

SlabInv == SlotMap(codes) /\ placed \subseteq DOMAIN codes

\* The bus holds events already published; the cursor is one of them or none.
BusInv ==
  /\ head \in Nat /\ bus \subseteq 1 .. head
  /\ conn.start \in Nat /\ conn.cursor \in 0 .. head /\ conn.sent \in Nat
  /\ conn = [open |-> conn.open, start |-> conn.start, cursor |-> conn.cursor, sent |-> conn.sent,
             last |-> conn.last, known |-> conn.known]

StreamInv == SlabInv /\ BusInv /\ Stream!NoEventSkipped

-----------------------------------------------------------------------------
(* The slot map.                                                           *)

LEMMA SlotsFit ==
  ASSUME TrucksNamed, NEW s, SlotMap(s)
  PROVE  DOMAIN s \subseteq Stream!Slots
<1>1. s \in [1 .. Len(s) -> Reporters] /\ DOMAIN s = 1 .. Len(s) /\ Len(s) \in Nat
  BY DEF SlotMap
<1>2. s \in Injection(1 .. Len(s), Reporters)
  BY <1>1 DEF SlotMap, Injection, IsInjective
<1>3. Cardinality(1 .. Len(s)) <= Cardinality(Reporters)
  BY <1>2, FS_Injection DEF TrucksNamed
<1>4. Cardinality(Reporters) \in Nat
  BY FS_CardinalityType DEF TrucksNamed
<1>5. Cardinality(1 .. Len(s)) = Len(s)
  <2>1. Len(s) \in Nat /\ 1 \in Int /\ Len(s) \in Int
    BY <1>1
  <2>2. Cardinality(1 .. Len(s)) = IF 1 > Len(s) THEN 0 ELSE Len(s) - 1 + 1
    BY <2>1, FS_Interval
  <2> QED
    BY <2>1, <2>2
<1> QED
  BY <1>1, <1>3, <1>4, <1>5, SameCount DEF Stream!Slots

\* slot_for: a truck keeps its slot, a new one gets the next.
LEMMA SlotGiven ==
  ASSUME NEW s, SlotMap(s), NEW t \in Reporters
  PROVE  /\ SlotMap(Stream!slot_for(s, t)) /\ DOMAIN s \subseteq DOMAIN Stream!slot_for(s, t)
         /\ Stream!SlotOf(Stream!slot_for(s, t), t) \in DOMAIN Stream!slot_for(s, t)
<1>1. Stream!ToSet(s) = {s[i] : i \in DOMAIN s} /\ DOMAIN s = 1 .. Len(s) /\ Len(s) \in Nat
  BY DEF Stream!ToSet, SlotMap
<1>2. CASE t \in Stream!ToSet(s)
  <2>1. Stream!slot_for(s, t) = s /\ \E i \in DOMAIN s : s[i] = t
    BY <1>1, <1>2 DEF Stream!slot_for
  <2> QED
    BY <2>1 DEF Stream!SlotOf
<1>3. CASE t \notin Stream!ToSet(s)
  <2> DEFINE u == Append(s, t)
  <2>1. /\ Stream!slot_for(s, t) = u /\ u \in Seq(Reporters) /\ DOMAIN u = 1 .. Len(s) + 1
        /\ u[Len(s) + 1] = t /\ \A i \in 1 .. Len(s) : u[i] = s[i] /\ s[i] # t
    BY <1>1, <1>3 DEF Stream!slot_for, SlotMap
  <2> HIDE DEF u
  <2>2. SlotMap(u)
    BY <1>1, <2>1 DEF SlotMap
  <2>3. Len(s) + 1 \in DOMAIN u
    BY <1>1, <2>1
  <2> QED
    BY <1>1, <2>1, <2>2, <2>3 DEF Stream!SlotOf
<1> QED
  BY <1>2, <1>3

-----------------------------------------------------------------------------
(* The bus.                                                                *)

\* since: a finite set of numbers has a greatest element.
LEMMA MaxOf ==
  ASSUME NEW S, IsFiniteSet(S), S \subseteq Int, S # {}
  PROVE  Stream!Max(S) \in S /\ \A y \in S : Stream!Max(S) >= y
<1> DEFINE above(x) == {y \in S : y > x}
           sizes == {Cardinality(above(x)) : x \in S}
<1>1. \A x \in S : IsFiniteSet(above(x)) /\ Cardinality(above(x)) \in Nat
  BY FS_Subset, FS_CardinalityType
<1>2. sizes \subseteq Nat /\ sizes # {}
  BY <1>1
<1>3. PICK m \in sizes : \A n \in sizes : ~(<<n, m>> \in OpToRel(<, Nat))
  BY <1>2, NatLessThanWellFounded, WFMin
<1>4. PICK x \in S : m = Cardinality(above(x))
  OBVIOUS
<1>5. above(x) = {}
  <2> SUFFICES ASSUME NEW y \in above(x) PROVE FALSE
    OBVIOUS
  <2>1. above(y) \subseteq above(x) /\ y \notin above(y) /\ y \in S
    BY <1>4
  <2>2. Cardinality(above(y)) < m
    BY <1>1, <1>4, <2>1, FS_Subset
  <2>3. Cardinality(above(y)) \in sizes
    BY <2>1
  <2>4. <<Cardinality(above(y)), m>> \in OpToRel(<, Nat)
    BY <1>2, <2>2, <2>3 DEF OpToRel
  <2> QED
    BY <1>3, <2>3, <2>4
<1>6. \A y \in S : x >= y
  BY <1>5
<1> QED
  BY <1>6, Zenon DEF Stream!Max

\* since leaves nothing behind its cursor that it did not return.
LEMMA SinceSkipsNothing ==
  ASSUME BusInv, Limit \in Nat, NEW c \in 0 .. head
  PROVE  /\ Stream!since(c).cursor \in 0 .. head /\ Stream!since(c).events \subseteq bus
         /\ \A e \in bus : e > c => e \in Stream!since(c).events \/ e > Stream!since(c).cursor
<1> DEFINE newer == {e \in bus : e > c}
           upto(e) == {f \in newer : f <= e}
           out == {e \in newer : Cardinality(upto(e)) <= Limit}
<1>1. Stream!since(c) = [events |-> out, cursor |-> IF out = {} THEN c ELSE Stream!Max(out)]
  BY SameCount DEF Stream!since
<1>2. head \in Nat /\ bus \subseteq 1 .. head /\ IsFiniteSet(1 .. head) /\ newer \subseteq 1 .. head
  <2>1. head \in Nat /\ bus \subseteq 1 .. head /\ 1 \in Int /\ head \in Int
    BY DEF BusInv
  <2>2. IsFiniteSet(1 .. head)
    BY <2>1, FS_Interval
  <2> QED
    BY <2>1, <2>2
<1>3. IsFiniteSet(newer) /\ IsFiniteSet(out) /\ out \subseteq 1 .. head
  BY <1>2, FS_Subset
<1>4. \A e, m \in newer : m \in out /\ e <= m => e \in out
  <2> SUFFICES ASSUME NEW e \in newer, NEW m \in newer, m \in out, e <= m PROVE e \in out
    OBVIOUS
  <2>1. upto(e) \subseteq upto(m) /\ IsFiniteSet(upto(m))
    BY <1>2, <1>3, FS_Subset
  <2>2. /\ Cardinality(upto(e)) <= Cardinality(upto(m))
        /\ Cardinality(upto(m)) \in Nat /\ Cardinality(upto(e)) \in Nat
    BY <2>1, FS_Subset, FS_CardinalityType
  <2> QED
    BY <2>2
<1>5. CASE out = {}
  <2>1. \A e \in newer : e > c
    OBVIOUS
  <2> QED
    BY <1>1, <1>2, <1>5
<1>6. CASE out # {}
  <2> DEFINE m == Stream!Max(out)
  <2>1. m \in out /\ \A y \in out : m >= y
    <3>1. IsFiniteSet(out) /\ out \subseteq Int /\ out # {}
      BY <1>2, <1>3, <1>6
    <3> HIDE DEF out
    <3> QED
      BY <3>1, MaxOf
  <2>2. m \in 1 .. head /\ m \in newer
    BY <1>3, <2>1
  <2>3. Stream!since(c).cursor = m /\ Stream!since(c).events = out
    <3> HIDE DEF out
    <3> QED
      BY <1>1, <1>6
  <2> HIDE DEF m
  <2>4. \A e \in newer : e \in out \/ e > m
    BY <1>2, <1>4, <2>1, <2>2
  <2> QED
    BY <1>2, <1>3, <2>2, <2>3, <2>4
<1> QED
  BY <1>5, <1>6

-----------------------------------------------------------------------------

LEMMA InitStream == Stream!Init => StreamInv
BY DEF Stream!Init, StreamInv, SlabInv, SlotMap, BusInv, Stream!NoEventSkipped, Stream!Closed

LEMMA HotStep ==
  ASSUME StreamInv, (\E t \in Reporters : Stream!Report(t)) \/ Stream!Capture \/ Stream!Evict
  PROVE  StreamInv'
<1>1. BusInv' /\ Stream!NoEventSkipped'
  BY DEF StreamInv, BusInv, Stream!NoEventSkipped, Stream!Report, Stream!Capture, Stream!Evict, Stream!viewer
<1>2. ASSUME NEW t \in Reporters, Stream!Report(t) PROVE SlabInv'
  <2>1. PICK base \in IF inTier THEN {codes} ELSE {codes, <<>>} :
          /\ codes' = Stream!slot_for(base, t)
          /\ placed' = (IF inTier THEN placed ELSE {}) \cup {Stream!SlotOf(codes', t)}
    BY <1>2 DEF Stream!Report
  <2>2. SlotMap(<<>>)
    BY DEF SlotMap
  <2>3. SlotMap(base) /\ (inTier => base = codes)
    BY <2>1, <2>2 DEF StreamInv, SlabInv
  <2>4. SlotMap(codes') /\ DOMAIN base \subseteq DOMAIN codes' /\ Stream!SlotOf(codes', t) \in DOMAIN codes'
    BY <2>1, <2>3, SlotGiven
  <2> QED
    BY <2>1, <2>3, <2>4 DEF StreamInv, SlabInv, SlotMap
<1>3. CASE Stream!Capture \/ Stream!Evict
  <2>1. codes' = codes /\ placed' \subseteq placed
    BY <1>3 DEF Stream!Capture, Stream!Evict
  <2> QED
    BY <1>1, <2>1 DEF StreamInv, SlabInv, SlotMap
<1> QED
  BY <1>1, <1>2, <1>3 DEF StreamInv

LEMMA PublishStep == ASSUME StreamInv, Stream!publish PROVE StreamInv'
<1> DEFINE full == bus \cup {head + 1}
<1>1. PICK pushed \in SUBSET full :
        /\ bus' = full \ pushed /\ head' = head + 1 /\ conn' = conn /\ got' = got
        /\ overrun' = overrun \cup {e \in pushed : conn.open /\ e > conn.cursor}
  BY DEF Stream!publish
<1>2. SlabInv'
  BY DEF Stream!publish, Stream!hot, StreamInv, SlabInv, SlotMap
<1>3. BusInv'
  BY <1>1 DEF StreamInv, BusInv
<1>4. Stream!NoEventSkipped'
  BY <1>1 DEF StreamInv, BusInv, Stream!NoEventSkipped
<1> QED
  BY <1>2, <1>3, <1>4 DEF StreamInv

LEMMA ConnectionStep == ASSUME StreamInv, Stream!Connect \/ Stream!Disconnect PROVE StreamInv'
<1>1. SlabInv'
  BY DEF Stream!Connect, Stream!Disconnect, Stream!hot, StreamInv, SlabInv, SlotMap
<1>2. /\ bus' = bus /\ head' = head /\ UNCHANGED Stream!hot
      /\ \/ conn' = Stream!Closed
         \/ conn' = [open |-> TRUE, start |-> head, cursor |-> head, sent |-> 0, last |-> 0, known |-> <<>>]
  <2>1. CASE Stream!Connect
    <3>1. [Stream!Closed EXCEPT !.open = TRUE, !.start = head, !.cursor = head]
            = [[[Stream!Closed EXCEPT !.open = TRUE] EXCEPT !.start = head] EXCEPT !.cursor = head]
      OBVIOUS
    <3> QED
      BY <2>1, <3>1 DEF Stream!Connect, Stream!Closed
  <2>2. CASE Stream!Disconnect
    BY <2>2 DEF Stream!Disconnect
  <2> QED
    BY <2>1, <2>2
<1>3. BusInv'
  BY <1>2 DEF Stream!Closed, StreamInv, BusInv
<1>4. Stream!NoEventSkipped'
  BY <1>2 DEF Stream!Closed, StreamInv, BusInv, Stream!NoEventSkipped
<1> QED
  BY <1>1, <1>3, <1>4 DEF StreamInv

\* What a turn makes of the connection.
LEMMA Turned ==
  ASSUME BusInv, Stream!live_frames
  PROVE  \E sent \in BOOLEAN :
           LET asks == conn.sent = 0 \/ \E i \in placed : ~ Stream!Knows(conn.known, i) IN
           /\ conn' = [open |-> conn.open, start |-> conn.start, cursor |-> Stream!since(conn.cursor).cursor,
                       sent |-> IF sent THEN conn.sent + 1 ELSE conn.sent,
                       last |-> IF sent THEN frameIdx ELSE conn.last,
                       known |-> IF sent /\ asks THEN Stream!codebook_delta(conn.known) ELSE conn.known]
           /\ sent => drawn' = [on |-> TRUE, slots |-> placed, told |-> asks]
<1> DEFINE asks == conn.sent = 0 \/ \E i \in placed : ~ Stream!Knows(conn.known, i)
           due == inTier /\ placed # {} /\ (conn.sent = 0 \/ conn.last # frameIdx)
           c == Stream!since(conn.cursor).cursor
           polled == [conn EXCEPT !.cursor = c]
           k == IF asks THEN Stream!codebook_delta(conn.known) ELSE polled.known
           after == [polled EXCEPT !.sent = polled.sent + 1, !.last = frameIdx, !.known = k]
<1>1. polled = [open |-> conn.open, start |-> conn.start, cursor |-> c, sent |-> conn.sent,
                last |-> conn.last, known |-> conn.known]
  BY DEF BusInv
<1>2. IF due THEN conn' = after /\ drawn' = [on |-> TRUE, slots |-> placed, told |-> asks] ELSE conn' = polled
  BY DEF Stream!live_frames
<1>3. after = [[[polled EXCEPT !.sent = polled.sent + 1] EXCEPT !.last = frameIdx] EXCEPT !.known = k]
  OBVIOUS
<1>4. after = [open |-> conn.open, start |-> conn.start, cursor |-> c, sent |-> conn.sent + 1,
               last |-> frameIdx, known |-> IF asks THEN Stream!codebook_delta(conn.known) ELSE conn.known]
  <2>1. polled.known = conn.known /\ polled.sent = conn.sent
    BY <1>1
  <2> DEFINE one == [polled EXCEPT !.sent = polled.sent + 1]
             two == [one EXCEPT !.last = frameIdx]
             full == IF asks THEN Stream!codebook_delta(conn.known) ELSE conn.known
  <2>2. one = [open |-> conn.open, start |-> conn.start, cursor |-> c, sent |-> conn.sent + 1,
               last |-> conn.last, known |-> conn.known]
    <3> HIDE DEF polled, asks, c
    <3> QED
      BY <1>1, <2>1
  <2>3. two = [open |-> conn.open, start |-> conn.start, cursor |-> c, sent |-> conn.sent + 1,
               last |-> frameIdx, known |-> conn.known]
    <3> HIDE DEF one, c
    <3> QED
      BY <2>2
  <2>4. after = [two EXCEPT !.known = full]
    <3>1. k = full
      BY <2>1
    <3> HIDE DEF polled, asks, c, full, k, after
    <3> QED
      BY <1>3, <3>1
  <2> HIDE DEF two, full, c, after
  <2>5. after = [open |-> conn.open, start |-> conn.start, cursor |-> c, sent |-> conn.sent + 1,
                 last |-> frameIdx, known |-> full]
    BY <2>3, <2>4
  <2> QED
    BY <2>5 DEF full
<1> HIDE DEF polled, after, asks, due, c
<1>5. CASE due
  BY <1>2, <1>4, <1>5 DEF asks, c
<1>6. CASE ~due
  BY <1>1, <1>2, <1>6 DEF asks, c
<1> QED
  BY <1>5, <1>6

LEMMA TurnStep == ASSUME StreamInv, Limit \in Nat, Stream!live_frames PROVE StreamInv'
<1>1. SlabInv'
  BY DEF Stream!live_frames, Stream!hot, StreamInv, SlabInv, SlotMap
<1> DEFINE turn == Stream!since(conn.cursor)
<1>2. \E s \in {conn.sent, conn.sent + 1} : \E l, k :
        conn' = [open |-> conn.open, start |-> conn.start, cursor |-> turn.cursor, sent |-> s,
                 last |-> l, known |-> k]
  BY Turned DEF StreamInv
<1>3. conn.open /\ got' = got \cup turn.events /\ UNCHANGED <<bus, head, overrun>>
  BY DEF Stream!live_frames
<1>4. /\ turn.cursor \in 0 .. head /\ turn.events \subseteq bus
      /\ \A e \in bus : e > conn.cursor => e \in turn.events \/ e > turn.cursor
  BY SinceSkipsNothing DEF StreamInv, BusInv
<1> HIDE DEF turn
<1>5. BusInv'
  BY <1>2, <1>3, <1>4 DEF StreamInv, BusInv
<1>6. Stream!NoEventSkipped'
  BY <1>2, <1>3, <1>4 DEF StreamInv, BusInv, Stream!NoEventSkipped
<1> QED
  BY <1>1, <1>5, <1>6 DEF StreamInv

LEMMA StreamStep == ASSUME StreamInv, Limit \in Nat, [Stream!Next]_(Stream!vars) PROVE StreamInv'
<1>1. CASE UNCHANGED Stream!vars
  BY <1>1 DEF Stream!vars, StreamInv, SlabInv, SlotMap, BusInv, Stream!NoEventSkipped
<1> QED
  BY <1>1, HotStep, PublishStep, ConnectionStep, TurnStep DEF Stream!Next

\* A turn that sends a frame has told the viewer what the frame's slots mean.
LEMMA TellsTrue ==
  ASSUME TrucksNamed, StreamInv, [Stream!Next]_(Stream!vars)
  PROVE  Stream!ToldIsTrue
<1> SUFFICES ASSUME Stream!Sends
             PROVE  /\ drawn'.told => \A i \in DOMAIN codes : conn'.known[i] = codes[i]
                    /\ \A i \in drawn'.slots : Stream!Knows(conn'.known, i)
  BY DEF Stream!ToldIsTrue
<1>1. Stream!live_frames
  <2>1. conn' # conn /\ conn'.sent # 0
    BY DEF Stream!Sends, StreamInv, BusInv
  <2>2. ~(Stream!Connect \/ Stream!Disconnect)
    <3>1. conn' = [Stream!Closed EXCEPT !.open = TRUE, !.start = head, !.cursor = head] => conn'.sent = 0
      BY DEF Stream!Closed
    <3> QED
      BY <2>1, <3>1 DEF Stream!Connect, Stream!Disconnect, Stream!Closed
  <2>3. ~(\/ \E t \in Reporters : Stream!Report(t)
          \/ Stream!Capture \/ Stream!Evict \/ Stream!publish \/ UNCHANGED Stream!vars)
    BY <2>1 DEF Stream!vars, Stream!viewer, Stream!Report, Stream!Capture, Stream!Evict, Stream!publish
  <2> QED
    BY <2>2, <2>3 DEF Stream!Next
<1> DEFINE asks == conn.sent = 0 \/ \E i \in placed : ~ Stream!Knows(conn.known, i)
<1>2. /\ drawn'.slots = placed /\ drawn'.told = asks
      /\ conn'.known = IF asks THEN Stream!codebook_delta(conn.known) ELSE conn.known
  <2>1. PICK sent \in BOOLEAN :
          /\ conn'.sent = (IF sent THEN conn.sent + 1 ELSE conn.sent)
          /\ conn'.known = IF sent /\ asks THEN Stream!codebook_delta(conn.known) ELSE conn.known
          /\ sent => drawn' = [on |-> TRUE, slots |-> placed, told |-> asks]
    BY <1>1, Turned DEF StreamInv
  <2>2. sent = TRUE
    BY <2>1 DEF Stream!Sends, StreamInv, BusInv
  <2> DEFINE drawing(yy) == drawn' = [on |-> TRUE, slots |-> placed, told |-> yy]
  <2>3. \A yy \in BOOLEAN : drawing(yy) => drawn'.slots = placed /\ drawn'.told = yy
    <3>1. \A yy, d : d = [on |-> TRUE, slots |-> placed, told |-> yy] => d.slots = placed /\ d.told = yy
      OBVIOUS
    <3> QED
      BY <3>1, Zenon
  <2>4. asks \in BOOLEAN
    OBVIOUS
  <2> HIDE DEF asks
  <2>5. drawing(asks) /\ conn'.known = IF asks THEN Stream!codebook_delta(conn.known) ELSE conn.known
    BY <2>1, <2>2
  <2> HIDE DEF drawing
  <2> QED
    BY <2>3, <2>4, <2>5
<1>3. CASE asks
  <2>1. \A i \in DOMAIN codes : i \in Stream!Slots /\ codes[i] \in Reporters
    BY SlotsFit DEF StreamInv, SlabInv, SlotMap
  <2>2. DOMAIN conn'.known = Stream!Slots /\ \A i \in DOMAIN codes : conn'.known[i] = codes[i]
    BY <1>2, <1>3, <2>1 DEF Stream!codebook_delta
  <2> QED
    BY <1>2, <2>1, <2>2 DEF Stream!Knows, StreamInv, SlabInv, TrucksNamed
<1>4. CASE ~asks
  BY <1>2, <1>4
<1> QED
  BY <1>3, <1>4

\* The live stream (_LiveBus, live_frames): for any number of trucks, events, evictions
\* and reconnections, a viewer that keeps up misses no event, and a frame never goes out
\* with a slot whose truck it was not told, nor with a book the slab contradicts.
THEOREM StreamSafeAlways == ASSUME TrucksNamed, Limit \in Nat PROVE Stream!Spec => StreamSafe
<1>1. StreamInv /\ [Stream!Next]_(Stream!vars) => StreamInv'
  BY StreamStep
<1>2. StreamInv /\ [Stream!Next]_(Stream!vars) => Stream!ToldIsTrue
  BY TellsTrue
<1>3. StreamInv => Stream!NoEventSkipped
  BY DEF StreamInv
<1> QED
  BY <1>1, <1>2, <1>3, InitStream, PTL DEF Stream!Spec, Stream!StreamSafe, StreamSafe

=============================================================================
