--------------------------- MODULE ArchiveSweepProofs ---------------------------
(***************************************************************************)
(* Proofs about the archive of runs under ONE archive thread, for every    *)
(* set of runs and keys and every bound on writes, frames, faults and      *)
(* crashes.  dump_run has no transaction: SweepInv says what each of its   *)
(* steps may count on while rows are written under it.  The last section   *)
(* is about the working set that DuckDB is over this archive.              *)
(***************************************************************************)
EXTENDS ArchiveSweep, RunViews, FiniteSetTheorems, NaturalsInduction, WellFoundedInduction, TLAPS

LEMMA ConstantTypes ==
  /\ MaxStamp \in Nat /\ MaxFrames \in Nat /\ MaxFaults \in Nat /\ MaxCrashes \in Nat
  /\ IsFiniteSet(Runs) /\ IsFiniteSet(Keys) /\ Keys # {}
BY ArchiveAssumption

-----------------------------------------------------------------------------
(* The operators the sweep is built from.                                  *)

\* Largest: a bounded set of numbers has a largest element, and it is that.
LEMMA LargestOfBounded ==
  ASSUME NEW M \in Nat, NEW S, S \subseteq 0 .. M, S # {}
  PROVE  Largest(S) \in S /\ \A y \in S : y <= Largest(S)
<1> DEFINE T == {M - x : x \in S}
<1>0. \A x \in S : x \in Int /\ M - x \in Nat
  OBVIOUS
<1>1. T \subseteq Nat /\ T # {}
  BY <1>0, Zenon
<1>2. IsWellFoundedOn(OpToRel(<, Nat), Nat)
  BY NatLessThanWellFounded
<1>3. PICK m \in T : \A y \in T : ~(<<y, m>> \in OpToRel(<, Nat))
  BY <1>1, <1>2, WFMin
<1>4. \A y \in T : m <= y
  <2> TAKE y \in T
  <2>1. y \in Nat /\ m \in Nat
    BY <1>1
  <2>2. <<y, m>> \in Nat \X Nat
    BY <2>1
  <2>3. ~(y < m)
    BY <1>3, <2>2, Zenon DEF OpToRel
  <2> QED
    BY <2>1, <2>3
<1>5. PICK x \in S : m = M - x
  OBVIOUS
<1>6. \A y \in S : y <= x
  <2> TAKE y \in S
  <2>1. M - x <= M - y
    BY <1>4, <1>5, Zenon
  <2>2. x \in Int /\ y \in Int /\ M \in Int
    BY <1>0
  <2> HIDE DEF T
  <2> QED
    BY <2>1, <2>2
<1> QED
  BY <1>5, <1>6 DEF Largest

LEMMA MarkBounds ==
  ASSUME NEW f \in [Keys -> 0 .. MaxStamp]
  PROVE  /\ \E k \in Keys : Mark(f) = f[k]
         /\ \A k \in Keys : f[k] <= Mark(f)
         /\ Mark(f) \in 0 .. MaxStamp
<1> DEFINE S == {f[k] : k \in Keys}
<1>1. S \subseteq 0 .. MaxStamp /\ S # {}
  BY ConstantTypes
<1>2. Largest(S) \in S /\ \A y \in S : y <= Largest(S)
  BY <1>1, ConstantTypes, LargestOfBounded
<1> QED
  BY <1>1, <1>2 DEF Mark

LEMMA CountType ==
  ASSUME NEW f
  PROVE  Count(f) \in Nat
<1>1. IsFiniteSet({k \in Keys : f[k] > 0})
  BY ConstantTypes, FS_Subset
<1> QED
  BY <1>1, FS_CardinalityType DEF Count

\* skip_upto: whatever part of a run is archived, a dump of its frames leaves all of
\* those on disk, because only a dense prefix is skipped.
LEMMA FramesBecomeDense ==
  ASSUME NEW r, NEW n \in 0 .. MaxFrames, n_frames[r] = n, arch_frames[r] \subseteq 0 .. n - 1
  PROVE  arch_frames[r] \cup ToWrite(r) = 0 .. n - 1
<1>1. ToWrite(r) \subseteq 0 .. n - 1
  BY DEF ToWrite
<1>2. CASE SkipUpto(r) = -1
  BY <1>2 DEF ToWrite
<1>3. CASE SkipUpto(r) # -1
  <2> DEFINE F == arch_frames[r]
             top == Largest(F)
  <2>1. SkipUpto(r) = top /\ F # {} /\ Cardinality(F) = top + 1
    BY <1>3 DEF SkipUpto
  <2>2. F \subseteq 0 .. MaxFrames
    BY ConstantTypes
  <2>3. top \in F /\ \A y \in F : y <= top
    BY <2>1, <2>2, ConstantTypes, LargestOfBounded
  <2>4. F \subseteq 0 .. top /\ top \in Nat
    BY <2>2, <2>3
  <2>5. IsFiniteSet(0 .. top) /\ Cardinality(0 .. top) = top + 1
    <3> HIDE DEF F, top
    <3>1. 0 \in Int /\ top \in Int /\ ~(0 > top)
      BY <2>4
    <3>2. Cardinality(0 .. top) = IF 0 > top THEN 0 ELSE top - 0 + 1
      BY <3>1, FS_Interval, Zenon
    <3>3. Cardinality(0 .. top) = top + 1
      BY <2>4, <3>2
    <3>4. IsFiniteSet(0 .. top)
      BY <3>1, FS_Interval, Zenon
    <3> QED BY <3>3, <3>4
  <2>6. F = 0 .. top
    BY <2>1, <2>4, <2>5, FS_Subset
  <2> QED
    BY <1>1, <2>1, <2>3, <2>4, <2>6 DEF ToWrite
<1> QED
  BY <1>2, <1>3

-----------------------------------------------------------------------------
(* Types.                                                                  *)

Stamps == 0 .. MaxStamp
PerTable(S) == [Tables -> S]

Summaries == [frame_max : -1 .. MaxFrames - 1, count : PerTable(Nat), mark : PerTable(Stamps),
              complete : BOOLEAN, written : BOOLEAN]

Waiting == [pc : {"next"}, todo : SUBSET Runs]
Begun == [pc : {"frames", "marks"}, run : Runs, drain : BOOLEAN, todo : SUBSET Runs,
          closing : BOOLEAN]
Marked == [pc : {"kpi", "kpi_write", "bd", "bd_write", "summary"}, run : Runs, drain : BOOLEAN,
           todo : SUBSET Runs, closing : BOOLEAN, count : PerTable(Nat), mark : PerTable(Stamps),
           prior : PerTable(Stamps), bd_failed : BOOLEAN, read : [Keys -> Stamps]]
Dumps == Begun \cup Marked
Tasks == {Idle} \cup Waiting \cup Dumps

Types ==
  /\ n_frames \in [Runs -> 0 .. MaxFrames]
  /\ rows \in PerTable([Runs -> [Keys -> Stamps]])
  /\ arch_rows \in PerTable([Runs -> [Keys -> Stamps]])
  /\ status \subseteq Runs /\ export \subseteq Runs
  /\ missing \subseteq Runs \X Keys
  /\ arch_frames \in [Runs -> SUBSET (0 .. MaxFrames - 1)]
  /\ summary \in [Runs -> Summaries]
  /\ queue \in Seq(Runs)
  /\ task \in [Sweepers -> Tasks]
  /\ clock \in Stamps

-----------------------------------------------------------------------------
(* The inductive invariant.                                                *)

\* A run enters the queue once, when it becomes terminal, and the error record of a
\* drain is about such a run.
FinishedOnly ==
  /\ export \subseteq status
  /\ \A i \in 1 .. Len(queue) : queue[i] \in status
  /\ Len(queue) <= Cardinality(status)

\* Stamps come from the clock: a write is later than every mark anybody holds.
StampsArePast ==
  /\ \A t \in Tables, r \in Runs, k \in Keys : rows[t][r][k] <= clock
  /\ \A t \in Tables, r \in Runs : summary[r].mark[t] <= clock

\* A summary's largest frame stands for all the frames below it.
FramesClaimed ==
  \A r \in Runs : /\ arch_frames[r] \subseteq 0 .. n_frames[r] - 1
                  /\ 0 .. summary[r].frame_max \subseteq arch_frames[r]

\* A summary's mark stands for every row that is not newer.
MarksClaimed ==
  \A t \in Tables, r \in Runs, k \in Keys :
    rows[t][r][k] <= summary[r].mark[t] => arch_rows[t][r][k] = rows[t][r][k]

\* What is read is what DuckDB holds, but for rows written since, which are newer
\* than both marks.
ReadFits(d, t) ==
  \A k \in Keys :
    \/ d.read[k] = rows[t][d.run][k]
    \/ rows[t][d.run][k] > d.mark[t] /\ rows[t][d.run][k] > summary[d.run].mark[t]

\* A table is done when the archive holds every row up to the mark of this dump.
TableDone(d, t) ==
  \A k \in Keys : rows[t][d.run][k] <= d.mark[t] => arch_rows[t][d.run][k] = rows[t][d.run][k]

Dense(F) == \A i \in F : 0 .. i \subseteq F

FinishedDump(d) == d.drain \/ d.closing => d.run \in status

\* The marks a dump took before it read any row.
MarksHeld(d) == d.prior = summary[d.run].mark /\ \A t \in Tables : d.mark[t] <= clock

DumpInv(d) ==
  /\ FinishedDump(d)
  /\ d.pc # "frames" => Dense(arch_frames[d.run])
  /\ d.pc \notin {"frames", "marks"} => MarksHeld(d)
  /\ d.pc = "kpi_write" => ReadFits(d, "kpi")
  /\ d.pc = "bd_write" => ReadFits(d, "bd")
  /\ d.pc \in {"bd", "bd_write", "summary"} => TableDone(d, "kpi")
  /\ d.pc = "summary" /\ ~d.bd_failed => TableDone(d, "bd")

DumpsInv == \A s \in Sweepers : task[s] \in Dumps => DumpInv(task[s])

SweepInv ==
  /\ Types /\ blocked \in BOOLEAN
  /\ FinishedOnly /\ StampsArePast /\ FramesClaimed /\ MarksClaimed /\ ClosedIsFinished
  /\ DumpsInv

-----------------------------------------------------------------------------
(* The shape of a task tells where it is.                                  *)

LEMMA TaskShape ==
  ASSUME NEW d \in Tasks
  PROVE  /\ d.pc = "next" => d \in Waiting
         /\ d.pc \in {"frames", "marks"} => d \in Begun
         /\ d.pc \in {"kpi", "kpi_write", "bd", "bd_write", "summary"} => d \in Marked
         /\ d.pc \in {"idle", "next"} => d \notin Dumps
         /\ d \in Dumps => d.run \in Runs /\ d.todo \in SUBSET Runs
BY DEF Tasks, Idle, Waiting, Dumps, Begun, Marked

LEMMA NextOfSweepType ==
  ASSUME NEW todo \in SUBSET Runs
  PROVE  NextOfSweep(todo) \in Tasks /\ NextOfSweep(todo) \notin Dumps
BY DEF NextOfSweep, Tasks, Idle, Waiting, Dumps, Begun, Marked

LEMMA DumpType ==
  ASSUME NEW r \in Runs, NEW drain \in BOOLEAN, NEW todo \in SUBSET Runs, NEW closing \in BOOLEAN
  PROVE  Dump(r, drain, todo, closing) \in Begun
BY DEF Dump, Begun

LEMMA BegunAt ==
  ASSUME NEW d \in Begun
  PROVE  /\ [d EXCEPT !.pc = "marks"] \in Begun
         /\ [d EXCEPT !.pc = "marks"].pc = "marks"
         /\ [d EXCEPT !.pc = "marks"].run = d.run
         /\ [d EXCEPT !.pc = "marks"].drain = d.drain
         /\ [d EXCEPT !.pc = "marks"].closing = d.closing
BY DEF Begun

SameDump(e, d) ==
  /\ e.run = d.run /\ e.drain = d.drain /\ e.closing = d.closing
  /\ e.mark = d.mark /\ e.prior = d.prior /\ e.bd_failed = d.bd_failed

LEMMA MarkedAt ==
  ASSUME NEW d \in Marked, NEW p \in {"bd", "summary"}
  PROVE  LET e == [d EXCEPT !.pc = p]
         IN  e \in Marked /\ e.pc = p /\ SameDump(e, d)
BY DEF Marked, SameDump

LEMMA MarkedReads ==
  ASSUME NEW d \in Marked, NEW p \in {"kpi_write", "bd_write"}, NEW f \in [Keys -> Stamps]
  PROVE  LET e == [[d EXCEPT !.pc = p] EXCEPT !.read = f]
         IN  e \in Marked /\ e.pc = p /\ SameDump(e, d) /\ e.read = f
BY DEF Marked, SameDump

LEMMA MarkedFails ==
  ASSUME NEW d \in Marked
  PROVE  LET e == [[d EXCEPT !.pc = "summary"] EXCEPT !.bd_failed = TRUE, !.closing = FALSE]
         IN  /\ e \in Marked /\ e.pc = "summary" /\ e.bd_failed = TRUE /\ e.closing = FALSE
             /\ e.run = d.run /\ e.drain = d.drain /\ e.mark = d.mark /\ e.prior = d.prior
BY DEF Marked

-----------------------------------------------------------------------------
(* Types are kept.                                                         *)

LEMMA InitTypes == Init => Types /\ blocked \in BOOLEAN
<1> SUFFICES ASSUME Init PROVE Types /\ blocked \in BOOLEAN
  OBVIOUS
<1>1. NoRows \in [Keys -> Stamps]
  BY ConstantTypes DEF NoRows, Stamps
<1>2. None \in Summaries
  BY ConstantTypes DEF None, Summaries, PerTable, Stamps
<1>3. Idle \in Tasks
  BY DEF Tasks
<1>4. Types
  BY <1>1, <1>2, <1>3, ConstantTypes DEF Init, Types, PerTable, Stamps
<1>5. blocked \in BOOLEAN
  BY Zenon DEF Init
<1> QED
  BY <1>4, <1>5

LEMMA IngestTypes ==
  ASSUME Types, Ingesting
  PROVE  Types'
<1> USE ConstantTypes DEF Types
<1>1. ASSUME NEW r \in Runs, WriteFrame(r) PROVE Types'
  BY <1>1 DEF WriteFrame, ingest, mongo
<1>2. ASSUME NEW r \in Runs, Terminal(r) PROVE Types'
  BY <1>2 DEF Terminal, ingest, mongo
<1>3. ASSUME NEW r \in Runs, NEW k \in Keys, StrandRow(r, k) PROVE Types'
  BY <1>3 DEF StrandRow, duck, mongo
<1>4. ASSUME NEW r \in Runs, NEW k \in Keys, NEW t \in Tables, WriteRow(t, r, k) PROVE Types'
  <2>1. clock + 1 \in Stamps /\ clock' = clock + 1
    BY <1>4 DEF WriteRow, Stamps
  <2>2. rows' \in PerTable([Runs -> [Keys -> Stamps]])
    BY <1>4, <2>1 DEF WriteRow, PerTable
  <2>3. missing' \subseteq Runs \X Keys
    BY <1>4 DEF WriteRow
  <2> QED
    BY <1>4, <2>1, <2>2, <2>3 DEF WriteRow, mongo
<1> QED
  BY <1>1, <1>2, <1>3, <1>4 DEF Ingesting

LEMMA BlockedType ==
  ASSUME blocked \in BOOLEAN, [Next]_vars
  PROVE  blocked' \in BOOLEAN
<1> USE DEF ingest
<1>1. CASE Ingesting
  BY <1>1, Zenon DEF Ingesting, WriteFrame, Terminal, StrandRow, WriteRow
<1>2. CASE Crash
  BY <1>2, Zenon DEF Crash
<1>3. ASSUME NEW s \in Sweepers, Sweeping(s) PROVE blocked' \in BOOLEAN
  <2>1. CASE DumpStep(s)
    BY <2>1, Zenon DEF DumpStep, DumpFrames, ReadMarks, ReadKpi, ReadTable, WriteKpi, WriteTable,
                       ReadBreakdown, WriteBreakdown, WriteSummary
  <2>2. CASE DumpFault(s)
    BY <2>2, Zenon DEF DumpFault, DumpFramesFails, WriteKpiFails, WriteTableFails,
                       ReadBreakdownFails, WriteBreakdownFails, WriteSummaryFails
  <2>3. CASE DrainHead(s) \/ SweepPlan(s) \/ \E r \in Runs : SweepRun(s, r)
    BY <2>3, Zenon DEF DrainHead, SweepPlan, SweepRun
  <2> QED
    BY <1>3, <2>1, <2>2, <2>3, Zenon DEF Sweeping
<1>4. CASE UNCHANGED vars
  BY <1>4, Zenon DEF vars
<1> QED
  BY <1>1, <1>2, <1>3, <1>4, Zenon DEF Next

LEMMA OverwrittenType ==
  ASSUME Types, NEW t \in Tables, NEW r \in Runs, NEW f \in [Keys -> Stamps], NEW part \in SUBSET Keys
  PROVE  /\ Overwritten(t, r, f, part) \in PerTable([Runs -> [Keys -> Stamps]])
         /\ \A u \in Tables, q \in Runs : <<u, q>> # <<t, r>> =>
              Overwritten(t, r, f, part)[u][q] = arch_rows[u][q]
         /\ \A k \in Keys : Overwritten(t, r, f, part)[t][r][k]
                              = IF k \in part /\ f[k] > 0 THEN f[k] ELSE arch_rows[t][r][k]
BY DEF Types, Overwritten, PerTable

LEMMA NewSummaryType ==
  ASSUME Types, NEW d \in Marked
  PROVE  NewSummary(d) \in Summaries
<1>1. d.run \in Runs /\ \A t \in Tables : d.mark[t] \in Stamps
  BY DEF Marked, PerTable
<1>2. \A t \in Tables : ClaimedMark(d, t) \in Stamps
  BY <1>1 DEF Types, ClaimedMark, Summaries, PerTable
<1>3. arch_frames[d.run] \subseteq 0 .. MaxFrames
  BY <1>1, ConstantTypes DEF Types
<1>4. arch_frames[d.run] # {} => Largest(arch_frames[d.run]) \in 0 .. MaxFrames - 1
  BY <1>1, <1>3, ConstantTypes, LargestOfBounded DEF Types
<1>5. \A t \in Tables : Count(arch_rows[t][d.run]) \in Nat
  BY CountType
<1>6. d.closing \in BOOLEAN
  BY DEF Marked
<1>7. (IF arch_frames[d.run] = {} THEN -1 ELSE Largest(arch_frames[d.run])) \in -1 .. MaxFrames - 1
  BY <1>4, ConstantTypes
<1>8. [t \in Tables |-> Count(arch_rows[t][d.run])] \in PerTable(Nat)
  BY <1>5 DEF PerTable
<1>9. [t \in Tables |-> ClaimedMark(d, t)] \in PerTable(Stamps)
  BY <1>2 DEF PerTable
<1> QED
  BY <1>6, <1>7, <1>8, <1>9 DEF NewSummary, Summaries

LEMMA DumpFailedType ==
  ASSUME Types, NEW s \in Sweepers, task[s] \in Dumps, DumpFailed(s)
  PROVE  /\ task' \in [Sweepers -> Tasks] /\ task'[s] \notin Dumps
         /\ export' \subseteq Runs
         /\ export' = export \/ (task[s].drain /\ export' = export \cup {task[s].run})
<1>1. task[s].run \in Runs /\ task[s].todo \in SUBSET Runs
  BY TaskShape DEF Types
<1>2. task' = [task EXCEPT ![s] = NextOfSweep(task[s].todo)]
  BY DEF DumpFailed
<1>3. task' \in [Sweepers -> Tasks] /\ task'[s] \notin Dumps
  BY <1>1, <1>2, NextOfSweepType DEF Types
<1>4. export' = export \/ (task[s].drain /\ export' = export \cup {task[s].run})
  BY DEF DumpFailed
<1> QED
  BY <1>1, <1>3, <1>4 DEF Types

LEMMA SweepTypes ==
  ASSUME Types, NEW s \in Sweepers, Sweeping(s)
  PROVE  Types'
<1> USE DEF duck, ingest, mongo
<1>0. task[s] \in Tasks /\ task \in [Sweepers -> Tasks]
  BY DEF Types
<1>1. CASE DrainHead(s)
  <2>1. Head(queue) \in Runs
    BY <1>1 DEF Types, DrainHead
  <2>2. PICK closing \in BOOLEAN : task' = [task EXCEPT ![s] = Dump(Head(queue), TRUE, {}, closing)]
    BY <1>1, Zenon DEF DrainHead
  <2>3. task' \in [Sweepers -> Tasks]
    BY <1>0, <2>1, <2>2, DumpType DEF Tasks, Dumps
  <2> QED
    BY <1>1, <2>3 DEF Types, DrainHead
<1>2. CASE SweepPlan(s)
  <2>1. {r \in Listed : RunIsPending(r)} \in SUBSET Runs
    BY DEF Listed
  <2>2. task' \in [Sweepers -> Tasks]
    BY <1>0, <1>2, <2>1, NextOfSweepType DEF SweepPlan
  <2> QED
    BY <1>2, <2>2 DEF Types, SweepPlan
<1>3. ASSUME NEW r \in Runs, SweepRun(s, r) PROVE Types'
  <2>1. task[s].todo \ {r} \in SUBSET Runs
    BY <1>0, <1>3, TaskShape DEF SweepRun, Waiting
  <2>2. PICK closing \in BOOLEAN :
          task' = [task EXCEPT ![s] = Dump(r, FALSE, task[s].todo \ {r}, closing)]
    BY <1>3, Zenon DEF SweepRun
  <2>3. task' \in [Sweepers -> Tasks]
    BY <1>0, <2>1, <2>2, DumpType DEF Tasks, Dumps
  <2> QED
    BY <1>3, <2>3 DEF Types, SweepRun
<1>4. CASE DumpFrames(s)
  <2>1. task[s] \in Begun /\ task[s].run \in Runs
    BY <1>0, <1>4, TaskShape DEF DumpFrames, Dumps
  <2>2. task' \in [Sweepers -> Tasks]
    BY <1>0, <1>4, <2>1, BegunAt DEF DumpFrames, At, Tasks, Dumps
  <2>3. ToWrite(task[s].run) \subseteq 0 .. MaxFrames - 1
    BY <2>1, ConstantTypes DEF ToWrite, Types
  <2>4. arch_frames' \in [Runs -> SUBSET (0 .. MaxFrames - 1)]
    BY <1>4, <2>1, <2>3 DEF Types, DumpFrames
  <2> QED
    BY <1>4, <2>2, <2>4 DEF Types, DumpFrames
<1>5. CASE ReadMarks(s)
  <2>1. task[s] \in Begun /\ task[s].run \in Runs
    BY <1>0, <1>5, TaskShape DEF ReadMarks, Dumps
  <2> DEFINE r == task[s].run
             e == [pc |-> "kpi", run |-> r, drain |-> task[s].drain, todo |-> task[s].todo,
                   closing |-> task[s].closing, count |-> DuckCounts(r),
                   mark |-> DuckMarks(r), prior |-> summary[r].mark, bd_failed |-> FALSE,
                   read |-> NoRows]
  <2>2. DuckCounts(r) \in PerTable(Nat)
    BY CountType DEF DuckCounts, PerTable
  <2>3. DuckMarks(r) \in PerTable(Stamps)
    BY <2>1, MarkBounds DEF DuckMarks, PerTable, Types, Stamps
  <2>4. summary[r].mark \in PerTable(Stamps)
    BY <2>1 DEF Types, Summaries
  <2>5. NoRows \in [Keys -> Stamps]
    BY ConstantTypes DEF NoRows, Stamps
  <2>6. e \in Marked
    BY <2>1, <2>2, <2>3, <2>4, <2>5 DEF Marked, Begun
  <2>7. task' \in [Sweepers -> Tasks]
    BY <1>0, <1>5, <2>6 DEF ReadMarks, Tasks, Dumps
  <2> QED
    BY <1>5, <2>7 DEF Types, ReadMarks
<1>6. ASSUME NEW t \in Tables, NEW write, NEW next,
             \/ <<t, write, next>> = <<"kpi", "kpi_write", "bd">>
             \/ <<t, write, next>> = <<"bd", "bd_write", "summary">>,
             ReadTable(s, t, write, next)
      PROVE  Types'
  <2>1. task[s] \in Marked
    BY <1>0, <1>6, TaskShape DEF ReadTable
  <2>2. rows[t][task[s].run] \in [Keys -> Stamps]
    BY <1>6, <2>1 DEF Types, PerTable, Marked
  <2>3. At(s, next) \in Marked /\ [At(s, write) EXCEPT !.read = rows[t][task[s].run]] \in Marked
    BY <1>6, <2>1, <2>2, MarkedAt, MarkedReads DEF At
  <2>4. task' \in [Sweepers -> Tasks]
    BY <1>0, <1>6, <2>3 DEF ReadTable, Tasks, Dumps
  <2> QED
    BY <1>6, <2>4 DEF Types, ReadTable
<1>7. ASSUME NEW t \in Tables, NEW write, NEW next,
             \/ <<t, write, next>> = <<"kpi", "kpi_write", "bd">>
             \/ <<t, write, next>> = <<"bd", "bd_write", "summary">>,
             WriteTable(s, t, write, next)
      PROVE  Types'
  <2>1. task[s] \in Marked
    BY <1>0, <1>7, TaskShape DEF WriteTable
  <2>2. task[s].run \in Runs /\ task[s].read \in [Keys -> Stamps]
    BY <2>1 DEF Marked
  <2>3. arch_rows' \in PerTable([Runs -> [Keys -> Stamps]])
    BY <1>7, <2>2, OverwrittenType DEF WriteTable
  <2>4. At(s, next) \in Marked
    BY <1>7, <2>1, MarkedAt DEF At
  <2>5. task' \in [Sweepers -> Tasks]
    BY <1>0, <1>7, <2>4 DEF WriteTable, Tasks, Dumps
  <2> QED
    BY <1>7, <2>3, <2>5 DEF Types, WriteTable
<1>8. CASE WriteSummary(s)
  <2>1. task[s] \in Marked /\ task[s] \in Dumps
    BY <1>0, <1>8, TaskShape DEF WriteSummary, Dumps
  <2>2. task[s].run \in Runs /\ task[s].todo \in SUBSET Runs
    BY <2>1 DEF Marked
  <2>3. summary' \in [Runs -> Summaries]
    BY <1>8, <2>1, NewSummaryType DEF WriteSummary, Types
  <2>4. task' \in [Sweepers -> Tasks]
    BY <1>0, <1>8, <2>2, NextOfSweepType DEF WriteSummary
  <2>5. queue' \in Seq(Runs) /\ export' \subseteq Runs
    BY <1>8, <2>2 DEF Types, WriteSummary
  <2> QED
    BY <1>8, <2>3, <2>4, <2>5 DEF Types, WriteSummary
<1>9. CASE DumpFramesFails(s)
  <2>1. task[s] \in Dumps /\ task[s].run \in Runs
    BY <1>0, <1>9, TaskShape DEF DumpFramesFails, Dumps
  <2>2. ToWrite(task[s].run) \subseteq 0 .. MaxFrames - 1
    BY <2>1, ConstantTypes DEF ToWrite, Types
  <2>3. arch_frames' \in [Runs -> SUBSET (0 .. MaxFrames - 1)]
    BY <1>9, <2>1, <2>2 DEF Types, DumpFramesFails
  <2> QED
    BY <1>9, <2>1, <2>3, DumpFailedType DEF Types, DumpFramesFails
<1>10. ASSUME NEW t \in Tables, NEW write, write \in {"kpi_write", "bd_write"},
              WriteTableFails(s, t, write)
       PROVE  Types'
  <2>1. task[s] \in Marked /\ task[s] \in Dumps
    BY <1>0, <1>10, TaskShape DEF WriteTableFails, Dumps
  <2>2. task[s].run \in Runs /\ task[s].read \in [Keys -> Stamps]
    BY <2>1 DEF Marked
  <2>3. arch_rows' \in PerTable([Runs -> [Keys -> Stamps]])
    <3>1. PICK part \in SUBSET Keys : arch_rows' = Overwritten(t, task[s].run, task[s].read, part)
      BY <1>10 DEF WriteTableFails
    <3> QED
      BY <2>2, <3>1, OverwrittenType
  <2> QED
    BY <1>10, <2>1, <2>3, DumpFailedType DEF Types, WriteTableFails
<1>11. CASE ReadBreakdownFails(s)
  <2>1. task[s] \in Marked
    BY <1>0, <1>11, TaskShape DEF ReadBreakdownFails
  <2>2. task' \in [Sweepers -> Tasks]
    BY <1>0, <1>11, <2>1, MarkedFails DEF ReadBreakdownFails, At, Tasks, Dumps
  <2> QED
    BY <1>11, <2>2 DEF Types, ReadBreakdownFails
<1>12. CASE WriteSummaryFails(s)
  <2>1. task[s] \in Dumps
    BY <1>0, <1>12, TaskShape DEF WriteSummaryFails, Dumps
  <2> QED
    BY <1>12, <2>1, DumpFailedType DEF Types, WriteSummaryFails
<1> QED
  BY <1>1, <1>2, <1>3, <1>4, <1>5, <1>6, <1>7, <1>8, <1>9, <1>10, <1>11, <1>12
     DEF Sweeping, DumpStep, DumpFault, ReadKpi, WriteKpi, ReadBreakdown, WriteBreakdown,
         WriteKpiFails, WriteBreakdownFails, Tables

-----------------------------------------------------------------------------
(* The invariant is kept by the poll thread, which writes under any dump.  *)

Claims == FinishedOnly /\ StampsArePast /\ FramesClaimed /\ MarksClaimed /\ ClosedIsFinished

LEMMA InitClaims == Init => Claims /\ DumpsInv
<1> SUFFICES ASSUME Init PROVE Claims /\ DumpsInv
  OBVIOUS
<1>1. FinishedOnly
  BY FS_EmptySet DEF Init, FinishedOnly
<1>2. StampsArePast /\ MarksClaimed
  BY DEF Init, StampsArePast, MarksClaimed, NoRows, None
<1>3. FramesClaimed /\ ClosedIsFinished
  BY DEF Init, FramesClaimed, ClosedIsFinished, None
<1>4. DumpsInv
  BY DEF Init, DumpsInv, Idle, Dumps, Begun, Marked
<1> QED
  BY <1>1, <1>2, <1>3, <1>4 DEF Claims

LEMMA WriteFrameStep ==
  ASSUME SweepInv, NEW r \in Runs, WriteFrame(r)
  PROVE  Claims' /\ DumpsInv'
<1> USE DEF SweepInv, WriteFrame, mongo, ingest
<1>1. FinishedOnly' /\ StampsArePast' /\ MarksClaimed' /\ ClosedIsFinished'
  BY DEF FinishedOnly, StampsArePast, MarksClaimed, ClosedIsFinished
<1>2. FramesClaimed'
  BY ConstantTypes DEF FramesClaimed, Types
<1>3. DumpsInv'
  BY DEF DumpsInv, DumpInv, FinishedDump, MarksHeld, ReadFits, TableDone
<1> QED
  BY <1>1, <1>2, <1>3 DEF Claims

LEMMA StrandRowStep ==
  ASSUME SweepInv, NEW r \in Runs, NEW k \in Keys, StrandRow(r, k)
  PROVE  Claims' /\ DumpsInv'
<1> USE DEF SweepInv, StrandRow, duck, mongo
<1>1. FinishedOnly' /\ StampsArePast' /\ MarksClaimed' /\ ClosedIsFinished' /\ FramesClaimed'
  BY DEF FinishedOnly, StampsArePast, MarksClaimed, ClosedIsFinished, FramesClaimed
<1>2. DumpsInv'
  BY DEF DumpsInv, DumpInv, FinishedDump, MarksHeld, ReadFits, TableDone
<1> QED
  BY <1>1, <1>2 DEF Claims

LEMMA TerminalStep ==
  ASSUME SweepInv, NEW r \in Runs, Terminal(r)
  PROVE  Claims' /\ DumpsInv'
<1> USE DEF SweepInv, Terminal, mongo, ingest
<1>1. StampsArePast' /\ MarksClaimed' /\ FramesClaimed' /\ ClosedIsFinished'
  BY DEF StampsArePast, MarksClaimed, FramesClaimed, ClosedIsFinished
<1>2. FinishedOnly'
  <2>1. IsFiniteSet(status)
    BY ConstantTypes, FS_Subset DEF Types
  <2>2. Cardinality(status') = Cardinality(status) + 1 /\ Cardinality(status) \in Nat
    BY <2>1, FS_AddElement, FS_CardinalityType
  <2>3. queue' = Append(queue, r) /\ queue \in Seq(Runs) /\ status' = status \cup {r}
    BY DEF Types
  <2>4. Len(queue') = Len(queue) + 1 /\ \A i \in 1 .. Len(queue') : queue'[i] \in status'
    BY <2>3 DEF FinishedOnly
  <2> QED
    BY <2>2, <2>3, <2>4 DEF FinishedOnly
<1>3. DumpsInv'
  BY DEF DumpsInv, DumpInv, FinishedDump, MarksHeld, ReadFits, TableDone
<1> QED
  BY <1>1, <1>2, <1>3 DEF Claims

LEMMA WriteRowStep ==
  ASSUME SweepInv, NEW t \in Tables, NEW r \in Runs, NEW k \in Keys, WriteRow(t, r, k)
  PROVE  Claims' /\ DumpsInv'
<1> USE DEF SweepInv, mongo
<1>1. /\ clock' = clock + 1 /\ clock \in Nat
      /\ rows' = [rows EXCEPT ![t][r][k] = clock + 1]
      /\ UNCHANGED <<n_frames, status, export, arch_frames, arch_rows, summary, queue, task>>
  BY DEF WriteRow, Types, Stamps
<1>2. \A u \in Tables, q \in Runs, j \in Keys :
        \/ rows'[u][q][j] = rows[u][q][j]
        \/ rows'[u][q][j] = clock + 1
  BY <1>1 DEF Types, PerTable
<1>3. \A u \in Tables, q \in Runs : summary[q].mark[u] \in Nat /\ summary[q].mark[u] <= clock
  BY DEF Types, Summaries, PerTable, Stamps, StampsArePast
<1>4. \A u \in Tables, q \in Runs, j \in Keys : rows[u][q][j] \in Nat /\ rows[u][q][j] <= clock
  BY DEF Types, PerTable, Stamps, StampsArePast
<1>5. FinishedOnly' /\ FramesClaimed' /\ ClosedIsFinished'
  BY <1>1 DEF FinishedOnly, FramesClaimed, ClosedIsFinished
<1>6. StampsArePast'
  BY <1>1, <1>2, <1>3, <1>4 DEF StampsArePast
<1>7. MarksClaimed'
  BY <1>1, <1>2, <1>3, <1>4 DEF MarksClaimed
<1>8. DumpsInv'
  <2> SUFFICES ASSUME NEW s \in Sweepers, task'[s] \in Dumps PROVE DumpInv(task[s])'
    BY DEF DumpsInv
  <2> DEFINE d == task[s]
  <2>1. d \in Dumps /\ d.run \in Runs /\ DumpInv(d)
    BY <1>1, TaskShape DEF Types, DumpsInv
  <2>2. CASE d.pc \in {"frames", "marks"}
    BY <1>1, <2>1, <2>2 DEF DumpInv, FinishedDump
  <2>3. CASE d.pc \notin {"frames", "marks"}
    <3>1. d \in Marked
      BY <2>1, <2>3 DEF Dumps, Begun
    <3>2. \A u \in Tables : d.mark[u] \in Nat /\ d.mark[u] <= clock
      BY <2>1, <2>3, <3>1 DEF DumpInv, MarksHeld, Marked, PerTable, Stamps
    <3>3. ASSUME NEW u \in Tables PROVE ReadFits(d, u) => ReadFits(d, u)'
      BY <1>1, <1>2, <1>3, <2>1, <3>2 DEF ReadFits
    <3>4. ASSUME NEW u \in Tables PROVE TableDone(d, u) => TableDone(d, u)'
      BY <1>1, <1>2, <2>1, <3>2 DEF TableDone
    <3>5. "kpi" \in Tables /\ "bd" \in Tables
      BY DEF Tables
    <3> QED
      BY <1>1, <2>1, <3>2, <3>3, <3>4, <3>5 DEF DumpInv, FinishedDump, MarksHeld
  <2> QED
    BY <2>2, <2>3
<1> QED
  BY <1>5, <1>6, <1>7, <1>8 DEF Claims

LEMMA CrashStep ==
  ASSUME SweepInv, Crash
  PROVE  Types' /\ Claims' /\ DumpsInv'
<1> USE DEF SweepInv, Crash, duck, mongo
<1>1. FinishedOnly'
  <2>1. Cardinality(status) \in Nat
    BY ConstantTypes, FS_Subset, FS_CardinalityType DEF Types
  <2> QED
    BY <2>1 DEF FinishedOnly
<1>2. StampsArePast' /\ MarksClaimed' /\ ClosedIsFinished' /\ FramesClaimed'
  BY DEF StampsArePast, MarksClaimed, ClosedIsFinished, FramesClaimed
<1>3. DumpsInv'
  BY DEF DumpsInv, Idle, Dumps, Begun, Marked
<1>4. Types'
  BY DEF Types, Tasks
<1> QED
  BY <1>1, <1>2, <1>3, <1>4 DEF Claims

-----------------------------------------------------------------------------
(* The invariant is kept by the one archive thread.                        *)

OneSweeper == \A s, u \in Sweepers : s = u

LEMMA OnlyDump ==
  ASSUME OneSweeper, NEW s \in Sweepers, (task[s] \in Dumps => DumpInv(task[s]))'
  PROVE  DumpsInv'
BY DEF OneSweeper, DumpsInv

\* A step that only moves the thread on keeps everything that is claimed.
LEMMA ClaimsQuiet ==
  ASSUME Claims, UNCHANGED <<n_frames, rows, status, export, arch_frames, arch_rows, summary, queue, clock>>
  PROVE  Claims'
BY DEF Claims, FinishedOnly, StampsArePast, FramesClaimed, MarksClaimed, ClosedIsFinished

LEMMA ProbeFinished ==
  ASSUME FinishedOnly, NEW r, NEW closing \in BOOLEAN, Probe(r, closing), closing
  PROVE  r \in status
BY DEF Probe, RunIsTerminal, FinishedOnly

LEMMA BeginStep ==
  ASSUME SweepInv, OneSweeper, NEW s \in Sweepers, NEW r \in Runs, NEW drain \in BOOLEAN,
         NEW todo \in SUBSET Runs, NEW closing \in BOOLEAN, drain \/ closing => r \in status,
         task' = [task EXCEPT ![s] = Dump(r, drain, todo, closing)],
         UNCHANGED <<duck, mongo, queue, clock>>
  PROVE  Claims' /\ DumpsInv'
<1> USE DEF duck, mongo
<1>1. Claims'
  BY ClaimsQuiet DEF SweepInv, Claims
<1>2. task'[s] = Dump(r, drain, todo, closing)
  BY DEF SweepInv, Types
<1>3. DumpInv(task[s])'
  BY <1>2 DEF DumpInv, FinishedDump, Dump
<1> QED
  BY <1>1, <1>3, OnlyDump

LEMMA PickStep ==
  ASSUME SweepInv, OneSweeper, NEW s \in Sweepers,
         DrainHead(s) \/ SweepPlan(s) \/ \E r \in Runs : SweepRun(s, r)
  PROVE  Claims' /\ DumpsInv'
<1> USE DEF duck, mongo
<1>1. CASE DrainHead(s)
  <2>1. Head(queue) \in Runs /\ Head(queue) \in status
    BY <1>1 DEF SweepInv, Types, FinishedOnly, DrainHead
  <2>2. PICK closing \in BOOLEAN : task' = [task EXCEPT ![s] = Dump(Head(queue), TRUE, {}, closing)]
    BY <1>1, Zenon DEF DrainHead
  <2>3. UNCHANGED <<duck, mongo, queue, clock>>
    BY <1>1 DEF DrainHead
  <2> QED
    BY <2>1, <2>2, <2>3, BeginStep
<1>2. CASE SweepPlan(s)
  <2>1. {r \in Listed : RunIsPending(r)} \in SUBSET Runs
    BY DEF Listed
  <2>2. task'[s] \notin Dumps
    BY <1>2, <2>1, NextOfSweepType DEF SweepPlan, SweepInv, Types
  <2>3. Claims'
    BY <1>2, ClaimsQuiet DEF SweepInv, Claims, SweepPlan
  <2> QED
    BY <2>2, <2>3, OnlyDump
<1>3. ASSUME NEW r \in Runs, SweepRun(s, r) PROVE Claims' /\ DumpsInv'
  <2>1. task[s].todo \ {r} \in SUBSET Runs
    BY <1>3, TaskShape DEF SweepRun, Waiting, SweepInv, Types
  <2>2. PICK closing \in BOOLEAN :
          /\ Probe(r, closing)
          /\ task' = [task EXCEPT ![s] = Dump(r, FALSE, task[s].todo \ {r}, closing)]
    BY <1>3, Zenon DEF SweepRun
  <2>3. closing => r \in status
    BY <2>2, ProbeFinished DEF SweepInv
  <2>4. UNCHANGED <<duck, mongo, queue, clock>>
    BY <1>3 DEF SweepRun
  <2> QED
    BY <2>1, <2>2, <2>3, <2>4, BeginStep
<1> QED
  BY <1>1, <1>2, <1>3

LEMMA DumpFramesStep ==
  ASSUME SweepInv, OneSweeper, NEW s \in Sweepers, DumpFrames(s)
  PROVE  Claims' /\ DumpsInv'
<1> DEFINE d == task[s]
           r == task[s].run
<1>1. d \in Begun /\ d \in Dumps /\ r \in Runs /\ DumpInv(d)
  BY TaskShape DEF DumpFrames, Dumps, SweepInv, Types, DumpsInv
<1>2. /\ arch_frames' = [arch_frames EXCEPT ![r] = @ \cup ToWrite(r)]
      /\ task' = [task EXCEPT ![s] = [d EXCEPT !.pc = "marks"]]
      /\ UNCHANGED <<n_frames, rows, status, export, arch_rows, summary, queue, clock>>
  BY DEF DumpFrames, At, duck
<1>3. arch_frames[r] \cup ToWrite(r) = 0 .. n_frames[r] - 1
  BY <1>1, FramesBecomeDense DEF SweepInv, Types, FramesClaimed
<1>4. arch_frames'[r] = 0 .. n_frames[r] - 1 /\ \A q \in Runs : q # r => arch_frames'[q] = arch_frames[q]
  BY <1>1, <1>2, <1>3 DEF SweepInv, Types
<1>5. FramesClaimed'
  BY <1>1, <1>2, <1>4 DEF SweepInv, Types, FramesClaimed
<1>6. FinishedOnly' /\ StampsArePast' /\ MarksClaimed' /\ ClosedIsFinished'
  BY <1>2 DEF SweepInv, FinishedOnly, StampsArePast, MarksClaimed, ClosedIsFinished
<1>7. task'[s] = [d EXCEPT !.pc = "marks"]
  BY <1>2 DEF SweepInv, Types
<1>8. /\ task'[s].pc = "marks" /\ task'[s].run = r
      /\ task'[s].drain = d.drain /\ task'[s].closing = d.closing
  BY <1>1, <1>7, BegunAt
<1>9. Dense(0 .. n_frames[r] - 1)
  BY <1>1 DEF Dense, SweepInv, Types
<1>10. DumpInv(task[s])'
  <2>0. FinishedDump(d) /\ status' = status
    BY <1>1, <1>2 DEF DumpInv
  <2>1. FinishedDump(task[s])'
    BY <1>8, <2>0, Zenon DEF FinishedDump
  <2>2. Dense(arch_frames'[task'[s].run])
    BY <1>4, <1>8, <1>9
  <2> QED
    BY <1>8, <2>1, <2>2 DEF DumpInv
<1> QED
  BY <1>5, <1>6, <1>10, OnlyDump DEF Claims

LEMMA ReadMarksStep ==
  ASSUME SweepInv, OneSweeper, NEW s \in Sweepers, ReadMarks(s)
  PROVE  Claims' /\ DumpsInv'
<1> DEFINE d == task[s]
           r == task[s].run
<1>1. d \in Begun /\ d \in Dumps /\ r \in Runs /\ DumpInv(d) /\ d.pc = "marks"
  BY TaskShape DEF ReadMarks, Dumps, SweepInv, Types, DumpsInv
<1>2. UNCHANGED <<n_frames, rows, status, export, arch_frames, arch_rows, summary, queue, clock>>
  BY DEF ReadMarks, duck, mongo
<1>3. Claims'
  BY <1>2, ClaimsQuiet DEF SweepInv, Claims
<1>4. /\ task'[s].pc = "kpi" /\ task'[s].run = r
      /\ task'[s].drain = d.drain /\ task'[s].closing = d.closing
      /\ task'[s].mark = DuckMarks(r) /\ task'[s].prior = summary[r].mark
  BY DEF ReadMarks, SweepInv, Types
<1>5. \A t \in Tables : DuckMarks(r)[t] <= clock
  <2> TAKE t \in Tables
  <2>1. rows[t][r] \in [Keys -> 0 .. MaxStamp]
    BY <1>1 DEF SweepInv, Types, PerTable, Stamps
  <2>2. PICK k \in Keys : Mark(rows[t][r]) = rows[t][r][k]
    BY <2>1, MarkBounds
  <2> QED
    BY <1>1, <2>2 DEF DuckMarks, SweepInv, StampsArePast
<1>6. FinishedDump(task[s])'
  <2>1. FinishedDump(d)
    BY <1>1 DEF DumpInv
  <2> QED
    BY <1>2, <1>4, <2>1, Zenon DEF FinishedDump
<1>7. MarksHeld(task[s])'
  BY <1>2, <1>4, <1>5 DEF MarksHeld
<1>8. DumpInv(task[s])'
  BY <1>1, <1>2, <1>4, <1>6, <1>7 DEF DumpInv
<1> QED
  BY <1>3, <1>8, OnlyDump

\* A dump that goes on with the marks it holds.
LEMMA DumpGoesOn ==
  ASSUME NEW d \in Marked, NEW e, DumpInv(d), SameDump(e, d),
         UNCHANGED <<rows, status, arch_frames, summary, clock>>
  PROVE  /\ FinishedDump(e)' /\ MarksHeld(e)' /\ Dense(arch_frames'[e.run])
         /\ \A t \in Tables : TableDone(d, t)' <=> TableDone(e, t)'
<1>1. FinishedDump(d) /\ MarksHeld(d) /\ Dense(arch_frames[d.run])
  BY DEF DumpInv, Marked
<1>2. FinishedDump(e)'
  BY <1>1, Zenon DEF FinishedDump, SameDump
<1>3. MarksHeld(e)'
  BY <1>1 DEF MarksHeld, SameDump
<1>4. Dense(arch_frames'[e.run])
  BY <1>1 DEF SameDump
<1>5. \A t \in Tables : TableDone(d, t)' <=> TableDone(e, t)'
  BY DEF TableDone, SameDump
<1> QED
  BY <1>2, <1>3, <1>4, <1>5

\* A table that is skipped is done: its mark has not moved since the summary.
LEMMA WholeIsDone ==
  ASSUME SweepInv, NEW d \in Marked, MarksHeld(d), NEW t \in Tables, TableWhole(d, t)
  PROVE  TableDone(d, t)
<1>1. d.run \in Runs /\ d.mark[t] \in Nat /\ summary[d.run].mark[t] \in Nat
  BY DEF Marked, PerTable, Stamps, SweepInv, Types, Summaries
<1>2. d.mark[t] <= summary[d.run].mark[t]
  BY DEF TableWhole, MarksHeld
<1>3. \A k \in Keys : rows[t][d.run][k] \in Nat
  BY <1>1 DEF SweepInv, Types, PerTable, Stamps
<1> QED
  BY <1>1, <1>2, <1>3 DEF TableDone, SweepInv, MarksClaimed

LEMMA ReadTableStep ==
  ASSUME SweepInv, OneSweeper, NEW s \in Sweepers, NEW t, NEW write, NEW next,
         \/ <<t, write, next>> = <<"kpi", "kpi_write", "bd">>
         \/ <<t, write, next>> = <<"bd", "bd_write", "summary">>,
         ReadTable(s, t, write, next)
  PROVE  Claims' /\ DumpsInv'
<1>0. PICK d : d = task[s]
  OBVIOUS
<1>01. PICK e : e = task'[s]
  OBVIOUS
<1>1. d \in Marked /\ d.run \in Runs /\ DumpInv(d) /\ d.pc = t /\ t \in Tables
  BY <1>0, TaskShape DEF ReadTable, Dumps, SweepInv, Types, DumpsInv, Tables
<1>2. UNCHANGED <<n_frames, rows, status, export, arch_frames, arch_rows, summary, queue, clock>>
  BY DEF ReadTable, duck, mongo
<1>3. Claims'
  BY <1>2, ClaimsQuiet DEF SweepInv, Claims
<1>4. \A u \in Tables : TableDone(d, u)' <=> TableDone(d, u)
  BY <1>2 DEF TableDone
<1>5. t = "bd" => TableDone(d, "kpi")
  BY <1>1 DEF DumpInv
<1>6. CASE TableWhole(d, t)
  <2>1. e = [d EXCEPT !.pc = next]
    BY <1>0, <1>01, <1>6 DEF ReadTable, At, SweepInv, Types
  <2>2. e.pc = next /\ SameDump(e, d)
    BY <1>1, <2>1, MarkedAt
  <2>3. TableDone(d, t)
    BY <1>1, <1>6, WholeIsDone DEF DumpInv
  <2>4. FinishedDump(e)' /\ MarksHeld(e)' /\ Dense(arch_frames'[e.run])
        /\ \A u \in Tables : TableDone(d, u)' <=> TableDone(e, u)'
    BY <1>1, <1>2, <2>2, DumpGoesOn
  <2>5. DumpInv(e)'
    BY <1>1, <1>4, <1>5, <2>2, <2>3, <2>4 DEF DumpInv, Tables
  <2> QED
    BY <1>01, <1>3, <2>5, OnlyDump
<1>7. CASE ~TableWhole(d, t)
  <2>1. rows[t][d.run] \in [Keys -> Stamps]
    BY <1>1 DEF SweepInv, Types, PerTable
  <2>2. e = [[d EXCEPT !.pc = write] EXCEPT !.read = rows[t][d.run]]
    BY <1>0, <1>01, <1>7 DEF ReadTable, At, SweepInv, Types
  <2>3. e.pc = write /\ SameDump(e, d) /\ e.read = rows[t][d.run]
    BY <1>1, <2>2 DEF Marked, SameDump
  <2>4. FinishedDump(e)' /\ MarksHeld(e)' /\ Dense(arch_frames'[e.run])
        /\ \A u \in Tables : TableDone(d, u)' <=> TableDone(e, u)'
    BY <1>1, <1>2, <2>3, DumpGoesOn
  <2>5. ReadFits(e, t)'
    BY <1>2, <2>3 DEF ReadFits, SameDump
  <2>6. DumpInv(e)'
    BY <1>1, <1>4, <1>5, <2>3, <2>4, <2>5 DEF DumpInv, Tables
  <2> QED
    BY <1>01, <1>3, <2>6, OnlyDump
<1> QED
  BY <1>6, <1>7

\* A whole or a partial overwrite with rows that fit breaks no claim, and a whole one
\* finishes the table.
LEMMA OverwriteKeeps ==
  ASSUME SweepInv, NEW d \in Marked, NEW t \in Tables, ReadFits(d, t), MarksHeld(d),
         NEW part \in SUBSET Keys, arch_rows' = Overwritten(t, d.run, d.read, part),
         UNCHANGED <<rows, summary>>
  PROVE  /\ MarksClaimed'
         /\ part = Keys => TableDone(d, t)'
         /\ \A u \in Tables : u # t /\ TableDone(d, u) => TableDone(d, u)'
<1>1. d.run \in Runs /\ d.read \in [Keys -> Stamps]
  BY DEF Marked
<1>2. /\ \A u \in Tables, q \in Runs : <<u, q>> # <<t, d.run>> => arch_rows'[u][q] = arch_rows[u][q]
      /\ \A k \in Keys : arch_rows'[t][d.run][k]
                           = IF k \in part /\ d.read[k] > 0 THEN d.read[k] ELSE arch_rows[t][d.run][k]
  BY <1>1, OverwrittenType DEF SweepInv
<1>3. \A k \in Keys : d.read[k] \in Nat /\ rows[t][d.run][k] \in Nat
  BY <1>1 DEF SweepInv, Types, PerTable, Stamps
<1>4. d.mark[t] \in Nat /\ \A u \in Tables, q \in Runs : summary[q].mark[u] \in Nat
  BY DEF Marked, PerTable, Stamps, SweepInv, Types, Summaries
<1>5. \A k \in Keys : rows[t][d.run][k] <= summary[d.run].mark[t] =>
                        arch_rows[t][d.run][k] = rows[t][d.run][k]
  BY <1>1 DEF SweepInv, MarksClaimed
<1>6. \A k \in Keys : rows[t][d.run][k] <= summary[d.run].mark[t] =>
                        arch_rows'[t][d.run][k] = rows[t][d.run][k]
  BY <1>1, <1>2, <1>3, <1>4, <1>5 DEF ReadFits
<1>7. MarksClaimed'
  BY <1>2, <1>6 DEF SweepInv, MarksClaimed
<1>8. ASSUME part = Keys PROVE TableDone(d, t)'
  BY <1>1, <1>2, <1>3, <1>4, <1>5, <1>8 DEF ReadFits, TableDone
<1>9. ASSUME NEW u \in Tables, u # t, TableDone(d, u) PROVE TableDone(d, u)'
  BY <1>1, <1>2, <1>9 DEF TableDone
<1> QED
  BY <1>7, <1>8, <1>9

LEMMA WriteTableStep ==
  ASSUME SweepInv, OneSweeper, NEW s \in Sweepers, NEW t, NEW write, NEW next,
         \/ <<t, write, next>> = <<"kpi", "kpi_write", "bd">>
         \/ <<t, write, next>> = <<"bd", "bd_write", "summary">>,
         WriteTable(s, t, write, next)
  PROVE  Claims' /\ DumpsInv'
<1>0. PICK d : d = task[s]
  OBVIOUS
<1>01. PICK e : e = task'[s]
  OBVIOUS
<1>1. d \in Marked /\ d.run \in Runs /\ DumpInv(d) /\ d.pc = write /\ t \in Tables
  BY <1>0, TaskShape DEF WriteTable, Dumps, SweepInv, Types, DumpsInv, Tables
<1>2. UNCHANGED <<n_frames, rows, status, export, arch_frames, summary, queue, clock>>
  BY DEF WriteTable, duck
<1>3. ReadFits(d, t) /\ MarksHeld(d) /\ (t = "bd" => TableDone(d, "kpi"))
  BY <1>1 DEF DumpInv
<1>4. arch_rows' = Overwritten(t, d.run, d.read, Keys)
  BY <1>0 DEF WriteTable
<1>5. MarksClaimed' /\ TableDone(d, t)' /\ (t = "bd" => TableDone(d, "kpi")')
  BY <1>1, <1>2, <1>3, <1>4, OverwriteKeeps DEF Tables
<1>6. FinishedOnly' /\ StampsArePast' /\ FramesClaimed' /\ ClosedIsFinished'
  BY <1>2 DEF SweepInv, FinishedOnly, StampsArePast, FramesClaimed, ClosedIsFinished
<1>7. e = [d EXCEPT !.pc = next]
  BY <1>0, <1>01 DEF WriteTable, At, SweepInv, Types
<1>8. e.pc = next /\ SameDump(e, d)
  BY <1>1, <1>7, MarkedAt
<1>9. FinishedDump(e)' /\ MarksHeld(e)' /\ Dense(arch_frames'[e.run])
      /\ \A u \in Tables : TableDone(d, u)' <=> TableDone(e, u)'
  BY <1>1, <1>2, <1>8, DumpGoesOn
<1>10. DumpInv(e)'
  BY <1>1, <1>5, <1>8, <1>9 DEF DumpInv, Tables
<1> QED
  BY <1>01, <1>5, <1>6, <1>10, OnlyDump DEF Claims

\* dump_run raised somewhere: whatever part of a batch is in Mongo, the summary is as
\* it was and no claim is broken.
LEMMA DumpFaultStep ==
  ASSUME SweepInv, OneSweeper, NEW s \in Sweepers, DumpFault(s)
  PROVE  Claims' /\ DumpsInv'
<1> USE DEF ingest, mongo, duck
<1>0. PICK d : d = task[s]
  OBVIOUS
<1>1. d \in Tasks
  BY <1>0 DEF SweepInv, Types
<1>2. ASSUME d \in Dumps, DumpFailed(s), UNCHANGED <<n_frames, rows, status, summary, queue, clock>>,
             FramesClaimed', MarksClaimed'
      PROVE  Claims' /\ DumpsInv'
  <2>1. task'[s] \notin Dumps
    BY <1>0, <1>2, DumpFailedType DEF SweepInv
  <2>2. export' = export \/ (d.drain /\ export' = export \cup {d.run})
    BY <1>0, <1>2, DumpFailedType DEF SweepInv
  <2>3. d.drain => d.run \in status
    BY <1>0, <1>2 DEF SweepInv, DumpsInv, DumpInv, FinishedDump
  <2>4. FinishedOnly'
    BY <1>2, <2>2, <2>3 DEF SweepInv, FinishedOnly
  <2>5. StampsArePast' /\ ClosedIsFinished'
    BY <1>2 DEF SweepInv, StampsArePast, ClosedIsFinished
  <2> QED
    BY <1>2, <2>1, <2>4, <2>5, OnlyDump DEF Claims
<1>3. CASE DumpFramesFails(s)
  <2>1. d \in Dumps /\ d.run \in Runs
    BY <1>0, <1>1, <1>3, TaskShape DEF DumpFramesFails, Dumps
  <2>2. PICK part \in SUBSET ToWrite(d.run) :
          arch_frames' = [arch_frames EXCEPT ![d.run] = @ \cup part]
    BY <1>0, <1>3 DEF DumpFramesFails
  <2>3. part \subseteq 0 .. n_frames[d.run] - 1
    BY <2>2 DEF ToWrite
  <2>4. FramesClaimed'
    BY <1>3, <2>1, <2>2, <2>3 DEF SweepInv, Types, FramesClaimed, DumpFramesFails
  <2>5. MarksClaimed'
    BY <1>3 DEF SweepInv, MarksClaimed, DumpFramesFails
  <2> QED
    BY <1>2, <1>3, <2>1, <2>4, <2>5 DEF DumpFramesFails
<1>4. ASSUME NEW t \in Tables, NEW write,
             <<t, write>> = <<"kpi", "kpi_write">> \/ <<t, write>> = <<"bd", "bd_write">>,
             WriteTableFails(s, t, write)
      PROVE  Claims' /\ DumpsInv'
  <2>1. d \in Marked /\ d \in Dumps
    BY <1>0, <1>1, <1>4, TaskShape DEF WriteTableFails, Dumps
  <2>2. DumpInv(d) /\ d.pc = write
    BY <1>0, <1>4, <2>1 DEF SweepInv, DumpsInv, WriteTableFails
  <2>3. ReadFits(d, t) /\ MarksHeld(d)
    BY <1>4, <2>2 DEF DumpInv
  <2>4. PICK part \in SUBSET Keys : arch_rows' = Overwritten(t, d.run, d.read, part)
    BY <1>0, <1>4 DEF WriteTableFails
  <2>5. UNCHANGED <<n_frames, rows, status, arch_frames, summary, queue, clock>>
    BY <1>4 DEF WriteTableFails
  <2>6. MarksClaimed'
    BY <2>1, <2>3, <2>4, <2>5, OverwriteKeeps
  <2>7. FramesClaimed'
    BY <2>5 DEF SweepInv, FramesClaimed
  <2> QED
    BY <1>2, <1>4, <2>1, <2>5, <2>6, <2>7 DEF WriteTableFails
<1>5. CASE ReadBreakdownFails(s)
  <2>1. d \in Marked /\ d \in Dumps /\ d.pc = "bd"
    BY <1>0, <1>1, <1>5, TaskShape DEF ReadBreakdownFails, Dumps
  <2>2. DumpInv(d)
    BY <1>0, <2>1 DEF SweepInv, DumpsInv
  <2>3. UNCHANGED <<n_frames, rows, status, export, arch_frames, arch_rows, summary, queue, clock>>
    BY <1>5 DEF ReadBreakdownFails
  <2>4. Claims'
    BY <2>3, ClaimsQuiet DEF SweepInv, Claims
  <2>5. PICK e : e = task'[s]
    OBVIOUS
  <2>6. e = [[d EXCEPT !.pc = "summary"] EXCEPT !.bd_failed = TRUE, !.closing = FALSE]
    BY <1>0, <1>5, <2>5 DEF ReadBreakdownFails, At, SweepInv, Types
  <2>7. /\ e.pc = "summary" /\ e.bd_failed = TRUE /\ e.closing = FALSE
        /\ e.run = d.run /\ e.drain = d.drain /\ e.mark = d.mark /\ e.prior = d.prior
    BY <2>1, <2>6, MarkedFails
  <2>8. FinishedDump(d) /\ MarksHeld(d) /\ Dense(arch_frames[d.run]) /\ TableDone(d, "kpi")
    BY <2>1, <2>2 DEF DumpInv
  <2>9. FinishedDump(e)'
    <3>1. status' = status
      BY <2>3
    <3> QED
      BY <2>7, <2>8, <3>1, Zenon DEF FinishedDump
  <2>10. MarksHeld(e)' /\ Dense(arch_frames'[e.run]) /\ TableDone(e, "kpi")'
    BY <2>3, <2>7, <2>8 DEF MarksHeld, TableDone
  <2>11. DumpInv(e)'
    BY <2>7, <2>9, <2>10 DEF DumpInv
  <2> QED
    BY <2>4, <2>5, <2>11, OnlyDump
<1>6. CASE WriteSummaryFails(s)
  <2>1. d \in Dumps
    BY <1>0, <1>1, <1>6, TaskShape DEF WriteSummaryFails, Dumps
  <2>2. FramesClaimed' /\ MarksClaimed'
    BY <1>6 DEF SweepInv, FramesClaimed, MarksClaimed, WriteSummaryFails
  <2> QED
    BY <1>2, <1>6, <2>1, <2>2 DEF WriteSummaryFails
<1> QED
  BY <1>3, <1>4, <1>5, <1>6 DEF DumpFault, WriteKpiFails, WriteBreakdownFails, Tables

\* The summary is written last, and claims no more than what is archived by then.
LEMMA WriteSummaryStep ==
  ASSUME SweepInv, OneSweeper, NEW s \in Sweepers, WriteSummary(s)
  PROVE  Claims' /\ DumpsInv'
<1>0. PICK d : d = task[s]
  OBVIOUS
<1>1. d \in Marked /\ d \in Dumps /\ d.pc = "summary"
  BY <1>0, TaskShape DEF WriteSummary, Dumps, SweepInv, Types
<1>2. d.run \in Runs /\ d.todo \in SUBSET Runs
  BY <1>1 DEF Marked
<1>3. /\ FinishedDump(d) /\ Dense(arch_frames[d.run]) /\ MarksHeld(d)
      /\ TableDone(d, "kpi") /\ (~d.bd_failed => TableDone(d, "bd"))
  BY <1>0, <1>1 DEF SweepInv, DumpsInv, DumpInv
<1>4. /\ summary' = [summary EXCEPT ![d.run] = NewSummary(d)]
      /\ UNCHANGED <<n_frames, rows, status, arch_frames, arch_rows, clock>>
  BY <1>0 DEF WriteSummary
<1>5. /\ summary'[d.run] = NewSummary(d)
      /\ \A q \in Runs : q # d.run => summary'[q] = summary[q]
  BY <1>2, <1>4 DEF SweepInv, Types
<1>6. task'[s] \notin Dumps
  BY <1>0, <1>2, NextOfSweepType DEF WriteSummary, SweepInv, Types
<1>7. FinishedOnly'
  <2>1. export' = export \/ (d.drain /\ export' = export \cup {d.run})
    BY <1>0 DEF WriteSummary
  <2>2. export' \subseteq status
    BY <1>3, <2>1 DEF FinishedDump, SweepInv, FinishedOnly
  <2>3. queue' = queue \/ (queue # <<>> /\ queue' = Tail(queue))
    BY <1>0 DEF WriteSummary
  <2>4. Cardinality(status) \in Nat
    BY ConstantTypes, FS_Subset, FS_CardinalityType DEF SweepInv, Types
  <2>5. Len(queue') <= Cardinality(status) /\ \A i \in 1 .. Len(queue') : queue'[i] \in status
    <3>1. queue \in Seq(Runs) /\ Len(queue) <= Cardinality(status)
          /\ \A i \in 1 .. Len(queue) : queue[i] \in status
      BY DEF SweepInv, Types, FinishedOnly
    <3>2. CASE queue' = queue
      BY <3>1, <3>2
    <3>3. CASE queue # <<>> /\ queue' = Tail(queue)
      <4>1. Len(queue') = Len(queue) - 1 /\ \A i \in 1 .. Len(queue') : queue'[i] = queue[i + 1]
        BY <3>1, <3>3
      <4> QED
        BY <2>4, <3>1, <4>1
    <3> QED
      BY <2>3, <3>2, <3>3
  <2> QED
    BY <1>4, <2>2, <2>5 DEF FinishedOnly
<1>8. \A t \in Tables : /\ NewSummary(d).mark[t] \in {summary[d.run].mark[t], d.mark[t]}
                        /\ (t = "bd" /\ d.bd_failed) => NewSummary(d).mark[t] = summary[d.run].mark[t]
  BY DEF NewSummary, ClaimedMark
<1>9. StampsArePast'
  BY <1>2, <1>3, <1>4, <1>5, <1>8 DEF SweepInv, StampsArePast, MarksHeld
<1>10. MarksClaimed'
  <2> SUFFICES ASSUME NEW t \in Tables, NEW r \in Runs, NEW k \in Keys,
                      rows[t][r][k] <= summary'[r].mark[t]
               PROVE  arch_rows[t][r][k] = rows[t][r][k]
    BY <1>4 DEF MarksClaimed
  <2>1. CASE rows[t][r][k] <= summary[r].mark[t]
    BY <2>1 DEF SweepInv, MarksClaimed
  <2>2. CASE ~(rows[t][r][k] <= summary[r].mark[t])
    <3>1. r = d.run /\ NewSummary(d).mark[t] = d.mark[t] /\ ~(t = "bd" /\ d.bd_failed)
      BY <1>5, <1>8, <2>2
    <3>2. TableDone(d, t)
      BY <1>3, <3>1 DEF Tables
    <3> QED
      BY <1>5, <3>1, <3>2 DEF TableDone
  <2> QED
    BY <2>1, <2>2
<1>11. FramesClaimed'
  <2>1. arch_frames[d.run] \subseteq 0 .. MaxFrames
    BY <1>2, ConstantTypes DEF SweepInv, Types
  <2>2. 0 .. NewSummary(d).frame_max \subseteq arch_frames[d.run]
    <3>1. CASE arch_frames[d.run] = {}
      BY <3>1 DEF NewSummary
    <3>2. CASE arch_frames[d.run] # {}
      <4>1. Largest(arch_frames[d.run]) \in arch_frames[d.run]
        BY <2>1, <3>2, ConstantTypes, LargestOfBounded
      <4> QED
        BY <1>3, <3>2, <4>1 DEF NewSummary, Dense
    <3> QED
      BY <3>1, <3>2
  <2> QED
    BY <1>4, <1>5, <2>2 DEF SweepInv, FramesClaimed
<1>12. ClosedIsFinished'
  <2>1. NewSummary(d).complete => d.run \in status
    BY <1>3 DEF NewSummary, FinishedDump
  <2> QED
    BY <1>4, <1>5, <2>1 DEF SweepInv, ClosedIsFinished
<1> QED
  BY <1>6, <1>7, <1>9, <1>10, <1>11, <1>12, OnlyDump DEF Claims

-----------------------------------------------------------------------------
LEMMA InvStep ==
  ASSUME OneSweeper, SweepInv, [Next]_vars
  PROVE  SweepInv'
<1>1. blocked' \in BOOLEAN
  BY BlockedType DEF SweepInv
<1>2. ASSUME Types', Claims', DumpsInv' PROVE SweepInv'
  BY <1>1, <1>2 DEF SweepInv, Claims
<1>3. CASE UNCHANGED vars
  <2>1. UNCHANGED <<n_frames, rows, status, export, missing, arch_frames, arch_rows, summary, queue,
                    task, clock>>
    BY <1>3 DEF vars, duck, mongo, ingest
  <2>2. Types'
    BY <2>1 DEF SweepInv, Types
  <2>3. Claims'
    BY <2>1, ClaimsQuiet DEF SweepInv, Claims
  <2>4. DumpsInv'
    BY <2>1 DEF SweepInv, DumpsInv, DumpInv, FinishedDump, MarksHeld, ReadFits, TableDone
  <2> QED
    BY <1>2, <2>2, <2>3, <2>4
<1>4. CASE Ingesting
  <2>1. Types'
    BY <1>4, IngestTypes DEF SweepInv
  <2>2. Claims' /\ DumpsInv'
    BY <1>4, WriteFrameStep, StrandRowStep, TerminalStep, WriteRowStep DEF Ingesting
  <2> QED
    BY <1>2, <2>1, <2>2
<1>5. CASE Crash
  BY <1>2, <1>5, CrashStep
<1>6. ASSUME NEW s \in Sweepers, Sweeping(s) PROVE SweepInv'
  <2>1. Types'
    BY <1>6, SweepTypes DEF SweepInv
  <2>2. CASE DrainHead(s) \/ SweepPlan(s) \/ \E r \in Runs : SweepRun(s, r)
    BY <1>2, <2>1, <2>2, PickStep
  <2>3. CASE DumpFault(s)
    BY <1>2, <2>1, <2>3, DumpFaultStep
  <2>4. CASE DumpStep(s)
    <3>1. Claims' /\ DumpsInv'
      BY <2>4, DumpFramesStep, ReadMarksStep, ReadTableStep, WriteTableStep, WriteSummaryStep
         DEF DumpStep, ReadKpi, WriteKpi, ReadBreakdown, WriteBreakdown
    <3> QED
      BY <1>2, <2>1, <3>1
  <2> QED
    BY <1>6, <2>2, <2>3, <2>4 DEF Sweeping
<1> QED
  BY <1>3, <1>4, <1>5, <1>6 DEF Next

LEMMA InvSafe == SweepInv => ArchiveSafe
<1> SUFFICES ASSUME SweepInv PROVE ArchiveSafe
  OBVIOUS
<1>1. TypeOK
  <2>1. Len(queue) <= Cardinality(Runs)
    <3>1. Cardinality(status) <= Cardinality(Runs) /\ Cardinality(status) \in Nat
          /\ Cardinality(Runs) \in Nat
      BY ConstantTypes, FS_Subset, FS_CardinalityType DEF SweepInv, Types
    <3> QED
      BY <3>1 DEF SweepInv, Types, FinishedOnly
  <2>2. \A s \in Sweepers : task[s].pc \in
          {"idle", "next", "frames", "marks", "kpi", "kpi_write", "bd", "bd_write", "summary"}
    BY DEF SweepInv, Types, Tasks, Idle, Waiting, Dumps, Begun, Marked
  <2>3. \A i \in 1 .. Len(queue) : queue[i] \in Runs
    BY DEF SweepInv, Types
  <2> QED
    BY <2>1, <2>2, <2>3 DEF SweepInv, Types, TypeOK, PerTable, Stamps
<1>2. SettledIsWhole
  <2> SUFFICES ASSUME NEW r \in Runs, ~DuckMovedPast(r) PROVE Whole(r)
    BY DEF SettledIsWhole
  <2>1. n_frames[r] - 1 <= summary[r].frame_max
    BY DEF DuckMovedPast, SweepInv, Types, Summaries
  <2>2. 0 .. n_frames[r] - 1 \subseteq arch_frames[r]
    BY <2>1 DEF SweepInv, Types, Summaries, FramesClaimed
  <2>3. ASSUME NEW t \in Tables PROVE arch_rows[t][r] = rows[t][r]
    <3>1. rows[t][r] \in [Keys -> 0 .. MaxStamp] /\ arch_rows[t][r] \in [Keys -> 0 .. MaxStamp]
      BY DEF SweepInv, Types, PerTable, Stamps
    <3>2. Mark(rows[t][r]) \in Nat /\ summary[r].mark[t] \in Nat
      BY <3>1, MarkBounds DEF SweepInv, Types, Summaries, PerTable, Stamps
    <3>3. Mark(rows[t][r]) <= summary[r].mark[t]
      BY <3>2 DEF DuckMovedPast, DuckMarks
    <3>4. \A k \in Keys : arch_rows[t][r][k] = rows[t][r][k]
      BY <3>1, <3>2, <3>3, MarkBounds DEF SweepInv, MarksClaimed
    <3> QED
      BY <3>1, <3>4
  <2> QED
    BY <2>2, <2>3 DEF Whole
<1> QED
  BY <1>1, <1>2 DEF ArchiveSafe, SweepInv

\* MongoArchive.reconcile and dump_run, with one archive thread: for any runs, keys
\* and bounds, whatever fails, is rewritten under a dump or is cut short by a crash,
\* a run that nobody would dump again is whole in Mongo, and a closed summary is of a
\* finished run.
THEOREM ArchiveSafeAlways ==
  ASSUME OneSweeper
  PROVE  Spec => []ArchiveSafe
<1>1. Init => SweepInv
  BY InitTypes, InitClaims DEF SweepInv, Claims
<1>2. SweepInv /\ [Next]_vars => SweepInv'
  BY InvStep
<1>3. SweepInv => ArchiveSafe
  BY InvSafe
<1> QED
  BY <1>1, <1>2, <1>3, PTL DEF Spec

-----------------------------------------------------------------------------
(* The working set over the archive: any number of read requests and of    *)
(* rows.  Between phase 1 and phase 2 of a rehydration the source was read *)
(* and nothing was written: SetInv says why that is safe.  The lock's      *)
(* value when it is free, "", is no reader.                                *)

SetStores == [Set!Tables -> SUBSET Nat]
SetRequests == [pc : {"idle", "rehydrate", "read", "write", "served"}, cols : SetStores, keeps : BOOLEAN]

LEMMA NothingIsStore == Set!Nothing \in SetStores
BY DEF Set!Nothing, SetStores

LEMMA NoRowsNothing ==
  ASSUME NEW d \in SetStores, Set!Rows(d) = {}
  PROVE  d = Set!Nothing
<1>1. ASSUME NEW tb \in Set!Tables PROVE d[tb] = {}
  BY <1>1 DEF Set!Rows
<1> QED
  BY <1>1 DEF SetStores, Set!Nothing

LEMMA NothingHasNoRows == Set!Rows(Set!Nothing) = {}
BY DEF Set!Rows, Set!Nothing

SetTypes ==
  /\ held \in SetStores /\ arch \in SetStores /\ fresh \in SetStores
  /\ published \in [Set!Tables -> Nat]
  /\ lock \in Readers \cup {""}
  /\ req \in [Readers -> SetRequests]

\* The lock is held by the request that is between phase 0 and phase 2.
LockOwner == \A r \in Readers : req[r].pc \in {"read", "write"} <=> lock = r

\* It was taken on an absent run, and no writer or eviction gets in.
LockedIsAbsent == lock # "" => held = Set!Nothing /\ fresh = Set!Nothing

\* So what phase 1 read is what the archive holds when phase 2 writes it, whole.
ReadIsCurrent == \A r \in Readers : req[r].pc = "write" => req[r].cols = arch /\ req[r].keeps = FALSE

SetInv ==
  /\ SetTypes /\ LockOwner /\ LockedIsAbsent /\ ReadIsCurrent
  /\ Set!IngestSurvivesReads /\ Set!RestoreIsWhole

LEMMA SetInitInv ==
  ASSUME "" \notin Readers
  PROVE  Set!Init => SetInv
<1> SUFFICES ASSUME Set!Init PROVE SetInv
  OBVIOUS
<1>1. SetTypes
  BY NothingIsStore DEF Set!Init, SetTypes, Set!Idle, SetRequests
<1>2. LockOwner /\ LockedIsAbsent /\ ReadIsCurrent
  BY DEF Set!Init, LockOwner, LockedIsAbsent, ReadIsCurrent, Set!Idle
<1>3. Set!IngestSurvivesReads /\ Set!RestoreIsWhole
  BY DEF Set!Init, Set!IngestSurvivesReads, Set!RestoreIsWhole, Set!Nothing
<1> QED
  BY <1>1, <1>2, <1>3 DEF SetInv

LEMMA SetTypesStep ==
  ASSUME SetTypes, [Set!Next]_(Set!vars)
  PROVE  SetTypes'
<1> USE NothingIsStore DEF SetTypes, Set!Goes
<1>1. CASE UNCHANGED Set!vars
  BY <1>1 DEF Set!vars
<1>2. ASSUME NEW tb \in Set!Tables, Set!Ingest(tb) PROVE SetTypes'
  <2> HIDE DEF SetTypes, Set!Goes
  <2>1. published[tb] + 1 \in Nat
    <3>1. published[tb] \in Nat
      BY Zenon DEF SetTypes
    <3> QED
      BY <3>1
  <2>2. held' \in SetStores
    BY <1>2, <2>1 DEF Set!Ingest, SetStores, SetTypes
  <2>3. fresh' \in SetStores
    BY <1>2, <2>1 DEF Set!Ingest, SetStores, SetTypes
  <2>4. published' \in [Set!Tables -> Nat]
    BY <1>2, <2>1 DEF Set!Ingest, SetTypes
  <2> QED
    BY <1>2, <2>2, <2>3, <2>4 DEF Set!Ingest, SetTypes
<1>3. CASE Set!Dump
  BY <1>3 DEF Set!Dump, SetStores
<1>4. CASE Set!evict_run
  BY <1>4 DEF Set!evict_run
<1>5. ASSUME NEW r \in Readers,
             Set!ensure_available(r) \/ Set!Guard(r) \/ Set!RehydrateFails(r) \/ Set!rehydrate_run(r) \/ Set!handle(r)
      PROVE  SetTypes'
  <2>1. CASE Set!ensure_available(r)
    BY <2>1 DEF Set!ensure_available, SetRequests
  <2>2. CASE Set!Guard(r)
    BY <2>2 DEF Set!Guard, SetRequests
  <2>3. CASE Set!RehydrateFails(r)
    BY <2>3 DEF Set!RehydrateFails, SetRequests
  <2>4. CASE Set!rehydrate_run(r)
    BY <2>4 DEF Set!rehydrate_run, SetRequests, SetStores
  <2>5. CASE Set!handle(r)
    BY <2>5 DEF Set!handle, SetRequests, Set!Idle
  <2> QED
    BY <1>5, <2>1, <2>2, <2>3, <2>4, <2>5
<1>6. ASSUME NEW r \in Readers, NEW answered \in BOOLEAN, Set!ReadSource(r, answered)
      PROVE  SetTypes'
  <2>1. CASE answered \/ Set!keeps_breakdown(held)
    <3>1. [pc |-> "write", cols |-> arch, keeps |-> ~answered] \in SetRequests
      BY DEF SetRequests
    <3> QED
      BY <1>6, <2>1, <3>1 DEF Set!ReadSource
  <2>2. CASE ~(answered \/ Set!keeps_breakdown(held))
    BY <1>6, <2>2 DEF Set!ReadSource, SetRequests
  <2> QED
    BY <2>1, <2>2
<1> QED
  BY <1>1, <1>2, <1>3, <1>4, <1>5, <1>6 DEF Set!Next

LEMMA SetLockStep ==
  ASSUME "" \notin Readers, SetInv, [Set!Next]_(Set!vars)
  PROVE  LockOwner' /\ LockedIsAbsent' /\ ReadIsCurrent'
<1> USE DEF SetInv, LockOwner, LockedIsAbsent, ReadIsCurrent, SetTypes, Set!Goes
<1>1. CASE UNCHANGED Set!vars
  BY <1>1 DEF Set!vars
<1>2. ASSUME NEW tb \in Set!Tables, Set!Ingest(tb)
      PROVE  LockOwner' /\ LockedIsAbsent' /\ ReadIsCurrent'
  BY <1>2 DEF Set!Ingest
<1>3. CASE Set!Dump
  <2>1. lock = ""
    BY <1>3, NothingHasNoRows DEF Set!Dump
  <2> QED
    BY <1>3, <2>1 DEF Set!Dump
<1>4. CASE Set!evict_run
  BY <1>4 DEF Set!evict_run
<1>5. ASSUME NEW r \in Readers,
             Set!ensure_available(r) \/ Set!Guard(r) \/ Set!RehydrateFails(r) \/ Set!rehydrate_run(r) \/ Set!handle(r)
      PROVE  LockOwner' /\ LockedIsAbsent' /\ ReadIsCurrent'
  <2>1. CASE Set!ensure_available(r)
    BY <2>1 DEF Set!ensure_available, SetRequests
  <2>2. CASE Set!Guard(r)
    <3>1. CASE Set!absent(held)
      <4>1. held = Set!Nothing
        BY <3>1, NoRowsNothing DEF Set!absent
      <4>2. fresh = Set!Nothing
        BY <4>1 DEF Set!IngestSurvivesReads, Set!Nothing, SetStores
      <4> QED
        <5>1. lock = "" /\ lock' = r /\ req' = [req EXCEPT ![r].pc = "read"]
              /\ UNCHANGED <<held, arch, fresh>>
          BY <2>2, <3>1 DEF Set!Guard
        <5>2. \A u \in Readers : u # r => req'[u] = req[u]
          BY <5>1
        <5>3. req'[r].pc = "read"
          BY <5>1 DEF SetRequests
        <5> QED
          BY <4>1, <4>2, <5>1, <5>2, <5>3
    <3>2. CASE ~Set!absent(held)
      BY <2>2, <3>2 DEF Set!Guard, SetRequests
    <3> QED
      BY <3>1, <3>2
  <2>3. CASE Set!RehydrateFails(r)
    BY <2>3 DEF Set!RehydrateFails, SetRequests
  <2>4. CASE Set!rehydrate_run(r)
    BY <2>4 DEF Set!rehydrate_run, SetRequests
  <2>5. CASE Set!handle(r)
    BY <2>5 DEF Set!handle, SetRequests, Set!Idle
  <2> QED
    BY <1>5, <2>1, <2>2, <2>3, <2>4, <2>5
<1>6. ASSUME NEW r \in Readers, NEW answered \in BOOLEAN, Set!ReadSource(r, answered)
      PROVE  LockOwner' /\ LockedIsAbsent' /\ ReadIsCurrent'
  <2>1. req[r].pc = "read" /\ lock = r /\ held = Set!Nothing
    BY <1>6 DEF Set!ReadSource
  <2>2. ~Set!keeps_breakdown(held)
    BY <2>1 DEF Set!keeps_breakdown, Set!Nothing, Set!Tables
  <2>3. CASE answered
    <3> DEFINE whole == [pc |-> "write", cols |-> arch, keeps |-> FALSE]
    <3>1. req' = [req EXCEPT ![r] = whole] /\ UNCHANGED <<lock, held, arch, fresh>>
      BY <1>6, <2>3, Zenon DEF Set!ReadSource
    <3>2. req'[r] = whole /\ \A u \in Readers : u # r => req'[u] = req[u]
      BY <3>1
    <3> QED
      BY <2>1, <3>1, <3>2
  <2>4. CASE ~answered
    <3>1. req' = [req EXCEPT ![r].pc = "served"] /\ lock' = "" /\ UNCHANGED <<held, arch, fresh>>
      BY <1>6, <2>2, <2>4 DEF Set!ReadSource
    <3> QED
      BY <2>1, <3>1 DEF SetRequests
  <2> QED
    BY <2>3, <2>4
<1> QED
  BY <1>1, <1>2, <1>3, <1>4, <1>5, <1>6 DEF Set!Next

LEMMA SetSafeStep ==
  ASSUME "" \notin Readers, SetInv, [Set!Next]_(Set!vars)
  PROVE  Set!IngestSurvivesReads' /\ Set!RestoreIsWhole'
<1> USE DEF SetInv, SetTypes, SetStores, Set!IngestSurvivesReads, Set!RestoreIsWhole
<1>1. CASE UNCHANGED <<held, arch, meta, fresh>>
  BY <1>1
<1>2. ASSUME NEW tb \in Set!Tables, Set!Ingest(tb)
      PROVE  Set!IngestSurvivesReads' /\ Set!RestoreIsWhole'
  BY <1>2 DEF Set!Ingest
<1>3. CASE Set!Dump
  BY <1>3 DEF Set!Dump
<1>4. CASE Set!evict_run
  BY <1>4 DEF Set!evict_run, Set!Nothing
<1>5. ASSUME NEW r \in Readers, Set!rehydrate_run(r)
      PROVE  Set!IngestSurvivesReads' /\ Set!RestoreIsWhole'
  <2>1. req[r].pc = "write" /\ lock = r
    BY <1>5 DEF Set!rehydrate_run, LockOwner
  <2>2. req[r].cols = arch /\ req[r].keeps = FALSE /\ fresh = Set!Nothing
    BY <2>1 DEF ReadIsCurrent, LockedIsAbsent
  <2>3. \A tb \in Set!Tables : held'[tb] = arch[tb]
    BY <1>5, <2>2 DEF Set!rehydrate_run
  <2> QED
    BY <1>5, <2>2, <2>3 DEF Set!rehydrate_run, Set!Nothing
<1> QED
  BY <1>1, <1>2, <1>3, <1>4, <1>5
     DEF Set!Next, Set!vars, Set!ensure_available, Set!Guard, Set!RehydrateFails, Set!handle, Set!ReadSource

\* DuckStore and its read API: requests that find a run absent pull it back in two
\* phases, racing writers, dumps, evictions and each other; no interleaving of any
\* number of them loses a row ingested since the last eviction or leaves a run
\* pulled back in part.
THEOREM WorkingSetSafeAlways ==
  ASSUME "" \notin Readers
  PROVE  Set!Spec => []WorkingSetSafe
<1>1. Set!Init => SetInv
  BY SetInitInv
<1>2. SetInv /\ [Set!Next]_(Set!vars) => SetInv'
  BY SetTypesStep, SetLockStep, SetSafeStep DEF SetInv
<1>3. SetInv => WorkingSetSafe
  BY DEF SetInv, WorkingSetSafe, Set!WorkingSetSafe
<1> QED
  BY <1>1, <1>2, <1>3, PTL DEF Set!Spec
=================================================================================
