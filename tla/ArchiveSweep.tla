----------------------------- MODULE ArchiveSweep -----------------------------
(***************************************************************************)
(* The durable archive of a run: the dump queue and the reconcile sweep of *)
(* apps/dataplane/service.py over MongoArchive (archive/mongo.py).         *)
(*                                                                         *)
(* The poll thread fills DuckDB and queues finished runs; the archive task *)
(* drains the queue and, now and then, dumps every run whose summary is    *)
(* behind the working set.  dump_run is a sequence of reads of DuckDB and  *)
(* writes to Mongo with no transaction around them, and the summary, which *)
(* decides whether anybody looks at the run again, is written last.        *)
(*                                                                         *)
(* A row is the stamp of its last write (ingested_at, 0: no such row), so  *)
(* a revision leaves the row count alone and moves the largest stamp.      *)
(***************************************************************************)
EXTENDS Integers, Sequences, FiniteSets

CONSTANTS
  Runs, Keys,
  Sweepers,      \* archive task threads (a stalled one is abandoned, not killed)
  MaxStamp,      \* bound: row writes
  MaxFrames,     \* bound: frames of a run
  MaxFaults,     \* bound: calls a store refuses
  MaxCrashes     \* bound: hard kills

ASSUME ArchiveAssumption ==
  /\ {MaxStamp, MaxFrames, MaxFaults, MaxCrashes} \subseteq Nat
  /\ IsFiniteSet(Runs) /\ IsFiniteSet(Keys) /\ Keys # {}

Tables == {"kpi", "bd"}

VARIABLES
  \* DuckDB.
  n_frames,      \* frames 0 .. n_frames[r] - 1 are on disk
  rows,          \* rows[t][r][k]: stamp of the row, 0 when there is none
  status,        \* runs whose run_meta.status is terminal
  export,        \* runs with an outcome in run_export_state
  \* Kafka and the consumer.
  missing,       \* <<run, key>> of kpi records not in DuckDB, still on the broker
  blocked,       \* the consumer knows it: blocked_topics() is not empty
  \* Mongo.
  arch_frames, arch_rows, summary,
  \* The service.
  queue, task,
  \* The world and its bounds.
  clock, faults, crashes

duck == <<n_frames, rows, status, export>>
ingest == <<missing, blocked>>
mongo == <<arch_frames, arch_rows, summary>>
vars == <<duck, ingest, mongo, queue, task, clock, faults, crashes>>

-----------------------------------------------------------------------------
None == [frame_max |-> -1, count |-> [t \in Tables |-> 0],
         mark |-> [t \in Tables |-> 0], complete |-> FALSE, written |-> FALSE]

Idle == [pc |-> "idle"]
NoRows == [k \in Keys |-> 0]

Largest(S) == CHOOSE x \in S : \A y \in S : y <= x
Count(f) == Cardinality({k \in Keys : f[k] > 0})
Mark(f) == Largest({f[k] : k \in Keys})

\* _duck_watermark and _duck_max_ingested_at.
DuckCounts(r) == [t \in Tables |-> Count(rows[t][r])]
DuckMarks(r) == [t \in Tables |-> Mark(rows[t][r])]

RunIsTerminal(r) == r \in status \/ r \in export

\* _duck_moved_past: compares the largest frame, the counts and the content marks.
DuckMovedPast(r) ==
  \/ n_frames[r] - 1 > summary[r].frame_max
  \/ \E t \in Tables : \/ DuckCounts(r)[t] > summary[r].count[t]
                       \/ DuckMarks(r)[t] > summary[r].mark[t]

\* Slip: an open summary that has caught up is taken for a closed one.
RunIsPendingSlip(r) == ~summary[r].written \/ DuckMovedPast(r)

RunIsPending(r) ==
  \/ ~summary[r].written
  \/ DuckMovedPast(r)
  \/ ~summary[r].complete /\ RunIsTerminal(r)

\* list_run_ids.
Listed == {r \in Runs : n_frames[r] > 0 \/ r \in status \/ \E t \in Tables : rows[t][r] # NoRows}

Fault == faults < MaxFaults /\ faults' = faults + 1

Init ==
  /\ n_frames = [r \in Runs |-> 0]
  /\ rows = [t \in Tables |-> [r \in Runs |-> NoRows]]
  /\ status = {}
  /\ export = {}
  /\ missing = {}
  /\ blocked = FALSE
  /\ arch_frames = [r \in Runs |-> {}]
  /\ arch_rows = [t \in Tables |-> [r \in Runs |-> NoRows]]
  /\ summary = [r \in Runs |-> None]
  /\ queue = <<>>
  /\ task = [s \in Sweepers |-> Idle]
  /\ clock = 0
  /\ faults = 0
  /\ crashes = 0

-----------------------------------------------------------------------------
(* The poll thread and the capture sweep, as far as the archive sees them. *)

WriteFrame(r) ==
  /\ r \notin status
  /\ n_frames[r] < MaxFrames
  /\ n_frames' = [n_frames EXCEPT ![r] = @ + 1]
  /\ UNCHANGED <<rows, status, export, ingest, mongo, queue, task, clock, faults, crashes>>

\* An upsert: a new row, or the same key again with a later stamp.
WriteRow(t, r, k) ==
  /\ clock < MaxStamp
  /\ clock' = clock + 1
  /\ rows' = [rows EXCEPT ![t][r][k] = clock + 1]
  /\ missing' = IF t = "kpi" THEN missing \ {<<r, k>>} ELSE missing
  /\ blocked' = (blocked /\ missing' # {})
  /\ UNCHANGED <<n_frames, status, export, mongo, queue, task, faults, crashes>>

\* A kpi write fails: its partition is blocked until the record is replayed.
StrandRow(r, k) ==
  /\ clock < MaxStamp
  /\ Fault
  /\ missing' = missing \cup {<<r, k>>}
  /\ blocked' = TRUE
  /\ UNCHANGED <<duck, mongo, queue, task, clock, crashes>>

\* finalize_run, past its gate: the status on disk, then queue_dump.
Terminal(r) ==
  /\ r \notin status
  /\ ~blocked
  /\ status' = status \cup {r}
  /\ queue' = Append(queue, r)
  /\ UNCHANGED <<n_frames, rows, export, ingest, mongo, task, clock, faults, crashes>>

-----------------------------------------------------------------------------
(* _task_reconcile: drain_dumps, then reconcile_once.                      *)

\* A dump of run r: todo are the runs of the sweep still to come.
Dump(r, drain, todo, closing) ==
  [pc |-> "frames", run |-> r, drain |-> drain, todo |-> todo, closing |-> closing]

\* run_is_terminal reads a failure as "not finished".
Probe(r, closing) ==
  \/ closing = RunIsTerminal(r) /\ UNCHANGED faults
  \/ closing = FALSE /\ RunIsTerminal(r) /\ Fault

\* drain_dumps takes the head; service.dump_run leaves the summary open when the
\* ingest is blocked, and otherwise lets the archive probe the run.
DrainHead(s) ==
  /\ task[s].pc = "idle"
  /\ queue # <<>>
  /\ \E closing \in BOOLEAN :
       /\ IF blocked THEN closing = FALSE /\ UNCHANGED faults ELSE Probe(Head(queue), closing)
       /\ task' = [task EXCEPT ![s] = Dump(Head(queue), TRUE, {}, closing)]
  /\ UNCHANGED <<duck, ingest, mongo, queue, clock, crashes>>

NextOfSweep(todo) == IF todo = {} THEN Idle ELSE [pc |-> "next", todo |-> todo]

\* MongoArchive.reconcile picks the pending runs first and then dumps them.
SweepPlan(s) ==
  /\ task[s].pc = "idle"
  /\ LET pending == {r \in Listed : RunIsPending(r)}
     IN  /\ pending # {}
         /\ task' = [task EXCEPT ![s] = NextOfSweep(pending)]
  /\ UNCHANGED <<duck, ingest, mongo, queue, clock, faults, crashes>>

SweepRun(s, r) ==
  /\ task[s].pc = "next"
  /\ r \in task[s].todo
  /\ \E closing \in BOOLEAN :
       /\ Probe(r, closing)
       /\ task' = [task EXCEPT ![s] = Dump(r, FALSE, task[s].todo \ {r}, closing)]
  /\ UNCHANGED <<duck, ingest, mongo, queue, clock, crashes>>

\* dump_run raised: a drain records the error and stops, a sweep goes on.
DumpFailed(s) ==
  /\ task' = [task EXCEPT ![s] = NextOfSweep(@.todo)]
  /\ export' = IF task[s].drain THEN export \cup {task[s].run} ELSE export

-----------------------------------------------------------------------------
(* MongoArchive.dump_run, one action for each exchange with a store.       *)

\* skip_upto: only a dense prefix may be skipped.
SkipUpto(r) ==
  IF arch_frames[r] # {} /\ Cardinality(arch_frames[r]) = Largest(arch_frames[r]) + 1
  THEN Largest(arch_frames[r]) ELSE -1

ToWrite(r) == {i \in 0 .. n_frames[r] - 1 : i > SkipUpto(r)}

At(s, pc) == [task[s] EXCEPT !.pc = pc]

DumpFrames(s) ==
  /\ task[s].pc = "frames"
  /\ LET r == task[s].run
     IN  arch_frames' = [arch_frames EXCEPT ![r] = @ \cup ToWrite(r)]
  /\ task' = [task EXCEPT ![s] = At(s, "marks")]
  /\ UNCHANGED <<duck, ingest, arch_rows, summary, queue, clock, faults, crashes>>

\* insert_many is unordered: any part of the batch may be there when it fails.
DumpFramesFails(s) ==
  /\ task[s].pc = "frames"
  /\ Fault
  /\ LET r == task[s].run
     IN  \E part \in SUBSET ToWrite(r) :
           /\ part # ToWrite(r)
           /\ arch_frames' = [arch_frames EXCEPT ![r] = @ \cup part]
  /\ DumpFailed(s)
  /\ UNCHANGED <<n_frames, rows, status, ingest, arch_rows, summary, queue, clock, crashes>>

\* The counts, the prior summary's marks and DuckDB's, all before any row is read.
ReadMarks(s) ==
  /\ task[s].pc = "marks"
  /\ LET r == task[s].run
     IN  task' = [task EXCEPT ![s] =
                    [pc |-> "kpi", run |-> r, drain |-> task[s].drain, todo |-> task[s].todo,
                     closing |-> task[s].closing, count |-> DuckCounts(r),
                     mark |-> DuckMarks(r), prior |-> summary[r].mark, bd_failed |-> FALSE,
                     read |-> NoRows]]
  /\ UNCHANGED <<duck, ingest, mongo, queue, clock, faults, crashes>>

\* _already_whole and _content_unchanged: the table need not be read again.
TableWhole(d, t) ==
  LET archived == Count(arch_rows[t][d.run])
  IN  /\ archived > 0 /\ archived >= d.count[t]
      /\ d.mark[t] <= d.prior[t]

ReadTable(s, t, write, next) ==
  /\ task[s].pc = t
  /\ task' = [task EXCEPT ![s] =
                IF TableWhole(task[s], t) THEN At(s, next)
                ELSE [At(s, write) EXCEPT !.read = rows[t][task[s].run]]]
  /\ UNCHANGED <<duck, ingest, mongo, queue, clock, faults, crashes>>

\* _replace_batch: the rows that were read overwrite the archived ones.
Overwritten(t, r, read, part) ==
  [arch_rows EXCEPT ![t][r] = [k \in Keys |-> IF k \in part /\ read[k] > 0 THEN read[k] ELSE @[k]]]

WriteTable(s, t, write, next) ==
  /\ task[s].pc = write
  /\ arch_rows' = Overwritten(t, task[s].run, task[s].read, Keys)
  /\ task' = [task EXCEPT ![s] = At(s, next)]
  /\ UNCHANGED <<duck, ingest, arch_frames, summary, queue, clock, faults, crashes>>

WriteTableFails(s, t, write) ==
  /\ task[s].pc = write
  /\ Fault
  /\ \E part \in SUBSET Keys :
       /\ part # Keys
       /\ arch_rows' = Overwritten(t, task[s].run, task[s].read, part)
  /\ DumpFailed(s)
  /\ UNCHANGED <<n_frames, rows, status, ingest, arch_frames, summary, queue, clock, crashes>>

ReadKpi(s) == ReadTable(s, "kpi", "kpi_write", "bd")
WriteKpi(s) == WriteTable(s, "kpi", "kpi_write", "bd")
WriteKpiFails(s) == WriteTableFails(s, "kpi", "kpi_write")
ReadBreakdown(s) == ReadTable(s, "bd", "bd_write", "summary")
WriteBreakdown(s) == WriteTable(s, "bd", "bd_write", "summary")
WriteBreakdownFails(s) == WriteTableFails(s, "bd", "bd_write")

\* BreakdownReadFailed: unknown, not zero; the run stays open.
ReadBreakdownFails(s) ==
  /\ task[s].pc = "bd"
  /\ ~TableWhole(task[s], "bd")
  /\ Fault
  /\ task' = [task EXCEPT ![s] = [At(s, "summary") EXCEPT !.bd_failed = TRUE, !.closing = FALSE]]
  /\ UNCHANGED <<duck, ingest, mongo, queue, clock, crashes>>

\* Slip: the mark of breakdown rows that could not be read is claimed.
ClaimedMarkSlip(d, t) == IF d.mark[t] = 0 THEN summary[d.run].mark[t] ELSE d.mark[t]

\* The marks a summary may claim: none for a table that could not be read or is
\* empty, so the prior one stays ($set).
ClaimedMark(d, t) ==
  IF (t = "bd" /\ d.bd_failed) \/ d.mark[t] = 0 THEN summary[d.run].mark[t] ELSE d.mark[t]

\* What the archive holds, not what this dump moved.
NewSummary(d) ==
  [frame_max |-> IF arch_frames[d.run] = {} THEN -1 ELSE Largest(arch_frames[d.run]),
   count |-> [t \in Tables |-> Count(arch_rows[t][d.run])],
   mark |-> [t \in Tables |-> ClaimedMark(d, t)],
   complete |-> d.closing, written |-> TRUE]

\* The end of a dump: the queue forgets a drained run, ArchiveIncomplete keeps it.
WriteSummary(s) ==
  /\ task[s].pc = "summary"
  /\ LET d == task[s]
     IN  /\ summary' = [summary EXCEPT ![d.run] = NewSummary(d)]
         /\ queue' = IF d.drain /\ ~d.bd_failed /\ queue # <<>> /\ Head(queue) = d.run
                     THEN Tail(queue) ELSE queue
         /\ export' = IF d.drain THEN export \cup {d.run} ELSE export
         /\ task' = [task EXCEPT ![s] = NextOfSweep(d.todo)]
  /\ UNCHANGED <<n_frames, rows, status, ingest, arch_frames, arch_rows, clock, faults, crashes>>

WriteSummaryFails(s) ==
  /\ task[s].pc = "summary"
  /\ Fault
  /\ DumpFailed(s)
  /\ UNCHANGED <<n_frames, rows, status, ingest, mongo, queue, clock, crashes>>

-----------------------------------------------------------------------------
\* A hard kill and the next start: both stores and the broker's records survive.
Crash ==
  /\ crashes < MaxCrashes
  /\ crashes' = crashes + 1
  /\ queue' = <<>>
  /\ task' = [s \in Sweepers |-> Idle]
  /\ blocked' = FALSE
  /\ UNCHANGED <<duck, missing, mongo, clock, faults>>

DumpStep(s) ==
  \/ DumpFrames(s) \/ ReadMarks(s) \/ ReadKpi(s) \/ WriteKpi(s)
  \/ ReadBreakdown(s) \/ WriteBreakdown(s) \/ WriteSummary(s)

DumpFault(s) ==
  \/ DumpFramesFails(s) \/ WriteKpiFails(s) \/ ReadBreakdownFails(s)
  \/ WriteBreakdownFails(s) \/ WriteSummaryFails(s)

Sweeping(s) ==
  \/ DrainHead(s)
  \/ SweepPlan(s)
  \/ \E r \in Runs : SweepRun(s, r)
  \/ DumpStep(s)
  \/ DumpFault(s)

Ingesting ==
  \E r \in Runs :
    \/ WriteFrame(r)
    \/ Terminal(r)
    \/ \E k \in Keys : StrandRow(r, k) \/ \E t \in Tables : WriteRow(t, r, k)

Next == Ingesting \/ Crash \/ \E s \in Sweepers : Sweeping(s)

Spec == Init /\ [][Next]_vars

\* The archive task loops for the life of the process: its sweep and every dump it
\* has begun go on.
FairSpec == Spec /\ \A s \in Sweepers : WF_vars(Sweeping(s))

-----------------------------------------------------------------------------
(* Properties.                                                             *)

TypeOK ==
  /\ n_frames \in [Runs -> 0 .. MaxFrames]
  /\ rows \in [Tables -> [Runs -> [Keys -> 0 .. MaxStamp]]]
  /\ arch_rows \in [Tables -> [Runs -> [Keys -> 0 .. MaxStamp]]]
  /\ status \subseteq Runs /\ export \subseteq Runs
  /\ missing \subseteq Runs \X Keys /\ blocked \in BOOLEAN
  /\ arch_frames \in [Runs -> SUBSET (0 .. MaxFrames - 1)]
  /\ \A i \in 1 .. Len(queue) : queue[i] \in Runs
  /\ Len(queue) <= Cardinality(Runs)
  /\ \A s \in Sweepers : task[s].pc \in
       {"idle", "next", "frames", "marks", "kpi", "kpi_write", "bd", "bd_write", "summary"}

\* The archive holds the working set of the run, revisions included.
Whole(r) ==
  /\ 0 .. n_frames[r] - 1 \subseteq arch_frames[r]
  /\ \A t \in Tables : arch_rows[t][r] = rows[t][r]

\* run_is_pending: whenever nobody would dump a run again, because neither the frame
\* index, nor a count, nor a content mark is ahead of its summary, Mongo holds all
\* of it, whatever failed or was rewritten while it was being dumped.
SettledIsWhole ==
  \A r \in Runs : summary[r].written /\ ~DuckMovedPast(r) => Whole(r)

\* A dump of a run that is still live writes an OPEN summary: a closed one means
\* that the terminal run_status was handled.
ClosedIsFinished == \A r \in Runs : summary[r].complete => r \in status

\* What MongoArchive's summary may be trusted for at every moment: the two rules
\* above, on a well-formed state.
ArchiveSafe == TypeOK /\ SettledIsWhole /\ ClosedIsFinished

\* reconcile: "A missed run-end trigger costs a delay, never the data": in the end a
\* finished run is closed and whole, with or without its queue entry.
FinishedRunsAreArchived ==
  \A r \in Runs : r \in status ~> [](summary[r].complete /\ Whole(r))

=============================================================================
