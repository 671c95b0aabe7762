------------------------------- MODULE KpiSink -------------------------------
(***************************************************************************)
(* The KPI sink: kpi_stream rows buffered into one DuckDB file per run and *)
(* exported to Mongo when the run ends, breakdown documents upserted as    *)
(* they come, and the read API that serves both.                           *)
(*                                                                         *)
(* One run.  A KPI row is its key (metric, sim_clock), numbered in the     *)
(* order it was published; publishing it again writes the same value.      *)
(* Threads: the KPI consumer, the flush timer, the run_status consumer,    *)
(* the breakdown consumer and the main thread, which shuts down.  The lock *)
(* covers one statement at a time: what a thread popped from the buffer is *)
(* in nobody's sight until it is written.  An exporter's own flush is      *)
(* taken together with the read it precedes; the timer and the consumer    *)
(* are the ones that hold rows in between.                                 *)
(***************************************************************************)
EXTENDS Integers, FiniteSets, FiniteSetsExt, Sequences

CONSTANTS
  MaxRows,       \* bound: KPI rows published
  Docs,          \* the breakdown documents published: a sequence of [clock, final]
  BatchMax,      \* batch_max_rows
  MaxTriggers,   \* bound: terminal run_status messages
  MaxFaults,     \* bound: kills, failed writes and inserts, unparsable rows
  Points,        \* MAX_SERIES_POINTS
  MaxSeries      \* bound: length of a series

VARIABLES
  produced,   \* rows 1 .. produced are on kpi_stream
  pos,        \* next row the consumer reads
  group,      \* committed offset of the consumer group (auto-commit)
  alive,      \* the KPI consumer thread runs
  pending,    \* DuckDbKpiStore._pending of the run
  popped,     \* popped[f]: rows a flusher took and has not written
  store,      \* kpi_events
  lost,       \* rows dropped by a failed write or a kill
  mongo,      \* the kpi collection (unique by run, metric, clock)
  export,     \* run_export_state: [status, count]
  job,        \* job[x]: an exporter's [pc, count, rows]
  triggers,   \* terminal run_status messages so far
  shown,      \* shown[c]: the document whose rows are stored for clock c, 0 if none
  bpos,       \* next breakdown document to read
  up,         \* "up" | "stopping" | "down"
  faults

vars == <<produced, pos, group, alive, pending, popped, store, lost, mongo, export, job, triggers, shown, bpos, up, faults>>
buffers == <<pending, popped, store, lost>>
exports == <<mongo, export, job, triggers>>

Flushers == {"timer", "kpi"}
Exporters == {"status", "main"}
Idle == [pc |-> "idle", count |-> 0, rows |-> {}]
Clocks == {Docs[i].clock : i \in DOMAIN Docs}

Init ==
  /\ produced = 0 /\ pos = 1 /\ group = 1 /\ alive = TRUE
  /\ pending = {} /\ popped = [f \in Flushers |-> {}] /\ store = {} /\ lost = {}
  /\ mongo = {} /\ export = [status |-> "none", count |-> 0]
  /\ job = [x \in Exporters |-> Idle] /\ triggers = 0
  /\ shown = [c \in Clocks |-> 0] /\ bpos = 1
  /\ up = "up" /\ faults = 0

Fault == faults < MaxFaults /\ faults' = faults + 1
Running == up # "down"

-----------------------------------------------------------------------------
(* The streams.                                                            *)

Publish ==
  /\ produced < MaxRows /\ produced' = produced + 1
  /\ UNCHANGED <<pos, group, alive, bpos, shown, up, faults>> /\ UNCHANGED buffers /\ UNCHANGED exports

(* The consumer reads a row into the buffer, and flushes a full batch.     *)
enqueue ==
  /\ Running /\ alive /\ popped["kpi"] = {} /\ pos <= produced
  /\ pos' = pos + 1
  /\ IF Cardinality(pending \cup {pos}) >= BatchMax
       THEN popped' = [popped EXCEPT !["kpi"] = pending \cup {pos}] /\ pending' = {}
       ELSE pending' = pending \cup {pos} /\ UNCHANGED popped
  /\ UNCHANGED <<produced, group, alive, store, lost, shown, bpos, up, faults>> /\ UNCHANGED exports

(* A row whose sim_clock does not parse ends the consumer thread.          *)
BadRow ==
  /\ up = "up" /\ alive /\ popped["kpi"] = {} /\ pos <= produced /\ Fault
  /\ alive' = FALSE /\ lost' = lost \cup {pos} /\ pos' = pos + 1
  /\ UNCHANGED <<produced, group, pending, popped, store, shown, bpos, up>> /\ UNCHANGED exports

(* Kafka commits what was delivered, written or not.                       *)
AutoCommit ==
  /\ Running /\ group < pos /\ group' = pos
  /\ UNCHANGED <<produced, pos, alive, shown, bpos, up, faults>> /\ UNCHANGED buffers /\ UNCHANGED exports

(* The flush timer's pop, and a flusher's write, which may fail.           *)
TimerFlush ==
  /\ up = "up" /\ popped["timer"] = {} /\ pending # {}
  /\ popped' = [popped EXCEPT !["timer"] = pending] /\ pending' = {}
  /\ UNCHANGED <<produced, pos, group, alive, store, lost, shown, bpos, up, faults>> /\ UNCHANGED exports

Write(f, works) ==
  /\ Running /\ popped[f] # {}
  /\ popped' = [popped EXCEPT ![f] = {}]
  /\ IF works THEN store' = store \cup popped[f] /\ UNCHANGED <<lost, faults, alive>>
     ELSE Fault /\ lost' = lost \cup popped[f] /\ UNCHANGED store /\ alive' = (alive /\ f = "timer")
  /\ UNCHANGED <<produced, pos, group, pending, shown, bpos, up>> /\ UNCHANGED exports

-----------------------------------------------------------------------------
(* The export.                                                             *)

(* Slip: the count on record is the one after the insert. *)
recorded_later(x) == Cardinality(store)

(* The count on record is the one read before the rows were fetched.       *)
recorded_count(x) == job[x].count

Flushed == store \cup pending

(* A terminal run_status, or the shutdown, starts an export: flush, count, *)
(* and skip when as many rows were exported before.                        *)
export_run(x) ==
  /\ job[x] = Idle
  /\ store' = Flushed /\ pending' = {}
  /\ IF export.status = "exported" /\ Cardinality(Flushed) <= export.count
       THEN job' = [job EXCEPT ![x].pc = "skipped"]
       ELSE job' = [job EXCEPT ![x] = [pc |-> "fetch", count |-> Cardinality(Flushed), rows |-> {}]]
  /\ UNCHANGED <<produced, pos, group, alive, popped, lost, mongo, export, shown, bpos, faults>>

handle_terminal_run ==
  /\ up = "up" /\ triggers < MaxTriggers /\ triggers' = triggers + 1
  /\ export_run("status") /\ UNCHANGED up

Shutdown ==
  /\ up = "up" /\ up' = "stopping"
  /\ export_run("main") /\ UNCHANGED triggers

fetch_all(x) ==
  /\ Running /\ job[x].pc = "fetch"
  /\ store' = Flushed /\ pending' = {}
  /\ IF Flushed = {}
       THEN export' = [status |-> "exported", count |-> 0] /\ job' = [job EXCEPT ![x] = [Idle EXCEPT !.pc = "skipped"]]
       ELSE UNCHANGED export /\ job' = [job EXCEPT ![x].pc = "insert", ![x].rows = Flushed]
  /\ UNCHANGED <<produced, pos, group, alive, popped, lost, mongo, triggers, shown, bpos, up, faults>>

(* Duplicates are what an earlier export left; any other error stops it.   *)
insert_batches(x) ==
  /\ Running /\ job[x].pc = "insert"
  /\ mongo' = mongo \cup job[x].rows /\ job' = [job EXCEPT ![x].pc = "record"]
  /\ UNCHANGED <<produced, pos, group, alive, export, triggers, shown, bpos, up, faults>> /\ UNCHANGED buffers

InsertFails(x) ==
  /\ Running /\ job[x].pc = "insert" /\ Fault
  /\ \E part \in SUBSET job[x].rows : mongo' = mongo \cup part
  /\ export' = [status |-> "failed", count |-> 0]
  /\ job' = [job EXCEPT ![x] = [Idle EXCEPT !.pc = "skipped"]]
  /\ UNCHANGED <<produced, pos, group, alive, triggers, shown, bpos, up>> /\ UNCHANGED buffers

set_export_state(x) ==
  /\ Running /\ job[x].pc = "record"
  /\ export' = [status |-> "exported", count |-> recorded_count(x)]
  /\ job' = [job EXCEPT ![x] = [Idle EXCEPT !.pc = "skipped"]]
  /\ UNCHANGED <<produced, pos, group, alive, mongo, triggers, shown, bpos, up, faults>> /\ UNCHANGED buffers

(* The run_status consumer goes on to its next message.                    *)
NextMessage ==
  /\ Running /\ job["status"].pc = "skipped" /\ job' = [job EXCEPT !["status"] = Idle]
  /\ UNCHANGED <<produced, pos, group, alive, mongo, export, triggers, shown, bpos, up, faults>> /\ UNCHANGED buffers

(* The shutdown's last flush, then the exit: the consumer's close commits  *)
(* what was delivered, a row read after the flush included.  Or a kill.    *)
LastFlush ==
  /\ up = "stopping" /\ job["main"].pc = "skipped"
  /\ job' = [job EXCEPT !["main"].pc = "closed"] /\ store' = Flushed /\ pending' = {}
  /\ UNCHANGED <<produced, pos, group, alive, popped, lost, mongo, export, triggers, shown, bpos, up, faults>>

GoDown ==
  /\ up' = "down"
  /\ lost' = lost \cup pending \cup UNION {popped[f] : f \in Flushers}
  /\ pending' = {} /\ popped' = [f \in Flushers |-> {}] /\ job' = [x \in Exporters |-> Idle]
  /\ UNCHANGED <<produced, pos, alive, store, mongo, export, triggers, shown, bpos>>

Exit ==
  /\ job["main"].pc = "closed" /\ \A f \in Flushers : popped[f] = {}
  /\ GoDown /\ group' = pos /\ UNCHANGED faults
Kill == Running /\ Fault /\ GoDown /\ UNCHANGED group

(* Redelivery starts at the committed offset, and for the breakdowns at an *)
(* earlier document; the same rows are upserted again.                     *)
Restart ==
  /\ up = "down" /\ up' = "up" /\ alive' = TRUE
  /\ pos' = group /\ lost' = lost \ (group .. pos)
  /\ bpos' \in {1, bpos}
  /\ UNCHANGED <<produced, group, pending, popped, store, shown, faults>> /\ UNCHANGED exports

-----------------------------------------------------------------------------
(* Breakdown documents and the read API.                                   *)

write_breakdown ==
  /\ up = "up" /\ bpos \in DOMAIN Docs
  /\ shown' = [shown EXCEPT ![Docs[bpos].clock] = bpos] /\ bpos' = bpos + 1
  /\ UNCHANGED <<produced, pos, group, alive, up, faults>> /\ UNCHANGED buffers /\ UNCHANGED exports

(* The newest final snapshot when one is preferred and exists, else the    *)
(* newest; none after the cutoff.                                          *)
breakdown_latest(cutoff, prefer_final) ==
  LET scoped == {c \in Clocks : shown[c] # 0 /\ c <= cutoff}
      chosen == {c \in scoped : prefer_final => Docs[shown[c]].final} IN
  IF chosen # {} THEN shown[Max(chosen)] ELSE IF scoped # {} THEN shown[Max(scoped)] ELSE 0

(* The points a chart of max_n points keeps of a series (1-based).         *)
downsample(len, max_n) ==
  IF len <= max_n THEN [i \in 1 .. len |-> i]
  ELSE [i \in 1 .. max_n |-> IF i = max_n THEN len ELSE ((i - 1) * len) \div max_n + 1]

Next ==
  \/ Publish \/ enqueue \/ BadRow \/ AutoCommit \/ TimerFlush \/ handle_terminal_run \/ Shutdown
  \/ NextMessage \/ LastFlush \/ Exit \/ Kill \/ Restart \/ write_breakdown
  \/ \E f \in Flushers, works \in BOOLEAN : Write(f, works)
  \/ \E x \in Exporters : fetch_all(x) \/ insert_batches(x) \/ InsertFails(x) \/ set_export_state(x)

Spec == Init /\ [][Next]_vars

-----------------------------------------------------------------------------
(* Skipping an export loses nothing: whenever export_run would skip, every *)
(* row stored is already in Mongo, whatever arrived while rows were being  *)
(* fetched and inserted, and whichever of two exporters recorded last.     *)
SkipIsSafe == export.status = "exported" /\ Cardinality(store) <= export.count => store \subseteq mongo

(* A delivered row is in the buffer, in a flusher's hands or stored: only  *)
(* a failed write, an unparsable row or a process going down drops one.    *)
NoRowVanishes == \A r \in 1 .. (pos - 1) : r \in pending \cup popped["timer"] \cup popped["kpi"] \cup store \cup lost

(* Once the stream was read to its end the final document answers whoever  *)
(* asks for it, though a live one of a later clock exists; a replay is     *)
(* never answered from after its time.                                     *)
FinalIsServed ==
  /\ (\E i \in DOMAIN Docs : Docs[i].final) /\ bpos > Len(Docs) =>
       LET d == breakdown_latest(Max(Clocks), TRUE) IN d # 0 /\ Docs[d].final
  /\ \A c \in Clocks, p \in BOOLEAN : LET d == breakdown_latest(c, p) IN d # 0 => Docs[d].clock <= c

(* A chart keeps the first and the last point of its series, in order and  *)
(* none twice, for every length up to MaxSeries.                           *)
SeriesKeepsItsEnds ==
  \A len \in 1 .. MaxSeries, n \in 2 .. Points :
    LET s == downsample(len, n) IN
    /\ Len(s) = Min({len, n}) /\ s[1] = 1 /\ s[Len(s)] = len
    /\ \A i \in 1 .. (Len(s) - 1) : s[i] < s[i + 1]

SinkSafe == SkipIsSafe /\ NoRowVanishes /\ FinalIsServed /\ SeriesKeepsItsEnds

=============================================================================
