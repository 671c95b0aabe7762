------------------------------ MODULE RunReports ------------------------------
(***************************************************************************)
(* What is kept of a run outside its agents: its KPIs in the sink and its  *)
(* trips on the live map.  The two share nothing; names that would clash   *)
(* are told apart here.                                                    *)
(***************************************************************************)
EXTENDS Integers

CONSTANTS
  MaxRows, Docs, BatchMax, MaxTriggers, MaxSinkFaults, SeriesPoints, MaxSeries,
  Trips, Routes, MaxMapFaults

VARIABLES
  produced, pos, sinkGroup, alive, pending, popped, store, discarded, mongo, export, job,
  triggers, breakdowns, bpos, up, sinkFaults,
  state, route, authoritative, osrm, cache, inflight, last_emit, last_active, onScreen,
  lastRead, aborted, mapFaults

Sink == INSTANCE KpiSink WITH
  MaxFaults <- MaxSinkFaults, Points <- SeriesPoints, group <- sinkGroup, lost <- discarded,
  shown <- breakdowns, faults <- sinkFaults

Map == INSTANCE LiveMap WITH
  MaxFaults <- MaxMapFaults, shown <- onScreen, settled <- lastRead, faults <- mapFaults

sinkVars == <<produced, pos, sinkGroup, alive, pending, popped, store, discarded, mongo, export,
              job, triggers, breakdowns, bpos, up, sinkFaults>>
mapVars == <<state, route, authoritative, osrm, cache, inflight, last_emit, last_active, onScreen,
             lastRead, aborted, mapFaults>>

-----------------------------------------------------------------------------
\* KpiSink: what is stored, exported and shown of a run's KPIs is what was published.
SinkSafe == Sink!SinkSafe

\* LiveMap: the routes the viewer sees are those of the trips the last publish read.
MapIsCurrent == Map!MapIsCurrent
===============================================================================
