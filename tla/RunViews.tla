------------------------------- MODULE RunViews -------------------------------
(***************************************************************************)
(* The two ways a run is looked at: streamed live to a viewer, and read    *)
(* back once it may have left the working set.  The two share nothing;     *)
(* names that would clash are told apart here.                             *)
(***************************************************************************)
EXTENDS Integers

CONSTANTS
  Reporters,         \* the trucks of the streamed run
  MaxStreamFrames, MaxEvents, BusMax, Limit, MaxStreamFaults,
  Readers, MaxRows, MaxSetFaults

VARIABLES
  codes, inTier, placed, frameIdx, bus, head, conn, got, overrun, drawn, evictions,
  held, arch, meta, published, fresh, lock, req, refusals

Stream == INSTANCE LiveStream WITH
  Trucks <- Reporters, MaxFrames <- MaxStreamFrames, MaxFaults <- MaxStreamFaults,
  slab <- codes, resident <- inTier, written <- placed, frame <- frameIdx, faults <- evictions

Set == INSTANCE WorkingSet WITH MaxFaults <- MaxSetFaults, duck <- held, faults <- refusals

streamVars == <<codes, inTier, placed, frameIdx, bus, head, conn, got, overrun, drawn, evictions>>
setVars == <<held, arch, meta, published, fresh, lock, req, refusals>>

-----------------------------------------------------------------------------
\* LiveStream: a viewer is told of every change of the truck codes it draws with, and
\* no event of the bus passes it unread without the overrun being reported.
StreamSafe == Stream!StreamSafe

\* WorkingSet: what a reader is answered is the run, evicted and restored or not.
WorkingSetSafe == Set!WorkingSetSafe
===============================================================================
