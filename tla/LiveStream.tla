------------------------------ MODULE LiveStream ------------------------------
(***************************************************************************)
(* One viewer's /live connection in frames mode: events forwarded from the *)
(* bounded live bus by cursor, position frames coalesced from the hot      *)
(* tier's slab, and the code book that tells the viewer which truck a slot *)
(* number means.                                                           *)
(*                                                                         *)
(* The slab gives a truck its slot when it first reports.  It may leave    *)
(* the hot tier and be revived by the next report: with the slot map       *)
(* parked at the eviction, or with none when the bounded carry-over has    *)
(* dropped it (run_meta is looked up once per process).  Positions and     *)
(* haulier codes are left out: a haulier code is told and contradicted the *)
(* way a slot is.                                                          *)
(***************************************************************************)
EXTENDS Integers, FiniteSets, Sequences, SequencesExt

CONSTANTS
  Trucks,
  MaxFrames,    \* bound: frames captured
  MaxEvents,    \* bound: events published on the bus
  BusMax,       \* max_per_run of the live bus
  Limit,        \* events one poll returns
  MaxFaults     \* bound: evictions of the run from the hot tier

VARIABLES
  slab,       \* the slab's slot map: slab[i] is the truck of slot i
  resident,   \* the run is in the hot tier
  written,    \* slots that hold a position
  frame,      \* frame_idx of the slab
  bus,        \* sequence numbers of the events in the bus buffer
  head,       \* last sequence number published
  conn,       \* the connection: [open, start, cursor, sent, last, known]
  got,        \* bus events the viewer received on this connection
  overrun,    \* events pushed out of the bus before the viewer read them
  drawn,      \* [on, slots, told]: the frame the viewer drew last
  faults

vars == <<slab, resident, written, frame, bus, head, conn, got, overrun, drawn, faults>>
hot == <<slab, resident, written, frame, faults>>
viewer == <<conn, got, overrun, drawn>>

NoFrame == [on |-> FALSE, slots |-> {}, told |-> FALSE]
Closed == [open |-> FALSE, start |-> 0, cursor |-> 0, sent |-> 0, last |-> 0, known |-> <<>>]
Slots == 1 .. Cardinality(Trucks)

Init ==
  /\ slab = <<>> /\ resident = TRUE /\ written = {} /\ frame = 0
  /\ bus = {} /\ head = 0
  /\ conn = Closed /\ got = {} /\ overrun = {} /\ drawn = NoFrame
  /\ faults = 0

-----------------------------------------------------------------------------
(* The hot tier.                                                           *)

slot_for(s, t) == IF t \in ToSet(s) THEN s ELSE Append(s, t)
SlotOf(s, t) == CHOOSE i \in DOMAIN s : s[i] = t

(* A position arrives; a run not resident is revived first.                *)
Report(t) ==
  /\ \E base \in IF resident THEN {slab} ELSE {slab, <<>>} :
       LET s == slot_for(base, t) IN
       /\ slab' = s
       /\ written' = (IF resident THEN written ELSE {}) \cup {SlotOf(s, t)}
  /\ resident' = TRUE
  /\ UNCHANGED <<frame, bus, head, faults>> /\ UNCHANGED viewer

Capture ==
  /\ resident /\ written # {} /\ frame < MaxFrames
  /\ frame' = frame + 1
  /\ UNCHANGED <<slab, resident, written, bus, head, faults>> /\ UNCHANGED viewer

(* LRU eviction.                                                           *)
Evict ==
  /\ resident /\ faults < MaxFaults /\ faults' = faults + 1
  /\ resident' = FALSE /\ written' = {}
  /\ UNCHANGED <<slab, frame, bus, head>> /\ UNCHANGED viewer

-----------------------------------------------------------------------------
(* The live bus: bounded, the oldest event dropped first.                  *)

publish ==
  /\ head < MaxEvents /\ head' = head + 1
  /\ LET full == bus \cup {head + 1}
         dropped == IF Cardinality(full) > BusMax THEN {e \in full : \A f \in full : e <= f} ELSE {} IN
     /\ bus' = full \ dropped
     /\ overrun' = overrun \cup {e \in dropped : conn.open /\ e > conn.cursor}
  /\ UNCHANGED hot /\ UNCHANGED <<conn, got, drawn>>

(* The first Limit events after the cursor, and the cursor after them.     *)
since(cursor) ==
  LET newer == {e \in bus : e > cursor}
      out == {e \in newer : Cardinality({f \in newer : f <= e}) <= Limit} IN
  [events |-> out, cursor |-> IF out = {} THEN cursor ELSE Max(out)]

-----------------------------------------------------------------------------
(* The connection.  It starts at the bus's head with an empty code book.   *)
Connect ==
  /\ ~ conn.open
  /\ conn' = [Closed EXCEPT !.open = TRUE, !.start = head, !.cursor = head]
  /\ got' = {} /\ overrun' = {} /\ drawn' = NoFrame
  /\ UNCHANGED hot /\ UNCHANGED <<bus, head>>

Disconnect ==
  /\ conn.open /\ conn' = Closed
  /\ got' = {} /\ overrun' = {} /\ drawn' = NoFrame
  /\ UNCHANGED hot /\ UNCHANGED <<bus, head>>

Knows(k, i) == i \in DOMAIN k /\ k[i] # ""
Held(k) == [i \in Slots |-> IF Knows(k, i) THEN k[i] ELSE ""]

(* Slip: slots the viewer was told of are never checked again. *)
extends_only(k) == [i \in Slots |-> IF Knows(k, i) \/ i \notin DOMAIN slab THEN Held(k)[i] ELSE slab[i]]

(* What the viewer's book becomes: replaced when the slab contradicts it,  *)
(* else extended by what it does not know.                                 *)
codebook_delta(k) ==
  LET contradicted == \E i \in DOMAIN slab : Knows(k, i) /\ k[i] # slab[i]
      base == IF contradicted THEN <<>> ELSE k IN
  [i \in Slots |-> IF i \in DOMAIN slab THEN slab[i] ELSE Held(base)[i]]

(* One turn of the loop: the bus, then the frame if the slab is resident,  *)
(* has positions, and is not the one already sent; the code book goes out  *)
(* before the first frame and before one with a slot never told.           *)
live_frames ==
  /\ conn.open
  /\ LET poll == since(conn.cursor)
         polled == [conn EXCEPT !.cursor = poll.cursor]
         due == resident /\ written # {} /\ (conn.sent = 0 \/ conn.last # frame)
         asks == conn.sent = 0 \/ \E i \in written : ~ Knows(conn.known, i) IN
     /\ got' = got \cup poll.events
     /\ IF due
          THEN /\ conn' = [polled EXCEPT !.sent = @ + 1, !.last = frame,
                                         !.known = IF asks THEN codebook_delta(conn.known) ELSE @]
               /\ drawn' = [on |-> TRUE, slots |-> written, told |-> asks]
          ELSE conn' = polled /\ UNCHANGED drawn
  /\ UNCHANGED hot /\ UNCHANGED <<bus, head, overrun>>

Next ==
  \/ \E t \in Trucks : Report(t)
  \/ Capture \/ Evict \/ publish \/ Connect \/ Disconnect \/ live_frames

Spec == Init /\ [][Next]_vars

-----------------------------------------------------------------------------
(* A viewer that keeps up misses no event: each one published since it     *)
(* connected was received, waits behind its cursor, or fell out of the     *)
(* bounded bus before its turn.                                            *)
NoEventSkipped ==
  conn.open => \A e \in (conn.start + 1) .. head :
                 e \in got \/ e \in overrun \/ (e > conn.cursor /\ e \in bus)

(* A code book that goes out with a frame settles it: no slot of the slab  *)
(* means another truck to the viewer, even one it was told of before the   *)
(* slab was rebuilt; and a frame has no slot the viewer was never told.    *)
Sends == conn'.sent = conn.sent + 1
ToldIsTrue ==
  Sends => /\ drawn'.told => \A i \in DOMAIN slab : conn'.known[i] = slab[i]
           /\ \A i \in drawn'.slots : Knows(conn'.known, i)
StreamSafe == []NoEventSkipped /\ [][ToldIsTrue]_vars

=============================================================================
