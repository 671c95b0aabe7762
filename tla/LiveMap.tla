------------------------------- MODULE LiveMap -------------------------------
(***************************************************************************)
(* What the live map shows of the haul trips: the analytics agent's        *)
(* trip-geometry publisher, run off the step barrier over a list of active *)
(* trips read when it was spawned, and the routes a viewer of              *)
(* trip_geo_stream holds.                                                  *)
(*                                                                         *)
(* A leg's geometry is the route stored at assignment, a road polyline     *)
(* from OSRM, or nothing; its shape is left out.  Messages of one run are  *)
(* delivered in order.  The module of the publisher does not import time,  *)
(* so the line that stamps a failed OSRM lookup raises and the publish     *)
(* stops there; the stamps are never written.                              *)
(***************************************************************************)
EXTENDS Integers, FiniteSets

CONSTANTS
  Trips,
  Routes,      \* the kinds of stored route a run's trips may carry
  MaxFaults    \* bound: failed active-trip reads and OSRM outages

VARIABLES
  state,          \* haul trip state
  route,          \* "stored" | "unavailable" (OSRM failed at assignment) | "none"
  authoritative,  \* USE_OSRM_AT_ASSIGNMENT: the stored route is the route
  osrm,           \* the routing service answers
  cache,          \* _OSRM_CACHE: "absent" | "road" | "none"
  inflight,       \* [on, trips]: the publish spawned and the active trips it read
  last_emit,      \* signature last emitted per leg, "" if none
  last_active,    \* _last_active_haul_trips
  shown,          \* the viewer's routes, by leg: the trip state drawn, "" if none
  settled,        \* [on, trips]: the read of the last publish that ended
  aborted,        \* a publish has raised
  faults

vars == <<state, route, authoritative, osrm, cache, inflight, last_emit, last_active, shown, settled, aborted, faults>>

Legs == {"repositioning_to_pickup", "loaded_to_dropoff"}
Keys == Trips \X Legs
NoRead == [on |-> FALSE, trips |-> [t \in {} |-> ""]]
Path == [assigned |-> "repositioning", repositioning |-> "loaded", loaded |-> "completed"]

(* Both legs are previewed until the truck has loaded.                     *)
legs_for_trip(s) == IF s = "loaded" THEN {"loaded_to_dropoff"} ELSE Legs

Init ==
  /\ state = [t \in Trips |-> "assigned"]
  /\ route \in [Trips -> Routes] /\ authoritative \in BOOLEAN
  /\ osrm = TRUE /\ cache = [k \in Keys |-> "absent"]
  /\ inflight = NoRead /\ settled = NoRead
  /\ last_emit = [k \in Keys |-> ""] /\ last_active = {} /\ shown = [k \in Keys |-> ""]
  /\ aborted = FALSE /\ faults = 0

Fault == faults < MaxFaults /\ faults' = faults + 1
publisher == <<inflight, last_emit, last_active, shown, settled, aborted>>

(* A trip moves on; the empty leg is routed from where the truck is now.   *)
Advance(t) ==
  /\ state[t] \in DOMAIN Path
  /\ state' = [state EXCEPT ![t] = Path[state[t]]]
  /\ cache' = [cache EXCEPT ![<<t, "repositioning_to_pickup">>] = "absent"]
  /\ UNCHANGED <<route, authoritative, osrm, faults>> /\ UNCHANGED publisher

Outage == osrm /\ Fault /\ osrm' = FALSE /\ UNCHANGED <<state, route, authoritative, cache>> /\ UNCHANGED publisher
Recover == ~ osrm /\ osrm' = TRUE /\ UNCHANGED <<state, route, authoritative, cache, faults>> /\ UNCHANGED publisher

-----------------------------------------------------------------------------
Active == {t \in Trips : state[t] # "completed"}

(* The agent spawns a publish unless one is running.  A failed read of the *)
(* active trips answers with an empty list.                                *)
spawn_trip_geo_publish(readable) ==
  /\ ~ inflight.on
  /\ inflight' = [on |-> TRUE, trips |-> IF readable THEN [t \in Active |-> state[t]] ELSE [t \in {} |-> ""]]
  /\ IF readable THEN UNCHANGED faults ELSE Fault
  /\ UNCHANGED <<state, route, authoritative, osrm, cache, last_emit, last_active, shown, settled, aborted>>

(* Whether a leg asks OSRM, and fails doing so.                            *)
Asks(k) == route[k[1]] = "none" /\ ~ authoritative /\ cache[k] # "road"
Raises(k) == Asks(k) /\ ~ osrm

(* The geometry published for a leg: "" when there is none to draw.        *)
resolve_leg_geometry(k) ==
  IF route[k[1]] = "stored" THEN "stored"
  ELSE IF route[k[1]] = "unavailable" \/ authoritative THEN "" ELSE "road"

LegsRead == {k \in Keys : k[1] \in DOMAIN inflight.trips /\ k[2] \in legs_for_trip(inflight.trips[k[1]])}
Signature(k) == inflight.trips[k[1]]
Drawn(K) == {k \in K : resolve_leg_geometry(k) # "" /\ last_emit[k] # Signature(k)}
Emitted(f, K) == [k \in Keys |-> IF k \in Drawn(K) THEN Signature(k) ELSE f[k]]
Cached(K) == [k \in Keys |-> IF k \in K /\ Asks(k) THEN IF osrm THEN "road" ELSE "none" ELSE cache[k]]

(* Slip: a trip that ends keeps its deduplication keys. *)
keys_kept(ended) == {}

(* The keys a trip_end clears, so that the trip is drawn anew if it is back. *)
keys_cleared(ended) == {k \in Keys : k[1] \in ended}

(* The publish: every leg of every trip read, once per state, then a       *)
(* trip_end for each trip of the last publish that is active no more.      *)
publish_from_haul_trips ==
  /\ inflight.on /\ \A k \in LegsRead : ~ Raises(k)
  /\ cache' = Cached(LegsRead)
  /\ LET active == DOMAIN inflight.trips
         ended == last_active \ active
         drawn == Emitted(last_emit, LegsRead) IN
     /\ last_emit' = [k \in Keys |-> IF k \in keys_cleared(ended) THEN "" ELSE drawn[k]]
     /\ shown' = [k \in Keys |-> IF k[1] \in ended THEN "" ELSE Emitted(shown, LegsRead)[k]]
     /\ last_active' = active
  /\ settled' = inflight /\ inflight' = NoRead
  /\ UNCHANGED <<state, route, authoritative, osrm, aborted, faults>>

(* A lookup fails: the legs before it went out, the rest and the trip ends *)
(* did not, and the publisher does not remember what it drew.              *)
PublishRaises ==
  /\ inflight.on
  /\ \E k \in LegsRead, K \in SUBSET LegsRead :
       /\ Raises(k) /\ \A j \in K : ~ Raises(j)
       /\ \A j \in K : j[1] = k[1] => j[2] = "repositioning_to_pickup"
       /\ \A j \in LegsRead : (\E i \in K : i[1] = j[1]) /\ j[1] # k[1] => j \in K
       /\ last_emit' = Emitted(last_emit, K) /\ shown' = Emitted(shown, K)
       /\ cache' = Cached(K \cup {k})
  /\ aborted' = TRUE /\ settled' = inflight /\ inflight' = NoRead
  /\ UNCHANGED <<state, route, authoritative, osrm, last_active, faults>>

Next ==
  \/ \E t \in Trips : Advance(t)
  \/ Outage \/ Recover \/ publish_from_haul_trips \/ PublishRaises
  \/ \E readable \in BOOLEAN : spawn_trip_geo_publish(readable)

Spec == Init /\ [][Next]_vars

-----------------------------------------------------------------------------
(* As long as no publish raised, the map shows the last publish's trips    *)
(* and no other, each leg in the state it was read in, even when an empty  *)
(* read took every trip off the map in between; and a run whose stored     *)
(* routes are authoritative never draws a leg without one.                 *)
MapIsCurrent ==
  /\ settled.on /\ ~ aborted =>
       \A k \in Keys :
         /\ k[1] \notin DOMAIN settled.trips => shown[k] = ""
         /\ k[1] \in DOMAIN settled.trips /\ k[2] \in legs_for_trip(settled.trips[k[1]]) /\ route[k[1]] = "stored"
              => shown[k] = settled.trips[k[1]]
         /\ shown[k] = last_emit[k]
  /\ authoritative => \A k \in Keys : shown[k] # "" => route[k[1]] = "stored"
  /\ authoritative => ~ aborted

(* A leg without a stored route is drawn whether or not OSRM can be        *)
(* reached: after every publish each such leg of the trips it read shows.  *)
OutageStillRenders ==
  settled.on /\ ~ authoritative =>
    \A k \in Keys : k[1] \in DOMAIN settled.trips /\ k[2] \in legs_for_trip(settled.trips[k[1]]) /\ route[k[1]] = "none"
                    => shown[k] = settled.trips[k[1]]

=============================================================================
