------------------------------- MODULE RideHail -------------------------------
(***************************************************************************)
(* The ride-hail domain: driver and passenger agents, each with the trip   *)
(* document it alone writes, the assignment rounds that pair them, and the *)
(* messages they exchange.                                                 *)
(*                                                                         *)
(* A message lies in net until the messenger hands it over.  Assignments   *)
(* (requested_trip, assigned) are handled in that callback; all others are *)
(* put in the agent's own queue and taken up, in order, at its next step.  *)
(* Routes and distances are left out: an agent arrives when it likes.      *)
(***************************************************************************)
EXTENDS Integers, Sequences, FiniteSets

CONSTANTS Drivers, Passengers, None,
          MaxRounds, MaxFaults      \* bounds: assignment rounds, failed writes

VARIABLES
  dtrip,     \* each driver's trip: state, is_occupied, passenger
  ptrip,     \* each passenger's trip: state, driver
  net,       \* messages on their way to each agent
  box,       \* each agent's queue
  round,     \* the assignment: the drivers read, and the rounds begun
  faults,    \* writes that may still fail
  horizon,   \* the run is over and the agents are being closed
  closed,    \* agents closed
  declined   \* history: some agent turned a ride down, or a write failed

vars == <<dtrip, ptrip, net, box, round, faults, horizon, closed, declined>>

Agents == Drivers \cup Passengers

\* RidehailDriverTripStateMachine and RidehailPassengerTripStateMachine: where
\* each transition may start, and where it leads.
DriverSM ==
  [look_for_job  |-> [from |-> {"init"}, to |-> "looking_for_job"],
   recieve       |-> [from |-> {"init"}, to |-> "received_trip"],
   confirm       |-> [from |-> {"received_trip"}, to |-> "accepted_trip"],
   reject        |-> [from |-> {"received_trip"}, to |-> "rejected_trip"],
   passenger_confirmed_trip |-> [from |-> {"accepted_trip"}, to |-> "moving_to_pickup"],
   wait_to_pickup |-> [from |-> {"moving_to_pickup"}, to |-> "waiting_to_pickup"],
   passenger_cancelled_trip |->
     [from |-> {"accepted_trip", "moving_to_pickup", "waiting_to_pickup"}, to |-> "completed_trip"],
   passenger_acknowledge_pickup |-> [from |-> {"waiting_to_pickup"}, to |-> "pickedup"],
   move_to_dropoff |-> [from |-> {"pickedup"}, to |-> "moving_to_dropoff"],
   wait_to_dropoff |-> [from |-> {"moving_to_dropoff"}, to |-> "waiting_to_dropoff"],
   passenger_acknowledge_dropoff |-> [from |-> {"waiting_to_dropoff"}, to |-> "droppedoff"],
   end_trip |-> [from |-> {"droppedoff", "init", "looking_for_job", "rejected_trip"},
                 to |-> "completed_trip"],
   force_quit |-> [from |-> {"init", "looking_for_job", "received_trip", "rejected_trip",
                             "accepted_trip", "moving_to_pickup", "waiting_to_pickup", "pickedup",
                             "moving_to_dropoff", "waiting_to_dropoff", "droppedoff"},
                   to |-> "cancelled_trip"]]

Unpicked == {"requested_trip", "assigned_trip", "received_trip_confirmation", "accepted_trip",
             "waiting_for_pickup"}
PassengerSM ==
  [assign |-> [from |-> {"requested_trip"}, to |-> "assigned_trip"],
   driver_confirmed_trip |-> [from |-> {"assigned_trip"}, to |-> "received_trip_confirmation"],
   accept |-> [from |-> {"received_trip_confirmation"}, to |-> "accepted_trip"],
   reject |-> [from |-> {"received_trip_confirmation"}, to |-> "requested_trip"],
   wait_for_pickup |-> [from |-> {"accepted_trip"}, to |-> "waiting_for_pickup"],
   driver_arrived_for_pickup |-> [from |-> {"accepted_trip", "waiting_for_pickup"}, to |-> "pickedup"],
   driver_move_for_dropoff |-> [from |-> {"pickedup"}, to |-> "moving_for_dropoff"],
   driver_waiting_for_dropoff |-> [from |-> {"moving_for_dropoff"}, to |-> "droppedoff"],
   end_trip |-> [from |-> {"droppedoff"}, to |-> "completed_trip"],
   cancel |-> [from |-> Unpicked, to |-> "cancelled_trip"],
   force_quit |-> [from |-> Unpicked \cup {"pickedup", "moving_for_dropoff", "droppedoff"},
                   to |-> "cancelled_trip"]]

\* driver_passenger_interactions: the event each transition sends to the other side.
Interactions ==
  [accept |-> "passenger_confirmed_trip", cancel |-> "passenger_cancel_trip",
   driver_arrived_for_pickup |-> "passenger_acknowledge_pickup",
   driver_waiting_for_dropoff |-> "passenger_acknowledge_dropoff",
   confirm |-> "driver_confirmed_trip", wait_to_pickup |-> "driver_arrived_for_pickup",
   move_to_dropoff |-> "driver_move_for_dropoff", wait_to_dropoff |-> "driver_waiting_for_dropoff"]
PassengerRejects == "passenger_rejected_trip"

\* is_passenger_channel_open, is_driver_channel_open.
\* Slip: the channel opens only once the driver moves.
ChannelOpensLate(s) ==
  s \in {"moving_to_pickup", "waiting_to_pickup", "pickedup", "moving_to_dropoff",
         "waiting_to_dropoff"}
PassengerChannelOpen(s) ==
  s \in {"received_trip", "accepted_trip", "moving_to_pickup", "waiting_to_pickup", "pickedup",
         "moving_to_dropoff", "waiting_to_dropoff"}
DriverChannelOpen(s) ==
  s \in {"assigned_trip", "accepted_trip", "waiting_for_pickup", "pickedup", "moving_for_dropoff"}

NewTrip == [state |-> "init", occupied |-> FALSE, passenger |-> None]
Msg(event, from) == [event |-> event, from |-> from]

Init ==
  /\ dtrip = [d \in Drivers |-> [NewTrip EXCEPT !.state = "looking_for_job"]]
  /\ ptrip = [p \in Passengers |-> [state |-> "requested_trip", driver |-> None]]
  /\ net = [a \in Agents |-> <<>>]
  /\ box = [a \in Agents |-> <<>>]
  /\ round = [at |-> "idle", drivers |-> {}, begun |-> 0]
  /\ faults = MaxFaults
  /\ horizon = FALSE /\ closed = {} /\ declined = FALSE

\* A write of the trip document: it goes through, or uses up a fault.
Wrote(ok) ==
  /\ ok \/ faults > 0
  /\ faults' = IF ok THEN faults ELSE faults - 1

\* apply_trip_transition_and_notify: a transition the server refuses, or a
\* write that fails, is passed over in silence; else the other side is told.
Legal(sm, trip, tr) == trip.state \in sm[tr].from
Notified(a, tr, to) ==
  IF tr \in DOMAIN Interactions /\ to # None
  THEN [net EXCEPT ![to] = Append(@, Msg(Interactions[tr], a))] ELSE net

DriverApplies(d, tr, ok) ==
  LET goes == ok /\ Legal(DriverSM, dtrip[d], tr) IN
  /\ Wrote(ok)
  /\ dtrip' = IF goes THEN [dtrip EXCEPT ![d].state = DriverSM[tr].to] ELSE dtrip
  /\ net' = IF goes THEN Notified(d, tr, dtrip[d].passenger) ELSE net

PassengerApplies(p, tr, ok) ==
  LET goes == ok /\ Legal(PassengerSM, ptrip[p], tr) IN
  /\ Wrote(ok)
  /\ ptrip' = IF goes THEN [ptrip EXCEPT ![p].state = PassengerSM[tr].to] ELSE ptrip
  /\ net' = IF goes THEN Notified(p, tr, ptrip[p].driver) ELSE net

\* end_trip and a fresh unoccupied trip.  The driver is left without one when the
\* post fails; it stays in init when the look_for_job patch fails.
DriverFreed(d, ended, outcome) ==
  CASE outcome = "ok"    -> [NewTrip EXCEPT !.state = "looking_for_job"]
    [] outcome = "patch" -> NewTrip
    [] OTHER             -> [dtrip[d] EXCEPT !.state = ended]

\* create_new_occupied_trip for passenger p, in state s.
OccupiedTrip(p, s) == [state |-> s, occupied |-> TRUE, passenger |-> p]

Stepping(a) == a \notin closed

-----------------------------------------------------------------------------
(* The messenger hands a message to its agent.                             *)

\* handle_requested_trip: an unoccupied trip is ended and replaced by one for
\* this passenger, who is told; an occupied driver ignores the assignment.
DriverIsAssigned(d, outcome) ==
  /\ net[d] # <<>> /\ Head(net[d]).event = "requested_trip" /\ Stepping(d)
  /\ LET p == Head(net[d]).from
         rest == [net EXCEPT ![d] = Tail(@)]
     IN IF dtrip[d].occupied
        THEN net' = rest /\ outcome = "ok" /\ UNCHANGED <<dtrip, faults>>
        ELSE /\ Wrote(outcome = "ok")
             /\ dtrip' = [dtrip EXCEPT ![d] =
                            CASE outcome = "ok"    -> OccupiedTrip(p, "received_trip")
                              [] outcome = "patch" -> OccupiedTrip(p, "init")
                              [] OTHER -> [@ EXCEPT !.state = "completed_trip"]]
             /\ net' = IF outcome # "ok" THEN rest
                       ELSE [rest EXCEPT ![p] = Append(@, Msg("assigned", d))]
  /\ declined' = (declined \/ outcome # "ok")
  /\ UNCHANGED <<ptrip, box, round, horizon, closed>>

\* handle_app_topic_messages of the passenger: the first driver is taken, any
\* other, or one whose write failed, is told the trip is rejected.
\* Slip: until it is picked up, a passenger takes the new driver instead of its own.
TakesAnyDriver(p) == ptrip[p].state \in Unpicked
TakesDriver(p) == ptrip[p].state = "requested_trip"

PassengerIsAssigned(p, ok) ==
  /\ net[p] # <<>> /\ Head(net[p]).event = "assigned" /\ Stepping(p)
  /\ LET d == Head(net[p]).from
         rest == [net EXCEPT ![p] = Tail(@)]
     IN /\ IF TakesDriver(p) THEN Wrote(ok) ELSE ok /\ UNCHANGED faults
        /\ IF TakesDriver(p) /\ ok
           THEN /\ ptrip' = [ptrip EXCEPT ![p] = [state |-> "assigned_trip", driver |-> d]]
                /\ net' = rest
           ELSE /\ net' = [rest EXCEPT ![d] = Append(@, Msg(PassengerRejects, p))]
                /\ UNCHANGED ptrip
  /\ declined' = (declined \/ ~ok)
  /\ UNCHANGED <<dtrip, box, round, horizon, closed>>

Enqueue(a) ==
  /\ net[a] # <<>> /\ Head(net[a]).event \notin {"requested_trip", "assigned"} /\ Stepping(a)
  /\ box' = [box EXCEPT ![a] = Append(@, Head(net[a]))]
  /\ net' = [net EXCEPT ![a] = Tail(@)]
  /\ UNCHANGED <<dtrip, ptrip, round, faults, horizon, closed, declined>>

-----------------------------------------------------------------------------
(* Steps: consume_messages, then perform_workflow_actions.                 *)

\* The handler of a passenger event is the transition of that name.  The one of
\* passenger_rejected_trip calls a method the trip manager does not have: it
\* raises, the step is over, and the message is gone.
HandlerOf(event) ==
  IF event = "passenger_cancel_trip" THEN "passenger_cancelled_trip" ELSE event

Hears(d, m) == PassengerChannelOpen(dtrip[d].state) /\ dtrip[d].passenger = m.from

DriverConsumes(d, ok) ==
  /\ box[d] # <<>> /\ Stepping(d)
  /\ LET m == Head(box[d]) IN
       IF Hears(d, m) /\ m.event # PassengerRejects
       THEN DriverApplies(d, HandlerOf(m.event), ok)
       ELSE ok /\ UNCHANGED <<dtrip, net, faults>>
  /\ box' = [box EXCEPT ![d] = Tail(@)]
  /\ declined' = (declined \/ ~ok)
  /\ UNCHANGED <<ptrip, round, horizon, closed>>

PassengerConsumes(p, ok) ==
  /\ box[p] # <<>> /\ Stepping(p)
  /\ LET m == Head(box[p]) IN
       IF DriverChannelOpen(ptrip[p].state) /\ ptrip[p].driver = m.from
       THEN PassengerApplies(p, m.event, ok)
       ELSE ok /\ UNCHANGED <<ptrip, net, faults>>
  /\ box' = [box EXCEPT ![p] = Tail(@)]
  /\ declined' = (declined \/ ~ok)
  /\ UNCHANGED <<dtrip, round, horizon, closed>>

\* The driver's own moves: confirming, arriving, setting off.
DriverActs(d, ok) ==
  /\ box[d] = <<>> /\ Stepping(d)
  /\ \E tr \in {"confirm", "wait_to_pickup", "move_to_dropoff", "wait_to_dropoff"} :
       Legal(DriverSM, dtrip[d], tr) /\ DriverApplies(d, tr, ok)
  /\ declined' = (declined \/ ~ok)
  /\ UNCHANGED <<ptrip, box, round, horizon, closed>>

\* A trip that is over is ended and a new one opened: after the drop-off, when the
\* driver has cruised to the end of its route, or when it declines, of which the
\* passenger is not told.
DriverFrees(d, tr, outcome) ==
  /\ box[d] = <<>> /\ Stepping(d)
  /\ dtrip[d].state \in [end_trip |-> {"droppedoff", "looking_for_job"}, reject |-> {"received_trip"}][tr]
  /\ Wrote(outcome = "ok")
  /\ dtrip' = [dtrip EXCEPT ![d] = DriverFreed(d, DriverSM[tr].to, outcome)]
  /\ declined' = (declined \/ tr = "reject" \/ outcome # "ok")
  /\ UNCHANGED <<ptrip, net, box, round, horizon, closed>>

PassengerActs(p, tr, ok) ==
  /\ box[p] = <<>> /\ Stepping(p)
  /\ tr \in {"accept", "reject", "wait_for_pickup", "end_trip"} /\ Legal(PassengerSM, ptrip[p], tr)
  /\ PassengerApplies(p, tr, ok)
  /\ declined' = (declined \/ tr = "reject" \/ ~ok)
  /\ UNCHANGED <<dtrip, box, round, horizon, closed>>

\* Patience runs out only on a trip that waits for a driver.
PassengerGivesUp(p, ok) ==
  /\ box[p] = <<>> /\ Stepping(p)
  /\ ptrip[p].state = "requested_trip"
  /\ PassengerApplies(p, "cancel", ok)
  /\ declined' = (declined \/ ~ok)
  /\ UNCHANGED <<dtrip, box, round, horizon, closed>>

-----------------------------------------------------------------------------
(* The assignment: two reads, a matching, one message per pair.            *)

GetDriverTrips ==
  /\ round.at = "idle" /\ round.begun < MaxRounds /\ ~horizon
  /\ round' = [at |-> "read", begun |-> round.begun + 1,
               drivers |-> {d \in Drivers : dtrip[d].state = "looking_for_job"}]
  /\ UNCHANGED <<dtrip, ptrip, net, box, faults, horizon, closed, declined>>

RequestedTrips == {p \in Passengers : ptrip[p].state = "requested_trip"}

Matchings(ds, ps) ==
  {m \in UNION {[s -> ps] : s \in SUBSET ds} : \A d, e \in DOMAIN m : m[d] = m[e] => d = e}

AssignAndPublish ==
  /\ round.at = "read"
  /\ \E m \in Matchings(round.drivers, RequestedTrips) :
       net' = [a \in Agents |-> IF a \in DOMAIN m THEN Append(net[a], Msg("requested_trip", m[a]))
                                ELSE net[a]]
  /\ round' = [round EXCEPT !.at = "idle", !.drivers = {}]
  /\ UNCHANGED <<dtrip, ptrip, box, faults, horizon, closed, declined>>

-----------------------------------------------------------------------------
(* The end of the run: every agent closes its trip.                        *)

RunEnds ==
  /\ ~horizon /\ round.at = "idle"
  /\ horizon' = TRUE
  /\ UNCHANGED <<dtrip, ptrip, net, box, round, faults, closed, declined>>

DriverCloses(d) ==
  /\ horizon \/ dtrip[d].state = "init"     \* the shift is over and no trip has begun
  /\ Stepping(d)
  /\ LET tr == IF dtrip[d].occupied THEN "force_quit" ELSE "end_trip" IN DriverApplies(d, tr, TRUE)
  /\ closed' = closed \cup {d}
  /\ UNCHANGED <<ptrip, box, round, horizon, declined>>

PassengerCloses(p) ==
  /\ horizon \/ ptrip[p].state \in {"completed_trip", "cancelled_trip"}
  /\ Stepping(p)
  /\ PassengerApplies(p, "force_quit", TRUE)
  /\ closed' = closed \cup {p}
  /\ UNCHANGED <<dtrip, box, round, horizon, declined>>

-----------------------------------------------------------------------------
Outcomes == {"ok", "post", "patch"}
DriverNext(d) ==
  \/ \E o \in Outcomes : DriverIsAssigned(d, o) \/ DriverFrees(d, "end_trip", o)
                         \/ DriverFrees(d, "reject", o)
  \/ \E ok \in BOOLEAN : DriverConsumes(d, ok) \/ DriverActs(d, ok)
  \/ DriverCloses(d)
PassengerNext(p) ==
  \/ \E ok \in BOOLEAN : \/ PassengerIsAssigned(p, ok) \/ PassengerConsumes(p, ok)
                         \/ PassengerGivesUp(p, ok)
                         \/ \E tr \in DOMAIN PassengerSM : PassengerActs(p, tr, ok)
  \/ PassengerCloses(p)

Next ==
  \/ \E d \in Drivers : DriverNext(d)
  \/ \E p \in Passengers : PassengerNext(p)
  \/ \E a \in Agents : Enqueue(a)
  \/ GetDriverTrips \/ AssignAndPublish \/ RunEnds

\* Messages arrive and every agent keeps stepping, so that a driver that moves
\* arrives and a passenger does lose patience.  The end of the run is not assumed.
Fair(d) == \/ DriverIsAssigned(d, "ok") \/ DriverConsumes(d, TRUE) \/ DriverActs(d, TRUE)
           \/ DriverFrees(d, "end_trip", "ok")
PassengerFair(p) ==
  \/ PassengerIsAssigned(p, TRUE) \/ PassengerConsumes(p, TRUE) \/ PassengerGivesUp(p, TRUE)
  \/ \E tr \in {"accept", "wait_for_pickup", "end_trip"} : PassengerActs(p, tr, TRUE)
Spec ==
  /\ Init /\ [][Next]_vars
  /\ \A d \in Drivers : WF_vars(Fair(d))
  /\ \A p \in Passengers : WF_vars(PassengerFair(p))
  /\ \A a \in Agents : WF_vars(Enqueue(a))

-----------------------------------------------------------------------------
(* Properties.                                                             *)

OnTheWay == {"moving_to_pickup", "waiting_to_pickup"}
Carrying == {"pickedup", "moving_to_dropoff", "waiting_to_dropoff", "droppedoff"}
Riding == {"pickedup", "moving_for_dropoff", "droppedoff"}
Ended == {"completed_trip", "cancelled_trip"}

\* However often a passenger is matched, one driver at most drives to it or with it
\* (handle_overbooking, is_passenger_channel_open).
OneDriverServes ==
  \A d, e \in Drivers :
    (/\ dtrip[d].state \in OnTheWay \cup Carrying /\ dtrip[e].state \in OnTheWay \cup Carrying
     /\ dtrip[d].passenger = dtrip[e].passenger) => d = e

\* Both trip documents tell the same ride: a driver that carries a passenger is the
\* driver of that passenger's trip, which has recorded the pick-up or is over; and a
\* passenger that rides is with a driver that is at the pick-up or past it.
RidesAgree ==
  /\ \A d \in Drivers :
       dtrip[d].state \in Carrying =>
         LET p == dtrip[d].passenger IN
         ptrip[p].driver = d /\ ptrip[p].state \in Riding \cup Ended
  /\ \A p \in Passengers :
       (ptrip[p].state \in Riding /\ ~horizon) =>
         LET d == ptrip[p].driver IN
         \/ dtrip[d].passenger = p /\ dtrip[d].state \in Carrying \cup {"waiting_to_pickup"}
         \/ ptrip[p].state = "droppedoff" \/ declined

\* When all agents have closed, no trip is left open (end_active_trip).
NothingLeftOpen ==
  closed = Agents => /\ \A d \in Drivers : dtrip[d].state \in Ended
                     /\ \A p \in Passengers : ptrip[p].state \in Ended

\* What two agents that only exchange messages must agree on.
RideSafe == OneDriverServes /\ RidesAgree /\ NothingLeftOpen
=============================================================================
