--------------------------- MODULE MCServiceControl ---------------------------
(***************************************************************************)
(* What must settle: the states the control plane shows, and the trips of  *)
(* a ride, an instance of each in one state space.  Init chooses the part  *)
(* that behaves; the other stays at its Init, for the control plane the    *)
(* one with no service up.                                                 *)
(***************************************************************************)
EXTENDS ServiceControl, Rides

VARIABLE part

MCDependsOn == ("kafka" :> <<>>) @@ ("celery" :> <<"kafka">>)
MCDependents == ("kafka" :> {"celery"}) @@ ("celery" :> {})
MCProjectOf == [k \in {"kafka"} |-> k]
MCStartOrder == <<"kafka", "celery">>
MCDisplayOrder == <<"kafka", "celery", "simulation">>

-----------------------------------------------------------------------------
SettlingInit ==
  /\ part \in {"control", "ride"}
  /\ part = "control" \/ up = {}
  /\ Init /\ Ride!Init

ControlStep == part = "control" /\ Next /\ UNCHANGED <<part, rideVars>>
RideStep == part = "ride" /\ Ride!Next /\ UNCHANGED <<part, vars>>

\* The fairness of each module's own specification.
SettlingSpec ==
  /\ SettlingInit /\ [][ControlStep \/ RideStep]_<<part, vars, rideVars>>
  /\ WF_vars(part = "control" /\ Step) /\ WF_vars(part = "control" /\ Status)
  /\ \A p \in Runs : WF_vars(part = "control" /\ WatcherEnds(p))
  /\ \A d \in Drivers : WF_rideVars(part = "ride" /\ Ride!Fair(d))
  /\ \A p \in Passengers : WF_rideVars(part = "ride" /\ Ride!PassengerFair(p))
  /\ \A a \in Drivers \cup Passengers : WF_rideVars(part = "ride" /\ Ride!Enqueue(a))

-----------------------------------------------------------------------------
\* RideHail: a passenger that asks for a ride gets it or gives up, unless a write
\* failed, a side declined, or the run ended first.
RideEnds ==
  \A p \in Passengers :
    (part = "ride" /\ ptrip[p].state = "requested_trip")
      ~> (ptrip[p].state \in Ride!Ended \/ declined \/ horizon)
===============================================================================
