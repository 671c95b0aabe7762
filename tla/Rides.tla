--------------------------------- MODULE Rides ---------------------------------
(***************************************************************************)
(* The rides of RideHail beside another component.                         *)
(***************************************************************************)
CONSTANTS Drivers, Passengers, None, MaxRounds, MaxFaults
VARIABLES dtrip, ptrip, net, box, round, faults, horizon, closed, declined

Ride == INSTANCE RideHail

rideVars == <<dtrip, ptrip, net, box, round, faults, horizon, closed, declined>>

-----------------------------------------------------------------------------
\* RideHail: one driver serves a passenger, both trips tell the same ride, and the
\* horizon leaves none open.
RideSafe == Ride!RideSafe
================================================================================
