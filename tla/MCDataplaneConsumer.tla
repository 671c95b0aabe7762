------------------------- MODULE MCDataplaneConsumer -------------------------
(* Small instances of the offset protocol for TLC.                          *)
EXTENDS DataplaneConsumer

CONSTANTS kpi, run_status

\* One record no handler accepts: it is discarded on every delivery.
MCPoison == {<<kpi, 0>>}

\* Bound: kills and rebalances are not combined with an ordered stop.
StopIsAlone == stops = 0 \/ crashes + rebalances = 0
=============================================================================
