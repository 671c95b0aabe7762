SPECIFICATION LogisticsSpec
CONSTANTS
  k1 = k1
  k2 = k2
  o1 = o1
  o2 = o2
  f1 = f1
  Trucks = {k1, k2}
  Orders = {o1, o2}
  Facilities = {f1}
  Gates = {0}
  PickupAt <- PickAt
  DropoffAt <- DropAt
  ServiceTime = 1
  Punctual = TRUE
  Scenes <- AllScenes
  MaxRows = 2
  Docs <- BreakdownDocs
  BatchMax = 2
  MaxTriggers = 2
  MaxSinkFaults = 1
  SeriesPoints = 4
  MaxSeries = 9
  Trips = {"t1", "t2"}
  Routes = {"stored", "unavailable", "none"}
  MaxMapFaults = 2
INVARIANTS   VisitTracked LedgerSafe  MapIsCurrent
 
CHECK_DEADLOCK FALSE
