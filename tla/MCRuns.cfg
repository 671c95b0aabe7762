SPECIFICATION RunsSpec
CONSTANTS
  HorizonSteps = 2
  MaxDrain = 2
  Services = {s1, s2}
  OrdersDue <- Due
  SpawnCap = 1
  Attempts = 2
  MaxRivals = 2
  MaxFaults = 1
  MaxSignals = 1
INVARIANT RunSafe
PROPERTIES SuccessIsFinal  BlockClears EventuallyCommitted
CHECK_DEADLOCK FALSE
