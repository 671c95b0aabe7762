CONSTANTS
  kpi = kpi
  run_status = run_status
  Topics = {kpi, run_status}
  FlushTopics = {kpi}
  CompactedTopics = {run_status}
  Poison <- MCPoison
  Preassigned = {kpi, run_status}
  Earliest = FALSE
  PollBatch = 2
  MaxOffset = 2
  MaxFaults = 2
  MaxCrashes = 1
  MaxStops = 1
  MaxRebalances = 1
SPECIFICATION Spec
INVARIANTS
  TypeOK
  CommittedIsDurable
  OffsetInv
  
PROPERTIES
  IngestSpec
CONSTRAINT StopIsAlone
