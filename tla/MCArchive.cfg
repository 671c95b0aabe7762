CONSTANTS
  Runs = {r1}
  Keys = {k1, k2}
  Sweepers = {s1}
  MaxStamp = 2
  MaxFrames = 2
  MaxFaults = 1
  MaxCrashes = 1
SPECIFICATION FairSpec
INVARIANT ArchiveSafe
PROPERTIES FinishedRunsAreArchived
CHECK_DEADLOCK FALSE
