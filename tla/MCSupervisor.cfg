CONSTANTS
  HeartbeatTimeout = 1
  StallTimeout = 2
  ResetAfter = 2
  BackoffMax = 2
  UnhealthyAfter = 2
  MaxGen = 2
SPECIFICATION FairTaskSpec
INVARIANTS HealthIsHonest NeverTwoPollers
PROPERTIES SupersededLeave StuckIsReplaced
