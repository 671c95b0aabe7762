CONSTANTS
  r1 = r1
  r2 = r2
  s1 = s1
  s2 = s2
  Runs = {r1, r2}
  Trucks = {a, b}
  Sweepers = {s1, s2}
  MaxRuns = 1
  Limits <- OneRestart
  Reporters = {"A", "B", "C"}
  MaxStreamFrames = 2
  MaxEvents = 3
  BusMax = 2
  Limit = 1
  MaxStreamFaults = 1
  Readers = {"r1", "r2"}
  MaxRows = 2
  MaxSetFaults = 2
SPECIFICATION CaptureSpec
INVARIANT PersistedSlotsMeanOneTruck
SYMMETRY Interchangeable
