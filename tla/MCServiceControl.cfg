SPECIFICATION SettlingSpec
CONSTANTS
  Compose = {"kafka"}
  Process = {"celery"}
  ProjectOf <- MCProjectOf
  DependsOn <- MCDependsOn
  Dependents <- MCDependents
  StartOrder <- MCStartOrder
  DisplayOrder <- MCDisplayOrder
  Worker = "celery"
  Sim = "simulation"
  MaxEvents = 3
  MaxRuns = 2
  Drivers = {d1, d2}
  Passengers = {p1}
  None = None
  MaxRounds = 2
  MaxFaults = 1
INVARIANTS ControlSafe 
PROPERTIES StatusConverges 
CHECK_DEADLOCK FALSE
