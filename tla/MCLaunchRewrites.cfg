SPECIFICATION AuthoringSpec
CONSTANTS
  Hauliers <- MCHauliers
  Trucks = {"b1", "b2", "c1"}
  Orders = {"oa", "ob", "oc"}
  HaulierOf <- MCHaulierOf
  Structure <- MCStructure
  Oversize <- MCOversize
  Restricted = {}
  Chained <- MCChained
  TruckPlaces <- MCTruckPlaces
  OrderPlaces <- MCOrderPlaces
  Nowhere = 99
  Planners <- MCPlanners
  PerOrder = 3
  MaxRings = 1
  CellSize = 2
  FleetCap = 1
  MaxPickup = 3
  Bonus = 1
  MinGain = 1
  KeepBelow = 1
  Ceiling = 3
  DefaultRounds = 2
  PatchEvery = 3
  Horizon = 1
  MaxTicks = 1
  MaxFaults = 1
  Structures = {a, b}
  MaxSaves = 2
  MaxStoreEvents = 2
  Facilities <- MCFacilities
  CodeOf <- MCCodeOf
  Schedules <- MCSchedules
  SiteRules <- RuleChoices
  Blankets <- BlanketChoices
  Patches = {"null", "night"}
  MaxRules = 2
  HoursPerDay = 3
PROPERTY LaunchKeepsBundle
CHECK_DEADLOCK FALSE
