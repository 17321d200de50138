CONSTANTS
  NAlarms = 1
  Config <- DeviationOnly
  MaxShelve = 2
  MaxTotalShelve = 3
  MaxShelved = 1
  MaxEvents = 2
  FloodWindow = 2
  FloodThreshold = 2
  Horizon = 4
  Values = {1, 3, 999}
  Plants <- Startup
  Durations = {1, 2}
  Approvers = {"none", "supervisor"}
  MaxShelveId = 2
  MaxActive = 3
  Parts = {"alarms"}
  RingSize = 3
  Requests <- SomeRequests
  MaxLogged = 5
  QueryMax = 2
  KpiPriority <- TwoPriorities
  NumOperators = 2
  KpiPeriods = {0, 600, 86400}
  Gauges <- SomeGauges
  MaxKpiEvents = 7
  ChatterThreshold = 3
  ChatterWindow = 3
  Gaps = {0, 1, 2}
  MaxTransitions = 8
  Day = 4
  MaxHistory = 3
  MaxRecorded = 6
  MadConfigs <- SomeMadConfigs
  MadCapacity = 3
  CountRange = 8
  Assessments <- SomeAssessments
  Members = {"m1"}
  MaxFlips = 2
SPECIFICATION AlarmsFairSpec
PROPERTIES ConditionAnnounced ShelvesEnd
