CONSTANTS
  NAlarms = 2
  Config <- HighAndLow
  MaxShelve = 2
  MaxTotalShelve = 3
  MaxShelved = 2
  MaxEvents = 0
  FloodWindow = 9
  FloodThreshold = 1
  Horizon = 3
  Values = {1, 3}
  Plants = {{}}
  Durations = {1, 2}
  Approvers = {"none", "supervisor"}
  MaxShelveId = 3
  MaxActive = 3
  Parts = {"alarms", "audit", "counts", "chatter", "history", "database"}
  RingSize = 3
  Requests <- SomeRequests
  MaxLogged = 5
  QueryMax = 2
  KpiPriority <- TwoPriorities
  NumOperators = 2
  KpiPeriods = {0, 600, 86400}
  Gauges <- SomeGauges
  MaxKpiEvents = 7
  ChatterThreshold = 3
  ChatterWindow = 3
  Gaps = {0, 1, 2}
  MaxTransitions = 8
  Day = 4
  MaxHistory = 3
  MaxRecorded = 6
  MadConfigs <- SomeMadConfigs
  MadCapacity = 3
  CountRange = 8
  Assessments <- SomeAssessments
  Members = {"m1"}
  MaxFlips = 2
SPECIFICATION AlarmsSpec
INVARIANTS RecordsAgree RecordsAreTrue ShelvePolicy
PROPERTIES UnackNotLost
CHECK_DEADLOCK FALSE
