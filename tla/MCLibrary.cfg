SPECIFICATION LibrarySpec
CONSTANTS
  N = 3
  MRequired = 2
  HeartbeatHealth = {"HEALTHY", "DEGRADED", "FAULTY"}
  ReportedHealth = {"HEALTHY", "DEGRADED", "FAULTY", "OFFLINE", "FAIL_SAFE"}
  Replaceable = {0, 1, 2}
  NNodes = 3
  MaxUpdates = 2
  MaxWire = 2
  Signals = {9, 10, 11}
  Threshold = 10
  MaxVoterInputs = 4
  VotingAlgorithms = {"2OO3", "2OO4", "MEDIAN", "MIDVALUE", "WEIGHTED", "AVERAGE",
                      "BYZANTINE", "HIGH_SELECT", "LOW_SELECT", "MAJORITY"}
  WiredInputs <- SomeWired
  WeightOf <- SomeWeights
  FaultTypes = {"CRC_MISMATCH"}
  MaxFaultLog = 3
  CycleTimes = {2, 4, 5, 7}
  WatchdogPeriod = 4
  TrendValues = {0, 1, 2, 5}
  TrendPoints = 4
  MaxReports = 4
  BasicEvent = {1, 2, 3, 4}
  Probability <- SomeProbability
  Gates = {5, 6, 7}
  GateTypes <- SomeGateTypes
  GateK <- SomeGateK
  MaxChildren = 2
  Rates = {0, 1, 2, 3}
INVARIANTS LibrarySound BullyAgreement RoleIsHandedOn VectorsCountUpdates CompareIsInclusion
PROPERTIES SplitBrainResolved
CHECK_DEADLOCK FALSE
