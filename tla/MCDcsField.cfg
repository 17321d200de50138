SPECIFICATION DcsFieldSpec
CONSTANTS
  OperationKinds <- Kinds
  MaxOperations = 2
  Steps = {0, 1, 2}
  MaxElapsed = 4
  UnitCapacities <- Caps
  RedundancyModes = {"HOT_STANDBY", "WARM_STANDBY"}
  Span = 2000
  MaxStepPct = 20
  RampTime = 2
  Outputs = {0, 501, 500}
  ScanSeconds = {1, 2}
  MaxSwitchovers = 2
  Tags <- SomeTags
  Controllers <- SomeControllers
  IoPoints = {1, 2}
  Modules <- SomeModules
  Capacity <- TableSizes
  MaxOptimised = 2
  Timeout = 4
  Ticks = {0, 1, 3}
  MaxQuiet = 7
  ScanPeriod = 100
  ScanTimes = {96, 97, 100, 101}
  MaxWindow = 3
  TaskTimes = {1, 2, 3}
  TaskPeriods = {0, 2, 4, 5, 7}
  MaxTasks = 3
  DcsAlarms = {a1, a2}
  Priority <- AllOne
  OnDelay <- AllThree
  OffDelay <- AllOne
  MaxSeconds = 3
  MaxTime = 6
  MaxBurst = 4
  FloodWindow = 2
  FloodThreshold = 3
  Rates = {3, 40}
  Intervals = {10, 100}
  Betas = {2, 10}
  Targets = {1, 3}
  Reductions = {0, 400}
  ControllerCounts = {0, 1, 2, 5, 6, 11, 21}
  StationCounts = {0, 1}
  IoCounts = {0, 351, 4000}
  BackboneSpeeds = {0, 1, 100}
  MaxNodes = 6
  LogSize = 2
  MaxFailovers = 3
  SetRoles = {"STANDBY", "ISOLATED"}
  Reports <- GoodOrBroken
  FailoverTypes = {"MANUAL", "FAULT"}
  IndexRange = 4
  CarrierIds = {1, 2, 3}
  MaxCarriers = 2
  ChannelIds = {1, 2}
  ChannelRange = 8
  AreaIds = {1, 2, 3}
  MaxAreas = 2
  MaxModules = 1
  MaxNodesOfAKind = 1
  Form = "STANDARD"
  DvGain = 2
  DvGainOverReset = 1
  DvGainTimesRate = 1
  DvOutLo = 0
  DvOutHi = 6
  DvOutChange = 3
  DvPvs = {1, 3}
  DvSps = {2}
  DvFeeds = {0, 1}
  Manuals = {0, 7}
  MaxIntegral = 6
  DvSteps <- Chart
  DvTimes = {1, 2}
  VoteInputs = {0, 2, 3, 5}
  DeviationLimit = 2
  Addresses = {15, 16, 17, 18}
  Macrocycle = 20
  TimeRange = 64
  Offsets = {0, 12}
  Responses = {3, 9}
  MaxEntries = 2
  MaxLive = 3
  MaxRemovals = 1
  MaxCycles = 3
  H1Devices = {d1, d2}
  H1Tags = {t1}
  LasTimes = {1}
  SyncRange = 12
  PermittedModes <- Permits
  Values = {0, 1}
  Messages <- TwoMessages
  MaxDamage = 2
  Trunk = 1500
  Temperature = 45
  Supply = 235000000
  MaxCurrent = 250
  Currents = {0, 60, 160}
  Spurs = {0, 120, 121}
  Cables = {"A", "C"}
  MaxH1Devices = 3
INVARIANTS DcsSound FieldSound AcceptedIsFit
PROPERTIES Isa88IsSequential StepsSound DcsRecovers
CHECK_DEADLOCK FALSE
