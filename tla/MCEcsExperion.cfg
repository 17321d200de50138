SPECIFICATION StationSpec
CONSTANTS
  Healths <- SomeHealths
  Grace = 2
  EndOfTime = 4
  CounterRange = 8
  PacketsPerUpdate = 2
  EcsChannels = {0, 1}
  FullScale = 20
  Counts = {0, 20}
  MaxScans = 2
  Kp = 1
  TwoTi = 1
  KpTd = 0
  Tf = 1
  OutHi = 3
  Rate = 1
  SpRate = 0
  EcsDeadband = 0
  EcsPvs = {1, 3}
  Setpoints = {2}
  MaxIntegral = 3
  Steps = {0, 1, 2, 3}
  NextStep <- ChartNext
  MinDwell <- ChartDwell
  MaxDwell <- ChartDwell
  InitialStep = 0
  MaxElapsed = 6
  Skew = 7
  MaxDelay = 3
  MaxSyncs = 6
  MaxDomains = 3
  MaxStations = 2
  StationIds = {1, 2, 3}
  MessageBits = 6
  FramePeriod = 10
  Durations = {7}
  CeeTaskKinds <- SomeKinds
  MaxPhases = 2
  MaxCeeTasks = 2
  MaxTaskBlocks = 1
  MaxRegistry = 2
  MaxFrames = 4
  Slots = {1}
  Channels = {0, 5}
  ModuleTypes = {"AO_420MA", "AO_PULSE", "AI_420MA"}
  Signals = {0, 3}
  Ranges <- SomeRanges
  PeerPeriods = {50, 200}
  ExecPeriod = 100
  MaxPeers = 1
  NodeIds = {0, 1, 2}
  NodeTypes = {"ESVT", "ESVT_REDUNDANT", "C300"}
  MaxSysNodes = 2
  HistorySize = 3
  MaxFailovers = 8
  Scores = {1, 2}
  OutputValues = {0, 3, 10}
  RampSteps = 3
  Tunings <- SomeTunings
  OpLimits <- SomeLimits
  PVs = {0, 2}
  Ops = {0, 3}
  Windup <- WindupRange
  RateLimit = 2
  Deadband = 0
  Points <- SomePoints
  MaxPoints = 3
  CabValues = {0, 1, 5, 9}
  WindowSizes = {1, 2, 3}
  MaxSamples = 5
  DeadbandWidth = 2
  Hysteresis = 1
  RiseRate = 2
  FallRate = 1
  MaxClock = 4
  WorkbookRows <- SomeRows
  MaxRows = 3
  Controllers = {1, 2}
  MaxControllers = 1
  Sources = {"p"}
  MaxActive = 2
  MaxHistory = 3
  FloodLimit = 2
  FloodSeconds = 2
  MaxNow = 2
  SampleCount = 3
  SampleValues = {0, 1, 2, 4}
  LoopValues = {2, 4}
  MaxPenSamples = 5
  SetpointLimits <- SetpointRange
  OutputLimits <- OutputRange
  DeviationHi = 1
  DisplayParents <- SomeParents
INVARIANTS EcsSound PacketDamageIsRefused ControllerSound StationSound
PROPERTIES EcsMovesSafely BlockStepsSound
CHECK_DEADLOCK FALSE
