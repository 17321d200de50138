SPECIFICATION CentumSpec
CONSTANTS
  Procedures <- TwoProcedures
  UnitProcs <- TwoUnitProcs
  Operations <- Three
  Phases <- ThreePhases
  ScanTimes = {0, 1, 2}
  MaxBatches = 3
  Conditions <- GoodOrNot
  SyncWritten = {"SYNCHRONIZED"}
  Causes = {"FAULT"}
  LogSize = 2
  MaxFailovers = 3
  Kp = 1
  KpOverTi = 1
  KpTd = 0
  MvLow = 0
  MvHigh = 4
  MvChange = 1
  PvSet = {0, 2}
  SvSet = {1, 3}
  MaxSum = 4
  SequenceSteps <- ThreeSteps
  Elements <- SomeElements
  LogicInputs = {0, 1, 2}
  MaxDomains = 3
  MaxStations = 2
  StationIds = {1, 2, 3}
  MaxNodes = 2
  MaxModules = 2
  Slots = {0, 1, 12}
  MaxDevices = 3
  Addresses = {16, 17, 18}
  FrameBits = 4
  Sizes = {3, 4, 6}
INVARIANTS CentumSound DamageIsRefused
PROPERTIES BatchIsSequential BatchEnds BlocksMoveSafely
CHECK_DEADLOCK FALSE
