CONSTANTS
  N = 2
  MRequired = 1
  Interval = 1
  Timeout = 1
  Slack = 1
  CheckPeriod = 1
  MaxDelay = 1
  HeartbeatHealth = {"HEALTHY", "DEGRADED"}
  ReportedHealth = {"OFFLINE"}
  Replaceable = {}
SPECIFICATION EngineSpec
INVARIANTS OnePrimary
PROPERTIES ImplementsGroup HeadlessOnTotalLoss
