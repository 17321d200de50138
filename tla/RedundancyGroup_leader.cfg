SPECIFICATION GroupFairSpec
CONSTANTS
  N = 2
  MRequired = 1
  HeartbeatHealth = {"HEALTHY"}
  ReportedHealth = {"HEALTHY", "OFFLINE"}
  Replaceable = {}
PROPERTIES LeaderEventually
