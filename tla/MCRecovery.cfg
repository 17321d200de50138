SPECIFICATION RecoverySpec
CONSTANTS
  N = 2
  MRequired = 1
  Interval = 1
  Timeout = 1
  Slack = 1
  CheckPeriod = 1
  MaxDelay = 0
  HeartbeatHealth = {"HEALTHY"}
  ReportedHealth = {}
  Replaceable = {0}
  MemSize = 2
  Byte = {0, 1}
  Candidates <- SomeRegions
  MaxRegions = 2
  Sizes = {1, 2, 3}
  Crc <- NoCollision
INVARIANT CleanMeansCopied
PROPERTIES CompleteTransferVerifies CrashDetected DirtyDrains
