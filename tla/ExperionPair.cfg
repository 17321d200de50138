CONSTANTS
  MaxMissed = 2
  RequestedRoles = {"PRIMARY", "BACKUP", "SOLO", "SYNCING"}
SPECIFICATION FairSpec
INVARIANTS BumplessLosesNothing
PROPERTIES DownStaysDown RecoveryTakesSync SplitBrainNoticed
