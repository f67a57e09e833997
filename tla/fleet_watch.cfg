SPECIFICATION WatchSpec
CONSTANTS
  WalletRuns = {r1}
  MaxNonce = 2
  Balance = 2
  LastTime = 1
  MaxAccepts = 1
  Faults = 1
INVARIANTS WatchSafety
PROPERTIES AlarmKeepsComing
CHECK_DEADLOCK FALSE
