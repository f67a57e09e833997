SPECIFICATION AllSpec
CONSTANTS
  Workers = 2
  FailureLimit = 1
  MaxUpdates = 5
  MaxStep = 1
  AccessFaults = 1
  Kinds = {"prepare", "simulate", "release", "request", "fire", "schedule", "cancel", "revoke", "watchaccept"}
  NWallets = 2
  Sized = 1
  ConfirmLife = 0
  FlowLife = 1
  MaxWrong = 2
  MaxBegun = 2
  MaxFlows = 3
  MaxClock = 1
  MaxChanges = 1
INVARIANTS AllSafety ActsAsReviewed
PROPERTIES GateNeedsFreshCode StopHeard
CHECK_DEADLOCK FALSE
