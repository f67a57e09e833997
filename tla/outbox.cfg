SPECIFICATION Spec
CONSTANTS
  Immediate = {a1}
  Grouped = {g1, g2}
  LeaseTime = 1
  RetryTime = 1
  PauseTime = 2
  Faults = 2
INVARIANTS Safety
PROPERTIES EveryAlertArrives
CHECK_DEADLOCK FALSE
