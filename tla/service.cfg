SPECIFICATION AllSpec
CONSTANTS
  Events = 3
  FailuresBeforeOff = 3
  Targets = {c1}
  Commands = {o1, o2}
  Schedules = {s1}
  Life = 2
  Hold = 1
  Lead = 1
  Asks = 2
  Faults = 1
INVARIANTS AllSafety
PROPERTIES FaultBlocks FiredAlone AllEnd
CHECK_DEADLOCK FALSE
