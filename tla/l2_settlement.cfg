SPECIFICATION MCSpec
CONSTANTS
  w1 = w1
  w2 = w2
  Wallets = {w1, w2}
  Fates <- MCFates
  Lies = {"final", "reorged"}
  MaxFaults = 2
CHECK_DEADLOCK FALSE
INVARIANT Safety
PROPERTY FinalSettles
