SPECIFICATION MCSpec
CONSTANTS
  w1 = w1
  w2 = w2
  Wallets = {w1, w2}
  Fates <- MCFates
  Lies = {"final", "reorged"}
  MaxFaults = 1
CHECK_DEADLOCK FALSE
PROPERTY RevokedSettles
