SPECIFICATION Spec
CONSTANTS
  Chains = {"ethereum", "base", "robinhood"}
  Campaigns = {c1, c2}
  Wallets = {w1, w2}
  MaxRecords = 2

SYMMETRY GateSymmetry
INVARIANTS Safety
PROPERTIES EvidenceNeverReturns OffMeansOff
CHECK_DEADLOCK FALSE
