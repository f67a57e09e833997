CONSTANTS
    Chains = {"ethereum", "base", "robinhood"}
    FirstFees <- Fees
    MaxBumps = 2
    Endpoints = {e1, e2}
    Faults = 1
SPECIFICATION Spec
INVARIANTS Safety
PROPERTIES GateComesBack LadderEnds
CHECK_DEADLOCK FALSE
