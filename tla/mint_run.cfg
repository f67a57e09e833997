SPECIFICATION Spec
CONSTANTS
  PolicyRecord <- MCRecord
  Setups <- MCSetups
  DropStates <- MCDropStates
  Gas <- MCGas
  Offset <- MCOffset
  Collector = "collector"
  MaxTime = 2
  PolicyCap = 2
  MaxWrites = 1
  MaxEdits = 1
  FirstFee = 1
  Ceiling = 2
  WalletCap = 4
  PeriodCap = 4
  RunValueCap = 2
  Quantity = 2
  PaidLimit = 2
  Fresh = 1
  Reuse = 0
  Timeout = 1
  ArmBefore = 1
  GrantUntil = 2
INVARIANTS Safety SpendWithinCaps StaysStopped
PROPERTY RunEnds
