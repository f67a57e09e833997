SPECIFICATION AllSpec
CONSTANTS
  Contracts = {"cold", "hot"}
  Hot = {"hot"}
  NoMint = "none"
  Mint <- MintOf
  MaxBlock = 5
  Lookback = 1
  MaxLag = 1
  MaxScans = 1
  MaxRange = 2
  Interval = 1
  Horizon = 2
  Faults = 1
  Purses = {1, 2}
  WalletLimit = 1
  PriceLimit = 4
  FeeAllowance = 20
  GasCeiling = 9
  Catalogue <- MCCatalogue
  Drops <- MCDrops
  Evidence <- MCEvidence
  Prospects <- MCProspects
  Passing = {{1}}
  Amounts = {5, 24}
  BaseFees = {0, 3}
  HotRefresh = 1
  ColdRefresh = 2
  MaxMoves = 1
  MaxSlips = 1
  StallTime = 1
  CriticalTime = 2
  AttemptWindow = 2
  MaxAttempts = 2
  MinAttempts = 1
  ErrorShare = 1
  BackupMaxAge = 2
  RetryAge = 1
  Deadline = 2
  ReminderTime = 2
  LastHour = 4
  MaxUpsets = 1
  PauseGap = 1
  LastTime = 6
  MaxTrips = 2
  Mints = {"a"}
  FleetWallets = {1, 2}
  FleetLimit = 2
  PaidLimit = 1
  MaxTurns = 1
INVARIANTS AllSafety
PROPERTIES SkipsAreAnnounced SweepCatchesUp
CHECK_DEADLOCK FALSE
