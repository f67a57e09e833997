SPECIFICATION AllSpec
CONSTANTS
  w1 = w1
  w2 = w2
  w3 = w3
  mint = mint
  other = other
  Runs = {1, 2, 3, 4}
  Wallets = {w1, w2, w3}
  Campaigns = {mint, other}
  CampaignOf <- DayCampaigns
  FleetOf <- DayFleets
  Paid = {mint, other}
  Amount <- MCAmount
  RunCap = 2
  DailyCap = 1
  PaidDailyCap = 2
  FreeDailyCap = 1
  MaxPaidWallets = 2
  Window = 3
  Skew = 1
  MaxDrift = 1
  MaxTime = 2
  Connections = {p1, p2}
  StoreRuns = {r1}
  Transactions = 3
SYMMETRY AnyProcess
INVARIANTS AllSafety CapsHold PendingIsYoung OneRowPerMint
CHECK_DEADLOCK FALSE
