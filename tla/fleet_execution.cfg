SPECIFICATION FairSpec
CONSTANTS
  a = a
  b = b
  NumRuns = 1
  Execs = {a, b}
  RunOf <- TwoWallets
  MaxCrashes = 1
  MaxKills = 1
  FlakyRpc = FALSE
  Races <- ConcurrentKill
INVARIANTS TypeOK NoOrphan SentIsHeld SettledIsMined KillStopsFleet RunsClose
PROPERTIES ReleaseWaits TerminalStays AnsweredSettles
CHECK_DEADLOCK FALSE
