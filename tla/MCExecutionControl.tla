------------------------ MODULE MCExecutionControl ------------------------
(***************************************************************************)
(* Small instances of ExecutionControl for TLC.                            *)
(***************************************************************************)
EXTENDS ExecutionControl, TLC

CONSTANTS a, b   \* two executions

OneWallet  == a :> 1               \* one run of one wallet
TwoWallets == a :> 1 @@ b :> 1     \* one run of two wallets
TwoRuns    == a :> 1 @@ b :> 2     \* two runs of one wallet each

NoRaces        == {}
ConcurrentKill == {"concurrent-kill"}
OperatorStart  == {"operator-start"}
=============================================================================
