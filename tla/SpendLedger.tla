----------------------------- MODULE SpendLedger -----------------------------
(***************************************************************************)
(* The money side of live admission on one chain: admitExecution and its   *)
(* caps (packages/backend/src/canonical-store.ts), the rolling window and  *)
(* the admission clock (packages/database/src/spend-window.ts), settlement *)
(* and release of a reservation.                                           *)
(*                                                                         *)
(* A row is the reservation of one wallet in one run.  Amounts are small   *)
(* numbers, time is counted in units of which Window make the rolling day. *)
(* The store reads the clock of the host, which may be off by MaxDrift     *)
(* either way and may be set back or forward at any moment; when money     *)
(* really leaves is told by the true time.  What a run does between        *)
(* admission and settlement is module ExecutionControl; here it is the     *)
(* external action Mine, which a reservation that is held may meet and a   *)
(* released one may not.                                                   *)
(***************************************************************************)
EXTENDS Integers, FiniteSets, FiniteSetsExt

CONSTANTS
  Runs,
  Wallets,
  Campaigns,
  CampaignOf,      \* the campaign of each run
  FleetOf,         \* the wallets each run was armed with
  Paid,            \* campaigns with a mint price
  Amount,          \* all-in exposure of one wallet, per campaign
  RunCap,          \* spendPolicy.maxRunWei
  DailyCap,        \* spendPolicy.dailyCapWei, per wallet
  PaidDailyCap,    \* fleet policy
  FreeDailyCap,
  MaxPaidWallets,
  Window,          \* ROLLING_SPEND_WINDOW_MS
  Skew,            \* ADMISSION_CLOCK_SKEW_TOLERANCE_MS
  MaxDrift,        \* bound: how far the host clock may be off
  MaxTime          \* bound: true time of a behaviour

Rows == {x \in Runs \X Wallets : x[2] \in FleetOf[x[1]]}

RunOf(x)    == x[1]
WalletOf(x) == x[2]
RowsOf(r)   == {x \in Rows : RunOf(x) = r}
Campaign(x) == CampaignOf[RunOf(x)]

ASSUME LedgerAssumption ==
  /\ IsFiniteSet(Runs) /\ IsFiniteSet(Wallets)
  /\ CampaignOf \in [Runs -> Campaigns]
  /\ FleetOf \in [Runs -> SUBSET Wallets]
  /\ Paid \subseteq Campaigns
  /\ Amount \in [Campaigns -> Nat \ {0}]
  /\ RunCap \in Nat /\ DailyCap \in Nat /\ PaidDailyCap \in Nat /\ FreeDailyCap \in Nat
  /\ MaxPaidWallets \in Nat
  /\ Window \in Nat /\ Skew \in Nat /\ Skew < Window
  /\ MaxDrift \in Nat /\ 2 * MaxDrift < Window
  /\ MaxTime \in Nat

VARIABLES
  status,     \* spend_reservation.status ("none": no row)
  created,    \* created_at, on the host clock
  settledAt,  \* settled_at, on the host clock
  watermark,  \* admission_clock_watermark.last_admission_at (0: no row)
  minedAt,    \* history: true time at which the row's transaction was mined (-1: it was not)
  time,       \* true time
  drift       \* host clock minus true time

vars == <<status, created, settledAt, watermark, minedAt, time, drift>>

clock == time + drift

TypeOK ==
  /\ status \in [Rows -> {"none", "reserved", "settled", "released"}]
  /\ created \in [Rows -> Int] /\ settledAt \in [Rows -> Int]
  /\ watermark \in Nat
  /\ minedAt \in [Rows -> Int]
  /\ time \in 0..MaxTime /\ drift \in -MaxDrift..MaxDrift

-----------------------------------------------------------------------------
(* What the queries of admission count *)

Exposure == [x \in Rows |-> Amount[Campaign(x)]]

TotalAmount(rows) == MapThenSumSet(LAMBDA x : Exposure[x], rows)

rollingSpendCutoff(at) == at - Window

(* A row counts towards the day while it is pending, however old it is, and  *)
(* after that for one window from its settlement.                            *)
Counted(x, at) ==
  status[x] = "reserved" \/ (status[x] = "settled" /\ settledAt[x] >= rollingSpendCutoff(at))

DailyRows(w, at) == {x \in Rows : WalletOf(x) = w /\ Counted(x, at)}

FleetRows(paid, at) == {x \in Rows : (Campaign(x) \in Paid) = paid /\ Counted(x, at)}

RunRows(r) == {x \in RowsOf(r) : status[x] \in {"reserved", "settled"}}

StalePending(at) == \E x \in Rows : status[x] = "reserved" /\ created[x] <= rollingSpendCutoff(at)

(* Wrong variant: the fleet total is compared before this run is added. *)
FleetCapBefore(r, fresh, at) ==
  LET paid == CampaignOf[r] \in Paid
  IN  TotalAmount(FleetRows(paid, at)) <= IF paid THEN PaidDailyCap ELSE FreeDailyCap

FleetCapOk(r, fresh, at) ==
  LET paid == CampaignOf[r] \in Paid
  IN  fresh # {} => TotalAmount(FleetRows(paid, at) \cup fresh) <= IF paid THEN PaidDailyCap ELSE FreeDailyCap

CapsOk(r, fresh, at) ==
  fresh # {} =>
    /\ TotalAmount(RunRows(r) \cup fresh) <= RunCap
    /\ \A x \in fresh : TotalAmount(DailyRows(WalletOf(x), at)) + Amount[CampaignOf[r]] <= DailyCap

(* assertPaidWalletsPerMint: with the wallets that already hold pending or   *)
(* settled money on the campaign.                                            *)
PaidWalletsOk(r) ==
  CampaignOf[r] \in Paid =>
    Cardinality({WalletOf(x) : x \in {y \in Rows : Campaign(y) = CampaignOf[r]
                                                  /\ status[y] \in {"reserved", "settled"}}}
                \cup FleetOf[r]) <= MaxPaidWallets

(* Wrong variant: a wallet whose earlier reservation was released may mint   *)
(* again.                                                                    *)
UnusedNow(x) ==
  \A y \in Rows : Campaign(y) = Campaign(x) /\ WalletOf(y) = WalletOf(x) => status[y] \in {"none", "released"}

(* UNIQUE (campaign_id, wallet_id) on execution: one record for good. *)
Unused(x) ==
  \A y \in Rows : Campaign(y) = Campaign(x) /\ WalletOf(y) = WalletOf(x) => status[y] = "none"

-----------------------------------------------------------------------------
Init ==
  /\ status = [x \in Rows |-> "none"]
  /\ created = [x \in Rows |-> 0] /\ settledAt = [x \in Rows |-> 0]
  /\ watermark = 0
  /\ minedAt = [x \in Rows |-> -1]
  /\ time = 0 /\ drift = 0

(* Wrong variant: stale pending money does not stop admission. *)
WindowOpenRegardless(at) == at + Skew >= watermark

(* assertAndAdvanceAdmissionClock and assertNoStalePendingReservations. *)
WindowOpen(at) == at + Skew >= watermark /\ ~StalePending(at)

Advanced(at) == IF at > watermark THEN at ELSE watermark

(* admitExecution, one transaction: every check passes and all rows are      *)
(* inserted, or nothing happens.  A row that is already there is kept.       *)
Admit(r) ==
  LET fresh == {x \in RowsOf(r) : status[x] = "none"}
  IN  /\ FleetOf[r] # {}
      /\ \A x \in RowsOf(r) : status[x] # "released"
      /\ \A x \in fresh : Unused(x)
      /\ WindowOpen(clock) /\ PaidWalletsOk(r)
      /\ CapsOk(r, fresh, clock) /\ FleetCapOk(r, fresh, clock)
      /\ status' = [x \in Rows |-> IF x \in fresh THEN "reserved" ELSE status[x]]
      /\ created' = [x \in Rows |-> IF x \in fresh THEN clock ELSE created[x]]
      /\ watermark' = Advanced(clock)
      /\ UNCHANGED <<settledAt, minedAt, time, drift>>

(* External: the transaction of a held row is mined. *)
Mine(x) ==
  /\ status[x] = "reserved" /\ minedAt[x] = -1
  /\ minedAt' = [minedAt EXCEPT ![x] = time]
  /\ UNCHANGED <<status, created, settledAt, watermark, time, drift>>

(* settleExecutionComponents: stamped with the host clock, no watermark. *)
Settle(x) ==
  /\ status[x] = "reserved" /\ minedAt[x] # -1
  /\ status' = [status EXCEPT ![x] = "settled"]
  /\ settledAt' = [settledAt EXCEPT ![x] = clock]
  /\ UNCHANGED <<created, watermark, minedAt, time, drift>>

Release(x) ==
  /\ status[x] = "reserved" /\ minedAt[x] = -1
  /\ status' = [status EXCEPT ![x] = "released"]
  /\ UNCHANGED <<created, settledAt, watermark, minedAt, time, drift>>

Tick ==
  /\ time < MaxTime
  /\ time' = time + 1
  /\ UNCHANGED <<status, created, settledAt, watermark, minedAt, drift>>

(* External: somebody or something sets the host clock. *)
SetClock ==
  /\ drift' \in -MaxDrift..MaxDrift \ {drift}
  /\ UNCHANGED <<status, created, settledAt, watermark, minedAt, time>>

Next ==
  \/ \E r \in Runs : Admit(r)
  \/ \E x \in Rows : Mine(x) \/ Settle(x) \/ Release(x)
  \/ Tick \/ SetClock

Spec == Init /\ [][Next]_vars

-----------------------------------------------------------------------------
(* Properties *)

(* The rows of S whose money left within Window - 2 * MaxDrift of the true   *)
(* instant t, looking back.                                                  *)
MinedWithin(S, t) == {x \in S : minedAt[x] # -1 /\ minedAt[x] \in t - (Window - 2 * MaxDrift) .. t}

(* The rolling day of a wallet: in no window of true time, shortened by what *)
(* the host clock may be off, does more than the daily cap leave a wallet,   *)
(* however late rows settle (canonical-store.ts assertCaps).                 *)
WalletDayHolds ==
  \A w \in Wallets, t \in 0..time :
    TotalAmount(MinedWithin({x \in Rows : WalletOf(x) = w}, t)) <= DailyCap

(* The same for the fleet caps of paid and of free mints, over all runs and  *)
(* campaigns (canonical-store.ts assertFleetDailyCap).                       *)
FleetDayHolds ==
  \A t \in 0..time :
    /\ TotalAmount(MinedWithin({x \in Rows : Campaign(x) \in Paid}, t)) <= PaidDailyCap
    /\ TotalAmount(MinedWithin({x \in Rows : Campaign(x) \notin Paid}, t)) <= FreeDailyCap

(* Money that stays pending for a window stops admission: two pending rows   *)
(* are never a window apart, wherever the clock has been set in between      *)
(* (spend-window.ts assertNoStalePendingReservations).                       *)
PendingIsYoung ==
  \A x, y \in Rows : status[x] = "reserved" /\ status[y] = "reserved" => created[y] - created[x] < Window

(* However many runs a paid campaign gets, at most MaxPaidWallets wallets    *)
(* hold or have spent money on it (canonical-store.ts                        *)
(* assertPaidWalletsPerMint).                                                *)
PaidWalletsBounded ==
  \A c \in Paid :
    Cardinality({WalletOf(x) : x \in {y \in Rows : Campaign(y) = c /\ status[y] \in {"reserved", "settled"}}})
      <= MaxPaidWallets

(* A wallet mints at most once for a campaign, and one whose attempt was     *)
(* released is not tried again by a later run (canonical-store.ts            *)
(* CAMPAIGN_WALLET_ALREADY_USED).                                            *)
OneRowPerMint ==
  \A x, y \in Rows :
    Campaign(x) = Campaign(y) /\ WalletOf(x) = WalletOf(y) /\ status[x] # "none" /\ status[y] # "none" => x = y

(* Every cap holds of what was really mined or is held: the rolling day of a *)
(* wallet and of the fleet, and the wallets of a paid campaign.              *)
CapsHold == WalletDayHolds /\ FleetDayHolds /\ PaidWalletsBounded
=============================================================================
