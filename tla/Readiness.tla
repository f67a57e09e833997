----------------------------- MODULE Readiness -----------------------------
(***************************************************************************)
(* The sweep that tells the owner which wallets could mint a drop          *)
(* (ReadinessSweep), the score and the quantity it plans with              *)
(* (scoreOpportunity, planFreeQuantity), and when it writes down what it   *)
(* found.  One drop; the scan's part, Discovery, has stored its facts.     *)
(*                                                                         *)
(* A sweep reads the price of gas, then wallet after wallet, and only then *)
(* decides whether its rows are news.  Balances, fees and the score move   *)
(* in between.  Wallets are numbers, in the order of their addresses.  The *)
(* alerts a sweep raises on its way are Outbox's.                          *)
(***************************************************************************)
EXTENDS Integers, Sequences, FiniteSets, FiniteSetsExt

CONSTANTS
  Purses,        \* the wallets
  WalletLimit,   \* paidMaxWalletsPerMint
  PriceLimit,    \* paidMaxPricePerNftWei
  FeeAllowance,  \* the fee allowance of one wallet, free or paid
  GasCeiling,    \* most gas of one transaction
  Catalogue,     \* drops: price, allowance per wallet, gas per quantity
  Drops,         \* of those, the ones the calendar lists in this instance
  Evidence,      \* everything the scan could know of a collection
  Prospects,     \* of that, what it knows in this instance
  Passing,       \* sets of wallets whose mint may succeed
  Amounts,       \* balances
  BaseFees,      \* base fees
  HotRefresh, ColdRefresh, \* HOT_REFRESH_MS and COLD_REFRESH_MS, in sweeps of the timer
  MaxMoves,      \* bound: changes of balance, fee or score
  MaxSlips       \* bound: restarts, failed transactions and unanswered reads

Unread == -1     \* a read the chain did not answer

ASSUME ReadinessAssumption ==
  /\ Purses \subseteq Nat /\ Prospects \subseteq Evidence /\ Drops \subseteq Catalogue /\ Amounts \union BaseFees \subseteq Nat
  /\ {WalletLimit, PriceLimit, FeeAllowance, GasCeiling, MaxMoves, MaxSlips} \subseteq Nat
  /\ {HotRefresh, ColdRefresh} \subseteq Nat \ {0} /\ HotRefresh <= ColdRefresh
\* What the wallets, a drop and the evidence are.
ASSUME CatalogueAssumption ==
  /\ IsFiniteSet(Purses)
  /\ \A d \in Catalogue : d.price \in Nat /\ d.per \in Nat /\ d.gas \in [1 .. d.per -> Nat \union {Unread}]
  /\ \A p \in Evidence : p.watching \in BOOLEAN /\ p.price \in Nat \union {Unread} /\ p.code \in {"yes", "no", "unknown"}

VARIABLES
  drop,      \* the calendar entry
  phase,     \* how far its opening is: far, cold, hot, open, ended
  prospect,  \* what the latest opportunity event was scored from
  purse,     \* balance of each wallet
  passes,    \* wallets whose mint would succeed
  baseFee,
  sweep,     \* the sweep in progress
  lastEmit,  \* what the process last marked as written
  saved,     \* the newest readiness_sweep event
  moves, slips

market == <<drop, phase, prospect, purse, passes, baseFee, moves>>
readinessVars == <<market, sweep, lastEmit, saved, slips>>

-----------------------------------------------------------------------------
(* The score: scoreOpportunity                                             *)

\* A quarter of an hour is one step of age; six hours are 24.
Freshness(age) == IF age <= 1 THEN 10 ELSE IF age >= 24 THEN 0 ELSE (20 * (24 - age) + 23) \div 46

PricePoints(price) ==
  IF price = 0 THEN 12 ELSE IF price <= PriceLimit \div 2 THEN 10
  ELSE IF price <= PriceLimit THEN 6 ELSE 0

\* Every factor has a weight; the five without a source in this repository's
\* callers (results of the past, resale value, source, age) are never known.
Factors(p) ==
  {[code |-> "track_record", known |-> FALSE, points |-> 0, max |-> 25],
   [code |-> "convergence", known |-> p.watching, max |-> 20,
    points |-> CASE p.watched >= 3 -> 20 [] p.watched = 2 -> 14 [] p.watched = 1 -> 8 [] OTHER -> 0],
   [code |-> "price", known |-> p.price # Unread, points |-> PricePoints(p.price), max |-> 12],
   [code |-> "floor_margin", known |-> FALSE, points |-> 0, max |-> 8],
   [code |-> "known_pattern", known |-> TRUE, points |-> IF p.pattern THEN 6 ELSE 0, max |-> 6],
   [code |-> "contract_code", known |-> p.code # "unknown", points |-> IF p.code = "yes" THEN 3 ELSE 0, max |-> 3],
   [code |-> "verified_source", known |-> FALSE, points |-> 0, max |-> 3],
   [code |-> "contract_age", known |-> FALSE, points |-> 0, max |-> 3],
   [code |-> "demand", known |-> TRUE, max |-> 10,
    points |-> CASE p.mints >= 50 -> 10 [] p.mints >= 10 -> 6 [] p.mints >= 1 -> 3 [] OTHER -> 0],
   [code |-> "freshness", known |-> TRUE, points |-> Freshness(p.age), max |-> 10]}

Known(p) == {f \in Factors(p) : f.known}
Available(p) == MapThenSumSet(LAMBDA f : f.max, Known(p))
Earned(p) == MapThenSumSet(LAMBDA f : f.points, Known(p))
Score(p) == (200 * Earned(p) + Available(p)) \div (2 * Available(p))
BlockedOut(p) == p.price > PriceLimit \/ p.code = "no"

\* Less than 60 points of the model known: one band lower.  A blocking risk: log.
Band(p) ==
  LET plain == IF Score(p) >= 70 THEN "proposal" ELSE IF Score(p) >= 40 THEN "notify" ELSE "log"
      sure == IF Available(p) >= 60 THEN plain ELSE IF plain = "proposal" THEN "notify" ELSE "log" IN
  IF BlockedOut(p) THEN "log" ELSE sure

\* latestScore: a blocked opportunity has none.
LatestScore == IF BlockedOut(prospect) THEN Unread ELSE Score(prospect)
PaidQuantity(score) == IF score >= 70 THEN 2 ELSE IF score >= 40 THEN 1 ELSE 0

-----------------------------------------------------------------------------
(* The quantity of a free mint: planFreeQuantity                           *)

PlanningFee(fee) == 2 * fee + 1

\* What one transaction for `q' pieces needs; Unread when the gas is not known.
GasLimit(d, q) == IF d.gas[q] = Unread THEN Unread ELSE (d.gas[q] * 12 + 9) \div 10
Fits(d, q, fee) == GasLimit(d, q) * PlanningFee(fee) <= FeeAllowance /\ GasLimit(d, q) <= GasCeiling

\* The search between low and high, as a function of the interval and the best so
\* far: the best quantity that fits, 0 for none, Unread once an estimate is missing.
Intervals(d) == (1 .. d.per + 1) \X (0 .. d.per) \X (0 .. d.per)
Searched(d, fee) ==
  LET search[s \in Intervals(d)] ==
        LET low == s[1]
            high == s[2]
            middle == (low + high) \div 2 IN
        IF low > high THEN s[3]
        ELSE IF GasLimit(d, middle) = Unread THEN Unread
        ELSE IF Fits(d, middle, fee) THEN search[<<middle + 1, high, middle>>]
        ELSE search[<<low, middle - 1, s[3]>>] IN
  search[<<1, d.per - 1, 0>>]

\* The planned quantity and why; an estimate that is missing keeps all of it.
FreePlan(d, fee) ==
  LET whole == [quantity |-> d.per, reduced |-> FALSE] IN
  IF Purses = {} \/ fee = Unread \/ GasLimit(d, d.per) = Unread \/ Fits(d, d.per, fee) THEN whole
  ELSE LET best == Searched(d, fee) IN
       IF best = Unread THEN whole ELSE [quantity |-> best, reduced |-> TRUE]

-----------------------------------------------------------------------------
(* One sweep: ReadinessSweep.tick                                          *)

NoPlan == [kind |-> "none", quantity |-> 0, required |-> 0, block |-> "", reduced |-> FALSE]

\* plan: free or paid, how many pieces, and what a wallet must hold.
PlanOf(fee) ==
  LET plan(kind, q, required, block, reduced) ==
        [kind |-> kind, quantity |-> q, required |-> required, block |-> block, reduced |-> reduced]
      free == FreePlan(drop, fee)
      byScore == PaidQuantity(LatestScore)
      paid == IF drop.per > 0 /\ drop.per < byScore THEN drop.per ELSE byScore IN
  IF drop.price = 0
  THEN IF drop.per = 0 THEN plan("free", 0, FeeAllowance, "NO_MINT_ALLOWANCE", FALSE)
       ELSE plan("free", free.quantity, FeeAllowance, IF free.quantity = 0 THEN "FEES_TOO_HIGH" ELSE "", free.reduced)
  ELSE IF drop.price > PriceLimit THEN plan("paid", 0, 0, "PRICE_ABOVE_LIMIT", FALSE)
  ELSE IF paid = 0 THEN plan("paid", 0, 0, IF LatestScore = Unread THEN "SCORE_UNKNOWN" ELSE "SCORE_TOO_LOW", FALSE)
  ELSE plan("paid", paid, drop.price * paid + FeeAllowance, "", FALSE)

Row(state, reason, balance) == [state |-> state, reason |-> reason, balance |-> balance]

\* check: what one wallet can do, from the balance and the simulation it read.
Check(plan, opens, balance, simulated) ==
  IF plan.block # ""
  THEN Row(IF plan.block \in {"NO_MINT_ALLOWANCE", "PRICE_ABOVE_LIMIT"} THEN "blocked" ELSE "skipped", plan.block, Unread)
  ELSE IF balance = Unread THEN Row("unknown", "BALANCE_UNAVAILABLE", Unread)
  ELSE IF balance < plan.required THEN Row("unfunded", "NEEDS_TOP_UP", balance)
  ELSE IF opens # "open" THEN Row("funded", "CHECK_RUNS_WHEN_OPEN", balance)
  ELSE CASE simulated = "pass" -> Row("ready", "SIMULATION_PASSED", balance)
         [] simulated = "fail" -> Row("blocked", "SIMULATION_FAILED", balance)
         [] OTHER -> Row("funded", "SIMULATION_UNAVAILABLE", balance)

\* limitPaidWallets: those that can pay come before those that cannot, the richer
\* before the poorer, the lower address before the higher.
CanPay(row) == row.state \in {"ready", "funded"}
InReach(row) == row.state \in {"ready", "funded", "unfunded"}
Before(rows, v, w) ==
  \/ CanPay(rows[v]) /\ ~CanPay(rows[w])
  \/ /\ CanPay(rows[v]) = CanPay(rows[w])
     /\ \/ rows[v].balance > rows[w].balance
        \/ rows[v].balance = rows[w].balance /\ v < w
LimitPaidWallets(rows) ==
  [w \in Purses |->
     IF InReach(rows[w])
        /\ Cardinality({v \in Purses : InReach(rows[v]) /\ Before(rows, v, w)}) >= WalletLimit
     THEN Row("skipped", "PAID_WALLET_LIMIT", rows[w].balance) ELSE rows[w]]

Judged(plan, rows) == IF plan.kind = "paid" THEN LimitPaidWallets(rows) ELSE rows
Signature(rows) == [w \in Purses |-> <<rows[w].state, rows[w].reason>>]

NoRows == [w \in Purses |-> Row("unknown", "", Unread)]
NoSweep == [pc |-> "idle", opens |-> "far", plan |-> NoPlan, next |-> {}, rows |-> NoRows]
Never == [at |-> -1, signature |-> Signature(NoRows)]

\* restoreLast: after a restart the stored sweep takes the place of the mark.
LastMark == IF lastEmit # Never \/ saved.at < 0 THEN lastEmit
            ELSE [at |-> saved.at, signature |-> Signature(saved.rows)]
Refresh == IF sweep.opens \in {"hot", "open"} THEN HotRefresh ELSE ColdRefresh

\* Wrong variant: only other rows are written again, however old the mark is.
DueWhenChanged(rows) == LastMark = Never \/ LastMark.signature # Signature(rows)

\* Rows are written when they are new, other than last time, or about to expire.
Due(rows) ==
  \/ LastMark = Never
  \/ LastMark.signature # Signature(rows)
  \/ LastMark.at >= Refresh

\* relevantDrops: it opens within a day and has not ended; others are forgotten.
Relevant == phase \in {"cold", "hot", "open"}

-----------------------------------------------------------------------------
ReadinessInit ==
  /\ drop \in Drops /\ prospect \in Prospects /\ passes \in Passing
  /\ purse \in [Purses -> Amounts] /\ baseFee \in BaseFees
  /\ phase = "far" /\ sweep = NoSweep /\ lastEmit = Never
  /\ saved = [at |-> -1, plan |-> NoPlan, rows |-> NoRows]
  /\ moves = 0 /\ slips = 0

Slip == slips < MaxSlips /\ slips' = slips + 1

\* The timer: what is remembered is one interval older, and the plan is made.
SweepBegin ==
  LET older(n) == IF n \in 0 .. ColdRefresh - 1 THEN n + 1 ELSE n IN
  /\ sweep.pc = "idle" /\ Relevant
  /\ lastEmit' = [lastEmit EXCEPT !.at = older(@)]
  /\ saved' = [saved EXCEPT !.at = older(@)]
  /\ \E fee \in {baseFee, Unread} :
       /\ IF fee = Unread THEN Slip ELSE UNCHANGED slips
       /\ sweep' = [pc |-> "check", opens |-> phase, plan |-> PlanOf(fee), next |-> Purses, rows |-> NoRows]
  /\ UNCHANGED market

\* A drop that is no longer relevant loses its mark.
SweepForgets ==
  /\ sweep.pc = "idle" /\ ~Relevant /\ lastEmit # Never
  /\ lastEmit' = Never
  /\ UNCHANGED <<market, sweep, saved, slips>>

Simulated(w) == IF w \in passes THEN "pass" ELSE "fail"

CheckWallet ==
  /\ sweep.pc = "check" /\ sweep.next # {}
  /\ LET w == Min(sweep.next) IN
     \E balance \in {purse[w], Unread}, simulated \in {Simulated(w), "unknown"} :
       /\ IF balance = Unread \/ simulated = "unknown" THEN Slip ELSE UNCHANGED slips
       /\ sweep' = [sweep EXCEPT !.next = @ \ {w},
                                 !.rows[w] = Check(sweep.plan, sweep.opens, balance, simulated)]
  /\ UNCHANGED <<market, lastEmit, saved>>

\* The rows are judged and, when due, marked as written before they are.
Judge ==
  /\ sweep.pc = "check" /\ sweep.next = {}
  /\ LET rows == Judged(sweep.plan, sweep.rows) IN
     /\ IF Due(rows)
        THEN /\ lastEmit' = [at |-> 0, signature |-> Signature(rows)]
             /\ sweep' = [sweep EXCEPT !.pc = "store", !.rows = rows]
        ELSE lastEmit' = LastMark /\ sweep' = NoSweep
  /\ UNCHANGED <<market, saved, slips>>

\* The transaction; when it fails the tick throws, and the mark stays.
SweepStore ==
  /\ sweep.pc = "store"
  /\ \/ saved' = [at |-> 0, plan |-> sweep.plan, rows |-> sweep.rows] /\ UNCHANGED slips
     \/ Slip /\ UNCHANGED saved
  /\ sweep' = NoSweep
  /\ UNCHANGED <<market, lastEmit>>

SweepCrash ==
  /\ Slip
  /\ sweep' = NoSweep /\ lastEmit' = Never
  /\ UNCHANGED <<market, saved>>

Phases == <<"far", "cold", "hot", "open", "ended">>
PhaseTurns ==
  /\ \E i \in 1 .. 4 : phase = Phases[i] /\ phase' = Phases[i + 1]
  /\ UNCHANGED <<drop, prospect, purse, passes, baseFee, moves, sweep, lastEmit, saved, slips>>

\* Money comes and goes, gas gets dearer, the scan scores anew, the drop is edited.
MarketMoves ==
  /\ moves < MaxMoves /\ moves' = moves + 1
  /\ \/ /\ \E w \in Purses, a \in Amounts : purse' = [purse EXCEPT ![w] = a]
        /\ UNCHANGED <<drop, prospect, passes, baseFee>>
     \/ baseFee' \in BaseFees /\ UNCHANGED <<drop, prospect, purse, passes>>
     \/ prospect' \in Prospects /\ UNCHANGED <<drop, purse, passes, baseFee>>
     \/ drop' \in Drops /\ UNCHANGED <<prospect, purse, passes, baseFee>>
  /\ UNCHANGED <<phase, sweep, lastEmit, saved, slips>>

Sweeping == SweepBegin \/ SweepForgets \/ CheckWallet \/ Judge \/ SweepStore
ReadinessNext == Sweeping \/ SweepCrash \/ PhaseTurns \/ MarketMoves

-----------------------------------------------------------------------------
(* Properties                                                              *)

ReadinessTypeOK ==
  /\ drop \in Drops /\ prospect \in Prospects /\ passes \in Passing
  /\ purse \in [Purses -> Amounts] /\ baseFee \in BaseFees
  /\ phase \in {Phases[i] : i \in 1 .. 5}
  /\ sweep.pc \in {"idle", "check", "store"} /\ sweep.next \subseteq Purses
  /\ lastEmit.at \in -1 .. ColdRefresh /\ saved.at \in -1 .. ColdRefresh
  /\ moves \in 0 .. MaxMoves /\ slips \in 0 .. MaxSlips

\* The gas of every quantity is known, and "gas grows with quantity" (quantity-plan.ts:79).
Estimated(d) ==
  /\ \A q \in 1 .. d.per : d.gas[q] # Unread
  /\ \A q, r \in 1 .. d.per : q <= r => d.gas[q] <= d.gas[r]

\* The binary search finds the largest quantity whose padded worst case fits the
\* allowance and one transaction, whenever there is a wallet and every estimate is known
\* (quantity-plan.ts: "the largest quantity that fits is found by binary search").
PlanIsLargest ==
  \A d \in Catalogue, fee \in BaseFees :
    Purses # {} /\ d.per > 0 /\ Estimated(d) =>
      FreePlan(d, fee).quantity = Max({0} \union {q \in 1 .. d.per : Fits(d, q, fee)})

\* A proposal rests on every kind of evidence this repository collects: with one
\* of watched wallets, price or code unknown, no score reaches the top band
\* (scoring.ts: a low-confidence score drops one band).
ProposalsAreBacked ==
  \A p \in Evidence : Band(p) = "proposal" =>
    p.watching /\ p.price # Unread /\ p.price <= PriceLimit /\ p.code = "yes"

\* A stored sweep of a paid drop keeps at most the permitted number of wallets,
\* and never one that cannot pay, or is poorer, in place of one it turned away.
BestWalletsKept ==
  saved.plan.kind = "paid" =>
    LET kept == {w \in Purses : InReach(saved.rows[w])}
        away == {w \in Purses : saved.rows[w].reason = "PAID_WALLET_LIMIT"} IN
    /\ Cardinality(kept) <= WalletLimit
    /\ \A w \in away, v \in kept :
         saved.rows[w].balance >= saved.plan.required =>
           saved.rows[v].balance >= saved.rows[w].balance
    /\ away # {} => Cardinality(kept) = WalletLimit

\* The stored sweep comes to say what is true, after any failed write, unanswered
\* read or restart, for a drop the sweep still looks at (readiness.ts:87-96).
CaughtUp ==
  LET plan == PlanOf(baseFee)
      rows == [w \in Purses |-> Check(plan, phase, purse[w], Simulated(w))] IN
  ~Relevant \/ (saved.plan = plan /\ saved.rows = Judged(plan, rows))

ReadinessSafety == ReadinessTypeOK /\ PlanIsLargest /\ ProposalsAreBacked /\ BestWalletsKept
=============================================================================
